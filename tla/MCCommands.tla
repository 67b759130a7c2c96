----------------------------- MODULE MCCommands -----------------------------
(* The sessions in which the tunnel subcommands are checked.               *)
EXTENDS Commands

ID(i) == <<"id", i>>
Name(n) == <<"name", n>>
Bare(op) == [Idle.c EXCEPT !.op = op]
Many(op, refs) == [Bare(op) EXCEPT !.refs = refs]
Plain(op, ref, file) == [Many(op, <<ref>>) EXCEPT !.file = file]
Forced(c) == [c EXCEPT !.force = TRUE]
Default(c) == [c EXCEPT !.default = TRUE]
In(c, vnet) == [c EXCEPT !.vnet = vnet]
Renames(vnet, n) == [In(Bare("update vnet"), vnet) EXCEPT !.newName = n]

(* Creating and deleting by name and by ID, with and without a file.       *)
Making ==
    {Plain("create", Name("b"), f) : f \in BOOLEAN}
    \cup {Plain("adhoc", Name("b"), FALSE)}
    \cup {Plain("delete", Name("b"), f) : f \in BOOLEAN}
    \cup {Forced(Many("delete", <<ID(2), Name("a")>>))}

(* Running with the credentials that create and token left behind, and     *)
(* with those on the command line.                                         *)
Running ==
    {Plain("create", Name("b"), FALSE), Plain("token", Name("a"), TRUE)}
    \cup {Plain("run", r, f) : r \in {ID(2), Name("a"), Name("b")}, f \in BOOLEAN}
    \cup {Plain("adhoc", Name("a"), f) : f \in BOOLEAN}
OnTheLine ==
    {Plain("create", Name("b"), FALSE), Plain("delete", Name("b"), FALSE)}
    \cup {[Plain("run", ID(2), FALSE) EXCEPT !.contents = k] :
             k \in {Credentials(NilID, 2), BadFile}}
    \cup {[Bare("run") EXCEPT !.token = k] : k \in {Credentials(2, 2), BadFile}}

(* The rest of the commands about tunnels.                                 *)
Others ==
    {Bare(op) : op \in {"login", "quick", "proxy dns", "list"}}
    \cup {Plain("create", Name("b"), FALSE), Plain("token", Name("a"), FALSE),
          Many("cleanup", <<ID(1), ID(2)>>), Many("cleanup", <<Name("a"), Name("b")>>),
          Plain("dns", Name("b"), FALSE), Plain("info", ID(2), FALSE)}

(* Routes and virtual networks, whose names and whose default move.        *)
VnetX == {NoVnet, Name("x"), ID(2)}
Networks ==
    {In(Plain("add route", ID(1), FALSE), v) : v \in VnetX}
    \cup {In(Bare("delete route"), v) : v \in VnetX}
    \cup {In(Bare("get route"), v) : v \in {NoVnet, Name("x")}}
    \cup {Bare("show routes"), Bare("list vnets")}
    \cup {In(Bare("delete vnet"), Name("x")), Forced(In(Bare("delete vnet"), Name("x"))),
          In(Bare("delete vnet"), ID(2))}
    \cup {In(Bare("add vnet"), Name(n)) : n \in {"x", "y"}}
    \cup {Default(In(Bare("add vnet"), Name("x")))}
    \cup {Renames(Name("x"), "y"), Renames(Name("y"), "x"),
          Default(Renames(ID(1), "x")), Default(Renames(Name("x"), ""))}

Session(cmds, cert0, flag, old) ==
    [given |-> cmds, cert |-> cert0, flag |-> flag, old |-> old]
MCSessions ==
    {Session(Making, "good", f, 1) : f \in {NoFile, BadFile}}
    \cup {Session(Running, "good", f, 1) :
             f \in {NoFile, Credentials(1, 1), Credentials(NilID, 1)}}
    \cup {Session(Running, "none", Credentials(1, 1), NilID)}
    \cup {Session(OnTheLine, "good", NoFile, 1)}
    \cup {Session(Others, c, NoFile, 1) : c \in {"none", "no account"}}
    \cup {Session(Networks, "good", NoFile, 1)}
=============================================================================
