------------------------------ MODULE Commands ------------------------------
(***************************************************************************)
(* The tunnel subcommands: create, run, delete, token, route and the rest, *)
(* as processes that run side by side on one host against one account.     *)
(*                                                                         *)
(* Every call to the API and every access to a file is a step of its own,  *)
(* so that two commands interleave between them; a command that is killed  *)
(* takes no further step.  A credentials file is known by the tunnel its   *)
(* TunnelID field names (NilID in a file written before the field existed) *)
(* and by the tunnel whose secret it holds.                                *)
(***************************************************************************)
EXTENDS TunnelStore, Sequences

CONSTANTS Sessions,     \* [given, cert, flag, old]: the commands a user may
                        \* give and the files there are at first
          MaxCommands   \* how many commands are given

VARIABLES files,   \* path -> the credentials in it
          cert,    \* the origin certificate: none, one without account, good
          given,   \* the commands this session draws from
          procs,   \* the commands given so far, as processes
          named    \* virtual network name -> all that ever bore it (history)
cmdVars == <<storeVars, files, cert, given, procs, named>>

Pids == 1 .. MaxCommands
CertDir == "cert dir"        \* where the origin certificate is
ConfigDir == "config dir"    \* DefaultConfigSearchDirectories
FlagPath == <<"--credentials-file", NilID>>
TunnelFilePath(id, dir) == <<dir, id>>
Paths == {FlagPath} \cup ({CertDir, ConfigDir} \X (0 .. MaxTunnels))

Credentials(id, secret) == [id |-> id, secret |-> secret]
NoFile == Credentials(NilID, NilID)
BadFile == Credentials(1, NilID)       \* not JSON
Exists(path) == files[path] # NoFile
Parses(contents) == contents.secret # NilID
Readable(path) == Parses(files[path])

IsID(ref) == ref[1] = "id"

(* The command lines urfave/cli and the checks of the arguments let        *)
(* through: the tunnel is named where the command needs one, and a tunnel  *)
(* to be created by its name.  Several are in the order in which           *)
(* splitUuids puts them, the UUIDs before the names.  The flags are        *)
(* --credentials-file, --force, --default, the new --name of a network     *)
(* ("" if not given) and, of run, --token and --credentials-contents       *)
(* (NoFile if not given).                                                  *)
Ops == {"create", "adhoc", "run", "token", "dns", "info", "delete", "cleanup",
        "login", "quick", "proxy dns", "list", "add route", "delete route",
        "get route", "show routes", "add vnet", "delete vnet", "update vnet",
        "list vnets"}
Refs == ({"id"} \X TunnelIDs) \cup ({"name"} \X TunnelNames)
NoVnet == <<"none", NilID>>
VnetRefs == {NoVnet} \cup ({"id"} \X VnetIDs) \cup ({"name"} \X VnetNames)
FileContents == [id : 0 .. MaxTunnels, secret : 0 .. MaxTunnels]
Lines == [op : Ops, refs : Seq(Refs), file : BOOLEAN, force : BOOLEAN,
          vnet : VnetRefs, default : BOOLEAN, newName : VnetNames \cup {""},
          token : FileContents, contents : FileContents]
IsCommand(c) ==
    /\ c \in Lines
    /\ c.op \in {"create", "adhoc", "run", "token", "dns", "info", "add route",
                 "delete", "cleanup"} => c.refs # <<>> \/ c.token # NoFile
    /\ c.op \in {"create", "adhoc"} => ~IsID(Head(c.refs))
    /\ c.op \in {"delete", "cleanup"} =>
          \A i, j \in DOMAIN c.refs : i < j /\ IsID(c.refs[j]) => IsID(c.refs[i])
    /\ c.op \in {"delete vnet", "update vnet"} => c.vnet # NoVnet
    /\ c.op = "add vnet" => c.vnet[1] = "name"
    /\ c.op # "run" => c.contents = NoFile /\ c.token = NoFile

CertStates == {"none", "no account", "good"}

ASSUME NamesAssumption == "" \notin VnetNames

ASSUME CommandsAssumption ==
    /\ MaxTunnels \in Nat \ {0} /\ MaxVnets \in Nat \ {0} /\ MaxCommands \in Nat
    /\ TunnelNames # {} /\ GarbledCreate \in BOOLEAN
    /\ \A s \in Sessions :
          /\ \A c \in s.given : IsCommand(c)
          /\ s.cert \in CertStates
          /\ s.flag \in FileContents
          /\ s.old \in {NilID, 1}

Idle == [c |-> [op |-> "none", refs |-> <<>>, file |-> FALSE, force |-> FALSE,
                vnet |-> NoVnet, default |-> FALSE, newName |-> "",
                token |-> NoFile, contents |-> NoFile],
         pc |-> "idle", ids |-> <<>>, id |-> NilID, vnet |-> NilID,
         client |-> FALSE, made |-> NilID, wrote |-> FALSE, lost |-> FALSE,
         creds |-> NoFile, exit |-> "none"]

CommandsInit ==
    /\ tunnels = [i \in TunnelIDs |->
           IF i = 1 THEN [name |-> CHOOSE n \in TunnelNames : TRUE,
                          state |-> "live", conns |-> TRUE]
           ELSE [name |-> "", state |-> "unused", conns |-> FALSE]]
    /\ hosts = NilID
    /\ vnets = [i \in VnetIDs |->
           IF i = FirstVnet THEN [name |-> "default", state |-> "live"]
           ELSE [name |-> "", state |-> "unused"]]
    /\ defaultVnet = FirstVnet
    /\ routes = [i \in VnetIDs |-> NilID]
    /\ \E s \in Sessions :
          /\ given = s.given
          /\ cert = s.cert
          /\ files = [p \in Paths |->
              CASE p = FlagPath -> s.flag
                [] p = TunnelFilePath(1, ConfigDir) -> Credentials(s.old, 1)
                [] OTHER -> NoFile]
    /\ procs = [p \in Pids |-> Idle]
    /\ named = [n \in VnetNames |-> {v \in Live(vnets) : vnets[v].name = n}]

-----------------------------------------------------------------------------
(* The steps of a command.                                                 *)
At(p, pc) == procs[p].pc = pc
Op(p) == procs[p].c.op
Ref(p) == Head(procs[p].c.refs)
Go(p, r) == procs' = [procs EXCEPT ![p] = r]
Goto(p, pc) == Go(p, [procs[p] EXCEPT !.pc = pc])
Exited(r, code) == [r EXCEPT !.pc = "exited", !.exit = code]
Exit(p, code) == Go(p, Exited(procs[p], code))

(* client() reads the certificate once and needs one with an account.      *)
HasClient(p) == procs[p].client \/ cert = "good"
WithClient(p) == [procs[p] EXCEPT !.client = TRUE]
NoClient(p) == ~HasClient(p) /\ Exit(p, "error") /\ UNCHANGED storeVars
ReadFails(p) == HasClient(p) /\ Exit(p, "error") /\ UNCHANGED storeVars

FirstStep(c) ==
    CASE c.op = "create" -> "create"
      [] c.op \in {"adhoc", "quick", "proxy dns"} -> "tunnel"
      [] c.op = "run" -> IF c.token = NoFile THEN "findID" ELSE "runToken"
      [] c.op \in {"token", "dns", "info", "add route"} -> "findID"
      [] c.op \in {"delete", "cleanup"} -> "findIDs"
      [] c.op \in {"delete route", "get route", "delete vnet", "update vnet"} ->
             "getVnetId"
      [] OTHER -> c.op      \* login, add vnet and the lists

Give(p) ==
    /\ At(p, "idle") /\ \A q \in Pids : q < p => ~At(q, "idle")
    /\ \E c \in given : Go(p, [Idle EXCEPT !.c = c, !.pc = FirstStep(c)])
    /\ UNCHANGED <<storeVars, files, cert, named>>

-----------------------------------------------------------------------------
(* Finding a tunnel and its credentials file.                              *)
Active(name) == Matches(tunnels, ByName(NoDeleted(NewTunnelFilter), name))

AfterID(p) ==
    CASE Op(p) = "run" -> "findCredentials"
      [] Op(p) = "token" -> "token"
      [] Op(p) = "dns" -> "route"
      [] Op(p) = "info" -> "info"
      [] OTHER -> "getVnetId"
Found(p, r, id) == Go(p, [r EXCEPT !.id = id, !.pc = AfterID(p)])

(* A name yields to the TunnelID of the file given with                    *)
(* --credentials-file, whatever the name is.                               *)
FlagFileID(p) == IF procs[p].c.file /\ Readable(FlagPath)
                 THEN files[FlagPath].id ELSE NilID
AskTunnelstore(p, name) ==
    \/ NoClient(p)
    \/ ReadFails(p)
    \/ /\ HasClient(p) /\ Active(name) # {}
       /\ \E id \in Active(name) : Found(p, WithClient(p), id)
       /\ UNCHANGED storeVars
FindID(p) ==
    /\ At(p, "findID")
    /\ CASE IsID(Ref(p)) -> Found(p, procs[p], Ref(p)[2]) /\ UNCHANGED storeVars
         [] ~IsID(Ref(p)) /\ FlagFileID(p) # NilID ->
                Found(p, procs[p], FlagFileID(p)) /\ UNCHANGED storeVars
         [] OTHER -> AskTunnelstore(p, Ref(p)[2])
    /\ UNCHANGED <<files, cert, named>>

(* findIDs takes the UUIDs, which come first, and then asks for one name   *)
(* after another.                                                          *)
FindIDs(p) ==
    /\ At(p, "findIDs")
    /\ LET refs == procs[p].c.refs
           ref == refs[Len(procs[p].ids) + 1]
           next == IF Len(procs[p].ids) + 1 < Len(refs) THEN "findIDs"
                   ELSE IF Op(p) = "delete" THEN "GetTunnel" ELSE "cleanup"
       IN  IF IsID(ref)
           THEN /\ Go(p, [procs[p] EXCEPT !.pc = next, !.ids = Append(@, ref[2])])
                /\ UNCHANGED storeVars
           ELSE \/ NoClient(p)
                \/ ReadFails(p)
                \/ /\ HasClient(p) /\ UNCHANGED storeVars
                   /\ LET found == Active(ref[2])
                      IN  IF Cardinality(found) = 1
                          THEN Go(p, [WithClient(p) EXCEPT !.pc = next,
                                   !.ids = Append(@, CHOOSE i \in found : TRUE)])
                          ELSE Exit(p, "error")
    /\ UNCHANGED <<files, cert, named>>

(* CredFinder: the path of the flag if a file is there; else <id>.json in  *)
(* the directory of the certificate, then in the default directories.      *)
SearchDirs == IF cert = "none" THEN <<ConfigDir>> ELSE <<CertDir, ConfigDir>>
SearchByID(id) ==
    LET hit(k) == Exists(TunnelFilePath(id, SearchDirs[k]))
    IN  {TunnelFilePath(id, SearchDirs[k]) :
            k \in {i \in DOMAIN SearchDirs : hit(i) /\ \A j \in 1 .. i - 1 : ~hit(j)}}
StaticPath == IF Exists(FlagPath) THEN {FlagPath} ELSE {}
CredentialFinder(p, id) ==
    IF procs[p].c.file THEN StaticPath ELSE SearchByID(id)

(* StartServer, see Process: the edge accepts whom the secret proves to be *)
(* the tunnel.                                                             *)
Connected(id, secret) ==
    IF id = secret /\ id \in Live(tunnels)
    THEN [tunnels EXCEPT ![id].conns = TRUE] ELSE tunnels
RunWithCredentials(p, creds) ==
    /\ tunnels' = Connected(creds.id, creds.secret)
    /\ Go(p, Exited([procs[p] EXCEPT !.creds = creds], "serving"))

(* findCredentials takes --credentials-contents before any file, and       *)
(* writes the ID it was asked for over the one it finds there.             *)
FindCredentials(p) ==
    /\ At(p, "findCredentials")
    /\ LET found == IF procs[p].c.contents # NoFile THEN {procs[p].c.contents}
                    ELSE {files[path] : path \in CredentialFinder(p, procs[p].id)}
       IN  \/ /\ found = {} \/ \E creds \in found : ~Parses(creds)
              /\ Exit(p, "error") /\ UNCHANGED tunnels
           \/ \E creds \in found :
              Parses(creds)
              /\ RunWithCredentials(p, Credentials(procs[p].id, creds.secret))
    /\ UNCHANGED <<hosts, routes, vnets, defaultVnet, files, cert, named>>

(* run --token: no tunnel is looked for, no file is read.                  *)
RunToken(p) ==
    /\ At(p, "runToken")
    /\ IF Parses(procs[p].c.token) THEN RunWithCredentials(p, procs[p].c.token)
       ELSE Exit(p, "error") /\ UNCHANGED tunnels
    /\ UNCHANGED <<hosts, routes, vnets, defaultVnet, files, cert, named>>

-----------------------------------------------------------------------------
(* tunnel create, and the part of it that the ad hoc tunnel runs.          *)

(* A secret that does not decode or is short stops it before the API call. *)
CreateStarts(p) ==
    /\ At(p, "create")
    /\ IF HasClient(p) THEN Go(p, [WithClient(p) EXCEPT !.pc = "CreateTunnel"])
                       ELSE Exit(p, "error")
    /\ UNCHANGED <<storeVars, files, cert, named>>
BadSecret(p) ==
    /\ At(p, "create") /\ Op(p) = "create" /\ HasClient(p)
    /\ Exit(p, "error")
    /\ UNCHANGED <<storeVars, files, cert, named>>

CreateTunnel(p) ==
    /\ At(p, "CreateTunnel")
    /\ \/ Exit(p, "error") /\ UNCHANGED storeVars     \* refused, or a conflict
       \/ \E id \in TunnelIDs, o \in CreateOutcomes \ {"refused"} :
          /\ StoreTunnel(Ref(p)[2], id)
          /\ LET r == [procs[p] EXCEPT !.made = id]
             IN  IF CreateSucceeds(o)
                 THEN Go(p, [r EXCEPT !.id = CreatedID(o, id), !.pc = "stat"])
                 ELSE Go(p, Exited([r EXCEPT !.lost = TRUE], "error"))
    /\ UNCHANGED <<files, cert, named>>

(* writeTunnelCredentials looks whether the file exists, then writes it.   *)
WritePath(p) == IF procs[p].c.file THEN FlagPath
                ELSE TunnelFilePath(procs[p].id, CertDir)
Wrote(p) ==
    LET r == [procs[p] EXCEPT !.wrote = TRUE]
    IN  \/ Op(p) = "adhoc" /\ Go(p, [r EXCEPT !.pc = "route"])
        \/ Op(p) # "adhoc" /\ Go(p, Exited(r, "ok"))
        \/ Op(p) = "create" /\ Go(p, Exited(r, "error"))  \* unknown --output

(* IgnoresWriteErrorBug reports a success although nothing was written.    *)
IgnoresWriteErrorBug(p) == Wrote(p)
WriteFails(p) == IF Op(p) = "token" THEN Exit(p, "error") ELSE Goto(p, "rollback")
Stat(p) ==
    /\ At(p, "stat")
    /\ \/ ~Exists(WritePath(p)) /\ Goto(p, "write")
       \/ WriteFails(p)               \* there already, or os.Stat fails
    /\ UNCHANGED <<storeVars, files, cert, named>>

Secret(p) == IF Op(p) = "token" THEN procs[p].id ELSE procs[p].made
Write(p) ==
    /\ At(p, "write")
    /\ \/ WriteFails(p) /\ UNCHANGED files
       \/ /\ files' = [files EXCEPT ![WritePath(p)] =
                                        Credentials(procs[p].id, Secret(p))]
          /\ Wrote(p)
    /\ UNCHANGED <<storeVars, cert, named>>

(* NoRollbackBug leaves the tunnel whose credentials could not be written. *)
NoRollbackBug(p) ==
    /\ At(p, "rollback") /\ Exit(p, "error")
    /\ UNCHANGED <<storeVars, files, cert, named>>
Rollback(p) ==
    /\ At(p, "rollback")
    /\ \E o \in Outcomes :
       /\ DeleteTunnel(procs[p].id, o)
       /\ Go(p, Exited([procs[p] EXCEPT !.lost = @ \/ ~StatusIsOK(o)], "error"))
    /\ UNCHANGED <<files, cert, named>>

(* tunnel without a subcommand.  With --name it is an ad hoc tunnel, unless*)
(* the hostname is invalid or the same as the url.  A quick tunnel is      *)
(* started before anything is looked at; the DNS proxy is refused beside a *)
(* quick tunnel, beside a tunnel in the configuration file and with the    *)
(* hostname of a classic tunnel.                                           *)
TunnelCommand(p) ==
    /\ At(p, "tunnel")
    /\ \/ Op(p) \in {"adhoc", "proxy dns"} /\ Exit(p, "error")
       \/ Op(p) = "adhoc" /\ Goto(p, "tunnelActive")
       \/ Op(p) = "quick" /\ Goto(p, "quick")
       \/ Op(p) = "proxy dns" /\ Exit(p, "serving")
    /\ UNCHANGED <<storeVars, files, cert, named>>

(* runAdhocNamedTunnel takes an error of the lookup for "no such tunnel".  *)
TunnelActive(p) ==
    /\ At(p, "tunnelActive")
    /\ LET name == Ref(p)[2]
       IN  \/ Goto(p, "create")
              \* no client, an API error, or nothing found
           \/ /\ HasClient(p)
              /\ \E id \in Active(name) :
                 Go(p, [WithClient(p) EXCEPT !.id = id, !.pc = "route"])
    /\ UNCHANGED <<storeVars, files, cert, named>>

(* route dns and route lb; the ad hoc tunnel goes on without its route.    *)
Route(p) ==
    /\ At(p, "route")
    /\ \/ /\ Op(p) = "dns"
          /\ NoClient(p)
       \/ \E o \in Outcomes :
          /\ HasClient(p) /\ RouteTunnel(procs[p].id, o)
          /\ CASE Op(p) = "adhoc" -> Goto(p, "findCredentials")
               [] Op(p) # "adhoc" /\ ParsesResponse(o) -> Exit(p, "ok")
               [] OTHER -> Exit(p, "error")
       \/ /\ Op(p) = "adhoc"            \* no --hostname
          /\ Goto(p, "findCredentials") /\ UNCHANGED storeVars
    /\ UNCHANGED <<files, cert, named>>

-----------------------------------------------------------------------------
(* tunnel delete, one ID after another.                                    *)
DelID(p) == Head(procs[p].ids)
GetTunnel(p) ==
    /\ At(p, "GetTunnel")
    /\ \/ NoClient(p)
       \/ ReadFails(p)                \* no such tunnel, or deleted already
       \/ /\ HasClient(p) /\ DelID(p) \in Live(tunnels)
          /\ Go(p, [WithClient(p) EXCEPT !.pc =
                       IF procs[p].c.force THEN "CleanupForce" ELSE "DeleteTunnel"])
          /\ UNCHANGED storeVars
    /\ UNCHANGED <<files, cert, named>>

CleanupForce(p) ==
    /\ At(p, "CleanupForce")
    /\ \E o \in Outcomes :
       /\ CleanupConnections(DelID(p), o)
       /\ IF StatusIsOK(o) THEN Goto(p, "DeleteTunnel") ELSE Exit(p, "error")
    /\ UNCHANGED <<files, cert, named>>

(* GoesOnBug is a delete that does not stop at an error of the API.        *)
GoesOnBug(o) == FALSE
DeleteStops(o) == ~StatusIsOK(o)
DeleteCall(p) ==
    /\ At(p, "DeleteTunnel")
    /\ \E o \in Outcomes :
       /\ DeleteTunnel(DelID(p), o)
       /\ IF DeleteStops(o) THEN Exit(p, "error") ELSE Goto(p, "RemoveFile")
    /\ UNCHANGED <<files, cert, named>>

RemoveFile(p) ==
    /\ At(p, "RemoveFile")
    /\ \/ UNCHANGED files             \* none found, or os.Remove fails
       \/ \E path \in CredentialFinder(p, DelID(p)) :
          files' = [files EXCEPT ![path] = NoFile]
    /\ LET rest == Tail(procs[p].ids)
       IN  IF rest = <<>> THEN Exit(p, "ok")
           ELSE Go(p, [procs[p] EXCEPT !.ids = rest, !.pc = "GetTunnel"])
    /\ UNCHANGED <<storeVars, cert, named>>

(* tunnel cleanup logs its errors and goes on.                             *)
Cleanup(p) ==
    /\ At(p, "cleanup")
    /\ \/ NoClient(p)
       \/ \E o \in Outcomes :
          /\ HasClient(p) /\ CleanupConnections(DelID(p), o)
          /\ LET rest == Tail(procs[p].ids)
             IN  IF rest = <<>> THEN Exit(p, "ok")
                 ELSE Go(p, [WithClient(p) EXCEPT !.ids = rest])
    /\ UNCHANGED <<files, cert, named>>

(* tunnel token fetches the credentials of a live tunnel and prints them,  *)
(* or writes them to the file of the flag.                                 *)
Token(p) ==
    /\ At(p, "token")
    /\ \/ NoClient(p)
       \/ ReadFails(p)
       \/ /\ HasClient(p) /\ procs[p].id \in Live(tunnels) /\ UNCHANGED storeVars
          /\ IF procs[p].c.file THEN Go(p, [WithClient(p) EXCEPT !.pc = "stat"])
                                ELSE Exit(p, "ok")
    /\ UNCHANGED <<files, cert, named>>

(* The commands that only read; an invalid filter, an API error or an      *)
(* unknown sort field or format is reported.  getTunnel insists on one     *)
(* tunnel with the ID.                                                     *)
Reads(p, pc, finds) ==
    /\ At(p, pc)
    /\ \/ HasClient(p) /\ finds /\ Exit(p, "ok")
       \/ Exit(p, "error")
    /\ UNCHANGED <<storeVars, files, cert, named>>
ListCommand(p) == Reads(p, "list", TRUE)
GetTunnelByID(id) == Matches(tunnels, ByTunnelID(NewTunnelFilter, id))
TunnelInfo(p) == Reads(p, "info", Cardinality(GetTunnelByID(procs[p].id)) = 1)
ShowRoutesCommand(p) == Reads(p, "show routes", TRUE)
GetRouteByIPCommand(p) == Reads(p, "get route", TRUE)
ListVirtualNetworksCommand(p) == Reads(p, "list vnets", TRUE)

(* A quick tunnel is asked for without credentials and run with those of   *)
(* the answer; the service is not the account's backend.                   *)
QuickTunnel(p) ==
    /\ At(p, "quick")
    /\ \/ Exit(p, "error")
       \/ Exit(p, "serving")
    /\ UNCHANGED <<storeVars, files, cert, named>>

(* login looks for a certificate, fetches one through the browser, and     *)
(* writes it.                                                              *)
Login(p) ==
    /\ At(p, "login")
    /\ IF cert = "none" THEN Goto(p, "transfer") ELSE Exit(p, "ok")
    /\ UNCHANGED <<storeVars, files, cert, named>>
Transfer(p) ==
    /\ At(p, "transfer")
    /\ \/ Exit(p, "error") /\ UNCHANGED cert
       \/ Exit(p, "ok") /\ cert' = "good"
    /\ UNCHANGED <<storeVars, files, named>>

-----------------------------------------------------------------------------
(* route ip and network: a virtual network is found by its ID or by name,  *)
(* then changed.                                                           *)
VnetsNamed(name) == Matches(vnets, ByName(NoDeleted(NewVnetFilter), name))
GetVnetId(p) ==
    LET ref == procs[p].c.vnet
        next(r, v) == Go(p, [r EXCEPT !.vnet = v, !.pc = Op(p)])
    IN  /\ At(p, "getVnetId")
        /\ \/ ref = NoVnet /\ next(procs[p], NilID)
           \/ ref[1] = "id" /\ next(procs[p], ref[2])
           \/ ref[1] = "name" /\ Exit(p, "error")  \* the list call fails, or not one
           \/ /\ ref[1] = "name" /\ HasClient(p)
              /\ Cardinality(VnetsNamed(ref[2])) = 1
              /\ \E v \in VnetsNamed(ref[2]) : next(WithClient(p), v)
        /\ UNCHANGED <<storeVars, files, cert, named>>

(* The call that each of the commands ends with.                           *)
Ends(p, o) == Exit(p, IF ParsesResponse(o) THEN "ok" ELSE "error")
Bears(tab) == [n \in VnetNames |->
                  named[n] \cup {v \in Live(tab) : tab[v].name = n}]

AddRouteCommand(p, o) ==
    /\ At(p, "add route")
    /\ AddRoute(procs[p].id, procs[p].vnet, o) /\ Ends(p, o)
    /\ UNCHANGED named
DeleteRouteCommand(p, o) ==
    /\ At(p, "delete route")
    /\ DeleteRoute(procs[p].vnet, o) /\ Ends(p, o)
    /\ UNCHANGED named
AddVirtualNetworkCommand(p, o) ==
    /\ At(p, "add vnet")
    /\ \E v \in VnetIDs :
          CreateVirtualNetwork(procs[p].c.vnet[2], v, procs[p].c.default, o)
    /\ Ends(p, o) /\ named' = Bears(vnets')
DeleteVirtualNetworkCommand(p, o) ==
    /\ At(p, "delete vnet")
    /\ DeleteVirtualNetwork(procs[p].vnet, procs[p].c.force, o) /\ Ends(p, o)
    /\ UNCHANGED named
UpdateVirtualNetworkCommand(p, o) ==
    /\ At(p, "update vnet")
    /\ UpdateVirtualNetwork(procs[p].vnet, procs[p].c.newName,
                            procs[p].c.default, o)
    /\ Ends(p, o) /\ named' = Bears(vnets')

Network(p) ==
    /\ \/ \E o \in Outcomes :
          /\ HasClient(p)
          /\ \/ AddRouteCommand(p, o) \/ DeleteRouteCommand(p, o)
             \/ AddVirtualNetworkCommand(p, o)
             \/ DeleteVirtualNetworkCommand(p, o)
             \/ UpdateVirtualNetworkCommand(p, o)
       \/ /\ procs[p].pc \in {"add route", "delete route", "add vnet",
                              "delete vnet", "update vnet"}
          /\ NoClient(p) /\ UNCHANGED named
    /\ UNCHANGED <<files, cert>>

-----------------------------------------------------------------------------
Step(p) ==
    \/ FindID(p) \/ FindIDs(p) \/ FindCredentials(p) \/ RunToken(p)
    \/ CreateStarts(p) \/ BadSecret(p) \/ CreateTunnel(p)
    \/ Stat(p) \/ Write(p) \/ Rollback(p)
    \/ TunnelCommand(p) \/ TunnelActive(p) \/ Route(p)
    \/ GetTunnel(p) \/ CleanupForce(p) \/ DeleteCall(p) \/ RemoveFile(p)
    \/ Cleanup(p) \/ Token(p) \/ QuickTunnel(p) \/ Login(p) \/ Transfer(p)
    \/ ListCommand(p) \/ TunnelInfo(p) \/ ShowRoutesCommand(p)
    \/ GetRouteByIPCommand(p) \/ ListVirtualNetworksCommand(p)
    \/ GetVnetId(p) \/ Network(p)

CommandsNext ==
    /\ \E p \in Pids : Give(p) \/ Step(p)
    /\ UNCHANGED given

CommandsSpec == CommandsInit /\ [][CommandsNext]_cmdVars

-----------------------------------------------------------------------------
Creates(p) == Op(p) \in {"create", "adhoc"}
FlagShared(p) == \E q \in Pids \ {p} : procs[q].c.file

(* A tunnel whose creation was reported as a success can be run: it is in  *)
(* the account, and the file cloudflared said it wrote holds its ID and    *)
(* its secret, until the tunnel is deleted.  When --credentials-file was   *)
(* given, another command of the user may have been given the same file.   *)
CreatedIsRunnable ==
    \A p \in Pids :
        Op(p) = "create" /\ procs[p].exit = "ok" =>
            LET id == procs[p].made
            IN  /\ id # NilID
                /\ \/ tunnels[id].state = "deleted"
                   \/ files[WritePath(p)] = Credentials(id, id)
                   \/ procs[p].c.file /\ FlagShared(p)

(* A create that ended leaves no tunnel that cannot be run: without its    *)
(* credentials on disk the tunnel is deleted again, unless an answer of    *)
(* the API was lost or the deletion failed, which the user is told.        *)
NoOrphanTunnel ==
    \A p \in Pids :
        /\ Creates(p) /\ procs[p].exit \in {"ok", "error", "serving"}
        /\ procs[p].made # NilID /\ ~procs[p].wrote /\ ~procs[p].lost
        => tunnels[procs[p].made].state = "deleted"

(* The credentials file of a tunnel that still exists is neither removed   *)
(* nor written over: writeTunnelCredentials only writes a file that is not *)
(* there, delete only removes the file of what it deleted.  The file of    *)
(* --credentials-file is what the user says it is: it can be removed for   *)
(* another tunnel, and be written by two commands at once.                 *)
CredentialsKept ==
    [][\A path \in Paths \ {FlagPath} :
          files[path] # NoFile /\ files'[path] # files[path] =>
             files'[path] = NoFile /\ tunnels[files[path].secret].state = "deleted"]_cmdVars

(* A route is added to and removed from the virtual network that was       *)
(* given: by its ID that one, by a name one that bore it, however names    *)
(* move meanwhile; and when none was given, the network that is the        *)
(* account's default when the backend changes the route, though network    *)
(* add and update --default move the default while the command runs.       *)
Changed(v) == routes[v] # routes'[v]
Scope(ref) ==
    CASE ref[1] = "none" -> {defaultVnet}
      [] ref[1] = "id" -> {ref[2]}
      [] ref[1] = "name" -> named[ref[2]]
RoutesScoped ==
    [][\A p \in Pids, v \in VnetIDs :
          Changed(v) /\ procs[p] # procs'[p]
          /\ procs[p].pc \in {"add route", "delete route"} =>
             v \in Scope(procs[p].c.vnet)]_cmdVars

(* A command changes only what it was asked about: the credentials of      *)
(* deleted tunnels, the routes of the network that was named.              *)
OnlyWhatWasAsked == CredentialsKept /\ RoutesScoped
=============================================================================
