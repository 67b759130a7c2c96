--------------------------- MODULE CommandsProofs ---------------------------
(***************************************************************************)
(* Proofs about Commands, for any number of commands of any session,       *)
(* tunnels, networks and names.                                            *)
(*                                                                         *)
(* What the properties say of a command that ended rests on what it may    *)
(* assume at each of its steps while the others run: which command is at   *)
(* that step, that the tunnel it made is nobody else's, and that nobody    *)
(* else writes the credentials file named after that tunnel.               *)
(***************************************************************************)
EXTENDS Commands, FiniteSetTheorems, TLAPS

PCs == {"idle", "exited", "findID", "findIDs", "findCredentials", "runToken",
        "create", "CreateTunnel", "stat", "write", "rollback", "tunnel", "tunnelActive",
        "route", "GetTunnel", "CleanupForce", "DeleteTunnel", "RemoveFile", "cleanup",
        "token", "info", "quick", "login", "transfer", "list", "getVnetId",
        "add route", "delete route", "get route", "show routes", "add vnet",
        "delete vnet", "update vnet", "list vnets"}
Exits == {"none", "ok", "error", "serving"}
States == {"unused", "live", "deleted"}
IDs == 0 .. MaxTunnels

Procs == [c : Lines \cup {Idle.c}, pc : PCs, ids : Seq(TunnelIDs), id : IDs,
          vnet : 0 .. MaxVnets, client : BOOLEAN, made : IDs, wrote : BOOLEAN,
          lost : BOOLEAN, creds : FileContents, exit : Exits]

StoreType ==
    /\ tunnels \in [TunnelIDs -> [name : TunnelNames \cup {""}, state : States,
                                  conns : BOOLEAN]]
    /\ hosts \in IDs
    /\ routes \in [VnetIDs -> IDs]
    /\ vnets \in [VnetIDs -> [name : VnetNames \cup {"", "default"},
                              state : States]]
    /\ defaultVnet \in VnetIDs
HostType ==
    /\ files \in [Paths -> FileContents]
    /\ cert \in CertStates
    /\ \A c \in given : IsCommand(c)
    /\ named \in [VnetNames -> SUBSET VnetIDs]
TypeOK == StoreType /\ HostType /\ procs \in [Pids -> Procs]

MakesTunnel(r) == r.c.op \in {"create", "adhoc"}

(* Which commands come to which step.                                      *)
ProgramOrder(r) ==
    /\ r.pc = "idle" => r = Idle
    /\ r.pc \in {"idle", "exited"} \/ IsCommand(r.c)
    /\ r.pc \in {"create", "CreateTunnel", "rollback"} => MakesTunnel(r)
    /\ r.pc = "tunnelActive" => r.c.op = "adhoc"
    /\ r.pc \in {"stat", "write"} => MakesTunnel(r) \/ (r.c.op = "token" /\ r.c.file)
    /\ r.pc = "tunnel" => r.c.op \in {"adhoc", "quick", "proxy dns"}
    /\ r.pc = "runToken" => r.c.op = "run"
    /\ r.pc = "findID" =>
          r.c.op \in {"run", "token", "dns", "info", "add route"} /\ r.c.refs # <<>>
    /\ r.pc = "findCredentials" => r.c.op \in {"run", "adhoc"}
    /\ r.pc = "route" => r.c.op \in {"dns", "adhoc"}
    /\ r.pc = "getVnetId" => r.c.op \in {"add route", "delete route", "get route",
                                         "delete vnet", "update vnet"}
    /\ r.pc = "findIDs" =>
          r.c.op \in {"delete", "cleanup"} /\ Len(r.ids) < Len(r.c.refs)
    /\ r.pc \in {"GetTunnel", "CleanupForce", "DeleteTunnel", "RemoveFile"} =>
          r.c.op = "delete" /\ r.ids # <<>>
    /\ r.pc = "cleanup" => r.c.op = "cleanup" /\ r.ids # <<>>
    /\ r.pc = "transfer" => r.c.op = "login"
    /\ r.pc \in {"token", "info", "quick", "login", "list", "add route",
                 "delete route", "get route", "show routes", "add vnet",
                 "delete vnet", "update vnet", "list vnets"} => r.c.op = r.pc

(* What a command has made and written when it is at a step: between the   *)
(* two it is on its way to the file, or the tunnel is taken back.          *)
Makes(r) ==
    /\ r.exit = "none" <=> r.pc # "exited"
    /\ r.made # NilID /\ ~r.wrote => r.pc \in {"stat", "write", "rollback", "exited"}
    /\ r.wrote => r.pc \in {"route", "findCredentials", "exited"}
    /\ r.pc \in {"stat", "write", "rollback"} /\ MakesTunnel(r) =>
          r.made # NilID /\ (r.id = r.made \/ (GarbledCreate /\ r.id = NilID))
    /\ r.c.op = "create" /\ r.exit = "ok" =>
          r.wrote /\ r.made # NilID /\ (r.id = r.made \/ GarbledCreate)

(* The tunnel a command made exists until it is deleted; one that was not  *)
(* given its file was deleted when the command ended, if no answer was     *)
(* lost.                                                                   *)
MadeIn(r, tab) ==
    r.made # NilID =>
        /\ tab[r.made].state # "unused"
        /\ (MakesTunnel(r) /\ r.pc = "exited" /\ ~r.wrote /\ ~r.lost =>
               tab[r.made].state = "deleted")
MadeOK(r) == MadeIn(r, tunnels)

(* A file is removed after the tunnel was deleted.                         *)
RemovesDeleted(r, tab) ==
    r.pc = "RemoveFile" =>
        Head(r.ids) \in TunnelIDs /\ tab[Head(r.ids)].state = "deleted"
RemoveOK(r) == RemovesDeleted(r, tunnels)

(* The network of a route is the one given, or bore the name given.        *)
VnetBore(r, names) ==
    /\ r.pc \in {"idle", "findID", "getVnetId"} => r.vnet = NilID
    /\ r.pc \in {"add route", "delete route"} =>
          /\ r.c.vnet[1] = "none" => r.vnet = NilID
          /\ r.c.vnet[1] = "id" => r.vnet = r.c.vnet[2]
          /\ r.c.vnet[1] = "name" => r.vnet \in names[r.c.vnet[2]]
VnetOK(r) == VnetBore(r, named)

ProcOK(r) ==
    ProgramOrder(r) /\ Makes(r) /\ MadeOK(r) /\ RemoveOK(r) /\ VnetOK(r)

(* No two commands make the same tunnel.                                   *)
MadeOnce ==
    \A p, q \in Pids :
        p # q /\ procs[p].made # NilID => procs[p].made # procs[q].made
NotMadeYet ==
    \A p \in Pids, i \in TunnelIDs :
        tunnels[i].state = "unused" => procs[p].made # i

(* Beside the certificate the file named after a tunnel holds its ID and   *)
(* its secret, and is not there before the command that made the tunnel    *)
(* wrote it.                                                               *)
CertFile(i) == files[TunnelFilePath(i, CertDir)]
ConfigFile(i) == files[TunnelFilePath(i, ConfigDir)]
FilesOK ==
    /\ \A i \in IDs : CertFile(i) \in {NoFile, Credentials(i, i)}
    /\ \A i \in IDs : ConfigFile(i) # NoFile => ConfigFile(i).secret = i
    /\ \A i \in TunnelIDs : tunnels[i].state = "unused" => CertFile(i) = NoFile
    /\ \A p \in Pids : procs[p].made # NilID /\ ~procs[p].wrote =>
          CertFile(procs[p].made) = NoFile

(* The history holds all that bear a name now.                             *)
NamedOK ==
    \A n \in VnetNames, v \in VnetIDs :
        vnets[v].state = "live" /\ vnets[v].name = n => v \in named[n]

IInv ==
    /\ TypeOK
    /\ \A p \in Pids : ProcOK(procs[p])
    /\ MadeOnce /\ NotMadeYet /\ NamedOK
    /\ GarbledCreate \/ (FilesOK /\ CreatedIsRunnable)

-----------------------------------------------------------------------------
(* What is known of the constants.                                         *)
LEMMA Numbers ==
    /\ MaxTunnels \in Nat \ {0} /\ MaxVnets \in Nat \ {0} /\ MaxCommands \in Nat
    /\ TunnelIDs \subseteq Nat /\ VnetIDs \subseteq Nat /\ Pids \subseteq Nat
    /\ TunnelIDs = IDs \ {NilID} /\ VnetIDs = 0 .. MaxVnets \ {NilID}
    /\ 1 \in TunnelIDs /\ FirstVnet \in VnetIDs /\ NilID \in IDs
    /\ NilID \in 0 .. MaxVnets /\ GarbledCreate \in BOOLEAN
BY CommandsAssumption, SMT
   DEF CommandsAssumption, TunnelIDs, VnetIDs, Pids, IDs, NilID, FirstVnet

(* How a virtual network is given.                                         *)
LEMMA VnetRefFacts ==
    ASSUME NEW c, IsCommand(c)
    PROVE  \/ c.vnet = NoVnet /\ c.vnet[1] = "none"
           \/ c.vnet[1] = "id" /\ c.vnet[2] \in VnetIDs /\ c.vnet # NoVnet
           \/ c.vnet[1] = "name" /\ c.vnet[2] \in VnetNames /\ c.vnet # NoVnet
<1>1. c.vnet \in VnetRefs
  BY DEF IsCommand, Lines
<1>2. \A ref \in VnetRefs :
         \/ ref = NoVnet /\ ref[1] = "none"
         \/ ref[1] = "id" /\ ref[2] \in VnetIDs /\ ref # NoVnet
         \/ ref[1] = "name" /\ ref[2] \in VnetNames /\ ref # NoVnet
  BY DEF VnetRefs, NoVnet
<1> QED
  BY <1>1, <1>2

LEMMA PathFacts ==
    /\ FlagPath \in Paths
    /\ \A i \in IDs, d \in {CertDir, ConfigDir} :
          TunnelFilePath(i, d) \in Paths \ {FlagPath}
    /\ \A i, j \in IDs, d, e \in {CertDir, ConfigDir} :
          TunnelFilePath(i, d) = TunnelFilePath(j, e) => i = j /\ d = e
    /\ CertDir # ConfigDir
    /\ \A path \in Paths \ {FlagPath} :
          \E i \in IDs, d \in {CertDir, ConfigDir} : path = TunnelFilePath(i, d)
<1>1. CertDir # ConfigDir /\ FlagPath \in Paths
  BY DEF CertDir, ConfigDir, Paths
<1>2. ASSUME NEW i \in IDs, NEW d \in {CertDir, ConfigDir}
      PROVE  TunnelFilePath(i, d) \in Paths /\ TunnelFilePath(i, d) # FlagPath
  <2>1. TunnelFilePath(i, d)[1] = d /\ FlagPath[1] = "--credentials-file"
    BY DEF TunnelFilePath, FlagPath
  <2>2. d # "--credentials-file"
    BY DEF CertDir, ConfigDir
  <2>3. TunnelFilePath(i, d) \in Paths
    BY DEF TunnelFilePath, Paths, IDs
  <2> QED
    BY <2>1, <2>2, <2>3
<1>3. ASSUME NEW i \in IDs, NEW j \in IDs, NEW d, NEW e,
             TunnelFilePath(i, d) = TunnelFilePath(j, e)
      PROVE  i = j /\ d = e
  BY <1>3 DEF TunnelFilePath
<1>4. ASSUME NEW path \in Paths, path # FlagPath
      PROVE  \E i \in IDs, d \in {CertDir, ConfigDir} : path = TunnelFilePath(i, d)
  BY <1>4 DEF TunnelFilePath, Paths, IDs
<1> QED
  BY <1>1, <1>2, <1>3, <1>4

LEMMA IdleOK == Idle \in Procs /\ Idle.pc = "idle" /\ Idle.exit = "none"
                /\ Idle.made = NilID /\ ~Idle.wrote /\ ~Idle.c.file
                /\ Idle.vnet = NilID /\ Idle.c.op = "none"
<1>1. /\ NilID \in IDs /\ NilID \in 0 .. MaxVnets /\ NoFile \in FileContents
      /\ "idle" \in PCs /\ "none" \in Exits /\ <<>> \in Seq(TunnelIDs)
  BY Numbers DEF NoFile, Credentials, FileContents, PCs, Exits, IDs
<1> QED
  BY <1>1 DEF Idle, Procs

-----------------------------------------------------------------------------
(* A step of p that makes no tunnel, writes no file and deletes at most.   *)
TunnelsAge ==
    \A i \in TunnelIDs :
        /\ tunnels'[i].state = "unused" <=> tunnels[i].state = "unused"
        /\ tunnels[i].state = "deleted" => tunnels'[i].state = "deleted"
NamesGrow == \A n \in VnetNames : named[n] \subseteq named'[n]
Calm == StoreType' /\ HostType' /\ files' = files /\ TunnelsAge /\ NamesGrow /\ NamedOK'

LEMMA OthersKept ==
    ASSUME IInv, NEW q \in Pids, procs'[q] = procs[q], TunnelsAge, NamesGrow
    PROVE  ProcOK(procs[q])'
<1>1. ProcOK(procs[q]) /\ procs[q] \in Procs
  BY DEF IInv, TypeOK
<1>2. procs[q].made # NilID => procs[q].made \in TunnelIDs
  BY <1>1, Numbers DEF Procs
<1>3. MadeOK(procs[q])'
  BY <1>1, <1>2 DEF ProcOK, MadeOK, MadeIn, TunnelsAge, MakesTunnel
<1>4. RemoveOK(procs[q])'
  <2>1. procs[q].pc = "RemoveFile" =>
           Head(procs[q].ids) \in TunnelIDs /\ tunnels[Head(procs[q].ids)].state = "deleted"
    BY <1>1 DEF ProcOK, RemoveOK, RemovesDeleted
  <2> QED
    BY <2>1 DEF RemoveOK, RemovesDeleted, TunnelsAge
<1>5. procs[q].c.vnet[1] = "name" /\ procs[q].pc \in {"add route", "delete route"} =>
         procs[q].c.vnet[2] \in VnetNames
  <2>1. procs[q].pc \in {"add route", "delete route"} => IsCommand(procs[q].c)
    BY <1>1 DEF ProcOK, ProgramOrder
  <2> QED
    BY <2>1, VnetRefFacts
<1>6. VnetOK(procs[q])'
  BY <1>1, <1>5 DEF ProcOK, VnetOK, VnetBore, NamesGrow
<1>7. ProgramOrder(procs[q])'
  BY <1>1 DEF ProcOK, ProgramOrder, MakesTunnel
<1>8. Makes(procs[q])'
  BY <1>1 DEF ProcOK, Makes, MakesTunnel
<1> QED
  BY <1>3, <1>4, <1>6, <1>7, <1>8 DEF ProcOK

LEMMA CoreStep ==
    ASSUME IInv, NEW p \in Pids, NEW r \in Procs,
           procs' = [procs EXCEPT ![p] = r], r.made = procs[p].made,
           ProgramOrder(r), Makes(r), MadeIn(r, tunnels'),
           RemovesDeleted(r, tunnels'), VnetBore(r, named'),
           StoreType', HostType', TunnelsAge, NamesGrow, NamedOK',
           GarbledCreate \/ (FilesOK' /\ CreatedIsRunnable')
    PROVE  IInv'
<1>0. /\ procs \in [Pids -> Procs] /\ procs[p] \in Procs
      /\ procs'[p] = r /\ \A q \in Pids : q # p => procs'[q] = procs[q]
  BY DEF IInv, TypeOK
<1>1. TypeOK'
  BY <1>0 DEF TypeOK
<1>2. \A q \in Pids : q # p => ProcOK(procs[q])'
  BY <1>0, OthersKept
<1>3. ProcOK(procs[p])'
  <2>1. ProgramOrder(procs[p])'
    BY <1>0 DEF ProgramOrder, MakesTunnel
  <2>2. Makes(procs[p])'
    BY <1>0 DEF Makes, MakesTunnel
  <2>3. MadeOK(procs[p])'
    BY <1>0 DEF MadeOK, MadeIn, MakesTunnel
  <2>4. RemoveOK(procs[p])' /\ VnetOK(procs[p])'
    BY <1>0 DEF RemoveOK, RemovesDeleted, VnetOK, VnetBore
  <2> QED
    BY <2>1, <2>2, <2>3, <2>4 DEF ProcOK
<1>4. \A q \in Pids : procs'[q].made = procs[q].made
  BY <1>0
<1>5. MadeOnce' /\ NotMadeYet'
  BY <1>4 DEF IInv, MadeOnce, NotMadeYet, TunnelsAge
<1> QED
  BY <1>1, <1>2, <1>3, <1>5 DEF IInv

LEMMA CalmStep ==
    ASSUME IInv, NEW p \in Pids, NEW r \in Procs,
           procs' = [procs EXCEPT ![p] = r],
           r.made = procs[p].made, r.wrote = procs[p].wrote,
           r.c = procs[p].c \/ procs[p].pc = "idle",
           r.c.op = "create" => r.exit # "ok",
           ProgramOrder(r), Makes(r), MadeIn(r, tunnels'),
           Calm, RemovesDeleted(r, tunnels'), VnetBore(r, named')
    PROVE  IInv'
<1>0. /\ procs \in [Pids -> Procs] /\ procs[p] \in Procs /\ ProgramOrder(procs[p])
      /\ procs'[p] = r /\ \A q \in Pids : q # p => procs'[q] = procs[q]
  BY DEF IInv, TypeOK, ProcOK
<1>calm. StoreType' /\ HostType' /\ files' = files /\ TunnelsAge /\ NamesGrow /\ NamedOK'
  BY DEF Calm
<1>6. \A q \in Pids : /\ procs'[q].made = procs[q].made
                      /\ procs'[q].wrote = procs[q].wrote
                      /\ procs[q].c.file => procs'[q].c.file
  BY <1>0, IdleOK DEF ProgramOrder
<1>8. ~GarbledCreate => FilesOK'
  BY <1>6, <1>calm DEF IInv, FilesOK, TunnelsAge, CertFile, ConfigFile
<1>9. ~GarbledCreate => CreatedIsRunnable'
  <2> SUFFICES ASSUME ~GarbledCreate, NEW q \in Pids,
                      procs'[q].c.op = "create", procs'[q].exit = "ok"
               PROVE  /\ procs'[q].made # NilID
                      /\ \/ tunnels'[procs'[q].made].state = "deleted"
                         \/ files'[WritePath(q)'] = Credentials(procs'[q].made, procs'[q].made)
                         \/ procs'[q].c.file /\ FlagShared(q)'
    BY DEF CreatedIsRunnable, Op
  <2>1. q # p
    BY <1>0
  <2>2. procs'[q] = procs[q] /\ procs[q] \in Procs
    BY <1>0, <2>1
  <2>3. /\ procs[q].made # NilID
        /\ \/ tunnels[procs[q].made].state = "deleted"
           \/ files[WritePath(q)] = Credentials(procs[q].made, procs[q].made)
           \/ procs[q].c.file /\ FlagShared(q)
    BY <2>2 DEF IInv, CreatedIsRunnable, Op
  <2>4. procs[q].made \in TunnelIDs
    BY <2>2, <2>3, Numbers DEF Procs
  <2>5. WritePath(q)' = WritePath(q) /\ (FlagShared(q) => FlagShared(q)')
    BY <1>6, <2>2 DEF WritePath, FlagShared
  <2> QED
    BY <1>calm, <2>2, <2>3, <2>4, <2>5 DEF TunnelsAge
<1> QED
  BY <1>calm, <1>8, <1>9, CoreStep

(* A step of a command that is not on its way to the file.                 *)
LEMMA QuietStep ==
    ASSUME IInv, NEW p \in Pids, NEW r \in Procs,
           procs' = [procs EXCEPT ![p] = r],
           r.c = procs[p].c, r.made = procs[p].made, r.wrote = procs[p].wrote,
           procs[p].pc \notin {"idle", "exited", "stat", "write", "rollback"},
           r.pc # "rollback", r.pc \in {"stat", "write"} => ~MakesTunnel(r),
           ProgramOrder(r), r.exit = "none" <=> r.pc # "exited",
           r.wrote => r.pc \in {"route", "findCredentials", "exited"},
           r.c.op = "create" => r.exit # "ok",
           Calm, RemovesDeleted(r, tunnels'), VnetBore(r, named')
    PROVE  IInv'
<1>0. procs[p] \in Procs /\ ProcOK(procs[p]) /\ TunnelsAge
  BY DEF IInv, TypeOK, Calm
<1>1. Makes(r)
  BY <1>0 DEF ProcOK, Makes
<1>2. procs[p].made # NilID => procs[p].made \in TunnelIDs
  BY <1>0, Numbers DEF Procs
<1>3. MadeIn(r, tunnels')
  BY <1>0, <1>2 DEF ProcOK, Makes, MadeOK, MadeIn, TunnelsAge
<1> QED
  BY <1>1, <1>3, CalmStep

LEMMA SameStore ==
    ASSUME IInv, UNCHANGED <<storeVars, files, named, given>>, cert' \in CertStates
    PROVE  Calm
BY DEF Calm, IInv, TypeOK, StoreType, HostType, TunnelsAge, NamesGrow, NamedOK, storeVars

(* An exit of a command that made no tunnel.                               *)
LEMMA ExitedFacts ==
    ASSUME NEW r \in Procs, NEW code \in Exits \ {"none"}
    PROVE  LET x == Exited(r, code)
           IN  /\ x \in Procs /\ x.pc = "exited" /\ x.exit = code
               /\ x.c = r.c /\ x.made = r.made /\ x.wrote = r.wrote
               /\ x.lost = r.lost /\ x.id = r.id
               /\ ProgramOrder(x) /\ VnetOK(x) /\ RemoveOK(x)
<1> DEFINE x == Exited(r, code)
<1>1. "exited" \in PCs
  BY DEF PCs
<1>2. /\ x \in Procs /\ x.pc = "exited" /\ x.exit = code
      /\ x.c = r.c /\ x.made = r.made /\ x.wrote = r.wrote
      /\ x.lost = r.lost /\ x.id = r.id
  BY <1>1 DEF Exited, Procs
<1>3. ProgramOrder(x)
  BY <1>2 DEF ProgramOrder
<1>4. VnetOK(x) /\ RemoveOK(x)
  BY <1>2 DEF VnetOK, VnetBore, RemoveOK, RemovesDeleted
<1> QED
  BY <1>2, <1>3, <1>4

LEMMA ExitStep ==
    ASSUME IInv, NEW p \in Pids, NEW r \in Procs, NEW code \in Exits \ {"none"},
           Go(p, Exited(r, code)),
           r.c = procs[p].c, r.made = procs[p].made, r.wrote = procs[p].wrote,
           procs[p].pc \notin {"idle", "exited", "stat", "write", "rollback"},
           code = "ok" => procs[p].c.op # "create",
           Calm
    PROVE  IInv'
<1> DEFINE x == Exited(r, code)
<1>1. /\ x \in Procs /\ x.pc = "exited" /\ x.exit = code
      /\ x.c = r.c /\ x.made = r.made /\ x.wrote = r.wrote
      /\ ProgramOrder(x)
  BY ExitedFacts
<1>2. procs' = [procs EXCEPT ![p] = x]
  BY DEF Go
<1> HIDE DEF x
<1>3. RemovesDeleted(x, tunnels') /\ VnetBore(x, named')
  BY <1>1 DEF RemovesDeleted, VnetBore
<1> QED
  BY <1>1, <1>2, <1>3, QuietStep

LEMMA ProcFacts ==
    ASSUME IInv, NEW p \in Pids
    PROVE  /\ procs[p] \in Procs /\ procs \in [Pids -> Procs]
           /\ ProgramOrder(procs[p]) /\ Makes(procs[p]) /\ MadeOK(procs[p])
           /\ RemoveOK(procs[p]) /\ VnetOK(procs[p]) /\ cert \in CertStates
BY DEF IInv, TypeOK, ProcOK, HostType

(* NoClient, ReadFails and every other exit before a tunnel is made.       *)
LEMMA PlainExit ==
    ASSUME IInv, NEW p \in Pids, NEW code \in Exits \ {"none"}, Exit(p, code),
           procs[p].pc \notin {"idle", "exited", "stat", "write", "rollback"},
           code = "ok" => procs[p].c.op # "create",
           UNCHANGED <<storeVars, files, named, given>>, cert' \in CertStates
    PROVE  IInv'
BY SameStore, ExitStep, ProcFacts DEF Exit

LEMMA FailsInv ==
    ASSUME IInv, NEW p \in Pids, NoClient(p) \/ ReadFails(p),
           procs[p].pc \notin {"idle", "exited", "stat", "write", "rollback"},
           UNCHANGED <<files, cert, named, given>>
    PROVE  IInv'
<1>1. "error" \in Exits \ {"none"} /\ cert' \in CertStates
  BY ProcFacts DEF Exits
<1> QED
  BY <1>1, PlainExit DEF NoClient, ReadFails

-----------------------------------------------------------------------------
(* Finding a tunnel.                                                       *)
LEMMA RefFacts ==
    ASSUME NEW c, IsCommand(c), c.refs # <<>>
    PROVE  /\ IsID(Head(c.refs)) => Head(c.refs)[2] \in TunnelIDs
           /\ ~IsID(Head(c.refs)) => Head(c.refs)[2] \in TunnelNames
           /\ \A k \in 1 .. Len(c.refs) : IsID(c.refs[k]) => c.refs[k][2] \in TunnelIDs
<1>1. c.refs \in Seq(Refs)
  BY DEF IsCommand, Lines
<1>2. \A ref \in Refs : /\ IsID(ref) => ref[2] \in TunnelIDs
                        /\ ~IsID(ref) => ref[2] \in TunnelNames
  BY DEF Refs, IsID
<1>3. Head(c.refs) \in Refs /\ \A k \in 1 .. Len(c.refs) : c.refs[k] \in Refs
  BY <1>1
<1> QED
  BY <1>2, <1>3

LEMMA ActiveIDs ==
    ASSUME IInv, NEW name
    PROVE  Active(name) \subseteq TunnelIDs /\ Active(name) \subseteq IDs
<1>1. DOMAIN tunnels = TunnelIDs
  BY DEF IInv, TypeOK, StoreType
<1> QED
  BY <1>1, Numbers DEF Active, Matches

LEMMA CommandAt ==
    ASSUME IInv, NEW p \in Pids, procs[p].pc \notin {"idle", "exited"}
    PROVE  IsCommand(procs[p].c)
BY ProcFacts DEF ProgramOrder

LEMMA FoundInv ==
    ASSUME IInv, NEW p \in Pids, At(p, "findID"), NEW id \in IDs,
           NEW r0 \in {procs[p], WithClient(p)}, Found(p, r0, id),
           UNCHANGED <<storeVars, files, cert, named, given>>
    PROVE  IInv'
<1> DEFINE r == [r0 EXCEPT !.id = id, !.pc = AfterID(p)]
<1>0. /\ procs[p] \in Procs /\ ProgramOrder(procs[p]) /\ Makes(procs[p])
      /\ VnetOK(procs[p]) /\ cert' \in CertStates /\ procs[p].pc = "findID"
  BY ProcFacts DEF At
<1>1. /\ r0 \in Procs /\ r0.c = procs[p].c /\ r0.made = procs[p].made
      /\ r0.wrote = procs[p].wrote /\ r0.exit = procs[p].exit /\ r0.vnet = procs[p].vnet
  BY <1>0 DEF WithClient, Procs
<1>2. AfterID(p) \in {"findCredentials", "token", "route", "info", "getVnetId"}
  BY DEF AfterID
<1>3. AfterID(p) \in PCs
  BY <1>2 DEF PCs
<1>4. /\ r \in Procs /\ r.c = procs[p].c /\ r.made = procs[p].made /\ r.wrote = procs[p].wrote
      /\ r.exit = procs[p].exit /\ r.pc = AfterID(p) /\ r.vnet = procs[p].vnet
  BY <1>1, <1>3 DEF Procs
<1>5. IsCommand(r.c)
  BY <1>0, <1>4, CommandAt
<1>6. /\ AfterID(p) = "findCredentials" => r.c.op = "run"
      /\ AfterID(p) = "token" => r.c.op = "token"
      /\ AfterID(p) = "route" => r.c.op = "dns"
      /\ AfterID(p) = "info" => r.c.op = "info"
      /\ AfterID(p) = "getVnetId" => r.c.op = "add route"
  BY <1>0, <1>4 DEF AfterID, ProgramOrder, Op
<1> HIDE DEF r
<1>7. ProgramOrder(r)
  BY <1>2, <1>4, <1>5, <1>6 DEF ProgramOrder
<1>8. r.exit = "none" /\ ~r.wrote
  BY <1>0, <1>4 DEF Makes
<1>9. RemovesDeleted(r, tunnels') /\ VnetBore(r, named')
  BY <1>0, <1>2, <1>4 DEF VnetOK, VnetBore, RemovesDeleted
<1>10. procs' = [procs EXCEPT ![p] = r]
  BY DEF Found, Go, r
<1>11. Calm
  BY <1>0, SameStore
<1> QED
  BY <1>0, <1>2, <1>4, <1>7, <1>8, <1>9, <1>10, <1>11, QuietStep

LEMMA FindIDInv ==
    ASSUME IInv, NEW p \in Pids, FindID(p), UNCHANGED given PROVE IInv'
<1>0. /\ At(p, "findID") /\ UNCHANGED <<files, cert, named>>
      /\ procs[p].pc = "findID" /\ procs[p] \in Procs
  BY ProcFacts DEF FindID, At
<1>1. IsCommand(procs[p].c) /\ procs[p].c.refs # <<>>
  <2>1. IsCommand(procs[p].c)
    BY <1>0, CommandAt
  <2> QED
    BY <1>0, <2>1, ProcFacts DEF ProgramOrder
<1>2. CASE IsID(Ref(p)) /\ Found(p, procs[p], Ref(p)[2]) /\ UNCHANGED storeVars
  <2>1. Ref(p)[2] \in IDs
    BY <1>1, <1>2, RefFacts, Numbers DEF Ref
  <2> QED
    BY <1>0, <1>2, <2>1, FoundInv
<1>3. CASE Found(p, procs[p], FlagFileID(p)) /\ UNCHANGED storeVars
  <2>1. FlagFileID(p) \in IDs
    <3>1. files[FlagPath] \in FileContents
      BY PathFacts DEF IInv, TypeOK, HostType
    <3> QED
      BY <3>1, Numbers DEF FlagFileID, FileContents, IDs
  <2> QED
    BY <1>0, <1>3, <2>1, FoundInv
<1>4. CASE AskTunnelstore(p, Ref(p)[2])
  <2>1. CASE NoClient(p) \/ ReadFails(p)
    BY <1>0, <2>1, FailsInv
  <2>2. CASE \E id \in Active(Ref(p)[2]) : Found(p, WithClient(p), id) /\ UNCHANGED storeVars
    BY <1>0, <2>2, FoundInv, ActiveIDs
  <2> QED
    BY <1>4, <2>1, <2>2 DEF AskTunnelstore
<1> QED
  BY <1>2, <1>3, <1>4 DEF FindID

(* A step that only moves on, with or without a new client.                *)
LEMMA MoveInv ==
    ASSUME IInv, NEW p \in Pids, NEW r0 \in {procs[p], WithClient(p)},
           NEW x \in PCs \ {"idle", "exited", "stat", "write", "rollback",
                            "RemoveFile", "add route", "delete route"},
           Go(p, [r0 EXCEPT !.pc = x]),
           procs[p].pc \notin {"idle", "exited", "stat", "write", "rollback"},
           ProgramOrder([r0 EXCEPT !.pc = x]),
           x \in {"getVnetId", "findID"} => procs[p].vnet = NilID,
           procs[p].wrote => x = "findCredentials",
           Calm
    PROVE  IInv'
<1> DEFINE r == [r0 EXCEPT !.pc = x]
<1>1. /\ r \in Procs /\ r.pc = x /\ r.c = procs[p].c /\ r.made = procs[p].made
      /\ r.wrote = procs[p].wrote /\ r.exit = procs[p].exit
      /\ r.vnet = procs[p].vnet
  <2>1. x \in PCs
    OBVIOUS
  <2> QED
    BY <2>1, ProcFacts DEF WithClient, Procs
<1>2. ProgramOrder(r) /\ procs' = [procs EXCEPT ![p] = r]
  BY DEF Go
<1> HIDE DEF r
<1>3. r.exit = "none"
  BY <1>1, ProcFacts DEF Makes
<1>4. RemovesDeleted(r, tunnels') /\ VnetBore(r, named')
  BY <1>1 DEF VnetBore, RemovesDeleted
<1> QED
  BY <1>1, <1>2, <1>3, <1>4, QuietStep

LEMMA FindIDsInv ==
    ASSUME IInv, NEW p \in Pids, FindIDs(p), UNCHANGED given PROVE IInv'
<1> DEFINE refs == procs[p].c.refs
           n == Len(procs[p].ids) + 1
           ref == refs[n]
           next == IF n < Len(refs) THEN "findIDs"
                   ELSE IF Op(p) = "delete" THEN "GetTunnel" ELSE "cleanup"
<1>0. /\ procs[p].pc = "findIDs" /\ UNCHANGED <<files, cert, named>>
      /\ procs[p] \in Procs /\ ProgramOrder(procs[p]) /\ Makes(procs[p])
      /\ cert' \in CertStates
  BY ProcFacts DEF FindIDs, At
<1>1. /\ IsCommand(procs[p].c) /\ procs[p].c.op \in {"delete", "cleanup"}
      /\ refs # <<>> /\ n <= Len(refs)
      /\ refs \in Seq(Refs) /\ procs[p].ids \in Seq(TunnelIDs) /\ n \in 1 .. Len(refs)
  <2>1. IsCommand(procs[p].c)
    BY <1>0, CommandAt
  <2>2. refs \in Seq(Refs) /\ procs[p].ids \in Seq(TunnelIDs)
    BY <1>0, <2>1 DEF IsCommand, Lines, Procs
  <2>3. procs[p].c.op \in {"delete", "cleanup"} /\ Len(procs[p].ids) < Len(refs)
    BY <1>0 DEF ProgramOrder
  <2>4. n \in 1 .. Len(refs)
    BY <2>2, <2>3
  <2>5. refs # <<>>
    BY <2>1, <2>3 DEF IsCommand
  <2> QED
    BY <2>1, <2>2, <2>3, <2>4, <2>5
<1>2. ASSUME NEW r0 \in {procs[p], WithClient(p)}, NEW i \in TunnelIDs,
             Go(p, [r0 EXCEPT !.pc = next, !.ids = Append(@, i)]), UNCHANGED storeVars
      PROVE  IInv'
  <2> DEFINE ids == Append(procs[p].ids, i)
             r == [r0 EXCEPT !.pc = next, !.ids = Append(@, i)]
  <2>0. ids \in Seq(TunnelIDs) /\ Len(ids) = n /\ ids # <<>>
    BY <1>1
  <2>1. next \in PCs
    BY DEF PCs
  <2>2. /\ r \in Procs /\ r.pc = next /\ r.c = procs[p].c /\ r.made = procs[p].made
        /\ r.wrote = procs[p].wrote /\ r.exit = procs[p].exit /\ r.ids = ids
        /\ r.vnet = procs[p].vnet
    BY <1>0, <2>0, <2>1 DEF WithClient, Procs
  <2>3. procs' = [procs EXCEPT ![p] = r] /\ Calm
    BY <1>0, <1>2, SameStore DEF Go
  <2> HIDE DEF r, ids
  <2>4. ProgramOrder(r)
    <3>1. IsCommand(r.c) /\ r.ids # <<>> /\ (r.pc = "findIDs" => Len(r.ids) < Len(r.c.refs))
      BY <1>1, <2>0, <2>2
    <3>2. r.pc = "findIDs" \/ (r.pc = "GetTunnel" /\ r.c.op = "delete")
             \/ (r.pc = "cleanup" /\ r.c.op = "cleanup")
      BY <1>1, <2>2 DEF Op
    <3>3. r.c.op \in {"delete", "cleanup"}
      BY <1>1, <2>2
    <3> HIDE DEF next
    <3> QED
      BY <3>1, <3>2, <3>3 DEF ProgramOrder
  <2>5. r.exit = "none" /\ ~r.wrote
    BY <1>0, <2>2 DEF Makes
  <2>6. RemovesDeleted(r, tunnels') /\ VnetBore(r, named')
    BY <2>2 DEF VnetBore, RemovesDeleted
  <2>7. /\ procs[p].pc \notin {"idle", "exited", "stat", "write", "rollback"}
        /\ r.pc \notin {"rollback", "stat", "write", "RemoveFile", "exited"}
    BY <1>0, <2>2
  <2> QED
    BY <1>0, <1>2, <2>2, <2>3, <2>4, <2>5, <2>6, <2>7, QuietStep
<1>3. CASE IsID(ref) /\ UNCHANGED storeVars /\
           Go(p, [procs[p] EXCEPT !.pc = next, !.ids = Append(@, ref[2])])
  <2>1. ref[2] \in TunnelIDs
    BY <1>1, <1>3, RefFacts
  <2> QED
    BY <1>2, <1>3, <2>1
<1>4. CASE NoClient(p) \/ ReadFails(p)
  BY <1>0, <1>4, FailsInv
<1>5. ASSUME UNCHANGED storeVars,
             LET found == Active(ref[2])
             IN  IF Cardinality(found) = 1
                 THEN Go(p, [WithClient(p) EXCEPT !.pc = next,
                          !.ids = Append(@, CHOOSE i \in found : TRUE)])
                 ELSE Exit(p, "error")
      PROVE  IInv'
  <2> DEFINE found == Active(ref[2])
  <2>1. CASE Cardinality(found) = 1
    <3>1. found # {}
      <4>1. Cardinality({}) = 0
        BY FS_EmptySet
      <4> HIDE DEF found
      <4> QED
        BY <2>1, <4>1
    <3>2. (CHOOSE i \in found : TRUE) \in TunnelIDs
      BY <3>1, ActiveIDs
    <3> QED
      BY <1>2, <1>5, <2>1, <3>2
  <2>2. CASE Cardinality(found) # 1
    <3>1. "error" \in Exits \ {"none"} /\ Exit(p, "error")
      BY <1>5, <2>2 DEF Exits
    <3> QED
      BY <1>0, <1>5, <3>1, PlainExit
  <2> QED
    BY <2>1, <2>2
<1> QED
  BY <1>3, <1>4, <1>5 DEF FindIDs

(* Where a file is looked for: the flag's if it is given, else the file    *)
(* named after the tunnel.                                                 *)
LEMMA FinderPaths ==
    ASSUME NEW p, NEW id \in IDs, NEW path \in CredentialFinder(p, id)
    PROVE  /\ path \in Paths
           /\ path = FlagPath => procs[p].c.file
           /\ path # FlagPath => \E d \in {CertDir, ConfigDir} : path = TunnelFilePath(id, d)
<1>1. CASE procs[p].c.file
  <2>1. path = FlagPath
    BY <1>1 DEF CredentialFinder, StaticPath
  <2> QED
    BY <1>1, <2>1, PathFacts
<1>2. CASE ~procs[p].c.file
  <2>1. path \in SearchByID(id)
    BY <1>2 DEF CredentialFinder
  <2>2. PICK k \in DOMAIN SearchDirs : path = TunnelFilePath(id, SearchDirs[k])
    BY <2>1 DEF SearchByID
  <2>3. SearchDirs[k] \in {CertDir, ConfigDir}
    BY <2>2 DEF SearchDirs
  <2> QED
    BY <2>2, <2>3, PathFacts
<1> QED
  BY <1>1, <1>2

(* What the API does to the tunnels keeps their states or deletes one.     *)
LEMMA ConnsAge ==
    ASSUME IInv, NEW id, NEW b \in BOOLEAN,
           tunnels' = tunnels \/ (id \in TunnelIDs /\ tunnels' = [tunnels EXCEPT ![id].conns = b]),
           UNCHANGED <<hosts, routes, vnets, defaultVnet, files, cert, named, given>>
    PROVE  Calm
<1> DEFINE T == [name : TunnelNames \cup {""}, state : States, conns : BOOLEAN]
<1>0. tunnels \in [TunnelIDs -> T]
  BY DEF IInv, TypeOK, StoreType
<1>1. \A t \in T : /\ [t EXCEPT !.conns = b] \in T
                   /\ [t EXCEPT !.conns = b].state = t.state
  OBVIOUS
<1> HIDE DEF T
<1>2. tunnels' \in [TunnelIDs -> T] /\ \A i \in TunnelIDs : tunnels'[i].state = tunnels[i].state
  BY <1>0, <1>1
<1>3. StoreType' /\ HostType' /\ NamesGrow /\ NamedOK'
  BY <1>2 DEF IInv, TypeOK, StoreType, HostType, NamesGrow, NamedOK, T
<1> QED
  BY <1>2, <1>3 DEF TunnelsAge, Calm

LEMMA DeleteAge ==
    ASSUME IInv, NEW id, NEW o \in Outcomes, DeleteTunnel(id, o),
           UNCHANGED <<files, cert, named, given>>
    PROVE  /\ Calm
           /\ StatusIsOK(o) => id \in TunnelIDs /\ tunnels'[id].state = "deleted"
<1> DEFINE T == [name : TunnelNames \cup {""}, state : States, conns : BOOLEAN]
<1>0. tunnels \in [TunnelIDs -> T]
  BY DEF IInv, TypeOK, StoreType
<1>upd. \A t \in T : /\ [t EXCEPT !.state = "deleted"] \in T
                   /\ [t EXCEPT !.state = "deleted"].state = "deleted"
  BY DEF States
<1> HIDE DEF T
<1>1. o \in Applied => id \in TunnelIDs /\ tunnels[id].state = "live"
  BY <1>0 DEF DeleteTunnel, Deletable, Live, Applied
<1>2. /\ tunnels' \in [TunnelIDs -> T]
      /\ \A i \in TunnelIDs :
            \/ tunnels'[i].state = tunnels[i].state
            \/ tunnels[i].state = "live" /\ tunnels'[i].state = "deleted"
  <2>1. CASE o \in Applied
    <3>1. tunnels' = [tunnels EXCEPT ![id].state = "deleted"]
      BY <2>1 DEF DeleteTunnel
    <3> QED
      BY <1>0, <1>upd, <1>1, <2>1, <3>1
  <2>2. CASE o \notin Applied
    BY <1>0, <2>2 DEF DeleteTunnel
  <2> QED
    BY <2>1, <2>2
<1>3. StoreType' /\ HostType' /\ NamesGrow /\ NamedOK'
  BY <1>2 DEF IInv, TypeOK, StoreType, HostType, NamesGrow, NamedOK, DeleteTunnel, T
<1>4. TunnelsAge
  BY <1>2 DEF TunnelsAge
<1>5. StatusIsOK(o) => id \in TunnelIDs /\ tunnels'[id].state = "deleted"
  BY <1>0, <1>upd, <1>1 DEF StatusIsOK, Applied, DeleteTunnel
<1> QED
  BY <1>3, <1>4, <1>5 DEF Calm

LEMMA RunsInv ==
    ASSUME IInv, NEW p \in Pids, NEW creds \in FileContents, RunWithCredentials(p, creds),
           procs[p].pc \in {"findCredentials", "runToken"},
           UNCHANGED <<hosts, routes, vnets, defaultVnet, files, cert, named, given>>
    PROVE  IInv'
<1> DEFINE r0 == [procs[p] EXCEPT !.creds = creds]
<1>1. /\ r0 \in Procs /\ r0.c = procs[p].c /\ r0.made = procs[p].made
      /\ r0.wrote = procs[p].wrote
  BY ProcFacts DEF Procs
<1>2. "serving" \in Exits \ {"none"} /\ Go(p, Exited(r0, "serving"))
  BY DEF Exits, RunWithCredentials
<1> HIDE DEF r0
<1>3. \/ tunnels' = tunnels
      \/ /\ creds.id \in TunnelIDs
         /\ tunnels' = [tunnels EXCEPT ![creds.id].conns = TRUE]
  BY DEF RunWithCredentials, Connected, Live, IInv, TypeOK, StoreType
<1>4. Calm
  BY <1>3, ConnsAge
<1> QED
  BY <1>1, <1>2, <1>4, ExitStep

LEMMA FindCredentialsInv ==
    ASSUME IInv, NEW p \in Pids, FindCredentials(p), UNCHANGED given PROVE IInv'
<1> DEFINE found == IF procs[p].c.contents # NoFile THEN {procs[p].c.contents}
                    ELSE {files[path] : path \in CredentialFinder(p, procs[p].id)}
<1>0. /\ procs[p].pc = "findCredentials" /\ procs[p] \in Procs /\ procs[p].id \in IDs
      /\ UNCHANGED <<hosts, routes, vnets, defaultVnet, files, cert, named>>
      /\ cert' \in CertStates
  BY ProcFacts DEF FindCredentials, At, Procs
<1>1. CASE Exit(p, "error") /\ UNCHANGED tunnels
  <2>1. "error" \in Exits \ {"none"} /\ UNCHANGED storeVars
    BY <1>0, <1>1 DEF Exits, storeVars
  <2> QED
    BY <1>0, <1>1, <2>1, PlainExit
<1>2. ASSUME NEW creds \in found,
             RunWithCredentials(p, Credentials(procs[p].id, creds.secret))
      PROVE  IInv'
  <2>1. creds \in FileContents
    <3>1. CASE procs[p].c.contents # NoFile
      <4>1. procs[p].c \in Lines
        BY <1>0, CommandAt DEF IsCommand
      <4> QED
        BY <1>2, <3>1, <4>1 DEF Lines
    <3>2. CASE procs[p].c.contents = NoFile
      <4>1. PICK path \in CredentialFinder(p, procs[p].id) : creds = files[path]
        BY <1>2, <3>2
      <4>2. path \in Paths
        BY <1>0, <4>1, FinderPaths
      <4> QED
        BY <4>1, <4>2 DEF IInv, TypeOK, HostType
    <3> QED
      BY <3>1, <3>2
  <2>2. Credentials(procs[p].id, creds.secret) \in FileContents
    BY <1>0, <2>1 DEF FileContents, Credentials, IDs
  <2> QED
    BY <1>0, <1>2, <2>2, RunsInv
<1> QED
  BY <1>1, <1>2 DEF FindCredentials

LEMMA RunTokenInv ==
    ASSUME IInv, NEW p \in Pids, RunToken(p), UNCHANGED given PROVE IInv'
<1>0. /\ procs[p].pc = "runToken" /\ cert' \in CertStates
      /\ UNCHANGED <<hosts, routes, vnets, defaultVnet, files, cert, named>>
  BY ProcFacts DEF RunToken, At
<1>1. CASE Exit(p, "error") /\ UNCHANGED tunnels
  <2>1. "error" \in Exits \ {"none"} /\ UNCHANGED storeVars
    BY <1>0, <1>1 DEF Exits, storeVars
  <2> QED
    BY <1>0, <1>1, <2>1, PlainExit
<1>2. CASE RunWithCredentials(p, procs[p].c.token)
  <2>1. procs[p].c.token \in FileContents
    BY <1>0, CommandAt DEF IsCommand, Lines
  <2> QED
    BY <1>0, <1>2, <2>1, RunsInv
<1> QED
  BY <1>1, <1>2 DEF RunToken

-----------------------------------------------------------------------------
(* The steps that look, ask or end.                                        *)
LEMMA CreateStartsInv ==
    ASSUME IInv, NEW p \in Pids, CreateStarts(p) \/ BadSecret(p), UNCHANGED given
    PROVE  IInv'
<1>0. /\ procs[p].pc = "create" /\ cert' \in CertStates
      /\ UNCHANGED <<storeVars, files, cert, named>>
      /\ procs[p] \in Procs /\ ProgramOrder(procs[p]) /\ Makes(procs[p])
  BY ProcFacts DEF CreateStarts, BadSecret, At
<1>1. CASE Exit(p, "error")
  <2>1. "error" \in Exits \ {"none"}
    BY DEF Exits
  <2> QED
    BY <1>0, <1>1, <2>1, PlainExit
<1>2. CASE Go(p, [WithClient(p) EXCEPT !.pc = "CreateTunnel"])
  <2> DEFINE r == [WithClient(p) EXCEPT !.pc = "CreateTunnel"]
  <2>1. r.c = procs[p].c /\ r.pc = "CreateTunnel"
    BY <1>0 DEF WithClient, Procs
  <2>2. ProgramOrder(r)
    BY <1>0, <2>1 DEF ProgramOrder, MakesTunnel
  <2>3. "CreateTunnel" \in PCs /\ ~procs[p].wrote /\ Calm
    BY <1>0, SameStore DEF PCs, Makes
  <2> QED
    BY <1>0, <1>2, <2>2, <2>3, MoveInv
<1> QED
  BY <1>1, <1>2 DEF CreateStarts, BadSecret

LEMMA TunnelCommandInv ==
    ASSUME IInv, NEW p \in Pids, TunnelCommand(p), UNCHANGED given PROVE IInv'
<1>0. /\ procs[p].pc = "tunnel" /\ cert' \in CertStates
      /\ UNCHANGED <<storeVars, files, cert, named>>
      /\ procs[p] \in Procs /\ ProgramOrder(procs[p]) /\ Makes(procs[p]) /\ Calm
  BY ProcFacts, SameStore DEF TunnelCommand, At
<1>1. CASE \E code \in {"error", "serving"} : Exit(p, code)
  <2>1. {"error", "serving"} \subseteq Exits \ {"none"}
    BY DEF Exits
  <2> QED
    BY <1>0, <1>1, <2>1, PlainExit
<1>2. ASSUME NEW x \in {"tunnelActive", "quick"}, Goto(p, x),
             procs[p].c.op = (IF x = "quick" THEN "quick" ELSE "adhoc")
      PROVE  IInv'
  <2> DEFINE r == [procs[p] EXCEPT !.pc = x]
  <2>1. r.c = procs[p].c /\ r.pc = x
    BY <1>0 DEF Procs
  <2>2. IsCommand(r.c)
    BY <1>0, <2>1 DEF ProgramOrder
  <2>3. ProgramOrder(r)
    BY <1>2, <2>1, <2>2 DEF ProgramOrder
  <2>4. x \in PCs /\ ~procs[p].wrote
    BY <1>0, <1>2 DEF PCs, Makes
  <2> QED
    BY <1>0, <1>2, <2>3, <2>4, MoveInv DEF Goto
<1> QED
  BY <1>1, <1>2 DEF TunnelCommand, Op

LEMMA TunnelActiveInv ==
    ASSUME IInv, NEW p \in Pids, TunnelActive(p), UNCHANGED given PROVE IInv'
<1>0. /\ procs[p].pc = "tunnelActive" /\ cert' \in CertStates
      /\ UNCHANGED <<storeVars, files, cert, named>>
      /\ procs[p] \in Procs /\ ProgramOrder(procs[p]) /\ Makes(procs[p]) /\ Calm
  BY ProcFacts, SameStore DEF TunnelActive, At
<1>1. IsCommand(procs[p].c) /\ procs[p].c.op = "adhoc"
  BY <1>0 DEF ProgramOrder
<1>2. CASE Goto(p, "create")
  <2> DEFINE r == [procs[p] EXCEPT !.pc = "create"]
  <2>1. r.c = procs[p].c /\ r.pc = "create"
    BY <1>0 DEF Procs
  <2>2. ProgramOrder(r)
    BY <1>1, <2>1 DEF ProgramOrder, MakesTunnel
  <2>3. "create" \in PCs /\ ~procs[p].wrote
    BY <1>0 DEF PCs, Makes
  <2> QED
    BY <1>0, <1>2, <2>2, <2>3, MoveInv DEF Goto
<1>3. ASSUME NEW id \in Active(Ref(p)[2]),
             Go(p, [WithClient(p) EXCEPT !.id = id, !.pc = "route"])
      PROVE  IInv'
  <2> DEFINE r == [WithClient(p) EXCEPT !.id = id, !.pc = "route"]
  <2>1. id \in IDs /\ "route" \in PCs
    BY ActiveIDs DEF PCs
  <2>2. /\ r \in Procs /\ r.c = procs[p].c /\ r.made = procs[p].made
        /\ r.wrote = procs[p].wrote /\ r.exit = procs[p].exit /\ r.pc = "route"
    BY <1>0, <2>1 DEF WithClient, Procs
  <2>3. procs' = [procs EXCEPT ![p] = r]
    BY <1>3 DEF Go
  <2> HIDE DEF r
  <2>4. ProgramOrder(r) /\ RemovesDeleted(r, tunnels') /\ VnetBore(r, named')
    BY <1>1, <2>2 DEF ProgramOrder, RemovesDeleted, VnetBore
  <2>5. r.exit = "none"
    BY <1>0, <2>2 DEF Makes
  <2> QED
    BY <1>0, <2>2, <2>3, <2>4, <2>5, QuietStep
<1> QED
  BY <1>2, <1>3 DEF TunnelActive

LEMMA RouteInv ==
    ASSUME IInv, NEW p \in Pids, Route(p), UNCHANGED given PROVE IInv'
<1>0. /\ procs[p].pc = "route" /\ cert' \in CertStates
      /\ UNCHANGED <<files, cert, named>>
      /\ procs[p] \in Procs /\ ProgramOrder(procs[p])
      /\ "error" \in Exits \ {"none"} /\ "ok" \in Exits \ {"none"}
  BY ProcFacts DEF Route, At, Exits
<1>1. IsCommand(procs[p].c) /\ procs[p].c.op \in {"dns", "adhoc"}
  BY <1>0 DEF ProgramOrder
<1>2. ASSUME Calm, Op(p) = "adhoc", Goto(p, "findCredentials") PROVE IInv'
  <2> DEFINE r == [procs[p] EXCEPT !.pc = "findCredentials"]
  <2>1. r.c = procs[p].c /\ r.pc = "findCredentials"
    BY <1>0 DEF Procs
  <2>2. ProgramOrder(r)
    BY <1>1, <1>2, <2>1 DEF ProgramOrder, Op
  <2>3. "findCredentials" \in PCs
    BY DEF PCs
  <2> QED
    BY <1>0, <1>2, <2>2, <2>3, MoveInv DEF Goto
<1>3. CASE NoClient(p)
  BY <1>0, <1>3, FailsInv
<1>4. CASE Op(p) = "adhoc" /\ Goto(p, "findCredentials") /\ UNCHANGED storeVars
  BY <1>0, <1>2, <1>4, SameStore
<1>5. ASSUME NEW o \in Outcomes, RouteTunnel(procs[p].id, o),
             CASE Op(p) = "adhoc" -> Goto(p, "findCredentials")
               [] Op(p) # "adhoc" /\ ParsesResponse(o) -> Exit(p, "ok")
               [] OTHER -> Exit(p, "error")
      PROVE  IInv'
  <2>1. UNCHANGED <<tunnels, routes, vnets, defaultVnet>> /\ hosts' \in IDs
    BY <1>0, <1>5 DEF RouteTunnel, IInv, TypeOK, StoreType, Procs
  <2>2. Calm
    BY <1>0, <2>1 DEF Calm, IInv, TypeOK, StoreType, HostType, TunnelsAge, NamesGrow, NamedOK
  <2>3. CASE Op(p) = "adhoc" /\ Goto(p, "findCredentials")
    BY <1>2, <2>2, <2>3
  <2>4. CASE Exit(p, "ok")
    BY <1>0, <1>1, <2>2, <2>4, ExitStep DEF Exit
  <2>5. CASE Exit(p, "error")
    BY <1>0, <2>2, <2>5, ExitStep DEF Exit
  <2> QED
    BY <1>5, <2>3, <2>4, <2>5
<1> QED
  BY <1>3, <1>4, <1>5 DEF Route

LEMMA GetTunnelInv ==
    ASSUME IInv, NEW p \in Pids, GetTunnel(p), UNCHANGED given PROVE IInv'
<1> DEFINE x == IF procs[p].c.force THEN "CleanupForce" ELSE "DeleteTunnel"
<1>0. /\ procs[p].pc = "GetTunnel" /\ cert' \in CertStates
      /\ UNCHANGED <<files, cert, named>>
      /\ procs[p] \in Procs /\ ProgramOrder(procs[p]) /\ Makes(procs[p])
  BY ProcFacts DEF GetTunnel, At
<1>1. CASE NoClient(p) \/ ReadFails(p)
  BY <1>0, <1>1, FailsInv
<1>2. CASE Go(p, [WithClient(p) EXCEPT !.pc = x]) /\ UNCHANGED storeVars
  <2> DEFINE r == [WithClient(p) EXCEPT !.pc = x]
  <2>1. r.c = procs[p].c /\ r.pc = x /\ r.ids = procs[p].ids
    BY <1>0 DEF WithClient, Procs
  <2>2. x \in {"CleanupForce", "DeleteTunnel"}
    OBVIOUS
  <2>3. ProgramOrder(r)
    BY <1>0, <2>1, <2>2 DEF ProgramOrder
  <2>4. x \in PCs /\ ~procs[p].wrote /\ Calm
    BY <1>0, <1>2, <2>2, SameStore DEF PCs, Makes
  <2> QED
    BY <1>0, <1>2, <2>2, <2>3, <2>4, MoveInv
<1> QED
  BY <1>1, <1>2 DEF GetTunnel

LEMMA CleanupCalm ==
    ASSUME IInv, NEW id, NEW o \in Outcomes, CleanupConnections(id, o),
           UNCHANGED <<files, cert, named, given>>
    PROVE  Calm
<1>1. o \in Applied => id \in TunnelIDs
  BY DEF CleanupConnections, Live, Applied, IInv, TypeOK, StoreType
<1>2. /\ UNCHANGED <<hosts, routes, vnets, defaultVnet>>
      /\ \/ tunnels' = tunnels
         \/ id \in TunnelIDs /\ tunnels' = [tunnels EXCEPT ![id].conns = FALSE]
  BY <1>1 DEF CleanupConnections
<1> QED
  BY <1>2, ConnsAge

LEMMA CleanupForceInv ==
    ASSUME IInv, NEW p \in Pids, CleanupForce(p), UNCHANGED given PROVE IInv'
<1>0. /\ procs[p].pc = "CleanupForce" /\ UNCHANGED <<files, cert, named>>
      /\ procs[p] \in Procs /\ ProgramOrder(procs[p]) /\ Makes(procs[p])
  BY ProcFacts DEF CleanupForce, At
<1>1. PICK o \in Outcomes :
         /\ CleanupConnections(DelID(p), o)
         /\ IF StatusIsOK(o) THEN Goto(p, "DeleteTunnel") ELSE Exit(p, "error")
  BY DEF CleanupForce
<1>2. Calm /\ "error" \in Exits \ {"none"} /\ "DeleteTunnel" \in PCs
  BY <1>0, <1>1, CleanupCalm DEF Exits, PCs
<1>3. CASE Goto(p, "DeleteTunnel")
  <2> DEFINE r == [procs[p] EXCEPT !.pc = "DeleteTunnel"]
  <2>1. r.c = procs[p].c /\ r.pc = "DeleteTunnel" /\ r.ids = procs[p].ids
    BY <1>0 DEF Procs
  <2>2. ProgramOrder(r) /\ ~procs[p].wrote
    BY <1>0, <2>1 DEF ProgramOrder, Makes
  <2> QED
    BY <1>0, <1>2, <1>3, <2>2, MoveInv DEF Goto
<1>4. CASE Exit(p, "error")
  BY <1>0, <1>2, <1>4, ExitStep DEF Exit
<1> QED
  BY <1>1, <1>3, <1>4

(* The deletion was applied where the command goes on to the file.         *)
LEMMA DeleteCallInv ==
    ASSUME IInv, NEW p \in Pids, DeleteCall(p), UNCHANGED given PROVE IInv'
<1>0. /\ procs[p].pc = "DeleteTunnel" /\ UNCHANGED <<files, cert, named>>
      /\ procs[p] \in Procs /\ ProgramOrder(procs[p]) /\ Makes(procs[p])
  BY ProcFacts DEF DeleteCall, At
<1>1. PICK o \in Outcomes :
         /\ DeleteTunnel(DelID(p), o)
         /\ IF DeleteStops(o) THEN Exit(p, "error") ELSE Goto(p, "RemoveFile")
  BY DEF DeleteCall
<1>2. /\ Calm /\ "error" \in Exits \ {"none"} /\ "RemoveFile" \in PCs
      /\ StatusIsOK(o) => DelID(p) \in TunnelIDs /\ tunnels'[DelID(p)].state = "deleted"
  BY <1>0, <1>1, DeleteAge DEF Exits, PCs
<1>3. CASE ~DeleteStops(o) /\ Goto(p, "RemoveFile")
  <2> DEFINE r == [procs[p] EXCEPT !.pc = "RemoveFile"]
  <2>1. /\ r \in Procs /\ r.c = procs[p].c /\ r.pc = "RemoveFile" /\ r.ids = procs[p].ids
        /\ r.made = procs[p].made /\ r.wrote = procs[p].wrote /\ r.exit = procs[p].exit
        /\ procs' = [procs EXCEPT ![p] = r]
    BY <1>0, <1>2, <1>3 DEF Procs, Goto, Go
  <2> HIDE DEF r
  <2>2. ProgramOrder(r) /\ ~r.wrote /\ r.exit = "none"
    BY <1>0, <2>1 DEF ProgramOrder, Makes
  <2>3. RemovesDeleted(r, tunnels') /\ VnetBore(r, named')
    BY <1>2, <1>3, <2>1 DEF RemovesDeleted, VnetBore, DeleteStops, DelID
  <2> QED
    BY <1>0, <1>2, <2>1, <2>2, <2>3, QuietStep
<1>4. CASE Exit(p, "error")
  BY <1>0, <1>2, <1>4, ExitStep DEF Exit
<1> QED
  BY <1>1, <1>3, <1>4

LEMMA CleanupInv ==
    ASSUME IInv, NEW p \in Pids, Cleanup(p), UNCHANGED given PROVE IInv'
<1> DEFINE rest == Tail(procs[p].ids)
<1>0. /\ procs[p].pc = "cleanup" /\ UNCHANGED <<files, cert, named>>
      /\ procs[p] \in Procs /\ ProgramOrder(procs[p]) /\ Makes(procs[p])
  BY ProcFacts DEF Cleanup, At
<1>1. procs[p].c.op = "cleanup" /\ procs[p].ids # <<>> /\ "ok" \in Exits \ {"none"}
  BY <1>0 DEF ProgramOrder, Exits
<1>2. rest \in Seq(TunnelIDs)
  BY <1>0, <1>1 DEF Procs
<1>3. CASE NoClient(p)
  BY <1>0, <1>3, FailsInv
<1>4. ASSUME NEW o \in Outcomes, CleanupConnections(DelID(p), o),
             IF rest = <<>> THEN Exit(p, "ok") ELSE Go(p, [WithClient(p) EXCEPT !.ids = rest])
      PROVE  IInv'
  <2>1. Calm
    BY <1>0, <1>4, CleanupCalm
  <2>2. CASE rest = <<>>
    BY <1>0, <1>1, <1>4, <2>1, <2>2, ExitStep DEF Exit
  <2>3. CASE rest # <<>>
    <3> DEFINE r == [WithClient(p) EXCEPT !.ids = rest]
    <3>1. /\ r \in Procs /\ r.c = procs[p].c /\ r.pc = "cleanup" /\ r.ids = rest
          /\ r.made = procs[p].made /\ r.wrote = procs[p].wrote /\ r.exit = procs[p].exit
      BY <1>0, <1>2 DEF Procs, WithClient
    <3>2. procs' = [procs EXCEPT ![p] = r]
      BY <1>4, <2>3 DEF Go
    <3> HIDE DEF r
    <3>3. ProgramOrder(r) /\ ~r.wrote /\ r.exit = "none"
      BY <1>0, <1>1, <2>3, <3>1 DEF ProgramOrder, Makes
    <3>4. RemovesDeleted(r, tunnels') /\ VnetBore(r, named')
      BY <3>1 DEF RemovesDeleted, VnetBore
    <3> QED
      BY <1>0, <2>1, <3>1, <3>2, <3>3, <3>4, QuietStep
  <2> QED
    BY <2>2, <2>3
<1> QED
  BY <1>3, <1>4 DEF Cleanup

LEMMA TokenInv ==
    ASSUME IInv, NEW p \in Pids, Token(p), UNCHANGED given PROVE IInv'
<1>0. /\ procs[p].pc = "token" /\ UNCHANGED <<files, cert, named>> /\ cert' \in CertStates
      /\ procs[p] \in Procs /\ ProgramOrder(procs[p]) /\ Makes(procs[p])
  BY ProcFacts DEF Token, At
<1>1. /\ procs[p].c.op = "token" /\ "ok" \in Exits \ {"none"} /\ "stat" \in PCs
      /\ IsCommand(procs[p].c)
  BY <1>0 DEF ProgramOrder, Exits, PCs
<1>2. CASE NoClient(p) \/ ReadFails(p)
  BY <1>0, <1>2, FailsInv
<1>3. CASE UNCHANGED storeVars /\ Exit(p, "ok")
  BY <1>0, <1>1, <1>3, PlainExit
<1>4. CASE UNCHANGED storeVars /\ procs[p].c.file /\ Go(p, [WithClient(p) EXCEPT !.pc = "stat"])
  <2> DEFINE r == [WithClient(p) EXCEPT !.pc = "stat"]
  <2>1. /\ r \in Procs /\ r.c = procs[p].c /\ r.pc = "stat"
        /\ r.made = procs[p].made /\ r.wrote = procs[p].wrote /\ r.exit = procs[p].exit
        /\ procs' = [procs EXCEPT ![p] = r]
    BY <1>0, <1>1, <1>4 DEF Procs, WithClient, Go
  <2> HIDE DEF r
  <2>2. ProgramOrder(r) /\ ~r.wrote /\ r.exit = "none" /\ ~MakesTunnel(r)
    BY <1>0, <1>1, <1>4, <2>1 DEF ProgramOrder, Makes, MakesTunnel
  <2>3. RemovesDeleted(r, tunnels') /\ VnetBore(r, named') /\ Calm
    BY <1>0, <1>4, <2>1, SameStore DEF RemovesDeleted, VnetBore
  <2> QED
    BY <1>0, <2>1, <2>2, <2>3, QuietStep
<1> QED
  BY <1>2, <1>3, <1>4 DEF Token

LEMMA ReadsInv ==
    ASSUME IInv, NEW p \in Pids, NEW finds,
           NEW pc \in {"list", "info", "show routes", "get route", "list vnets"},
           Reads(p, pc, finds), UNCHANGED given
    PROVE  IInv'
<1>1. /\ procs[p].pc = pc /\ UNCHANGED <<storeVars, files, cert, named>>
      /\ cert' \in CertStates
      /\ (Exit(p, "ok") \/ Exit(p, "error"))
  BY ProcFacts DEF Reads, At
<1>2. procs[p].c.op # "create" /\ "ok" \in Exits \ {"none"} /\ "error" \in Exits \ {"none"}
  BY <1>1, ProcFacts DEF ProgramOrder, Exits
<1> QED
  BY <1>1, <1>2, PlainExit

LEMMA UserStepsInv ==
    ASSUME IInv, NEW p \in Pids, QuickTunnel(p) \/ Login(p) \/ Transfer(p), UNCHANGED given
    PROVE  IInv'
<1>0. /\ procs[p].pc \in {"quick", "login", "transfer"}
      /\ UNCHANGED <<storeVars, files, named>> /\ cert' \in CertStates
      /\ procs[p] \in Procs /\ ProgramOrder(procs[p]) /\ Makes(procs[p])
  <2>1. /\ procs[p].pc \in {"quick", "login", "transfer"}
        /\ UNCHANGED <<storeVars, files, named>>
    BY DEF QuickTunnel, Login, Transfer, At
  <2>2. cert' = cert \/ cert' = "good"
    BY DEF QuickTunnel, Login, Transfer
  <2> QED
    BY <2>1, <2>2, ProcFacts DEF CertStates
<1>1. /\ procs[p].c.op \in {"quick", "login"} /\ Calm /\ "transfer" \in PCs
      /\ {"ok", "error", "serving"} = Exits \ {"none"}
  BY <1>0, SameStore DEF ProgramOrder, Exits, PCs
<1>2. CASE \E code \in {"ok", "error", "serving"} : Exit(p, code)
  BY <1>0, <1>1, <1>2, PlainExit
<1>3. CASE Login(p) /\ Goto(p, "transfer")
  <2> DEFINE r == [procs[p] EXCEPT !.pc = "transfer"]
  <2>1. r.c = procs[p].c /\ r.pc = "transfer" /\ procs[p].pc = "login"
    BY <1>0, <1>3 DEF Procs, Login, At
  <2>2. ProgramOrder(r) /\ ~procs[p].wrote
    BY <1>0, <2>1 DEF ProgramOrder, Makes
  <2> QED
    BY <1>0, <1>1, <1>3, <2>1, <2>2, MoveInv DEF Goto
<1> QED
  BY <1>2, <1>3 DEF QuickTunnel, Login, Transfer

-----------------------------------------------------------------------------
(* Routes and virtual networks.                                            *)
LEMMA GetVnetIdInv ==
    ASSUME IInv, NEW p \in Pids, GetVnetId(p), UNCHANGED given PROVE IInv'
<1> DEFINE ref == procs[p].c.vnet
<1>0. /\ procs[p].pc = "getVnetId" /\ cert' \in CertStates
      /\ UNCHANGED <<storeVars, files, cert, named>>
      /\ procs[p] \in Procs /\ ProgramOrder(procs[p]) /\ Makes(procs[p])
  BY ProcFacts DEF GetVnetId, At
<1>1. /\ Calm /\ IsCommand(procs[p].c)
      /\ Op(p) \in {"add route", "delete route", "get route", "delete vnet", "update vnet"}
  BY <1>0, SameStore DEF ProgramOrder, Op
<1>ref. \/ ref = NoVnet /\ ref[1] = "none"
        \/ ref[1] = "id" /\ ref[2] \in VnetIDs /\ ref # NoVnet
        \/ ref[1] = "name" /\ ref[2] \in VnetNames /\ ref # NoVnet
  BY <1>1, VnetRefFacts
<1>2. ASSUME NEW r0 \in {procs[p], WithClient(p)}, NEW v \in 0 .. MaxVnets,
             Go(p, [r0 EXCEPT !.vnet = v, !.pc = Op(p)]),
             ref[1] = "none" => v = NilID, ref[1] = "id" => v = ref[2],
             ref[1] = "name" => v \in named[ref[2]]
      PROVE  IInv'
  <2> DEFINE r == [r0 EXCEPT !.vnet = v, !.pc = Op(p)]
  <2>1. Op(p) \in PCs
    BY <1>1 DEF PCs
  <2>2. /\ r \in Procs /\ r.c = procs[p].c /\ r.pc = Op(p) /\ r.vnet = v
        /\ r.made = procs[p].made /\ r.wrote = procs[p].wrote /\ r.exit = procs[p].exit
    BY <1>0, <2>1 DEF Procs, WithClient
  <2>3. procs' = [procs EXCEPT ![p] = r]
    BY <1>2 DEF Go
  <2> HIDE DEF r
  <2>4. ProgramOrder(r)
    BY <1>1, <2>2 DEF ProgramOrder, Op
  <2>5. ~r.wrote /\ r.exit = "none"
    BY <1>0, <2>2 DEF Makes
  <2>6. RemovesDeleted(r, tunnels') /\ VnetBore(r, named')
    BY <1>0, <1>1, <1>2, <2>2 DEF RemovesDeleted, VnetBore
  <2> QED
    BY <1>0, <1>1, <2>2, <2>3, <2>4, <2>5, <2>6, QuietStep
<1>3. CASE ref = NoVnet /\ Go(p, [procs[p] EXCEPT !.vnet = NilID, !.pc = Op(p)])
  BY <1>ref, <1>2, <1>3, Numbers
<1>4. CASE ref[1] = "id" /\ Go(p, [procs[p] EXCEPT !.vnet = ref[2], !.pc = Op(p)])
  <2>1. ref[2] \in 0 .. MaxVnets
    BY <1>ref, <1>4, Numbers
  <2> QED
    BY <1>2, <1>4, <2>1
<1>5. CASE Exit(p, "error")
  <2>1. "error" \in Exits \ {"none"}
    BY DEF Exits
  <2> QED
    BY <1>0, <1>5, <2>1, PlainExit
<1>6. ASSUME ref[1] = "name", NEW v \in VnetsNamed(ref[2]),
             Go(p, [WithClient(p) EXCEPT !.vnet = v, !.pc = Op(p)])
      PROVE  IInv'
  <2> DEFINE name == ref[2]
  <2>0. name \in VnetNames /\ name # ""
    BY <1>ref, <1>6, NamesAssumption
  <2> HIDE DEF name
  <2>1. v \in VnetIDs /\ vnets[v].state = "live" /\ (name = "" \/ vnets[v].name = name)
    BY <1>6 DEF VnetsNamed, Matches, ByName, NoDeleted, NewVnetFilter, NewTunnelFilter,
             IInv, TypeOK, StoreType, name
  <2>2. v \in named[name]
    BY <2>0, <2>1 DEF IInv, NamedOK
  <2> QED
    BY <1>2, <1>6, <2>1, <2>2, Numbers DEF name
<1> QED
  BY <1>3, <1>4, <1>5, <1>6 DEF GetVnetId

LEMMA RoutesCalm ==
    ASSUME IInv, routes' \in [VnetIDs -> IDs],
           UNCHANGED <<tunnels, hosts, vnets, defaultVnet, files, cert, named, given>>
    PROVE  Calm
BY DEF Calm, IInv, TypeOK, StoreType, HostType, TunnelsAge, NamesGrow, NamedOK

LEMMA VnetsCalm ==
    ASSUME IInv, routes' \in [VnetIDs -> IDs],
           vnets' \in [VnetIDs -> [name : VnetNames \cup {"", "default"}, state : States]],
           UNCHANGED <<tunnels, hosts, files, cert, given>>, defaultVnet' \in VnetIDs,
           \/ /\ named' = named
              /\ \A v \in VnetIDs : vnets'[v].state = "live" => vnets'[v] = vnets[v]
           \/ named' = Bears(vnets')
    PROVE  Calm
<1>1. StoreType' /\ files' = files /\ TunnelsAge
  BY DEF IInv, TypeOK, StoreType, TunnelsAge
<1>2. named \in [VnetNames -> SUBSET VnetIDs]
  BY DEF IInv, TypeOK, HostType
<1>3. named' \in [VnetNames -> SUBSET VnetIDs] /\ NamesGrow /\ NamedOK'
  <2>1. CASE named' = named
    BY <1>2, <2>1 DEF NamesGrow, NamedOK, IInv, Bears, Live
  <2>2. CASE named' = Bears(vnets')
    <3>1. DOMAIN vnets' = VnetIDs
      OBVIOUS
    <3> QED
      BY <1>2, <2>2, <3>1 DEF NamesGrow, NamedOK, Bears, Live
  <2> QED
    BY <2>1, <2>2
<1>4. HostType'
  BY <1>3 DEF IInv, TypeOK, HostType
<1> QED
  BY <1>1, <1>3, <1>4 DEF Calm

LEMMA NetworkInv ==
    ASSUME IInv, NEW p \in Pids, Network(p), UNCHANGED given PROVE IInv'
<1> DEFINE T == [name : VnetNames \cup {"", "default"}, state : States]
<1>0. /\ UNCHANGED <<files, cert>> /\ cert' \in CertStates
      /\ procs[p] \in Procs /\ ProgramOrder(procs[p])
      /\ routes \in [VnetIDs -> IDs] /\ vnets \in [VnetIDs -> T] /\ defaultVnet \in VnetIDs
      /\ {"ok", "error"} \subseteq Exits \ {"none"}
  BY ProcFacts DEF Network, IInv, TypeOK, StoreType, Exits
<1>1. ASSUME NEW o \in Outcomes, Ends(p, o), Calm,
             procs[p].pc \in {"add route", "delete route", "add vnet", "delete vnet", "update vnet"}
      PROVE  IInv'
  <2>1. procs[p].c.op # "create"
    BY <1>0, <1>1 DEF ProgramOrder
  <2> QED
    BY <1>0, <1>1, <2>1, ExitStep DEF Ends, Exit
<1>2. CASE \E o \in Outcomes : AddRouteCommand(p, o)
  <2>1. PICK o \in Outcomes : AddRouteCommand(p, o)
    BY <1>2
  <2>2. routes' \in [VnetIDs -> IDs]
    BY <1>0, <2>1 DEF AddRouteCommand, AddRoute, Procs
  <2>3. Calm /\ procs[p].pc = "add route" /\ Ends(p, o)
    BY <1>0, <2>1, <2>2, RoutesCalm DEF AddRouteCommand, AddRoute, At
  <2> QED
    BY <1>1, <2>3
<1>3. CASE \E o \in Outcomes : DeleteRouteCommand(p, o)
  <2>1. PICK o \in Outcomes : DeleteRouteCommand(p, o)
    BY <1>3
  <2>2. routes' \in [VnetIDs -> IDs]
    BY <1>0, <2>1, Numbers DEF DeleteRouteCommand, DeleteRoute
  <2>3. Calm /\ procs[p].pc = "delete route" /\ Ends(p, o)
    BY <1>0, <2>1, <2>2, RoutesCalm DEF DeleteRouteCommand, DeleteRoute, At
  <2> QED
    BY <1>1, <2>3
<1>4. CASE \E o \in Outcomes : AddVirtualNetworkCommand(p, o)
  <2>1. PICK o \in Outcomes, v \in VnetIDs :
           /\ At(p, "add vnet")
           /\ CreateVirtualNetwork(procs[p].c.vnet[2], v, procs[p].c.default, o)
           /\ Ends(p, o) /\ named' = Bears(vnets')
    BY <1>4 DEF AddVirtualNetworkCommand
  <2>2. IsCommand(procs[p].c) /\ procs[p].c.op = "add vnet"
    BY <1>0, <2>1 DEF ProgramOrder, At
  <2>3. [name |-> procs[p].c.vnet[2], state |-> "live"] \in T
    <3>1. procs[p].c.vnet[2] \in VnetNames
      BY <2>2, VnetRefFacts DEF IsCommand
    <3> QED
      BY <3>1 DEF States
  <2> HIDE DEF T
  <2>4. vnets' \in [VnetIDs -> T]
    BY <1>0, <2>1, <2>3 DEF CreateVirtualNetwork
  <2>5. UNCHANGED <<tunnels, hosts, routes>> /\ defaultVnet' \in VnetIDs
    BY <1>0, <2>1 DEF CreateVirtualNetwork, MakeDefault
  <2>6. Calm
    BY <1>0, <2>1, <2>4, <2>5, VnetsCalm DEF T
  <2> QED
    BY <1>1, <2>1, <2>6 DEF At
<1>5. CASE \E o \in Outcomes : DeleteVirtualNetworkCommand(p, o)
  <2>1. PICK o \in Outcomes : DeleteVirtualNetworkCommand(p, o)
    BY <1>5
  <2>2. \A t \in T : /\ [t EXCEPT !.state = "deleted"] \in T
                     /\ [t EXCEPT !.state = "deleted"].state = "deleted"
    BY DEF States
  <2> HIDE DEF T
  <2>3. /\ vnets' \in [VnetIDs -> T] /\ routes' \in [VnetIDs -> IDs]
        /\ \A v \in VnetIDs : vnets'[v].state = "live" => vnets'[v] = vnets[v]
    <3>1. CASE o \in Applied
      <4> DEFINE v == procs[p].vnet
      <4>1. /\ vnets' = [vnets EXCEPT ![v].state = "deleted"]
            /\ routes' = [routes EXCEPT ![v] = NilID]
        BY <2>1, <3>1 DEF DeleteVirtualNetworkCommand, DeleteVirtualNetwork
      <4> HIDE DEF v
      <4> QED
        BY <1>0, <2>2, <4>1, Numbers
    <3>2. CASE o \notin Applied
      BY <1>0, <2>1, <3>2 DEF DeleteVirtualNetworkCommand, DeleteVirtualNetwork
    <3> QED
      BY <3>1, <3>2
  <2>4. /\ UNCHANGED <<tunnels, hosts, defaultVnet, named>> /\ Ends(p, o) /\ procs[p].pc = "delete vnet"
    BY <2>1 DEF DeleteVirtualNetworkCommand, DeleteVirtualNetwork, At
  <2>5. Calm
    BY <1>0, <2>3, <2>4, VnetsCalm DEF T
  <2> QED
    BY <1>1, <2>4, <2>5
<1>6. CASE \E o \in Outcomes : UpdateVirtualNetworkCommand(p, o)
  <2> DEFINE n == procs[p].c.newName
             w == procs[p].vnet
  <2>1. PICK o \in Outcomes : UpdateVirtualNetworkCommand(p, o)
    BY <1>6
  <2>2. IsCommand(procs[p].c) /\ procs[p].pc = "update vnet"
    BY <1>0, <2>1 DEF ProgramOrder, At, UpdateVirtualNetworkCommand
  <2>3. n \in VnetNames \cup {""}
    BY <2>2 DEF IsCommand, Lines
  <2>4. UpdateVirtualNetwork(w, n, procs[p].c.default, o)
    BY <2>1 DEF UpdateVirtualNetworkCommand
  <2>5. \A t \in T : [t EXCEPT !.name = n] \in T
    BY <2>3
  <2> HIDE DEF n, w, T
  <2>6. vnets' \in [VnetIDs -> T]
    BY <1>0, <2>4, <2>5 DEF UpdateVirtualNetwork
  <2>7. defaultVnet' \in VnetIDs
    BY <1>0, <2>4 DEF UpdateVirtualNetwork, MakeDefault, Live, Applied
  <2>8. UNCHANGED <<tunnels, hosts, routes>> /\ Ends(p, o) /\ named' = Bears(vnets')
    BY <2>1 DEF UpdateVirtualNetworkCommand, UpdateVirtualNetwork
  <2>9. Calm
    BY <1>0, <2>6, <2>7, <2>8, VnetsCalm DEF T
  <2> QED
    BY <1>1, <2>2, <2>8, <2>9
<1>7. CASE /\ procs[p].pc \in {"add route", "delete route", "add vnet",
                               "delete vnet", "update vnet"}
           /\ NoClient(p) /\ UNCHANGED named
  BY <1>0, <1>7, FailsInv
<1> QED
  BY <1>2, <1>3, <1>4, <1>5, <1>6, <1>7 DEF Network

-----------------------------------------------------------------------------
(* A command is given.                                                     *)
LEMMA FirstStepFacts ==
    ASSUME NEW c, IsCommand(c), NEW r, r.c = c, r.pc = FirstStep(c), r.ids = <<>>
    PROVE  /\ FirstStep(c) \in PCs \ {"idle", "exited", "stat", "write", "rollback",
                                      "RemoveFile", "add route", "delete route"}
           /\ ProgramOrder(r)
<1>1. c.op \in Ops
  BY DEF IsCommand, Lines
<1>2. /\ c.op = "create" => FirstStep(c) = "create"
      /\ c.op \in {"adhoc", "quick", "proxy dns"} => FirstStep(c) = "tunnel"
      /\ c.op = "run" /\ c.token # NoFile => FirstStep(c) = "runToken"
      /\ c.op = "run" /\ c.token = NoFile => FirstStep(c) = "findID"
      /\ c.op \in {"token", "dns", "info", "add route"} => FirstStep(c) = "findID"
      /\ c.op \in {"delete", "cleanup"} => FirstStep(c) = "findIDs"
      /\ c.op \in {"delete route", "get route", "delete vnet", "update vnet"} =>
            FirstStep(c) = "getVnetId"
      /\ c.op \in {"login", "list", "show routes", "add vnet", "list vnets"} =>
            FirstStep(c) = c.op
  BY DEF FirstStep
<1>3. FirstStep(c) \in PCs \ {"idle", "exited", "stat", "write", "rollback",
                              "RemoveFile", "add route", "delete route"}
  BY <1>1, <1>2 DEF Ops, PCs
<1>4. r.pc = "findIDs" => Len(r.ids) < Len(r.c.refs)
  <2>1. c.refs \in Seq(Refs) /\ Len(r.ids) = 0
    BY DEF IsCommand, Lines
  <2>2. r.pc = "findIDs" => c.refs # <<>>
    BY <1>1, <1>2 DEF Ops, IsCommand
  <2> QED
    BY <2>1, <2>2
<1>5. FirstStep(c) = "findID" => c.refs # <<>>
  BY <1>1, <1>2 DEF Ops, IsCommand
<1>6. ProgramOrder(r)
  BY <1>1, <1>2, <1>4, <1>5 DEF Ops, ProgramOrder, MakesTunnel
<1> QED
  BY <1>3, <1>6

LEMMA GiveInv ==
    ASSUME IInv, NEW p \in Pids, Give(p), UNCHANGED given PROVE IInv'
<1>1. PICK c \in given : Go(p, [Idle EXCEPT !.c = c, !.pc = FirstStep(c)])
  BY DEF Give
<1> DEFINE r == [Idle EXCEPT !.c = c, !.pc = FirstStep(c)]
<1>2. IsCommand(c) /\ c \in Lines
  BY DEF IInv, TypeOK, HostType, IsCommand
<1>3. /\ procs[p].pc = "idle" /\ procs[p] = Idle /\ Calm
      /\ procs' = [procs EXCEPT ![p] = r]
  BY <1>1, SameStore, ProcFacts DEF Give, At, Go, ProgramOrder
<1>4. r.c = c /\ r.pc = FirstStep(c) /\ r.ids = <<>>
  BY IdleOK DEF Procs, Idle
<1>5. /\ r.pc \in PCs \ {"idle", "exited", "stat", "write", "rollback",
                         "RemoveFile", "add route", "delete route"}
      /\ ProgramOrder(r)
  BY <1>2, <1>4, FirstStepFacts
<1>6. /\ r \in Procs /\ r.made = NilID /\ ~r.wrote /\ r.exit = "none" /\ r.vnet = NilID
      /\ r.wrote = procs[p].wrote /\ r.made = procs[p].made
  BY <1>2, <1>3, <1>4, <1>5, IdleOK DEF Procs
<1> HIDE DEF r
<1>7. Makes(r) /\ MadeIn(r, tunnels')
  BY <1>5, <1>6 DEF Makes, MadeIn
<1>8. RemovesDeleted(r, tunnels') /\ VnetBore(r, named')
  BY <1>5, <1>6 DEF RemovesDeleted, VnetBore
<1> QED
  BY <1>3, <1>5, <1>6, <1>7, <1>8, CalmStep

-----------------------------------------------------------------------------
(* Creating a tunnel and writing its credentials.                          *)
LEMMA CreateTunnelInv ==
    ASSUME IInv, NEW p \in Pids, CreateTunnel(p), UNCHANGED given PROVE IInv'
<1> DEFINE T == [name : TunnelNames \cup {""}, state : States, conns : BOOLEAN]
<1>0. /\ procs[p].pc = "CreateTunnel" /\ UNCHANGED <<files, cert, named>>
      /\ procs[p] \in Procs /\ ProgramOrder(procs[p]) /\ Makes(procs[p])
      /\ VnetOK(procs[p]) /\ cert' \in CertStates
      /\ procs \in [Pids -> Procs] /\ tunnels \in [TunnelIDs -> T]
  BY ProcFacts DEF CreateTunnel, At, IInv, TypeOK, StoreType
<1>1. /\ MakesTunnel(procs[p]) /\ procs[p].made = NilID /\ ~procs[p].wrote
      /\ procs[p].exit = "none" /\ IsCommand(procs[p].c)
  BY <1>0 DEF ProgramOrder, Makes
<1>2. CASE Exit(p, "error") /\ UNCHANGED storeVars
  <2>1. "error" \in Exits \ {"none"}
    BY DEF Exits
  <2> QED
    BY <1>0, <1>2, <2>1, PlainExit
<1>3. ASSUME NEW id \in TunnelIDs, NEW o \in CreateOutcomes \ {"refused"},
             StoreTunnel(Ref(p)[2], id), NEW r,
             procs' = [procs EXCEPT ![p] = r],
             r \in Procs, r.made = id, ~r.wrote, r.c = procs[p].c, r.exit # "ok",
             \/ /\ r.pc = "stat" /\ r.exit = "none"
                /\ (r.id = id \/ (GarbledCreate /\ r.id = NilID))
             \/ r.pc = "exited" /\ r.exit = "error" /\ r.lost
      PROVE  IInv'
  <2>1. /\ Ref(p)[2] \in TunnelNames
    <3>1. procs[p].c.refs # <<>> /\ ~IsID(Head(procs[p].c.refs))
      BY <1>1 DEF IsCommand, MakesTunnel
    <3> QED
      BY <1>1, <3>1, RefFacts DEF Ref
  <2>2. \A t \in T : /\ [t EXCEPT !.state = "live"] \in T
                     /\ [t EXCEPT !.state = "live"].state = "live"
                     /\ \A n \in TunnelNames : [t EXCEPT !.name = n] \in T
    BY DEF States
  <2>3. /\ tunnels' = [tunnels EXCEPT ![id].name = Ref(p)[2], ![id].state = "live"]
        /\ tunnels[id].state = "unused" /\ UNCHANGED <<hosts, routes, vnets, defaultVnet>>
    BY <1>3 DEF StoreTunnel, Unused
  <2> HIDE DEF T
  <2>4. /\ tunnels' \in [TunnelIDs -> T] /\ tunnels'[id].state = "live"
        /\ \A i \in TunnelIDs : i # id => tunnels'[i] = tunnels[i]
    <3> DEFINE t1 == [tunnels EXCEPT ![id].name = Ref(p)[2]]
    <3>1. t1 \in [TunnelIDs -> T] /\ \A i \in TunnelIDs : i # id => t1[i] = tunnels[i]
      BY <1>0, <2>1, <2>2
    <3>2. tunnels' = [t1 EXCEPT ![id].state = "live"]
      BY <2>3
    <3> HIDE DEF t1
    <3> QED
      BY <2>2, <3>1, <3>2
  <2>5. StoreType' /\ HostType' /\ NamesGrow /\ NamedOK'
    BY <1>0, <2>3, <2>4 DEF IInv, TypeOK, StoreType, HostType, NamesGrow, NamedOK, T
  <2>6. procs'[p] = r /\ \A q \in Pids : q # p => procs'[q] = procs[q]
    BY <1>0, <1>3
  <2>7. TypeOK'
    BY <1>0, <1>3, <2>5 DEF TypeOK
  <2>8. ASSUME NEW q \in Pids, q # p PROVE ProcOK(procs[q])'
    <3>1. procs'[q] = procs[q] /\ ProcOK(procs[q]) /\ procs[q] \in Procs
      BY <2>6, <2>8, <1>0 DEF IInv
    <3>2. procs[q].made # id /\ (procs[q].made # NilID => procs[q].made \in TunnelIDs)
      BY <1>3, <2>3, <3>1, Numbers DEF IInv, NotMadeYet, Procs
    <3>3. MadeOK(procs[q])'
      BY <2>4, <3>1, <3>2 DEF ProcOK, MadeOK, MadeIn, MakesTunnel
    <3>4. RemoveOK(procs[q])'
      BY <2>3, <2>4, <3>1 DEF ProcOK, RemoveOK, RemovesDeleted
    <3>5. VnetOK(procs[q])'
      BY <1>0, <3>1 DEF ProcOK, VnetOK, VnetBore
    <3>6. ProgramOrder(procs[q])'
      BY <3>1 DEF ProcOK, ProgramOrder, MakesTunnel
    <3>7. Makes(procs[q])'
      BY <3>1 DEF ProcOK, Makes, MakesTunnel
    <3> QED
      BY <3>3, <3>4, <3>5, <3>6, <3>7 DEF ProcOK
  <2>9. ProcOK(procs[p])'
    <3>1. ProgramOrder(procs[p])'
      BY <1>1, <1>3, <2>6 DEF ProgramOrder, MakesTunnel
    <3>2. Makes(procs[p])'
      BY <1>3, <2>6, Numbers DEF Makes
    <3>3. MadeOK(procs[p])' /\ RemoveOK(procs[p])' /\ VnetOK(procs[p])'
      BY <1>3, <2>4, <2>6 DEF MadeOK, MadeIn, RemoveOK, RemovesDeleted, VnetOK, VnetBore
    <3> QED
      BY <3>1, <3>2, <3>3 DEF ProcOK
  <2>10. MadeOnce' /\ NotMadeYet'
    <3>1. \A q \in Pids : procs[q].made # id
      BY <1>3, <2>3 DEF IInv, NotMadeYet
    <3> QED
      BY <1>3, <2>3, <2>4, <2>6, <3>1 DEF IInv, MadeOnce, NotMadeYet
  <2>11. ~GarbledCreate => FilesOK'
    <3>1. ~GarbledCreate => CertFile(id) = NoFile
      BY <1>3, <2>3 DEF IInv, FilesOK
    <3> QED
      BY <1>0, <1>3, <2>3, <2>4, <2>6, <3>1 DEF IInv, FilesOK, CertFile, ConfigFile
  <2>12. ~GarbledCreate => CreatedIsRunnable'
    <3> SUFFICES ASSUME ~GarbledCreate, NEW q \in Pids,
                        procs'[q].c.op = "create", procs'[q].exit = "ok"
                 PROVE  /\ procs'[q].made # NilID
                        /\ \/ tunnels'[procs'[q].made].state = "deleted"
                           \/ files'[WritePath(q)'] = Credentials(procs'[q].made, procs'[q].made)
                           \/ procs'[q].c.file /\ FlagShared(q)'
      BY DEF CreatedIsRunnable, Op
    <3>1. q # p /\ procs'[q] = procs[q] /\ procs[q] \in Procs
      BY <1>0, <1>3, <2>6
    <3>2. /\ procs[q].made # NilID
          /\ \/ tunnels[procs[q].made].state = "deleted"
             \/ files[WritePath(q)] = Credentials(procs[q].made, procs[q].made)
             \/ procs[q].c.file /\ FlagShared(q)
      BY <3>1 DEF IInv, CreatedIsRunnable, Op
    <3>3. procs[q].made \in TunnelIDs /\ procs[q].made # id
      BY <1>3, <2>3, <3>1, <3>2, Numbers DEF Procs, IInv, NotMadeYet
    <3>4. \A k \in Pids : procs'[k].c = procs[k].c
      BY <1>3, <2>6
    <3>5. WritePath(q)' = WritePath(q) /\ (FlagShared(q) => FlagShared(q)')
      BY <3>1, <3>4 DEF WritePath, FlagShared
    <3> QED
      BY <1>0, <2>4, <3>1, <3>2, <3>3, <3>5
  <2> QED
    BY <2>5, <2>7, <2>8, <2>9, <2>10, <2>11, <2>12 DEF IInv
<1>4. ASSUME NEW id \in TunnelIDs, NEW o \in CreateOutcomes \ {"refused"},
             StoreTunnel(Ref(p)[2], id),
             LET r == [procs[p] EXCEPT !.made = id]
             IN  IF CreateSucceeds(o)
                 THEN Go(p, [r EXCEPT !.id = CreatedID(o, id), !.pc = "stat"])
                 ELSE Go(p, Exited([r EXCEPT !.lost = TRUE], "error"))
      PROVE  IInv'
  <2> DEFINE r1 == [procs[p] EXCEPT !.made = id]
  <2>0. r1 \in Procs /\ r1.made = id /\ ~r1.wrote /\ r1.c = procs[p].c /\ r1.exit = "none"
    BY <1>0, <1>1, Numbers DEF Procs
  <2>1. CASE CreateSucceeds(o)
    <3> DEFINE r == [r1 EXCEPT !.id = CreatedID(o, id), !.pc = "stat"]
    <3>1. CreatedID(o, id) \in IDs /\ "stat" \in PCs
      BY <1>4, Numbers DEF CreatedID, PCs
    <3>2. CreatedID(o, id) = id \/ (GarbledCreate /\ CreatedID(o, id) = NilID)
      BY <1>4, <2>1, Numbers DEF CreatedID, CreateSucceeds, StatusIsOK, ParsesResponse, CreateOutcomes
    <3>3. procs' = [procs EXCEPT ![p] = r]
      BY <1>4, <2>1 DEF Go
    <3> HIDE DEF r1
    <3>4. /\ r \in Procs /\ r.made = id /\ ~r.wrote /\ r.c = procs[p].c /\ r.exit = "none"
          /\ r.pc = "stat" /\ r.id = CreatedID(o, id)
      BY <2>0, <3>1 DEF Procs
    <3> HIDE DEF r
    <3> QED
      BY <1>3, <1>4, <3>2, <3>3, <3>4
  <2>2. CASE ~CreateSucceeds(o)
    <3> DEFINE r2 == [r1 EXCEPT !.lost = TRUE]
               r == Exited(r2, "error")
    <3>1. "error" \in Exits \ {"none"}
      BY DEF Exits
    <3>2. procs' = [procs EXCEPT ![p] = r]
      BY <1>4, <2>2 DEF Go
    <3> HIDE DEF r1
    <3>3. r2 \in Procs /\ r2.made = id /\ ~r2.wrote /\ r2.c = procs[p].c /\ r2.lost
      BY <2>0 DEF Procs
    <3> HIDE DEF r2
    <3>4. /\ r \in Procs /\ r.pc = "exited" /\ r.exit = "error" /\ r.lost
          /\ r.made = id /\ ~r.wrote /\ r.c = procs[p].c
      BY <3>1, <3>3, ExitedFacts
    <3> HIDE DEF r
    <3> QED
      BY <1>3, <1>4, <3>2, <3>4
  <2> QED
    BY <2>1, <2>2
<1> QED
  BY <1>2, <1>4 DEF CreateTunnel

LEMMA FileMoveInv ==
    ASSUME IInv, NEW p \in Pids, procs[p].pc \in {"stat", "write"},
           Goto(p, "write") \/ WriteFails(p),
           UNCHANGED <<storeVars, files, cert, named, given>>
    PROVE  IInv'
<1>0. /\ procs[p] \in Procs /\ ProgramOrder(procs[p]) /\ Makes(procs[p]) /\ MadeOK(procs[p])
      /\ cert' \in CertStates
  BY ProcFacts
<1>1. Calm /\ tunnels' = tunnels
  BY <1>0, SameStore DEF storeVars
<1>2. ASSUME NEW x \in {"write", "rollback"}, Goto(p, x), x = "rollback" => Op(p) # "token"
      PROVE  IInv'
  <2> DEFINE r == [procs[p] EXCEPT !.pc = x]
  <2>1. x \in PCs
    BY DEF PCs
  <2>2. /\ r \in Procs /\ r.c = procs[p].c /\ r.pc = x /\ r.id = procs[p].id
        /\ r.made = procs[p].made /\ r.wrote = procs[p].wrote /\ r.exit = procs[p].exit
        /\ procs' = [procs EXCEPT ![p] = r]
    BY <1>0, <1>2, <2>1 DEF Procs, Goto, Go
  <2> HIDE DEF r
  <2>3. ProgramOrder(r)
    BY <1>0, <1>2, <2>2 DEF ProgramOrder, MakesTunnel, Op
  <2>4. Makes(r) /\ r.exit # "ok"
    BY <1>0, <1>2, <2>2 DEF Makes, MakesTunnel
  <2>5. MadeIn(r, tunnels') /\ RemovesDeleted(r, tunnels') /\ VnetBore(r, named')
    BY <1>0, <1>1, <2>2 DEF MadeOK, MadeIn, RemovesDeleted, VnetBore
  <2> QED
    BY <1>1, <2>2, <2>3, <2>4, <2>5, CalmStep
<1>3. CASE Op(p) = "token" /\ Exit(p, "error")
  <2> DEFINE r == Exited(procs[p], "error")
  <2>1. "error" \in Exits \ {"none"}
    BY DEF Exits
  <2>2. /\ r \in Procs /\ r.pc = "exited" /\ r.exit = "error"
        /\ r.c = procs[p].c /\ r.made = procs[p].made /\ r.wrote = procs[p].wrote
        /\ ProgramOrder(r)
    BY <1>0, <2>1, ExitedFacts
  <2>3. procs' = [procs EXCEPT ![p] = r]
    BY <1>3 DEF Exit, Go
  <2> HIDE DEF r
  <2>4. Makes(r)
    BY <1>0, <2>2 DEF Makes
  <2>5. MadeIn(r, tunnels') /\ RemovesDeleted(r, tunnels') /\ VnetBore(r, named')
    BY <1>0, <1>1, <1>3, <2>2 DEF MadeOK, MadeIn, RemovesDeleted, VnetBore, MakesTunnel, Op
  <2> QED
    BY <1>1, <2>2, <2>3, <2>4, <2>5, CalmStep
<1> QED
  BY <1>2, <1>3 DEF WriteFails

LEMMA StatInv ==
    ASSUME IInv, NEW p \in Pids, Stat(p), UNCHANGED given PROVE IInv'
BY FileMoveInv DEF Stat, At

(* The deletion of the rollback was applied, or the user is told.          *)
LEMMA RollbackInv ==
    ASSUME IInv, NEW p \in Pids, Rollback(p), UNCHANGED given PROVE IInv'
<1>0. /\ procs[p].pc = "rollback" /\ UNCHANGED <<files, cert, named>>
      /\ procs[p] \in Procs /\ ProgramOrder(procs[p]) /\ Makes(procs[p]) /\ MadeOK(procs[p])
  BY ProcFacts DEF Rollback, At
<1>1. PICK o \in Outcomes :
         /\ DeleteTunnel(procs[p].id, o)
         /\ Go(p, Exited([procs[p] EXCEPT !.lost = @ \/ ~StatusIsOK(o)], "error"))
  BY DEF Rollback
<1>2. /\ Calm /\ TunnelsAge
      /\ StatusIsOK(o) => procs[p].id \in TunnelIDs /\ tunnels'[procs[p].id].state = "deleted"
  BY <1>0, <1>1, DeleteAge DEF Calm
<1> DEFINE r0 == [procs[p] EXCEPT !.lost = @ \/ ~StatusIsOK(o)]
           r == Exited(r0, "error")
<1>3. "error" \in Exits \ {"none"}
  BY DEF Exits
<1>4. /\ r0 \in Procs /\ r0.c = procs[p].c /\ r0.made = procs[p].made
      /\ r0.wrote = procs[p].wrote /\ (~r0.lost => StatusIsOK(o))
  BY <1>0 DEF Procs, StatusIsOK
<1>5. procs' = [procs EXCEPT ![p] = r]
  BY <1>1 DEF Go
<1> HIDE DEF r0
<1>6. /\ r \in Procs /\ r.pc = "exited" /\ r.exit = "error" /\ r.lost = r0.lost
      /\ r.c = procs[p].c /\ r.made = procs[p].made /\ r.wrote = procs[p].wrote
      /\ ProgramOrder(r)
  BY <1>3, <1>4, ExitedFacts
<1> HIDE DEF r
<1>7. procs[p].id \in TunnelIDs => procs[p].id = procs[p].made
  BY <1>0, Numbers DEF ProgramOrder, Makes
<1>8. procs[p].made # NilID => procs[p].made \in TunnelIDs
  BY <1>0, Numbers DEF Procs
<1>9. Makes(r)
  BY <1>0, <1>6 DEF Makes
<1>10. MadeIn(r, tunnels')
  BY <1>0, <1>2, <1>4, <1>6, <1>7, <1>8 DEF MadeOK, MadeIn, TunnelsAge
<1>11. RemovesDeleted(r, tunnels') /\ VnetBore(r, named')
  BY <1>6 DEF RemovesDeleted, VnetBore
<1> QED
  BY <1>2, <1>5, <1>6, <1>9, <1>10, <1>11, CalmStep

(* What a step that touches one file has to leave alone.                   *)
LEMMA RunnableKept ==
    ASSUME IInv, ~GarbledCreate, NEW p \in Pids, NEW q \in Pids, q # p,
           procs'[q] = procs[q], \A k \in Pids : procs'[k].c = procs[k].c,
           NEW path \in Paths, NEW content, files' = [files EXCEPT ![path] = content],
           tunnels' = tunnels,
           path = FlagPath => procs[p].c.file,
           path = TunnelFilePath(procs[q].made, CertDir) /\ procs[q].made # NilID =>
               tunnels[procs[q].made].state = "deleted",
           procs[q].c.op = "create", procs[q].exit = "ok"
    PROVE  /\ procs'[q].made # NilID
           /\ \/ tunnels'[procs'[q].made].state = "deleted"
              \/ files'[WritePath(q)'] = Credentials(procs'[q].made, procs'[q].made)
              \/ procs'[q].c.file /\ FlagShared(q)'
<1>1. /\ procs[q].made # NilID
      /\ \/ tunnels[procs[q].made].state = "deleted"
         \/ files[WritePath(q)] = Credentials(procs[q].made, procs[q].made)
         \/ procs[q].c.file /\ FlagShared(q)
  BY DEF IInv, CreatedIsRunnable, Op
<1>2. procs[q].id = procs[q].made /\ procs[q] \in Procs
  BY ProcFacts DEF Makes
<1>3. WritePath(q)' = WritePath(q) /\ files \in [Paths -> FileContents] /\ procs[q].id \in IDs
  BY <1>2 DEF WritePath, IInv, TypeOK, HostType, Procs
<1>4. WritePath(q) \in Paths /\ (~procs[q].c.file => WritePath(q) # FlagPath)
  BY <1>3, PathFacts DEF WritePath
<1>5. CASE path # WritePath(q)
  <2>1. files'[WritePath(q)] = files[WritePath(q)]
    BY <1>3, <1>4, <1>5
  <2>2. CASE procs[q].c.file /\ FlagShared(q)
    BY <1>1, <2>2 DEF FlagShared
  <2> QED
    BY <1>1, <1>3, <2>1, <2>2
<1>6. CASE path = WritePath(q)
  <2>1. CASE procs[q].c.file
    <3>1. procs'[p].c.file
      BY <1>6, <2>1 DEF WritePath
    <3> QED
      BY <1>1, <2>1, <3>1 DEF FlagShared
  <2>2. CASE ~procs[q].c.file
    BY <1>1, <1>2, <1>6, <2>2 DEF WritePath
  <2> QED
    BY <2>1, <2>2
<1> QED
  BY <1>5, <1>6

LEMMA WriteInv ==
    ASSUME IInv, NEW p \in Pids, Write(p), UNCHANGED given PROVE IInv'
<1>0. /\ procs[p].pc = "write" /\ UNCHANGED <<storeVars, cert, named>> /\ cert' \in CertStates
      /\ procs[p] \in Procs /\ ProgramOrder(procs[p]) /\ Makes(procs[p]) /\ MadeOK(procs[p])
      /\ procs \in [Pids -> Procs]
  BY ProcFacts DEF Write, At
<1>1. CASE WriteFails(p) /\ UNCHANGED files
  BY <1>0, <1>1, FileMoveInv
<1>2. CASE /\ files' = [files EXCEPT ![WritePath(p)] = Credentials(procs[p].id, Secret(p))]
           /\ Wrote(p)
  <2> DEFINE path == WritePath(p)
             content == Credentials(procs[p].id, Secret(p))
             r1 == [procs[p] EXCEPT !.wrote = TRUE]
  <2>0. PICK code \in {"ok", "error"} :
           /\ code = "error" => Op(p) = "create"
           /\ Go(p, IF Op(p) = "adhoc" THEN [r1 EXCEPT !.pc = "route"] ELSE Exited(r1, code))
    BY <1>2 DEF Wrote
  <2> DEFINE r == IF Op(p) = "adhoc" THEN [r1 EXCEPT !.pc = "route"] ELSE Exited(r1, code)
  <2>1. procs' = [procs EXCEPT ![p] = r]
    BY <2>0 DEF Go
  <2>2. r1 \in Procs /\ r1.c = procs[p].c /\ r1.made = procs[p].made /\ r1.wrote
        /\ r1.id = procs[p].id /\ r1.exit = "none"
    BY <1>0 DEF Procs, Makes
  <2> HIDE DEF r1
  <2>3. /\ r \in Procs /\ r.c = procs[p].c /\ r.made = procs[p].made /\ r.wrote
        /\ r.id = procs[p].id
        /\ IF Op(p) = "adhoc" THEN r.pc = "route" /\ r.exit = "none"
           ELSE r.pc = "exited" /\ r.exit = code
    <3>1. CASE Op(p) = "adhoc"
      <4>1. "route" \in PCs
        BY DEF PCs
      <4> QED
        BY <2>2, <3>1, <4>1 DEF Procs
    <3>2. CASE Op(p) # "adhoc"
      <4>1. code \in Exits \ {"none"}
        BY <2>0 DEF Exits
      <4> QED
        BY <2>2, <3>2, <4>1, ExitedFacts
    <3> QED
      BY <3>1, <3>2
  <2> HIDE DEF r
  <2>4. ProgramOrder(r)
    BY <1>0, <2>3 DEF ProgramOrder, Op
  <2>5. Makes(r)
    BY <1>0, <2>0, <2>3 DEF Makes, MakesTunnel, Op
  <2>6. tunnels' = tunnels /\ TunnelsAge /\ NamesGrow /\ NamedOK' /\ StoreType'
    BY <1>0 DEF storeVars, TunnelsAge, NamesGrow, IInv, NamedOK, TypeOK, StoreType
  <2>7. MadeIn(r, tunnels') /\ RemovesDeleted(r, tunnels') /\ VnetBore(r, named')
    BY <1>0, <2>3, <2>6 DEF MadeOK, MadeIn, RemovesDeleted, VnetBore
  <2>8. files \in [Paths -> FileContents] /\ procs[p].id \in IDs /\ Secret(p) \in IDs
    BY <1>0 DEF IInv, TypeOK, HostType, Procs, Secret
  <2>9. path \in Paths /\ content \in FileContents
    BY <2>8, PathFacts DEF WritePath, Credentials, FileContents, IDs
  <2>10. HostType'
    BY <1>0, <1>2, <2>8, <2>9 DEF IInv, TypeOK, HostType
  <2>11. procs'[p] = r /\ \A q \in Pids : q # p => procs'[q] = procs[q]
    BY <1>0, <2>1
  <2>12. ~GarbledCreate /\ path # FlagPath =>
            /\ procs[p].made \in TunnelIDs /\ path = TunnelFilePath(procs[p].made, CertDir)
            /\ content = Credentials(procs[p].made, procs[p].made)
            /\ CertFile(procs[p].made) = NoFile
    <3>1. path # FlagPath => ~procs[p].c.file /\ path = TunnelFilePath(procs[p].id, CertDir)
      BY DEF WritePath
    <3>2. ~procs[p].c.file => MakesTunnel(procs[p])
      BY <1>0 DEF ProgramOrder
    <3>3. MakesTunnel(procs[p]) /\ ~GarbledCreate =>
             procs[p].made # NilID /\ procs[p].id = procs[p].made /\ Secret(p) = procs[p].made
      BY <1>0 DEF Makes, Secret, MakesTunnel, Op
    <3>4. procs[p].made # NilID => procs[p].made \in TunnelIDs
      BY <1>0, Numbers DEF Procs
    <3>5. ~GarbledCreate /\ procs[p].made # NilID => CertFile(procs[p].made) = NoFile
      BY <1>0 DEF IInv, FilesOK, Makes
    <3> QED
      BY <3>1, <3>2, <3>3, <3>4, <3>5
  <2> HIDE DEF path, content
  <2>13. files' = [files EXCEPT ![path] = content]
    BY <1>2 DEF path, content
  <2>14. ~GarbledCreate => FilesOK'
    <3> SUFFICES ASSUME ~GarbledCreate PROVE FilesOK'
      OBVIOUS
    <3>0. FilesOK
      BY DEF IInv
    <3>1. \A q \in Pids : /\ procs'[q].made = procs[q].made
                          /\ ~procs'[q].wrote => q # p /\ ~procs[q].wrote
                          /\ procs[q].made \in IDs
      BY <1>0, <2>3, <2>11 DEF Procs
    <3>2. CASE path = FlagPath
      <4>1. \A i \in IDs : CertFile(i)' = CertFile(i) /\ ConfigFile(i)' = ConfigFile(i)
        BY <2>8, <2>9, <2>13, <3>2, PathFacts DEF CertFile, ConfigFile
      <4> QED
        BY <2>6, <3>0, <3>1, <4>1, Numbers DEF FilesOK
    <3>3. CASE path # FlagPath
      <4>0. PICK m \in IDs : m = procs[p].made
        BY <3>1
      <4>1. m \in TunnelIDs /\ path = TunnelFilePath(m, CertDir)
            /\ content = Credentials(m, m) /\ tunnels[m].state # "unused"
        BY <1>0, <2>12, <3>3, <4>0, Numbers DEF MadeOK, MadeIn
      <4>2. /\ \A i \in IDs : ConfigFile(i)' = ConfigFile(i)
            /\ \A i \in IDs : i # m => CertFile(i)' = CertFile(i)
            /\ CertFile(m)' = Credentials(m, m)
        BY <2>8, <2>9, <2>13, <4>1, PathFacts DEF CertFile, ConfigFile
      <4>3. \A q \in Pids : q # p => procs[q].made # m
        BY <4>0, <4>1, Numbers DEF IInv, MadeOnce
      <4> QED
        BY <2>6, <3>0, <3>1, <4>1, <4>2, <4>3, Numbers DEF FilesOK
    <3> QED
      BY <3>2, <3>3
  <2>15. ~GarbledCreate => CreatedIsRunnable'
    <3> SUFFICES ASSUME ~GarbledCreate, NEW q \in Pids,
                        procs'[q].c.op = "create", procs'[q].exit = "ok"
                 PROVE  /\ procs'[q].made # NilID
                        /\ \/ tunnels'[procs'[q].made].state = "deleted"
                           \/ files'[WritePath(q)'] = Credentials(procs'[q].made, procs'[q].made)
                           \/ procs'[q].c.file /\ FlagShared(q)'
      BY DEF CreatedIsRunnable, Op
    <3>1. CASE q = p
      <4>1. procs[p].c.op = "create" /\ procs'[p] = r
        BY <2>3, <2>11, <3>1
      <4>2. procs[p].made # NilID /\ procs[p].id = procs[p].made /\ Secret(p) = procs[p].made
        BY <1>0, <4>1 DEF Makes, MakesTunnel, Secret, Op
      <4>3. WritePath(p)' = path
        BY <2>3, <4>1 DEF WritePath, path
      <4>4. files'[path] = Credentials(procs[p].made, procs[p].made)
        BY <2>8, <2>9, <2>13, <4>2 DEF content
      <4> QED
        BY <2>3, <3>1, <4>1, <4>2, <4>3, <4>4
    <3>2. CASE q # p
      <4>1. procs'[q] = procs[q] /\ \A k \in Pids : procs'[k].c = procs[k].c
        BY <2>3, <2>11, <3>2
      <4>2. path = FlagPath => procs[p].c.file
        <5>1. ~procs[p].c.file => path = TunnelFilePath(procs[p].id, CertDir)
          BY DEF path, WritePath
        <5> QED
          BY <2>8, <5>1, PathFacts
      <4>3. path # TunnelFilePath(procs[q].made, CertDir) \/ procs[q].made = NilID
        <5> SUFFICES ASSUME path = TunnelFilePath(procs[q].made, CertDir),
                            procs[q].made # NilID
                     PROVE  FALSE
          OBVIOUS
        <5>1. procs[q].made \in IDs
          BY ProcFacts DEF Procs
        <5>2. path # FlagPath
          BY <5>1, PathFacts
        <5>3. procs[q].made = procs[p].made
          BY <2>12, <5>1, <5>2, PathFacts, Numbers
        <5> QED
          BY <3>2, <5>3 DEF IInv, MadeOnce
      <4> QED
        BY <2>6, <2>9, <2>13, <3>2, <4>1, <4>2, <4>3, RunnableKept
    <3> QED
      BY <3>1, <3>2
  <2> QED
    BY <2>1, <2>3, <2>4, <2>5, <2>6, <2>7, <2>10, <2>14, <2>15, CoreStep
<1> QED
  BY <1>1, <1>2 DEF Write

(* The file that is removed is named after a tunnel that was deleted.      *)
LEMMA RemovedPath ==
    ASSUME IInv, NEW p \in Pids, At(p, "RemoveFile"),
           NEW path \in CredentialFinder(p, DelID(p))
    PROVE  /\ path \in Paths
           /\ path = FlagPath => procs[p].c.file
           /\ DelID(p) \in TunnelIDs /\ tunnels[DelID(p)].state = "deleted"
           /\ path # FlagPath =>
                 \E d \in {CertDir, ConfigDir} : path = TunnelFilePath(DelID(p), d)
<1>1. DelID(p) \in TunnelIDs /\ tunnels[DelID(p)].state = "deleted"
  BY ProcFacts DEF RemoveOK, RemovesDeleted, DelID, At
<1> QED
  BY <1>1, Numbers, FinderPaths

LEMMA RemoveFileInv ==
    ASSUME IInv, NEW p \in Pids, RemoveFile(p), UNCHANGED given PROVE IInv'
<1> DEFINE rest == Tail(procs[p].ids)
           r == IF rest = <<>> THEN Exited(procs[p], "ok")
                ELSE [procs[p] EXCEPT !.ids = rest, !.pc = "GetTunnel"]
<1>0. /\ procs[p].pc = "RemoveFile" /\ UNCHANGED <<storeVars, cert, named>>
      /\ cert' \in CertStates /\ procs \in [Pids -> Procs]
      /\ procs[p] \in Procs /\ ProgramOrder(procs[p]) /\ Makes(procs[p]) /\ MadeOK(procs[p])
  BY ProcFacts DEF RemoveFile, At
<1>1. procs' = [procs EXCEPT ![p] = r]
  BY DEF RemoveFile, Exit, Go
<1>2. /\ r \in Procs /\ r.c = procs[p].c /\ r.made = procs[p].made /\ r.wrote = procs[p].wrote
      /\ IF rest = <<>> THEN r.pc = "exited" /\ r.exit = "ok"
         ELSE r.pc = "GetTunnel" /\ r.exit = procs[p].exit /\ r.ids = rest
  <2>1. CASE rest = <<>>
    <3>1. "ok" \in Exits \ {"none"}
      BY DEF Exits
    <3> QED
      BY <1>0, <2>1, <3>1, ExitedFacts
  <2>2. CASE rest # <<>>
    <3>1. procs[p].ids \in Seq(TunnelIDs) /\ procs[p].ids # <<>> /\ "GetTunnel" \in PCs
      BY <1>0 DEF ProgramOrder, Procs, PCs
    <3>2. rest \in Seq(TunnelIDs)
      BY <3>1
    <3> QED
      BY <1>0, <2>2, <3>1, <3>2 DEF Procs
  <2> QED
    BY <2>1, <2>2
<1> HIDE DEF r
<1>3. ProgramOrder(r)
  BY <1>0, <1>2 DEF ProgramOrder
<1>4. procs[p].made = NilID /\ ~procs[p].wrote /\ procs[p].exit = "none" /\ r.c.op = "delete"
  BY <1>0, <1>2 DEF Makes, ProgramOrder
<1>5. Makes(r) /\ MadeIn(r, tunnels')
  BY <1>2, <1>4 DEF Makes, MadeIn, MakesTunnel
<1>6. RemovesDeleted(r, tunnels') /\ VnetBore(r, named')
  BY <1>2 DEF RemovesDeleted, VnetBore
<1>7. CASE UNCHANGED files
  <2>1. Calm
    BY <1>0, <1>7, SameStore
  <2> QED
    BY <1>1, <1>2, <1>3, <1>4, <1>5, <1>6, <2>1, CalmStep
<1>8. ASSUME NEW path \in CredentialFinder(p, DelID(p)), files' = [files EXCEPT ![path] = NoFile]
      PROVE  IInv'
  <2>1. /\ path \in Paths /\ (path = FlagPath => procs[p].c.file)
        /\ DelID(p) \in TunnelIDs /\ tunnels[DelID(p)].state = "deleted"
        /\ path # FlagPath =>
              \E d \in {CertDir, ConfigDir} : path = TunnelFilePath(DelID(p), d)
    BY <1>0, <1>8, RemovedPath DEF At
  <2>2. tunnels' = tunnels /\ TunnelsAge /\ NamesGrow /\ NamedOK' /\ StoreType'
    BY <1>0 DEF storeVars, TunnelsAge, NamesGrow, IInv, NamedOK, TypeOK, StoreType
  <2>3. files \in [Paths -> FileContents] /\ NoFile \in FileContents
    BY Numbers DEF IInv, TypeOK, HostType, NoFile, Credentials, FileContents, IDs
  <2>4. HostType'
    BY <1>0, <1>8, <2>3 DEF IInv, TypeOK, HostType
  <2>5. procs'[p] = r /\ \A q \in Pids : q # p => procs'[q] = procs[q]
    BY <1>0, <1>1
  <2>6. ~GarbledCreate => FilesOK'
    <3> SUFFICES ASSUME ~GarbledCreate PROVE FilesOK'
      OBVIOUS
    <3>1. FilesOK /\ \A q \in Pids : procs[q].made \in IDs
      BY <1>0 DEF IInv, Procs
    <3>2. \A q \in Pids : procs'[q].made = procs[q].made /\ procs'[q].wrote = procs[q].wrote
      BY <1>2, <2>5
    <3>3. \A i \in IDs : /\ CertFile(i)' \in {CertFile(i), NoFile}
                         /\ ConfigFile(i)' \in {ConfigFile(i), NoFile}
      BY <1>8, <2>1, <2>3, PathFacts DEF CertFile, ConfigFile
    <3> QED
      BY <2>2, <3>1, <3>2, <3>3, Numbers DEF FilesOK
  <2>7. ~GarbledCreate => CreatedIsRunnable'
    <3> SUFFICES ASSUME ~GarbledCreate, NEW q \in Pids,
                        procs'[q].c.op = "create", procs'[q].exit = "ok"
                 PROVE  /\ procs'[q].made # NilID
                        /\ \/ tunnels'[procs'[q].made].state = "deleted"
                           \/ files'[WritePath(q)'] = Credentials(procs'[q].made, procs'[q].made)
                           \/ procs'[q].c.file /\ FlagShared(q)'
      BY DEF CreatedIsRunnable, Op
    <3>1. q # p
      BY <1>4, <2>5
    <3>2. procs'[q] = procs[q] /\ \A k \in Pids : procs'[k].c = procs[k].c
      BY <1>2, <2>5, <3>1
    <3>3. path = TunnelFilePath(procs[q].made, CertDir) /\ procs[q].made # NilID =>
             tunnels[procs[q].made].state = "deleted"
      <4>1. procs[q].made \in IDs
        BY ProcFacts DEF Procs
      <4> QED
        BY <2>1, <4>1, PathFacts, Numbers
    <3> QED
      BY <1>8, <2>1, <2>2, <3>1, <3>2, <3>3, RunnableKept
  <2> QED
    BY <1>1, <1>2, <1>3, <1>5, <1>6, <2>2, <2>4, <2>6, <2>7, CoreStep
<1> QED
  BY <1>7, <1>8 DEF RemoveFile

-----------------------------------------------------------------------------
LEMMA InitInv == CommandsInit => IInv
<1> SUFFICES ASSUME CommandsInit PROVE IInv
  OBVIOUS
<1>1. PICK s \in Sessions :
        /\ given = s.given
        /\ cert = s.cert
        /\ files = [p \in Paths |->
              CASE p = FlagPath -> s.flag
                [] p = TunnelFilePath(1, ConfigDir) -> Credentials(s.old, 1)
                [] OTHER -> NoFile]
  BY DEF CommandsInit
<1>2. /\ \A c \in given : IsCommand(c)
      /\ s.cert \in CertStates /\ s.flag \in FileContents /\ s.old \in {NilID, 1}
      /\ TunnelNames # {}
  BY <1>1, CommandsAssumption DEF CommandsAssumption
<1>3. /\ Credentials(s.old, 1) \in FileContents /\ NoFile \in FileContents
      /\ Credentials(s.old, 1).secret = 1
  BY <1>2, Numbers DEF Credentials, NoFile, FileContents, IDs, TunnelIDs
<1>4. files \in [Paths -> FileContents]
  BY <1>1, <1>2, <1>3
<1>5. /\ \A i \in IDs : CertFile(i) = NoFile
      /\ \A i \in IDs : ConfigFile(i) # NoFile => ConfigFile(i).secret = i
  BY <1>1, <1>3, PathFacts, Numbers DEF CertFile, ConfigFile
<1>6. StoreType
  <2>1. (CHOOSE n \in TunnelNames : TRUE) \in TunnelNames
    BY <1>2
  <2>2. tunnels \in [TunnelIDs -> [name : TunnelNames \cup {""}, state : States, conns : BOOLEAN]]
    BY <2>1 DEF CommandsInit, States
  <2>3. vnets \in [VnetIDs -> [name : VnetNames \cup {"", "default"}, state : States]]
    BY DEF CommandsInit, States
  <2> QED
    BY <2>2, <2>3, Numbers DEF CommandsInit, StoreType
<1>7. DOMAIN vnets = VnetIDs
  BY DEF CommandsInit
<1>8. named \in [VnetNames -> SUBSET VnetIDs] /\ NamedOK
  BY <1>7 DEF CommandsInit, NamedOK, Live
<1>9. TypeOK
  BY <1>1, <1>2, <1>4, <1>6, <1>8, IdleOK DEF TypeOK, HostType, CommandsInit
<1>10. \A p \in Pids : procs[p] = Idle
  BY DEF CommandsInit
<1>11. ProcOK(Idle)
  <2>1. ProgramOrder(Idle)
    BY IdleOK DEF ProgramOrder
  <2>2. Makes(Idle)
    BY IdleOK DEF Makes
  <2>3. MadeOK(Idle) /\ RemoveOK(Idle) /\ VnetOK(Idle)
    BY IdleOK DEF MadeOK, MadeIn, RemoveOK, RemovesDeleted, VnetOK, VnetBore
  <2> QED
    BY <2>1, <2>2, <2>3 DEF ProcOK
<1>12. MadeOnce /\ NotMadeYet
  BY <1>10, IdleOK, Numbers DEF MadeOnce, NotMadeYet
<1>13. FilesOK
  BY <1>5, <1>10, IdleOK, Numbers DEF FilesOK
<1>14. CreatedIsRunnable
  BY <1>10, IdleOK DEF CreatedIsRunnable, Op
<1> QED
  BY <1>8, <1>9, <1>10, <1>11, <1>12, <1>13, <1>14 DEF IInv

LEMMA StutterInv == IInv /\ UNCHANGED cmdVars => IInv'
<1> SUFFICES ASSUME IInv, UNCHANGED cmdVars PROVE IInv'
  OBVIOUS
<1>1. /\ tunnels' = tunnels /\ hosts' = hosts /\ routes' = routes /\ vnets' = vnets
      /\ defaultVnet' = defaultVnet
      /\ files' = files /\ cert' = cert /\ given' = given /\ procs' = procs /\ named' = named
  BY DEF cmdVars, storeVars
<1>2. TypeOK'
  BY <1>1 DEF IInv, TypeOK, StoreType, HostType
<1>3. \A q \in Pids : ProcOK(procs[q])'
  <2>1. TunnelsAge /\ NamesGrow
    BY <1>1 DEF TunnelsAge, NamesGrow
  <2> QED
    BY <1>1, <2>1, OthersKept
<1>4. MadeOnce' /\ NotMadeYet' /\ NamedOK'
  BY <1>1 DEF IInv, MadeOnce, NotMadeYet, NamedOK
<1>5. GarbledCreate \/ (FilesOK' /\ CreatedIsRunnable')
  BY <1>1 DEF IInv, FilesOK, CertFile, ConfigFile, CreatedIsRunnable, Op, WritePath, FlagShared
<1> QED
  BY <1>2, <1>3, <1>4, <1>5 DEF IInv

LEMMA NextInv == IInv /\ [CommandsNext]_cmdVars => IInv'
<1> SUFFICES ASSUME IInv, [CommandsNext]_cmdVars PROVE IInv'
  OBVIOUS
<1>1. CASE UNCHANGED cmdVars
  BY <1>1, StutterInv
<1>2. ASSUME NEW p \in Pids, Give(p), UNCHANGED given PROVE IInv'
  BY <1>2, GiveInv
<1>3. ASSUME NEW p \in Pids, Step(p), UNCHANGED given PROVE IInv'
  <2>1. CASE FindID(p) \/ FindIDs(p) \/ FindCredentials(p) \/ RunToken(p)
    BY <1>3, <2>1, FindIDInv, FindIDsInv, FindCredentialsInv, RunTokenInv
  <2>2. CASE CreateStarts(p) \/ BadSecret(p) \/ CreateTunnel(p)
    BY <1>3, <2>2, CreateStartsInv, CreateTunnelInv
  <2>3. CASE Stat(p) \/ Write(p) \/ Rollback(p)
    BY <1>3, <2>3, StatInv, WriteInv, RollbackInv
  <2>4. CASE TunnelCommand(p) \/ TunnelActive(p) \/ Route(p)
    BY <1>3, <2>4, TunnelCommandInv, TunnelActiveInv, RouteInv
  <2>5. CASE GetTunnel(p) \/ CleanupForce(p) \/ DeleteCall(p) \/ RemoveFile(p)
    BY <1>3, <2>5, GetTunnelInv, CleanupForceInv, DeleteCallInv, RemoveFileInv
  <2>6. CASE Cleanup(p) \/ Token(p) \/ QuickTunnel(p) \/ Login(p) \/ Transfer(p)
    BY <1>3, <2>6, CleanupInv, TokenInv, UserStepsInv
  <2>7. CASE \/ ListCommand(p) \/ TunnelInfo(p) \/ ShowRoutesCommand(p)
             \/ GetRouteByIPCommand(p) \/ ListVirtualNetworksCommand(p)
    BY <1>3, <2>7, ReadsInv DEF ListCommand, TunnelInfo, ShowRoutesCommand,
             GetRouteByIPCommand, ListVirtualNetworksCommand
  <2>8. CASE GetVnetId(p) \/ Network(p)
    BY <1>3, <2>8, GetVnetIdInv, NetworkInv
  <2> QED
    BY <1>3, <2>1, <2>2, <2>3, <2>4, <2>5, <2>6, <2>7, <2>8 DEF Step
<1> QED
  BY <1>1, <1>2, <1>3 DEF CommandsNext

(* Every reachable state satisfies the invariant, whatever the session.    *)
THEOREM CommandsInvariance == CommandsSpec => []IInv
<1>1. CommandsInit => IInv
  BY InitInv
<1>2. IInv /\ [CommandsNext]_cmdVars => IInv'
  BY NextInv
<1> QED
  BY <1>1, <1>2, PTL DEF CommandsSpec

(* The success a create reports is real: the tunnel can be run from the    *)
(* file until it is deleted, as long as no answer to a create is garbled   *)
(* (CreateTunnel then takes uuid.Nil for the tunnel's ID).                 *)
THEOREM CreateIsHonest == ~GarbledCreate => (CommandsSpec => []CreatedIsRunnable)
<1> SUFFICES ASSUME ~GarbledCreate PROVE CommandsSpec => []CreatedIsRunnable
  OBVIOUS
<1>1. IInv => CreatedIsRunnable
  BY DEF IInv
<1> QED
  BY <1>1, CommandsInvariance, PTL

(* A create that could not write the credentials took its tunnel back, or  *)
(* an answer was lost and the user was told; even with garbled answers.    *)
THEOREM NothingOrphaned == CommandsSpec => []NoOrphanTunnel
<1>1. IInv => NoOrphanTunnel
  <2> SUFFICES ASSUME IInv, NEW p \in Pids, Creates(p),
                      procs[p].exit \in {"ok", "error", "serving"},
                      procs[p].made # NilID, ~procs[p].wrote, ~procs[p].lost
               PROVE  tunnels[procs[p].made].state = "deleted"
    BY DEF NoOrphanTunnel
  <2>1. procs[p].pc = "exited"
    BY ProcFacts DEF Makes
  <2> QED
    BY <2>1, ProcFacts DEF MadeOK, MadeIn, MakesTunnel, Creates, Op
<1> QED
  BY <1>1, CommandsInvariance, PTL

-----------------------------------------------------------------------------
(* What a step of a command may change.                                    *)
LEMMA FilesStep ==
    ASSUME IInv, ~GarbledCreate, [CommandsNext]_cmdVars,
           NEW path \in Paths \ {FlagPath}, files[path] # NoFile, files'[path] # files[path]
    PROVE  files'[path] = NoFile /\ tunnels[files[path].secret].state = "deleted"
<1>0. files \in [Paths -> FileContents] /\ FilesOK
  BY DEF IInv, TypeOK, HostType
<1>1. ASSUME NEW p \in Pids, Write(p) PROVE files'[path] = files[path]
  <2>0. procs[p].pc = "write" /\ procs[p] \in Procs /\ ProgramOrder(procs[p]) /\ Makes(procs[p])
    BY <1>1, ProcFacts DEF Write, At
  <2>1. CASE procs[p].c.file
    BY <1>0, <1>1, <2>1 DEF Write, WritePath
  <2>2. CASE ~procs[p].c.file
    <3>1. procs[p].made # NilID /\ procs[p].id = procs[p].made /\ ~procs[p].wrote
      BY <2>0, <2>2 DEF ProgramOrder, Makes
    <3>2. files[WritePath(p)] = NoFile
      BY <1>0, <2>2, <3>1 DEF FilesOK, CertFile, WritePath
    <3>3. path # WritePath(p)
      BY <3>2
    <3> QED
      BY <1>0, <1>1, <3>3 DEF Write
  <2> QED
    BY <2>1, <2>2
<1>2. ASSUME NEW p \in Pids, RemoveFile(p)
      PROVE  files'[path] = NoFile /\ tunnels[files[path].secret].state = "deleted"
  <2>1. PICK f \in CredentialFinder(p, DelID(p)) : files' = [files EXCEPT ![f] = NoFile]
    BY <1>2 DEF RemoveFile
  <2>2. f = path
    BY <1>0, <2>1
  <2>3. /\ DelID(p) \in TunnelIDs /\ tunnels[DelID(p)].state = "deleted"
        /\ \E d \in {CertDir, ConfigDir} : path = TunnelFilePath(DelID(p), d)
    BY <1>2, <2>1, <2>2, RemovedPath DEF RemoveFile
  <2>4. files[path].secret = DelID(p)
    <3>1. DelID(p) \in IDs /\ Credentials(DelID(p), DelID(p)).secret = DelID(p)
      BY <2>3, Numbers DEF Credentials
    <3>2. CASE path = TunnelFilePath(DelID(p), CertDir)
      BY <1>0, <3>1, <3>2 DEF FilesOK, CertFile
    <3>3. CASE path = TunnelFilePath(DelID(p), ConfigDir)
      BY <1>0, <3>1, <3>3 DEF FilesOK, ConfigFile
    <3> QED
      BY <2>3, <3>2, <3>3
  <2> QED
    BY <1>0, <2>1, <2>2, <2>3, <2>4
<1>3. ASSUME NEW p \in Pids, Give(p) \/ Step(p), ~Write(p), ~RemoveFile(p) PROVE files' = files
  BY <1>3 DEF Give, Step, FindID, FindIDs, FindCredentials, RunToken, CreateStarts, BadSecret,
       CreateTunnel, Stat, Rollback, TunnelCommand, TunnelActive, Route, GetTunnel, CleanupForce,
       DeleteCall, Cleanup, Token, QuickTunnel, Login, Transfer, ListCommand, TunnelInfo,
       ShowRoutesCommand, GetRouteByIPCommand, ListVirtualNetworksCommand, Reads,
       GetVnetId, Network
<1>4. CASE UNCHANGED cmdVars
  BY <1>4 DEF cmdVars
<1> QED
  BY <1>1, <1>2, <1>3, <1>4 DEF CommandsNext

LEMMA RoutesStep ==
    ASSUME IInv, [CommandsNext]_cmdVars, NEW p \in Pids, NEW v \in VnetIDs,
           Changed(v), procs[p] # procs'[p], procs[p].pc \in {"add route", "delete route"}
    PROVE  v \in Scope(procs[p].c.vnet)
<1>0. /\ procs[p] \in Procs /\ ProgramOrder(procs[p]) /\ VnetOK(procs[p])
      /\ procs \in [Pids -> Procs] /\ routes \in [VnetIDs -> IDs]
      /\ named \in [VnetNames -> SUBSET VnetIDs]
  BY ProcFacts DEF IInv, TypeOK, StoreType, HostType
<1>1. PICK q \in Pids : Give(q) \/ Step(q)
  BY DEF CommandsNext, cmdVars
<1>2. \E r : Go(q, r)
  BY <1>1 DEF Give, Step, FindID, AskTunnelstore, Found, FindIDs, FindCredentials, RunToken, CreateStarts,
       BadSecret, CreateTunnel, Stat, Write, WriteFails, Wrote, Rollback, TunnelCommand, TunnelActive, Route,
       RunWithCredentials,
       GetTunnel, CleanupForce, DeleteCall, RemoveFile, Cleanup, Token, QuickTunnel, Login,
       Transfer, ListCommand, TunnelInfo, ShowRoutesCommand, GetRouteByIPCommand,
       ListVirtualNetworksCommand, Reads, GetVnetId, Network, AddRouteCommand,
       DeleteRouteCommand, AddVirtualNetworkCommand, DeleteVirtualNetworkCommand,
       UpdateVirtualNetworkCommand, Ends, NoClient, ReadFails, Exit, Goto
<1>3. q = p
  BY <1>0, <1>2 DEF Go
<1>4. PICK o \in Outcomes : AddRouteCommand(p, o) \/ DeleteRouteCommand(p, o)
  <2>1. Network(p)
    BY <1>1, <1>3 DEF Give, Step, FindID, FindIDs, FindCredentials, RunToken, CreateStarts, BadSecret,
       CreateTunnel, Stat, Write, Rollback, TunnelCommand, TunnelActive, Route, GetTunnel, CleanupForce,
       DeleteCall, RemoveFile, Cleanup, Token, QuickTunnel, Login, Transfer, ListCommand,
       TunnelInfo, ShowRoutesCommand, GetRouteByIPCommand, ListVirtualNetworksCommand, Reads,
       GetVnetId, At
  <2>2. ~NoClient(p)
    BY DEF NoClient, storeVars, Changed
  <2> QED
    BY <2>1, <2>2 DEF Network, At, AddVirtualNetworkCommand, DeleteVirtualNetworkCommand,
       UpdateVirtualNetworkCommand
<1>5. v = VnetParam(procs[p].vnet)
  BY <1>0, <1>4 DEF AddRouteCommand, DeleteRouteCommand, AddRoute, DeleteRoute, SetVnetParam, Changed
<1>6. \/ procs[p].c.vnet[1] = "none"
      \/ procs[p].c.vnet[1] = "id" /\ procs[p].c.vnet[2] \in VnetIDs
      \/ procs[p].c.vnet[1] = "name" /\ procs[p].c.vnet[2] \in VnetNames
  <2>1. IsCommand(procs[p].c)
    BY <1>0 DEF ProgramOrder
  <2> QED
    BY <2>1, VnetRefFacts
<1>7. NilID \notin VnetIDs
  BY Numbers
<1> QED
  BY <1>0, <1>5, <1>6, <1>7 DEF VnetOK, VnetBore, VnetParam, Scope

(* A command changes only what it was asked about: no credentials of an    *)
(* existing tunnel are removed or written over, and no route is changed    *)
(* but in the network given by its ID or by a name it bore, or in the one  *)
(* that is the account's default at that moment when none was given.  With *)
(* a garbled create two tunnels without an ID share a path, hence the      *)
(* hypothesis.                                                             *)
THEOREM AskedOnly == ~GarbledCreate => (CommandsSpec => OnlyWhatWasAsked)
<1> SUFFICES ASSUME ~GarbledCreate PROVE CommandsSpec => OnlyWhatWasAsked
  OBVIOUS
<1> DEFINE Kept == \A path \in Paths \ {FlagPath} :
              files[path] # NoFile /\ files'[path] # files[path] =>
                 files'[path] = NoFile /\ tunnels[files[path].secret].state = "deleted"
           Scoped == \A p \in Pids, v \in VnetIDs :
              Changed(v) /\ procs[p] # procs'[p]
              /\ procs[p].pc \in {"add route", "delete route"} =>
                 v \in Scope(procs[p].c.vnet)
<1>1. IInv /\ [CommandsNext]_cmdVars => [Kept]_cmdVars
  BY FilesStep
<1>2. IInv /\ [CommandsNext]_cmdVars => [Scoped]_cmdVars
  BY RoutesStep
<1>3. CredentialsKept <=> [][Kept]_cmdVars
  BY DEF CredentialsKept
<1>4. RoutesScoped <=> [][Scoped]_cmdVars
  BY DEF RoutesScoped
<1> HIDE DEF Kept, Scoped
<1> QED
  BY <1>1, <1>2, <1>3, <1>4, CommandsInvariance, PTL DEF OnlyWhatWasAsked, CommandsSpec

(* A route is changed only in the network given by its ID or by a name it  *)
(* bore, or in the account's default at that moment when none was given,   *)
(* though other commands rename networks and move the default, and even    *)
(* when the answer to a create can be garbled.                             *)
THEOREM RoutesStayScoped == CommandsSpec => RoutesScoped
<1> DEFINE Scoped == \A p \in Pids, v \in VnetIDs :
              Changed(v) /\ procs[p] # procs'[p]
              /\ procs[p].pc \in {"add route", "delete route"} =>
                 v \in Scope(procs[p].c.vnet)
<1>1. IInv /\ [CommandsNext]_cmdVars => [Scoped]_cmdVars
  BY RoutesStep
<1>2. RoutesScoped <=> [][Scoped]_cmdVars
  BY DEF RoutesScoped
<1> HIDE DEF Scoped
<1> QED
  BY <1>1, <1>2, CommandsInvariance, PTL DEF CommandsSpec
=============================================================================
