---------------------------- MODULE ProcessProofs ----------------------------
(***************************************************************************)
(* Proofs about the commands a user starts: the daemon whose updater       *)
(* replaces the binary under it (modules Process and Updater), and the     *)
(* access commands that share a lock and the token files (module Access).  *)
(***************************************************************************)
EXTENDS Process, Access, TLAPS

(***************************************************************************)
(* The updater.  What keeps SomeGoodBinary inductive is what each step of  *)
(* WorkersVersion.Apply may rely on: the file that is about to be moved in *)
(* has passed its checksum, and while the path is empty the old binary is  *)
(* beside it, also when the process was killed at that moment and a stale  *)
(* download is left for the next one to remove.                            *)
(***************************************************************************)
UpdaterTypeOK ==
    /\ release \in Versions
    /\ target \in Versions \cup {NoFile}
    /\ newFile \in Versions \cup {NoFile, Partial}
    /\ oldFile \in Versions \cup {NoFile}

StepInv ==
    /\ target = NoFile => oldFile \in Versions
    /\ step \in {"moveOut", "moveIn"} => newFile \in Versions
    /\ step \in {"moveIn", "rollback"} => target = NoFile
    /\ step = "removeOld" => target \in Versions

UpdaterInv == UpdaterTypeOK /\ StepInv

-----------------------------------------------------------------------------
LEMMA VersionsFact == 1 \in Versions /\ NoFile \notin Versions /\ Partial \notin Versions
BY VersionsAssumption DEF Versions, NoFile, Partial

LEMMA UpdaterInitInv == UpdaterInit => UpdaterInv
BY VersionsFact DEF UpdaterInit, UpdaterInv, UpdaterTypeOK, StepInv

LEMMA UpdaterStepInv == ASSUME UpdaterInv, UpdaterStep PROVE UpdaterInv'
<1> USE VersionsFact DEF UpdaterInv, UpdaterTypeOK, StepInv, fsVars, hostVars
<1>1. CASE Check BY <1>1 DEF Check
<1>2. CASE Download BY <1>2 DEF Download
<1>3. CASE VerifyChecksum BY <1>3 DEF VerifyChecksum, ValidChecksum
<1>4. CASE MoveOut BY <1>4 DEF MoveOut
<1>5. CASE MoveIn BY <1>5 DEF MoveIn
<1>6. CASE Rollback BY <1>6 DEF Rollback
<1>7. CASE RemoveOld BY <1>7 DEF RemoveOld
<1>8. CASE RestartProcess BY <1>8 DEF RestartProcess
<1>9. CASE TickOrUpdate BY <1>9 DEF TickOrUpdate
<1> QED BY <1>1, <1>2, <1>3, <1>4, <1>5, <1>6, <1>7, <1>8, <1>9 DEF UpdaterStep

(* A kill is a step that leaves the files and forgets nothing of Apply;    *)
(* the next process starts over at the check.                              *)
LEMMA ProcessNextInv == ASSUME UpdaterInv, [ProcessNext]_procVars PROVE UpdaterInv'
<1> USE DEF updaterVars, fsVars, hostVars
<1>1. ASSUME UNCHANGED updaterVars PROVE UpdaterInv'
  BY <1>1 DEF UpdaterInv, UpdaterTypeOK, StepInv
<1>2. CASE RunUpdater BY <1>1, <1>2, UpdaterStepInv DEF RunUpdater
<1>3. CASE Release
  BY <1>3, VersionsAssumption
  DEF Release, NewRelease, UpdaterInv, UpdaterTypeOK, StepInv, Versions
<1>4. CASE Rerun BY <1>4 DEF Rerun, UpdaterInv, UpdaterTypeOK, StepInv
<1>5. CASE Boot
  BY <1>1, <1>5
  DEF Boot, StartDNS, WaitDNSReady, StartUpdater, PrepareTunnelConfig, StartDaemon
<1>6. CASE WaitToShutdown
  BY <1>1, <1>6
  DEF WaitToShutdown, FirstError, GraceShutdown, GraceEnds, DiscardErrors, WaitGroupWait
<1>7. CASE RunDNSProxyServer \/ ServeMetrics \/ DaemonReturns \/ DaemonNeverStarted
           \/ WaitForSignal \/ Killed
  BY <1>1, <1>7
  DEF RunDNSProxyServer, ServeMetrics, DaemonReturns, DaemonNeverStarted, WaitForSignal,
      Killed
<1>8. CASE UNCHANGED procVars BY <1>1, <1>8 DEF procVars
<1> QED BY <1>2, <1>3, <1>4, <1>5, <1>6, <1>7, <1>8 DEF ProcessNext

(***************************************************************************)
(* For every number of releases, and however often an update fails, is     *)
(* killed half way or is tried again by the process that is started next:  *)
(* the path that is executed holds a checked binary, or the old one is     *)
(* beside it (updater/workers_update.go, Apply, on the systems on which    *)
(* the daemon updates itself: not Windows).                                *)
(***************************************************************************)
THEOREM UpdateLeavesGoodBinary == ProcessSpec => []SomeGoodBinary
<1>1. ProcessInit => UpdaterInv BY UpdaterInitInv DEF ProcessInit
<1>2. UpdaterInv /\ [ProcessNext]_procVars => UpdaterInv' BY ProcessNextInv
<1>3. UpdaterInv => SomeGoodBinary
  BY DEF UpdaterInv, UpdaterTypeOK, StepInv, SomeGoodBinary
<1> QED BY <1>1, <1>2, <1>3, PTL DEF ProcessSpec

-----------------------------------------------------------------------------
(***************************************************************************)
(* The access commands.  The states of a process between the recheck of    *)
(* the app token and the answer of the edge or the user (Fetching), and    *)
(* the ones in which it may hold the org lock.                             *)
(***************************************************************************)
Fetching == {"org", "lock org", "org again", "exchange", "transfer"}
WithOrg == {"org again", "exchange", "transfer", "write org", "write app", "release"}
Gone == {"interrupted", "killed"}

Places ==
    Fetching \cup WithOrg \cup Gone \cup
    {"start", "check", "read", "lock app", "recheck", "present", "remove", "keygen", "sign",
     "done", "failed"}
TokenValues == {"none", "good", "expired", "revoked"}
ProcRecords == [at : Places, half : BOOLEAN, try : Nat, count : Nat, tok : TokenValues,
                org : BOOLEAN]

AccessTypeOK ==
    /\ proc \in [Procs -> ProcRecords]
    /\ app \in TokenValues \cup {"torn"}
    /\ overlap \in BOOLEAN

(* A lock file names its process only while that process holds the lock,   *)
(* or after it was interrupted or killed.                                  *)
LockInv ==
    \A p \in Procs :
        /\ appLock = p => Holding(p) \/ At(p) \in Gone
        /\ orgLock = p => proc[p].org \/ At(p) \in Gone
        /\ proc[p].org => At(p) \in WithOrg

(* Until two processes held it, the app lock excludes, ...                 *)
ExclusionInv == ~overlap => \A p, q \in Procs : Holding(p) /\ Holding(q) => p = q

(* ... so whoever found no token under the lock may rely on it until he    *)
(* writes one himself.                                                     *)
FetchInv == ~overlap => \A p \in Procs : At(p) \in Fetching => app # "good"

AccessInv == AccessTypeOK /\ LockInv /\ ExclusionInv /\ FetchInv

LEMMA FreshFact == \A how \in Places : Fresh(how) \in ProcRecords
BY DEF Fresh, ProcRecords, TokenValues

LEMMA AccessInitInv == AccessInit => AccessInv
<1> SUFFICES ASSUME AccessInit PROVE AccessInv OBVIOUS
<1>1. \A p \in Procs : proc[p] = Fresh("start") BY DEF AccessInit
<1>2. AccessTypeOK
  <2>1. proc = [p \in Procs |-> Fresh("start")] BY DEF AccessInit
  <2>2. Fresh("start") \in ProcRecords BY FreshFact DEF Places
  <2>3. proc \in [Procs -> ProcRecords] BY <2>1, <2>2
  <2>4. app \in TokenValues \cup {"torn"} BY DEF AccessInit, TokenValues
  <2> QED BY <2>3, <2>4 DEF AccessTypeOK, AccessInit
<1>3. \A p \in Procs : At(p) = "start" /\ ~proc[p].org /\ appLock # p /\ orgLock # p
  BY <1>1, ProcsAssumption DEF AccessInit, At, Fresh
<1> QED BY <1>2, <1>3 DEF AccessInv, LockInv, ExclusionInv, FetchInv, Holding, Fetching

(***************************************************************************)
(* What a step of p may do to the locks, the token and itself so that the  *)
(* invariant survives: every step but the acquisition of a lock and Decay. *)
(***************************************************************************)
Moves(p) ==
    /\ proc' \in [Procs -> ProcRecords]
    /\ \A q \in Procs \ {p} : proc'[q] = proc[q]
    /\ At(p) \in Gone => At(p)' \in Gone

LEMMA MoveKeepsInv ==
    ASSUME NEW p \in Procs, AccessInv, Moves(p),
           app' \in TokenValues \cup {"torn"}, overlap' = overlap,
           appLock' \in {appLock, None}, orgLock' \in {orgLock, None},
           Holding(p)' => Holding(p),
           Holding(p) => Holding(p)' \/ appLock' = None \/ At(p)' \in Gone,
           proc[p].org => proc'[p].org \/ orgLock' = None \/ At(p)' \in Gone,
           proc'[p].org => At(p)' \in WithOrg,
           app' = "good" => app = "good" \/ (Holding(p) /\ At(p)' \notin Fetching),
           At(p)' \in Fetching => At(p) \in Fetching \/ app' # "good"
    PROVE  AccessInv'
<1>1. AccessTypeOK' BY DEF AccessTypeOK, Moves, AccessInv
<1>2. \A q \in Procs \ {p} : /\ At(q)' = At(q) /\ proc'[q].org = proc[q].org
                             /\ Holding(q)' = Holding(q)
  BY DEF Moves, At, Holding
<1>3. LockInv'
  BY <1>2, ProcsAssumption DEF LockInv, AccessInv, Moves
<1>4. ExclusionInv'
  BY <1>2 DEF ExclusionInv, AccessInv
<1>5. \A q \in Procs : At(q) \in Fetching => Holding(q)
  BY DEF Fetching, Holding
<1>6. FetchInv'
  BY <1>2, <1>5 DEF FetchInv, ExclusionInv, AccessInv
<1> QED BY <1>1, <1>3, <1>4, <1>6 DEF AccessInv

(***************************************************************************)
(* The ways a process goes on.                                             *)
(***************************************************************************)
LEMMA GoesFact ==
    ASSUME NEW p \in Procs, NEW to \in Places, AccessTypeOK, At(p) \notin Gone, Goes(p, to)
    PROVE  Moves(p) /\ At(p)' = to /\ proc'[p].org = proc[p].org
BY DEF AccessTypeOK, Moves, Goes, At, ProcRecords

LEMMA GoesWithFact ==
    ASSUME NEW p \in Procs, NEW to \in Places, NEW t \in TokenValues, AccessTypeOK,
           At(p) \notin Gone, GoesWith(p, to, t)
    PROVE  Moves(p) /\ At(p)' = to /\ proc'[p].org = proc[p].org
BY DEF AccessTypeOK, Moves, GoesWith, At, ProcRecords

LEMMA EndsFact ==
    ASSUME NEW p \in Procs, NEW how \in Places, AccessTypeOK,
           At(p) \in Gone => how \in Gone, Ends(p, how)
    PROVE  Moves(p) /\ At(p)' = how /\ ~proc'[p].org
BY DEF AccessTypeOK, Moves, Ends, Fresh, At, ProcRecords, TokenValues

LEMMA StaysFact ==
    ASSUME NEW p \in Procs, AccessTypeOK, At(p) \notin Gone,
           IsHalf(p) \/ Counts(p) \/ UNCHANGED proc
    PROVE  Moves(p) /\ At(p)' = At(p) /\ proc'[p].org = proc[p].org
<1>1. CASE IsHalf(p) BY <1>1 DEF AccessTypeOK, Moves, IsHalf, At, ProcRecords
<1>2. CASE Counts(p) BY <1>2 DEF AccessTypeOK, Moves, Counts, At, ProcRecords
<1>3. CASE UNCHANGED proc BY <1>3 DEF AccessTypeOK, Moves, At
<1> QED BY <1>1, <1>2, <1>3

-----------------------------------------------------------------------------
(* Where getToken returns to.                                              *)
LEMMA ReturnedFact ==
    ASSUME NEW p \in Procs, NEW t \in TokenValues, AccessTypeOK, At(p) \notin Gone,
           ~proc[p].org, Returned(p, t)
    PROVE  Moves(p) /\ At(p)' \in {"keygen", "present", "done"} /\ ~proc'[p].org
<1>1. CASE GoesWith(p, "keygen", t) BY <1>1, GoesWithFact DEF Places
<1>2. CASE GoesWith(p, "present", t) BY <1>2, GoesWithFact DEF Places
<1>3. CASE Ends(p, "done") BY <1>3, EndsFact DEF Places
<1> QED BY <1>1, <1>2, <1>3 DEF Returned

(* A step outside the lock that leaves the locks alone.                    *)
LEMMA OutsideKeepsInv ==
    ASSUME NEW p \in Procs, AccessInv, Moves(p), ~Holding(p), ~Holding(p)', ~proc'[p].org,
           app' \in {app, "none"}, UNCHANGED <<locks, history>>
    PROVE  AccessInv'
<1>1. app' \in TokenValues \cup {"torn"} BY DEF AccessInv, AccessTypeOK, TokenValues
<1>2. ~proc[p].org BY DEF AccessInv, LockInv, WithOrg, Holding
<1>3. At(p)' \notin Fetching BY DEF Fetching, Holding
<1> QED BY <1>1, <1>2, <1>3, MoveKeepsInv DEF locks, history

(* A step under the app lock that leaves the locks alone.                  *)
LEMMA InsideKeepsInv ==
    ASSUME NEW p \in Procs, AccessInv, Moves(p), Holding(p), Holding(p)',
           proc'[p].org <=> proc[p].org, proc[p].org => At(p)' \in WithOrg,
           app' \in TokenValues \cup {"torn"},
           app' = "good" => app = "good" \/ At(p)' \notin Fetching,
           At(p)' \in Fetching => At(p) \in Fetching \/ app' # "good",
           UNCHANGED <<locks, history>>
    PROVE  AccessInv'
BY MoveKeepsInv DEF locks, history

(* Every state of a process in which its command may go on, by name.       *)
LEMMA FirstCallsInv ==
    ASSUME NEW p \in Procs, AccessInv, GetAppInfo(p) \/ ConnectWithoutAccess(p)
    PROVE  AccessInv'
<1>1. At(p) = "start" BY DEF GetAppInfo, ConnectWithoutAccess
<1>2. ~Holding(p) /\ At(p) \notin Gone BY <1>1 DEF Holding, Gone
<1>3. ~proc[p].org BY <1>1 DEF AccessInv, LockInv, WithOrg
<1>4. AccessTypeOK BY DEF AccessInv
<1>5. app' = app /\ UNCHANGED <<locks, history>>
  BY DEF GetAppInfo, ConnectWithoutAccess, tokenFiles
<1>6. CASE proc' = [proc EXCEPT ![p].at = FirstCall(cmd[p]), ![p].try = 1]
  <2>1. FirstCall(cmd[p]) \in {"read", "check"} BY DEF FirstCall
  <2>2. Moves(p) /\ At(p)' \in {"read", "check"} /\ ~proc'[p].org
    BY <1>2, <1>3, <1>4, <1>6, <2>1 DEF AccessTypeOK, Moves, At, ProcRecords, Places
  <2> QED BY <1>2, <1>5, <2>2, OutsideKeepsInv DEF Holding
<1>7. CASE Ends(p, "failed") \/ Ends(p, "done")
  <2>1. Moves(p) /\ At(p)' \in {"failed", "done"} /\ ~proc'[p].org
    BY <1>2, <1>4, <1>7, EndsFact DEF Places
  <2> QED BY <1>2, <1>5, <2>1, OutsideKeepsInv DEF Holding
<1> QED BY <1>6, <1>7 DEF GetAppInfo, ConnectWithoutAccess

LEMMA CheckInv == ASSUME NEW p \in Procs, AccessInv, CheckToken(p) PROVE AccessInv'
<1>1. At(p) = "check" BY DEF CheckToken, Found, FindsNone
<1>2. ~Holding(p) /\ At(p) \notin Gone BY <1>1 DEF Holding, Gone
<1>3. ~proc[p].org BY <1>1 DEF AccessInv, LockInv, WithOrg
<1>4. AccessTypeOK BY DEF AccessInv
<1>5. app' \in {app, "none"} /\ UNCHANGED <<locks, history>> BY DEF CheckToken, FindsNone
<1>6. CASE Found(p, "check") /\ Returned(p, app)
  <2>1. Moves(p) /\ At(p)' \in {"keygen", "present", "done"} /\ ~proc'[p].org
    BY <1>2, <1>3, <1>4, <1>6, ReturnedFact DEF Found, TokenValues
  <2> QED BY <1>2, <1>5, <2>1, OutsideKeepsInv DEF Holding
<1>7. CASE Goes(p, "lock app")
  <2>1. Moves(p) /\ At(p)' = "lock app" /\ ~proc'[p].org
    BY <1>2, <1>3, <1>4, <1>7, GoesFact DEF Places
  <2> QED BY <1>2, <1>5, <2>1, OutsideKeepsInv DEF Holding
<1> QED BY <1>6, <1>7 DEF CheckToken

LEMMA RecheckInv == ASSUME NEW p \in Procs, AccessInv, Recheck(p) PROVE AccessInv'
<1>1. At(p) = "recheck" BY DEF Recheck, Found, FindsNone
<1>2. Holding(p) /\ At(p) \notin Gone BY <1>1 DEF Holding, Gone
<1>3. ~proc[p].org BY <1>1 DEF AccessInv, LockInv, WithOrg
<1>4. AccessTypeOK BY DEF AccessInv
<1>5. app' \in {app, "none"} /\ UNCHANGED <<locks, history>> BY DEF Recheck, FindsNone
<1>6. app' \in TokenValues \cup {"torn"} BY <1>4, <1>5 DEF AccessTypeOK, TokenValues
<1>7. CASE Found(p, "recheck") /\ GoesWith(p, "release", app)
  <2>1. Moves(p) /\ At(p)' = "release" /\ ~proc'[p].org
    BY <1>2, <1>3, <1>4, <1>7, GoesWithFact DEF Found, TokenValues, Places, WithOrg
  <2> QED BY <1>2, <1>3, <1>5, <1>6, <2>1, InsideKeepsInv DEF Holding, Fetching
<1>8. CASE FindsNone(p, "recheck") /\ GoesWith(p, "org", "none")
  <2>1. Moves(p) /\ At(p)' = "org" /\ ~proc'[p].org
    BY <1>2, <1>3, <1>4, <1>8, GoesWithFact DEF TokenValues, Places, Fetching
  <2>2. app' # "good" BY <1>8 DEF FindsNone
  <2> QED BY <1>2, <1>3, <1>5, <1>6, <2>1, <2>2, InsideKeepsInv DEF Holding
<1> QED BY <1>7, <1>8 DEF Recheck

(***************************************************************************)
(* The locks.  The app lock is taken by writing the file over; if another  *)
(* process has it by then, overlap records that exclusion is lost.         *)
(***************************************************************************)
LEMMA AcquireAppInv == ASSUME NEW p \in Procs, AccessInv, AcquireApp(p) PROVE AccessInv'
<1>1. At(p) = "lock app" BY DEF AcquireApp
<1>2. ~Holding(p) /\ At(p) \notin Gone /\ At(p) \notin Fetching
  BY <1>1 DEF Holding, Gone, Fetching
<1>3. ~proc[p].org BY <1>1 DEF AccessInv, LockInv, WithOrg
<1>4. AccessTypeOK BY DEF AccessInv
<1>5. app' = app /\ app \in TokenValues \cup {"torn"} /\ orgLock' = orgLock
  BY <1>4 DEF AcquireApp, tokenFiles, AccessTypeOK
<1>6. CASE Waits(p, appLock) /\ UNCHANGED overlap
  <2>1. Moves(p) /\ At(p)' = "lock app" /\ ~proc'[p].org
    BY <1>1, <1>2, <1>3, <1>4, <1>6, StaysFact DEF Waits, BreaksLock
  <2>2. appLock' \in {appLock, None} BY <1>6 DEF Waits, BreaksLock
  <2>3. ~Holding(p)' /\ At(p)' \notin Fetching BY <2>1 DEF Holding, Fetching
  <2> QED BY <1>2, <1>3, <1>5, <1>6, <2>1, <2>2, <2>3, MoveKeepsInv
<1>7. CASE Ends(p, "failed") /\ UNCHANGED <<appLock, overlap>>
  <2>1. Moves(p) /\ At(p)' = "failed" /\ ~proc'[p].org
    BY <1>2, <1>4, <1>7, EndsFact DEF Places
  <2> QED BY <1>2, <1>5, <1>7, <2>1, OutsideKeepsInv DEF Holding, locks, history, AcquireApp
<1>8. CASE /\ appLock' = p
           /\ overlap' = (overlap \/ \E q \in Procs \ {p} : Holding(q))
           /\ Goes(p, "recheck")
  <2>1. Moves(p) /\ At(p)' = "recheck" /\ ~proc'[p].org
    BY <1>2, <1>3, <1>4, <1>8, GoesFact DEF Places
  <2>2. \A q \in Procs \ {p} : /\ At(q)' = At(q) /\ proc'[q].org = proc[q].org
                               /\ Holding(q)' = Holding(q)
    BY <2>1 DEF Moves, At, Holding
  <2>3. AccessTypeOK' BY <1>4, <1>5, <1>8, <2>1 DEF AccessTypeOK, Moves
  <2>4. LockInv'
    BY <1>2, <1>3, <1>5, <1>8, <2>1, <2>2 DEF LockInv, AccessInv, Holding
  <2>5. ExclusionInv'
    BY <1>8, <2>2 DEF ExclusionInv, AccessInv
  <2>6. FetchInv'
    BY <1>5, <1>8, <2>1, <2>2 DEF FetchInv, AccessInv, Fetching
  <2> QED BY <2>3, <2>4, <2>5, <2>6 DEF AccessInv
<1> QED BY <1>6, <1>7, <1>8 DEF AcquireApp

LEMMA AcquireOrgInv == ASSUME NEW p \in Procs, AccessInv, AcquireOrg(p) PROVE AccessInv'
<1>1. At(p) = "lock org" BY DEF AcquireOrg
<1>2. Holding(p) /\ At(p) \notin Gone /\ At(p) \in Fetching
  BY <1>1 DEF Holding, Gone, Fetching
<1>3. ~proc[p].org BY <1>1 DEF AccessInv, LockInv, WithOrg
<1>4. AccessTypeOK BY DEF AccessInv
<1>5. app' = app /\ app \in TokenValues \cup {"torn"} /\ appLock' = appLock
      /\ overlap' = overlap
  BY <1>4 DEF AcquireOrg, tokenFiles, AccessTypeOK, history
<1>6. CASE Waits(p, orgLock)
  <2>1. Moves(p) /\ At(p)' = "lock org" /\ ~proc'[p].org
    BY <1>1, <1>2, <1>3, <1>4, <1>6, StaysFact DEF Waits, BreaksLock
  <2>2. orgLock' \in {orgLock, None} BY <1>6 DEF Waits, BreaksLock
  <2>3. Holding(p)' BY <2>1 DEF Holding
  <2> QED BY <1>2, <1>3, <1>5, <1>6, <2>1, <2>2, <2>3, MoveKeepsInv
<1>7. CASE Goes(p, "release") /\ UNCHANGED orgLock
  <2>1. Moves(p) /\ At(p)' = "release" /\ ~proc'[p].org
    BY <1>2, <1>3, <1>4, <1>7, GoesFact DEF Places, WithOrg
  <2>2. Holding(p)' /\ At(p)' \notin Fetching BY <2>1 DEF Holding, Fetching
  <2> QED BY <1>2, <1>3, <1>5, <1>7, <2>1, <2>2, MoveKeepsInv
<1>8. CASE /\ orgLock' = p
           /\ proc' = [proc EXCEPT ![p] = [@ EXCEPT !.at = "org again", !.half = FALSE,
                                                    !.count = 0, !.org = TRUE]]
  <2>1. Moves(p) /\ At(p)' = "org again" /\ proc'[p].org
    BY <1>2, <1>4, <1>8 DEF AccessTypeOK, Moves, At, ProcRecords, Places, WithOrg
  <2>2. \A q \in Procs \ {p} : /\ At(q)' = At(q) /\ proc'[q].org = proc[q].org
                               /\ Holding(q)' = Holding(q)
    BY <2>1 DEF Moves, At, Holding
  <2>3. AccessTypeOK' BY <1>4, <1>5, <2>1 DEF AccessTypeOK, Moves
  <2>4. Holding(p)' /\ At(p)' \in WithOrg BY <2>1 DEF Holding, WithOrg
  <2>5. LockInv' BY <1>2, <1>5, <1>8, <2>1, <2>2, <2>4 DEF LockInv, AccessInv
  <2>6. ExclusionInv' BY <1>2, <1>5, <2>2 DEF ExclusionInv, AccessInv
  <2>7. FetchInv' BY <1>2, <1>5, <2>1, <2>2 DEF FetchInv, AccessInv
  <2> QED BY <2>3, <2>5, <2>6, <2>7 DEF AccessInv
<1> QED BY <1>6, <1>7, <1>8 DEF AcquireOrg

LEMMA ReleaseInv ==
    ASSUME NEW p \in Procs, AccessInv, ReleaseOrg(p) \/ ReleaseApp(p) PROVE AccessInv'
<1>1. At(p) = "release" BY DEF ReleaseOrg, ReleaseApp
<1>2. Holding(p) /\ At(p) \notin Gone BY <1>1 DEF Holding, Gone
<1>4. AccessTypeOK BY DEF AccessInv
<1>5. app' = app /\ app \in TokenValues \cup {"torn"} /\ overlap' = overlap
  BY <1>4 DEF ReleaseOrg, ReleaseApp, tokenFiles, AccessTypeOK, history
<1>6. CASE ReleaseOrg(p)
  <2>1. Moves(p) /\ At(p)' = "release" /\ ~proc'[p].org
    BY <1>1, <1>2, <1>4, <1>6 DEF ReleaseOrg, AccessTypeOK, Moves, At, ProcRecords, Places
  <2>2. Holding(p)' /\ At(p)' \notin Fetching BY <2>1 DEF Holding, Fetching
  <2>3. appLock' = appLock /\ orgLock' = None BY <1>6 DEF ReleaseOrg
  <2> QED BY <1>2, <1>5, <2>1, <2>2, <2>3, MoveKeepsInv
<1>7. CASE ReleaseApp(p)
  <2>1. ~proc[p].org /\ appLock' = None /\ orgLock' = orgLock BY <1>7 DEF ReleaseApp
  <2>2. proc[p].tok \in TokenValues BY <1>4 DEF AccessTypeOK, ProcRecords
  <2>3. Moves(p) /\ At(p)' \in {"keygen", "present", "done", "failed"} /\ ~proc'[p].org
    <3>1. CASE Returned(p, proc[p].tok)
      BY <1>2, <1>4, <2>1, <2>2, <3>1, ReturnedFact
    <3>2. CASE Ends(p, "failed") BY <1>2, <1>4, <3>2, EndsFact DEF Places
    <3> QED BY <1>7, <3>1, <3>2 DEF ReleaseApp
  <2>4. ~Holding(p)' /\ At(p)' \notin Fetching BY <2>3 DEF Holding, Fetching
  <2> QED BY <1>2, <1>5, <2>1, <2>3, <2>4, MoveKeepsInv
<1> QED BY <1>6, <1>7

-----------------------------------------------------------------------------
(***************************************************************************)
(* Under the lock: the org token, the exchange, the login, the files.      *)
(***************************************************************************)
LEMMA OrgTokenInv ==
    ASSUME NEW p \in Procs, AccessInv, NEW at, NEW missing, OrgToken(p, at, missing),
           \/ at = "org" /\ missing = "lock org"
           \/ at = "org again" /\ missing = "transfer"
    PROVE  AccessInv'
<1>1. At(p) = at BY DEF OrgToken
<1>2. Holding(p) /\ At(p) \notin Gone /\ At(p) \in Fetching
  BY <1>1 DEF Holding, Gone, Fetching
<1>3. proc[p].org => at = "org again" BY <1>1 DEF AccessInv, LockInv, WithOrg
<1>4. AccessTypeOK BY DEF AccessInv
<1>5. app' = app /\ app \in TokenValues \cup {"torn"} /\ UNCHANGED <<locks, history>>
  BY <1>4 DEF OrgToken, AccessTypeOK
<1>6. missing \in Places BY DEF Places, Fetching
<1>7. Moves(p) /\ At(p)' \in {"exchange", "transfer", at, missing}
      /\ proc'[p].org = proc[p].org
  <2>1. CASE Goes(p, "exchange") BY <1>2, <1>4, <2>1, GoesFact DEF Places, Fetching
  <2>2. CASE Goes(p, missing) BY <1>2, <1>4, <1>6, <2>2, GoesFact
  <2>3. CASE IsHalf(p) BY <1>1, <1>2, <1>4, <2>3, StaysFact
  <2>4. CASE Goes(p, IF orgFile = "none" THEN missing ELSE "transfer")
    <3>1. CASE orgFile = "none" BY <2>2, <2>4, <3>1
    <3>2. CASE orgFile # "none"
      BY <1>2, <1>4, <2>4, <3>2, GoesFact DEF Places, Fetching
    <3> QED BY <3>1, <3>2
  <2> QED BY <2>1, <2>2, <2>3, <2>4 DEF OrgToken
<1>8. Holding(p)' BY <1>7 DEF Holding
<1>9. proc[p].org => At(p)' \in WithOrg BY <1>3, <1>7 DEF WithOrg
<1> QED BY <1>2, <1>5, <1>7, <1>8, <1>9, InsideKeepsInv

LEMMA ExchangeInv ==
    ASSUME NEW p \in Procs, AccessInv, ExchangeOrgToken(p) \/ RunTransfer(p) PROVE AccessInv'
<1>1. At(p) \in {"exchange", "transfer"} BY DEF ExchangeOrgToken, RunTransfer
<1>2. Holding(p) /\ At(p) \notin Gone /\ At(p) \in Fetching
  BY <1>1 DEF Holding, Gone, Fetching
<1>4. AccessTypeOK BY DEF AccessInv
<1>5. app' = app /\ app \in TokenValues \cup {"torn"} /\ UNCHANGED <<locks, history>>
  BY <1>4 DEF ExchangeOrgToken, RunTransfer, AccessTypeOK, tokenFiles
<1>6. Moves(p) /\ At(p)' \in WithOrg /\ proc'[p].org = proc[p].org
  <2> USE DEF Places, WithOrg, TokenValues
  <2>1. CASE GoesWith(p, "write app", "good") BY <1>2, <1>4, <2>1, GoesWithFact
  <2>2. CASE Goes(p, "transfer") BY <1>2, <1>4, <2>2, GoesFact
  <2>3. CASE Goes(p, "release") BY <1>2, <1>4, <2>3, GoesFact
  <2>4. CASE Counts(p) BY <1>1, <1>2, <1>4, <2>4, StaysFact
  <2>5. CASE GoesWith(p, IF proc[p].org THEN "write org" ELSE "write app", "good")
    <3>1. CASE proc[p].org BY <1>2, <1>4, <2>5, <3>1, GoesWithFact
    <3>2. CASE ~proc[p].org BY <1>2, <1>4, <2>5, <3>2, GoesWithFact
    <3> QED BY <3>1, <3>2
  <2> QED BY <2>1, <2>2, <2>3, <2>4, <2>5 DEF ExchangeOrgToken, RunTransfer
<1>7. Holding(p)' BY <1>6 DEF Holding, WithOrg
<1> QED BY <1>2, <1>5, <1>6, <1>7, InsideKeepsInv

LEMMA WriteInv == ASSUME NEW p \in Procs, AccessInv, WriteTokens(p) PROVE AccessInv'
<1>1. At(p) \in {"write org", "write app"} BY DEF WriteTokens
<1>2. Holding(p) /\ At(p) \notin Gone BY <1>1 DEF Holding, Gone
<1>4. AccessTypeOK BY DEF AccessInv
<1>5. proc[p].tok \in TokenValues BY <1>4 DEF AccessTypeOK, ProcRecords
<1>6. app' \in {app, "torn", proc[p].tok} /\ UNCHANGED <<locks, history>>
  BY DEF WriteTokens, SaveFile
<1>7. app' \in TokenValues \cup {"torn"} BY <1>4, <1>5, <1>6 DEF AccessTypeOK
<1>8. Moves(p) /\ At(p)' \in {"write org", "write app", "release"}
      /\ proc'[p].org = proc[p].org
  <2> USE DEF Places, WithOrg, TokenValues
  <2>1. CASE IsHalf(p) BY <1>1, <1>2, <1>4, <2>1, StaysFact
  <2>2. CASE Goes(p, "write app") BY <1>2, <1>4, <2>2, GoesFact
  <2>3. CASE Goes(p, "release") BY <1>2, <1>4, <2>3, GoesFact
  <2>4. CASE GoesWith(p, "release", "none") BY <1>2, <1>4, <2>4, GoesWithFact
  <2> QED BY <2>1, <2>2, <2>3, <2>4 DEF WriteTokens, SaveFile
<1>9. Holding(p)' /\ At(p)' \in WithOrg /\ At(p)' \notin Fetching
  BY <1>8 DEF Holding, WithOrg, Fetching
<1> QED BY <1>2, <1>6, <1>7, <1>8, <1>9, InsideKeepsInv

-----------------------------------------------------------------------------
(***************************************************************************)
(* Outside the lock: the token is presented, read, removed and signed.     *)
(***************************************************************************)
LEMMA FindsExpiredInv == ASSUME NEW p \in Procs, AccessInv, FindsExpired(p) PROVE AccessInv'
<1>1. At(p) \in {"check", "recheck", "read"} /\ IsHalf(p) BY DEF FindsExpired
<1>2. At(p) \notin Gone /\ At(p) \notin Fetching BY <1>1 DEF Gone, Fetching
<1>3. ~proc[p].org BY <1>1 DEF AccessInv, LockInv, WithOrg
<1>4. AccessTypeOK BY DEF AccessInv
<1>5. app' = app /\ app \in TokenValues \cup {"torn"} /\ UNCHANGED <<locks, history>>
  BY <1>4 DEF FindsExpired, AccessTypeOK, tokenFiles
<1>6. Moves(p) /\ At(p)' = At(p) /\ ~proc'[p].org BY <1>1, <1>2, <1>3, <1>4, StaysFact
<1>7. Holding(p)' <=> Holding(p) BY <1>6 DEF Holding
<1> QED BY <1>2, <1>3, <1>5, <1>6, <1>7, MoveKeepsInv DEF locks, history

LEMMA PresentInv ==
    ASSUME NEW p \in Procs, AccessInv,
           VerifyTokenAtEdge(p) \/ CreateAccessAuthenticatedStream(p)
    PROVE  AccessInv'
<1>1. At(p) = "present" BY DEF VerifyTokenAtEdge, CreateAccessAuthenticatedStream
<1>2. ~Holding(p) /\ At(p) \notin Gone BY <1>1 DEF Holding, Gone
<1>3. ~proc[p].org BY <1>1 DEF AccessInv, LockInv, WithOrg
<1>4. AccessTypeOK BY DEF AccessInv
<1>5. app' = app /\ UNCHANGED <<locks, history>>
  BY DEF VerifyTokenAtEdge, CreateAccessAuthenticatedStream, tokenFiles
<1>6. Moves(p) /\ At(p)' \in {"failed", "done", "read", "remove"} /\ ~proc'[p].org
  <2> USE DEF Places, TokenValues
  <2>1. CASE Ends(p, "failed") BY <1>2, <1>4, <2>1, EndsFact
  <2>2. CASE Ends(p, "done") BY <1>2, <1>4, <2>2, EndsFact
  <2>3. CASE GoesWith(p, "read", "none") BY <1>2, <1>3, <1>4, <2>3, GoesWithFact
  <2>4. CASE GoesWith(p, "remove", "none") BY <1>2, <1>3, <1>4, <2>4, GoesWithFact
  <2> QED BY <2>1, <2>2, <2>3, <2>4
      DEF VerifyTokenAtEdge, CreateAccessAuthenticatedStream, PresentsToken
<1>7. ~Holding(p)' BY <1>6 DEF Holding
<1> QED BY <1>2, <1>5, <1>6, <1>7, OutsideKeepsInv

LEMMA RemoveInv ==
    ASSUME NEW p \in Procs, AccessInv, RemoveTokenIfExists(p) PROVE AccessInv'
<1>1. At(p) = "remove" BY DEF RemoveTokenIfExists
<1>2. ~Holding(p) /\ At(p) \notin Gone BY <1>1 DEF Holding, Gone
<1>3. ~proc[p].org BY <1>1 DEF AccessInv, LockInv, WithOrg
<1>4. app' = "none" /\ UNCHANGED <<locks, history>> BY DEF RemoveTokenIfExists
<1>5. Moves(p) /\ At(p)' = "check" /\ ~proc'[p].org
  BY <1>2, <1>3
  DEF RemoveTokenIfExists, AccessInv, AccessTypeOK, Moves, At, ProcRecords, Places
<1>6. ~Holding(p)' BY <1>5 DEF Holding
<1> QED BY <1>2, <1>4, <1>5, <1>6, OutsideKeepsInv

LEMMA FetchesAgainFact ==
    ASSUME NEW p \in Procs, AccessTypeOK, At(p) \notin Gone, FetchesAgain(p)
    PROVE  Moves(p) /\ At(p)' = "check" /\ proc'[p].org = proc[p].org
BY DEF FetchesAgain, AccessTypeOK, Moves, At, ProcRecords, Places

LEMMA ReadInv ==
    ASSUME NEW p \in Procs, AccessInv, Login(p) \/ GenerateToken(p) \/ Curl(p) PROVE AccessInv'
<1> USE DEF Login, GenerateToken, Curl, ReadsToken
<1>1. At(p) = "read" BY DEF Found, FindsNone
<1>2. ~Holding(p) /\ At(p) \notin Gone BY <1>1 DEF Holding, Gone
<1>3. ~proc[p].org BY <1>1 DEF AccessInv, LockInv, WithOrg
<1>4. AccessTypeOK BY DEF AccessInv
<1>5. app' \in {app, "none"} /\ UNCHANGED <<locks, history>> BY DEF FindsNone
<1>6. Moves(p) /\ At(p)' \in {"failed", "done", "check"} /\ ~proc'[p].org
  <2>1. CASE Ends(p, "failed") BY <1>2, <1>4, <2>1, EndsFact DEF Places
  <2>2. CASE Ends(p, "done") BY <1>2, <1>4, <2>2, EndsFact DEF Places
  <2>3. CASE FetchesAgain(p) BY <1>2, <1>3, <1>4, <2>3, FetchesAgainFact
  <2> QED BY <2>1, <2>2, <2>3
<1>7. ~Holding(p)' BY <1>6 DEF Holding
<1> QED BY <1>2, <1>5, <1>6, <1>7, OutsideKeepsInv

LEMMA SSHGenInv ==
    ASSUME NEW p \in Procs, AccessInv, GenerateKeyPair(p) \/ SignCert(p) PROVE AccessInv'
<1>1. At(p) \in {"keygen", "sign"} BY DEF GenerateKeyPair, SignCert
<1>2. ~Holding(p) /\ At(p) \notin Gone BY <1>1 DEF Holding, Gone
<1>3. ~proc[p].org BY <1>1 DEF AccessInv, LockInv, WithOrg
<1>4. AccessTypeOK BY DEF AccessInv
<1>5. app' = app /\ UNCHANGED <<locks, history>> BY DEF GenerateKeyPair, SignCert, tokenFiles
<1>6. Moves(p) /\ At(p)' \in {"keygen", "sign", "failed", "done"} /\ ~proc'[p].org
  <2>1. CASE Ends(p, "failed") BY <1>2, <1>4, <2>1, EndsFact DEF Places
  <2>2. CASE Ends(p, "done") BY <1>2, <1>4, <2>2, EndsFact DEF Places
  <2>3. CASE Goes(p, "sign") BY <1>2, <1>3, <1>4, <2>3, GoesFact DEF Places
  <2>4. CASE IsHalf(p) BY <1>1, <1>2, <1>3, <1>4, <2>4, StaysFact
  <2> QED BY <2>1, <2>2, <2>3, <2>4 DEF GenerateKeyPair, SignCert
<1>7. ~Holding(p)' BY <1>6 DEF Holding
<1> QED BY <1>2, <1>5, <1>6, <1>7, OutsideKeepsInv

-----------------------------------------------------------------------------
(***************************************************************************)
(* A signal, a kill, and the passing of time.  The signal handler of a     *)
(* process deletes the lock file, whoever wrote it.                        *)
(***************************************************************************)
LEMMA InterruptedInv ==
    ASSUME NEW p \in Procs, AccessInv, Interrupted(p) \/ KilledCommand(p) PROVE AccessInv'
<1>1. AccessTypeOK BY DEF AccessInv
<1>2. app' = app /\ app \in TokenValues \cup {"torn"} /\ overlap' = overlap
  BY <1>1 DEF Interrupted, KilledCommand, tokenFiles, history, AccessTypeOK
<1>3. appLock' \in {appLock, None} /\ orgLock' \in {orgLock, None}
  BY DEF Interrupted, KilledCommand, locks
<1>4. Moves(p) /\ At(p)' \in Gone /\ ~proc'[p].org
  BY <1>1, EndsFact DEF Interrupted, KilledCommand, Places, Gone
<1>5. ~Holding(p)' /\ At(p)' \notin Fetching BY <1>4 DEF Holding, Fetching, Gone
<1> QED BY <1>2, <1>3, <1>4, <1>5, MoveKeepsInv

LEMMA DecayInv == ASSUME AccessInv, Decay PROVE AccessInv'
<1>1. PICK how \in {"expired", "revoked"} :
        /\ app' = Decayed(app, how)
        /\ proc' = [p \in Procs |-> [proc[p] EXCEPT !.tok = Decayed(@, how)]]
  BY DEF Decay
<1>2. \A t \in TokenValues : Decayed(t, how) \in TokenValues
  BY DEF Decayed, TokenValues
<1>3. ASSUME NEW p \in Procs
      PROVE  proc'[p] \in ProcRecords /\ At(p)' = At(p) /\ proc'[p].org = proc[p].org
  <2>1. proc[p] \in ProcRecords BY DEF AccessInv, AccessTypeOK
  <2>2. Decayed(proc[p].tok, how) \in TokenValues BY <1>2, <2>1 DEF ProcRecords
  <2>3. proc'[p] = [proc[p] EXCEPT !.tok = Decayed(proc[p].tok, how)] BY <1>1
  <2> QED BY <2>1, <2>2, <2>3 DEF ProcRecords, At
<1>4. app' \in TokenValues \cup {"torn"} /\ (app' = "good" => app = "good")
  BY <1>1 DEF AccessInv, AccessTypeOK, Decayed, TokenValues
<1>5. UNCHANGED <<appLock, orgLock, overlap>> BY DEF Decay, locks
<1>6. AccessTypeOK'
  BY <1>1, <1>3, <1>4, <1>5 DEF AccessInv, AccessTypeOK
<1>7. \A p \in Procs : Holding(p)' <=> Holding(p) BY <1>3 DEF Holding
<1> QED BY <1>3, <1>4, <1>5, <1>6, <1>7 DEF AccessInv, LockInv, ExclusionInv, FetchInv

LEMMA AccessNextInv == ASSUME AccessInv, [AccessNext]_accessVars PROVE AccessInv'
<1>1. CASE UNCHANGED accessVars
  BY <1>1 DEF accessVars, tokenFiles, locks, history, AccessInv, AccessTypeOK, LockInv,
     ExclusionInv, FetchInv, At, Holding
<1>2. CASE Decay BY <1>2, DecayInv
<1>3. ASSUME NEW p \in Procs, GetToken(p) PROVE AccessInv'
  <2>1. CASE GetOrgToken(p) BY <2>1, OrgTokenInv DEF GetOrgToken
  <2> QED BY <1>3, <2>1, CheckInv, AcquireAppInv, RecheckInv, AcquireOrgInv, ExchangeInv,
          WriteInv, ReleaseInv DEF GetToken
<1>4. ASSUME NEW p \in Procs, AccessStep(p) PROVE AccessInv'
  BY <1>3, <1>4, FirstCallsInv, FindsExpiredInv, PresentInv, RemoveInv, ReadInv, SSHGenInv
  DEF AccessStep
<1> QED BY <1>1, <1>2, <1>4, InterruptedInv DEF AccessNext

(***************************************************************************)
(* For any number of access commands and any retries, and for every way    *)
(* they meet, are interrupted or killed: nobody logs in for an app token   *)
(* that is there unless the lock was broken over a process that held it,   *)
(* and a command that returned left no lock file behind                    *)
(* (token/token.go, getToken and lock.Acquire).                            *)
(***************************************************************************)
THEOREM AccessLockIsSound == AccessSpec => []LockSound
<1>1. AccessInit => AccessInv BY AccessInitInv
<1>2. AccessInv /\ [AccessNext]_accessVars => AccessInv' BY AccessNextInv
<1>3. AccessInv => LockSound
  BY DEF AccessInv, LockInv, FetchInv, LockSound, NoNeedlessLogin, NoLockLeft, Holding,
         Fetching, WithOrg, Gone
<1> QED BY <1>1, <1>2, <1>3, PTL DEF AccessSpec
=============================================================================
