------------------------------- MODULE Access -------------------------------
(***************************************************************************)
(* The cloudflared access commands and the files they share: the app token *)
(* and the org token of Access, the two lock files beside them, and the    *)
(* key pair of ssh-gen.  Every process runs one command.                   *)
(*                                                                         *)
(* A token is what it is worth: "good", "expired" (isExpired) or "revoked" *)
(* (only the edge can tell).  A file that was truncated and not yet        *)
(* written is "torn".  A lock file and a key file are the process that     *)
(* wrote them.  A process is a record: the call it is in (at); half, that  *)
(* it is between the two calls of its step (it found a token expired and   *)
(* will remove it, it found no lock and will create one, it truncated a    *)
(* file and will write it); how often it went through getToken (try); its  *)
(* retries of a lock or attempts of the poll (count); the token it holds;  *)
(* and whether orgTokenPath is set and the org lock taken (org).           *)
(***************************************************************************)
EXTENDS Naturals

CONSTANTS Procs,
          None,           \* no process: the file is not there
          Stranger,       \* a process of before, killed with its lock held
          MaxRetries,     \* of the backoff of lock.Acquire
          PollAttempts,   \* pollAttempts of transferRequest
          CommandChoices  \* what the processes run: functions to Commands

ASSUME ProcsAssumption == None \notin Procs /\ Stranger \notin Procs

Commands == {"login", "curl", "curl allow", "token", "ssh-gen", "tcp"}

VARIABLES cmd,       \* the command of each process
          proc,      \* the processes
          app, orgFile, appLock, orgLock, privKey, pubKey,        \* files
          decayed,   \* did tokens expire or get revoked? (bounds Decay)
          overlap    \* did two processes hold the app lock? (history)
tokenFiles == <<app, orgFile>>
locks == <<appLock, orgLock>>
keys == <<privKey, pubKey>>
history == <<decayed, overlap>>
accessVars == <<cmd, proc, tokenFiles, locks, keys, history>>

At(p) == proc[p].at
Fresh(at) == [at |-> at, half |-> FALSE, try |-> 0, count |-> 0, tok |-> "none",
             org |-> FALSE]

AccessInit ==
    /\ cmd \in CommandChoices
    /\ proc = [p \in Procs |-> Fresh("start")]
    /\ orgFile \in {"none", "good", "expired"}
    /\ app \in {"none"} \cup ({orgFile} \cap {"expired"})
    /\ appLock \in {None, Stranger} /\ orgLock = None
    /\ privKey = None /\ pubKey = None
    /\ decayed = (app = "expired") /\ overlap = FALSE

(* What a process does next.  A command that returns, or whose process is  *)
(* gone, keeps nothing.                                                    *)
Goes(p, to) == proc' = [proc EXCEPT ![p].at = to, ![p].half = FALSE, ![p].count = 0]
GoesWith(p, to, t) ==
    proc' = [proc EXCEPT ![p] = [@ EXCEPT !.at = to, !.half = FALSE, !.count = 0, !.tok = t]]
Ends(p, how) == proc' = [proc EXCEPT ![p] = Fresh(how)]
Ended(p) == At(p) \in {"done", "failed", "interrupted", "killed"}
IsHalf(p) == proc' = [proc EXCEPT ![p].half = TRUE]
Counts(p) == proc' = [proc EXCEPT ![p].count = @ + 1]

Holding(p) == At(p) \in {"recheck", "org", "lock org", "org again", "exchange",
                         "transfer", "write org", "write app", "release"}

-----------------------------------------------------------------------------
(* The start of a command: the application must be found.  tcp connects    *)
(* first, and needs neither where Access does not protect the origin.      *)
FirstCall(c) == IF c = "token" THEN "read" ELSE "check"
GetAppInfo(p) ==
    /\ At(p) = "start"
    /\ \/ proc' = [proc EXCEPT ![p].at = FirstCall(cmd[p]), ![p].try = 1]
       \/ Ends(p, "failed")
    /\ UNCHANGED <<cmd, tokenFiles, locks, keys, history>>
ConnectWithoutAccess(p) ==
    /\ At(p) = "start" /\ cmd[p] = "tcp"
    /\ Ends(p, "done")
    /\ UNCHANGED <<cmd, tokenFiles, locks, keys, history>>

(* Where a command goes with the token that getToken returned.             *)
Returned(p, t) ==
    \/ cmd[p] = "ssh-gen" /\ GoesWith(p, "keygen", t)
    \/ cmd[p] # "ssh-gen" /\ proc[p].try < 3 /\ GoesWith(p, "present", t)
    \/ proc[p].try = 3 /\ Ends(p, "done")

(* GetAppTokenIfExists finds a token, finds none that it can read, or      *)
(* finds it expired and removes whatever the file is by then.              *)
Found(p, at) == At(p) = at /\ ~proc[p].half /\ app \in {"good", "revoked"}
FindsNone(p, at) ==
    /\ At(p) = at
    /\ \/ ~proc[p].half /\ app \in {"none", "torn"} /\ UNCHANGED app
       \/ proc[p].half /\ app' = "none"
FindsExpired(p) ==
    /\ At(p) \in {"check", "recheck", "read"} /\ ~proc[p].half /\ app = "expired"
    /\ IsHalf(p)
    /\ UNCHANGED <<cmd, tokenFiles, locks, keys, history>>

CheckToken(p) ==
    /\ \/ Found(p, "check") /\ Returned(p, app) /\ UNCHANGED app
       \/ FindsNone(p, "check") /\ Goes(p, "lock app")
    /\ UNCHANGED <<cmd, orgFile, locks, keys, history>>

(* getToken looks again once it has the lock.  NoRecheckBug does not.      *)
NoRecheckBug(p) ==
    /\ At(p) = "recheck" /\ Goes(p, "org")
    /\ UNCHANGED <<cmd, tokenFiles, locks, keys, history>>
Recheck(p) ==
    /\ \/ Found(p, "recheck") /\ GoesWith(p, "release", app) /\ UNCHANGED app
       \/ FindsNone(p, "recheck") /\ GoesWith(p, "org", "none")
    /\ UNCHANGED <<cmd, orgFile, locks, keys, history>>

-----------------------------------------------------------------------------
(* lock.Acquire polls while the lock file is there; when its retries are   *)
(* used up it deletes the file, whoever wrote it.                          *)
(* PollsForEverBug waits for the file to go away by itself.                *)
PollsForEverBug(p, file) == file # None /\ file' = file /\ UNCHANGED proc
BreaksLock(p, file) ==
    /\ file # None /\ proc[p].count = MaxRetries
    /\ file' = None
    /\ UNCHANGED proc
Waits(p, file) ==
    \/ file # None /\ proc[p].count < MaxRetries /\ Counts(p) /\ file' = file
    \/ BreaksLock(p, file)
    \/ file = None /\ IsHalf(p) /\ file' = file

AcquireApp(p) ==
    /\ At(p) = "lock app"
    /\ \/ ~proc[p].half /\ Waits(p, appLock) /\ UNCHANGED overlap
       \/ /\ proc[p].half
          /\ appLock' = p
          /\ overlap' = (overlap \/ \E q \in Procs \ {p} : Holding(q))
          /\ Goes(p, "recheck")
       \/ /\ proc[p].half
          /\ Ends(p, "failed")
          /\ UNCHANGED <<appLock, overlap>>
    /\ UNCHANGED <<cmd, tokenFiles, orgLock, keys, decayed>>

(* The org lock is taken with the app lock held, whose release is already  *)
(* deferred when this one fails.                                           *)
AcquireOrg(p) ==
    /\ At(p) = "lock org"
    /\ \/ ~proc[p].half /\ Waits(p, orgLock)
       \/ /\ proc[p].half
          /\ orgLock' = p
          /\ proc' = [proc EXCEPT ![p] = [@ EXCEPT !.at = "org again", !.half = FALSE,
                                                   !.count = 0, !.org = TRUE]]
       \/ proc[p].half /\ Goes(p, "release") /\ UNCHANGED orgLock
    /\ UNCHANGED <<cmd, tokenFiles, appLock, keys, history>>

-----------------------------------------------------------------------------
(* GetOrgTokenIfExists.  An expired org token that is removed is no error: *)
(* getToken goes on with an empty token, which is worth nothing, and       *)
(* without an orgTokenPath.  The removal fails when the file is gone.      *)
OrgToken(p, at, missing) ==
    /\ At(p) = at
    /\ \/ /\ ~proc[p].half /\ orgFile \in {"good", "revoked"}
          /\ Goes(p, "exchange") /\ UNCHANGED orgFile
       \/ /\ ~proc[p].half /\ orgFile \in {"none", "torn"}
          /\ Goes(p, missing) /\ UNCHANGED orgFile
       \/ ~proc[p].half /\ orgFile = "expired" /\ IsHalf(p) /\ UNCHANGED orgFile
       \/ /\ proc[p].half
          /\ orgFile' = "none"
          /\ Goes(p, IF orgFile = "none" THEN missing ELSE "transfer")
    /\ UNCHANGED <<cmd, app, locks, keys, history>>
GetOrgToken(p) == OrgToken(p, "org", "lock org") \/ OrgToken(p, "org again", "transfer")

(* exchangeOrgToken: the edge decides.                                     *)
ExchangeOrgToken(p) ==
    /\ At(p) = "exchange"
    /\ GoesWith(p, "write app", "good") \/ Goes(p, "transfer")
    /\ UNCHANGED <<cmd, tokenFiles, locks, keys, history>>

(* RunTransfer: the user logs in while the resource is polled for.         *)
RunTransfer(p) ==
    /\ At(p) = "transfer"
    /\ \/ GoesWith(p, IF proc[p].org THEN "write org" ELSE "write app", "good")
       \/ Goes(p, "release")
       \/ proc[p].count < PollAttempts - 1 /\ Counts(p)
    /\ UNCHANGED <<cmd, tokenFiles, locks, keys, history>>

(* The tokens are written: a file is truncated first.                      *)
SaveFile(p, file, next) ==
    \/ ~proc[p].half /\ file' = "torn" /\ IsHalf(p)
    \/ proc[p].half /\ file' = proc[p].tok /\ Goes(p, next)
    \/ file' = file /\ GoesWith(p, "release", "none")
WriteTokens(p) ==
    /\ \/ At(p) = "write org" /\ SaveFile(p, orgFile, "write app") /\ UNCHANGED app
       \/ At(p) = "write app" /\ SaveFile(p, app, "release") /\ UNCHANGED orgFile
    /\ UNCHANGED <<cmd, locks, keys, history>>

(* The deferred releases, the org lock's first.  KeepsLockBug forgets the  *)
(* app lock when it has no token to return.                                *)
ReleaseOrg(p) ==
    /\ At(p) = "release" /\ proc[p].org
    /\ orgLock' = None
    /\ proc' = [proc EXCEPT ![p].org = FALSE]
    /\ UNCHANGED <<cmd, tokenFiles, appLock, keys, history>>
KeepsLockBug(p) ==
    /\ At(p) = "release" /\ ~proc[p].org
    /\ \/ proc[p].tok # "none" /\ appLock' = None /\ Returned(p, proc[p].tok)
       \/ proc[p].tok = "none" /\ UNCHANGED appLock /\ Ends(p, "failed")
    /\ UNCHANGED <<cmd, tokenFiles, orgLock, keys, history>>
ReleaseApp(p) ==
    /\ At(p) = "release" /\ ~proc[p].org
    /\ appLock' = None
    /\ \/ proc[p].tok # "none" /\ Returned(p, proc[p].tok)
       \/ proc[p].tok = "none" /\ Ends(p, "failed")
    /\ UNCHANGED <<cmd, tokenFiles, orgLock, keys, history>>

GetToken(p) == CheckToken(p) \/ AcquireApp(p) \/ Recheck(p) \/ GetOrgToken(p)
               \/ AcquireOrg(p) \/ ExchangeOrgToken(p) \/ RunTransfer(p)
               \/ WriteTokens(p) \/ ReleaseOrg(p) \/ ReleaseApp(p)

-----------------------------------------------------------------------------
(* verifyTokenAtEdge of login and curl, createAccessAuthenticatedStream of *)
(* tcp: a token that the edge turns down is removed and fetched once more. *)
IsAccessResponse(p) == proc[p].tok # "good"
PresentsToken(p, accepted) ==
    \/ Ends(p, "failed")
    \/ ~IsAccessResponse(p) /\ accepted
    \/ IsAccessResponse(p) /\ proc[p].try = 1 /\ GoesWith(p, "remove", "none")
VerifyTokenAtEdge(p) ==
    /\ At(p) = "present" /\ cmd[p] # "tcp"
    /\ PresentsToken(p, GoesWith(p, "read", "none"))
    /\ UNCHANGED <<cmd, tokenFiles, locks, keys, history>>
CreateAccessAuthenticatedStream(p) ==
    /\ At(p) = "present" /\ cmd[p] = "tcp"
    /\ PresentsToken(p, Ends(p, "done"))
    /\ UNCHANGED <<cmd, tokenFiles, locks, keys, history>>
RemoveTokenIfExists(p) ==
    /\ At(p) = "remove"
    /\ app' = "none"
    /\ proc' = [proc EXCEPT ![p].at = "check", ![p].try = 2]
    /\ UNCHANGED <<cmd, orgFile, locks, keys, history>>

(* login, token and curl read the token again.  Without one curl goes on   *)
(* bare if that is allowed, and fetches one otherwise.                     *)
ReadsToken(p, commands, missing) ==
    /\ cmd[p] \in commands
    /\ \/ Found(p, "read") /\ Ends(p, "done") /\ UNCHANGED app
       \/ FindsNone(p, "read") /\ missing
    /\ UNCHANGED <<cmd, orgFile, locks, keys, history>>
Login(p) == ReadsToken(p, {"login"}, Ends(p, "failed"))
GenerateToken(p) == ReadsToken(p, {"token"}, Ends(p, "failed"))
FetchesAgain(p) ==
    proc' = [proc EXCEPT ![p] = [@ EXCEPT !.at = "check", !.half = FALSE, !.try = 3]]
Curl(p) == \/ ReadsToken(p, {"curl"}, FetchesAgain(p))
           \/ ReadsToken(p, {"curl allow"}, Ends(p, "done"))

(* ssh-gen: a public key that is there is signed; a new pair is written    *)
(* private key first.  The certificate is written when it was signed.      *)
GenerateKeyPair(p) ==
    /\ At(p) = "keygen"
    /\ \/ ~proc[p].half /\ pubKey # None /\ Goes(p, "sign") /\ UNCHANGED keys
       \/ ~proc[p].half /\ pubKey = None /\ IsHalf(p) /\ privKey' = p /\ UNCHANGED pubKey
       \/ proc[p].half /\ Goes(p, "sign") /\ pubKey' = p /\ UNCHANGED privKey
    /\ UNCHANGED <<cmd, tokenFiles, locks, history>>
SignCert(p) ==
    /\ At(p) = "sign"
    /\ Ends(p, "failed") \/ (proc[p].tok = "good" /\ Ends(p, "done"))
    /\ UNCHANGED <<cmd, tokenFiles, locks, keys, history>>

-----------------------------------------------------------------------------
(* A signal while a lock is waited for or held: every lock has its own     *)
(* handler, which deletes the lock file and exits; the first to exit stops *)
(* the others.  A process that is killed is of interest when it leaves     *)
(* something behind: a lock or a step half done.                           *)
Handlers(p) == (IF Holding(p) \/ At(p) = "lock app" THEN {"app"} ELSE {})
               \cup (IF At(p) = "lock org" \/ proc[p].org THEN {"org"} ELSE {})
Interrupted(p) ==
    /\ \E ran \in (SUBSET Handlers(p)) \ {{}} :
          /\ appLock' = IF "app" \in ran THEN None ELSE appLock
          /\ orgLock' = IF "org" \in ran THEN None ELSE orgLock
    /\ Ends(p, "interrupted")
    /\ UNCHANGED <<cmd, tokenFiles, keys, history>>
KilledCommand(p) ==
    /\ Holding(p) \/ proc[p].half
    /\ Ends(p, "killed")
    /\ UNCHANGED <<cmd, tokenFiles, locks, keys, history>>

(* Tokens expire and get revoked; once in a behaviour.                     *)
Decayed(t, how) == IF t = "good" THEN how ELSE t
Decay ==
    /\ ~decayed
    /\ \E how \in {"expired", "revoked"} :
          /\ app' = Decayed(app, how) /\ orgFile' = Decayed(orgFile, how)
          /\ proc' = [p \in Procs |-> [proc[p] EXCEPT !.tok = Decayed(@, how)]]
    /\ decayed' = TRUE
    /\ UNCHANGED <<cmd, locks, keys, overlap>>

AccessStep(p) ==
    \/ GetAppInfo(p) \/ ConnectWithoutAccess(p) \/ GetToken(p) \/ FindsExpired(p)
    \/ VerifyTokenAtEdge(p) \/ CreateAccessAuthenticatedStream(p)
    \/ RemoveTokenIfExists(p) \/ Login(p) \/ GenerateToken(p) \/ Curl(p)
    \/ GenerateKeyPair(p) \/ SignCert(p)
AccessNext ==
    Decay \/ \E p \in Procs : AccessStep(p) \/ Interrupted(p) \/ KilledCommand(p)

(* A process that runs goes on; the login and the requests time out.       *)
AccessFairness == \A p \in Procs : WF_accessVars(AccessStep(p))
AccessSpec == AccessInit /\ [][AccessNext]_accessVars /\ AccessFairness

-----------------------------------------------------------------------------
(* A command that waited for the lock uses the token that was saved        *)
(* meanwhile: as long as no two processes held the lock at once, nobody is *)
(* asked to log in while there is a good token.                            *)
NoNeedlessLogin ==
    \A p \in Procs : At(p) = "transfer" /\ ~overlap => app # "good"

(* A command that returned, by whatever path, left no lock file behind.    *)
NoLockLeft ==
    \A p \in Procs : At(p) \in {"done", "failed"} => appLock # p /\ orgLock # p

(* The lock does its work: it spares a login, and goes away with the       *)
(* command.                                                                *)
LockSound == NoNeedlessLogin /\ NoLockLeft

(* No lock file keeps a command waiting for ever, not even the one of a    *)
(* process that was killed.                                                *)
CommandEnds == <>(\A p \in Procs : Ended(p))
=============================================================================
