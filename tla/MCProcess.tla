----------------------------- MODULE MCProcess -----------------------------
(***************************************************************************)
(* The processes a user starts: the daemon with a tunnel, the daemon in    *)
(* service mode, and two access commands that share their token files.  A  *)
(* behaviour is about one of the three, and the others are over from the   *)
(* start.                                                                  *)
(***************************************************************************)
EXTENDS Process, ServiceMode, Access

(* The forwarder and the resolver are added, changed and removed, together *)
(* and alone.                                                              *)
MCConfigs == {[forwarder |-> c[1], resolver |-> c[2]] :
                 c \in {<<0, 0>>, <<1, 0>>, <<2, 1>>, <<0, 2>>}}

(* The pairs of commands that meet in the lock and the files.              *)
CONSTANTS p1, p2
Pair(c, d) == [p \in Procs |-> IF p = p1 THEN c ELSE d]
MCChoices == {Pair("login", "token"), Pair("ssh-gen", "ssh-gen"),
              Pair("tcp", "ssh-gen"), Pair("curl", "ssh-gen"),
              Pair("curl allow", "token")}
----------------------------------------------------------------------------
VARIABLE part
vars == <<part, procVars, modeVars, accessVars>>

ProcessOff ==
    /\ target = NoFile /\ newFile = NoFile /\ oldFile = 1
    /\ release = 1 /\ running = 1 /\ updateDisabled = TRUE /\ step = "check"
    /\ flags = [dns |-> "off", tunnel |-> TRUE, grace |-> "some"]
    /\ main = "discard" /\ exit = "returned" /\ dnsReady = FALSE
    /\ g = [x \in Goroutines |-> "off"] /\ ctx = "cancelled" /\ graceC = "closed"

ServiceOff ==
    /\ file = Bad /\ watched = TRUE /\ event = FALSE /\ writes = 0
    /\ mgr = "exited" /\ cfg = Nothing /\ todo = NoTodo /\ applied = Nothing
    /\ services = [n \in Names |-> 0] /\ inst = <<>> /\ stop = "open"

AccessOff ==
    /\ cmd = Pair("token", "token") /\ proc = [p \in Procs |-> Fresh("done")]
    /\ orgFile = "none" /\ app = "none" /\ appLock = None /\ orgLock = None
    /\ privKey = None /\ pubKey = None /\ decayed = TRUE /\ overlap = FALSE

Init == \/ part = "tunnel" /\ ProcessInit /\ ServiceOff /\ AccessOff
        \/ part = "service" /\ ServiceInit /\ ProcessOff /\ AccessOff
        \/ part = "access" /\ AccessInit /\ ProcessOff /\ ServiceOff

Next == /\ \/ part = "tunnel" /\ ProcessNext /\ UNCHANGED <<modeVars, accessVars>>
           \/ part = "service" /\ ServiceNext /\ UNCHANGED <<procVars, accessVars>>
           \/ part = "access" /\ AccessNext /\ UNCHANGED <<procVars, modeVars>>
        /\ UNCHANGED part

Spec == /\ Init /\ [][Next]_vars
        /\ ProcessFairness /\ ServiceFairness /\ AccessFairness
=============================================================================
