----------------------------- MODULE H2Heartbeat -----------------------------
(***************************************************************************)
(* The heartbeats of two h2mux muxers: the idle timer of each writer, the  *)
(* pings it sends, PingTimestamp, through which the reader asks the writer *)
(* for an acknowledgement, and the connActive signal.  Other traffic is a  *)
(* frame without content.  The timer fires only after everything that can  *)
(* be delivered or written has been, for it runs for seconds.              *)
(***************************************************************************)
EXTENDS Integers, Sequences

CONSTANTS MaxHeartbeats,   \* MuxerConfig.MaxHeartbeats
          MaxTraffic       \* bound: frames of other traffic in a behaviour

ASSUME HeartbeatAssumption == MaxHeartbeats \in Nat \ {0} /\ MaxTraffic \in Nat

Muxes == {"origin", "edge"}
Far(m) == IF m = "origin" THEN "edge" ELSE "origin"

VARIABLES
    retries,     \* IdleTimer.retries
    stamped,     \* PingTimestamp.ts is nonzero
    ackDue,      \* PingTimestamp.signal is set
    connActive,  \* the connActive signal is set
    pipe,        \* frames on their way from a muxer
    dropped,     \* the writer returned ErrConnectionDropped
    dead,        \* the network delivers nothing any more
    traffic      \* frames of other traffic so far

hbVars == <<retries, stamped, ackDue, connActive, pipe, dropped, dead, traffic>>

HeartbeatInit ==
    /\ retries = [m \in Muxes |-> 0]
    /\ stamped = [m \in Muxes |-> FALSE]
    /\ ackDue = [m \in Muxes |-> FALSE]
    /\ connActive = [m \in Muxes |-> FALSE]
    /\ pipe = [m \in Muxes |-> <<>>]
    /\ dropped = [m \in Muxes |-> FALSE]
    /\ dead = FALSE
    /\ traffic = 0

Emit(m, f) == pipe' = [pipe EXCEPT ![m] = IF dead THEN @ ELSE Append(@, f)]

(* MarkActive after a write.                                               *)
MarkActive(m) == retries' = [retries EXCEPT ![m] = 0]

WriteTraffic(m) ==
    /\ ~dropped[m] /\ traffic < MaxTraffic
    /\ traffic' = traffic + 1
    /\ Emit(m, "DATA")
    /\ MarkActive(m)
    /\ UNCHANGED <<stamped, ackDue, connActive, dropped, dead>>

NoSignalBug(m) == FALSE

(* PingTimestamp.Set signals only when it replaces an unread stamp.        *)
SetSignals(m) == stamped[m]

ReadFrame(m) ==
    /\ ~dead /\ pipe[Far(m)] # <<>>
    /\ pipe' = [pipe EXCEPT ![Far(m)] = Tail(@)]
    /\ connActive' = [connActive EXCEPT ![m] = TRUE]
    /\ IF Head(pipe[Far(m)]) = "PING"
       THEN /\ stamped' = [stamped EXCEPT ![m] = TRUE]
            /\ ackDue' = [ackDue EXCEPT ![m] = @ \/ SetSignals(m)]
       ELSE UNCHANGED <<stamped, ackDue>>
    /\ UNCHANGED <<retries, dropped, dead, traffic>>

WritePingAck(m) ==
    /\ ~dropped[m] /\ ackDue[m]
    /\ ackDue' = [ackDue EXCEPT ![m] = FALSE]
    /\ stamped' = [stamped EXCEPT ![m] = FALSE]
    /\ Emit(m, "PING_ACK")
    /\ MarkActive(m)
    /\ UNCHANGED <<connActive, dropped, dead, traffic>>

SeeActive(m) ==
    /\ ~dropped[m] /\ connActive[m]
    /\ connActive' = [connActive EXCEPT ![m] = FALSE]
    /\ MarkActive(m)
    /\ UNCHANGED <<stamped, ackDue, pipe, dropped, dead, traffic>>

Quiet(m) == ~ackDue[m] /\ ~connActive[m]

(* The idle timer of m fires.                                              *)
Fires(m) == /\ ~dropped[m] /\ Quiet(m)
            /\ dead \/ (Quiet(Far(m)) /\ pipe["origin"] = <<>> /\ pipe["edge"] = <<>>)

Retry(m) ==
    /\ Fires(m) /\ retries[m] < MaxHeartbeats
    /\ retries' = [retries EXCEPT ![m] = @ + 1]
    /\ Emit(m, "PING")
    /\ UNCHANGED <<stamped, ackDue, connActive, dropped, dead, traffic>>

(* Retry returns false: ErrConnectionDropped.                              *)
GiveUp(m) ==
    /\ Fires(m) /\ retries[m] >= MaxHeartbeats
    /\ dropped' = [dropped EXCEPT ![m] = TRUE]
    /\ UNCHANGED <<retries, stamped, ackDue, connActive, pipe, dead, traffic>>

(* The network goes silent (environment).                                  *)
NetworkDies ==
    /\ ~dead
    /\ dead' = TRUE
    /\ pipe' = [m \in Muxes |-> <<>>]
    /\ UNCHANGED <<retries, stamped, ackDue, connActive, dropped, traffic>>

HeartbeatWriter(m) == WritePingAck(m) \/ SeeActive(m) \/ Retry(m) \/ GiveUp(m)

HeartbeatNext == \/ \E m \in Muxes : HeartbeatWriter(m) \/ ReadFrame(m) \/ WriteTraffic(m)
                 \/ NetworkDies

HeartbeatSpec == HeartbeatInit /\ [][HeartbeatNext]_hbVars
                 /\ \A m \in Muxes : WF_hbVars(HeartbeatWriter(m))

(***************************************************************************)
(* A connection whose peer answers is not dropped, although                *)
(* PingTimestamp.Set asks for an acknowledgement only when the ping before *)
(* it is still unread: it takes two heartbeats to get one answer, so this  *)
(* needs MaxHeartbeats of at least 2.                                      *)
(***************************************************************************)
HealthyNotDropped == \A m \in Muxes : dropped[m] => dead
=============================================================================
