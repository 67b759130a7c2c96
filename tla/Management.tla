----------------------------- MODULE Management -----------------------------
(***************************************************************************)
(* The log streaming of the management service: the /logs handler of every *)
(* connection, its two goroutines (readEvents and streamLogs), and the     *)
(* logger that feeds the sessions of all of them; with the clients, which  *)
(* are cloudflared tail or the dashboard.                                  *)
(*                                                                         *)
(* A connection stands for its session.  A session's buffer is the number  *)
(* of log events in it; which events its filters and its sampler want is   *)
(* chosen at every Write.  streamLogs is started anew by each start, so a  *)
(* session can have several: streams counts them by where they are.        *)
(***************************************************************************)
EXTENDS Naturals, SequencesExt

CONSTANTS Conns,       \* websocket connections to /logs
          ActorChoices,\* who may open them: a set of functions of Conns
          Tails,       \* the connections of cloudflared tail; the others are
                       \* of the dashboard
          Window,      \* logWindow
          MaxEvents    \* events the dashboard sends on a connection

Events == {"start", "malformed start", "stop"}

VARIABLES actor,      \* of each connection
          client,     \* "idle", "on", "gone"
          left,       \* events the client may still send
          wire,       \* is the websocket open?
          handler,    \* "none", "loop", "listen" (may start), "returned"
          ctx,        \* context of the handler: "open" or "cancelled"
          idle,       \* is the idle timer running?
          reader,     \* readEvents: "off", "read", "returned" or the event it sends
          active,     \* session.active
          listener,   \* events in the session's buffer
          streams,    \* [loop, write]: streamLogs goroutines
          sessions,   \* Logger.sessions
          preempted   \* sessions that canStartStream stopped (history)
mgmtVars == <<actor, client, left, wire, handler, ctx, idle, reader, active,
              listener, streams, sessions, preempted>>

ManagementInit ==
    /\ actor \in ActorChoices
    /\ client = [c \in Conns |-> "idle"]
    /\ left = [c \in Conns |-> IF c \in Tails THEN 1 ELSE MaxEvents]
    /\ wire = [c \in Conns |-> FALSE]
    /\ handler = [c \in Conns |-> "none"]
    /\ ctx = [c \in Conns |-> "open"]
    /\ idle = [c \in Conns |-> FALSE]
    /\ reader = [c \in Conns |-> "off"]
    /\ active = [c \in Conns |-> FALSE]
    /\ listener = [c \in Conns |-> 0]
    /\ streams = [c \in Conns |-> [loop |-> 0, write |-> 0]]
    /\ sessions = <<>>
    /\ preempted = {}

-----------------------------------------------------------------------------
(* The logger.  Write inserts an event into every session it lists, as     *)
(* often as it lists it; a full buffer drops it.                           *)
Listed(c) == Contains(sessions, c)
Streaming(c) == Listed(c) /\ active[c]
ActiveSessions == {c \in Conns : Streaming(c)}
ActiveSession(a) == {c \in ActiveSessions : actor[c] = a}

Copies(c) == Len(SelectSeq(sessions, LAMBDA d : d = c))
Insert(c) == IF listener[c] + Copies(c) > Window THEN Window
             ELSE listener[c] + Copies(c)
Write(wanting) ==
    /\ sessions # <<>>
    /\ listener' = [c \in Conns |-> IF c \in wanting THEN Insert(c)
                                     ELSE listener[c]]
    /\ UNCHANGED <<actor, client, left, wire, handler, ctx, idle, reader, active,
                   streams, sessions, preempted>>
Log == \E wanting \in SUBSET Conns : Write(wanting)

-----------------------------------------------------------------------------
(* The clients.  One gives up before it has a session: tail's filters are  *)
(* invalid, it gets no token or builds no URL, or the token of either      *)
(* client does not carry its claims.                                       *)
GivesUp(c) ==
    /\ client[c] = "idle"
    /\ client' = [client EXCEPT ![c] = "gone"]
    /\ UNCHANGED <<actor, left, wire, handler, ctx, idle, reader, active,
                   listener, streams, sessions, preempted>>

Accept(c) ==
    /\ handler' = [handler EXCEPT ![c] = "loop"]
    /\ idle' = [idle EXCEPT ![c] = TRUE]
    /\ reader' = [reader EXCEPT ![c] = "read"]
Dial(c) ==
    /\ client[c] = "idle"
    /\ client' = [client EXCEPT ![c] = "on"]
    /\ wire' = [wire EXCEPT ![c] = TRUE]
    /\ Accept(c)
    /\ UNCHANGED <<actor, left, ctx, active, listener, streams, sessions,
                   preempted>>

(* tail closes on a signal; either client returns when the server closes.  *)
ClientLeaves(c) ==
    /\ client[c] = "on"
    /\ client' = [client EXCEPT ![c] = "gone"]
    /\ left' = [left EXCEPT ![c] = 0]
    /\ wire' = [wire EXCEPT ![c] = FALSE]
    /\ UNCHANGED <<actor, handler, ctx, idle, reader, active, listener, streams,
                   sessions, preempted>>

(* The context of the request ends with its tunnel connection.             *)
RequestCancelled(c) ==
    /\ handler[c] \in {"loop", "listen"} /\ ctx[c] = "open"
    /\ ctx' = [ctx EXCEPT ![c] = "cancelled"]
    /\ UNCHANGED <<actor, client, left, wire, handler, idle, reader, active,
                   listener, streams, sessions, preempted>>

-----------------------------------------------------------------------------
(* readEvents.                                                             *)
ReadEvent(c) ==
    /\ reader[c] = "read" /\ wire[c] /\ left[c] > 0
    /\ client[c] = "on"
    /\ left' = [left EXCEPT ![c] = @ - 1]
    /\ \E e \in IF c \in Tails THEN {"start"} ELSE Events :
          reader' = [reader EXCEPT ![c] =
                         IF ctx[c] = "cancelled" THEN "returned" ELSE e]
    /\ UNCHANGED <<actor, client, wire, handler, ctx, idle, active,
                   listener, streams, sessions, preempted>>

(* A message that is no known event closes the connection, and so does a   *)
(* read whose context ends.  Neither wakes the handler.                    *)
ReaderReturns(c) ==
    /\ reader' = [reader EXCEPT ![c] = "returned"]
    /\ wire' = [wire EXCEPT ![c] = FALSE]
    /\ UNCHANGED <<actor, client, left, handler, ctx, idle, active,
                   listener, streams, sessions, preempted>>
InvalidMessage(c) ==
    /\ reader[c] = "read" /\ wire[c] /\ ctx[c] = "open"
    /\ client[c] = "on" /\ c \notin Tails /\ left[c] > 0
    /\ ReaderReturns(c)
ReadFails(c) ==
    /\ reader[c] = "read"
    /\ ~wire[c] \/ ctx[c] = "cancelled"
    /\ ReaderReturns(c)

-----------------------------------------------------------------------------
(* The handler: what its return does, deferred calls included.             *)
Returns(c) ==
    /\ handler' = [handler EXCEPT ![c] = "returned"]
    /\ wire' = [wire EXCEPT ![c] = FALSE]
    /\ idle' = [idle EXCEPT ![c] = FALSE]
    /\ ctx' = [ctx EXCEPT ![c] = "cancelled"]
    /\ sessions' = RemoveFirst(sessions, c)
    /\ UNCHANGED <<active, preempted>>

(* canStartStream, under streamingMut: the session of the same actor is    *)
(* stopped, removed and cancelled; any other one is in the way.            *)
(* KeepsOldBug does not cancel the session it replaces.                    *)
KeepsOldBug(c) ==
    /\ sessions' = RemoveFirst(sessions, c)
    /\ active' = [active EXCEPT ![c] = FALSE]
    /\ preempted' = preempted \cup {c}
    /\ UNCHANGED ctx
Preempt(c) ==
    /\ sessions' = RemoveFirst(sessions, c)
    /\ active' = [active EXCEPT ![c] = FALSE]
    /\ preempted' = preempted \cup {c}
    /\ ctx' = [ctx EXCEPT ![c] = "cancelled"]
FirstActive(a) == sessions[CHOOSE i \in DOMAIN sessions :
                     /\ sessions[i] \in ActiveSession(a)
                     /\ \A j \in 1 .. i - 1 : sessions[j] \notin ActiveSession(a)]

InTheWay(c) == ActiveSessions # {} /\ ActiveSession(actor[c]) = {}

StartStreaming(c) ==
    /\ handler[c] = "loop" /\ reader[c] \in {"start", "malformed start"}
    /\ reader' = [reader EXCEPT ![c] = "read"]
    /\ \/ /\ reader[c] = "malformed start" \/ InTheWay(c)
          /\ Returns(c)
       \/ /\ reader[c] = "start" /\ ~InTheWay(c)
          /\ handler' = [handler EXCEPT ![c] = "listen"]
          /\ idle' = [idle EXCEPT ![c] = FALSE]
          /\ IF ActiveSessions = {} THEN UNCHANGED <<sessions, active, ctx, preempted>>
             ELSE Preempt(FirstActive(actor[c]))
          /\ UNCHANGED wire
    /\ UNCHANGED <<actor, client, left, listener, streams>>

(* Listen comes after streamingMut is released.                            *)
Listen(c) ==
    /\ handler[c] = "listen"
    /\ handler' = [handler EXCEPT ![c] = "loop"]
    /\ active' = [active EXCEPT ![c] = TRUE]
    /\ sessions' = Append(sessions, c)
    /\ streams' = [streams EXCEPT ![c].loop = @ + 1]
    /\ UNCHANGED <<actor, client, left, wire, ctx, idle, reader, listener,
                   preempted>>

StopStreaming(c) ==
    /\ handler[c] = "loop" /\ reader[c] = "stop"
    /\ reader' = [reader EXCEPT ![c] = "read"]
    /\ idle' = [idle EXCEPT ![c] = TRUE]
    /\ active' = [active EXCEPT ![c] = FALSE]
    /\ sessions' = RemoveFirst(sessions, c)
    /\ UNCHANGED <<actor, client, left, wire, handler, ctx, listener,
                   streams, preempted>>

(* The handler ends when its context does or when it was idle too long.    *)
HandlerEnds(c) ==
    /\ handler[c] = "loop"
    /\ ctx[c] = "cancelled" \/ idle[c]
    /\ Returns(c)
    /\ UNCHANGED <<actor, client, left, reader, listener, streams>>

-----------------------------------------------------------------------------
(* streamLogs.                                                             *)
StreamTakes(c) ==
    /\ streams[c].loop > 0 /\ active[c] /\ listener[c] > 0
    /\ listener' = [listener EXCEPT ![c] = @ - 1]
    /\ streams' = [streams EXCEPT ![c].loop = @ - 1, ![c].write = @ + 1]
    /\ UNCHANGED <<actor, client, left, wire, handler, ctx, idle, reader, active,
                   sessions, preempted>>

StreamEnds(c) ==
    /\ streams[c].loop > 0
    /\ ~active[c] \/ ctx[c] = "cancelled"
    /\ active' = [active EXCEPT ![c] = FALSE]
    /\ streams' = [streams EXCEPT ![c].loop = @ - 1]
    /\ UNCHANGED <<actor, client, left, wire, handler, ctx, idle, reader,
                   listener, sessions, preempted>>

(* A write that fails ends the stream and the session; the handler is not  *)
(* told.  KeepsSessionBug leaves the session active without a stream.      *)
KeepsSessionBug(c) ==
    /\ streams[c].write > 0
    /\ ~wire[c] \/ ctx[c] = "cancelled"
    /\ streams' = [streams EXCEPT ![c].write = @ - 1]
    /\ UNCHANGED <<actor, client, left, wire, handler, ctx, idle, reader, active,
                   listener, sessions, preempted>>
StreamWriteFails(c) ==
    /\ streams[c].write > 0
    /\ ~wire[c] \/ ctx[c] = "cancelled"
    /\ streams' = [streams EXCEPT ![c].write = @ - 1]
    /\ active' = [active EXCEPT ![c] = FALSE]
    /\ wire' = [wire EXCEPT ![c] = FALSE]
    /\ UNCHANGED <<actor, client, left, handler, ctx, idle, reader,
                   listener, sessions, preempted>>
StreamWrites(c) ==
    /\ streams[c].write > 0 /\ wire[c]
    /\ streams' = [streams EXCEPT ![c].loop = @ + 1, ![c].write = @ - 1]
    /\ UNCHANGED <<actor, client, left, wire, handler, ctx, idle, reader, active,
                   listener, sessions, preempted>>

-----------------------------------------------------------------------------
ClientStep(c) ==
    \/ Dial(c) \/ ClientLeaves(c) \/ ReadEvent(c)
    \/ GivesUp(c)
    \/ RequestCancelled(c) \/ InvalidMessage(c)
HandlerStep(c) == StartStreaming(c) \/ Listen(c) \/ StopStreaming(c)
                  \/ HandlerEnds(c)
StreamStep(c) == StreamTakes(c) \/ StreamEnds(c) \/ StreamWriteFails(c)
                 \/ StreamWrites(c)

ManagementNext ==
    \/ Log
    \/ \E c \in Conns : ClientStep(c) \/ ReadFails(c) \/ HandlerStep(c)
                        \/ StreamStep(c)

(* The goroutines run; the select of the handler takes a ready context     *)
(* after finitely many of the client's events.                             *)
ManagementFairness ==
    \A c \in Conns :
        /\ WF_mgmtVars(StartStreaming(c) \/ Listen(c) \/ StopStreaming(c))
        /\ WF_mgmtVars(HandlerEnds(c))
        /\ WF_mgmtVars(ReadFails(c))
        /\ WF_mgmtVars(StreamStep(c))

ManagementSpec ==
    ManagementInit /\ [][ManagementNext]_mgmtVars /\ ManagementFairness

-----------------------------------------------------------------------------
(* A client that went away gives up the one session there is: the first   *)
(* log event that reaches its buffer makes a write fail, which frees the   *)
(* session, although the handler itself stays until its context ends.      *)
GoneClientFreesSession ==
    \A c \in Conns :
        (~wire[c] /\ Streaming(c) /\ listener[c] > 0) ~> ~Streaming(c)

(* The sessions that the same actor replaced are closed: their handlers    *)
(* return and their websockets are closed.                                 *)
PreemptedIsClosed ==
    preempted # {} ~> \A c \in preempted : handler[c] = "returned" /\ ~wire[c]
=============================================================================
