----------------------------- MODULE ConnTracker -----------------------------
(***************************************************************************)
(* connection.Observer and tunnelstate.ConnTracker: connections send their *)
(* events on a bounded channel and never block, one goroutine dispatches   *)
(* them to the tracker.  The supervisor asks the tracker whether to give   *)
(* up on a protocol, the readiness endpoint whether any connection is up.  *)
(***************************************************************************)
EXTENDS Naturals, Sequences, FiniteSets

CONSTANTS
    Conns,      \* connection indexes
    QueueSize   \* observerChannelBufferSize

ASSUME QueueAssumption == QueueSize \in Nat \ {0}

Protocols == {"http2", "quic"}

(* The zero value of connection.Protocol.                                  *)
ZeroProtocol == "http2"

EventTypes == {"connected", "disconnected", "reconnecting", "unregistering"}

Event(c, type, protocol) == [index |-> c, type |-> type, protocol |-> protocol]

(* Events other than sendConnectedEvent's leave the protocol field unset.  *)
Plain(c, type) == Event(c, type, ZeroProtocol)

VARIABLES
    events,          \* tunnelEventChan
    dropped,         \* history: sendEvent found the channel full
    connectionInfo   \* the tracker's map; "known" is the presence of the key

trackerVars == <<events, dropped, connectionInfo>>

TrackerInit ==
    /\ events = <<>>
    /\ dropped = FALSE
    /\ connectionInfo =
         [c \in Conns |-> [known |-> FALSE, isConnected |-> FALSE, protocol |-> ZeroProtocol]]

TrackerTypeOK ==
    /\ events \in Seq([index : Conns, type : EventTypes, protocol : Protocols])
    /\ Len(events) <= QueueSize
    /\ dropped \in BOOLEAN
    /\ connectionInfo \in
         [Conns -> [known : BOOLEAN, isConnected : BOOLEAN, protocol : Protocols]]

(* sendEvent for each event of es in turn: one that finds the channel full *)
(* is dropped.                                                             *)
SendEvents(es) ==
    LET all  == events \o es
        fits == Len(all) <= QueueSize
    IN  /\ events' = IF fits THEN all ELSE SubSeq(all, 1, QueueSize)
        /\ dropped' = (dropped \/ ~fits)
        /\ UNCHANGED connectionInfo

(* OnTunnelEvent                                                           *)
InfoAfterBug(e) ==
    [connectionInfo[e.index] EXCEPT !.known = TRUE,
                                    !.isConnected = @ \/ e.type = "connected"]

InfoAfter(e) ==
    [known       |-> TRUE,
     isConnected |-> e.type = "connected",
     protocol    |-> IF e.type = "connected" THEN e.protocol
                     ELSE connectionInfo[e.index].protocol]

(* One round of dispatchEvents.                                            *)
DispatchEvent ==
    /\ events # <<>>
    /\ connectionInfo' = [connectionInfo EXCEPT ![Head(events).index] = InfoAfter(Head(events))]
    /\ events' = Tail(events)
    /\ UNCHANGED dropped

HasConnectedWith(protocol) ==
    \E c \in Conns : connectionInfo[c].known /\ connectionInfo[c].protocol = protocol

CountActiveConns == Cardinality({c \in Conns : connectionInfo[c].isConnected})

(* ReadyServer.makeResponse answers 200.                                   *)
Ready == CountActiveConns > 0
=============================================================================
