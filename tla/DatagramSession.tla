--------------------------- MODULE DatagramSession ---------------------------
(***************************************************************************)
(* The UDP sessions of one QUIC connection: datagramsession.manager, whose *)
(* event loop owns the map of sessions, the goroutines of each Session     *)
(* (Serve and its reader of the origin's socket), and QUICConnection, which*)
(* registers, serves and unregisters them on behalf of the edge.           *)
(***************************************************************************)
EXTENDS Naturals, Sequences, FiniteSets

CONSTANTS
    Sessions,   \* Session objects; each is used for one registration
    IDs,        \* session IDs, chosen by the edge, which may reuse them
    Nil

ASSUME SessionAssumption == Nil \notin Sessions

ASSUME IDsAssumption == IsFiniteSet(IDs) /\ Nil \notin IDs

(* "capacity is 2 because close() and dstToTransport routine in Serve()    *)
(* can write to this channel".                                             *)
CloseChanCapacity == 2

VARIABLES
    pc,        \* of RegisterUdpSession and serveUDPSession, per session
    id,        \* the session's ID
    reader,    \* the goroutine that reads the socket: "none", "reading", "done"
    socket,    \* the socket to the origin: "none", "open", "closed"
    closeChan,
    tracked,   \* the manager's map: ID -> session or Nil
    active,    \* the gauge activeUDPSessions
    gaveUp,    \* history: sessions whose UnregisterSession timed out or was cancelled
    manager,   \* "serving" or "stopped"
    ctxDone,   \* the context of manager.Serve
    connDone   \* the context of the QUIC connection

sessionVars == <<pc, id, reader, socket>>
connVars == <<manager, ctxDone, connDone>>
vars == <<sessionVars, closeChan, tracked, active, gaveUp, connVars>>

PCs == {"unused", "registering", "refused", "serving", "unregistering", "done"}
Reasons == {"remote", "local", "io"}

Init ==
    /\ pc = [s \in Sessions |-> "unused"]
    /\ id = [s \in Sessions |-> Nil]
    /\ reader = [s \in Sessions |-> "none"]
    /\ socket = [s \in Sessions |-> "none"]
    /\ closeChan = [s \in Sessions |-> <<>>]
    /\ tracked = [x \in IDs |-> Nil]
    /\ active = 0
    /\ gaveUp = {}
    /\ manager = "serving"
    /\ ctxDone = FALSE
    /\ connDone = FALSE

(* RegisterUdpSession, the edge's RPC: the socket is dialled first.        *)
RegisterUdpSession(s, x) ==
    /\ pc[s] = "unused" /\ ~connDone
    /\ pc' = [pc EXCEPT ![s] = "registering"]
    /\ id' = [id EXCEPT ![s] = x]
    /\ socket' = [socket EXCEPT ![s] = "open"]
    /\ UNCHANGED <<reader, closeChan, tracked, active, gaveUp, connVars>>

(* manager.RegisterSession gives up after its timeout, or because the RPC  *)
(* was cancelled.  Nothing closes the socket.                              *)
RegisterSessionFails(s) ==
    /\ pc[s] = "registering"
    /\ pc' = [pc EXCEPT ![s] = "refused"]
    /\ UNCHANGED <<id, reader, socket, closeChan, tracked, active, gaveUp, connVars>>

(* The event loop takes the registration, whatever the map holds for the   *)
(* ID, and serveUDPSession starts.                                         *)
RegisterSession(s) ==
    /\ pc[s] = "registering" /\ manager = "serving"
    /\ tracked' = [tracked EXCEPT ![id[s]] = s]
    /\ active' = active + 1
    /\ pc' = [pc EXCEPT ![s] = "serving"]
    /\ reader' = [reader EXCEPT ![s] = "reading"]
    /\ UNCHANGED <<id, socket, closeChan, gaveUp, connVars>>

(* The reader's last read: an error of the origin's, or the socket was     *)
(* closed by Serve.                                                        *)
HasRoom(s) == Len(closeChan[s]) < CloseChanCapacity

ReaderEnds(s) ==
    /\ reader[s] = "reading" /\ HasRoom(s)
    /\ closeChan' = [closeChan EXCEPT ![s] = Append(@, "io")]
    /\ reader' = [reader EXCEPT ![s] = "done"]
    /\ UNCHANGED <<pc, id, socket, tracked, active, gaveUp, connVars>>

(* What serveUDPSession does when Serve returned: a session "terminated by *)
(* remote" is taken to be unregistered already.                            *)
AfterServeBug(reason) == "done"

AfterServe(reason) == IF reason = "remote" THEN "done" ELSE "unregistering"

EndsBug(s, reason) ==
    /\ pc[s] = "serving"
    /\ pc' = [pc EXCEPT ![s] = AfterServe(reason)]
    /\ UNCHANGED <<socket, id, reader, tracked, active, gaveUp, connVars>>

Ends(s, reason) ==
    /\ pc[s] = "serving"
    /\ pc' = [pc EXCEPT ![s] = AfterServe(reason)]
    /\ socket' = [socket EXCEPT ![s] = "closed"]
    /\ UNCHANGED <<id, reader, tracked, active, gaveUp, connVars>>

(* waitForCloseCondition                                                   *)
ServeCloses(s) ==
    /\ closeChan[s] # <<>>
    /\ Ends(s, Head(closeChan[s]))
    /\ closeChan' = [closeChan EXCEPT ![s] = Tail(@)]

ServeIdles(s) == Ends(s, "idle") /\ UNCHANGED closeChan

ServeLosesConnection(s) == connDone /\ Ends(s, "ctx") /\ UNCHANGED closeChan

(* unregisterSession in the event loop: whatever session the map holds for *)
(* the ID is forgotten and told to close, a write that may block.          *)
UnregisterBug(x, reason) ==
    IF tracked[x] = Nil
    THEN UNCHANGED <<tracked, closeChan, active>>
    ELSE /\ HasRoom(tracked[x])
         /\ closeChan' = [closeChan EXCEPT ![tracked[x]] = Append(@, reason)]
         /\ active' = active - 1
         /\ UNCHANGED tracked

UnregisterNoCloseBug(x, reason) ==
    IF tracked[x] = Nil
    THEN UNCHANGED <<tracked, closeChan, active>>
    ELSE /\ tracked' = [tracked EXCEPT ![x] = Nil]
         /\ active' = active - 1
         /\ UNCHANGED closeChan

Unregister(x, reason) ==
    IF tracked[x] = Nil
    THEN UNCHANGED <<tracked, closeChan, active>>
    ELSE /\ HasRoom(tracked[x])
         /\ tracked' = [tracked EXCEPT ![x] = Nil]
         /\ closeChan' = [closeChan EXCEPT ![tracked[x]] = Append(@, reason)]
         /\ active' = active - 1

(* closeUDPSession                                                         *)
CloseUDPSession(s) ==
    /\ pc[s] = "unregistering"
    /\ \/ /\ manager = "serving"
          /\ Unregister(id[s], "local")
          /\ UNCHANGED gaveUp
       \/ /\ gaveUp' = gaveUp \cup {s}
          /\ UNCHANGED <<tracked, closeChan, active>>
    /\ pc' = [pc EXCEPT ![s] = "done"]
    /\ UNCHANGED <<id, reader, socket, connVars>>

(* UnregisterUdpSession, the edge's RPC.                                   *)
RemoteReasonBug == "local"

RemoteReason == "remote"

UnregisterUdpSession(x) ==
    /\ manager = "serving"
    /\ tracked[x] # Nil
    /\ Unregister(x, RemoteReason)
    /\ UNCHANGED <<sessionVars, gaveUp, connVars>>

(* shutdownSessions, with byRemote "to skip unregistering from remote".    *)
ToShutDown == {tracked[x] : x \in IDs} \ {Nil}

ManagerStops ==
    /\ manager = "serving" /\ ctxDone
    /\ \A s \in ToShutDown : HasRoom(s)
    /\ manager' = "stopped"
    /\ closeChan' = [s \in Sessions |-> IF s \in ToShutDown THEN Append(closeChan[s], "remote")
                                        ELSE closeChan[s]]
    /\ UNCHANGED <<sessionVars, tracked, active, gaveUp, ctxDone, connDone>>

(* QUICConnection.Serve's context ends and with it the QUIC connection, or *)
(* the other way round when the connection is lost.                        *)
ContextDone ==
    /\ ~ctxDone /\ ctxDone' = TRUE
    /\ UNCHANGED <<sessionVars, closeChan, tracked, active, gaveUp, manager, connDone>>

ConnectionDone ==
    /\ ~connDone /\ connDone' = TRUE
    /\ UNCHANGED <<sessionVars, closeChan, tracked, active, gaveUp, manager, ctxDone>>

Next ==
    \/ \E s \in Sessions :
         \/ \E x \in IDs : RegisterUdpSession(s, x)
         \/ RegisterSessionFails(s) \/ RegisterSession(s)
         \/ ReaderEnds(s) \/ ServeCloses(s) \/ ServeIdles(s) \/ ServeLosesConnection(s)
         \/ CloseUDPSession(s)
    \/ \E x \in IDs : UnregisterUdpSession(x)
    \/ ManagerStops \/ ContextDone \/ ConnectionDone

Spec == Init /\ [][Next]_vars

(* Goroutines run on.  A read of an open socket may block for ever, one of *)
(* a closed socket returns; a call to the manager ends by its timeout.     *)
(* Idleness is not fair: an origin may go on sending.                      *)
Fairness ==
    /\ \A s \in Sessions :
         /\ WF_vars(RegisterSession(s) \/ RegisterSessionFails(s))
         /\ WF_vars(ServeCloses(s) \/ ServeLosesConnection(s))
         /\ WF_vars(socket[s] = "closed" /\ ReaderEnds(s))
         /\ WF_vars(CloseUDPSession(s))
    /\ WF_vars(ManagerStops)
    /\ WF_vars(ctxDone /\ ConnectionDone)
    /\ WF_vars(connDone /\ ContextDone)

FairSpec == Spec /\ Fairness

-----------------------------------------------------------------------------
(* Type correctness.                                                       *)
SessionTypes ==
    /\ pc \in [Sessions -> PCs]
    /\ id \in [Sessions -> IDs \cup {Nil}]
    /\ reader \in [Sessions -> {"none", "reading", "done"}]
    /\ socket \in [Sessions -> {"none", "open", "closed"}]
    /\ closeChan \in [Sessions -> Seq(Reasons)]
    /\ tracked \in [IDs -> Sessions \cup {Nil}]
    /\ gaveUp \subseteq Sessions
    /\ manager \in {"serving", "stopped"}
    /\ ctxDone \in BOOLEAN
    /\ connDone \in BOOLEAN

TypeOK ==
    /\ SessionTypes
    /\ \A s \in Sessions : Len(closeChan[s]) <= CloseChanCapacity
    /\ active \in Nat

(* Two writes are all a closeChan ever gets: neither the event loop, which *)
(* would stall every session of the connection, nor a reader, which would  *)
(* leak, blocks on a full one.                                             *)
CloseChanHasRoom ==
    /\ manager = "serving" => \A x \in IDs : tracked[x] # Nil => HasRoom(tracked[x])
    /\ \A s \in Sessions : reader[s] = "reading" => HasRoom(s)

(* A session that has ended is not left in the map, where it would keep    *)
(* receiving datagrams for a closed socket, unless its UnregisterSession   *)
(* timed out or the connection is going away.                              *)
NoStaleEntry ==
    \A s \in Sessions :
        pc[s] = "done" /\ s \notin gaveUp /\ manager = "serving" => \A x \in IDs : tracked[x] # s

(* No other session of the connection was given the same ID.               *)
OwnsID(s) == \A t \in Sessions \ {s} : id[t] # id[s]

(* A session still serving was never told that this side closed it: only   *)
(* its own closeUDPSession does that, as long as its ID is not reused.     *)
LocalCloseIsOwn ==
    \A s \in Sessions :
        OwnsID(s) /\ (\E i \in 1 .. Len(closeChan[s]) : closeChan[s][i] = "local") =>
            pc[s] # "serving"

(* The manager's map and the closeChans are sound: nobody blocks on a full *)
(* closeChan, no ended session is left in the map, and none is told it     *)
(* closed itself.                                                          *)
SessionsSound == TypeOK /\ CloseChanHasRoom /\ NoStaleEntry /\ LocalCloseIsOwn

(* Once the connection is gone every session ends, with its socket closed  *)
(* and its reader finished.                                                *)
SessionsEnd ==
    \A s \in Sessions :
        (connDone \/ ctxDone) ~>
            \/ pc[s] \in {"unused", "refused"}
            \/ pc[s] = "done" /\ socket[s] = "closed" /\ reader[s] = "done"

(* Manager: "UnregisterSession stops tracking the session and terminates   *)
(* it": a session the manager no longer tracks ends, unless it was merely  *)
(* displaced by another with the same ID.                                  *)
UnregisteredEnds ==
    \A s \in Sessions :
        (pc[s] = "serving" /\ \A x \in IDs : tracked[x] # s) ~> (pc[s] = "done" \/ ~OwnsID(s))
=============================================================================
