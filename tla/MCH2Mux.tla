------------------------------- MODULE MCH2Mux -------------------------------
(***************************************************************************)
(* The phases of an h2mux connection and its Serve, checked in one run: a  *)
(* behaviour is about one of them, and the others stay as they start.      *)
(***************************************************************************)
EXTENDS H2Mux, H2Handshake, H2Heartbeat, H2Serve

MCLoads == { [origin |-> 3, edge |-> 0, fault |-> {"stall"}],
             [origin |-> 2, edge |-> 0, fault |-> {"close"}],
             [origin |-> 1, edge |-> 0, fault |-> {"stall", "timeout", "close"}],
             [origin |-> 0, edge |-> 0, fault |-> {"shutdown", "timeout", "close"}] }

VARIABLE part
vars == <<part, muxVars, hsVars, hbVars, serveVars>>

Plain == [kind |-> "alien"]

Init == /\ part \in {"handshake", "heartbeat", "streams", "serve"}
        /\ MuxInit /\ HandshakeInit /\ HeartbeatInit /\ ServeInit
        /\ part = "handshake" \/ config = [e \in Ends |-> IF e = "b" THEN Plain
                                           ELSE CHOOSE c \in Muxers : TRUE]
        /\ part = "streams" \/ left["origin"][1] = 0

Next == /\ \/ part = "handshake" /\ HandshakeNext /\ UNCHANGED <<muxVars, hbVars, serveVars>>
           \/ part = "heartbeat" /\ HeartbeatNext /\ UNCHANGED <<muxVars, hsVars, serveVars>>
           \/ part = "streams" /\ MuxNext /\ UNCHANGED <<hsVars, hbVars, serveVars>>
           \/ part = "serve" /\ ServeNext /\ UNCHANGED <<muxVars, hsVars, hbVars>>
        /\ UNCHANGED part

(* The writer's loop runs, and its timer goes off.                         *)
Spec == /\ Init /\ [][Next]_vars /\ MuxFairness
        /\ \A m \in Muxes : WF_hbVars(part = "heartbeat" /\ HeartbeatWriter(m))
        /\ \A l \in Loops : WF_serveVars(part = "serve" /\ ServeStep(l))

(***************************************************************************)
(* A dead or closed connection is noticed: heartbeats alone make both ends *)
(* drop it; then the reader and the writer of both muxers end and no       *)
(* OpenStream, Write or Read of a stream is left waiting; and when a loop  *)
(* has ended or its context is done Serve returns, unless a loop ended     *)
(* before its parent was ready to take the result.                         *)
(***************************************************************************)
DeadConnectionNoticed ==
    (dead \/ Dead \/ Ending) ~> /\ dead => \A m \in Muxes : dropped[m]
                                /\ Dead => \A s \in Sides : Released(s)
                                /\ Ending => ServeReturned
=============================================================================
