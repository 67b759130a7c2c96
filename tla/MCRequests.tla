----------------------------- MODULE MCRequests -----------------------------
(***************************************************************************)
(* What one connection to the edge carries: requests, or the UDP sessions  *)
(* the edge registers on it.  A behaviour is about one of the two, and the *)
(* other one stays where it starts.                                        *)
(***************************************************************************)
EXTENDS DatagramSession, Requests

VARIABLE part
mcVars == <<part, vars, reqVars>>

MCInit == /\ Init /\ RequestsInit
          /\ \/ part = "sessions" /\ transport = "quic"
             \/ part = "requests"

MCNext == /\ \/ part = "sessions" /\ Next /\ UNCHANGED reqVars
             \/ part = "requests" /\ RequestsNext /\ UNCHANGED vars
          /\ UNCHANGED part

MCSpec == MCInit /\ [][MCNext]_mcVars /\ Fairness /\ RequestsFairness
=============================================================================
