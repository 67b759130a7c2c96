---------------------------- MODULE MCSupervisor ----------------------------
(***************************************************************************)
(* The supervisor and the address book its connections share.  A behaviour *)
(* is about one of the two, and the other one stays where it starts.       *)
(***************************************************************************)
EXTENDS Supervisor, EdgeAddrs, TLC

CONSTANTS c1, c2, c3, c4, v6a, v6b, v6c, v4a, v4b, v4c

(* Dual stack: one region prefers IPv4, the other IPv6.                    *)
MixedLists == <<<<v4a, v6a, v4c>>, <<v6b, v6c, v4b>>>>

Versions == [a \in {v6a, v6b, v6c} |-> 6] @@ [a \in {v4a, v4b, v4c} |-> 4]

VARIABLE part
mcVars == <<part, vars, edgeVars>>

MCInit == Init /\ EdgeInit /\ part \in {"supervisor", "addresses"}

MCNext == /\ \/ part = "supervisor" /\ Next /\ UNCHANGED edgeVars
             \/ part = "addresses" /\ EdgeNext /\ UNCHANGED vars
          /\ UNCHANGED part

MCSpec == MCInit /\ [][MCNext]_mcVars /\ Fairness
=============================================================================
