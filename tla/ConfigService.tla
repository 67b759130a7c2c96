---------------------------- MODULE ConfigService ----------------------------
(***************************************************************************)
(* What the edge and the requests may rely on: a tunnel serves one version *)
(* of its configuration at a time, moves only to newer ones, and once it   *)
(* has closed its origins it does not serve another.                       *)
(***************************************************************************)
EXTENDS Integers

CONSTANT MaxVersion

Versions == -1 .. MaxVersion

VARIABLES
    serving,  \* the version a new request is served with
    closed    \* the origins were told to stop

Init == serving = -1 /\ closed = FALSE

Update ==
    /\ ~closed
    /\ serving' \in {v \in Versions : v > serving}
    /\ UNCHANGED closed

Close == ~closed /\ closed' = TRUE /\ UNCHANGED serving

Next == Update \/ Close

Spec == Init /\ [][Next]_<<serving, closed>>
=============================================================================
