------------------------------- MODULE Backoff -------------------------------
(***************************************************************************)
(* retry.BackoffHandler as operators on its state b:                       *)
(*   b.retries  - retries consumed so far                                  *)
(*   b.deadline - resetDeadline: "zero", still in the "future", "passed"   *)
(* Durations are left out: a timer that was returned fires some time later.*)
(* Every handler of the tunnel code sets RetryForever, so BackoffTimer     *)
(* never returns nil and only a cancelled context stops the retries.       *)
(***************************************************************************)
EXTENDS Naturals

Deadlines == {"zero", "future", "passed"}

Handlers(maxRetries) == [retries : 0 .. maxRetries, deadline : Deadlines]

NewBackoff == [retries |-> 0, deadline |-> "zero"]

(* BackoffTimer: forget the retries once the grace period is over, then    *)
(* consume one, up to maxRetries.                                          *)
BackoffTimer(b, maxRetries) ==
    LET r == IF b.deadline = "passed" THEN 0 ELSE b.retries
    IN  [retries  |-> IF r >= maxRetries THEN r ELSE r + 1,
         deadline |-> IF b.deadline = "passed" THEN "zero" ELSE b.deadline]

(* GetMaxBackoffDuration's second result.                                  *)
MayRetry(ctxDone) == ~ctxDone

(* SetGracePeriod sets resetDeadline to some time ahead, ResetNow to now.  *)
SetGracePeriod(b) == [b EXCEPT !.deadline = "future"]
ResetNow(b) == [b EXCEPT !.deadline = "passed"]

DeadlinePasses(b) == [b EXCEPT !.deadline = "passed"]

ReachedMaxRetries(b, maxRetries) == b.retries = maxRetries
=============================================================================
