------------------------------ MODULE H2Serve -------------------------------
(***************************************************************************)
(* h2mux.Muxer.Serve: an errgroup of three parents, each of which starts a *)
(* loop (the reader, the writer, the metrics updater) in a goroutine of    *)
(* its own and waits for its result or for Serve's context.  A loop offers *)
(* its result without waiting, so a parent that is not yet at its select   *)
(* misses it.  What the loops do meanwhile is H2Mux's subject.             *)
(***************************************************************************)

Loops == {"reader", "writer", "metrics"}

VARIABLES
    loop,       \* "running", "over" (run has returned) or "offered"
    parent,     \* "starting", "waiting" or "returned"
    abortChan,  \* Muxer.abort was called
    ctxDone     \* Serve's context is done

serveVars == <<loop, parent, abortChan, ctxDone>>

ServeInit ==
    /\ loop = [l \in Loops |-> "running"]
    /\ parent = [l \in Loops |-> "starting"]
    /\ abortChan = FALSE /\ ctxDone = FALSE

EndsAloneBug(l) ==
    /\ loop[l] = "running" /\ (l = "metrics" => abortChan)
    /\ loop' = [loop EXCEPT ![l] = "over"]
    /\ UNCHANGED <<abortChan, parent, ctxDone>>

(* run returns: the reader's and the writer's for an error of their own or *)
(* because of the other's abort, which the metrics updater waits for.      *)
LoopEnds(l) ==
    /\ loop[l] = "running" /\ (l = "metrics" => abortChan)
    /\ loop' = [loop EXCEPT ![l] = "over"]
    /\ abortChan' = (abortChan \/ l # "metrics")
    /\ UNCHANGED <<parent, ctxDone>>

(* select { case ch <- err: default: }                                     *)
Offer(l) ==
    /\ loop[l] = "over"
    /\ loop' = [loop EXCEPT ![l] = "offered"]
    /\ parent' = [parent EXCEPT ![l] = IF @ = "waiting" THEN "returned" ELSE @]
    /\ UNCHANGED <<abortChan, ctxDone>>

(* The parent reaches its select ...                                       *)
ParentWaits(l) ==
    /\ parent[l] = "starting"
    /\ parent' = [parent EXCEPT ![l] = "waiting"]
    /\ UNCHANGED <<loop, abortChan, ctxDone>>

(* ... and leaves it when the context is done, whatever its loop does.     *)
ParentCancelled(l) ==
    /\ parent[l] = "waiting" /\ ctxDone
    /\ parent' = [parent EXCEPT ![l] = "returned"]
    /\ UNCHANGED <<loop, abortChan, ctxDone>>

(* The caller of Serve cancels (environment).                              *)
CancelServe ==
    /\ ~ctxDone
    /\ ctxDone' = TRUE
    /\ UNCHANGED <<loop, parent, abortChan>>

ServeNext == \/ \E l \in Loops : LoopEnds(l) \/ Offer(l) \/ ParentWaits(l) \/ ParentCancelled(l)
             \/ CancelServe

(* A goroutine that can go on does; a loop has to end only after an abort. *)
ServeStep(l) == (abortChan /\ LoopEnds(l)) \/ Offer(l) \/ ParentWaits(l) \/ ParentCancelled(l)

(* The result was offered before the parent was ready to take it.          *)
Missed(l) == loop[l] = "offered" /\ parent[l] = "waiting"

(* Something that should end Serve has happened ...                        *)
Ending == ctxDone \/ \E l \in Loops : loop[l] # "running"

(* ... and errGroup.Wait is over, but for a parent that missed its loop's  *)
(* result: nothing wakes it while the context is not done, and Serve hangs *)
(* although all its loops are over (h2mux.go:332-341).                     *)
ServeReturned == \A l \in Loops : parent[l] = "returned" \/ (Missed(l) /\ ~ctxDone)
=============================================================================
