------------------------------ MODULE Supervisor ------------------------------
(***************************************************************************)
(* supervisor.Supervisor: the goroutine that runs Run and initialize, the  *)
(* tunnel goroutines it starts (startFirstTunnel, startTunnel) and the     *)
(* channels between them.                                                  *)
(*                                                                         *)
(* A tunnel goroutine is inside EdgeTunnelServer.Serve ("serve"), blocked  *)
(* sending a result on the unbuffered tunnelErrors channel (one of         *)
(* Results), or gone ("none").  What Serve does is abstracted to the class *)
(* of error it returns and to whether it registered; module TunnelServer   *)
(* models it.                                                              *)
(* A select of the code is one action per case, each enabled when its      *)
(* channel is ready.                                                       *)
(***************************************************************************)
EXTENDS Integers, Sequences, FiniteSets, Backoff

CONSTANTS
    HAConnections,  \* config.HAConnections
    EdgeCapacity,   \* edgeIPs.AvailableAddrs() when initialize runs
    IsStaticEdge,   \* config.EdgeAddrs is not empty
    MaxRetries,     \* config.Retries
    Nil

ASSUME ConnectionsAssumption ==
    /\ HAConnections \in Nat \ {0}
    /\ EdgeCapacity \in Nat \ {0}

ASSUME OptionsAssumption ==
    /\ MaxRetries \in Nat
    /\ IsStaticEdge \in BOOLEAN

(* initialize lowers HAConnections to the addresses that are available.    *)
Tunnels == IF HAConnections > EdgeCapacity THEN EdgeCapacity ELSE HAConnections

Index == 0 .. Tunnels - 1

ASSUME NilAssumption == Nil \notin Int

(* The classes of error Serve returns that startFirstTunnel and Run tell   *)
(* apart: "retry" are duplicate registrations, dial errors, QUIC timeouts  *)
(* and Unauthorized; "noaddr" is ErrNoAddressesLeft.                       *)
Errors == {"nil", "reconnect", "retry", "noaddr", "other"}

(* What is left of them for the receiver of tunnelErrors.                  *)
Results == {"nil", "reconnect", "failed"}

ResultOf(e) == IF e \in {"nil", "reconnect"} THEN e ELSE "failed"

VARIABLES
    phase,            \* where the supervisor goroutine is
    result,           \* what Run returned
    tunnel,           \* per index: the tunnel goroutine
    link,             \* per index, since its last start: "down", registered
                      \* with the edge ("fused"), connectedSignal "notified"
    isFirst,          \* tunnel 0 runs startFirstTunnel, not startTunnel
    tunnelsConnecting, nextConnectedSignal,
    started,          \* initialize's loop variable i, 0 before the loop
    tunnelsActive, tunnelsWaiting, backoffTimer, backoff, shuttingDown,
    ctxDone,          \* ctx is cancelled
    gracefulShutdown  \* gracefulShutdownC is closed

loopVars == <<tunnelsActive, tunnelsWaiting, backoffTimer, backoff, shuttingDown>>
connectVars == <<tunnelsConnecting, nextConnectedSignal>>
tunnelVars == <<tunnel, link, isFirst>>
envVars == <<ctxDone, gracefulShutdown>>
vars == <<phase, result, started, loopVars, connectVars, tunnelVars, envVars>>

Phases == {"new", "connecting", "cancelled", "starting", "loop", "draining", "returned"}

-----------------------------------------------------------------------------
Init ==
    /\ phase = "new"
    /\ result = "none"
    /\ tunnel = [i \in Index |-> "none"]
    /\ link = [i \in Index |-> "down"]
    /\ isFirst = TRUE
    /\ tunnelsConnecting = {}
    /\ nextConnectedSignal = Nil
    /\ started = 0
    /\ tunnelsActive = 0
    /\ tunnelsWaiting = <<>>
    /\ backoffTimer = FALSE
    /\ backoff = NewBackoff
    /\ shuttingDown = FALSE
    /\ ctxDone = FALSE
    /\ gracefulShutdown = FALSE

(* newConnectedTunnelSignal for every index of S: the last one created is  *)
(* waited for.                                                             *)
NewConnectedTunnelSignals(S, last) ==
    /\ tunnelsConnecting' = tunnelsConnecting \cup S
    /\ nextConnectedSignal' = last

(* waitForNextTunnel(i): wait for any tunnel that is still connecting.     *)
WaitForNextTunnel(i) ==
    /\ tunnelsConnecting' = tunnelsConnecting \ {i}
    /\ IF tunnelsConnecting' = {} THEN nextConnectedSignal' = Nil
       ELSE nextConnectedSignal' \in tunnelsConnecting'

(* go s.startTunnel for every index of S, each with a new signal: a Notify *)
(* still due to the signal of an earlier start reaches nobody.             *)
StartTunnels(S) ==
    /\ tunnel' = [i \in Index |-> IF i \in S THEN "serve" ELSE tunnel[i]]
    /\ link' = [i \in Index |-> IF i \in S THEN "down" ELSE link[i]]
    /\ isFirst' = (isFirst /\ 0 \notin S)

Return(r) == phase' = "returned" /\ result' = r

(* Variants named "...Bug" are the definition that follows them with a     *)
(* plausible mistake; no specification uses them.                          *)
ArmTimerBug ==
    /\ backoffTimer' = (backoffTimer \/ tunnelsWaiting # <<>>)
    /\ backoff' = BackoffTimer(backoff, MaxRetries)

ArmTimer ==
    /\ backoffTimer' = TRUE
    /\ backoff' = IF backoffTimer THEN backoff ELSE BackoffTimer(backoff, MaxRetries)

CountRestartedBug == tunnelsActive' = tunnelsActive + 1

CountRestarted == tunnelsActive' = tunnelsActive + Len(tunnelsWaiting)

ClearWaitingBug == tunnelsWaiting' = tunnelsWaiting

ClearWaiting == tunnelsWaiting' = <<>>

DrainedEarlyBug == TRUE

DrainedLateBug == tunnelsActive < 0

AllDrained == tunnelsActive <= 0

LastTunnel == tunnelsActive' = 0

NoneOutstandingBug == tunnelsWaiting = <<>>

NoneOutstanding == tunnelsConnecting' = {} /\ tunnelsWaiting = <<>>

(* Receiving the error of tunnel i ends its goroutine.                     *)
Receive(i) ==
    /\ tunnel[i] \in Results
    /\ tunnel' = [tunnel EXCEPT ![i] = "none"]

-----------------------------------------------------------------------------
(* initialize                                                              *)

StartFirst ==
    /\ phase = "new"
    /\ phase' = "connecting"
    /\ tunnel' = [tunnel EXCEPT ![0] = "serve"]
    /\ UNCHANGED <<result, started, loopVars, connectVars, link, isFirst, envVars>>

InitCtxDone ==
    /\ phase = "connecting" /\ ctxDone
    /\ phase' = "cancelled"
    /\ UNCHANGED <<result, started, loopVars, connectVars, tunnelVars, envVars>>

InitCancelled ==
    /\ phase = "cancelled"
    /\ Receive(0)
    /\ Return("ctx")
    /\ UNCHANGED <<started, loopVars, connectVars, link, isFirst, envVars>>

InitFailed ==
    /\ phase = "connecting"
    /\ tunnel[0] # "nil"
    /\ Receive(0)
    /\ Return("err")
    /\ UNCHANGED <<started, loopVars, connectVars, link, isFirst, envVars>>

(* The first tunnel ended with no error: initialize returns that nil, and  *)
(* Run enters its loop as if every tunnel had been started.                *)
InitNil ==
    /\ phase = "connecting"
    /\ tunnel[0] = "nil"
    /\ Receive(0)
    /\ phase' = "loop"
    /\ tunnelsActive' = Tunnels
    /\ UNCHANGED <<result, started, tunnelsWaiting, backoffTimer, backoff,
                   shuttingDown, connectVars, link, isFirst, envVars>>

InitEarlyShutdown ==
    /\ phase = "connecting" /\ gracefulShutdown
    /\ Return("nil")
    /\ UNCHANGED <<started, loopVars, connectVars, tunnelVars, envVars>>

InitConnected ==
    /\ phase = "connecting" /\ link[0] = "notified"
    /\ phase' = "starting"
    /\ started' = 1
    /\ UNCHANGED <<result, loopVars, connectVars, tunnelVars, envVars>>

StartNext ==
    /\ phase = "starting" /\ started < Tunnels
    /\ StartTunnels({started})
    /\ NewConnectedTunnelSignals({started}, started)
    /\ started' = started + 1
    /\ UNCHANGED <<phase, result, loopVars, envVars>>

AllStarted ==
    /\ phase = "starting" /\ started >= Tunnels
    /\ phase' = "loop"
    /\ tunnelsActive' = Tunnels
    /\ UNCHANGED <<result, started, tunnelsWaiting, backoffTimer, backoff,
                   shuttingDown, connectVars, tunnelVars, envVars>>

-----------------------------------------------------------------------------
(* The select loop of Run                                                  *)

RunCtxDone ==
    /\ phase = "loop" /\ ctxDone
    /\ phase' = "draining"
    /\ UNCHANGED <<result, started, loopVars, connectVars, tunnelVars, envVars>>

Drain(i) ==
    /\ phase = "draining" /\ tunnelsActive > 0
    /\ Receive(i)
    /\ tunnelsActive' = tunnelsActive - 1
    /\ UNCHANGED <<phase, result, started, tunnelsWaiting, backoffTimer, backoff,
                   shuttingDown, connectVars, link, isFirst, envVars>>

Drained ==
    /\ phase = "draining" /\ AllDrained
    /\ Return("nil")
    /\ UNCHANGED <<started, loopVars, connectVars, tunnelVars, envVars>>

(* A tunnel that closed with a reconnect signal starts again at once.      *)
TunnelReconnects(i) ==
    /\ phase = "loop" /\ tunnel[i] = "reconnect" /\ ~shuttingDown
    /\ StartTunnels({i})
    /\ NewConnectedTunnelSignals({i}, i)
    /\ UNCHANGED <<phase, result, started, loopVars, envVars>>

(* The context is done: no more retries.                                   *)
TunnelFailsCancelled(i) ==
    /\ phase = "loop"
    /\ tunnel[i] = "failed" /\ ~shuttingDown
    /\ ~MayRetry(ctxDone)
    /\ Receive(i)
    /\ tunnelsActive' = tunnelsActive - 1
    /\ UNCHANGED <<phase, result, started, tunnelsWaiting, backoffTimer, backoff,
                   shuttingDown, connectVars, link, isFirst, envVars>>

(* The tunnel waits for the backoff timer, which the first one to wait     *)
(* arms.                                                                   *)
TunnelFails(i) ==
    /\ phase = "loop"
    /\ tunnel[i] = "failed" /\ ~shuttingDown
    /\ MayRetry(ctxDone)
    /\ Receive(i)
    /\ tunnelsActive' = tunnelsActive - 1
    /\ tunnelsWaiting' = Append(tunnelsWaiting, i)
    /\ WaitForNextTunnel(i)
    /\ ArmTimer
    /\ UNCHANGED <<phase, result, started, shuttingDown, link, isFirst, envVars>>

(* The tunnel ended gracefully, or the supervisor is shutting down: Run    *)
(* returns with the last one.                                              *)
TunnelExits(i) ==
    /\ phase = "loop"
    /\ tunnel[i] = "nil" \/ shuttingDown
    /\ Receive(i)
    /\ tunnelsActive' = tunnelsActive - 1
    /\ IF LastTunnel THEN Return("nil") ELSE UNCHANGED <<phase, result>>
    /\ UNCHANGED <<started, tunnelsWaiting, backoffTimer, backoff, shuttingDown,
                   connectVars, link, isFirst, envVars>>

(* Every waiting tunnel starts again.                                      *)
BackoffExpires ==
    LET S == {tunnelsWaiting[k] : k \in 1 .. Len(tunnelsWaiting)}
    IN  /\ phase = "loop" /\ backoffTimer
        /\ backoffTimer' = FALSE
        /\ StartTunnels(S)
        /\ NewConnectedTunnelSignals(S, tunnelsWaiting[Len(tunnelsWaiting)])
        /\ CountRestarted
        /\ ClearWaiting
        /\ UNCHANGED <<phase, result, started, backoff, shuttingDown, envVars>>

TunnelConnected ==
    /\ phase = "loop" /\ nextConnectedSignal # Nil
    /\ link[nextConnectedSignal] = "notified"
    /\ WaitForNextTunnel(nextConnectedSignal)
    /\ backoff' = IF NoneOutstanding
                  THEN SetGracePeriod(backoff) ELSE backoff
    /\ UNCHANGED <<phase, result, started, tunnelsActive, tunnelsWaiting,
                   backoffTimer, shuttingDown, tunnelVars, envVars>>

(* gracefulShutdownC stays ready once closed; only the first receive       *)
(* changes anything.                                                       *)
RunGracefulShutdown ==
    /\ phase = "loop" /\ gracefulShutdown /\ ~shuttingDown
    /\ shuttingDown' = TRUE
    /\ UNCHANGED <<phase, result, started, tunnelsActive, tunnelsWaiting,
                   backoffTimer, backoff, connectVars, tunnelVars, envVars>>

BackoffDeadlinePasses ==
    /\ backoff.deadline = "future"
    /\ backoff' = DeadlinePasses(backoff)
    /\ UNCHANGED <<phase, result, started, tunnelsActive, tunnelsWaiting,
                   backoffTimer, shuttingDown, connectVars, tunnelVars, envVars>>

-----------------------------------------------------------------------------
(* The tunnel goroutines                                                   *)

(* Registration fuses connectedFuse with true.                             *)
Register(i) ==
    /\ tunnel[i] = "serve" /\ link[i] = "down"
    /\ link' = [link EXCEPT ![i] = "fused"]
    /\ UNCHANGED <<phase, result, started, loopVars, connectVars, tunnel, isFirst,
                   envVars>>

(* The goroutine of Serve that awaits the fuse notifies the signal Serve   *)
(* was given.  Serve may have returned by then.                            *)
Notify(i) ==
    /\ link[i] = "fused"
    /\ link' = [link EXCEPT ![i] = "notified"]
    /\ UNCHANGED <<phase, result, started, loopVars, connectVars, tunnel, isFirst,
                   envVars>>

(* Serve returns nil only in a graceful shutdown.  startFirstTunnel calls  *)
(* it again after a transient error; startTunnel never does.               *)
CallsServeAgain(i, e) ==
    /\ i = 0 /\ isFirst
    /\ ~ctxDone
    /\ e = "retry" \/ (e = "noaddr" /\ IsStaticEdge)

ServeReturns(i, e) ==
    /\ tunnel[i] = "serve"
    /\ e = "nil" => gracefulShutdown
    /\ ~CallsServeAgain(i, e)
    /\ tunnel' = [tunnel EXCEPT ![i] = ResultOf(e)]
    /\ UNCHANGED <<phase, result, started, loopVars, connectVars, link, isFirst,
                   envVars>>

FirstTunnelRetries(e) ==
    /\ tunnel[0] = "serve"
    /\ CallsServeAgain(0, e)
    /\ UNCHANGED vars

CancelContext ==
    /\ ~ctxDone
    /\ ctxDone' = TRUE
    /\ UNCHANGED <<phase, result, started, loopVars, connectVars, tunnelVars,
                   gracefulShutdown>>

CloseGracefulShutdown ==
    /\ ~gracefulShutdown
    /\ gracefulShutdown' = TRUE
    /\ UNCHANGED <<phase, result, started, loopVars, connectVars, tunnelVars, ctxDone>>

-----------------------------------------------------------------------------
Initialize ==
    \/ StartFirst \/ InitCtxDone \/ InitCancelled \/ InitFailed \/ InitNil
    \/ InitEarlyShutdown \/ InitConnected \/ StartNext \/ AllStarted

TunnelError(i) ==
    \/ TunnelReconnects(i) \/ TunnelFailsCancelled(i)
    \/ TunnelFails(i) \/ TunnelExits(i)

Run ==
    \/ RunCtxDone \/ Drained \/ BackoffExpires \/ TunnelConnected
    \/ RunGracefulShutdown \/ BackoffDeadlinePasses
    \/ \E i \in Index : Drain(i) \/ TunnelError(i)

Goroutines ==
    \/ \E i \in Index : \/ Register(i)
                        \/ Notify(i)
                        \/ \E e \in Errors : ServeReturns(i, e)
    \/ \E e \in Errors : FirstTunnelRetries(e)

Next == Initialize \/ Run \/ Goroutines \/ CancelContext \/ CloseGracefulShutdown

Spec == Init /\ [][Next]_vars

(* Fairness.  The supervisor goroutine does not stop by itself, and Go's   *)
(* select picks among its ready cases at random, so a case that stays      *)
(* ready is taken.  Serve returns once its context is cancelled or the     *)
(* shutdown has begun; otherwise it may serve for ever.                    *)
StopsServing(i) ==
    /\ ctxDone \/ gracefulShutdown
    /\ \E e \in {"nil", "other"} : ServeReturns(i, e)

Fairness ==
    /\ WF_vars(Initialize)
    /\ WF_vars(RunCtxDone)
    /\ WF_vars(RunGracefulShutdown)
    /\ WF_vars(BackoffExpires)
    /\ WF_vars(Drained)
    /\ \A i \in Index : /\ WF_vars(TunnelError(i))
                        /\ WF_vars(Drain(i))
                        /\ WF_vars(StopsServing(i))

FairSpec == Spec /\ Fairness

-----------------------------------------------------------------------------
(* Type correctness.                                                       *)
TypeOK ==
    /\ phase \in Phases
    /\ result \in {"none", "nil", "err", "ctx"}
    /\ tunnel \in [Index -> {"none", "serve"} \cup Results]
    /\ link \in [Index -> {"down", "fused", "notified"}]
    /\ isFirst \in BOOLEAN
    /\ tunnelsConnecting \subseteq Index
    /\ nextConnectedSignal \in Index \cup {Nil}
    /\ started \in 0 .. Tunnels
    /\ tunnelsActive \in 0 .. Tunnels
    /\ tunnelsWaiting \in Seq(Index)
    /\ backoffTimer \in BOOLEAN
    /\ backoff \in Handlers(MaxRetries)
    /\ shuttingDown \in BOOLEAN
    /\ ctxDone \in BOOLEAN
    /\ gracefulShutdown \in BOOLEAN

Waiting == {tunnelsWaiting[k] : k \in 1 .. Len(tunnelsWaiting)}

Live == {i \in Index : tunnel[i] # "none"}

(* initialize reached its loop.  When it returned a nil error of the first *)
(* tunnel instead, Run waits for tunnels that were never started.          *)
Initialized == started >= 1

NeverStarted == phase \in {"loop", "draining"} /\ ~Initialized

(* tunnelsActive counts the tunnel goroutines that will still send on      *)
(* tunnelErrors: Run neither returns while one is alive nor waits for one  *)
(* that does not exist.                                                    *)
ActiveCountsLive ==
    phase \in {"loop", "draining"} /\ Initialized => tunnelsActive = Cardinality(Live)

(* A tunnel waits for the backoff at most once and never while its         *)
(* goroutine is alive, so no index is ever served by two goroutines.       *)
NoDoubleStart ==
    /\ \A i \in Waiting : tunnel[i] = "none"
    /\ Len(tunnelsWaiting) = Cardinality(Waiting)

(* No tunnel is lost: until a shutdown begins, every tunnel is running or  *)
(* waiting, and if one waits the timer that restarts it is armed.          *)
NoTunnelLost ==
    phase = "loop" /\ ~gracefulShutdown /\ ~ctxDone =>
        /\ Live \cup Waiting = Index
        /\ Waiting # {} => backoffTimer

(* The backoff of the supervisor is only forgiven ("No more tunnels        *)
(* outstanding") when every tunnel that runs has connected since its last  *)
(* start.                                                                  *)
GraceOnlyWhenAllConnected ==
    [][backoff.deadline # "future" /\ backoff'.deadline = "future" =>
         /\ Waiting = {}
         /\ \A i \in Live : link[i] = "notified"]_vars

(* Once its loop was entered Run leaves no tunnel goroutine behind,        *)
(* blocked on tunnelErrors with nobody to receive.                         *)
NoLeakAfterLoop ==
    phase = "returned" /\ result = "nil" /\ Initialized => Live = {}

(* The supervisor's bookkeeping agrees with the goroutines there are: it   *)
(* counts those that live, restarts none twice, forgets none and leaves    *)
(* none behind.                                                            *)
Bookkeeping ==
    TypeOK /\ ActiveCountsLive /\ NoDoubleStart /\ NoTunnelLost /\ NoLeakAfterLoop

(* A cancelled context or a graceful shutdown makes Run return, whatever   *)
(* the tunnels were doing, once initialize reached its loop.               *)
RunStops == (ctxDone \/ gracefulShutdown) ~> (phase = "returned" \/ NeverStarted)

(* A tunnel that failed is served again, unless the supervisor stops.      *)
FailedIsRetried ==
    \A i \in Index :
        (i \in Waiting) ~> (tunnel[i] = "serve" \/ ctxDone \/ phase = "returned")
=============================================================================
