----------------------------- MODULE TunnelServer -----------------------------
(***************************************************************************)
(* EdgeTunnelServer.Serve for every HA connection: one attempt to connect  *)
(* and serve, then the choice of address, backoff and protocol for the     *)
(* next one (ipAddrFallback, protocolFallback, selectNextProtocol).  The   *)
(* supervisor calls Serve again after it returns; the edge addresses       *)
(* themselves are the subject of EdgeAddrs.                                *)
(***************************************************************************)
EXTENDS ConnTracker, Backoff

CONSTANTS
    Selectors,           \* kinds of ProtocolSelector the user may configure
    MaxRetries,          \* config.Retries
    MaxEdgeAddrRetries,  \* config.MaxEdgeAddrRetries
    SpareAddrs           \* whether an unused edge address is always left

ASSUME ServerAssumption ==
    /\ Selectors \subseteq {"static", "default", "remote"}
    /\ MaxRetries \in Nat
    /\ MaxEdgeAddrRetries \in Nat
    /\ SpareAddrs \in BOOLEAN

(* What serveConnection returns:                                           *)
(*   nil          the connection was unregistered in a graceful shutdown   *)
(*   dup          DupConnRegisterTunnelError                               *)
(*   idle         quic.IdleTimeoutError, as ServeReceive returns it        *)
(*   wrappedidle  the same wrapped by acceptStream: not recognised as a     *)
(*                reason to change the address, but QUIC is still broken   *)
(*   dial         edgediscovery.DialError (HTTP2)                          *)
(*   quicdial     EdgeQuicDialError                                        *)
(*   quicblocked  EdgeQuicDialError caused by a timeout or EPERM           *)
(*   register     a registration error the edge says to retry              *)
(*   permanent    one it says not to retry, or HTTP2 with post-quantum     *)
(*   reconnect    ReconnectSignal                                          *)
(*   canceled     context.Canceled                                         *)
(*   other        anything else, a panic included                          *)
DialErrors(p) == IF p = "quic" THEN {"quicdial", "quicblocked", "other"} ELSE {"dial"}

IdleErrors(p) == IF p = "quic" THEN {"idle", "wrappedidle"} ELSE {}

RegisterErrors(p) == {"dup", "register", "permanent", "other"} \cup IdleErrors(p)

ServeErrors(p) == {"reconnect", "other"} \cup IdleErrors(p)

(* serveTunnel's second result.                                            *)
Recoverable(e) == e \notin {"nil", "dup", "permanent", "quicdial", "quicblocked", "canceled"}

(* ipAddrFallback.ShouldGetNewAddress                                      *)
NeedsNewAddress(e) == e \in {"dup", "idle", "dial", "quicdial", "quicblocked"}
ConnectivityError(e) == e \in {"dial", "quicdial", "quicblocked"}

IsQuicBroken(e) == e \in {"idle", "wrappedidle", "quicblocked"}

(* What selectNextProtocol and the callers of Serve see of the error.      *)
CauseOf(e) ==
    CASE e = "nil"       -> "nil"
      [] IsQuicBroken(e) -> "quicbroken"
      [] OTHER           -> "failed"

VARIABLES
    pc,           \* per connection: "idle" outside Serve, "dialing",
                  \* "registered", "unregistering", "retrying"
    protocol, inFallback, backoff,   \* its protocolFallback
    addrRetries,  \* retriesByConnIndex
    cause,        \* the class of the error the attempt ended with
    shouldFallback,
    late,         \* the control stream handler of a lost HTTP2 connection, which
                  \* nothing waits for: "none", or what it has still to do,
                  \* "registering" or "unregistering"; at most one is followed
    returned,     \* what Serve last returned: "nil", "err", "noaddr" or "none"
    selector,     \* the kind of ProtocolSelector configured
    current,      \* the selector's current protocol
    quicWorks,    \* whether the network lets QUIC connections through
    ctxDone, gracefulShutdown

fallbackVars == <<protocol, inFallback, backoff>>
attemptVars == <<addrRetries, cause, shouldFallback, returned, late>>
settings == <<selector, quicWorks>>
envVars == <<settings, current, ctxDone, gracefulShutdown>>
vars == <<pc, fallbackVars, attemptVars, envVars, trackerVars>>

(* ProtocolSelector.Fallback                                               *)
HasFallback == selector # "static" /\ current = "quic"
FallbackProtocol == "http2"

(* A protocol picked by the user is static, the default selector starts    *)
(* with QUIC, the remote one with what it fetched, or HTTP2.               *)
NewProtocolSelector ==
    /\ selector \in Selectors
    /\ current \in (IF selector = "default" THEN {"quic"} ELSE Protocols)

Init ==
    /\ TrackerInit
    /\ NewProtocolSelector
    /\ quicWorks \in BOOLEAN
    /\ pc = [c \in Conns |-> "idle"]
    /\ protocol = [c \in Conns |-> current]
    /\ inFallback = [c \in Conns |-> FALSE]
    /\ backoff = [c \in Conns |-> NewBackoff]
    /\ addrRetries = [c \in Conns |-> 0]
    /\ cause = [c \in Conns |-> "none"]
    /\ shouldFallback = [c \in Conns |-> FALSE]
    /\ returned = [c \in Conns |-> "none"]
    /\ late = [c \in Conns |-> "none"]
    /\ ctxDone = FALSE
    /\ gracefulShutdown = FALSE

(* Serve gets an address and starts to connect, or returns the error.      *)
Serve(c) ==
    /\ pc[c] = "idle" /\ returned[c] # "nil"
    /\ \/ /\ pc' = [pc EXCEPT ![c] = "dialing"]
          /\ returned' = [returned EXCEPT ![c] = "none"]
       \/ /\ ~SpareAddrs
          /\ returned' = [returned EXCEPT ![c] = "noaddr"]
          /\ UNCHANGED pc
    /\ UNCHANGED <<fallbackVars, addrRetries, cause, shouldFallback, late,
                   envVars, trackerVars>>

CanConnect(c) == protocol[c] = "quic" => quicWorks

(* ServeControlStream after the registration RPC succeeded: two Connected  *)
(* events, the first without a protocol, then connectedFuse.Connected().   *)
ResetFallback(c) ==
    /\ backoff' = [backoff EXCEPT ![c] = ResetNow(@)]
    /\ inFallback' = [inFallback EXCEPT ![c] = FALSE]

Registered(c) ==
    /\ pc[c] = "dialing"
    /\ CanConnect(c)
    /\ pc' = [pc EXCEPT ![c] = "registered"]
    /\ SendEvents(<<Plain(c, "connected"), Event(c, "connected", protocol[c])>>)
    /\ ResetFallback(c)
    /\ UNCHANGED <<protocol, attemptVars, envVars>>

(* waitForUnregister saw the shutdown, or the end of the connection.       *)
UnregistersBug(c) ==
    /\ pc[c] = "registered" /\ ~gracefulShutdown
    /\ pc' = [pc EXCEPT ![c] = "unregistering"]
    /\ SendEvents(<<Plain(c, "unregistering")>>)
    /\ UNCHANGED <<fallbackVars, attemptVars, envVars>>

Unregisters(c) ==
    /\ pc[c] = "registered"
    /\ pc' = [pc EXCEPT ![c] = "unregistering"]
    /\ SendEvents(<<Plain(c, "unregistering")>>)
    /\ UNCHANGED <<fallbackVars, attemptVars, envVars>>

(* HTTP2Connection.Serve returns when the connection is lost, its handlers *)
(* notice later: the control stream's may still send its Connected events  *)
(* and reset the shared fallback, and then unregisters.                    *)
LateRegistered(c) ==
    /\ late[c] = "registering"
    /\ late' = [late EXCEPT ![c] = "unregistering"]
    /\ SendEvents(<<Plain(c, "connected"), Event(c, "connected", "http2")>>)
    /\ ResetFallback(c)
    /\ UNCHANGED <<pc, protocol, addrRetries, cause, shouldFallback, returned, envVars>>

LateUnregisters(c) ==
    /\ late[c] = "unregistering"
    /\ late' = [late EXCEPT ![c] = "none"]
    /\ SendEvents(<<Plain(c, "unregistering")>>)
    /\ UNCHANGED <<pc, fallbackVars, addrRetries, cause, shouldFallback, returned, envVars>>

(* The errors an attempt may end with.                                     *)
Outcomes(c) ==
    CASE pc[c] = "dialing" -> DialErrors(protocol[c])
                                \cup (IF CanConnect(c) THEN RegisterErrors(protocol[c]) ELSE {})
                                \cup (IF ctxDone THEN {"canceled"} ELSE {})
      [] pc[c] = "unregistering" ->
           ServeErrors(protocol[c])
             \cup (IF (ctxDone \/ gracefulShutdown) /\ protocol[c] = "quic"
                   THEN {"canceled"} ELSE {})
             \cup (IF gracefulShutdown /\ protocol[c] = "http2" THEN {"nil"} ELSE {})
      [] pc[c] = "registered" /\ protocol[c] = "http2" -> {"other"}
      [] OTHER -> {}

(* What the handler of a connection that ended with e has still to do.     *)
LeftBehind(c, e) ==
    LET handled == protocol[c] = "http2" /\ e = "other"
    IN  CASE handled /\ pc[c] = "registered" -> {"unregistering"}
          [] handled /\ pc[c] = "dialing"    -> {"none", "registering"}
          [] OTHER                           -> {"none"}

AddrRetriesAfter(c, e) ==
    IF ~ConnectivityError(e) THEN addrRetries[c]
    ELSE IF addrRetries[c] >= MaxEdgeAddrRetries THEN 0
    ELSE addrRetries[c] + 1

(* Whether the next attempt may use another protocol.                      *)
FallbackAfterBug(c, e) == Recoverable(e)

FallbackAfter(c, e) ==
    IF ConnectivityError(e) THEN addrRetries[c] >= MaxEdgeAddrRetries ELSE Recoverable(e)

(* serveTunnel returns.  An address that must change and cannot ends Serve *)
(* with ErrNoAddressesLeft, a cancelled context with the error; otherwise  *)
(* Serve announces the reconnection and waits for the backoff timer.       *)
ServeTunnelReturns(c, e) ==
    /\ e \in Outcomes(c)
    /\ addrRetries' = [addrRetries EXCEPT ![c] = AddrRetriesAfter(c, e)]
    /\ \/ late[c] = "none" /\ \E l \in LeftBehind(c, e) : late' = [late EXCEPT ![c] = l]
       \/ late[c] # "none" /\ "none" \in LeftBehind(c, e) /\ UNCHANGED late
    /\ \/ /\ NeedsNewAddress(e) /\ ~SpareAddrs
          /\ pc' = [pc EXCEPT ![c] = "idle"]
          /\ returned' = [returned EXCEPT ![c] = "noaddr"]
          /\ SendEvents(<<Plain(c, "disconnected")>>)
          /\ UNCHANGED <<cause, shouldFallback, backoff>>
       \/ /\ ~MayRetry(ctxDone)
          /\ pc' = [pc EXCEPT ![c] = "idle"]
          /\ returned' = [returned EXCEPT ![c] = IF e = "nil" THEN "nil" ELSE "err"]
          /\ SendEvents(<<Plain(c, "disconnected")>>)
          /\ UNCHANGED <<cause, shouldFallback, backoff>>
       \/ /\ MayRetry(ctxDone)
          /\ pc' = [pc EXCEPT ![c] = "retrying"]
          /\ cause' = [cause EXCEPT ![c] = CauseOf(e)]
          /\ shouldFallback' = [shouldFallback EXCEPT ![c] = FallbackAfter(c, e)]
          /\ backoff' = [backoff EXCEPT ![c] = BackoffTimer(@, MaxRetries)]
          /\ SendEvents(<<Plain(c, "disconnected"), Plain(c, "reconnecting")>>)
          /\ UNCHANGED returned
    /\ UNCHANGED <<protocol, inFallback, envVars>>

Leave(c, result) ==
    /\ pc[c] = "retrying"
    /\ pc' = [pc EXCEPT ![c] = "idle"]
    /\ returned' = [returned EXCEPT ![c] = result]
    /\ cause' = [cause EXCEPT ![c] = "none"]
    /\ shouldFallback' = [shouldFallback EXCEPT ![c] = FALSE]
    /\ UNCHANGED <<addrRetries, late, envVars, trackerVars>>

RetryCancelled(c) == ctxDone /\ Leave(c, "err") /\ UNCHANGED fallbackVars

RetryShutdownBug(c) == (gracefulShutdown \/ ctxDone) /\ Leave(c, "nil") /\ UNCHANGED fallbackVars

RetryShutdown(c) == gracefulShutdown /\ Leave(c, "nil") /\ UNCHANGED fallbackVars

(* selectNextProtocol                                                      *)
GivesUpProtocol(c) ==
    ReachedMaxRetries(backoff[c], MaxRetries) \/ (HasFallback /\ cause[c] = "quicbroken")

SwitchesToFallbackBug(c) == GivesUpProtocol(c) /\ protocol[c] # FallbackProtocol

SwitchesToFallback(c) ==
    GivesUpProtocol(c) /\ HasFallback /\ protocol[c] # FallbackProtocol

FollowsSelectorBug(c) == ~GivesUpProtocol(c)

FollowsSelector(c) == ~GivesUpProtocol(c) /\ ~inFallback[c]

SelectNextProtocol(c) ==
    IF SwitchesToFallback(c)
    THEN /\ backoff' = [backoff EXCEPT ![c] = ResetNow(@)]
         /\ protocol' = [protocol EXCEPT ![c] = FallbackProtocol]
         /\ inFallback' = [inFallback EXCEPT ![c] = TRUE]
    ELSE /\ protocol' = [protocol EXCEPT ![c] = IF FollowsSelector(c) THEN current ELSE @]
         /\ UNCHANGED <<backoff, inFallback>>

(* The backoff timer fires.  "If a single connection has connected with    *)
(* the current protocol" there is no fallback.                             *)
MayFallBack(c) == shouldFallback[c] /\ ~HasConnectedWith(current)

RetryTimer(c) ==
    /\ Leave(c, IF cause[c] = "nil" THEN "nil" ELSE "err")
    /\ IF MayFallBack(c) THEN SelectNextProtocol(c) ELSE UNCHANGED fallbackVars

(* remoteProtocolSelector.Current() fetched another protocol after its TTL.*)
SelectorRefreshes ==
    /\ selector = "remote"
    /\ current' \in Protocols \ {current}
    /\ UNCHANGED <<pc, fallbackVars, attemptVars, settings, ctxDone,
                   gracefulShutdown, trackerVars>>

Dispatch ==
    /\ DispatchEvent
    /\ UNCHANGED <<pc, fallbackVars, attemptVars, envVars>>

CancelContext ==
    /\ ~ctxDone /\ ctxDone' = TRUE
    /\ UNCHANGED <<pc, fallbackVars, attemptVars, settings, current,
                   gracefulShutdown, trackerVars>>

CloseGracefulShutdown ==
    /\ ~gracefulShutdown /\ gracefulShutdown' = TRUE
    /\ UNCHANGED <<pc, fallbackVars, attemptVars, settings, current, ctxDone,
                   trackerVars>>

Next ==
    \/ \E c \in Conns :
         \/ Serve(c) \/ Registered(c) \/ Unregisters(c)
         \/ LateRegistered(c) \/ LateUnregisters(c)
         \/ \E e \in Outcomes(c) : ServeTunnelReturns(c, e)
         \/ RetryCancelled(c) \/ RetryShutdown(c) \/ RetryTimer(c)
    \/ SelectorRefreshes \/ Dispatch \/ CancelContext \/ CloseGracefulShutdown

Spec == Init /\ [][Next]_vars

(* Fairness.  Attempts end (dialling and registering have timeouts, and a  *)
(* cancelled context or a shutdown ends a connection), timers fire, and    *)
(* the supervisor calls Serve again.                                       *)
Fairness ==
    \A c \in Conns :
        /\ WF_vars(Serve(c))
        /\ WF_vars(pc[c] # "registered" /\ \E e \in Outcomes(c) : ServeTunnelReturns(c, e))
        /\ WF_vars((ctxDone \/ gracefulShutdown) /\ Unregisters(c))
        /\ WF_vars(RetryTimer(c))

FairSpec == Spec /\ Fairness

-----------------------------------------------------------------------------
(* Type correctness.                                                       *)
TypeOK ==
    /\ TrackerTypeOK
    /\ pc \in [Conns -> {"idle", "dialing", "registered", "unregistering", "retrying"}]
    /\ protocol \in [Conns -> Protocols]
    /\ inFallback \in [Conns -> BOOLEAN]
    /\ backoff \in [Conns -> Handlers(MaxRetries)]
    /\ addrRetries \in [Conns -> 0 .. MaxEdgeAddrRetries]
    /\ cause \in [Conns -> {"none", "nil", "quicbroken", "failed"}]
    /\ shouldFallback \in [Conns -> BOOLEAN]
    /\ late \in [Conns -> {"none", "registering", "unregistering"}]
    /\ returned \in [Conns -> {"none", "nil", "err", "noaddr"}]
    /\ selector \in Selectors
    /\ current \in Protocols
    /\ quicWorks \in BOOLEAN
    /\ ctxDone \in BOOLEAN
    /\ gracefulShutdown \in BOOLEAN

(* A connection marked as being in fallback really uses the fallback       *)
(* protocol, so following the selector again is what ends the fallback.    *)
FallbackIsHTTP2 == \A c \in Conns : inFallback[c] => protocol[c] = FallbackProtocol

(* Serve returns nil only in a graceful shutdown: the supervisor takes nil *)
(* as the end of the tunnel and does not restart it.                       *)
NilOnlyOnShutdown == \A c \in Conns : returned[c] = "nil" => gracefulShutdown

(* What Serve leaves behind for its next call and for the supervisor is    *)
(* coherent: the fallback it is in, and the nil it returned.               *)
ServeSound == TypeOK /\ FallbackIsHTTP2 /\ NilOnlyOnShutdown

(* Once every event sent has been dispatched and none was dropped, the     *)
(* tracker counts no connection that is not registered: the readiness      *)
(* endpoint does not keep on answering 200 for a tunnel that is down.      *)
Settled == events = <<>> /\ ~dropped /\ \A c \in Conns : late[c] = "none"

ReadyIsHonest ==
    Settled => \A c \in Conns : connectionInfo[c].isConnected => pc[c] = "registered"

(* A connection falls back only after its retries ran out or QUIC proved  *)
(* broken, and otherwise only follows the selector: "If the user picks a   *)
(* protocol, then we stick to it no matter what".                          *)
SwitchNeedsReason ==
    [][\A c \in Conns : protocol'[c] # protocol[c] =>
         /\ selector # "static"
         /\ \/ protocol'[c] = current
            \/ cause[c] = "quicbroken" \/ backoff[c].retries = MaxRetries]_vars

(* Where QUIC is blocked every connection that nobody pinned to it ends up *)
(* trying HTTP2.                                                           *)
BlockedQuicFallsBack ==
    selector = "default" /\ ~quicWorks => \A c \in Conns :
        <>(protocol[c] = "http2" \/ ctxDone \/ gracefulShutdown)

(* Serve returns after a cancellation or a graceful shutdown, which is     *)
(* what the supervisor relies on to stop.                                  *)
ServeStops == \A c \in Conns : (ctxDone \/ gracefulShutdown) ~> (pc[c] = "idle")
=============================================================================
