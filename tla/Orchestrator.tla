----------------------------- MODULE Orchestrator -----------------------------
(***************************************************************************)
(* orchestration.Orchestrator: every HA connection may deliver a new       *)
(* configuration at any time, in any order and more than once; requests    *)
(* take the current proxy without a lock; the process may shut down in the *)
(* middle of an update.                                                    *)
(*                                                                         *)
(* A configuration is identified with its version.  Each attempt to apply  *)
(* one makes a proxyShutdownC channel of its own: a generation, numbered   *)
(* by a counter.                                                           *)
(***************************************************************************)
EXTENDS Integers, FiniteSets

CONSTANTS
    Updaters,      \* concurrent callers of UpdateConfig
    MaxVersion,    \* the newest version the edge sends
    WarpVersions,  \* the versions that enable WARP routing
    Generations,   \* bound: no update arrives after that many attempts to start
    Nil

ASSUME OrchestratorAssumption ==
    /\ MaxVersion \in Nat
    /\ Generations \in Nat
    /\ Nil \notin Nat
    /\ Nil \notin Updaters

Versions == -1 .. MaxVersion

VARIABLES
    pc,                  \* where each UpdateConfig call is
    version,             \* its argument
    gen,                 \* the generation it is starting
    lock,                \* who holds o.lock, or Nil
    currentVersion,
    config,              \* o.config, as the version it came from
    proxy,               \* o.proxy: its generation and version
    warpRoutingEnabled,
    proxyShutdownC,      \* the generation whose channel o.proxyShutdownC is, or Nil
    running,             \* generations whose origins were started and not stopped
    abandoned,           \* generations that failed half-way: nothing stops their origins
    nextGen,
    shutdownC,           \* closed
    lastProxyClosed      \* waitToCloseLastProxy has returned

callVars == <<pc, version, gen>>
servedVars == <<config, proxy, warpRoutingEnabled>>
originVars == <<proxyShutdownC, running, abandoned, nextGen>>
vars == <<callVars, lock, currentVersion, servedVars, originVars, shutdownC, lastProxyClosed>>

PCs == {"idle", "called", "locked", "starting", "storing", "configuring", "closing"}

(* "Lowest possible version, any remote configuration will have version    *)
(* higher than this".                                                      *)
InitialVersion == -1

(* NewOrchestrator has applied the local configuration.                    *)
Init ==
    /\ pc = [u \in Updaters |-> "idle"]
    /\ version = [u \in Updaters |-> InitialVersion]
    /\ gen = [u \in Updaters |-> 0]
    /\ lock = Nil
    /\ currentVersion = InitialVersion
    /\ config = InitialVersion
    /\ proxy = [gen |-> 0, version |-> InitialVersion]
    /\ warpRoutingEnabled = (InitialVersion \in WarpVersions)
    /\ proxyShutdownC = 0
    /\ running = {0}
    /\ abandoned = {}
    /\ nextGen = 1
    /\ shutdownC = FALSE
    /\ lastProxyClosed = FALSE

(* An update arrives over some connection.                                 *)
Receive(u, v) ==
    /\ pc[u] = "idle" /\ nextGen <= Generations
    /\ pc' = [pc EXCEPT ![u] = "called"]
    /\ version' = [version EXCEPT ![u] = v]
    /\ UNCHANGED <<gen, lock, currentVersion, servedVars, originVars, shutdownC, lastProxyClosed>>

NewerBug(u) == TRUE

Newer(u) == version[u] > currentVersion

(* UpdateConfig takes the lock.  A version that is not newer is answered   *)
(* with currentVersion and changes nothing.                                *)
Lock(u) ==
    /\ pc[u] = "called" /\ lock = Nil
    /\ IF Newer(u)
       THEN lock' = u /\ pc' = [pc EXCEPT ![u] = "locked"]
       ELSE pc' = [pc EXCEPT ![u] = "idle"] /\ UNCHANGED lock
    /\ UNCHANGED <<version, gen, currentVersion, servedVars, originVars, shutdownC, lastProxyClosed>>

Unlock(u) ==
    /\ lock' = Nil
    /\ pc' = [pc EXCEPT ![u] = "idle"]

(* The configuration does not deserialize, or updateIngress finds that     *)
(* cloudflared has already shut down.                                      *)
Reject(u) ==
    /\ pc[u] = "locked"
    /\ Unlock(u)
    /\ UNCHANGED <<version, gen, currentVersion, servedVars, originVars, shutdownC, lastProxyClosed>>

(* updateIngress passes its check of shutdownC.                            *)
NotShutdownBug == TRUE

NotShutdown == ~shutdownC

BeginUpdateIngress(u) ==
    /\ pc[u] = "locked" /\ NotShutdown
    /\ pc' = [pc EXCEPT ![u] = "starting"]
    /\ UNCHANGED <<version, gen, lock, currentVersion, servedVars, originVars, shutdownC, lastProxyClosed>>

(* StartOrigins, which stops at the first origin that fails: the ones      *)
(* before it were given a channel that nobody will close.                  *)
StartOriginsFails(u) ==
    /\ pc[u] = "starting"
    /\ abandoned' \in {abandoned, abandoned \cup {nextGen}}
    /\ nextGen' = nextGen + 1
    /\ Unlock(u)
    /\ UNCHANGED <<version, gen, currentVersion, servedVars, proxyShutdownC, running,
                   shutdownC, lastProxyClosed>>

StartOrigins(u) ==
    /\ pc[u] = "starting"
    /\ gen' = [gen EXCEPT ![u] = nextGen]
    /\ running' = running \cup {nextGen}
    /\ nextGen' = nextGen + 1
    /\ pc' = [pc EXCEPT ![u] = "storing"]
    /\ UNCHANGED <<version, lock, currentVersion, servedVars, proxyShutdownC, abandoned,
                   shutdownC, lastProxyClosed>>

(* o.proxy.Store: from here on requests use the new proxy.                 *)
StoreProxy(u) ==
    /\ pc[u] = "storing"
    /\ proxy' = [gen |-> gen[u], version |-> version[u]]
    /\ pc' = [pc EXCEPT ![u] = "configuring"]
    /\ UNCHANGED <<version, gen, lock, currentVersion, config, warpRoutingEnabled, originVars,
                   shutdownC, lastProxyClosed>>

(* What a request is served with; it takes no lock.                        *)
GetOriginProxy == proxy

(* o.config and warpRoutingEnabled.                                        *)
WarpAfterBug(u) == warpRoutingEnabled \/ version[u] \in WarpVersions

WarpAfter(u) == version[u] \in WarpVersions

StoreConfig(u) ==
    /\ pc[u] = "configuring"
    /\ config' = version[u]
    /\ warpRoutingEnabled' = WarpAfter(u)
    /\ pc' = [pc EXCEPT ![u] = "closing"]
    /\ UNCHANGED <<version, gen, lock, currentVersion, proxy, originVars, shutdownC, lastProxyClosed>>

(* The previous channel is closed, which stops the previous origins, then  *)
(* UpdateConfig records the version and returns.                           *)
ToCloseBug(u) == {gen[u]}

KeepsPreviousBug(u) == {}

ToClose(u) == {proxyShutdownC} \ {Nil}

ClosePrevious(u) ==
    /\ pc[u] = "closing"
    /\ running' = running \ ToClose(u)
    /\ proxyShutdownC' = gen[u]
    /\ currentVersion' = version[u]
    /\ Unlock(u)
    /\ UNCHANGED <<version, gen, servedVars, abandoned, nextGen, shutdownC, lastProxyClosed>>

Shutdown ==
    /\ ~shutdownC /\ shutdownC' = TRUE
    /\ UNCHANGED <<callVars, lock, currentVersion, servedVars, originVars, lastProxyClosed>>

(* waitToCloseLastProxy                                                    *)
WaitToCloseLastProxy ==
    /\ shutdownC /\ ~lastProxyClosed /\ lock = Nil
    /\ running' = running \ {proxyShutdownC}
    /\ proxyShutdownC' = Nil
    /\ lastProxyClosed' = TRUE
    /\ UNCHANGED <<callVars, lock, currentVersion, servedVars, abandoned, nextGen, shutdownC>>

UpdateStep(u) ==
    \/ Lock(u) \/ Reject(u) \/ BeginUpdateIngress(u) \/ StartOriginsFails(u)
    \/ StartOrigins(u) \/ StoreProxy(u) \/ StoreConfig(u) \/ ClosePrevious(u)

Next ==
    \/ \E u \in Updaters : UpdateStep(u) \/ \E v \in Versions : Receive(u, v)
    \/ Shutdown \/ WaitToCloseLastProxy

Spec == Init /\ [][Next]_vars

(* The lock's holder runs on; a Go mutex does not starve a waiter.         *)
Fairness ==
    /\ \A u \in Updaters : WF_vars(lock = u /\ UpdateStep(u))
    /\ SF_vars(WaitToCloseLastProxy)

FairSpec == Spec /\ Fairness

-----------------------------------------------------------------------------
(* Type correctness.                                                       *)
TypeOK ==
    /\ pc \in [Updaters -> PCs]
    /\ version \in [Updaters -> Versions]
    /\ gen \in [Updaters -> Nat]
    /\ lock \in Updaters \cup {Nil}
    /\ currentVersion \in Versions
    /\ config \in Versions
    /\ proxy \in [gen : Nat, version : Versions]
    /\ warpRoutingEnabled \in BOOLEAN
    /\ proxyShutdownC \in Nat \cup {Nil}
    /\ running \subseteq Nat
    /\ abandoned \subseteq Nat
    /\ nextGen \in Nat
    /\ shutdownC \in BOOLEAN
    /\ lastProxyClosed \in BOOLEAN

(* GetOriginProxy takes no lock, and still never returns a proxy whose     *)
(* origins were already told to stop, whatever an update is doing: the new *)
(* proxy is stored before the previous one is closed.                      *)
ServedProxyIsRunning == ~lastProxyClosed => GetOriginProxy.gen \in running

(* proxyShutdownC is never a closed channel, so neither UpdateConfig nor   *)
(* waitToCloseLastProxy closes one twice, which would panic; and no origin *)
(* of an applied configuration outlives its successor's update.            *)
OnlyLatestRuns ==
    /\ proxyShutdownC # Nil => proxyShutdownC \in running
    /\ lock = Nil => running = {proxyShutdownC} \ {Nil}

(* Whoever can take the lock (GetConfigJSON, GetVersionedConfigJSON, the   *)
(* next UpdateConfig) finds the version, the configuration, the proxy and  *)
(* the WARP flag of one and the same update.                               *)
ConfigAgrees ==
    lock = Nil =>
        /\ config = currentVersion
        /\ proxy.version = currentVersion
        /\ warpRoutingEnabled = (currentVersion \in WarpVersions)

(* What is served, what runs and what is on record belong together: the    *)
(* proxy a request gets has its origins, no channel is closed twice, and   *)
(* under the lock everything is of one update.                             *)
ServesLatest == TypeOK /\ ServedProxyIsRunning /\ OnlyLatestRuns /\ ConfigAgrees

(* The orchestrator implements the abstract ConfigService: a request sees  *)
(* versions move only forward, and none after the last proxy was closed.   *)
Service == INSTANCE ConfigService WITH serving <- proxy.version, closed <- lastProxyClosed

ImplementsConfigService == Service!Spec

(* After a shutdown every applied configuration's origins stop for good,   *)
(* an update caught in the middle included.                                *)
OriginsStop == [](shutdownC => <>[](running = {}))
=============================================================================
