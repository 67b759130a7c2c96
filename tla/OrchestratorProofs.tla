-------------------------- MODULE OrchestratorProofs --------------------------
(***************************************************************************)
(* Proofs about Orchestrator, for any set of updaters, any number of       *)
(* versions and any number of updates, and about Ingress, for any          *)
(* configurations, command lines, requests and regular expressions.        *)
(*                                                                         *)
(* The invariant of Orchestrator follows the holder of the lock through    *)
(* UpdateConfig: what is running, what is served and what is recorded at   *)
(* each of its steps.  The one of Ingress says of the rules in use what    *)
(* validateIngress makes sure of.                                          *)
(***************************************************************************)
EXTENDS Orchestrator, Ingress, FiniteSetTheorems, WellFoundedInduction,
        NaturalsInduction, TLAPS

HeldPCs == PCs \ {"idle", "called"}

(* Where the holder of the lock is.                                        *)
Phase == IF lock = Nil THEN "free" ELSE pc[lock]

(* Exactly the holder of the lock is past Lock.                            *)
MutexInv == \A u \in Updaters : pc[u] \in HeldPCs <=> lock = u

(* The channel of the last applied configuration is open until the last    *)
(* proxy is closed, and no update is past its shutdown check after that.   *)
ChannelInv ==
    /\ lastProxyClosed <=> proxyShutdownC = Nil
    /\ lastProxyClosed => shutdownC
    /\ proxyShutdownC # Nil => proxyShutdownC < nextGen
    /\ Phase \in {"starting", "storing", "configuring", "closing"} => ~lastProxyClosed

(* The holder is applying a newer version.                                 *)
NewerInv == lock # Nil => version[lock] > currentVersion

(* The generations that run: the applied one, and the holder's once it has *)
(* started its origins.                                                    *)
RunningInv ==
    IF Phase \in {"storing", "configuring", "closing"}
    THEN running = {proxyShutdownC, gen[lock]} /\ gen[lock] # proxyShutdownC
         /\ gen[lock] < nextGen
    ELSE running = {proxyShutdownC} \ {Nil}

(* The proxy requests get: the applied one until the holder stores its own.*)
ServedInv ==
    IF Phase \in {"configuring", "closing"}
    THEN proxy = [gen |-> gen[lock], version |-> version[lock]]
    ELSE /\ proxy.version = currentVersion
         /\ proxyShutdownC # Nil => proxy.gen = proxyShutdownC

(* The rest of the configuration.                                          *)
RecordedInv ==
    /\ Phase = "closing" => config = version[lock]
                            /\ warpRoutingEnabled = (version[lock] \in WarpVersions)
    /\ Phase \notin {"configuring", "closing"} =>
         config = currentVersion /\ warpRoutingEnabled = (currentVersion \in WarpVersions)

IInv ==
    TypeOK /\ MutexInv /\ ChannelInv /\ NewerInv /\ RunningInv /\ ServedInv /\ RecordedInv

-----------------------------------------------------------------------------
(* The invariant holds when NewOrchestrator returns.                       *)
LEMMA InitInv == Init => IInv
<1> SUFFICES ASSUME Init PROVE IInv
  OBVIOUS
<1>1. TypeOK
  <2>1. InitialVersion \in Versions
    BY OrchestratorAssumption DEF Versions, InitialVersion
  <2>2. warpRoutingEnabled \in BOOLEAN
    <3>1. CASE InitialVersion \in WarpVersions
      BY <3>1 DEF Init
    <3>2. CASE InitialVersion \notin WarpVersions
      BY <3>2 DEF Init
    <3> QED  BY <3>1, <3>2
  <2>3. proxy \in [gen : Nat, version : Versions]
    BY <2>1 DEF Init
  <2>4. proxyShutdownC \in Nat \cup {Nil} /\ running \subseteq Nat /\ nextGen \in Nat
    BY DEF Init
  <2> QED  BY <2>1, <2>2, <2>3, <2>4 DEF Init, TypeOK, PCs
<1>2. Phase = "free"
  BY DEF Init, Phase
<1>3. MutexInv /\ ChannelInv /\ NewerInv /\ RunningInv /\ ServedInv /\ RecordedInv
  BY <1>2, OrchestratorAssumption
     DEF Init, MutexInv, ChannelInv, NewerInv, RunningInv, ServedInv, RecordedInv, HeldPCs, PCs
<1> QED  BY <1>1, <1>3 DEF IInv

(* A call that has not taken the lock yet disturbs nothing.                *)
LEMMA ReceiveInv ==
    ASSUME NEW u \in Updaters, NEW v \in Versions, IInv, Receive(u, v)
    PROVE  IInv'
<1> USE OrchestratorAssumption DEF IInv, TypeOK, MutexInv, HeldPCs, PCs,
                               Receive, servedVars, originVars
<1>1. TypeOK'
  BY DEF Versions
<1>2. MutexInv'
  OBVIOUS
<1>3. ChannelInv'
  BY DEF ChannelInv, Phase
<1>4. NewerInv'
  BY DEF NewerInv, Versions
<1>5. RunningInv'
  BY DEF ChannelInv, RunningInv, Phase
<1>6. ServedInv'
  BY DEF ChannelInv, RunningInv, ServedInv, Phase
<1>7. RecordedInv'
  BY DEF ServedInv, RecordedInv, Phase
<1> QED  BY <1>1, <1>2, <1>3, <1>4, <1>5, <1>6, <1>7

(* Taking the lock, or giving up on a version that is not newer.           *)
LEMMA LockInv ==
    ASSUME NEW u \in Updaters, IInv, Lock(u)
    PROVE  IInv'
<1> USE OrchestratorAssumption DEF IInv, TypeOK, MutexInv, HeldPCs, PCs,
                               Lock, Newer, servedVars, originVars
<1>1. TypeOK'
  BY DEF Versions
<1>2. MutexInv'
  OBVIOUS
<1>3. ChannelInv'
  BY DEF ChannelInv, Phase
<1>4. NewerInv'
  BY DEF NewerInv, Versions
<1>5. RunningInv'
  BY DEF ChannelInv, RunningInv, Phase
<1>6. ServedInv'
  BY DEF ChannelInv, RunningInv, ServedInv, Phase
<1>7. RecordedInv'
  BY DEF ServedInv, RecordedInv, Phase
<1> QED  BY <1>1, <1>2, <1>3, <1>4, <1>5, <1>6, <1>7

(* A rejected update gives the lock back with the state it found.          *)
LEMMA RejectInv ==
    ASSUME NEW u \in Updaters, IInv, Reject(u)
    PROVE  IInv'
<1> USE OrchestratorAssumption DEF IInv, TypeOK, MutexInv, HeldPCs, PCs,
                               Reject, Unlock, servedVars, originVars
<1>1. TypeOK'
  BY DEF Versions
<1>2. MutexInv'
  OBVIOUS
<1>3. ChannelInv'
  BY DEF ChannelInv, Phase
<1>4. NewerInv'
  BY DEF NewerInv, Versions
<1>5. RunningInv'
  BY DEF ChannelInv, RunningInv, Phase
<1>6. ServedInv'
  BY DEF ChannelInv, RunningInv, ServedInv, Phase
<1>7. RecordedInv'
  BY DEF ServedInv, RecordedInv, Phase
<1> QED  BY <1>1, <1>2, <1>3, <1>4, <1>5, <1>6, <1>7

(* The check of shutdownC: the last proxy is not closed yet.               *)
LEMMA BeginUpdateIngressInv ==
    ASSUME NEW u \in Updaters, IInv, BeginUpdateIngress(u)
    PROVE  IInv'
<1> USE OrchestratorAssumption DEF IInv, TypeOK, MutexInv, HeldPCs, PCs,
                               BeginUpdateIngress, NotShutdown, servedVars, originVars
<1>1. TypeOK'
  BY DEF Versions
<1>2. MutexInv'
  OBVIOUS
<1>3. ChannelInv'
  BY DEF ChannelInv, Phase
<1>4. NewerInv'
  BY DEF NewerInv, Versions
<1>5. RunningInv'
  BY DEF ChannelInv, RunningInv, Phase
<1>6. ServedInv'
  BY DEF ChannelInv, RunningInv, ServedInv, Phase
<1>7. RecordedInv'
  BY DEF ServedInv, RecordedInv, Phase
<1> QED  BY <1>1, <1>2, <1>3, <1>4, <1>5, <1>6, <1>7

(* A failed start leaves the applied configuration running.                *)
LEMMA StartOriginsFailsInv ==
    ASSUME NEW u \in Updaters, IInv, StartOriginsFails(u)
    PROVE  IInv'
<1> USE OrchestratorAssumption DEF IInv, TypeOK, MutexInv, HeldPCs, PCs,
                               StartOriginsFails, Unlock, servedVars
<1>1. TypeOK'
  BY DEF Versions
<1>2. MutexInv'
  OBVIOUS
<1>3. ChannelInv'
  BY DEF ChannelInv, Phase
<1>4. NewerInv'
  BY DEF NewerInv, Versions
<1>5. RunningInv'
  BY DEF ChannelInv, RunningInv, Phase
<1>6. ServedInv'
  BY DEF ChannelInv, RunningInv, ServedInv, Phase
<1>7. RecordedInv'
  BY DEF ServedInv, RecordedInv, Phase
<1> QED  BY <1>1, <1>2, <1>3, <1>4, <1>5, <1>6, <1>7

(* A started generation is new, so it is not the applied one.              *)
LEMMA StartOriginsInv ==
    ASSUME NEW u \in Updaters, IInv, StartOrigins(u)
    PROVE  IInv'
<1> USE OrchestratorAssumption DEF IInv, TypeOK, MutexInv, HeldPCs, PCs,
                               StartOrigins, servedVars
<1>1. TypeOK'
  BY DEF Versions
<1>2. MutexInv'
  OBVIOUS
<1>3. ChannelInv'
  BY DEF ChannelInv, Phase
<1>4. NewerInv'
  BY DEF NewerInv, Versions
<1>5. RunningInv'
  BY DEF ChannelInv, RunningInv, Phase
<1>6. ServedInv'
  BY DEF ChannelInv, RunningInv, ServedInv, Phase
<1>7. RecordedInv'
  BY DEF ServedInv, RecordedInv, Phase
<1> QED  BY <1>1, <1>2, <1>3, <1>4, <1>5, <1>6, <1>7

(* The stored proxy is one that runs.                                      *)
LEMMA StoreProxyInv ==
    ASSUME NEW u \in Updaters, IInv, StoreProxy(u)
    PROVE  IInv'
<1> USE OrchestratorAssumption DEF IInv, TypeOK, MutexInv, HeldPCs, PCs,
                               StoreProxy, originVars
<1>1. TypeOK'
  BY DEF Versions
<1>2. MutexInv'
  OBVIOUS
<1>3. ChannelInv'
  BY DEF ChannelInv, Phase
<1>4. NewerInv'
  BY DEF NewerInv, Versions
<1>5. RunningInv'
  BY DEF ChannelInv, RunningInv, Phase
<1>6. ServedInv'
  BY DEF ChannelInv, RunningInv, ServedInv, Phase
<1>7. RecordedInv'
  BY DEF ServedInv, RecordedInv, Phase
<1> QED  BY <1>1, <1>2, <1>3, <1>4, <1>5, <1>6, <1>7

(* The configuration follows the proxy.                                    *)
LEMMA StoreConfigInv ==
    ASSUME NEW u \in Updaters, IInv, StoreConfig(u)
    PROVE  IInv'
<1> USE OrchestratorAssumption DEF IInv, TypeOK, MutexInv, HeldPCs, PCs,
                               StoreConfig, WarpAfter, originVars
<1>1. TypeOK'
  BY DEF Versions
<1>2. MutexInv'
  OBVIOUS
<1>3. ChannelInv'
  BY DEF ChannelInv, Phase
<1>4. NewerInv'
  BY DEF NewerInv, Versions
<1>5. RunningInv'
  BY DEF ChannelInv, RunningInv, Phase
<1>6. ServedInv'
  BY DEF ChannelInv, RunningInv, ServedInv, Phase
<1>7. RecordedInv'
  BY DEF ServedInv, RecordedInv, Phase
<1> QED  BY <1>1, <1>2, <1>3, <1>4, <1>5, <1>6, <1>7

(* Only the previous generation stops, and everything agrees again.        *)
LEMMA ClosePreviousInv ==
    ASSUME NEW u \in Updaters, IInv, ClosePrevious(u)
    PROVE  IInv'
<1> USE OrchestratorAssumption DEF IInv, TypeOK, MutexInv, HeldPCs, PCs,
                               ClosePrevious, ToClose, Unlock, servedVars
<1>1. TypeOK'
  <2>1. version[u] \in Versions /\ gen[u] \in Nat
    OBVIOUS
  <2>2. running' \subseteq Nat
    OBVIOUS
  <2>3. pc' \in [Updaters -> PCs] /\ lock' \in Updaters \cup {Nil}
    OBVIOUS
  <2> QED
    BY <2>1, <2>2, <2>3
<1>2. MutexInv'
  OBVIOUS
<1>3. ChannelInv'
  BY DEF ChannelInv, RunningInv, Phase
<1>4. NewerInv'
  BY DEF NewerInv, Versions
<1>5. RunningInv'
  BY DEF ChannelInv, RunningInv, Phase
<1>6. ServedInv'
  BY DEF ChannelInv, RunningInv, ServedInv, Phase
<1>7. RecordedInv'
  BY DEF ServedInv, RecordedInv, Phase
<1> QED  BY <1>1, <1>2, <1>3, <1>4, <1>5, <1>6, <1>7

(* Closing shutdownC changes nothing else.                                 *)
LEMMA ShutdownInv ==
    ASSUME IInv, Shutdown
    PROVE  IInv'
<1> USE OrchestratorAssumption DEF IInv, TypeOK, MutexInv, HeldPCs, PCs,
                               Shutdown, callVars, servedVars, originVars
<1>1. TypeOK'
  BY DEF Versions
<1>2. MutexInv'
  OBVIOUS
<1>3. ChannelInv'
  BY DEF ChannelInv, Phase
<1>4. NewerInv'
  BY DEF NewerInv, Versions
<1>5. RunningInv'
  BY DEF ChannelInv, RunningInv, Phase
<1>6. ServedInv'
  BY DEF ChannelInv, RunningInv, ServedInv, Phase
<1>7. RecordedInv'
  BY DEF ServedInv, RecordedInv, Phase
<1> QED  BY <1>1, <1>2, <1>3, <1>4, <1>5, <1>6, <1>7

(* The last proxy is closed by the holder of a free lock.                  *)
LEMMA WaitToCloseLastProxyInv ==
    ASSUME IInv, WaitToCloseLastProxy
    PROVE  IInv'
<1> USE OrchestratorAssumption DEF IInv, TypeOK, MutexInv, HeldPCs, PCs,
                               WaitToCloseLastProxy, callVars, servedVars
<1>1. TypeOK'
  BY DEF Versions
<1>2. MutexInv'
  OBVIOUS
<1>3. ChannelInv'
  BY DEF ChannelInv, Phase
<1>4. NewerInv'
  BY DEF NewerInv, Versions
<1>5. RunningInv'
  BY DEF ChannelInv, RunningInv, Phase
<1>6. ServedInv'
  BY DEF ChannelInv, RunningInv, ServedInv, Phase
<1>7. RecordedInv'
  BY DEF ServedInv, RecordedInv, Phase
<1> QED  BY <1>1, <1>2, <1>3, <1>4, <1>5, <1>6, <1>7

(* Every step preserves the invariant.                                     *)
LEMMA StepInv == IInv /\ [Next]_vars => IInv'
<1> SUFFICES ASSUME IInv, [Next]_vars PROVE IInv'
  OBVIOUS
<1>1. ASSUME NEW u \in Updaters, UpdateStep(u) PROVE IInv'
  BY <1>1, LockInv, RejectInv, BeginUpdateIngressInv, StartOriginsFailsInv, StartOriginsInv,
     StoreProxyInv, StoreConfigInv, ClosePreviousInv DEF UpdateStep
<1>2. ASSUME NEW u \in Updaters, NEW v \in Versions, Receive(u, v) PROVE IInv'
  BY <1>2, ReceiveInv
<1>3. CASE Shutdown
  BY <1>3, ShutdownInv
<1>4. CASE WaitToCloseLastProxy
  BY <1>4, WaitToCloseLastProxyInv
<1>5. CASE UNCHANGED vars
  BY <1>5 DEF vars, callVars, servedVars, originVars, IInv, TypeOK, MutexInv, ChannelInv,
              NewerInv, RunningInv, ServedInv, RecordedInv, Phase
<1> QED  BY <1>1, <1>2, <1>3, <1>4, <1>5 DEF Next

(* The invariant holds in every reachable state.                           *)
LEMMA Invariant == Spec => []IInv
  BY InitInv, StepInv, PTL DEF Spec

(* TypeOK: the orchestrator's state keeps its types.                       *)
THEOREM TypeCorrect == Spec => []TypeOK
<1>1. IInv => TypeOK
  BY DEF IInv
<1> QED  BY <1>1, Invariant, PTL

(* ServedProxyIsRunning: a request, which takes no lock, never gets a      *)
(* proxy whose origins were stopped before the process shuts down.         *)
THEOREM ServedRuns == Spec => []ServedProxyIsRunning
<1>1. IInv => ServedProxyIsRunning
  BY OrchestratorAssumption
     DEF IInv, TypeOK, ServedProxyIsRunning, GetOriginProxy, ChannelInv, RunningInv, ServedInv, Phase
<1> QED  BY <1>1, Invariant, PTL

(* OnlyLatestRuns: no channel is closed twice, and applied configurations  *)
(* do not outlive their successors.                                        *)
THEOREM LatestRuns == Spec => []OnlyLatestRuns
<1>1. IInv => OnlyLatestRuns
  BY OrchestratorAssumption DEF IInv, TypeOK, OnlyLatestRuns, ChannelInv, RunningInv, Phase
<1> QED  BY <1>1, Invariant, PTL

(* ConfigAgrees: whoever takes the lock finds one update's configuration.  *)
THEOREM Agreement == Spec => []ConfigAgrees
<1>1. IInv => ConfigAgrees
  BY DEF IInv, ConfigAgrees, ServedInv, RecordedInv, Phase
<1> QED  BY <1>1, Invariant, PTL

(* ServesLatest: what is served, what runs and what is on record belong    *)
(* together.                                                               *)
THEOREM LatestServed == Spec => []ServesLatest
  BY TypeCorrect, ServedRuns, LatestRuns, Agreement, PTL DEF ServesLatest

(* ImplementsConfigService: storing the proxy is the one step at which the *)
(* served version changes, and it is a step of the abstract service.       *)
THEOREM Refinement == Spec => ImplementsConfigService
<1>1. Init => Service!Init
  BY DEF Init, Service!Init, InitialVersion
<1>2. IInv /\ [Next]_vars => [Service!Next]_<<proxy.version, lastProxyClosed>>
  <2> SUFFICES ASSUME IInv, [Next]_vars
               PROVE  [Service!Next]_<<proxy.version, lastProxyClosed>>
    OBVIOUS
  <2>1. ASSUME NEW u \in Updaters, StoreProxy(u)
        PROVE  Service!Update
    <3>1. lock = u /\ Phase = "storing"
      BY <2>1, OrchestratorAssumption DEF IInv, MutexInv, StoreProxy, HeldPCs, PCs, Phase
    <3>2. ~lastProxyClosed /\ lastProxyClosed' = lastProxyClosed
      BY <2>1, <3>1 DEF IInv, ChannelInv, StoreProxy
    <3>3. version[u] > proxy.version
      BY <3>1, OrchestratorAssumption DEF IInv, NewerInv, ServedInv
    <3>4. proxy'.version = version[u] /\ version[u] \in Versions
      BY <2>1 DEF IInv, TypeOK, StoreProxy
    <3> QED  BY <3>2, <3>3, <3>4 DEF Service!Update, Service!Versions, Versions
  <2>2. ASSUME NEW u \in Updaters,
               \/ Lock(u) \/ Reject(u) \/ BeginUpdateIngress(u) \/ StartOriginsFails(u)
               \/ StartOrigins(u) \/ StoreConfig(u) \/ ClosePrevious(u)
               \/ \E v \in Versions : Receive(u, v)
        PROVE  proxy' = proxy /\ lastProxyClosed' = lastProxyClosed
    BY <2>2 DEF Lock, Reject, BeginUpdateIngress, StartOriginsFails, StartOrigins, StoreConfig,
                ClosePrevious, Receive, servedVars
  <2>3. CASE Shutdown
    BY <2>3 DEF Shutdown, servedVars
  <2>4. CASE WaitToCloseLastProxy
    BY <2>4 DEF WaitToCloseLastProxy, servedVars, Service!Next, Service!Close
  <2>5. CASE UNCHANGED vars
    BY <2>5 DEF vars, servedVars
  <2> QED
    BY <2>1, <2>2, <2>3, <2>4, <2>5 DEF Next, UpdateStep, Service!Next
<1> QED
  BY <1>1, <1>2, Invariant, PTL DEF Spec, ImplementsConfigService, Service!Spec
----------------------------------------------------------------------------
(* Ingress.  The values that reading, writing and validating a             *)
(* configuration give one another: what a user can have written, the zero  *)
(* values of the code and the texts of its services.                       *)
AnyIPRule == IPRules \cup {ZeroRule}
AnyAccess == AccessConfigs \cup {NoAccess}
AnyRequest ==
    [connectTimeout : Seq(Int), noTLSVerify : Seq(BOOLEAN),
     bastionMode : Seq(BOOLEAN), ipRules : Seq(AnyIPRule), access : Seq(AnyAccess)]
AnyConfig ==
    [connectTimeout : Int, noTLSVerify : BOOLEAN, bastionMode : BOOLEAN,
     ipRules : Seq(AnyIPRule), access : AnyAccess]
AnyService ==
    {Parsed[x] : x \in DOMAIN Parsed} \cup {URLServices[x] : x \in DOMAIN URLServices}
    \cup {NewBastionService}
    \cup [kind : {"socks"}, dest : {"socks-proxy"}, policy : Seq(AnyIPRule)]
AnyPath == STRING \cup {""}
AnyText == STRING \cup {String(s) : s \in AnyService}
AnyRawRule ==
    [hostname : Hostnames, port : BOOLEAN, path : AnyPath, service : AnyText,
     originRequest : AnyRequest]
AnyRule ==
    [hostname : Hostnames, punycode : Hostnames, path : AnyPath, service : AnyService,
     handlers : Seq(AnyAccess), config : AnyConfig]

(* Every ipRule is one that setIPRules would leave as it is.               *)
KeptIPRules(rules) ==
    \A i \in 1 .. Len(rules) : ValidRule(rules[i]) \/ rules[i] = ZeroRule

(* The service is what its own text stands for: an address stays one as    *)
(* its rule does not ask for a bastion.                                    *)
NamesItself(service, cfg) ==
    cfg.bastionMode => \A x \in DOMAIN URLServices : service # URLServices[x]

(* The punycode hostname of a rule is that of its hostname.                *)
PunycodeOf(r) == IF CatchAll(r.hostname, r.path) THEN <<>>
                 ELSE PunycodeHostname(r.hostname)

(* What a rule checks itself is what its settings say.                     *)
ChecksOK(r) ==
    /\ r.handlers # <<>> => r.config.access.required /\ r.handlers = <<r.config.access>>
    /\ r.service.policy # <<>> => r.service.policy = r.config.ipRules

RuleOK(r) == /\ r.punycode = PunycodeOf(r)
             /\ KeptIPRules(r.config.ipRules)
             /\ NamesItself(r.service, r.config)
             /\ ChecksOK(r)

(* There is a rule, and the last one matches every request.                *)
RulesOK(rules) ==
    /\ rules \in Seq(AnyRule) /\ rules # <<>>
    /\ \A i \in 1 .. Len(rules) : RuleOK(rules[i])
    /\ CatchAll(rules[Len(rules)].hostname, rules[Len(rules)].path)

(* The request routed last found its rule among the rules in use.          *)
IngressInv ==
    /\ conf \in Confs /\ cli \in CLIs
    /\ phase \in {"start", "rejected", "serving", "remote", "refused"}
    /\ phase \in {"serving", "remote", "refused"} => RulesOK(ing)
    /\ asked # <<>> =>
          /\ phase \in {"serving", "remote"}
          /\ \E req \in Asks : asked = <<[req |-> req, rule |-> FindMatchingRule(req)]>>
    /\ MigrationKeepsOrigins

LEMMA SmallestExists ==
    ASSUME NEW T, T \subseteq Nat, T # {} PROVE \E x \in T : \A y \in T : x <= y
<1> DEFINE R == {ss \in Nat \X Nat : ss[1] < ss[2]}
<1>1. IsWellFoundedOn(R, Nat) BY NatLessThanWellFounded, Zenon DEF OpToRel
<1> HIDE DEF R
<1>2. PICK x \in T : \A y \in T : ~(<<y, x>> \in R) BY <1>1, WFMin
<1>3. ASSUME NEW y \in T PROVE x <= y
  <2>1. <<y, x>> \in Nat \X Nat OBVIOUS
  <2>2. ~(y < x) BY <1>2, <2>1 DEF R
  <2> QED BY <2>2
<1> QED BY <1>3

(* One more ipRule is one more valid one, or none more.                    *)
LEMMA ValidUpToNext ==
    ASSUME NEW rules \in Seq(AnyIPRule), NEW n \in 1 .. Len(rules)
    PROVE  /\ ValidUpTo(rules, n) \in Nat
           /\ ValidUpTo(rules, n - 1) \in Nat
           /\ ValidUpTo(rules, n) = IF ValidRule(rules[n])
                                    THEN ValidUpTo(rules, n - 1) + 1
                                    ELSE ValidUpTo(rules, n - 1)
<1> DEFINE S(m) == {i \in 1 .. m : ValidRule(rules[i])}
<1>1. IsFiniteSet(S(n - 1)) /\ Cardinality(S(n - 1)) \in Nat
  <2>1. IsFiniteSet(1 .. n - 1) BY FS_Interval
  <2>2. S(n - 1) \subseteq 1 .. n - 1 OBVIOUS
  <2> QED BY <2>1, <2>2, FS_Subset, FS_CardinalityType
<1>2. CASE ValidRule(rules[n])
  <2>1. S(n) = S(n - 1) \cup {n} BY <1>2
  <2>2. n \notin S(n - 1) OBVIOUS
  <2>3. Cardinality(S(n)) = Cardinality(S(n - 1)) + 1
    BY <1>1, <2>1, <2>2, FS_AddElement
  <2> QED BY <1>1, <1>2, <2>3 DEF ValidUpTo
<1>3. CASE ~ValidRule(rules[n])
  <2>1. S(n) = S(n - 1) BY <1>3
  <2> QED BY <1>1, <1>3, <2>1 DEF ValidUpTo
<1> QED BY <1>2, <1>3

(* The rules that originRequestFromConfig keeps are valid ones.            *)
LEMMA ValidOnesFact ==
    ASSUME NEW rules \in Seq(AnyIPRule)
    PROVE  ValidOnes(rules) \in Seq(AnyIPRule) /\ KeptIPRules(ValidOnes(rules))
<1> DEFINE N == ValidUpTo(rules, Len(rules))
           P(i, k) == ValidRule(rules[i]) /\ ValidUpTo(rules, i) = k
           pick(k) == CHOOSE i \in 1 .. Len(rules) : P(i, k)
<1>1. ValidUpTo(rules, 0) = 0
  <2>1. {i \in 1 .. 0 : ValidRule(rules[i])} = {} OBVIOUS
  <2> QED BY <2>1, FS_EmptySet DEF ValidUpTo
<1>2. \A n \in 0 .. Len(rules) : ValidUpTo(rules, n) \in Nat
  <2> TAKE n \in 0 .. Len(rules)
  <2>1. CASE n = 0 BY <1>1, <2>1
  <2>2. CASE n # 0 BY <2>2, ValidUpToNext
  <2> QED BY <2>1, <2>2
<1>3. ASSUME NEW k \in 1 .. N PROVE \E i \in 1 .. Len(rules) : P(i, k)
  <2> DEFINE T == {n \in 0 .. Len(rules) : ValidUpTo(rules, n) >= k}
  <2>1. Len(rules) \in T BY <1>2
  <2>2. T \subseteq Nat /\ T # {} BY <2>1
  <2> HIDE DEF T
  <2>3. PICK n \in T : \A y \in T : n <= y BY <2>2, SmallestExists
  <2>4. n \in 0 .. Len(rules) /\ ValidUpTo(rules, n) >= k BY <2>3 DEF T
  <2>5. n # 0 BY <1>1, <1>2, <2>4
  <2>6. n - 1 \notin T BY <2>3, <2>4
  <2>7. n - 1 \in 0 .. Len(rules) BY <2>4, <2>5
  <2>8. ~(ValidUpTo(rules, n - 1) >= k) BY <2>6, <2>7 DEF T
  <2>9. ValidUpTo(rules, n) = IF ValidRule(rules[n])
                              THEN ValidUpTo(rules, n - 1) + 1
                              ELSE ValidUpTo(rules, n - 1)
    BY <2>4, <2>5, ValidUpToNext
  <2>10. ValidUpTo(rules, n - 1) \in Nat /\ ValidUpTo(rules, n) \in Nat BY <1>2, <2>4, <2>7
  <2>11. P(n, k) BY <2>4, <2>8, <2>9, <2>10
  <2> QED BY <2>4, <2>5, <2>11
<1>4. \A k \in 1 .. N : pick(k) \in 1 .. Len(rules) /\ ValidRule(rules[pick(k)])
  <2> TAKE k \in 1 .. N
  <2> HIDE DEF P
  <2>1. pick(k) \in 1 .. Len(rules) /\ P(pick(k), k) BY <1>3
  <2> QED BY <2>1 DEF P
<1>5. ValidOnes(rules) = [k \in 1 .. N |-> rules[pick(k)]] BY DEF ValidOnes
<1>6. N \in Nat BY <1>2
<1> HIDE DEF N, pick
<1>7. \A k \in 1 .. N : rules[pick(k)] \in AnyIPRule BY <1>4
<1>8. ValidOnes(rules) \in Seq(AnyIPRule) /\ Len(ValidOnes(rules)) = N
  BY <1>5, <1>6, <1>7
<1> QED BY <1>4, <1>5, <1>6, <1>8 DEF KeptIPRules

LEMMA SetIPRulesFact ==
    ASSUME NEW default \in Seq(AnyIPRule), KeptIPRules(default), NEW rules \in Seq(AnyIPRule)
    PROVE  /\ SetIPRules(default, rules) \in Seq(AnyIPRule)
           /\ KeptIPRules(SetIPRules(default, rules))
<1>1. CASE rules = <<>> BY <1>1 DEF SetIPRules
<1>2. CASE rules # <<>>
  <2> DEFINE r(i) == IF ValidRule(rules[i]) THEN rules[i] ELSE ZeroRule
  <2>1. ZeroRule \in AnyIPRule BY DEF AnyIPRule
  <2>2. \A i \in 1 .. Len(rules) :
           r(i) \in AnyIPRule /\ (ValidRule(r(i)) \/ r(i) = ZeroRule)
    BY <2>1
  <2>3. SetIPRules(default, rules) = [i \in 1 .. Len(rules) |-> r(i)]
    BY <1>2 DEF SetIPRules
  <2> HIDE DEF r
  <2>4. SetIPRules(default, rules) \in Seq(AnyIPRule)
        /\ Len(SetIPRules(default, rules)) = Len(rules)
    BY <2>2, <2>3
  <2> QED BY <2>2, <2>3, <2>4 DEF KeptIPRules
<1> QED BY <1>1, <1>2

(* Rules that are kept come back from the edge as they were.               *)
LEMMA KeptComeBack ==
    ASSUME NEW rules \in Seq(AnyIPRule), KeptIPRules(rules)
    PROVE  SetIPRules(<<>>, rules) = rules
<1>1. CASE rules # <<>>
  <2>1. \A i \in 1 .. Len(rules) :
           rules[i] = IF ValidRule(rules[i]) THEN rules[i] ELSE ZeroRule
    BY DEF KeptIPRules
  <2> QED BY <1>1, <2>1 DEF SetIPRules
<1> QED BY <1>1 DEF SetIPRules

----------------------------------------------------------------------------
(* Hostnames.  A wildcard rule matches exactly the names that end with the *)
(* labels behind the wildcard and have at least one more in front.         *)
LEMMA SuffixFact ==
    ASSUME NEW s \in Hostnames, NEW t \in Hostnames, NEW n \in Nat,
           Len(t) = n + Len(s)
    PROVE  IsSuffix(s, t) <=> s = SubSeq(t, n + 1, Len(t))
<1> DEFINE rs == Reverse(s)
           rt == Reverse(t)
           u == SubSeq(t, n + 1, Len(t))
<1> USE DEF Hostnames
<1>1. /\ rs \in Seq(DOMAIN Lower) /\ Len(rs) = Len(s)
      /\ \A i \in 1 .. Len(s) : rs[i] = s[Len(s) - i + 1]
  BY DEF Reverse
<1>2. /\ rt \in Seq(DOMAIN Lower) /\ Len(rt) = Len(t)
      /\ \A i \in 1 .. Len(t) : rt[i] = t[Len(t) - i + 1]
  BY DEF Reverse
<1>3. /\ u \in Seq(DOMAIN Lower) /\ Len(u) = Len(s)
      /\ \A i \in 1 .. Len(s) : u[i] = t[n + i]
  OBVIOUS
<1> HIDE DEF rs, rt, u
<1>4. IsSuffix(s, t) <=> \A i \in 1 .. Len(s) : rs[i] = rt[i]
  <2>1. IsSuffix(s, t) <=> SubSeq(rs, 1, Len(s)) = SubSeq(rt, 1, Len(s))
    BY <1>1, <1>2 DEF IsSuffix, IsPrefix, rs, rt
  <2>2. /\ SubSeq(rs, 1, Len(s)) \in Seq(DOMAIN Lower)
        /\ Len(SubSeq(rs, 1, Len(s))) = Len(s)
        /\ \A i \in 1 .. Len(s) : SubSeq(rs, 1, Len(s))[i] = rs[i]
    BY <1>1
  <2>3. /\ SubSeq(rt, 1, Len(s)) \in Seq(DOMAIN Lower)
        /\ Len(SubSeq(rt, 1, Len(s))) = Len(s)
        /\ \A i \in 1 .. Len(s) : SubSeq(rt, 1, Len(s))[i] = rt[i]
    BY <1>2
  <2> QED BY <2>1, <2>2, <2>3
<1>5. (\A i \in 1 .. Len(s) : rs[i] = rt[i]) <=> (\A i \in 1 .. Len(s) : s[i] = u[i])
  <2>1. ASSUME \A i \in 1 .. Len(s) : rs[i] = rt[i], NEW i \in 1 .. Len(s)
        PROVE  s[i] = u[i]
    <3> DEFINE j == Len(s) - i + 1
    <3>1. j \in 1 .. Len(s) /\ j \in 1 .. Len(t) OBVIOUS
    <3>2. Len(s) - j + 1 = i /\ Len(t) - j + 1 = n + i OBVIOUS
    <3>3. rs[j] = rt[j] BY <2>1, <3>1
    <3> QED BY <1>1, <1>2, <1>3, <3>1, <3>2, <3>3
  <2>2. ASSUME \A i \in 1 .. Len(s) : s[i] = u[i], NEW i \in 1 .. Len(s)
        PROVE  rs[i] = rt[i]
    <3> DEFINE j == Len(s) - i + 1
    <3>1. j \in 1 .. Len(s) /\ i \in 1 .. Len(t) OBVIOUS
    <3>2. Len(t) - i + 1 = n + j OBVIOUS
    <3>3. s[j] = u[j] BY <2>2, <3>1
    <3> QED BY <1>1, <1>2, <1>3, <3>1, <3>2, <3>3
  <2> QED BY <2>1, <2>2
<1>6. s = u <=> \A i \in 1 .. Len(s) : s[i] = u[i] BY <1>3
<1> QED BY <1>4, <1>5, <1>6 DEF u

LEMMA WildcardFact ==
    ASSUME NEW p \in Hostnames, NEW h \in Hostnames, Len(p) > 1
    PROVE  Len(h) >= Len(p) /\ IsSuffix(Tail(p), h) <=>
           \E n \in 1 .. Len(h) - 1 : Tail(p) = SubSeq(h, n + 1, Len(h))
<1> DEFINE t == Tail(p)
<1>1. t \in Hostnames /\ Len(t) = Len(p) - 1 BY DEF Hostnames
<1>2. Len(h) \in Nat /\ Len(p) \in Nat BY DEF Hostnames
<1> HIDE DEF t
<1>3. ASSUME Len(h) >= Len(p), IsSuffix(t, h)
      PROVE  \E n \in 1 .. Len(h) - 1 : t = SubSeq(h, n + 1, Len(h))
  <2> DEFINE n == Len(h) - Len(t)
  <2>1. n \in 1 .. Len(h) - 1 /\ n \in Nat /\ Len(h) = n + Len(t) BY <1>1, <1>2, <1>3
  <2> HIDE DEF n
  <2>2. t = SubSeq(h, n + 1, Len(h)) BY <1>1, <1>3, <2>1, SuffixFact
  <2> QED BY <2>1, <2>2
<1>4. ASSUME NEW n \in 1 .. Len(h) - 1, t = SubSeq(h, n + 1, Len(h))
      PROVE  Len(h) >= Len(p) /\ IsSuffix(t, h)
  <2>1. Len(SubSeq(h, n + 1, Len(h))) = Len(h) - n BY <1>2 DEF Hostnames
  <2>2. n \in Nat /\ Len(h) = n + Len(t) BY <1>1, <1>2, <1>4, <2>1
  <2>3. Len(h) >= Len(p) BY <1>1, <1>2, <2>2
  <2>4. IsSuffix(t, h) BY <1>1, <1>4, <2>2, SuffixFact
  <2> QED BY <2>3, <2>4
<1> QED BY <1>3, <1>4 DEF t

LEMMA MatchHostFact ==
    ASSUME NEW p \in Hostnames, NEW h \in Hostnames
    PROVE  MatchHost(p, h) <=>
           \/ p = h
           \/ /\ Len(p) > 1 /\ p[1] = "*"
              /\ \E n \in 1 .. Len(h) - 1 : Tail(p) = SubSeq(h, n + 1, Len(h))
BY WildcardFact DEF MatchHost

(* Without a wildcard a hostname matches itself only.                      *)
LEMMA PlainHostFact ==
    ASSUME NEW p \in Hostnames, NEW h \in Hostnames,
           \A i \in DOMAIN p : ~HasWildcard(p[i])
    PROVE  MatchHost(p, h) <=> p = h
<1>1. ASSUME Len(p) > 1 PROVE p[1] # "*"
  <2>1. 1 \in DOMAIN p BY <1>1 DEF Hostnames
  <2> QED BY <2>1 DEF HasWildcard
<1> QED BY <1>1 DEF MatchHost

LoweredHost(p) == [i \in DOMAIN p |-> Lower[p[i]]]

LEMMA LoweredFact ==
    ASSUME NEW p \in Hostnames
    PROVE  /\ LoweredHost(p) \in Hostnames
           /\ LoweredHost(p) = <<>> <=> p = <<>>
           /\ (\A i \in DOMAIN p : ~HasWildcard(p[i])) =>
                 \A i \in DOMAIN LoweredHost(p) : ~HasWildcard(LoweredHost(p)[i])
<1> DEFINE l == LoweredHost(p)
<1>1. DOMAIN p = 1 .. Len(p) /\ Len(p) \in Nat /\ \A i \in 1 .. Len(p) : p[i] \in DOMAIN Lower
  BY DEF Hostnames
<1>2. \A i \in 1 .. Len(p) : Lower[p[i]] \in DOMAIN Lower BY <1>1, IngressAssumption
<1>3. l = [i \in 1 .. Len(p) |-> Lower[p[i]]] BY <1>1 DEF LoweredHost
<1> HIDE DEF l
<1>4. l \in Seq(DOMAIN Lower) /\ Len(l) = Len(p) BY <1>1, <1>2, <1>3
<1>5. l = <<>> <=> p = <<>> BY <1>4 DEF Hostnames
<1>6. ASSUME \A i \in DOMAIN p : ~HasWildcard(p[i]), NEW i \in DOMAIN l
      PROVE  ~HasWildcard(l[i])
  <2>1. i \in DOMAIN p /\ l[i] = Lower[p[i]] /\ p[i] \in DOMAIN Lower BY <1>1, <1>3
  <2> QED BY <1>6, <2>1, IngressAssumption
<1> QED BY <1>4, <1>5, <1>6 DEF l, Hostnames

(* A rule matches the names that its hostname means.                       *)
LEMMA MatchesMeant ==
    ASSUME NEW r \in AnyRule, r.punycode = PunycodeOf(r), NEW h \in Hostnames
    PROVE  Means(r.hostname, h) <=>
           \/ r.hostname \in {<<>>, <<"*">>}
           \/ MatchHost(r.hostname, h)
           \/ r.punycode # <<>> /\ MatchHost(r.punycode, h)
<1> DEFINE p == r.hostname
           l == LoweredHost(p)
           plain == \A i \in DOMAIN p : ~HasWildcard(p[i])
<1>1. p \in Hostnames BY DEF AnyRule
<1>2. Means(p, h) <=> \/ p \in {<<>>, <<"*">>}
                      \/ plain /\ l = h
                      \/ MatchHost(p, h)
  BY <1>1, MatchHostFact DEF Means, LoweredHost
<1>3. CASE p \in {<<>>, <<"*">>} BY <1>2, <1>3
<1>4. CASE p \notin {<<>>, <<"*">>}
  <2>1. r.punycode = IF ~plain \/ l = p THEN <<>> ELSE l
    BY <1>4 DEF PunycodeOf, CatchAll, PunycodeHostname, LoweredHost
  <2>2. l \in Hostnames /\ l # <<>> BY <1>1, <1>4, LoweredFact
  <2>3. plain => (MatchHost(l, h) <=> l = h)
    <3>1. plain => \A i \in DOMAIN l : ~HasWildcard(l[i]) BY <1>1, LoweredFact
    <3> QED BY <2>2, <3>1, PlainHostFact
  <2>4. plain => (MatchHost(p, h) <=> p = h) BY <1>1, PlainHostFact
  <2> HIDE DEF plain, l, p
  <2>5. Means(p, h) <=> MatchHost(p, h) \/ (r.punycode # <<>> /\ MatchHost(r.punycode, h))
    BY <1>2, <1>4, <2>1, <2>2, <2>3, <2>4
  <2> QED BY <1>4, <2>5 DEF p
<1> QED BY <1>3, <1>4

LEMMA ManagementMeant ==
    ASSUME NEW h \in Hostnames
    PROVE  Means(ManagementHost, h) <=> MatchHost(ManagementHost, h)
<1> DEFINE m == ManagementHost
<1>1. /\ m \in Hostnames /\ m # <<>>
      /\ \A i \in DOMAIN m : ~HasWildcard(m[i]) /\ Lower[m[i]] = m[i]
  BY IngressAssumption
<1>2. m # <<"*">>
  <2>1. ASSUME m = <<"*">> PROVE FALSE
    <3>1. 1 \in DOMAIN m /\ m[1] = "*" BY <2>1
    <3> QED BY <1>1, <3>1 DEF HasWildcard
  <2> QED BY <2>1
<1>3. LoweredHost(m) = m
  <2>1. LoweredHost(m) = [i \in DOMAIN m |-> m[i]] BY <1>1 DEF LoweredHost
  <2> QED BY <1>1, <2>1 DEF Hostnames
<1>4. MatchHost(m, h) <=> m = h BY <1>1, PlainHostFact
<1> QED BY <1>1, <1>2, <1>3, <1>4, MatchHostFact DEF Means, LoweredHost

(* The rule that FindMatchingRule finds is the first one that the request  *)
(* means: the catch-all, if no other.                                      *)
LEMMA FoundIsMeant ==
    ASSUME RulesOK(ing), NEW req \in Asks
    PROVE  IF Means(ManagementHost, req.host) THEN FindMatchingRule(req) = -1
           ELSE /\ FindMatchingRule(req) \in DOMAIN ing
                /\ Meant(FindMatchingRule(req), req)
                /\ \A k \in 1 .. FindMatchingRule(req) - 1 : ~Meant(k, req)
<1> DEFINE matching == {i \in DOMAIN ing : Matches(ing[i], req.host, req.path)}
<1>1. req.host \in Hostnames BY IngressAssumption
<1>2. Means(ManagementHost, req.host) <=> InternalMatches(req)
  BY <1>1, ManagementMeant DEF InternalMatches
<1>3. /\ ing \in Seq(AnyRule) /\ Len(ing) \in Nat \ {0} /\ DOMAIN ing = 1 .. Len(ing)
      /\ CatchAll(ing[Len(ing)].hostname, ing[Len(ing)].path)
  BY DEF RulesOK
<1>4. \A i \in DOMAIN ing : Meant(i, req) <=> i \in matching
  <2> TAKE i \in DOMAIN ing
  <2>1. ing[i] \in AnyRule /\ ing[i].punycode = PunycodeOf(ing[i])
    BY <1>3 DEF RulesOK, RuleOK
  <2> QED BY <1>1, <2>1, MatchesMeant DEF Meant, Matches
<1>5. Len(ing) \in matching
  <2>1. Len(ing) \in DOMAIN ing BY <1>3
  <2>2. ing[Len(ing)].hostname \in {<<>>, <<"*">>} /\ ing[Len(ing)].path = ""
    BY <1>3 DEF CatchAll
  <2>3. Matches(ing[Len(ing)], req.host, req.path) BY <2>2 DEF Matches
  <2> QED BY <2>1, <2>3
<1>6. FindMatchingRule(req) = IF InternalMatches(req) THEN -1 ELSE Min(matching)
  BY <1>5 DEF FindMatchingRule
<1>7. matching \subseteq Nat /\ matching # {} BY <1>3, <1>5
<1>8. matching \subseteq DOMAIN ing OBVIOUS
<1> HIDE DEF matching
<1>9. Min(matching) \in matching /\ \A y \in matching : Min(matching) <= y
  <2>1. PICK x \in matching : \A y \in matching : x <= y BY <1>7, SmallestExists
  <2> QED BY <2>1 DEF Min
<1>10. \A k \in 1 .. Min(matching) - 1 : k \in DOMAIN ing /\ k \notin matching
  <2> DEFINE m == Min(matching)
  <2>1. m \in 1 .. Len(ing) /\ \A y \in matching : m <= y BY <1>3, <1>8, <1>9
  <2> HIDE DEF m
  <2>2. ASSUME NEW k \in 1 .. m - 1 PROVE k \in 1 .. Len(ing) /\ ~(m <= k)
    BY <1>3, <2>1
  <2>3. \A k \in 1 .. m - 1 : k \in DOMAIN ing /\ k \notin matching
    BY <1>3, <2>1, <2>2
  <2> QED BY <2>3 DEF m
<1> QED BY <1>2, <1>4, <1>6, <1>8, <1>9, <1>10

----------------------------------------------------------------------------
(* Settings and services.                                                  *)
LEMMA OrFact ==
    ASSUME NEW S, NEW p \in Seq(S), NEW d \in S PROVE Or(p, d) \in S
<1>1. CASE p = <<>> BY <1>1 DEF Or
<1>2. CASE p # <<>>
  <2>1. 1 \in 1 .. Len(p) BY <1>2
  <2> QED BY <1>2, <2>1 DEF Or
<1> QED BY <1>1, <1>2

LEMMA SeqMonotone ==
    ASSUME NEW S, NEW T, S \subseteq T, NEW s \in Seq(S) PROVE s \in Seq(T)
OBVIOUS

LEMMA RequestsAreAny == RawOriginRequests \subseteq AnyRequest
<1> SUFFICES ASSUME NEW o \in RawOriginRequests PROVE o \in AnyRequest OBVIOUS
<1>1. o.ipRules \in Seq(IPRules) /\ o.access \in Seq(AccessConfigs) BY DEF RawOriginRequests
<1>2. o.ipRules \in Seq(AnyIPRule)
  <2>1. IPRules \subseteq AnyIPRule BY DEF AnyIPRule
  <2> QED BY <1>1, <2>1, SeqMonotone
<1>3. o.access \in Seq(AnyAccess)
  <2>1. AccessConfigs \subseteq AnyAccess BY DEF AnyAccess
  <2> QED BY <1>1, <2>1, SeqMonotone
<1> QED BY <1>2, <1>3 DEF RawOriginRequests, AnyRequest

LEMMA RawRulesAreAny ==
    ASSUME NEW rules \in Seq(UnvalidatedIngressRules) PROVE rules \in Seq(AnyRawRule)
<1>1. ASSUME NEW r \in UnvalidatedIngressRules PROVE r \in AnyRawRule
  <2>1. r.originRequest \in AnyRequest BY RequestsAreAny DEF UnvalidatedIngressRules
  <2> QED BY <2>1 DEF UnvalidatedIngressRules, AnyRawRule, AnyPath, AnyText
<1>2. UnvalidatedIngressRules \subseteq AnyRawRule BY <1>1
<1> QED BY <1>2, SeqMonotone

LEMMA AccessFact ==
    ASSUME NEW a \in AnyAccess PROVE a.required \in BOOLEAN
<1>1. CASE a \in AccessConfigs BY <1>1 DEF AccessConfigs
<1>2. CASE a = NoAccess
  <2>1. a.required = FALSE BY <1>2 DEF NoAccess
  <2> QED BY <2>1
<1> QED BY <1>1, <1>2 DEF AnyAccess

LEMMA DefaultsFact ==
    ASSUME NEW o \in AnyRequest
    PROVE  /\ OriginRequestFromConfig(o) \in AnyConfig
           /\ KeptIPRules(OriginRequestFromConfig(o).ipRules)
<1>1. Or(o.connectTimeout, defaultHTTPConnectTimeout) \in Int
  BY OrFact DEF AnyRequest, defaultHTTPConnectTimeout
<1>2. Or(o.noTLSVerify, FALSE) \in BOOLEAN
  <2>1. o.noTLSVerify \in Seq(BOOLEAN) /\ FALSE \in BOOLEAN BY DEF AnyRequest
  <2> QED BY <2>1, OrFact
<1>3. Or(o.bastionMode, FALSE) \in BOOLEAN
  <2>1. o.bastionMode \in Seq(BOOLEAN) /\ FALSE \in BOOLEAN BY DEF AnyRequest
  <2> QED BY <2>1, OrFact
<1>4. Or(o.access, NoAccess) \in AnyAccess
  <2>1. o.access \in Seq(AnyAccess) /\ NoAccess \in AnyAccess BY DEF AnyRequest, AnyAccess
  <2> QED BY <2>1, OrFact
<1>5. ValidOnes(o.ipRules) \in Seq(AnyIPRule) /\ KeptIPRules(ValidOnes(o.ipRules))
  BY ValidOnesFact DEF AnyRequest
<1> QED BY <1>1, <1>2, <1>3, <1>4, <1>5 DEF OriginRequestFromConfig, AnyConfig

LEMMA SetConfigFact ==
    ASSUME NEW d \in AnyConfig, KeptIPRules(d.ipRules), NEW o \in AnyRequest
    PROVE  SetConfig(d, o) \in AnyConfig /\ KeptIPRules(SetConfig(d, o).ipRules)
<1>1. Or(o.connectTimeout, d.connectTimeout) \in Int
  BY OrFact DEF AnyRequest, AnyConfig
<1>2. Or(o.noTLSVerify, d.noTLSVerify) \in BOOLEAN
  <2>1. o.noTLSVerify \in Seq(BOOLEAN) /\ d.noTLSVerify \in BOOLEAN
    BY DEF AnyRequest, AnyConfig
  <2> QED BY <2>1, OrFact
<1>3. Or(o.bastionMode, d.bastionMode) \in BOOLEAN
  <2>1. o.bastionMode \in Seq(BOOLEAN) /\ d.bastionMode \in BOOLEAN
    BY DEF AnyRequest, AnyConfig
  <2> QED BY <2>1, OrFact
<1>4. Or(o.access, d.access) \in AnyAccess
  <2>1. o.access \in Seq(AnyAccess) /\ d.access \in AnyAccess BY DEF AnyRequest, AnyConfig
  <2> QED BY <2>1, OrFact
<1>5. /\ SetIPRules(d.ipRules, o.ipRules) \in Seq(AnyIPRule)
      /\ KeptIPRules(SetIPRules(d.ipRules, o.ipRules))
  BY SetIPRulesFact DEF AnyRequest, AnyConfig
<1> QED BY <1>1, <1>2, <1>3, <1>4, <1>5 DEF SetConfig, AnyConfig

(* The kinds of service tell an address from everything else.              *)
LEMMA ParsedFact ==
    ASSUME NEW x \in DOMAIN Parsed, NEW y \in DOMAIN URLServices
    PROVE  Parsed[x] \in AnyService /\ Parsed[x] # URLServices[y]
<1>1. Parsed[x] \in AnyService BY DEF AnyService
<1>2. Parsed[x].kind \in {"unix", "unixtls", "status", "hello"} BY DEF Parsed, Svc
<1>3. URLServices[y].kind \in {"http", "tcp"} BY DEF URLServices, Svc
<1> QED BY <1>1, <1>2, <1>3

LEMMA OthersFact ==
    ASSUME NEW y \in DOMAIN URLServices
    PROVE  /\ NewBastionService # URLServices[y]
           /\ \A s : s.kind = "socks" => s # URLServices[y]
<1>1. URLServices[y].kind \in {"http", "tcp"} BY DEF URLServices, Svc
<1>2. NewBastionService.kind = "bastion" BY DEF NewBastionService, Svc
<1> QED BY <1>1, <1>2

LEMMA ServiceFact ==
    ASSUME NEW text, NEW cfg \in AnyConfig, NEW o \in AnyRequest,
           ~ServiceFails(text, cfg, o)
    PROVE  LET s == ServiceOf(text, cfg, o) IN
           /\ s \in AnyService
           /\ NamesItself(s, IF s = NewBastionService
                             THEN [cfg EXCEPT !.bastionMode = TRUE] ELSE cfg)
           /\ s.policy # <<>> =>
                 /\ s.policy = o.ipRules /\ s # NewBastionService
                 /\ \A i \in DOMAIN o.ipRules : ValidRule(o.ipRules[i])
<1> DEFINE s == ServiceOf(text, cfg, o)
           c == IF s = NewBastionService THEN [cfg EXCEPT !.bastionMode = TRUE] ELSE cfg
<1>0. cfg.bastionMode \in BOOLEAN BY DEF AnyConfig
<1>1. CASE text \in DOMAIN Parsed
  <2>0. text # "socks-proxy" BY <1>1 DEF Parsed
  <2>1. s = Parsed[text] BY <1>1, <2>0 DEF ServiceOf
  <2> HIDE DEF s
  <2>2. s \in AnyService BY <1>1, <2>1 DEF AnyService
  <2>3. \A y \in DOMAIN URLServices : s # URLServices[y] BY <1>1, <2>1, ParsedFact
  <2>4. s.policy = <<>> BY <1>1, <2>1 DEF Parsed, Svc
  <2> QED BY <2>2, <2>3, <2>4 DEF NamesItself, s
<1>2. CASE text \notin DOMAIN Parsed /\ text = "socks-proxy"
  <2>1. s = [Svc("socks", text) EXCEPT !.policy = o.ipRules] BY <1>2 DEF ServiceOf
  <2> HIDE DEF s
  <2>2. s = [kind |-> "socks", dest |-> "socks-proxy", policy |-> o.ipRules]
    BY <1>2, <2>1 DEF Svc
  <2>3. o.ipRules \in Seq(AnyIPRule) BY DEF AnyRequest
  <2>4. s \in [kind : {"socks"}, dest : {"socks-proxy"}, policy : Seq(AnyIPRule)]
    BY <2>2, <2>3
  <2>5. s \in AnyService BY <2>4 DEF AnyService
  <2>6. \A y \in DOMAIN URLServices : s # URLServices[y] BY <2>2, OthersFact
  <2>7. s.policy = o.ipRules /\ s.kind = "socks" BY <2>2
  <2>8. s # NewBastionService BY <2>7 DEF NewBastionService, Svc
  <2>9. \A i \in DOMAIN o.ipRules : ValidRule(o.ipRules[i])
    <3>1. text # "http_status:99" BY <1>2
    <3> QED BY <1>2, <3>1 DEF ServiceFails
  <2> QED BY <2>5, <2>6, <2>7, <2>8, <2>9 DEF NamesItself, s
<1>3. CASE /\ text \notin DOMAIN Parsed /\ text # "socks-proxy"
           /\ text = "bastion" \/ cfg.bastionMode
  <2>1. s = NewBastionService BY <1>3 DEF ServiceOf
  <2> HIDE DEF s
  <2>2. s \in AnyService BY <2>1 DEF AnyService
  <2>3. \A y \in DOMAIN URLServices : s # URLServices[y] BY <2>1, OthersFact
  <2>4. s.policy = <<>> BY <2>1 DEF NewBastionService, Svc
  <2> QED BY <2>2, <2>3, <2>4 DEF NamesItself, s
<1>4. CASE /\ text \notin DOMAIN Parsed /\ text # "socks-proxy"
           /\ text # "bastion" /\ ~cfg.bastionMode
  <2>1. s = URLServices[text] BY <1>4 DEF ServiceOf
  <2>2. text \in DOMAIN URLServices
    <3>1. text # "http_status:99" BY <1>4 DEF ServiceFails
    <3> QED BY <1>4, <3>1 DEF ServiceFails
  <2> HIDE DEF s
  <2>3. s \in AnyService BY <2>1, <2>2 DEF AnyService
  <2>4. s # NewBastionService BY <2>1, <2>2, OthersFact
  <2>5. s.policy = <<>> BY <2>1, <2>2 DEF URLServices, Svc
  <2> QED BY <1>4, <2>3, <2>4, <2>5 DEF NamesItself, s
<1> QED BY <1>0, <1>1, <1>2, <1>3, <1>4

(* A rule of a configuration that validateIngress accepts.                 *)
LEMMA NewRuleFact ==
    ASSUME NEW d \in AnyConfig, KeptIPRules(d.ipRules), NEW r \in AnyRawRule,
           ~ServiceFails(r.service, SetConfig(d, r.originRequest), r.originRequest)
    PROVE  LET q == NewRule(r, d) IN
           /\ q \in AnyRule /\ RuleOK(q)
           /\ q.hostname = r.hostname /\ q.path = r.path
<1> DEFINE o == r.originRequest
           cfg == SetConfig(d, o)
           s == ServiceOf(r.service, cfg, o)
           c == IF s = NewBastionService THEN [cfg EXCEPT !.bastionMode = TRUE] ELSE cfg
           pc0 == IF CatchAll(r.hostname, r.path) THEN <<>> ELSE PunycodeHostname(r.hostname)
           hs == HandlersOf(o)
<1>1. o \in AnyRequest /\ r.hostname \in Hostnames /\ r.path \in AnyPath BY DEF AnyRawRule
<1>2. cfg \in AnyConfig /\ KeptIPRules(cfg.ipRules) BY <1>1, SetConfigFact
<1>3. /\ s \in AnyService /\ NamesItself(s, c)
      /\ s.policy # <<>> => /\ s.policy = o.ipRules /\ s # NewBastionService
                            /\ \A i \in DOMAIN o.ipRules : ValidRule(o.ipRules[i])
  BY <1>1, <1>2, ServiceFact
<1>4. c \in AnyConfig /\ KeptIPRules(c.ipRules)
  <2> HIDE DEF cfg, s
  <2> QED BY <1>2 DEF AnyConfig
<1>5. pc0 \in Hostnames
  <2>1. <<>> \in Hostnames BY DEF Hostnames
  <2>2. LoweredHost(r.hostname) \in Hostnames BY <1>1, LoweredFact
  <2> QED BY <2>1, <2>2 DEF PunycodeHostname, LoweredHost
<1>6. hs \in Seq(AnyAccess)
  <2>1. o.access \in Seq(AnyAccess) BY <1>1 DEF AnyRequest
  <2>2. CASE o.access = <<>> BY <2>2 DEF HandlersOf
  <2>3. CASE o.access # <<>>
    <3>1. o.access[1] \in AnyAccess BY <2>1, <2>3
    <3> QED BY <3>1 DEF HandlersOf
  <2> QED BY <2>2, <2>3
<1>a. s.policy # <<>> => s.policy = c.ipRules
  <2> SUFFICES ASSUME s.policy # <<>> PROVE s.policy = c.ipRules OBVIOUS
  <2>1. o.ipRules \in Seq(AnyIPRule) /\ o.ipRules # <<>> BY <1>1, <1>3 DEF AnyRequest
  <2>2. KeptIPRules(o.ipRules) BY <1>3, <2>1 DEF KeptIPRules
  <2>3. SetIPRules(<<>>, o.ipRules) = o.ipRules BY <2>1, <2>2, KeptComeBack
  <2>4. SetIPRules(d.ipRules, o.ipRules) = o.ipRules BY <2>1, <2>3 DEF SetIPRules
  <2>5. cfg.ipRules = o.ipRules BY <2>4 DEF SetConfig
  <2>6. c = cfg BY <1>3
  <2> QED BY <1>3, <2>5, <2>6
<1>b. hs # <<>> => c.access.required /\ hs = <<c.access>>
  <2> SUFFICES ASSUME hs # <<>> PROVE c.access.required /\ hs = <<c.access>> OBVIOUS
  <2>1. o.access # <<>> /\ o.access[1].required /\ hs = <<o.access[1]>> BY DEF HandlersOf
  <2>2. cfg.access = o.access[1] BY <2>1 DEF SetConfig, Or
  <2> HIDE DEF cfg, s
  <2>3. c.access = cfg.access BY <1>2 DEF AnyConfig
  <2> QED BY <2>1, <2>2, <2>3
<1>7. NewRule(r, d) = [hostname |-> r.hostname, punycode |-> pc0, path |-> r.path,
                       service |-> s, handlers |-> hs, config |-> c]
  BY DEF NewRule
<1> HIDE DEF cfg, s, c, pc0, hs, o
<1> DEFINE q == NewRule(r, d)
<1>8. q \in AnyRule BY <1>1, <1>3, <1>4, <1>5, <1>6, <1>7 DEF AnyRule
<1>9. /\ q.hostname = r.hostname /\ q.path = r.path /\ q.punycode = pc0
      /\ q.service = s /\ q.config = c /\ q.handlers = hs
  BY <1>7
<1> HIDE DEF q
<1>10. ChecksOK(q) BY <1>9, <1>a, <1>b DEF ChecksOK
<1>11. RuleOK(q) BY <1>3, <1>4, <1>9, <1>10 DEF RuleOK, PunycodeOf, pc0
<1> QED BY <1>8, <1>9, <1>11 DEF q

LEMMA ValidateIngressFact ==
    ASSUME NEW d \in AnyConfig, KeptIPRules(d.ipRules),
           NEW rules \in Seq(AnyRawRule), rules # <<>>, ValidIngress(rules, d)
    PROVE  RulesOK(ValidateIngress(rules, d))
<1> DEFINE v == ValidateIngress(rules, d)
           n == Len(rules)
<1>1. DOMAIN rules = 1 .. n /\ n \in Nat \ {0} /\ \A i \in 1 .. n : rules[i] \in AnyRawRule
  OBVIOUS
<1>2. \A i \in 1 .. n :
         /\ ~ServiceFails(rules[i].service, SetConfig(d, rules[i].originRequest),
                          rules[i].originRequest)
         /\ CatchAll(rules[i].hostname, rules[i].path) <=> i = n
  BY <1>1 DEF ValidIngress, ValidateHostname
<1>3. \A i \in 1 .. n : LET q == NewRule(rules[i], d) IN
         /\ q \in AnyRule /\ RuleOK(q)
         /\ q.hostname = rules[i].hostname /\ q.path = rules[i].path
  BY <1>1, <1>2, NewRuleFact
<1>4. v = [i \in 1 .. n |-> NewRule(rules[i], d)] BY <1>1 DEF ValidateIngress
<1> HIDE DEF v
<1>5. v \in Seq(AnyRule) /\ Len(v) = n BY <1>1, <1>3, <1>4
<1>6. v # <<>> BY <1>1, <1>5
<1>7. \A i \in 1 .. n : RuleOK(v[i]) BY <1>3, <1>4
<1>8. CatchAll(v[n].hostname, v[n].path)
  <2>1. n \in 1 .. n BY <1>1
  <2>2. v[n] = NewRule(rules[n], d) BY <1>4, <2>1
  <2> QED BY <1>2, <1>3, <2>1, <2>2
<1> QED BY <1>5, <1>6, <1>7, <1>8 DEF RulesOK, v

(* What the edge is sent of one rule.                                      *)
RawRuleOf(r) == [hostname |-> r.hostname, port |-> FALSE, path |-> r.path,
                 service |-> String(r.service),
                 originRequest |-> ConvertToRawOriginConfig(r.config)]

LEMMA UnlessFact ==
    ASSUME NEW S, NEW v \in S, NEW d
    PROVE  Unless(d, v) \in Seq(S) /\ Or(Unless(d, v), d) = v
BY DEF Unless, Or

LEMMA RawRuleFact ==
    ASSUME NEW r \in AnyRule PROVE RawRuleOf(r) \in AnyRawRule
<1> DEFINE c == r.config
<1>1. /\ c \in AnyConfig /\ r.hostname \in Hostnames /\ r.path \in AnyPath
      /\ r.service \in AnyService
  BY DEF AnyRule
<1>2. Unless(defaultHTTPConnectTimeout, c.connectTimeout) \in Seq(Int)
  BY <1>1, UnlessFact DEF AnyConfig
<1>3. /\ Unless(FALSE, c.noTLSVerify) \in Seq(BOOLEAN)
      /\ Unless(FALSE, c.bastionMode) \in Seq(BOOLEAN)
  <2>1. c.noTLSVerify \in BOOLEAN /\ c.bastionMode \in BOOLEAN BY <1>1 DEF AnyConfig
  <2> QED BY <2>1, UnlessFact
<1>4. (IF c.access.required THEN <<c.access>> ELSE <<>>) \in Seq(AnyAccess)
  BY <1>1 DEF AnyConfig
<1>5. c.ipRules \in Seq(AnyIPRule) BY <1>1 DEF AnyConfig
<1>6. ConvertToRawOriginConfig(c) \in AnyRequest
  BY <1>2, <1>3, <1>4, <1>5 DEF ConvertToRawOriginConfig, AnyRequest
<1>7. String(r.service) \in AnyText BY <1>1 DEF AnyText
<1> QED BY <1>1, <1>6, <1>7 DEF RawRuleOf, AnyRawRule

(* What reading an empty originRequest gives.                              *)
LEMMA EmptyFact ==
    /\ OriginRequestFromConfig(NothingSet) \in AnyConfig
    /\ OriginRequestFromConfig(NothingSet) = TeamDefaults
    /\ KeptIPRules(OriginRequestFromConfig(NothingSet).ipRules)
<1>1. NothingSet \in AnyRequest BY DEF NothingSet, AnyRequest
<1>2. /\ OriginRequestFromConfig(NothingSet) \in AnyConfig
      /\ KeptIPRules(OriginRequestFromConfig(NothingSet).ipRules)
  BY <1>1, DefaultsFact
<1>3. ValidOnes(<<>>) = <<>>
  <2>1. {i \in 1 .. 0 : ValidRule(<<>>[i])} = {} OBVIOUS
  <2>2. ValidUpTo(<<>>, Len(<<>>)) = 0 BY <2>1, FS_EmptySet DEF ValidUpTo
  <2> QED BY <2>2 DEF ValidOnes
<1>4. OriginRequestFromConfig(NothingSet) = TeamDefaults
  BY <1>3 DEF OriginRequestFromConfig, NothingSet, Or, TeamDefaults
<1> QED BY <1>2, <1>4

(* t is the service s with these ip rules if it is a socks proxy.          *)
NamedAgain(s, t, rules) ==
    /\ t.kind = s.kind /\ t.dest = s.dest
    /\ t.policy = IF s.kind = "socks" THEN rules ELSE s.policy
    /\ s.kind # "socks" => s.policy = <<>>

(* The text of a service names the service, in the settings of its rule.   *)
LEMMA TextNamesService ==
    ASSUME NEW s \in AnyService, NEW c \in AnyConfig, NamesItself(s, c),
           NEW cfg, cfg.bastionMode = c.bastionMode, NEW o
    PROVE  NamedAgain(s, ServiceOf(String(s), cfg, o), o.ipRules)
<1> DEFINE text == String(s)
           t == ServiceOf(text, cfg, o)
<1>0. cfg.bastionMode \in BOOLEAN BY DEF AnyConfig
<1>1. CASE \E x \in DOMAIN Parsed : s = Parsed[x]
  <2>1. text \in DOMAIN Parsed /\ s = Parsed[text]
    BY <1>1 DEF Parsed, String, Svc
  <2>2. text # "socks-proxy" BY <2>1 DEF Parsed
  <2> HIDE DEF text
  <2>3. t = Parsed[text] BY <2>1, <2>2 DEF ServiceOf
  <2>4. s.kind # "socks" /\ s.policy = <<>> BY <2>1 DEF Parsed, Svc
  <2> QED BY <2>1, <2>3, <2>4 DEF text, NamedAgain
<1>2. CASE s \in [kind : {"socks"}, dest : {"socks-proxy"}, policy : Seq(AnyIPRule)]
  <2>1. s.kind = "socks" /\ s.dest = "socks-proxy" BY <1>2
  <2>2. text = "socks-proxy" BY <2>1 DEF String
  <2>3. text \notin DOMAIN Parsed BY <2>2 DEF Parsed
  <2> HIDE DEF text
  <2>4. t = [Svc("socks", text) EXCEPT !.policy = o.ipRules] BY <2>2, <2>3 DEF ServiceOf
  <2>5. t.kind = "socks" /\ t.dest = "socks-proxy" /\ t.policy = o.ipRules
    BY <2>2, <2>4 DEF Svc
  <2> QED BY <2>1, <2>5 DEF text, NamedAgain
<1>3. CASE s = NewBastionService
  <2>1. text = "bastion" BY <1>3 DEF String, NewBastionService, Svc
  <2>2. text \notin DOMAIN Parsed /\ text # "socks-proxy" BY <2>1 DEF Parsed
  <2> HIDE DEF text
  <2>3. t = NewBastionService BY <2>1, <2>2 DEF ServiceOf
  <2>4. s.kind # "socks" /\ s.policy = <<>> BY <1>3 DEF NewBastionService, Svc
  <2> QED BY <1>3, <2>3, <2>4 DEF text, NamedAgain
<1>4. CASE \E x \in DOMAIN URLServices : s = URLServices[x]
  <2>1. text \in {"http://h", "tcp://h:7864"} /\ s = URLServices[text]
    BY <1>4 DEF URLServices, String, Svc
  <2>2. text \notin DOMAIN Parsed /\ text # "socks-proxy" /\ text # "bastion"
    BY <2>1 DEF Parsed
  <2>3. ~cfg.bastionMode
    <3>1. c.bastionMode \in BOOLEAN BY DEF AnyConfig
    <3> QED BY <1>4, <3>1 DEF NamesItself
  <2> HIDE DEF text
  <2>4. t = URLServices[text] BY <2>2, <2>3 DEF ServiceOf
  <2>5. s.kind # "socks" /\ s.policy = <<>> BY <1>4 DEF URLServices, Svc
  <2> QED BY <2>1, <2>4, <2>5 DEF text, NamedAgain
<1> QED BY <1>1, <1>2, <1>3, <1>4 DEF AnyService

(* A rule that the edge has handed back is the one it was sent.            *)
LEMMA RuleComesBack ==
    ASSUME NEW r \in AnyRule, RuleOK(r)
    PROVE  SameOrigin(r, NewRule(RawRuleOf(r), OriginRequestFromConfig(NothingSet)))
<1> DEFINE d == OriginRequestFromConfig(NothingSet)
           c == r.config
           o == ConvertToRawOriginConfig(c)
           cfg == SetConfig(d, o)
           s == ServiceOf(String(r.service), cfg, o)
           q == NewRule(RawRuleOf(r), d)
<1>1. /\ c \in AnyConfig /\ KeptIPRules(c.ipRules) /\ NamesItself(r.service, c)
      /\ r.service \in AnyService /\ ChecksOK(r)
  BY DEF AnyRule, RuleOK
<1>2. RawRuleOf(r) \in AnyRawRule BY RawRuleFact
<1>3. o \in AnyRequest BY <1>2 DEF RawRuleOf, AnyRawRule
<1>4. d = TeamDefaults /\ d \in AnyConfig /\ KeptIPRules(d.ipRules) BY EmptyFact
<1>5. cfg \in AnyConfig BY <1>3, <1>4, SetConfigFact
<1>6. cfg.connectTimeout = c.connectTimeout
  <2>1. cfg.connectTimeout = Or(Unless(defaultHTTPConnectTimeout, c.connectTimeout),
                                defaultHTTPConnectTimeout)
    BY <1>4 DEF SetConfig, ConvertToRawOriginConfig, TeamDefaults
  <2> QED BY <1>1, <2>1, UnlessFact
<1>7. cfg.noTLSVerify = c.noTLSVerify
  <2>1. cfg.noTLSVerify = Or(Unless(FALSE, c.noTLSVerify), FALSE)
    BY <1>4 DEF SetConfig, ConvertToRawOriginConfig, TeamDefaults
  <2> QED BY <1>1, <2>1, UnlessFact DEF AnyConfig
<1>8. cfg.bastionMode = c.bastionMode
  <2>1. cfg.bastionMode = Or(Unless(FALSE, c.bastionMode), FALSE)
    BY <1>4 DEF SetConfig, ConvertToRawOriginConfig, TeamDefaults
  <2> QED BY <1>1, <2>1, UnlessFact DEF AnyConfig
<1>9. cfg.ipRules = c.ipRules
  <2>1. cfg.ipRules = SetIPRules(<<>>, c.ipRules)
    BY <1>4 DEF SetConfig, ConvertToRawOriginConfig, TeamDefaults
  <2>2. c.ipRules \in Seq(AnyIPRule) BY <1>1 DEF AnyConfig
  <2> QED BY <1>1, <2>1, <2>2, KeptComeBack
<1>10. /\ cfg.access.required = c.access.required
       /\ c.access.required => c.access = cfg.access
  <2> DEFINE raw == IF c.access.required THEN <<c.access>> ELSE <<>>
  <2>1. cfg.access = Or(raw, NoAccess)
    BY <1>4 DEF SetConfig, ConvertToRawOriginConfig, TeamDefaults
  <2>2. c.access.required \in BOOLEAN
    <3>1. c.access \in AnyAccess BY <1>1 DEF AnyConfig
    <3> QED BY <3>1, AccessFact
  <2>3. CASE c.access.required
    <3>1. cfg.access = c.access BY <2>1, <2>3 DEF Or
    <3> QED BY <2>3, <3>1
  <2>4. CASE ~c.access.required
    <3>1. cfg.access = NoAccess BY <2>1, <2>4 DEF Or
    <3>2. NoAccess.required = FALSE BY DEF NoAccess
    <3> QED BY <2>2, <2>4, <3>1, <3>2
  <2> QED BY <2>3, <2>4
<1>11. /\ s.kind = r.service.kind /\ s.dest = r.service.dest
       /\ s.policy = IF r.service.kind = "socks" THEN o.ipRules ELSE r.service.policy
       /\ r.service.kind # "socks" => r.service.policy = <<>>
  <2> DEFINE sv == r.service
  <2>1. s = ServiceOf(String(sv), cfg, o) OBVIOUS
  <2>2. sv \in AnyService /\ NamesItself(sv, c) /\ c \in AnyConfig BY <1>1
  <2> HIDE DEF cfg, o, s, sv, c
  <2>3. NamedAgain(sv, ServiceOf(String(sv), cfg, o), o.ipRules)
    BY <1>8, <2>2, TextNamesService
  <2> QED BY <2>1, <2>3 DEF NamedAgain, sv
<1>a. HandlersOf(o) = IF c.access.required THEN <<c.access>> ELSE <<>>
  BY DEF HandlersOf, ConvertToRawOriginConfig
<1>b. o.ipRules = c.ipRules BY DEF ConvertToRawOriginConfig
<1>12. /\ q.hostname = r.hostname /\ q.path = r.path /\ q.service = s
       /\ q.handlers = HandlersOf(o)
       /\ q.config = IF s = NewBastionService
                     THEN [cfg EXCEPT !.bastionMode = TRUE] ELSE cfg
  BY DEF NewRule, RawRuleOf
<1> HIDE DEF q, s, cfg, o, d, c
<1>13. q.config \in AnyConfig /\ q.config.connectTimeout = cfg.connectTimeout
       /\ q.config.noTLSVerify = cfg.noTLSVerify /\ q.config.ipRules = cfg.ipRules
       /\ q.config.access = cfg.access
  BY <1>5, <1>12 DEF AnyConfig
<1>14. [c EXCEPT !.bastionMode = FALSE, !.access = NoAccess] =
       [q.config EXCEPT !.bastionMode = FALSE, !.access = NoAccess]
  BY <1>1, <1>6, <1>7, <1>9, <1>13 DEF AnyConfig
<1>15. SameChecks(r, q)
  <2>1. q.handlers = IF r.handlers = <<>> /\ r.config.access.required
                     THEN <<r.config.access>> ELSE r.handlers
    BY <1>1, <1>12, <1>a DEF ChecksOK, c
  <2>2. q.service.policy = IF r.service.kind = "socks" /\ r.service.policy = <<>>
                           THEN r.config.ipRules ELSE r.service.policy
    BY <1>1, <1>11, <1>12, <1>b DEF ChecksOK, c
  <2> QED BY <2>1, <2>2 DEF SameChecks
<1>16. SameOrigin(r, q)
  BY <1>10, <1>11, <1>12, <1>13, <1>14, <1>15 DEF SameOrigin, c
<1> QED BY <1>16 DEF q, d

----------------------------------------------------------------------------
(* The steps of Ingress.                                                   *)
LEMMA IngressInitInv == IngressInit => IngressInv
<1> SUFFICES ASSUME IngressInit PROVE IngressInv OBVIOUS
<1>1. cli \in CLIs BY IngressAssumption DEF IngressInit
<1> QED BY <1>1 DEF IngressInit, IngressInv, MigrationKeepsOrigins

LEMMA ParseConfigInv ==
    ASSUME IngressInv, ParseConfig PROVE IngressInv'
<1> DEFINE d == OriginRequestFromConfig(conf.global)
<1>1. /\ conf.global \in AnyRequest /\ conf.rules \in Seq(AnyRawRule) /\ conf.rules # <<>>
  <2>1. conf.global \in RawOriginRequests /\ conf.rules \in Seq(UnvalidatedIngressRules)
    BY IngressAssumption DEF IngressInv
  <2> QED BY <2>1, RequestsAreAny, RawRulesAreAny DEF ParseConfig
<1>2. d \in AnyConfig /\ KeptIPRules(d.ipRules) BY <1>1, DefaultsFact
<1>3. /\ phase = "start" /\ asked = <<>> /\ asked' = asked
      /\ conf' \in Confs /\ cli' \in CLIs
  BY DEF ParseConfig, IngressInv
<1>4. CASE ValidIngress(conf.rules, d)
  <2>1. phase' = "serving" /\ ing' = ValidateIngress(conf.rules, d) BY <1>4 DEF ParseConfig
  <2>2. RulesOK(ing') BY <1>1, <1>2, <1>4, <2>1, ValidateIngressFact
  <2> QED BY <1>3, <2>1, <2>2 DEF IngressInv, MigrationKeepsOrigins
<1>5. CASE ~ValidIngress(conf.rules, d)
  <2>1. phase' = "rejected" BY <1>5 DEF ParseConfig
  <2> QED BY <1>3, <2>1 DEF IngressInv, MigrationKeepsOrigins
<1> QED BY <1>4, <1>5

LEMMA PlainRuleFact ==
    ASSUME NEW s \in AnyService, NEW c \in AnyConfig, KeptIPRules(c.ipRules),
           NamesItself(s, c), s.policy = <<>>
    PROVE  RulesOK(<<PlainRule(s, c)>>)
<1> DEFINE r == PlainRule(s, c)
<1>1. r = [hostname |-> <<>>, punycode |-> <<>>, path |-> "", service |-> s,
           handlers |-> <<>>, config |-> c]
  BY DEF PlainRule
<1> HIDE DEF r
<1>2. r \in AnyRule
  <2>1. "" \in AnyPath BY DEF AnyPath
  <2>2. <<>> \in Hostnames /\ <<>> \in Seq(AnyAccess) BY DEF Hostnames
  <2> QED BY <1>1, <2>1, <2>2 DEF AnyRule
<1>3. CatchAll(r.hostname, r.path) BY <1>1 DEF CatchAll
<1>4. RuleOK(r) BY <1>1, <1>3 DEF RuleOK, PunycodeOf, ChecksOK
<1>5. <<r>> \in Seq(AnyRule) /\ Len(<<r>>) = 1 /\ <<r>>[1] = r /\ <<r>> # <<>> BY <1>2
<1> QED BY <1>3, <1>4, <1>5 DEF RulesOK, r

LEMMA SingleOriginFact ==
    ASSUME NEW c \in Flags, ~SingleOriginFails(c)
    PROVE  /\ ParseSingleOriginService(c) \in AnyService
           /\ ParseSingleOriginService(c).policy = <<>>
           /\ c.bastion => \A x \in DOMAIN URLServices :
                              ParseSingleOriginService(c) # URLServices[x]
<1> DEFINE s == ParseSingleOriginService(c)
<1>0. c.helloWorld \in BOOLEAN /\ c.bastion \in BOOLEAN BY DEF Flags
<1>1. "hello-world" \in DOMAIN Parsed /\ "unix:p" \in DOMAIN Parsed BY DEF Parsed
<1>2. CASE c.helloWorld
  <2>1. s = Parsed["hello-world"] BY <1>2 DEF ParseSingleOriginService
  <2>2. s.policy = <<>> BY <1>1, <2>1 DEF Parsed, Svc
  <2> QED BY <1>1, <2>1, <2>2, ParsedFact DEF AnyService
<1>3. CASE ~c.helloWorld /\ c.bastion
  <2>1. s = NewBastionService BY <1>3 DEF ParseSingleOriginService
  <2>2. s.policy = <<>> BY <2>1 DEF NewBastionService, Svc
  <2> QED BY <2>1, <2>2, OthersFact DEF AnyService
<1>4. CASE ~c.helloWorld /\ ~c.bastion /\ c.url # ""
  <2>1. s = URLServices[c.url] BY <1>4 DEF ParseSingleOriginService
  <2>2. c.url \in DOMAIN URLServices BY <1>4 DEF SingleOriginFails
  <2>3. s.policy = <<>> BY <2>1, <2>2 DEF URLServices, Svc
  <2> QED BY <1>4, <2>1, <2>2, <2>3 DEF AnyService
<1>5. CASE ~c.helloWorld /\ ~c.bastion /\ c.url = ""
  <2>1. s = Parsed["unix:p"] BY <1>5 DEF ParseSingleOriginService
  <2>2. s.policy = <<>> BY <1>1, <2>1 DEF Parsed, Svc
  <2> QED BY <1>1, <2>1, <2>2, ParsedFact DEF AnyService
<1> QED BY <1>0, <1>2, <1>3, <1>4, <1>5

LEMMA TeamDefaultsFact ==
    /\ TeamDefaults \in AnyConfig /\ TeamDefaults.ipRules = <<>>
    /\ TeamDefaults.connectTimeout = defaultHTTPConnectTimeout
<1>1. NoAccess \in AnyAccess BY DEF AnyAccess
<1>2. <<>> \in Seq(AnyIPRule) OBVIOUS
<1> QED BY <1>1, <1>2 DEF TeamDefaults, AnyConfig, defaultHTTPConnectTimeout

LEMMA SingleRuleFact ==
    ASSUME NEW c \in Flags
    PROVE  LET d == SetConfig(OriginRequestFromSingleRule(c), NothingSet) IN
           d \in AnyConfig /\ KeptIPRules(d.ipRules) /\ d.bastionMode = c.bastion
<1> DEFINE o == OriginRequestFromSingleRule(c)
           t == Or(c.connectTimeout, defaultHTTPConnectTimeout)
<1>1. t \in Int BY OrFact DEF Flags, defaultHTTPConnectTimeout
<1> HIDE DEF t
<1>2. c.bastion \in BOOLEAN BY DEF Flags
<1>3. /\ TeamDefaults \in AnyConfig /\ TeamDefaults.ipRules = <<>>
      /\ TeamDefaults.connectTimeout = defaultHTTPConnectTimeout
  BY TeamDefaultsFact
<1>4. o \in AnyConfig /\ o.ipRules = <<>> /\ o.bastionMode = c.bastion
  BY <1>1, <1>2, <1>3 DEF OriginRequestFromSingleRule, AnyConfig, t
<1> HIDE DEF o
<1>5. KeptIPRules(o.ipRules) BY <1>4 DEF KeptIPRules
<1>6. NothingSet \in AnyRequest BY DEF NothingSet, AnyRequest
<1>7. SetConfig(o, NothingSet) \in AnyConfig /\ KeptIPRules(SetConfig(o, NothingSet).ipRules)
  BY <1>4, <1>5, <1>6, SetConfigFact
<1>8. SetConfig(o, NothingSet).bastionMode = c.bastion
  BY <1>4 DEF SetConfig, NothingSet, Or
<1> QED BY <1>7, <1>8 DEF o

LEMMA ParseCLIInv ==
    ASSUME IngressInv, ParseCLI PROVE IngressInv'
<1>1. /\ phase = "start" /\ asked = <<>> /\ asked' = asked
      /\ conf' \in Confs /\ cli' \in CLIs /\ cli \in Flags
  BY IngressAssumption DEF ParseCLI, IngressInv
<1>2. CASE SingleOriginFails(cli)
  <2>1. phase' = "rejected" BY <1>2 DEF ParseCLI
  <2> QED BY <1>1, <2>1 DEF IngressInv, MigrationKeepsOrigins
<1>3. CASE ~SingleOriginFails(cli)
  <2>1. phase' = "serving" /\ ing' = ParseCLIIngress(cli) BY <1>3 DEF ParseCLI
  <2>2. RulesOK(ParseCLIIngress(cli))
    <3>1. CASE NoOrigin(cli)
      <4> DEFINE s == Parsed["http_status:503"]
      <4>1. "http_status:503" \in DOMAIN Parsed BY DEF Parsed
      <4>2. s \in AnyService BY <4>1 DEF AnyService
      <4>3. \A y \in DOMAIN URLServices : s # URLServices[y] BY <4>1, ParsedFact
      <4>4. ZeroConfig \in AnyConfig /\ ZeroConfig.ipRules = <<>>
        BY TeamDefaultsFact DEF ZeroConfig, AnyConfig
      <4>5. KeptIPRules(ZeroConfig.ipRules) BY <4>4 DEF KeptIPRules
      <4>6. NamesItself(s, ZeroConfig) BY <4>3 DEF NamesItself
      <4>7. s.policy = <<>> BY <4>1 DEF Parsed, Svc
      <4>8. RulesOK(<<PlainRule(s, ZeroConfig)>>)
        BY <4>2, <4>4, <4>5, <4>6, <4>7, PlainRuleFact
      <4> QED BY <3>1, <4>8 DEF ParseCLIIngress, GetDefaultIngressRules
    <3>2. CASE ~NoOrigin(cli)
      <4> DEFINE s == ParseSingleOriginService(cli)
                 d == SetConfig(OriginRequestFromSingleRule(cli), NothingSet)
      <4>1. d \in AnyConfig /\ KeptIPRules(d.ipRules) /\ d.bastionMode = cli.bastion
        BY <1>1, SingleRuleFact
      <4>2. /\ s \in AnyService /\ s.policy = <<>>
            /\ cli.bastion => \A x \in DOMAIN URLServices : s # URLServices[x]
        BY <1>1, <1>3, SingleOriginFact
      <4> HIDE DEF s, d
      <4>3. NamesItself(s, d) BY <4>1, <4>2 DEF NamesItself
      <4>4. RulesOK(<<PlainRule(s, d)>>) BY <4>1, <4>2, <4>3, PlainRuleFact
      <4> QED BY <3>2, <4>4 DEF ParseCLIIngress, s, d
    <3> QED BY <3>1, <3>2
  <2> QED BY <1>1, <2>1, <2>2 DEF IngressInv, MigrationKeepsOrigins
<1> QED BY <1>2, <1>3

LEMMA ProxyHTTPInv ==
    ASSUME IngressInv, ProxyHTTP PROVE IngressInv'
<1>1. UNCHANGED <<conf, cli, phase, ing, local>> BY DEF ProxyHTTP
<1>2. PICK req \in Asks : asked' = <<[req |-> req, rule |-> FindMatchingRule(req)]>>
  BY DEF ProxyHTTP
<1>3. FindMatchingRule(req)' = FindMatchingRule(req) BY <1>1 DEF FindMatchingRule
<1>4. phase \in {"serving", "remote"} BY DEF ProxyHTTP
<1>5. MigrationKeepsOrigins' BY <1>1 DEF IngressInv, MigrationKeepsOrigins
<1> QED BY <1>1, <1>2, <1>3, <1>4, <1>5 DEF IngressInv

LEMMA MigrateToRemoteInv ==
    ASSUME IngressInv, MigrateToRemote PROVE IngressInv'
<1> DEFINE rules == ConvertToUnvalidatedIngressRules
           d == OriginRequestFromConfig(NothingSet)
           n == Len(ing)
<1>1. /\ phase = "serving" /\ RulesOK(ing) /\ local' = ing /\ asked' = <<>>
      /\ conf' \in Confs /\ cli' \in CLIs
  BY DEF MigrateToRemote, IngressInv
<1>2. /\ ing \in Seq(AnyRule) /\ ing # <<>> /\ n \in Nat \ {0} /\ DOMAIN ing = 1 .. n
      /\ \A i \in 1 .. n : ing[i] \in AnyRule /\ RuleOK(ing[i])
  BY <1>1 DEF RulesOK
<1>3. rules = [i \in 1 .. n |-> RawRuleOf(ing[i])]
  BY <1>2 DEF ConvertToUnvalidatedIngressRules, RawRuleOf
<1>4. \A i \in 1 .. n : RawRuleOf(ing[i]) \in AnyRawRule BY <1>2, RawRuleFact
<1>5. d \in AnyConfig /\ KeptIPRules(d.ipRules) BY EmptyFact
<1> HIDE DEF rules, d
<1>6. rules \in Seq(AnyRawRule) /\ Len(rules) = n /\ rules # <<>> BY <1>2, <1>3, <1>4
<1>7. CASE Unmarshals(rules) /\ ValidIngress(rules, d)
  <2>1. phase' = "remote" /\ ing' = ValidateIngress(rules, d)
    BY <1>7 DEF MigrateToRemote, rules, d
  <2>2. RulesOK(ing') BY <1>5, <1>6, <1>7, <2>1, ValidateIngressFact
  <2>3. ing' = [i \in 1 .. n |-> NewRule(rules[i], d)]
    BY <1>6, <2>1 DEF ValidateIngress
  <2>4. \A i \in 1 .. n : SameOrigin(ing[i], ing'[i])
    <3> TAKE i \in 1 .. n
    <3>1. ing'[i] = NewRule(RawRuleOf(ing[i]), d) BY <1>3, <2>3
    <3> QED BY <1>2, <3>1, RuleComesBack DEF d
  <2>5. Len(ing') = n /\ DOMAIN ing' = 1 .. n BY <1>2, <2>3
  <2>6. MigrationKeepsOrigins' BY <1>1, <2>4, <2>5 DEF MigrationKeepsOrigins, SameOrigin
  <2> QED BY <1>1, <2>1, <2>2, <2>6 DEF IngressInv
<1>8. CASE ~(Unmarshals(rules) /\ ValidIngress(rules, d))
  <2>1. phase' = "refused" /\ ing' = ing BY <1>8 DEF MigrateToRemote, rules, d
  <2> QED BY <1>1, <2>1 DEF IngressInv, MigrationKeepsOrigins
<1> QED BY <1>7, <1>8

LEMMA IngressStutterInv ==
    ASSUME IngressInv, UNCHANGED ingressVars PROVE IngressInv'
<1>1. \A req : FindMatchingRule(req)' = FindMatchingRule(req)
  BY DEF FindMatchingRule, ingressVars
<1> QED BY <1>1 DEF IngressInv, ingressVars, MigrationKeepsOrigins

LEMMA IngressNextInv == IngressInv /\ [IngressNext]_ingressVars => IngressInv'
BY ParseConfigInv, ParseCLIInv, ProxyHTTPInv, MigrateToRemoteInv, IngressStutterInv
   DEF IngressNext

(* The invariant of Ingress, for all configurations and command lines.     *)
THEOREM IngressInvariance == IngressSpec => []IngressInv
BY IngressInitInv, IngressNextInv, PTL DEF IngressSpec

(* FindMatchingRule answers every request with the first rule that covers  *)
(* it, however many rules there are and whatever their hostnames: since    *)
(* validateIngress has put a catch-all at the end, there always is one.    *)
THEOREM RoutesToMeant == IngressSpec => []FirstMeantRule
<1>1. IngressInv => FirstMeantRule
  <2> SUFFICES ASSUME IngressInv, asked # <<>> PROVE FirstMeantRule
    BY DEF FirstMeantRule
  <2>1. PICK req \in Asks : asked = <<[req |-> req, rule |-> FindMatchingRule(req)]>>
    BY DEF IngressInv
  <2>2. RulesOK(ing) BY DEF IngressInv
  <2>3. asked[1].req = req /\ asked[1].rule = FindMatchingRule(req) BY <2>1
  <2> QED BY <2>2, <2>3, FoundIsMeant DEF FirstMeantRule
<1> QED BY <1>1, IngressInvariance, PTL

(* A configuration that goes to the edge and comes back keeps the origin,  *)
(* the settings, the JWT validator and the ip rules of every rule,         *)
(* whatever they are, and adds only the checks of the global settings.     *)
THEOREM MigrationIsFaithful == IngressSpec => []MigrationKeepsOrigins
<1>1. IngressInv => MigrationKeepsOrigins BY DEF IngressInv
<1> QED BY <1>1, IngressInvariance, PTL
=============================================================================
