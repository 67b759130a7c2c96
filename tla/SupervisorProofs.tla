-------------------------- MODULE SupervisorProofs --------------------------
(***************************************************************************)
(* Proofs about Supervisor, for any number of tunnels, addresses and       *)
(* retries, and about EdgeAddrs, the address book of its connections.      *)
(*                                                                         *)
(* The bookkeeping of Run is only sound because of what initialize leaves  *)
(* behind, so the invariant follows the supervisor through its phases:     *)
(* which tunnels have been started, that nothing waits before the loop,    *)
(* and what tunnelsActive counts once the loop is entered.                 *)
(***************************************************************************)
EXTENDS Supervisor, EdgeAddrs, FiniteSetTheorems, TLAPS

(* What initialize has done when the supervisor is in a phase.             *)
PhaseInv ==
    /\ phase = "new" => started = 0 /\ Live = {}
    /\ phase \in {"connecting", "cancelled"} => started = 0 /\ Live = {0}
    /\ phase = "starting" => started >= 1 /\ Live = 0 .. started - 1
    /\ phase \in {"loop", "draining"} =>
          \/ started = Tunnels
          \/ started = 0 /\ Live = {} /\ gracefulShutdown
    /\ phase = "returned" /\ started # 0 => result # "nil" \/ Live = {}

(* Nothing waits, and nothing is counted, before the loop.                 *)
BeforeLoop ==
    phase \in {"new", "connecting", "cancelled", "starting"} =>
        tunnelsWaiting = <<>> /\ tunnelsActive = 0

(* A tunnel waits exactly while the timer runs, and only in the loop of    *)
(* tunnels that were started.                                              *)
WaitingInv ==
    /\ backoffTimer <=> tunnelsWaiting # <<>>
    /\ started = 0 => tunnelsWaiting = <<>>

(* Nothing ends gracefully before the shutdown.                            *)
ShutdownInv ==
    /\ shuttingDown => gracefulShutdown
    /\ \A i \in Index : tunnel[i] = "nil" => gracefulShutdown

(* A live tunnel that has not connected since its last start is one Run    *)
(* still waits for.                                                        *)
ConnectInv ==
    started >= 1 => \A i \in Live : i \in tunnelsConnecting \/ link[i] = "notified"

IInv == /\ TypeOK /\ PhaseInv /\ BeforeLoop /\ WaitingInv /\ ShutdownInv /\ ConnectInv
        /\ ActiveCountsLive /\ NoDoubleStart /\ NoTunnelLost

-----------------------------------------------------------------------------
(* Indexes, and the sets of them that are counted.                         *)
LEMMA TunnelsType == Tunnels \in Nat \ {0}
  BY ConnectionsAssumption DEF Tunnels

LEMMA FirstIndex == 0 \in Index
  BY TunnelsType DEF Index

LEMMA IndexFacts ==
    /\ \A i \in Index : i \in Int /\ i # Nil
    /\ IsFiniteSet(Index) /\ Cardinality(Index) = Tunnels
<1>1. 0 \in Int /\ Tunnels - 1 \in Int
  BY TunnelsType
<1>2. IsFiniteSet(Index) /\ Cardinality(Index) = Tunnels
  BY TunnelsType, <1>1, FS_Interval DEF Index
<1> QED  BY <1>2, NilAssumption DEF Index

LEMMA DisjointUnion ==
    ASSUME NEW S, IsFiniteSet(S), NEW T, IsFiniteSet(T), S \cap T = {}
    PROVE  Cardinality(S \cup T) = Cardinality(S) + Cardinality(T)
<1>1. Cardinality(S \cup T) = Cardinality(S) + Cardinality(T) - Cardinality(S \cap T)
  BY FS_Union
<1>2. Cardinality(S \cap T) = 0
  BY FS_EmptySet
<1>3. Cardinality(S) \in Nat /\ Cardinality(T) \in Nat
  BY FS_CardinalityType
<1> QED  BY <1>1, <1>2, <1>3

LEMMA LiveFacts ==
    /\ Live \subseteq Index /\ IsFiniteSet(Live)
    /\ Cardinality(Live) \in 0 .. Tunnels
    /\ Cardinality(Live) = 0 <=> Live = {}
<1>1. Live \subseteq Index
  BY DEF Live
<1>2. IsFiniteSet(Live) /\ Cardinality(Live) <= Cardinality(Index)
  BY <1>1, IndexFacts, FS_Subset
<1> QED  BY <1>1, <1>2, TunnelsType, IndexFacts, FS_CardinalityType, FS_EmptySet

(* The tunnels that wait, counted along their sequence.                    *)
LEMMA WaitingFacts ==
    ASSUME TypeOK
    PROVE  /\ Waiting \subseteq Index /\ IsFiniteSet(Waiting)
           /\ Waiting = {} <=> tunnelsWaiting = <<>>
           /\ tunnelsWaiting # <<>> => tunnelsWaiting[Len(tunnelsWaiting)] \in Index
<1>0. tunnelsWaiting \in Seq(Index)
  BY DEF TypeOK
<1>1. Waiting \subseteq Index
  BY <1>0 DEF Waiting
<1>2. IsFiniteSet(Waiting)
  BY <1>1, IndexFacts, FS_Subset
<1>3. tunnelsWaiting = <<>> => Waiting = {}
  BY DEF Waiting
<1>4. ASSUME tunnelsWaiting # <<>>
      PROVE  tunnelsWaiting[Len(tunnelsWaiting)] \in Waiting
  <2>1. Len(tunnelsWaiting) \in 1 .. Len(tunnelsWaiting)
    BY <1>0, <1>4
  <2> QED
    BY <2>1 DEF Waiting
<1> QED  BY <1>1, <1>2, <1>3, <1>4

(* Receiving the result of a tunnel takes it from the live ones.           *)
LEMMA ReceiveFacts ==
    ASSUME TypeOK, NEW i \in Index, Receive(i)
    PROVE  /\ tunnel' \in [Index -> {"none", "serve"} \cup Results]
           /\ \A j \in Index : j # i => tunnel'[j] = tunnel[j]
           /\ tunnel'[i] = "none"
           /\ i \in Live /\ Live' = Live \ {i}
           /\ Cardinality(Live') = Cardinality(Live) - 1
<1>1. /\ tunnel' \in [Index -> {"none", "serve"} \cup Results]
      /\ \A j \in Index : j # i => tunnel'[j] = tunnel[j]
      /\ tunnel'[i] = "none" /\ tunnel[i] # "none"
  BY DEF TypeOK, Receive, Results
<1>2. i \in Live /\ Live' = Live \ {i}
  BY <1>1 DEF Live
<1>3. Cardinality(Live') = Cardinality(Live) - 1
  BY <1>2, LiveFacts, FS_RemoveElement
<1> QED  BY <1>1, <1>2, <1>3

(* Starting a set of tunnels makes them live, and not connected.           *)
LEMMA StartFacts ==
    ASSUME TypeOK, NEW S \in SUBSET Index, StartTunnels(S)
    PROVE  /\ tunnel' \in [Index -> {"none", "serve"} \cup Results]
           /\ link' \in [Index -> {"down", "fused", "notified"}]
           /\ isFirst' \in BOOLEAN
           /\ \A j \in Index : tunnel'[j] = IF j \in S THEN "serve" ELSE tunnel[j]
           /\ \A j \in Index : j \notin S => link'[j] = link[j]
           /\ Live' = Live \cup S
<1>1. /\ tunnel' \in [Index -> {"none", "serve"} \cup Results]
      /\ link' \in [Index -> {"down", "fused", "notified"}]
      /\ \A j \in Index : tunnel'[j] = IF j \in S THEN "serve" ELSE tunnel[j]
      /\ \A j \in Index : j \notin S => link'[j] = link[j]
  BY DEF TypeOK, StartTunnels
<1>2. isFirst' \in BOOLEAN
  BY DEF StartTunnels
<1> QED  BY <1>1, <1>2 DEF Live

(* What waitForNextTunnel waits for is a tunnel that is connecting.        *)
LEMMA WaitFacts ==
    ASSUME TypeOK, NEW i, WaitForNextTunnel(i)
    PROVE  /\ tunnelsConnecting' \subseteq Index
           /\ tunnelsConnecting' = tunnelsConnecting \ {i}
           /\ nextConnectedSignal' \in Index \cup {Nil}
  BY DEF TypeOK, WaitForNextTunnel

(* The backoff handler stays within its retries.                           *)
LEMMA BackoffFacts ==
    ASSUME NEW b \in Handlers(MaxRetries)
    PROVE  /\ BackoffTimer(b, MaxRetries) \in Handlers(MaxRetries)
           /\ SetGracePeriod(b) \in Handlers(MaxRetries)
           /\ DeadlinePasses(b) \in Handlers(MaxRetries)
           /\ BackoffTimer(b, MaxRetries).deadline = "future" => b.deadline = "future"
           /\ DeadlinePasses(b).deadline # "future"
  BY OptionsAssumption DEF Handlers, BackoffTimer, SetGracePeriod, DeadlinePasses, Deadlines

LEMMA SameTunnels ==
    ASSUME tunnel' = tunnel
    PROVE  Live' = Live
  BY DEF Live

LEMMA SameWaiting ==
    ASSUME tunnelsWaiting' = tunnelsWaiting
    PROVE  Waiting' = Waiting
  BY DEF Waiting

(* At first nothing has been started.                                      *)
LEMMA InitInv == Init => IInv
<1> SUFFICES ASSUME Init PROVE IInv
  OBVIOUS
<1>1. Live = {}
  BY DEF Init, Live
<1>2. Waiting = {}
  BY DEF Init, Waiting
<1>3. backoff \in Handlers(MaxRetries)
  BY OptionsAssumption DEF Init, NewBackoff, Handlers, Deadlines
<1>4. tunnelsWaiting \in Seq(Index) /\ tunnelsActive \in 0 .. Tunnels
  <2>1. Tunnels \in Nat
    BY TunnelsType
  <2> QED  BY <2>1 DEF Init
<1>5. TypeOK
  <2>1. Tunnels \in Nat
    BY TunnelsType
  <2> QED  BY <2>1, <1>3, <1>4 DEF Init, TypeOK, Phases
<1>6. PhaseInv /\ BeforeLoop /\ WaitingInv /\ ShutdownInv /\ ConnectInv
  BY <1>1 DEF Init, PhaseInv, BeforeLoop, WaitingInv, ShutdownInv, ConnectInv
<1>7. ActiveCountsLive /\ NoTunnelLost
  BY DEF Init, ActiveCountsLive, NoTunnelLost
<1>8. NoDoubleStart
  BY <1>2, FS_EmptySet DEF Init, NoDoubleStart
<1> QED  BY <1>5, <1>6, <1>7, <1>8 DEF IInv

-----------------------------------------------------------------------------
(* initialize.                                                             *)

LEMMA StartFirstInv ==
    ASSUME IInv, StartFirst
    PROVE  IInv'
<1> USE DEF StartFirst, loopVars, connectVars, envVars
<1>1. Live' = {0}
  <2>1. tunnel \in [Index -> {"none", "serve"} \cup Results]
    BY DEF IInv, TypeOK
  <2>2. Live = {}
    BY DEF IInv, PhaseInv
  <2> QED  BY <2>1, <2>2, FirstIndex DEF Live
<1>2. Waiting' = Waiting /\ Waiting = {}
  BY WaitingFacts, SameWaiting DEF IInv, BeforeLoop
<1>3. TypeOK'
  BY DEF IInv, TypeOK, Phases
<1>4. PhaseInv' /\ BeforeLoop' /\ WaitingInv' /\ ConnectInv'
  BY <1>1 DEF IInv, PhaseInv, BeforeLoop, WaitingInv, ConnectInv
<1>5. ShutdownInv'
  BY DEF IInv, TypeOK, ShutdownInv
<1>6. ActiveCountsLive' /\ NoTunnelLost' /\ NoDoubleStart'
  BY <1>2 DEF IInv, ActiveCountsLive, NoTunnelLost, NoDoubleStart
<1> QED  BY <1>3, <1>4, <1>5, <1>6 DEF IInv

(* The steps of initialize that touch neither tunnels nor counters.        *)
LEMMA QuietInitInv ==
    ASSUME IInv, InitCtxDone \/ InitEarlyShutdown
    PROVE  IInv'
<1> USE DEF InitCtxDone, InitEarlyShutdown, Return, loopVars, connectVars, tunnelVars,
            envVars
<1>1. Live' = Live /\ Waiting' = Waiting /\ Waiting = {}
  BY SameTunnels, SameWaiting, WaitingFacts DEF IInv, BeforeLoop
<1>2. TypeOK'
  BY DEF IInv, TypeOK, Phases
<1>3. PhaseInv' /\ BeforeLoop' /\ WaitingInv' /\ ConnectInv'
  BY <1>1 DEF IInv, PhaseInv, BeforeLoop, WaitingInv, ConnectInv
<1>4. ShutdownInv'
  BY DEF IInv, ShutdownInv
<1>5. ActiveCountsLive' /\ NoTunnelLost' /\ NoDoubleStart'
  BY <1>1 DEF IInv, ActiveCountsLive, NoTunnelLost, NoDoubleStart
<1> QED  BY <1>2, <1>3, <1>4, <1>5 DEF IInv

(* The first tunnel ends, with or without an error.                        *)
LEMMA FirstEndsInv ==
    ASSUME IInv, InitCancelled \/ InitFailed \/ InitNil
    PROVE  IInv'
<1> USE DEF InitCancelled, InitFailed, InitNil, Return, connectVars, envVars
<1>1. Live' = {} /\ tunnel' \in [Index -> {"none", "serve"} \cup Results]
      /\ \A j \in Index : tunnel'[j] # "nil"
  <2>1. Receive(0) /\ 0 \in Index
    BY FirstIndex
  <2>2. Live = {0}
    BY DEF IInv, PhaseInv
  <2>3. Live' = Live \ {0} /\ tunnel' \in [Index -> {"none", "serve"} \cup Results]
    BY <2>1, ReceiveFacts DEF IInv
  <2> QED  BY <2>2, <2>3 DEF Live
<1>2. Waiting' = Waiting /\ Waiting = {}
  BY SameWaiting, WaitingFacts DEF IInv, BeforeLoop, loopVars
<1>3. tunnelsActive' \in 0 .. Tunnels
  <2>1. Tunnels \in Nat
    BY TunnelsType
  <2> QED  BY <2>1 DEF IInv, TypeOK, loopVars
<1>4. TypeOK'
  BY <1>1, <1>3 DEF IInv, TypeOK, Phases, loopVars
<1>5. phase' = "loop" => gracefulShutdown
  <2>1. 0 \in Index
    BY FirstIndex
  <2> QED  BY <2>1 DEF IInv, ShutdownInv
<1>6. PhaseInv' /\ ConnectInv'
  BY <1>1, <1>5 DEF IInv, PhaseInv, ConnectInv
<1>7. BeforeLoop' /\ WaitingInv'
  BY DEF IInv, PhaseInv, BeforeLoop, WaitingInv, loopVars
<1>8. ShutdownInv'
  BY <1>1 DEF IInv, ShutdownInv, loopVars
<1>9. ActiveCountsLive' /\ NoTunnelLost'
  BY <1>5 DEF IInv, PhaseInv, ActiveCountsLive, NoTunnelLost, Initialized
<1>10. NoDoubleStart'
  BY <1>2 DEF IInv, NoDoubleStart, loopVars
<1> QED  BY <1>4, <1>6, <1>7, <1>8, <1>9, <1>10 DEF IInv

(* The first tunnel has connected: the others are started one by one.      *)
LEMMA InitConnectedInv ==
    ASSUME IInv, InitConnected
    PROVE  IInv'
<1> USE DEF InitConnected, loopVars, connectVars, tunnelVars, envVars
<1>1. Live' = Live /\ Waiting' = Waiting /\ Waiting = {}
  BY SameTunnels, SameWaiting, WaitingFacts DEF IInv, BeforeLoop
<1>2. TypeOK'
  <2>1. started' \in 0 .. Tunnels
    BY TunnelsType
  <2> QED  BY <2>1 DEF IInv, TypeOK, Phases
<1>3. PhaseInv' /\ ConnectInv'
  BY <1>1 DEF IInv, PhaseInv, ConnectInv
<1>4. BeforeLoop' /\ WaitingInv' /\ ShutdownInv'
  BY DEF IInv, BeforeLoop, WaitingInv, ShutdownInv
<1>5. ActiveCountsLive' /\ NoTunnelLost' /\ NoDoubleStart'
  BY <1>1 DEF IInv, ActiveCountsLive, NoTunnelLost, NoDoubleStart
<1> QED  BY <1>2, <1>3, <1>4, <1>5 DEF IInv

LEMMA StartNextInv ==
    ASSUME IInv, StartNext
    PROVE  IInv'
<1> USE DEF StartNext, loopVars, envVars
<1>1. started \in Index /\ started' \in 0 .. Tunnels
  <2>1. Tunnels \in Nat /\ started \in 0 .. Tunnels
    BY TunnelsType DEF IInv, TypeOK
  <2> QED  BY <2>1 DEF Index
<1>2. /\ tunnel' \in [Index -> {"none", "serve"} \cup Results]
      /\ link' \in [Index -> {"down", "fused", "notified"}]
      /\ isFirst' \in BOOLEAN
      /\ \A j \in Index : tunnel'[j] = IF j = started THEN "serve" ELSE tunnel[j]
      /\ \A j \in Index : j # started => link'[j] = link[j]
      /\ Live' = Live \cup {started}
  BY <1>1, StartFacts DEF IInv
<1>3. /\ tunnelsConnecting' = tunnelsConnecting \cup {started}
      /\ nextConnectedSignal' = started
  BY DEF NewConnectedTunnelSignals
<1>4. Waiting' = Waiting /\ Waiting = {}
  BY SameWaiting, WaitingFacts DEF IInv, BeforeLoop
<1>5. TypeOK'
  BY <1>1, <1>2, <1>3 DEF IInv, TypeOK
<1>6. PhaseInv'
  <2>1. Live = 0 .. started - 1 /\ started \in Nat
    BY <1>1 DEF IInv, PhaseInv, TypeOK
  <2>2. Live' = 0 .. started' - 1
    BY <2>1, <1>2
  <2> QED  BY <2>1, <2>2 DEF IInv, PhaseInv
<1>7. ConnectInv'
  <2>1. Live \subseteq Index
    BY LiveFacts
  <2> QED  BY <1>1, <1>2, <1>3, <2>1 DEF IInv, PhaseInv, ConnectInv
<1>8. BeforeLoop' /\ WaitingInv'
  BY <1>1 DEF IInv, BeforeLoop, WaitingInv
<1>9. ShutdownInv'
  BY <1>2 DEF IInv, ShutdownInv
<1>10. ActiveCountsLive' /\ NoTunnelLost' /\ NoDoubleStart'
  BY <1>4 DEF IInv, ActiveCountsLive, NoTunnelLost, NoDoubleStart
<1> QED  BY <1>5, <1>6, <1>7, <1>8, <1>9, <1>10 DEF IInv

(* The loop begins with all of them.                                       *)
LEMMA AllStartedInv ==
    ASSUME IInv, AllStarted
    PROVE  IInv'
<1> USE DEF AllStarted, connectVars, tunnelVars, envVars
<1>1. Live' = Live /\ Waiting' = Waiting /\ Waiting = {}
  BY SameTunnels, SameWaiting, WaitingFacts DEF IInv, BeforeLoop
<1>2. started = Tunnels /\ started >= 1 /\ Tunnels \in Nat
  BY TunnelsType DEF IInv, TypeOK, PhaseInv
<1>3. Live = Index
  BY <1>2 DEF IInv, PhaseInv, Index
<1>4. TypeOK'
  BY <1>2 DEF IInv, TypeOK, Phases
<1>5. PhaseInv' /\ ConnectInv'
  BY <1>1, <1>2 DEF IInv, PhaseInv, ConnectInv
<1>6. BeforeLoop' /\ WaitingInv' /\ ShutdownInv'
  BY DEF IInv, BeforeLoop, WaitingInv, ShutdownInv
<1>7. ActiveCountsLive'
  BY <1>1, <1>3, IndexFacts DEF ActiveCountsLive
<1>8. NoTunnelLost' /\ NoDoubleStart'
  BY <1>1, <1>3 DEF IInv, NoTunnelLost, NoDoubleStart
<1> QED  BY <1>4, <1>5, <1>6, <1>7, <1>8 DEF IInv

-----------------------------------------------------------------------------
(* The loop of Run.                                                        *)

(* A loop with a live tunnel is one that initialize prepared.              *)
LEMMA InLoop ==
    ASSUME IInv, phase \in {"loop", "draining"}, Live # {}
    PROVE  /\ started = Tunnels /\ started >= 1 /\ Tunnels \in Nat
           /\ tunnelsActive = Cardinality(Live)
           /\ tunnelsActive \in 1 .. Tunnels
<1>1. started = Tunnels /\ started >= 1 /\ Tunnels \in Nat
  BY TunnelsType DEF IInv, PhaseInv
<1>2. tunnelsActive = Cardinality(Live)
  BY <1>1 DEF IInv, ActiveCountsLive, Initialized
<1> QED  BY <1>1, <1>2, LiveFacts

LEMMA RunCtxDoneInv ==
    ASSUME IInv, RunCtxDone
    PROVE  IInv'
<1> USE DEF RunCtxDone, loopVars, connectVars, tunnelVars, envVars
<1>1. Live' = Live /\ Waiting' = Waiting
  BY SameTunnels, SameWaiting
<1>2. TypeOK'
  BY DEF IInv, TypeOK, Phases
<1>3. PhaseInv' /\ ConnectInv' /\ BeforeLoop' /\ WaitingInv' /\ ShutdownInv'
  BY <1>1 DEF IInv, PhaseInv, ConnectInv, BeforeLoop, WaitingInv, ShutdownInv
<1>4. ActiveCountsLive' /\ NoTunnelLost' /\ NoDoubleStart'
  BY <1>1 DEF IInv, ActiveCountsLive, NoTunnelLost, NoDoubleStart, Initialized
<1> QED  BY <1>2, <1>3, <1>4 DEF IInv

(* A tunnel's end is received and it is not started again: draining, or in *)
(* a shutdown.                                                             *)
LEMMA EndsInv ==
    ASSUME IInv, NEW i \in Index, Drain(i) \/ TunnelFailsCancelled(i) \/ TunnelExits(i)
    PROVE  IInv'
<1> USE DEF Drain, TunnelFailsCancelled, TunnelExits, MayRetry, Return, LastTunnel,
            connectVars, envVars
<1>1. /\ tunnel' \in [Index -> {"none", "serve"} \cup Results]
      /\ \A j \in Index : j # i => tunnel'[j] = tunnel[j]
      /\ tunnel'[i] = "none" /\ i \in Live /\ Live' = Live \ {i}
      /\ Cardinality(Live') = Cardinality(Live) - 1
  BY ReceiveFacts DEF IInv
<1>2. /\ started = Tunnels /\ started >= 1 /\ Tunnels \in Nat
      /\ tunnelsActive = Cardinality(Live) /\ tunnelsActive \in 1 .. Tunnels
  BY <1>1, InLoop
<1>3. Waiting' = Waiting
  BY SameWaiting
<1>4. TypeOK'
  BY <1>1, <1>2 DEF IInv, TypeOK, Phases
<1>5. PhaseInv'
  <2>1. phase' = "returned" => Live' = {}
    <3>1. phase' = "returned" => Cardinality(Live') = 0
      BY <1>1, <1>2
    <3>2. IsFiniteSet(Live')
      BY <1>1, LiveFacts, FS_RemoveElement
    <3> QED  BY <3>1, <3>2, FS_EmptySet
  <2> QED  BY <2>1, <1>2 DEF IInv, PhaseInv
<1>6. ConnectInv'
  BY <1>1, <1>2 DEF IInv, ConnectInv
<1>7. BeforeLoop' /\ WaitingInv'
  BY <1>2 DEF IInv, BeforeLoop, WaitingInv
<1>8. ShutdownInv'
  BY <1>1 DEF IInv, ShutdownInv
<1>9. ActiveCountsLive'
  BY <1>1, <1>2 DEF IInv, ActiveCountsLive
<1>10. NoDoubleStart'
  <2>1. Waiting \subseteq Index /\ \A j \in Waiting : tunnel[j] = "none"
    BY WaitingFacts DEF IInv, NoDoubleStart
  <2>2. \A j \in Waiting : tunnel'[j] = "none"
    BY <1>1, <2>1
  <2> QED  BY <2>2, <1>3 DEF IInv, NoDoubleStart
<1>11. NoTunnelLost'
  <2>1. gracefulShutdown \/ ctxDone \/ phase = "draining"
    BY DEF IInv, ShutdownInv
  <2> QED  BY <2>1 DEF NoTunnelLost
<1> QED  BY <1>4, <1>5, <1>6, <1>7, <1>8, <1>9, <1>10, <1>11 DEF IInv

LEMMA DrainedInv ==
    ASSUME IInv, Drained
    PROVE  IInv'
<1> USE DEF Drained, AllDrained, Return, loopVars, connectVars, tunnelVars, envVars
<1>1. Live' = Live /\ Waiting' = Waiting
  BY SameTunnels, SameWaiting
<1>2. Live = {}
  <2>1. Live # {} => tunnelsActive \in 1 .. Tunnels
    BY InLoop
  <2> QED  BY <2>1, TunnelsType
<1>3. TypeOK'
  BY DEF IInv, TypeOK, Phases
<1>4. PhaseInv' /\ ConnectInv' /\ BeforeLoop' /\ WaitingInv' /\ ShutdownInv'
  BY <1>1, <1>2 DEF IInv, PhaseInv, ConnectInv, BeforeLoop, WaitingInv, ShutdownInv
<1>5. ActiveCountsLive' /\ NoTunnelLost' /\ NoDoubleStart'
  BY <1>1 DEF IInv, ActiveCountsLive, NoTunnelLost, NoDoubleStart
<1> QED  BY <1>3, <1>4, <1>5 DEF IInv

LEMMA TunnelReconnectsInv ==
    ASSUME IInv, NEW i \in Index, TunnelReconnects(i)
    PROVE  IInv'
<1> USE DEF TunnelReconnects, loopVars, envVars
<1>1. /\ tunnel' \in [Index -> {"none", "serve"} \cup Results]
      /\ link' \in [Index -> {"down", "fused", "notified"}]
      /\ isFirst' \in BOOLEAN
      /\ \A j \in Index : tunnel'[j] = IF j = i THEN "serve" ELSE tunnel[j]
      /\ \A j \in Index : j # i => link'[j] = link[j]
      /\ Live' = Live \cup {i}
  BY StartFacts DEF IInv
<1>2. i \in Live
  BY DEF Live
<1>3. Live' = Live
  BY <1>1, <1>2
<1>4. /\ tunnelsConnecting' = tunnelsConnecting \cup {i}
      /\ nextConnectedSignal' = i
  BY DEF NewConnectedTunnelSignals
<1>5. Waiting' = Waiting
  BY SameWaiting
<1>6. TypeOK'
  BY <1>1, <1>4 DEF IInv, TypeOK
<1>7. PhaseInv' /\ BeforeLoop' /\ WaitingInv'
  BY <1>3 DEF IInv, PhaseInv, BeforeLoop, WaitingInv
<1>8. ConnectInv'
  BY <1>1, <1>3, <1>4, LiveFacts DEF IInv, ConnectInv
<1>9. ShutdownInv'
  BY <1>1 DEF IInv, ShutdownInv
<1>10. ActiveCountsLive' /\ NoTunnelLost'
  BY <1>3, <1>5 DEF IInv, ActiveCountsLive, NoTunnelLost, Initialized
<1>11. NoDoubleStart'
  BY <1>1, <1>5, WaitingFacts DEF IInv, NoDoubleStart
<1> QED  BY <1>6, <1>7, <1>8, <1>9, <1>10, <1>11 DEF IInv

(* A tunnel failed: it joins the ones that wait for the backoff.           *)
LEMMA TunnelFailsInv ==
    ASSUME IInv, NEW i \in Index, TunnelFails(i)
    PROVE  IInv'
<1> USE DEF TunnelFails, MayRetry, envVars
<1>1. /\ tunnel' \in [Index -> {"none", "serve"} \cup Results]
      /\ \A j \in Index : j # i => tunnel'[j] = tunnel[j]
      /\ tunnel'[i] = "none" /\ i \in Live /\ Live' = Live \ {i}
      /\ Cardinality(Live') = Cardinality(Live) - 1
  BY ReceiveFacts DEF IInv
<1>2. /\ started = Tunnels /\ started >= 1 /\ Tunnels \in Nat
      /\ tunnelsActive = Cardinality(Live) /\ tunnelsActive \in 1 .. Tunnels
  BY <1>1, InLoop
<1>3. /\ tunnelsConnecting' \subseteq Index
      /\ tunnelsConnecting' = tunnelsConnecting \ {i}
      /\ nextConnectedSignal' \in Index \cup {Nil}
  BY WaitFacts DEF IInv
<1>4. backoffTimer' = TRUE /\ backoff' \in Handlers(MaxRetries)
  BY BackoffFacts DEF IInv, TypeOK, ArmTimer
<1>5. /\ tunnelsWaiting' \in Seq(Index) /\ tunnelsWaiting' # <<>>
      /\ Len(tunnelsWaiting') = Len(tunnelsWaiting) + 1
      /\ Waiting' = Waiting \cup {i}
  <2>1. tunnelsWaiting \in Seq(Index) /\ tunnelsWaiting' = Append(tunnelsWaiting, i)
    BY DEF IInv, TypeOK
  <2>2. Waiting' = Waiting \cup {i}
    BY <2>1 DEF Waiting
  <2> QED  BY <2>1, <2>2
<1>6. i \notin Waiting
  BY <1>1 DEF IInv, NoDoubleStart, Live
<1>7. TypeOK'
  BY <1>1, <1>2, <1>3, <1>4, <1>5 DEF IInv, TypeOK
<1>8. PhaseInv' /\ BeforeLoop' /\ WaitingInv'
  BY <1>2, <1>4, <1>5, TunnelsType DEF IInv, PhaseInv, BeforeLoop, WaitingInv
<1>9. ConnectInv'
  BY <1>1, <1>2, <1>3 DEF IInv, ConnectInv
<1>10. ShutdownInv'
  BY <1>1 DEF IInv, ShutdownInv
<1>11. ActiveCountsLive'
  BY <1>1, <1>2 DEF ActiveCountsLive
<1>12. NoDoubleStart'
  <2>1. \A j \in Waiting' : tunnel'[j] = "none"
    BY <1>1, <1>5, WaitingFacts DEF IInv, NoDoubleStart
  <2>2. Cardinality(Waiting') = Cardinality(Waiting) + 1
    BY <1>5, <1>6, WaitingFacts, FS_AddElement DEF IInv
  <2> QED  BY <1>5, <2>1, <2>2 DEF IInv, NoDoubleStart
<1>13. NoTunnelLost'
  BY <1>1, <1>4, <1>5 DEF IInv, NoTunnelLost
<1> QED  BY <1>7, <1>8, <1>9, <1>10, <1>11, <1>12, <1>13 DEF IInv

(* The timer fires: what waits is started, and counted again.              *)
LEMMA BackoffExpiresInv ==
    ASSUME IInv, BackoffExpires
    PROVE  IInv'
<1> USE DEF BackoffExpires, envVars
<1>1. Waiting \subseteq Index /\ IsFiniteSet(Waiting) /\ Waiting # {}
      /\ tunnelsWaiting[Len(tunnelsWaiting)] \in Index
  BY WaitingFacts DEF IInv, WaitingInv
<1>2. /\ StartTunnels(Waiting)
      /\ NewConnectedTunnelSignals(Waiting, tunnelsWaiting[Len(tunnelsWaiting)])
  BY DEF Waiting
<1>3. /\ tunnel' \in [Index -> {"none", "serve"} \cup Results]
      /\ link' \in [Index -> {"down", "fused", "notified"}]
      /\ isFirst' \in BOOLEAN
      /\ \A j \in Index : tunnel'[j] = IF j \in Waiting THEN "serve" ELSE tunnel[j]
      /\ \A j \in Index : j \notin Waiting => link'[j] = link[j]
      /\ Live' = Live \cup Waiting
  BY <1>1, <1>2, StartFacts DEF IInv
<1>4. /\ tunnelsConnecting' = tunnelsConnecting \cup Waiting
      /\ nextConnectedSignal' \in Index
  BY <1>1, <1>2 DEF NewConnectedTunnelSignals
<1>5. /\ started = Tunnels /\ started >= 1 /\ Tunnels \in Nat
      /\ tunnelsActive = Cardinality(Live)
  <2>1. started # 0
    BY <1>1, WaitingFacts DEF IInv, WaitingInv
  <2>2. started = Tunnels /\ started >= 1 /\ Tunnels \in Nat
    BY <2>1, TunnelsType DEF IInv, PhaseInv
  <2> QED  BY <2>2 DEF IInv, ActiveCountsLive, Initialized
<1>6. tunnelsActive' = Cardinality(Live')
  <2>1. Live \cap Waiting = {}
    BY DEF IInv, NoDoubleStart, Live
  <2>2. Cardinality(Live \cup Waiting) = Cardinality(Live) + Cardinality(Waiting)
    BY <1>1, <2>1, LiveFacts, DisjointUnion
  <2> QED  BY <1>3, <1>5, <2>2 DEF IInv, NoDoubleStart, CountRestarted
<1>7. tunnelsActive' \in 0 .. Tunnels
  <2>1. Live' \subseteq Index
    BY <1>1, <1>3, LiveFacts
  <2>2. IsFiniteSet(Live') /\ Cardinality(Live') <= Cardinality(Index)
    BY <2>1, IndexFacts, FS_Subset
  <2> QED  BY <1>5, <1>6, <2>2, IndexFacts, FS_CardinalityType
<1>8. tunnelsWaiting' = <<>> /\ tunnelsWaiting' \in Seq(Index) /\ Len(tunnelsWaiting') = 0
      /\ Waiting' = {}
  BY DEF ClearWaiting, Waiting
<1>9. TypeOK'
  BY <1>1, <1>3, <1>4, <1>7, <1>8 DEF IInv, TypeOK
<1>10. PhaseInv' /\ BeforeLoop' /\ WaitingInv'
  BY <1>5, <1>8, TunnelsType DEF IInv, PhaseInv, BeforeLoop, WaitingInv
<1>11. ConnectInv'
  BY <1>1, <1>3, <1>4, <1>5, LiveFacts DEF IInv, ConnectInv
<1>12. ShutdownInv'
  BY <1>3 DEF IInv, ShutdownInv
<1>13. ActiveCountsLive'
  BY <1>6 DEF ActiveCountsLive
<1>14. NoDoubleStart'
  BY <1>8, FS_EmptySet DEF NoDoubleStart
<1>15. NoTunnelLost'
  BY <1>3, <1>8 DEF IInv, NoTunnelLost
<1> QED  BY <1>9, <1>10, <1>11, <1>12, <1>13, <1>14, <1>15 DEF IInv

(* The tunnel Run waited for is connected: it waits for another.           *)
LEMMA TunnelConnectedInv ==
    ASSUME IInv, TunnelConnected
    PROVE  IInv'
<1> USE DEF TunnelConnected, tunnelVars, envVars
<1>1. Live' = Live /\ Waiting' = Waiting
  BY SameTunnels, SameWaiting
<1>2. /\ tunnelsConnecting' \subseteq Index
      /\ tunnelsConnecting' = tunnelsConnecting \ {nextConnectedSignal}
      /\ nextConnectedSignal' \in Index \cup {Nil}
  BY WaitFacts DEF IInv
<1>3. backoff' \in Handlers(MaxRetries)
  BY BackoffFacts DEF IInv, TypeOK
<1>4. TypeOK'
  BY <1>2, <1>3 DEF IInv, TypeOK
<1>5. ConnectInv'
  BY <1>1, <1>2 DEF IInv, ConnectInv
<1>6. PhaseInv' /\ BeforeLoop' /\ WaitingInv' /\ ShutdownInv'
  BY <1>1 DEF IInv, PhaseInv, BeforeLoop, WaitingInv, ShutdownInv
<1>7. ActiveCountsLive' /\ NoTunnelLost' /\ NoDoubleStart'
  BY <1>1 DEF IInv, ActiveCountsLive, NoTunnelLost, NoDoubleStart, Initialized
<1> QED  BY <1>4, <1>5, <1>6, <1>7 DEF IInv

(* The steps that leave the tunnels and what is counted alone: the context *)
(* and the shutdown, the grace period running out, a stutter.              *)
LEMMA QuietInv ==
    ASSUME IInv, \/ RunGracefulShutdown \/ BackoffDeadlinePasses
                 \/ CancelContext \/ CloseGracefulShutdown
    PROVE  IInv'
<1> USE DEF RunGracefulShutdown, BackoffDeadlinePasses, CancelContext,
            CloseGracefulShutdown, tunnelVars, connectVars, envVars
<1>1. /\ tunnel' = tunnel /\ link' = link /\ isFirst' = isFirst
      /\ tunnelsWaiting' = tunnelsWaiting /\ tunnelsActive' = tunnelsActive
      /\ backoffTimer' = backoffTimer /\ phase' = phase /\ result' = result
      /\ started' = started /\ tunnelsConnecting' = tunnelsConnecting
      /\ nextConnectedSignal' = nextConnectedSignal
  BY DEF loopVars
<1>2. Live' = Live /\ Waiting' = Waiting
  BY <1>1, SameTunnels, SameWaiting
<1>3. backoff' \in Handlers(MaxRetries) /\ shuttingDown' \in BOOLEAN
      /\ ctxDone' \in BOOLEAN /\ gracefulShutdown' \in BOOLEAN
  BY BackoffFacts DEF IInv, TypeOK, loopVars
<1>4. (gracefulShutdown => gracefulShutdown') /\ (ctxDone => ctxDone')
      /\ (shuttingDown' => gracefulShutdown')
  BY DEF IInv, ShutdownInv, loopVars
<1>5. TypeOK'
  BY <1>1, <1>3 DEF IInv, TypeOK
<1>6. PhaseInv' /\ BeforeLoop' /\ WaitingInv' /\ ShutdownInv' /\ ConnectInv'
  BY <1>1, <1>2, <1>4 DEF IInv, PhaseInv, BeforeLoop, WaitingInv, ShutdownInv, ConnectInv
<1>7. ActiveCountsLive' /\ NoTunnelLost' /\ NoDoubleStart'
  BY <1>1, <1>2, <1>4 DEF IInv, ActiveCountsLive, NoTunnelLost, NoDoubleStart, Initialized
<1> QED  BY <1>5, <1>6, <1>7 DEF IInv

LEMMA StutterInv ==
    ASSUME IInv, UNCHANGED vars
    PROVE  IInv'
<1> USE DEF vars, loopVars, tunnelVars, connectVars, envVars
<1>1. Live' = Live /\ Waiting' = Waiting
  BY SameTunnels, SameWaiting
<1>2. TypeOK'
  BY DEF IInv, TypeOK
<1>3. PhaseInv' /\ BeforeLoop' /\ WaitingInv' /\ ShutdownInv' /\ ConnectInv'
  BY <1>1 DEF IInv, PhaseInv, BeforeLoop, WaitingInv, ShutdownInv, ConnectInv
<1>4. ActiveCountsLive' /\ NoTunnelLost' /\ NoDoubleStart'
  BY <1>1 DEF IInv, ActiveCountsLive, NoTunnelLost, NoDoubleStart, Initialized
<1> QED  BY <1>2, <1>3, <1>4 DEF IInv

-----------------------------------------------------------------------------
(* The tunnel goroutines.                                                  *)

LEMMA LinkInv ==
    ASSUME IInv, NEW i \in Index, Register(i) \/ Notify(i)
    PROVE  IInv'
<1> USE DEF Register, Notify, loopVars, connectVars, envVars
<1>1. Live' = Live /\ Waiting' = Waiting
  BY SameTunnels, SameWaiting
<1>2. /\ link' \in [Index -> {"down", "fused", "notified"}]
      /\ \A j \in Index : link[j] = "notified" => link'[j] = "notified"
  BY DEF IInv, TypeOK
<1>3. TypeOK'
  BY <1>2 DEF IInv, TypeOK
<1>4. PhaseInv' /\ BeforeLoop' /\ WaitingInv' /\ ShutdownInv'
  BY <1>1 DEF IInv, PhaseInv, BeforeLoop, WaitingInv, ShutdownInv
<1>5. ConnectInv'
  BY <1>1, <1>2, LiveFacts DEF IInv, ConnectInv
<1>6. ActiveCountsLive' /\ NoTunnelLost' /\ NoDoubleStart'
  BY <1>1 DEF IInv, ActiveCountsLive, NoTunnelLost, NoDoubleStart, Initialized
<1> QED  BY <1>3, <1>4, <1>5, <1>6 DEF IInv

LEMMA ServeReturnsInv ==
    ASSUME IInv, NEW i \in Index, NEW e \in Errors, ServeReturns(i, e)
    PROVE  IInv'
<1> USE DEF ServeReturns, loopVars, connectVars, envVars
<1>1. /\ ResultOf(e) \in Results /\ ResultOf(e) # "none"
      /\ ResultOf(e) = "nil" => e = "nil"
  BY DEF Errors, ResultOf, Results
<1>2. /\ tunnel' \in [Index -> {"none", "serve"} \cup Results]
      /\ \A j \in Index : j # i => tunnel'[j] = tunnel[j]
      /\ tunnel'[i] = ResultOf(e)
  BY <1>1 DEF IInv, TypeOK
<1>3. Live' = Live /\ Waiting' = Waiting
  BY <1>1, <1>2, SameWaiting DEF Live
<1>4. i \in Live
  BY DEF Live
<1>5. TypeOK'
  BY <1>2 DEF IInv, TypeOK
<1>6. PhaseInv' /\ BeforeLoop' /\ WaitingInv' /\ ConnectInv'
  BY <1>3 DEF IInv, PhaseInv, BeforeLoop, WaitingInv, ConnectInv
<1>7. ShutdownInv'
  BY <1>1, <1>2 DEF IInv, ShutdownInv
<1>8. ActiveCountsLive' /\ NoTunnelLost'
  BY <1>3 DEF IInv, ActiveCountsLive, NoTunnelLost, Initialized
<1>9. NoDoubleStart'
  BY <1>2, <1>3, <1>4, WaitingFacts DEF IInv, NoDoubleStart, Live
<1> QED  BY <1>5, <1>6, <1>7, <1>8, <1>9 DEF IInv

-----------------------------------------------------------------------------
LEMMA NextInv == IInv /\ [Next]_vars => IInv'
<1> SUFFICES ASSUME IInv, [Next]_vars PROVE IInv'
  OBVIOUS
<1>1. CASE Initialize
  BY <1>1, StartFirstInv, QuietInitInv, FirstEndsInv, InitConnectedInv, StartNextInv,
     AllStartedInv DEF Initialize
<1>2. ASSUME NEW i \in Index, Drain(i) \/ TunnelError(i) PROVE IInv'
  BY <1>2, EndsInv, TunnelReconnectsInv, TunnelFailsInv DEF TunnelError
<1>3. CASE Run
  BY <1>2, <1>3, RunCtxDoneInv, DrainedInv, BackoffExpiresInv, TunnelConnectedInv,
     QuietInv DEF Run
<1>4. CASE Goroutines
  BY <1>4, LinkInv, ServeReturnsInv, StutterInv DEF Goroutines, FirstTunnelRetries
<1>5. CASE CancelContext \/ CloseGracefulShutdown
  BY <1>5, QuietInv
<1>6. CASE UNCHANGED vars
  BY <1>6, StutterInv
<1> QED  BY <1>1, <1>3, <1>4, <1>5, <1>6 DEF Next

(* The supervisor keeps the inductive invariant through initialize, the    *)
(* select loop of Run and whatever the tunnel goroutines do in between.    *)
THEOREM SupervisorInvariance == Spec => []IInv
<1>1. Init => IInv
  BY InitInv
<1>2. IInv /\ [Next]_vars => IInv'
  BY NextInv
<1> QED  BY <1>1, <1>2, PTL DEF Spec

(* Run's bookkeeping (tunnelsActive, tunnelsWaiting, the backoff timer) is *)
(* that of the goroutines there are: what it counts is what will still     *)
(* send on tunnelErrors, no tunnel is started twice or lost, and once its  *)
(* loop was entered Run returns with nothing left behind.                  *)
THEOREM BookkeepingSound == Spec => []Bookkeeping
<1>1. IInv => Bookkeeping
  BY DEF IInv, PhaseInv, Bookkeeping, NoLeakAfterLoop, Initialized
<1> QED  BY <1>1, SupervisorInvariance, PTL

(* A step that forgives the backoff is the one that saw the last tunnel    *)
(* connect.                                                                *)
LEMMA GraceStep ==
    ASSUME IInv, Next, backoff.deadline # "future", backoff'.deadline = "future"
    PROVE  Waiting = {} /\ \A i \in Live : link[i] = "notified"
<1>1. CASE TunnelConnected
  <2> USE <1>1 DEF TunnelConnected
  <2>1. NoneOutstanding
    OBVIOUS
  <2>2. Waiting = {}
    BY <2>1, WaitingFacts DEF IInv, NoneOutstanding
  <2>3. started >= 1 => \A i \in Live : link[i] = "notified"
    BY <2>1 DEF IInv, ConnectInv, NoneOutstanding, WaitForNextTunnel
  <2>4. started = 0 => Live = {}
    BY TunnelsType DEF IInv, PhaseInv
  <2>5. started = 0 \/ started >= 1
    BY DEF IInv, TypeOK
  <2> QED  BY <2>2, <2>3, <2>4, <2>5
<1>2. CASE BackoffDeadlinePasses
  BY <1>2, BackoffFacts DEF IInv, TypeOK, BackoffDeadlinePasses
<1>3. ASSUME NEW i \in Index, TunnelFails(i) PROVE FALSE
  BY <1>3, BackoffFacts DEF IInv, TypeOK, TunnelFails, ArmTimer
<1>4. CASE Initialize
  BY <1>4 DEF Initialize, StartFirst, InitCtxDone, InitCancelled, InitFailed, InitNil,
     InitEarlyShutdown, InitConnected, StartNext, AllStarted, loopVars
<1>5. CASE Goroutines \/ CancelContext \/ CloseGracefulShutdown
  BY <1>5 DEF Goroutines, Register, Notify, ServeReturns, FirstTunnelRetries, vars,
     CancelContext, CloseGracefulShutdown, loopVars
<1>6. CASE RunCtxDone \/ Drained \/ BackoffExpires \/ RunGracefulShutdown
  BY <1>6 DEF RunCtxDone, Drained, BackoffExpires, RunGracefulShutdown, loopVars
<1>7. ASSUME NEW i \in Index,
             Drain(i) \/ TunnelReconnects(i) \/ TunnelFailsCancelled(i) \/ TunnelExits(i)
      PROVE  FALSE
  BY <1>7 DEF Drain, TunnelReconnects, TunnelFailsCancelled, TunnelExits, loopVars
<1> QED  BY <1>1, <1>2, <1>3, <1>4, <1>5, <1>6, <1>7 DEF Next, Run, TunnelError

(* "No more tunnels outstanding": Run calls SetGracePeriod only when no    *)
(* tunnel waits for the backoff and every one that runs has connected      *)
(* since its last start, so that a tunnel that keeps failing never has its *)
(* backoff forgiven.                                                       *)
THEOREM GraceIsEarned == Spec => GraceOnlyWhenAllConnected
<1>1. IInv /\ [Next]_vars =>
        [backoff.deadline # "future" /\ backoff'.deadline = "future" =>
           /\ Waiting = {}
           /\ \A i \in Live : link[i] = "notified"]_vars
  BY GraceStep
<1> QED  BY <1>1, SupervisorInvariance, PTL DEF Spec, GraceOnlyWhenAllConnected

-----------------------------------------------------------------------------
(* The address book the connections share, for any set of connections,     *)
(* any addresses and either IP version override.                           *)

(* What AssignAnyAddress may hand out: an address of the edge, unused and  *)
(* not the excluded one.                                                   *)
LEMMA UnusedAddr ==
    ASSUME NEW used, NEW active, NEW excluding,
           NEW a \in GetUnusedAddr(used, active, excluding)
    PROVE  a \in Addrs /\ used[a] = None /\ a # excluding
<1>1. PICK r \in Regions :
        \/ a \in GetUnusedIP(r, used, active, excluding)
        \/ a \in GetUnusedIP(3 - r, used, active, excluding)
  BY DEF GetUnusedAddr
<1>2. \A s \in Regions : 3 - s \in Regions
  BY DEF Regions
<1>3. \A s \in Regions : Active(s, active) \subseteq Addrs
  BY DEF Active, Addrs, RegionAddrs, Regions
<1> QED
  BY <1>1, <1>2, <1>3 DEF GetUnusedIP

(* The inductive invariant: OneAddrPerConn is not inductive alone, because *)
(* GetDifferentAddr needs to know that the address it gives back is the    *)
(* only one the connection reserves and dials.                             *)
EdgeInv == EdgeTypeOK /\ OneAddrPerConn /\ DialsOwnAddr

LEMMA EdgeInitInv == EdgeInit => EdgeInv
BY ConnsAssumption, AddrsAssumption
   DEF EdgeInit, EdgeInv, EdgeTypeOK, OneAddrPerConn, DialsOwnAddr

LEMMA GetAddrSameInv ==
    ASSUME EdgeInv, NEW c \in Conns, GetAddrSame(c) PROVE EdgeInv'
BY ConnsAssumption DEF EdgeInv, EdgeTypeOK, OneAddrPerConn, DialsOwnAddr, GetAddrSame, AddrUsedBy

LEMMA GetAddrNewInv ==
    ASSUME EdgeInv, NEW c \in Conns, GetAddrNew(c) PROVE EdgeInv'
<1>1. PICK a \in GetUnusedAddr(usedBy, primaryIsActive, None) :
         /\ usedBy' = [usedBy EXCEPT ![a] = c]
         /\ edgeAddr' = [edgeAddr EXCEPT ![c] = a]
  BY DEF GetAddrNew
<1>2. a \in Addrs /\ usedBy[a] = None
  BY UnusedAddr
<1>3. \A b \in Addrs : usedBy[b] # c
  BY DEF GetAddrNew, AddrUsedBy
<1>4. primaryIsActive' = primaryIsActive /\ timeoutExceeded' = timeoutExceeded
  BY DEF GetAddrNew
<1>5. EdgeTypeOK'
  BY <1>1, <1>2, <1>4 DEF EdgeInv, EdgeTypeOK
<1>6. OneAddrPerConn'
  BY <1>1, <1>2, <1>3 DEF EdgeInv, EdgeTypeOK, OneAddrPerConn
<1>7. DialsOwnAddr'
  BY <1>1, <1>2, <1>3, ConnsAssumption DEF EdgeInv, EdgeTypeOK, DialsOwnAddr
<1> QED
  BY <1>5, <1>6, <1>7 DEF EdgeInv

LEMMA ServeEndsInv ==
    ASSUME EdgeInv, NEW c \in Conns, ServeEnds(c) PROVE EdgeInv'
BY DEF EdgeInv, EdgeTypeOK, OneAddrPerConn, DialsOwnAddr, ServeEnds

(* What GetDifferentAddr does to the address book: the old address is      *)
(* freed, and at most one other, unused, address is reserved.              *)
LEMMA Rotation ==
    ASSUME EdgeTypeOK, NEW c \in Conns, GetDifferentAddr(c)
    PROVE  \E old \in Addrs :
             /\ usedBy[old] = c
             /\ \/ usedBy' = [usedBy EXCEPT ![old] = None]
                \/ \E a \in Addrs \ {old} :
                     /\ usedBy[a] = None
                     /\ usedBy' = [usedBy EXCEPT ![old] = None, ![a] = c]
<1>1. PICK old \in AddrUsedBy(c), r \in Regions :
         LET given  == [usedBy EXCEPT ![old] = None]
             active == [primaryIsActive EXCEPT ![r] = ActiveAfterGiveBack(r, old)]
             new    == GetUnusedAddr(given, active, old)
         IN  \/ \E a \in new : usedBy' = [given EXCEPT ![a] = c]
             \/ new = {} /\ usedBy' = given
  BY DEF GetDifferentAddr
<1> DEFINE given  == [usedBy EXCEPT ![old] = None]
           active == [primaryIsActive EXCEPT ![r] = ActiveAfterGiveBack(r, old)]
<1>2. old \in Addrs /\ usedBy[old] = c
  BY DEF AddrUsedBy
<1>3. CASE usedBy' = given
  BY <1>2, <1>3
<1>4. ASSUME NEW a \in GetUnusedAddr(given, active, old),
             usedBy' = [given EXCEPT ![a] = c]
      PROVE  /\ a \in Addrs \ {old}
             /\ usedBy[a] = None
             /\ usedBy' = [usedBy EXCEPT ![old] = None, ![a] = c]
  <2>1. a \in Addrs /\ given[a] = None /\ a # old
    BY UnusedAddr
  <2> QED
    BY <2>1, <1>2, <1>4 DEF EdgeTypeOK
<1>5. usedBy' = given \/ \E a \in GetUnusedAddr(given, active, old) : usedBy' = [given EXCEPT ![a] = c]
  BY <1>1
<1> QED
  BY <1>2, <1>3, <1>4, <1>5

LEMMA GetDifferentAddrInv ==
    ASSUME EdgeInv, NEW c \in Conns, GetDifferentAddr(c) PROVE EdgeInv'
<1>1. PICK old \in Addrs :
         /\ usedBy[old] = c
         /\ \/ usedBy' = [usedBy EXCEPT ![old] = None]
            \/ \E a \in Addrs \ {old} :
                 /\ usedBy[a] = None
                 /\ usedBy' = [usedBy EXCEPT ![old] = None, ![a] = c]
  BY Rotation DEF EdgeInv
<1>2. edgeAddr' = [edgeAddr EXCEPT ![c] = None]
  BY DEF GetDifferentAddr
<1>3. usedBy' \in [Addrs -> Conns \cup {None}]
  BY <1>1 DEF EdgeInv, EdgeTypeOK
<1>4. primaryIsActive' \in [Regions -> BOOLEAN] /\ timeoutExceeded' \in [Regions -> BOOLEAN]
  <2>1. PICK o \in AddrUsedBy(c), r \in Regions :
           /\ primaryIsActive' = [primaryIsActive EXCEPT ![r] = ActiveAfterGiveBack(r, o)]
           /\ timeoutExceeded' = [timeoutExceeded EXCEPT ![r] = TimeoutAfterGiveBack(r, o)]
    BY DEF GetDifferentAddr
  <2>2. ActiveAfterGiveBack(r, o) \in BOOLEAN /\ TimeoutAfterGiveBack(r, o) \in BOOLEAN
    BY DEF ActiveAfterGiveBack, TimeoutAfterGiveBack, FallsBack, ReturnsToPrimary, EdgeInv, EdgeTypeOK
  <2> QED
    BY <2>1, <2>2 DEF EdgeInv, EdgeTypeOK
<1>5. EdgeTypeOK'
  BY <1>2, <1>3, <1>4 DEF EdgeInv, EdgeTypeOK
<1>6. OneAddrPerConn'
  BY <1>1 DEF EdgeInv, EdgeTypeOK, OneAddrPerConn
<1>7. DialsOwnAddr'
  <2> SUFFICES ASSUME NEW d \in Conns, edgeAddr'[d] # None
               PROVE  usedBy'[edgeAddr'[d]] = d
    BY DEF DialsOwnAddr
  <2>1. d # c /\ edgeAddr'[d] = edgeAddr[d] /\ edgeAddr[d] \in Addrs
    BY <1>2 DEF EdgeInv, EdgeTypeOK
  <2>2. usedBy[edgeAddr[d]] = d /\ d # None
    BY <2>1, ConnsAssumption DEF EdgeInv, DialsOwnAddr
  <2> QED
    BY <1>1, <2>1, <2>2 DEF EdgeInv, EdgeTypeOK
<1> QED
  BY <1>5, <1>6, <1>7 DEF EdgeInv

LEMMA EdgeNextInv == EdgeInv /\ [EdgeNext]_edgeVars => EdgeInv'
<1> SUFFICES ASSUME EdgeInv, [EdgeNext]_edgeVars PROVE EdgeInv'
  OBVIOUS
<1>1. CASE UNCHANGED edgeVars
  BY <1>1 DEF edgeVars, EdgeInv, EdgeTypeOK, OneAddrPerConn, DialsOwnAddr
<1>2. ASSUME NEW c \in Conns, GetAddrFails(c) PROVE EdgeInv'
  BY <1>2, <1>1 DEF GetAddrFails
<1>3. ASSUME NEW r \in Regions, PrimaryTimeoutPasses(r) PROVE EdgeInv'
  BY <1>3 DEF PrimaryTimeoutPasses, EdgeInv, EdgeTypeOK, OneAddrPerConn, DialsOwnAddr
<1> QED
  BY <1>1, <1>2, <1>3, GetAddrSameInv, GetAddrNewInv, ServeEndsInv, GetDifferentAddrInv
     DEF EdgeNext

LEMMA EdgeInvariance == EdgeSpec => []EdgeInv
BY EdgeInitInv, EdgeNextInv, PTL DEF EdgeSpec

(* The address book keeps its type.                                        *)
THEOREM EdgeTypeCorrect == EdgeSpec => []EdgeTypeOK
BY EdgeInvariance, PTL DEF EdgeInv

(* No connection ever reserves two addresses, in any order of GetAddr and  *)
(* GetDifferentAddr calls and any fallback between the two families.       *)
THEOREM OneAddr == EdgeSpec => []OneAddrPerConn
BY EdgeInvariance, PTL DEF EdgeInv

(* A running connection dials the address reserved for it: two connections *)
(* never share an edge address.                                            *)
THEOREM OwnAddr == EdgeSpec => []DialsOwnAddr
BY EdgeInvariance, PTL DEF EdgeInv

-----------------------------------------------------------------------------
(* The fallback between families.  FallbackIsFromV6 needs to know that     *)
(* nobody holds an address of an IPv6 secondary set: giving one back would *)
(* take a region that prefers IPv4 off its primary set.                    *)
SecondaryUse ==
    \A r \in Regions :
        /\ ~primaryIsActive[r] => Secondary(r) # {} /\ PrimaryVersion(r) = 6
        /\ \A a \in Secondary(r) : usedBy[a] # None => PrimaryVersion(r) = 6

LEMMA FamiliesDisjoint ==
    \A r \in Regions : Primary(r) \cap Secondary(r) = {}
<1> TAKE r \in Regions
<1>1. PrimaryVersion(r) \in {4, 6}
  BY AddrsAssumption DEF PrimaryVersion
<1>2. PrimaryVersion(r) # 10 - PrimaryVersion(r)
  BY <1>1
<1> QED
  BY <1>2 DEF Primary, Secondary, Family

(* A secondary address is only handed out while its set is the active one. *)
LEMMA UnusedSecondary ==
    ASSUME NEW used, NEW active, NEW excluding, NEW r \in Regions,
           NEW a \in GetUnusedAddr(used, active, excluding), a \in Secondary(r)
    PROVE  ~active[r]
<1>1. PICK s \in Regions : a \in Active(s, active)
  <2>1. \A s \in Regions : 3 - s \in Regions
    BY DEF Regions
  <2> QED
    BY <2>1 DEF GetUnusedAddr, GetUnusedIP
<1>2. s = r
  BY <1>1, AddrsAssumption DEF Regions, RegionAddrs, Active
<1> QED
  BY <1>1, <1>2, FamiliesDisjoint DEF Active

LEMMA SecondaryUseNew ==
    ASSUME EdgeTypeOK, SecondaryUse, NEW c \in Conns, GetAddrNew(c)
    PROVE  SecondaryUse'
<1>1. PICK a \in GetUnusedAddr(usedBy, primaryIsActive, None) :
         usedBy' = [usedBy EXCEPT ![a] = c]
  BY DEF GetAddrNew
<1>2. primaryIsActive' = primaryIsActive
  BY DEF GetAddrNew
<1> SUFFICES ASSUME NEW r \in Regions, NEW b \in Secondary(r), usedBy'[b] # None
             PROVE  PrimaryVersion(r) = 6
  BY <1>2 DEF SecondaryUse
<1>3. b \in Addrs
  BY DEF Addrs, RegionAddrs, Regions
<1>4. CASE b = a
  BY <1>4, UnusedSecondary DEF SecondaryUse
<1>5. CASE b # a
  BY <1>1, <1>3, <1>5 DEF SecondaryUse, EdgeTypeOK
<1> QED
  BY <1>4, <1>5

LEMMA SecondaryUseRotate ==
    ASSUME EdgeTypeOK, SecondaryUse, NEW c \in Conns, GetDifferentAddr(c)
    PROVE  SecondaryUse'
<1>1. PICK old \in AddrUsedBy(c), r \in Regions :
         LET given  == [usedBy EXCEPT ![old] = None]
             active == [primaryIsActive EXCEPT ![r] = ActiveAfterGiveBack(r, old)]
             new    == GetUnusedAddr(given, active, old)
         IN  /\ old \in RegionAddrs(r)
             /\ primaryIsActive' = active
             /\ \/ \E a \in new : usedBy' = [given EXCEPT ![a] = c]
                \/ new = {} /\ usedBy' = given
  BY DEF GetDifferentAddr
<1> DEFINE given  == [usedBy EXCEPT ![old] = None]
<1>2. old \in Addrs /\ usedBy[old] = c /\ usedBy[old] # None
  BY ConnsAssumption DEF AddrUsedBy
<1>3. primaryIsActive' = [primaryIsActive EXCEPT ![r] = ActiveAfterGiveBack(r, old)]
  BY <1>1
<1>4. ASSUME NEW s \in Regions, ~primaryIsActive'[s]
      PROVE  Secondary(s) # {} /\ PrimaryVersion(s) = 6
  <2>1. CASE ~primaryIsActive[s]
    BY <2>1 DEF SecondaryUse
  <2>2. CASE primaryIsActive[s]
    <3>1. s = r /\ FallsBack(r, old)
      BY <1>3, <1>4, <2>2 DEF EdgeTypeOK, ActiveAfterGiveBack
    <3>2. IPVersion[old] = 6 /\ Secondary(r) # {}
      BY <3>1 DEF FallsBack
    <3>3. CASE old \in Primary(r)
      BY <3>1, <3>2, <3>3 DEF Primary, Family
    <3>4. CASE old \in Secondary(r)
      BY <3>1, <3>2, <3>4, <1>2 DEF SecondaryUse
    <3> QED
      BY <1>1, <3>3, <3>4 DEF RegionAddrs
  <2> QED
    BY <2>1, <2>2
<1>5. ASSUME NEW s \in Regions, NEW b \in Secondary(s), usedBy'[b] # None
      PROVE  PrimaryVersion(s) = 6
  <2>1. b \in Addrs
    BY DEF Addrs, RegionAddrs, Regions
  <2>2. CASE usedBy'[b] = given[b]
    BY <2>1, <2>2, <1>2, <1>5 DEF SecondaryUse, EdgeTypeOK
  <2>3. CASE usedBy'[b] # given[b]
    <3>1. b \in GetUnusedAddr(given, primaryIsActive', old)
      BY <1>1, <2>1, <2>3 DEF EdgeTypeOK
    <3>2. ~primaryIsActive'[s]
      BY <3>1, UnusedSecondary
    <3> QED
      BY <3>2, <1>4
  <2> QED
    BY <2>2, <2>3
<1> QED
  BY <1>4, <1>5 DEF SecondaryUse

LEMMA SecondaryUseNext == EdgeTypeOK /\ SecondaryUse /\ [EdgeNext]_edgeVars => SecondaryUse'
<1> SUFFICES ASSUME EdgeTypeOK, SecondaryUse, [EdgeNext]_edgeVars PROVE SecondaryUse'
  OBVIOUS
<1>1. CASE UNCHANGED <<usedBy, primaryIsActive>>
  BY <1>1 DEF SecondaryUse
<1>2. ASSUME NEW c \in Conns, GetAddrSame(c) \/ GetAddrFails(c) \/ ServeEnds(c)
      PROVE  SecondaryUse'
  BY <1>2, <1>1 DEF GetAddrSame, GetAddrFails, ServeEnds, edgeVars
<1>3. ASSUME NEW r \in Regions, PrimaryTimeoutPasses(r) PROVE SecondaryUse'
  BY <1>3, <1>1 DEF PrimaryTimeoutPasses
<1> QED
  BY <1>1, <1>2, <1>3, SecondaryUseNew, SecondaryUseRotate DEF EdgeNext, edgeVars

(* A region only ever leaves a primary set of IPv6 addresses, and only for *)
(* a secondary set that has addresses.                                     *)
THEOREM FallbackFromV6 == EdgeSpec => []FallbackIsFromV6
<1>1. EdgeInit => SecondaryUse
  BY DEF EdgeInit, SecondaryUse, Addrs, RegionAddrs, Regions
<1>2. SecondaryUse => FallbackIsFromV6
  BY DEF SecondaryUse, FallbackIsFromV6, Primary, Family
<1> QED
  BY <1>1, <1>2, SecondaryUseNext, EdgeTypeCorrect, PTL DEF EdgeSpec

-----------------------------------------------------------------------------
(* Capacity.  If GetUnusedAddr returns nil then every address of the two   *)
(* active sets is in use.                                                  *)
LEMMA NilMeansAllUsed ==
    ASSUME EdgeTypeOK, GetUnusedAddr(usedBy, primaryIsActive, None) = {}
    PROVE  \A r \in Regions : \A a \in Active(r, primaryIsActive) : usedBy[a] # None
<1> DEFINE free(r) == {a \in Active(r, primaryIsActive) : usedBy[a] = None}
<1>1. \A r \in Regions : Active(r, primaryIsActive) \subseteq Addrs
  BY DEF Active, Addrs, RegionAddrs, Regions
<1>2. \A r \in Regions : IsFiniteSet(free(r)) /\ Cardinality(free(r)) \in Nat
  <2> TAKE r \in Regions
  <2>1. free(r) \in SUBSET Addrs
    BY <1>1
  <2>2. IsFiniteSet(free(r))
    BY <2>1, FS_Subset, AddrsAssumption
  <2> QED
    BY <2>2, FS_CardinalityType
<1>3. PICK r \in Regions : AvailableAddrs(r, usedBy, primaryIsActive)
                             >= AvailableAddrs(3 - r, usedBy, primaryIsActive)
  <2>1. Cardinality(free(1)) >= Cardinality(free(2)) \/ Cardinality(free(2)) >= Cardinality(free(1))
    BY <1>2 DEF Regions
  <2>2. 3 - 1 = 2 /\ 3 - 2 = 1
    OBVIOUS
  <2> QED
    BY <2>1, <2>2 DEF AvailableAddrs, Regions
<1>4. GetUnusedIP(r, usedBy, primaryIsActive, None) = {}
      /\ GetUnusedIP(3 - r, usedBy, primaryIsActive, None) = {}
  BY <1>3 DEF GetUnusedAddr
<1>5. Regions = {r, 3 - r}
  BY DEF Regions
<1> QED
  BY <1>1, <1>4, <1>5, AddrsAssumption DEF GetUnusedIP

(* Each connection reserves one address at most, so a connection without   *)
(* one finds an unused address whenever the active sets are large enough.  *)
LEMMA InvImpliesEnough == EdgeInv => EnoughAddrs
<1> DEFINE A1 == Active(1, primaryIsActive)
           A2 == Active(2, primaryIsActive)
<1> SUFFICES ASSUME EdgeInv, Cardinality(A1) + Cardinality(A2) >= Cardinality(Conns),
                    NEW c \in Conns, AddrUsedBy(c) = {},
                    GetUnusedAddr(usedBy, primaryIsActive, None) = {}
             PROVE  FALSE
  BY DEF EnoughAddrs
<1> DEFINE A == A1 \cup A2
           f == [a \in A |-> usedBy[a]]
<1>1. A1 \in SUBSET Addrs /\ A2 \in SUBSET Addrs /\ A1 \cap A2 = {}
  BY AddrsAssumption DEF Active, Addrs, RegionAddrs
<1>2. IsFiniteSet(A1) /\ IsFiniteSet(A2)
  BY <1>1, FS_Subset, AddrsAssumption
<1>3. Cardinality(A1) \in Nat /\ Cardinality(A2) \in Nat
  BY <1>2, FS_CardinalityType
<1>4. Cardinality(A) = Cardinality(A1) + Cardinality(A2)
  <2>1. Cardinality(A) = Cardinality(A1) + Cardinality(A2) - Cardinality(A1 \cap A2)
    BY <1>2, FS_Union
  <2>2. Cardinality(A1 \cap A2) = 0
    BY <1>1, FS_EmptySet
  <2> QED
    BY <2>1, <2>2, <1>3
<1>5. \A a \in A : usedBy[a] \in Conns \ {c}
  BY NilMeansAllUsed, <1>1 DEF EdgeInv, EdgeTypeOK, AddrUsedBy, Regions
<1>6. f \in Injection(A, Conns \ {c})
  BY <1>5, <1>1, ConnsAssumption DEF EdgeInv, OneAddrPerConn, Injection, IsInjective
<1>7. IsFiniteSet(Conns \ {c}) /\ Cardinality(Conns \ {c}) = Cardinality(Conns) - 1
  BY ConnsAssumption, FS_RemoveElement
<1>8. Cardinality(Conns) \in Nat
  BY ConnsAssumption, FS_CardinalityType
<1>9. Cardinality(A) <= Cardinality(Conns \ {c})
  BY <1>6, <1>7, FS_Injection
<1> QED
  BY <1>3, <1>4, <1>7, <1>8, <1>9

(* GetAddr cannot fail while the active sets together hold an address per  *)
(* connection.                                                             *)
THEOREM EnoughForAll == EdgeSpec => []EnoughAddrs
BY EdgeInvariance, InvImpliesEnough, PTL

-----------------------------------------------------------------------------
(* A rotation never hands the connection the address it gave back.         *)
THEOREM RotationMoves == EdgeSpec => RotationChangesAddr
<1>1. ASSUME EdgeInv, NEW c \in Conns, NEW a \in Addrs, GetDifferentAddr(c), usedBy[a] = c
      PROVE  usedBy'[a] # c
  <2>1. PICK old \in Addrs :
           /\ usedBy[old] = c
           /\ \/ usedBy' = [usedBy EXCEPT ![old] = None]
              \/ \E b \in Addrs \ {old} :
                   /\ usedBy[b] = None
                   /\ usedBy' = [usedBy EXCEPT ![old] = None, ![b] = c]
    BY <1>1, Rotation DEF EdgeInv
  <2>2. a = old
    BY <1>1, <2>1, ConnsAssumption DEF EdgeInv, OneAddrPerConn
  <2> QED
    BY <1>1, <2>1, <2>2, ConnsAssumption DEF EdgeInv, EdgeTypeOK
<1>2. EdgeInv => [\A c \in Conns, a \in Addrs :
                 GetDifferentAddr(c) /\ usedBy[a] = c => usedBy'[a] # c]_edgeVars
  BY <1>1
<1> QED
  BY <1>2, EdgeInvariance, PTL DEF RotationChangesAddr

(* No step of another connection, no fallback and no timeout takes the     *)
(* address a connection reserves: only its own rotation does.              *)
THEOREM NobodySteals == EdgeSpec => NoTheft
<1> DEFINE Stolen(a) == usedBy[a] # None /\ usedBy'[a] # usedBy[a]
           Rotated(a) == edgeAddr[usedBy[a]] # None /\ edgeAddr'[usedBy[a]] = None
<1>1. ASSUME EdgeInv, NEW a \in Addrs, NEW c \in Conns, GetAddrNew(c) PROVE ~Stolen(a)
  <2>1. PICK b \in GetUnusedAddr(usedBy, primaryIsActive, None) :
           usedBy' = [usedBy EXCEPT ![b] = c]
    BY <1>1 DEF GetAddrNew
  <2>2. b \in Addrs /\ usedBy[b] = None
    BY UnusedAddr
  <2> QED
    BY <1>1, <2>1, <2>2 DEF EdgeInv, EdgeTypeOK
<1>2. ASSUME EdgeInv, NEW a \in Addrs, NEW c \in Conns, GetDifferentAddr(c), Stolen(a)
      PROVE  Rotated(a)
  <2>1. PICK old \in Addrs :
           /\ usedBy[old] = c
           /\ \/ usedBy' = [usedBy EXCEPT ![old] = None]
              \/ \E b \in Addrs \ {old} :
                   /\ usedBy[b] = None
                   /\ usedBy' = [usedBy EXCEPT ![old] = None, ![b] = c]
    BY <1>2, Rotation DEF EdgeInv
  <2>2. a = old
    BY <1>2, <2>1 DEF EdgeInv, EdgeTypeOK
  <2>3. edgeAddr[c] # None /\ edgeAddr' = [edgeAddr EXCEPT ![c] = None]
    BY <1>2 DEF GetDifferentAddr
  <2> QED
    BY <1>2, <2>1, <2>2, <2>3 DEF EdgeInv, EdgeTypeOK
<1>3. ASSUME NEW c \in Conns, GetAddrSame(c) \/ GetAddrFails(c) \/ ServeEnds(c)
      PROVE  usedBy' = usedBy
  BY <1>3 DEF GetAddrSame, GetAddrFails, ServeEnds, edgeVars
<1>4. ASSUME NEW r \in Regions, PrimaryTimeoutPasses(r) PROVE usedBy' = usedBy
  BY <1>4 DEF PrimaryTimeoutPasses
<1>5. ASSUME EdgeInv, [EdgeNext]_edgeVars, NEW a \in Addrs, Stolen(a) PROVE Rotated(a)
  BY <1>1, <1>2, <1>3, <1>4, <1>5 DEF EdgeNext, edgeVars
<1>6. EdgeInv /\ [EdgeNext]_edgeVars => [\A a \in Addrs : Stolen(a) => Rotated(a)]_edgeVars
  BY <1>5
<1> QED
  BY <1>6, EdgeInvariance, PTL DEF NoTheft, EdgeSpec

(* AddrsSound: the address book stays sound.                               *)
THEOREM BookIsSound == EdgeSpec => []AddrsSound
BY EdgeTypeCorrect, OneAddr, OwnAddr, FallbackFromV6, PTL DEF AddrsSound

(* AddrSteps: a rotation changes the address and takes only one's own.     *)
THEOREM StepsAreSound == EdgeSpec => AddrSteps
BY RotationMoves, NobodySteals DEF AddrSteps
=============================================================================
