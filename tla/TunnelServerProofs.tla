------------------------- MODULE TunnelServerProofs -------------------------
(***************************************************************************)
(* Proofs about TunnelServer and the tracker it reports to, for any set of *)
(* connections, any size of the event channel and any number of retries.   *)
(*                                                                         *)
(* What the readiness endpoint will answer depends on the events still in  *)
(* the channel, so the invariant speaks of what the tracker will believe   *)
(* of a connection once they have been dispatched.                         *)
(***************************************************************************)
EXTENDS TunnelServer, SequenceTheorems, TLAPS

Events == [index : Conns, type : EventTypes, protocol : Protocols]

(* The last event of connection c in the queue es is a Connected one.      *)
LastSays(es, c) ==
    \E k \in 1 .. Len(es) : /\ es[k].index = c /\ es[k].type = "connected"
                            /\ \A m \in 1 .. Len(es) : m > k => es[m].index # c

NoneOf(es, c) == \A k \in 1 .. Len(es) : es[k].index # c

(* The tracker, which believes known of c now, will count it as connected  *)
(* when es has been dispatched.                                            *)
Counted(es, known, c) == LastSays(es, c) \/ (NoneOf(es, c) /\ known)

(* It will count no connection whose control stream has nothing more to    *)
(* say, unless it is registered.                                           *)
HonestInv ==
    ~dropped => \A c \in Conns :
        Counted(events, connectionInfo[c].isConnected, c) =>
            pc[c] = "registered" \/ late[c] # "none"

(* An attempt ends with nil only in a graceful shutdown.                   *)
CauseInv == \A c \in Conns : cause[c] = "nil" => gracefulShutdown

(* A protocol picked by the user is the protocol of every connection.      *)
StaticInv == selector = "static" => \A c \in Conns : protocol[c] = current

IInv == /\ TypeOK /\ FallbackIsHTTP2 /\ NilOnlyOnShutdown
        /\ CauseInv /\ StaticInv /\ HonestInv

-----------------------------------------------------------------------------
(* The queue of events.                                                    *)

(* Appending events of c decides what is believed of c, by the last of     *)
(* them, and of no other connection.                                       *)
LEMMA CountedConcat ==
    ASSUME NEW R, NEW s \in Seq(R), NEW t \in Seq(R), NEW c, NEW d, NEW known,
           Len(t) >= 1, \A k \in 1 .. Len(t) : t[k].index = c,
           Counted(s \o t, known, d)
    PROVE  IF d = c THEN t[Len(t)].type = "connected" ELSE Counted(s, known, d)
<1>1. /\ Len(s) \in Nat /\ Len(t) \in Nat /\ Len(s \o t) = Len(s) + Len(t)
      /\ \A i \in 1 .. Len(s) + Len(t) : (s \o t)[i] =
           IF i <= Len(s) THEN s[i] ELSE t[i - Len(s)]
  BY ConcatProperties, LenProperties
<1>2. \A k \in 1 .. Len(t) : (s \o t)[Len(s) + k] = t[k]
  BY <1>1
<1>3. \A k \in 1 .. Len(s) : (s \o t)[k] = s[k]
  BY <1>1
<1>4. Len(s) + Len(t) \in 1 .. Len(s \o t)
  BY <1>1
<1>5. CASE d = c
  <2>1. (s \o t)[Len(s) + Len(t)] = t[Len(t)] /\ t[Len(t)].index = c
    BY <1>1, <1>2
  <2>2. ~NoneOf(s \o t, c)
    BY <1>4, <2>1 DEF NoneOf
  <2>3. LastSays(s \o t, c)
    BY <1>5, <2>2 DEF Counted
  <2>4. PICK k \in 1 .. Len(s \o t) :
           /\ (s \o t)[k].index = c /\ (s \o t)[k].type = "connected"
           /\ \A m \in 1 .. Len(s \o t) : m > k => (s \o t)[m].index # c
    BY <2>3 DEF LastSays
  <2>5. k = Len(s) + Len(t)
    <3>1. ~(Len(s) + Len(t) > k)
      BY <1>4, <2>1, <2>4
    <3> QED  BY <1>1, <2>4, <3>1
  <2> QED  BY <1>5, <2>1, <2>4, <2>5
<1>6. CASE d # c
  <2>1. \A k \in 1 .. Len(s \o t) : (s \o t)[k].index = d =>
           k \in 1 .. Len(s) /\ s[k].index = d /\ (s \o t)[k] = s[k]
    <3> SUFFICES ASSUME NEW k \in 1 .. Len(s \o t), (s \o t)[k].index = d
                 PROVE  k \in 1 .. Len(s)
      BY <1>3
    <3>1. k > Len(s) => k - Len(s) \in 1 .. Len(t) /\ (s \o t)[k] = t[k - Len(s)]
      BY <1>1
    <3> QED  BY <1>1, <1>6, <3>1
  <2>2. CASE LastSays(s \o t, d)
    <3>1. PICK k \in 1 .. Len(s \o t) :
             /\ (s \o t)[k].index = d /\ (s \o t)[k].type = "connected"
             /\ \A m \in 1 .. Len(s \o t) : m > k => (s \o t)[m].index # d
      BY <2>2 DEF LastSays
    <3>2. k \in 1 .. Len(s) /\ s[k].index = d /\ s[k].type = "connected"
      BY <2>1, <3>1
    <3>3. \A m \in 1 .. Len(s) : m > k => s[m].index # d
      BY <1>1, <1>3, <3>1
    <3> QED  BY <1>6, <3>2, <3>3 DEF Counted, LastSays
  <2>3. CASE NoneOf(s \o t, d) /\ known
    <3>1. NoneOf(s, d)
      BY <1>1, <1>3, <2>3 DEF NoneOf
    <3> QED  BY <1>6, <2>3, <3>1 DEF Counted
  <2> QED  BY <2>2, <2>3 DEF Counted
<1> QED  BY <1>5, <1>6

(* Dispatching the first event changes nothing of what will be believed.   *)
LEMMA CountedTail ==
    ASSUME NEW R, NEW s \in Seq(R), s # <<>>, NEW c, NEW known, NEW after,
           after => IF Head(s).index = c THEN Head(s).type = "connected" ELSE known,
           Counted(Tail(s), after, c)
    PROVE  Counted(s, known, c)
<1>1. /\ Len(s) \in Nat /\ Len(Tail(s)) = Len(s) - 1 /\ Len(s) >= 1
      /\ \A i \in 1 .. Len(Tail(s)) : Tail(s)[i] = s[i + 1]
  BY HeadTailProperties, LenProperties, EmptySeq
<1>2. Head(s) = s[1]
  BY <1>1
<1>3. \A m \in 2 .. Len(s) : m - 1 \in 1 .. Len(Tail(s)) /\ Tail(s)[m - 1] = s[m]
  BY <1>1
<1>4. CASE LastSays(Tail(s), c)
  <2>1. PICK k \in 1 .. Len(Tail(s)) :
           /\ Tail(s)[k].index = c /\ Tail(s)[k].type = "connected"
           /\ \A m \in 1 .. Len(Tail(s)) : m > k => Tail(s)[m].index # c
    BY <1>4 DEF LastSays
  <2>2. k + 1 \in 1 .. Len(s) /\ s[k + 1].index = c /\ s[k + 1].type = "connected"
    BY <1>1, <2>1
  <2>3. ASSUME NEW m \in 1 .. Len(s), m > k + 1 PROVE s[m].index # c
    <3>1. m \in 2 .. Len(s) /\ m - 1 > k
      BY <1>1, <2>1, <2>3
    <3> QED  BY <1>3, <2>1, <3>1
  <2> QED  BY <2>2, <2>3 DEF Counted, LastSays
<1>5. CASE NoneOf(Tail(s), c) /\ after
  <2>1. \A m \in 2 .. Len(s) : s[m].index # c
    BY <1>3, <1>5 DEF NoneOf
  <2>2. \A m \in 1 .. Len(s) : m > 1 => s[m].index # c
    BY <1>1, <2>1
  <2>3. CASE s[1].index = c
    <3>1. s[1].type = "connected" /\ 1 \in 1 .. Len(s)
      BY <1>1, <1>2, <1>5, <2>3
    <3> QED  BY <2>2, <2>3, <3>1 DEF Counted, LastSays
  <2>4. CASE s[1].index # c
    <3>1. NoneOf(s, c)
      BY <1>1, <2>2, <2>4 DEF NoneOf
    <3> QED  BY <1>2, <1>5, <2>4, <3>1 DEF Counted
  <2> QED  BY <2>3, <2>4
<1> QED  BY <1>4, <1>5 DEF Counted

(* What sending events of c, the last one of type ty, does to the tracker. *)
Sent(c, ty) ==
    /\ TrackerTypeOK'
    /\ connectionInfo' = connectionInfo
    /\ dropped => dropped'
    /\ ~dropped' => \A d \in Conns :
         Counted(events', connectionInfo[d].isConnected, d) =>
             IF d = c THEN ty = "connected"
             ELSE Counted(events, connectionInfo[d].isConnected, d)

LEMMA SendFacts ==
    ASSUME TrackerTypeOK, NEW c \in Conns, NEW ty, NEW es \in Seq(Events), Len(es) >= 1,
           \A k \in 1 .. Len(es) : es[k].index = c, es[Len(es)].type = ty, SendEvents(es)
    PROVE  Sent(c, ty)
<1> DEFINE all == events \o es
<1>1. events \in Seq(Events)
  BY DEF TrackerTypeOK, Events
<1>2. all \in Seq(Events) /\ Len(all) \in Nat /\ \A k \in 1 .. Len(all) : all[k] \in Events
  BY <1>1, ConcatProperties, LenProperties, ElementOfSeq
<1>3. /\ events' = IF Len(all) <= QueueSize THEN all ELSE SubSeq(all, 1, QueueSize)
      /\ dropped' = (dropped \/ ~(Len(all) <= QueueSize))
      /\ connectionInfo' = connectionInfo
  BY DEF SendEvents
<1>4. events' \in Seq(Events) /\ Len(events') <= QueueSize
  <2>1. CASE Len(all) <= QueueSize
    BY <1>2, <1>3, <2>1
  <2>2. CASE ~(Len(all) <= QueueSize)
    <3>1. 1 \in Int /\ QueueSize \in Nat /\ QueueSize >= 1
      BY QueueAssumption
    <3>2. \A k \in 1 .. QueueSize : all[k] \in Events
      BY <1>2, <2>2, <3>1
    <3>3. /\ SubSeq(all, 1, QueueSize) \in Seq(Events)
          /\ Len(SubSeq(all, 1, QueueSize)) = QueueSize - 1 + 1
      <4> HIDE DEF all
      <4>1. QueueSize \in Int /\ 1 <= QueueSize
        BY <3>1
      <4> QED  BY <3>1, <3>2, <4>1, SubSeqProperties
    <3> QED  BY <1>3, <2>2, <3>1, <3>3
  <2> QED  BY <2>1, <2>2
<1>5. TrackerTypeOK'
  BY <1>3, <1>4 DEF TrackerTypeOK, Events
<1>6. ASSUME ~dropped', NEW d \in Conns, Counted(events', connectionInfo[d].isConnected, d)
      PROVE  IF d = c THEN ty = "connected"
             ELSE Counted(events, connectionInfo[d].isConnected, d)
  <2>1. events' = events \o es
    BY <1>3, <1>6
  <2> QED  BY <1>1, <1>6, <2>1, CountedConcat
<1> QED  BY <1>3, <1>5, <1>6 DEF Sent

LEMMA SendOne ==
    ASSUME TrackerTypeOK, NEW c \in Conns, NEW ty \in EventTypes,
           SendEvents(<<Plain(c, ty)>>)
    PROVE  Sent(c, ty)
<1> DEFINE es == <<Plain(c, ty)>>
<1>1. Plain(c, ty) \in Events /\ Plain(c, ty).index = c /\ Plain(c, ty).type = ty
  BY DEF Plain, Event, Events, ZeroProtocol, Protocols
<1>2. /\ es \in Seq(Events) /\ Len(es) = 1 /\ es[1] = Plain(c, ty)
      /\ \A k \in 1 .. Len(es) : k = 1
  BY <1>1
<1> HIDE DEF es
<1>3. SendEvents(es)
  BY DEF es
<1>4. /\ Len(es) >= 1 /\ es[Len(es)].type = ty
      /\ \A k \in 1 .. Len(es) : es[k].index = c
  BY <1>1, <1>2
<1> QED  BY <1>2, <1>3, <1>4, SendFacts, Zenon

LEMMA SendTwo ==
    ASSUME TrackerTypeOK, NEW c \in Conns, NEW ty1 \in EventTypes, NEW ty \in EventTypes,
           NEW p \in Protocols, SendEvents(<<Plain(c, ty1), Event(c, ty, p)>>)
    PROVE  Sent(c, ty)
<1> DEFINE es == <<Plain(c, ty1), Event(c, ty, p)>>
<1>1. /\ Plain(c, ty1) \in Events /\ Plain(c, ty1).index = c
      /\ Event(c, ty, p) \in Events /\ Event(c, ty, p).index = c
      /\ Event(c, ty, p).type = ty
  BY DEF Plain, Event, Events, ZeroProtocol, Protocols
<1>2. /\ es \in Seq(Events) /\ Len(es) = 2
      /\ es[1] = Plain(c, ty1) /\ es[2] = Event(c, ty, p)
      /\ \A k \in 1 .. Len(es) : k = 1 \/ k = 2
  BY <1>1
<1> HIDE DEF es
<1>3. SendEvents(es)
  BY DEF es
<1>4. /\ Len(es) >= 1 /\ es[Len(es)].type = ty
      /\ \A k \in 1 .. Len(es) : es[k].index = c
  BY <1>1, <1>2
<1> QED  BY <1>2, <1>3, <1>4, SendFacts, Zenon

(* A connection that sends its events keeps the readiness honest if it is  *)
(* registered after a Connected one, or has a handler left to unregister.  *)
LEMMA HonestAfterSend ==
    ASSUME HonestInv, NEW c \in Conns, NEW ty, Sent(c, ty),
           ty = "connected" => pc'[c] = "registered" \/ late'[c] # "none",
           \A d \in Conns : d # c => pc'[d] = pc[d] /\ late'[d] = late[d]
    PROVE  HonestInv'
  BY DEF HonestInv, Sent

(* One that sends nothing must not stop being registered.                  *)
LEMMA HonestAfterQuiet ==
    ASSUME HonestInv, UNCHANGED trackerVars,
           \A d \in Conns : (pc[d] = "registered" => pc'[d] = "registered")
                            /\ (late[d] # "none" => late'[d] # "none")
    PROVE  HonestInv'
  BY DEF HonestInv, trackerVars

LEMMA DispatchInv ==
    ASSUME TypeOK, HonestInv, Dispatch
    PROVE  TrackerTypeOK' /\ HonestInv'
<1>1. events \in Seq(Events) /\ events # <<>>
  BY DEF TypeOK, TrackerTypeOK, Events, Dispatch, DispatchEvent
<1>2. /\ Head(events) \in Events /\ Tail(events) \in Seq(Events)
      /\ Len(Tail(events)) = Len(events) - 1 /\ Len(events) \in Nat
  BY <1>1, HeadTailProperties, LenProperties
<1>3. Head(events).index \in Conns /\ Head(events).protocol \in Protocols
  BY <1>2 DEF Events
<1>4. /\ connectionInfo' \in
           [Conns -> [known : BOOLEAN, isConnected : BOOLEAN, protocol : Protocols]]
      /\ \A c \in Conns : connectionInfo'[c] =
           IF Head(events).index = c THEN InfoAfter(Head(events)) ELSE connectionInfo[c]
  <2>1. InfoAfter(Head(events)) \in [known : BOOLEAN, isConnected : BOOLEAN, protocol : Protocols]
    BY <1>3 DEF InfoAfter, TypeOK, TrackerTypeOK
  <2> HIDE DEF InfoAfter
  <2> QED  BY <1>3, <2>1 DEF TypeOK, TrackerTypeOK, Dispatch, DispatchEvent
<1>5. events' = Tail(events) /\ dropped' = dropped /\ pc' = pc /\ late' = late
  BY DEF Dispatch, DispatchEvent, attemptVars
<1>6. TrackerTypeOK'
  <2>1. Len(events) <= QueueSize /\ QueueSize \in Nat
    BY QueueAssumption DEF TypeOK, TrackerTypeOK
  <2> QED  BY <1>2, <1>4, <1>5, <2>1 DEF TypeOK, TrackerTypeOK, Events
<1>7. ASSUME NEW c \in Conns, Counted(events', connectionInfo'[c].isConnected, c)
      PROVE  Counted(events, connectionInfo[c].isConnected, c)
  <2>1. connectionInfo'[c].isConnected =>
           IF Head(events).index = c THEN Head(events).type = "connected"
           ELSE connectionInfo[c].isConnected
    BY <1>4 DEF InfoAfter
  <2> QED  BY <1>1, <1>5, <1>7, <2>1, CountedTail
<1> QED  BY <1>5, <1>6, <1>7 DEF HonestInv

-----------------------------------------------------------------------------
(* The backoff of a connection stays within its retries.                   *)
LEMMA BackoffFacts ==
    ASSUME NEW b \in Handlers(MaxRetries)
    PROVE  /\ BackoffTimer(b, MaxRetries) \in Handlers(MaxRetries)
           /\ ResetNow(b) \in Handlers(MaxRetries)
  BY ServerAssumption DEF Handlers, BackoffTimer, ResetNow, Deadlines

LEMMA InitInv == Init => IInv
<1> SUFFICES ASSUME Init PROVE IInv
  OBVIOUS
<1>1. TrackerTypeOK
  <2>1. <<>> \in Seq(Events) /\ Len(<<>>) = 0
    BY EmptySeq
  <2>2. 0 <= QueueSize
    BY QueueAssumption
  <2> QED  BY <2>1, <2>2 DEF Init, TrackerInit, TrackerTypeOK, Events, ZeroProtocol, Protocols
<1>2. current \in Protocols /\ selector \in Selectors
  BY DEF Init, NewProtocolSelector, Protocols
<1>3. NewBackoff \in Handlers(MaxRetries)
  BY ServerAssumption DEF NewBackoff, Handlers, Deadlines
<1>4. TypeOK
  <2>1. 0 \in 0 .. MaxEdgeAddrRetries
    BY ServerAssumption
  <2>2. /\ pc \in [Conns -> {"idle", "dialing", "registered", "unregistering", "retrying"}]
        /\ cause \in [Conns -> {"none", "nil", "quicbroken", "failed"}]
        /\ late \in [Conns -> {"none", "registering", "unregistering"}]
        /\ returned \in [Conns -> {"none", "nil", "err", "noaddr"}]
        /\ inFallback \in [Conns -> BOOLEAN] /\ shouldFallback \in [Conns -> BOOLEAN]
    BY DEF Init
  <2>3. /\ protocol \in [Conns -> Protocols] /\ backoff \in [Conns -> Handlers(MaxRetries)]
        /\ addrRetries \in [Conns -> 0 .. MaxEdgeAddrRetries]
    BY <1>2, <1>3, <2>1 DEF Init
  <2> QED  BY <1>1, <1>2, <2>2, <2>3 DEF Init, TypeOK
<1>5. FallbackIsHTTP2 /\ NilOnlyOnShutdown /\ CauseInv /\ StaticInv
  BY DEF Init, FallbackIsHTTP2, NilOnlyOnShutdown, CauseInv, StaticInv
<1>6. HonestInv
  <2>1. \A c \in Conns : ~connectionInfo[c].isConnected
    BY DEF Init, TrackerInit
  <2>2. events = <<>> /\ Len(<<>>) = 0
    BY EmptySeq DEF Init, TrackerInit
  <2>3. \A c \in Conns : ~LastSays(events, c)
    BY <2>2 DEF LastSays
  <2> QED  BY <2>1, <2>3 DEF HonestInv, Counted
<1> QED  BY <1>4, <1>5, <1>6 DEF IInv

LEMMA StutterInv ==
    ASSUME IInv, UNCHANGED vars
    PROVE  IInv'
<1> USE DEF vars, fallbackVars, attemptVars, envVars, settings
<1>1. TrackerTypeOK'
  BY DEF IInv, TypeOK, TrackerTypeOK, trackerVars
<1>2. HonestInv'
  BY HonestAfterQuiet DEF IInv
<1> QED  BY <1>1, <1>2 DEF IInv, TypeOK, FallbackIsHTTP2, NilOnlyOnShutdown, CauseInv,
         StaticInv

LEMMA TrackerUnchanged ==
    ASSUME IInv, UNCHANGED trackerVars
    PROVE  TrackerTypeOK'
  BY DEF IInv, TypeOK, TrackerTypeOK, trackerVars

LEMMA ServeInv ==
    ASSUME IInv, NEW c \in Conns, Serve(c)
    PROVE  IInv'
<1> USE DEF Serve, fallbackVars, envVars, settings
<1>1. TrackerTypeOK'
  BY TrackerUnchanged
<1>2. TypeOK'
  BY <1>1 DEF IInv, TypeOK
<1>3. HonestInv'
  <2>1. \A d \in Conns : pc[d] = "registered" => pc'[d] = "registered"
    BY DEF IInv, TypeOK
  <2> QED  BY <2>1, HonestAfterQuiet DEF IInv
<1>4. FallbackIsHTTP2' /\ NilOnlyOnShutdown' /\ CauseInv' /\ StaticInv'
  BY DEF IInv, TypeOK, FallbackIsHTTP2, NilOnlyOnShutdown, CauseInv, StaticInv
<1> QED  BY <1>2, <1>3, <1>4 DEF IInv

(* The control stream registers, in time or late: both reset the fallback. *)
LEMMA RegisteredInv ==
    ASSUME IInv, NEW c \in Conns, Registered(c) \/ LateRegistered(c)
    PROVE  IInv'
<1> USE DEF Registered, LateRegistered, ResetFallback, attemptVars, envVars, settings
<1>1. Sent(c, "connected")
  <2>1. "connected" \in EventTypes /\ protocol[c] \in Protocols /\ "http2" \in Protocols
    BY DEF IInv, TypeOK, EventTypes, Protocols
  <2> QED  BY <2>1, SendTwo DEF IInv, TypeOK
<1>2. TypeOK'
  <2>1. backoff' \in [Conns -> Handlers(MaxRetries)]
    BY BackoffFacts DEF IInv, TypeOK
  <2> QED  BY <1>1, <2>1 DEF IInv, TypeOK, Sent
<1>3. HonestInv'
  <2>1. /\ pc'[c] = "registered" \/ late'[c] # "none"
        /\ \A d \in Conns : d # c => pc'[d] = pc[d] /\ late'[d] = late[d]
    BY DEF IInv, TypeOK
  <2> QED  BY <1>1, <2>1, HonestAfterSend DEF IInv
<1>4. FallbackIsHTTP2' /\ NilOnlyOnShutdown' /\ CauseInv' /\ StaticInv'
  BY DEF IInv, TypeOK, FallbackIsHTTP2, NilOnlyOnShutdown, CauseInv, StaticInv
<1> QED  BY <1>2, <1>3, <1>4 DEF IInv

LEMMA UnregistersInv ==
    ASSUME IInv, NEW c \in Conns, Unregisters(c) \/ LateUnregisters(c)
    PROVE  IInv'
<1> USE DEF Unregisters, LateUnregisters, fallbackVars, attemptVars, envVars, settings
<1>1. Sent(c, "unregistering")
  <2>1. "unregistering" \in EventTypes
    BY DEF EventTypes
  <2> QED  BY <2>1, SendOne DEF IInv, TypeOK
<1>2. TypeOK'
  BY <1>1 DEF IInv, TypeOK, Sent
<1>3. HonestInv'
  <2>1. \A d \in Conns : d # c => pc'[d] = pc[d] /\ late'[d] = late[d]
    BY DEF IInv, TypeOK
  <2> QED  BY <1>1, <2>1, HonestAfterSend DEF IInv
<1>4. FallbackIsHTTP2' /\ NilOnlyOnShutdown' /\ CauseInv' /\ StaticInv'
  BY DEF IInv, TypeOK, FallbackIsHTTP2, NilOnlyOnShutdown, CauseInv, StaticInv
<1> QED  BY <1>2, <1>3, <1>4 DEF IInv

(* The attempt ends: with nil only in a shutdown.                          *)
LEMMA ServeTunnelReturnsInv ==
    ASSUME IInv, NEW c \in Conns, NEW e, ServeTunnelReturns(c, e)
    PROVE  IInv'
<1> USE DEF ServeTunnelReturns, envVars, settings
<1>1. e = "nil" => gracefulShutdown
  BY DEF Outcomes, DialErrors, RegisterErrors, ServeErrors, IdleErrors, IInv, TypeOK
<1>2. \E ty \in EventTypes : ty # "connected" /\ Sent(c, ty)
  <2>1. "disconnected" \in EventTypes /\ "reconnecting" \in EventTypes
        /\ ZeroProtocol \in Protocols
    BY DEF EventTypes, ZeroProtocol, Protocols
  <2>2. CASE SendEvents(<<Plain(c, "disconnected")>>)
    BY <2>1, <2>2, SendOne DEF IInv, TypeOK
  <2>3. CASE SendEvents(<<Plain(c, "disconnected"), Plain(c, "reconnecting")>>)
    <3>1. Plain(c, "reconnecting") = Event(c, "reconnecting", ZeroProtocol)
      BY DEF Plain
    <3> QED  BY <2>1, <2>3, <3>1, SendTwo DEF IInv, TypeOK
  <2> QED  BY <2>2, <2>3
<1>3. /\ late' \in [Conns -> {"none", "registering", "unregistering"}]
      /\ \A d \in Conns : d # c => late'[d] = late[d]
  <2>1. LeftBehind(c, e) \subseteq {"none", "registering", "unregistering"}
    BY DEF LeftBehind
  <2> QED  BY <2>1 DEF IInv, TypeOK
<1>4. addrRetries' \in [Conns -> 0 .. MaxEdgeAddrRetries]
  <2>1. AddrRetriesAfter(c, e) \in 0 .. MaxEdgeAddrRetries
    BY ServerAssumption DEF AddrRetriesAfter, IInv, TypeOK
  <2> QED  BY <2>1 DEF IInv, TypeOK
<1>5. /\ pc' \in [Conns -> {"idle", "dialing", "registered", "unregistering", "retrying"}]
      /\ \A d \in Conns : d # c => pc'[d] = pc[d]
  BY DEF IInv, TypeOK
<1>6. cause' \in [Conns -> {"none", "nil", "quicbroken", "failed"}] /\ CauseInv'
  <2>1. CauseOf(e) \in {"nil", "quicbroken", "failed"} /\ (CauseOf(e) = "nil" => e = "nil")
    BY DEF CauseOf
  <2>2. /\ cause' \in [Conns -> {"none", "nil", "quicbroken", "failed"}]
        /\ \A d \in Conns : cause'[d] = cause[d] \/ cause'[d] = CauseOf(e)
    BY <2>1 DEF IInv, TypeOK
  <2> QED  BY <1>1, <2>1, <2>2 DEF IInv, CauseInv
<1>7. shouldFallback' \in [Conns -> BOOLEAN]
  <2>1. FallbackAfter(c, e) \in BOOLEAN
    <3>1. (addrRetries[c] >= MaxEdgeAddrRetries) \in BOOLEAN
      OBVIOUS
    <3>2. Recoverable(e) \in BOOLEAN
      BY DEF Recoverable
    <3> QED  BY <3>1, <3>2, Zenon DEF FallbackAfter
  <2> QED  BY <2>1 DEF IInv, TypeOK
<1>8. backoff' \in [Conns -> Handlers(MaxRetries)]
  BY BackoffFacts DEF IInv, TypeOK
<1>9. returned' \in [Conns -> {"none", "nil", "err", "noaddr"}] /\ NilOnlyOnShutdown'
  BY <1>1 DEF IInv, TypeOK, NilOnlyOnShutdown
<1>10. TypeOK'
  BY <1>2, <1>3, <1>4, <1>5, <1>6, <1>7, <1>8, <1>9 DEF IInv, TypeOK, Sent
<1>11. HonestInv'
  BY <1>2, <1>3, <1>5, HonestAfterSend DEF IInv
<1>12. FallbackIsHTTP2' /\ StaticInv'
  BY DEF IInv, FallbackIsHTTP2, StaticInv
<1> QED  BY <1>6, <1>9, <1>10, <1>11, <1>12 DEF IInv

(* Serve leaves its wait for the backoff.  What it does to the protocol    *)
(* fallback, if anything, must keep it coherent.                           *)
LEMMA LeaveInv ==
    ASSUME IInv, NEW c \in Conns, NEW r \in {"nil", "err"}, Leave(c, r),
           r = "nil" => gracefulShutdown,
           protocol' \in [Conns -> Protocols], inFallback' \in [Conns -> BOOLEAN],
           backoff' \in [Conns -> Handlers(MaxRetries)], FallbackIsHTTP2', StaticInv'
    PROVE  IInv'
<1> USE DEF Leave, envVars, settings
<1>1. TrackerTypeOK'
  BY TrackerUnchanged
<1>2. TypeOK'
  BY <1>1 DEF IInv, TypeOK
<1>3. HonestInv'
  <2>1. \A d \in Conns : pc[d] = "registered" => pc'[d] = "registered"
    BY DEF IInv, TypeOK
  <2> QED  BY <2>1, HonestAfterQuiet DEF IInv
<1>4. NilOnlyOnShutdown' /\ CauseInv'
  BY DEF IInv, TypeOK, NilOnlyOnShutdown, CauseInv
<1> QED  BY <1>2, <1>3, <1>4 DEF IInv

LEMMA RetryEndsInv ==
    ASSUME IInv, NEW c \in Conns, RetryCancelled(c) \/ RetryShutdown(c)
    PROVE  IInv'
<1> USE DEF RetryCancelled, RetryShutdown, fallbackVars
<1>1. /\ protocol' \in [Conns -> Protocols] /\ inFallback' \in [Conns -> BOOLEAN]
      /\ backoff' \in [Conns -> Handlers(MaxRetries)] /\ FallbackIsHTTP2' /\ StaticInv'
  BY DEF IInv, TypeOK, FallbackIsHTTP2, StaticInv, Leave, envVars, settings
<1> QED  BY <1>1, LeaveInv

(* selectNextProtocol: what it may do to the protocol of a connection.     *)
LEMMA SelectFacts ==
    ASSUME IInv, NEW c \in Conns, SelectNextProtocol(c)
    PROVE  /\ protocol' \in [Conns -> Protocols] /\ inFallback' \in [Conns -> BOOLEAN]
           /\ backoff' \in [Conns -> Handlers(MaxRetries)]
           /\ FallbackIsHTTP2'
           /\ \A d \in Conns : protocol'[d] # protocol[d] =>
                d = c /\ (SwitchesToFallback(c) \/ (FollowsSelector(c) /\ protocol'[d] = current))
<1>1. CASE SwitchesToFallback(c)
  <2> USE <1>1 DEF SelectNextProtocol
  <2>1. backoff' \in [Conns -> Handlers(MaxRetries)]
    BY BackoffFacts DEF IInv, TypeOK
  <2>2. /\ protocol' \in [Conns -> Protocols]
        /\ inFallback' \in [Conns -> BOOLEAN]
        /\ \A d \in Conns : protocol'[d] = IF d = c THEN FallbackProtocol ELSE protocol[d]
        /\ \A d \in Conns : d # c => inFallback'[d] = inFallback[d]
    BY DEF IInv, TypeOK, FallbackProtocol, Protocols
  <2>3. FallbackIsHTTP2'
    BY <2>2 DEF IInv, FallbackIsHTTP2, FallbackProtocol
  <2> QED  BY <2>1, <2>2, <2>3
<1>2. CASE ~SwitchesToFallback(c)
  <2> USE <1>2 DEF SelectNextProtocol
  <2>1. backoff' \in [Conns -> Handlers(MaxRetries)] /\ inFallback' \in [Conns -> BOOLEAN]
    BY DEF IInv, TypeOK
  <2>2. /\ protocol' \in [Conns -> Protocols]
        /\ \A d \in Conns : protocol'[d] =
             IF d = c /\ FollowsSelector(c) THEN current ELSE protocol[d]
    BY DEF IInv, TypeOK
  <2>3. FallbackIsHTTP2'
    BY <2>2 DEF IInv, FallbackIsHTTP2, FollowsSelector, FallbackProtocol
  <2> QED  BY <2>1, <2>2, <2>3
<1> QED  BY <1>1, <1>2

LEMMA RetryTimerInv ==
    ASSUME IInv, NEW c \in Conns, RetryTimer(c)
    PROVE  IInv'
<1> DEFINE r == IF cause[c] = "nil" THEN "nil" ELSE "err"
<1>1. Leave(c, r) /\ r \in {"nil", "err"}
  BY DEF RetryTimer
<1>2. r = "nil" => gracefulShutdown
  BY DEF IInv, CauseInv
<1>3. selector' = selector /\ current' = current
  BY <1>1 DEF Leave, envVars, settings
<1>4. CASE MayFallBack(c)
  <2>1. SelectNextProtocol(c)
    BY <1>4 DEF RetryTimer
  <2>2. /\ protocol' \in [Conns -> Protocols] /\ inFallback' \in [Conns -> BOOLEAN]
        /\ backoff' \in [Conns -> Handlers(MaxRetries)]
        /\ FallbackIsHTTP2'
        /\ \A d \in Conns : protocol'[d] # protocol[d] =>
             d = c /\ (SwitchesToFallback(c) \/ (FollowsSelector(c) /\ protocol'[d] = current))
    BY <2>1, SelectFacts
  <2>3. StaticInv'
    BY <1>3, <2>2 DEF IInv, StaticInv, SwitchesToFallback, HasFallback
  <2> HIDE DEF r
  <2> QED  BY <1>1, <1>2, <2>2, <2>3, LeaveInv
<1>5. CASE ~MayFallBack(c)
  <2>1. UNCHANGED fallbackVars
    BY <1>5 DEF RetryTimer
  <2>2. /\ protocol' \in [Conns -> Protocols] /\ inFallback' \in [Conns -> BOOLEAN]
        /\ backoff' \in [Conns -> Handlers(MaxRetries)] /\ FallbackIsHTTP2' /\ StaticInv'
    BY <1>3, <2>1 DEF IInv, TypeOK, FallbackIsHTTP2, StaticInv, fallbackVars
  <2> HIDE DEF r
  <2> QED  BY <1>1, <1>2, <2>2, LeaveInv
<1> QED  BY <1>4, <1>5

LEMMA EnvironmentInv ==
    ASSUME IInv, SelectorRefreshes \/ CancelContext \/ CloseGracefulShutdown
    PROVE  IInv'
<1> USE DEF SelectorRefreshes, CancelContext, CloseGracefulShutdown, fallbackVars,
            attemptVars, settings
<1>1. TrackerTypeOK'
  BY TrackerUnchanged
<1>2. TypeOK'
  BY <1>1 DEF IInv, TypeOK
<1>3. HonestInv'
  BY HonestAfterQuiet DEF IInv
<1>4. FallbackIsHTTP2' /\ NilOnlyOnShutdown' /\ CauseInv' /\ StaticInv'
  BY DEF IInv, FallbackIsHTTP2, NilOnlyOnShutdown, CauseInv, StaticInv
<1> QED  BY <1>2, <1>3, <1>4 DEF IInv

LEMMA DispatchStepInv ==
    ASSUME IInv, Dispatch
    PROVE  IInv'
<1> USE DEF Dispatch, fallbackVars, attemptVars, envVars, settings
<1>1. TrackerTypeOK' /\ HonestInv'
  BY DispatchInv DEF IInv
<1>2. TypeOK'
  BY <1>1 DEF IInv, TypeOK
<1>3. FallbackIsHTTP2' /\ NilOnlyOnShutdown' /\ CauseInv' /\ StaticInv'
  BY DEF IInv, FallbackIsHTTP2, NilOnlyOnShutdown, CauseInv, StaticInv
<1> QED  BY <1>1, <1>2, <1>3 DEF IInv

LEMMA NextInv == IInv /\ [Next]_vars => IInv'
<1> SUFFICES ASSUME IInv, [Next]_vars PROVE IInv'
  OBVIOUS
<1>1. CASE UNCHANGED vars
  BY <1>1, StutterInv
<1>2. CASE SelectorRefreshes \/ CancelContext \/ CloseGracefulShutdown
  BY <1>2, EnvironmentInv
<1>3. CASE Dispatch
  BY <1>3, DispatchStepInv
<1>4. ASSUME NEW c \in Conns,
             Serve(c) \/ Registered(c) \/ Unregisters(c) \/ LateRegistered(c) \/ LateUnregisters(c)
      PROVE  IInv'
  BY <1>4, ServeInv, RegisteredInv, UnregistersInv
<1>5. ASSUME NEW c \in Conns, NEW e \in Outcomes(c), ServeTunnelReturns(c, e)
      PROVE  IInv'
  BY <1>5, ServeTunnelReturnsInv
<1>6. ASSUME NEW c \in Conns, RetryCancelled(c) \/ RetryShutdown(c) \/ RetryTimer(c)
      PROVE  IInv'
  BY <1>6, RetryEndsInv, RetryTimerInv
<1> QED  BY <1>1, <1>2, <1>3, <1>4, <1>5, <1>6 DEF Next

-----------------------------------------------------------------------------
(* Every step of Serve, of the control streams and of the tracker keeps    *)
(* the inductive invariant.                                                *)
THEOREM TunnelServerInvariance == Spec => []IInv
<1>1. Init => IInv
  BY InitInv
<1>2. IInv /\ [Next]_vars => IInv'
  BY NextInv
<1> QED  BY <1>1, <1>2, PTL DEF Spec

(* Serve returns nil, which the supervisor takes as the end of the tunnel, *)
(* only in a graceful shutdown, and a protocolFallback that is marked as   *)
(* in fallback uses the fallback protocol, even when a control stream of a *)
(* lost connection resets it late.                                         *)
THEOREM ServeIsSound == Spec => []ServeSound
<1>1. IInv => ServeSound
  BY DEF IInv, ServeSound
<1> QED  BY <1>1, TunnelServerInvariance, PTL

(* The readiness endpoint does not keep counting a connection that is gone:*)
(* when the observer has dispatched what was sent and dropped nothing, the *)
(* tracker counts only connections that are registered, for any number of  *)
(* connections whose events mix in the channel.                            *)
THEOREM ReadinessIsHonest == Spec => []ReadyIsHonest
<1>1. IInv => ReadyIsHonest
  <2> SUFFICES ASSUME IInv, Settled, NEW c \in Conns, connectionInfo[c].isConnected
               PROVE  pc[c] = "registered"
    BY DEF ReadyIsHonest
  <2>1. events = <<>> /\ Len(<<>>) = 0
    BY EmptySeq DEF Settled
  <2>2. Counted(events, connectionInfo[c].isConnected, c)
    BY <2>1 DEF Counted, NoneOf
  <2> QED  BY <2>2 DEF IInv, HonestInv, Settled
<1> QED  BY <1>1, TunnelServerInvariance, PTL

(* selectNextProtocol changes the protocol of a connection only to what    *)
(* the selector says now, or after QUIC proved broken or the retries ran   *)
(* out, and never when the user picked one.                                *)
THEOREM SwitchesHaveReason == Spec => SwitchNeedsReason
<1>1. ASSUME IInv, [Next]_vars, NEW d \in Conns, protocol'[d] # protocol[d]
      PROVE  /\ selector # "static"
             /\ \/ protocol'[d] = current
                \/ cause[d] = "quicbroken" \/ backoff[d].retries = MaxRetries
  <2>1. \E c \in Conns : RetryTimer(c)
    <3>1. CASE SelectorRefreshes \/ CancelContext \/ CloseGracefulShutdown \/ Dispatch
      BY <1>1, <3>1 DEF SelectorRefreshes, CancelContext, CloseGracefulShutdown, Dispatch,
         fallbackVars
    <3>2. CASE UNCHANGED vars
      BY <1>1, <3>2 DEF vars, fallbackVars
    <3>3. ASSUME NEW c \in Conns,
                 \/ Serve(c) \/ Registered(c) \/ Unregisters(c) \/ LateRegistered(c)
                 \/ LateUnregisters(c) \/ \E e \in Outcomes(c) : ServeTunnelReturns(c, e)
                 \/ RetryCancelled(c) \/ RetryShutdown(c)
          PROVE  FALSE
      BY <1>1, <3>3 DEF Serve, Registered, Unregisters, LateRegistered, LateUnregisters,
         ServeTunnelReturns, RetryCancelled, RetryShutdown, fallbackVars
    <3> QED  BY <1>1, <3>1, <3>2, <3>3 DEF Next
  <2>2. PICK c \in Conns : RetryTimer(c)
    BY <2>1
  <2>3. SelectNextProtocol(c)
    BY <1>1, <2>2 DEF RetryTimer, fallbackVars
  <2>4. d = c /\ (SwitchesToFallback(c) \/ (FollowsSelector(c) /\ protocol'[d] = current))
    BY <1>1, <2>3, SelectFacts
  <2>5. CASE SwitchesToFallback(c)
    BY <2>4, <2>5 DEF SwitchesToFallback, GivesUpProtocol, HasFallback, ReachedMaxRetries
  <2>6. CASE protocol'[d] = current
    BY <1>1, <2>6 DEF IInv, StaticInv
  <2> QED  BY <2>4, <2>5, <2>6
<1>2. IInv /\ [Next]_vars =>
        [\A c \in Conns : protocol'[c] # protocol[c] =>
           /\ selector # "static"
           /\ \/ protocol'[c] = current
              \/ cause[c] = "quicbroken" \/ backoff[c].retries = MaxRetries]_vars
  BY <1>1
<1> QED  BY <1>2, TunnelServerInvariance, PTL DEF Spec, SwitchNeedsReason
=============================================================================
