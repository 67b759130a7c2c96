------------------------------ MODULE H2Proofs ------------------------------
(***************************************************************************)
(* Proofs about an h2mux connection: its heartbeats (module H2Heartbeat),  *)
(* its handshake (H2Handshake), and the flow control of its streams, which *)
(* both muxers' readers, writers and applications share (H2Mux, H2Stream). *)
(***************************************************************************)
EXTENDS H2Handshake, H2Heartbeat, H2Mux, SequenceTheorems, FiniteSetTheorems,
        WellFoundedInduction, NaturalsInduction, TLAPS

(***************************************************************************)
(* The heartbeats.  Anything on its way to m, or owed to it, resets its    *)
(* idle timer before the timer fires again.  One unanswered ping leaves a  *)
(* stamp at the other end, which makes the second one be answered.         *)
(***************************************************************************)
HBFrames == {"DATA", "PING", "PING_ACK"}

HeartbeatTypeOK ==
    /\ retries \in [Muxes -> Nat]
    /\ stamped \in [Muxes -> BOOLEAN] /\ ackDue \in [Muxes -> BOOLEAN]
    /\ connActive \in [Muxes -> BOOLEAN] /\ dropped \in [Muxes -> BOOLEAN]
    /\ pipe \in [Muxes -> Seq(HBFrames)]
    /\ dead \in BOOLEAN

Soon(m) == connActive[m] \/ ackDue[Far(m)] \/ pipe[Far(m)] # <<>>

PingInFlight(m) == \E i \in 1 .. Len(pipe[m]) : pipe[m][i] = "PING"

AnswerInv(m) ==
    ~dead =>
        /\ ~dropped[m]
        /\ retries[m] = 1 => Soon(m) \/ stamped[Far(m)] \/ PingInFlight(m)
        /\ retries[m] >= 2 => Soon(m) \/ (stamped[Far(m)] /\ PingInFlight(m))

HeartbeatInv == HeartbeatTypeOK /\ \A m \in Muxes : AnswerInv(m)

-----------------------------------------------------------------------------
LEMMA FarFact ==
    ASSUME NEW m \in Muxes
    PROVE  Far(m) \in Muxes /\ Far(m) # m /\ Far(Far(m)) = m
           /\ \A x \in Muxes : x = m \/ x = Far(m)
BY DEF Muxes, Far

LEMMA HeartbeatInitInv == HeartbeatInit => HeartbeatInv
<1> SUFFICES ASSUME HeartbeatInit PROVE HeartbeatInv OBVIOUS
<1>1. HeartbeatTypeOK
  <2>1. <<>> \in Seq(HBFrames) OBVIOUS
  <2>2. pipe \in [Muxes -> Seq(HBFrames)] BY <2>1 DEF HeartbeatInit
  <2> QED BY <2>2 DEF HeartbeatInit, HeartbeatTypeOK
<1>2. \A m \in Muxes : retries[m] = 0 /\ ~dropped[m] BY DEF HeartbeatInit
<1> QED BY <1>1, <1>2 DEF HeartbeatInv, AnswerInv

(***************************************************************************)
(* A frame written while the network lives is in the pipe, behind what was *)
(* there.                                                                  *)
(***************************************************************************)
LEMMA EmitFact ==
    ASSUME HeartbeatTypeOK, NEW m \in Muxes, NEW f \in HBFrames, Emit(m, f)
    PROVE  /\ pipe' \in [Muxes -> Seq(HBFrames)]
           /\ \A x \in Muxes \ {m} : pipe'[x] = pipe[x]
           /\ ~dead => /\ pipe'[m] # <<>>
                       /\ PingInFlight(m) => PingInFlight(m)'
                       /\ f = "PING" => PingInFlight(m)'
<1>1. pipe[m] \in Seq(HBFrames) BY DEF HeartbeatTypeOK
<1>2. Append(pipe[m], f) \in Seq(HBFrames) BY <1>1
<1>3. /\ pipe' \in [Muxes -> Seq(HBFrames)]
      /\ \A x \in Muxes \ {m} : pipe'[x] = pipe[x]
      /\ ~dead => pipe'[m] = Append(pipe[m], f)
  BY <1>1, <1>2 DEF Emit, HeartbeatTypeOK
<1>4. /\ Len(Append(pipe[m], f)) = Len(pipe[m]) + 1 /\ Len(pipe[m]) \in Nat
      /\ \A i \in 1 .. Len(pipe[m]) : Append(pipe[m], f)[i] = pipe[m][i]
      /\ Append(pipe[m], f)[Len(pipe[m]) + 1] = f
      /\ Append(pipe[m], f) # <<>>
  BY <1>1
<1>5. ASSUME ~dead
      PROVE  /\ pipe'[m] # <<>>
             /\ PingInFlight(m) => PingInFlight(m)'
             /\ f = "PING" => PingInFlight(m)'
  <2>1. Len(pipe'[m]) = Len(pipe[m]) + 1 /\ pipe'[m] # <<>>
        /\ (\A i \in 1 .. Len(pipe[m]) : pipe'[m][i] = pipe[m][i])
        /\ pipe'[m][Len(pipe[m]) + 1] = f
    BY <1>3, <1>4, <1>5
  <2>2. Len(pipe[m]) + 1 \in 1 .. Len(pipe'[m])
        /\ \A i \in 1 .. Len(pipe[m]) : i \in 1 .. Len(pipe'[m])
    BY <1>4, <2>1
  <2> QED BY <2>1, <2>2 DEF PingInFlight
<1> QED BY <1>3, <1>5

-----------------------------------------------------------------------------
LEMMA ReadFrameInv == ASSUME HeartbeatInv, NEW m \in Muxes, ReadFrame(m) PROVE HeartbeatInv'
<1> DEFINE o == Far(m)
           isPing == Head(pipe[o]) = "PING"
<1>1. o \in Muxes /\ o # m /\ Far(o) = m /\ \A x \in Muxes : x = m \/ x = o BY FarFact
<1>2. HeartbeatTypeOK /\ AnswerInv(o) /\ AnswerInv(m) BY <1>1 DEF HeartbeatInv
<1>3. ~dead /\ UNCHANGED <<retries, dropped, dead>> BY DEF ReadFrame
<1>4. /\ pipe[o] \in Seq(HBFrames) /\ pipe[o] # <<>>
      /\ pipe' = [pipe EXCEPT ![o] = Tail(pipe[o])]
      /\ connActive' = [connActive EXCEPT ![m] = TRUE]
      /\ isPing => /\ stamped' = [stamped EXCEPT ![m] = TRUE]
                   /\ ackDue' = [ackDue EXCEPT ![m] = ackDue[m] \/ stamped[m]]
      /\ ~isPing => UNCHANGED <<stamped, ackDue>>
  BY <1>1, <1>2 DEF ReadFrame, HeartbeatTypeOK, SetSignals
<1> HIDE DEF isPing, o
<1>5. /\ Tail(pipe[o]) \in Seq(HBFrames) /\ Len(Tail(pipe[o])) = Len(pipe[o]) - 1
      /\ Len(pipe[o]) \in Nat \ {0} /\ Head(pipe[o]) = pipe[o][1]
      /\ \A i \in 1 .. Len(pipe[o]) - 1 : Tail(pipe[o])[i] = pipe[o][i + 1]
  BY <1>4, HeadTailProperties
<1>6. /\ pipe' \in [Muxes -> Seq(HBFrames)] /\ pipe'[o] = Tail(pipe[o])
      /\ pipe'[m] = pipe[m]
      /\ connActive' \in [Muxes -> BOOLEAN] /\ connActive'[m] /\ connActive'[o] = connActive[o]
  BY <1>1, <1>2, <1>4, <1>5 DEF HeartbeatTypeOK
<1>7. /\ stamped' \in [Muxes -> BOOLEAN] /\ ackDue' \in [Muxes -> BOOLEAN]
      /\ stamped[m] => stamped'[m]
      /\ ackDue[m] => ackDue'[m]
      /\ isPing => stamped'[m] /\ (stamped[m] => ackDue'[m])
  <2>1. CASE isPing BY <1>2, <1>4, <2>1 DEF HeartbeatTypeOK
  <2>2. CASE ~isPing BY <1>2, <1>4, <2>2 DEF HeartbeatTypeOK
  <2> QED BY <2>1, <2>2
<1>8. PingInFlight(o) => isPing \/ PingInFlight(o)'
  <2> SUFFICES ASSUME NEW i \in 1 .. Len(pipe[o]), pipe[o][i] = "PING", ~isPing
               PROVE  \E j \in 1 .. Len(pipe'[o]) : pipe'[o][j] = "PING"
    BY DEF PingInFlight
  <2>1. i # 1 BY <1>5 DEF isPing
  <2>2. i - 1 \in 1 .. Len(pipe[o]) - 1 BY <1>5, <2>1
  <2>3. Tail(pipe[o])[i - 1] = pipe[o][(i - 1) + 1] BY <1>5, <2>2
  <2>4. (i - 1) + 1 = i BY <1>5
  <2> QED BY <1>5, <1>6, <2>2, <2>3, <2>4
<1>9. HeartbeatTypeOK' BY <1>2, <1>3, <1>6, <1>7 DEF HeartbeatTypeOK
<1>10. AnswerInv(m)' BY <1>2, <1>3, <1>6 DEF AnswerInv, Soon
<1>11. AnswerInv(o)'
  BY <1>1, <1>2, <1>3, <1>6, <1>7, <1>8 DEF AnswerInv, Soon
<1> QED BY <1>1, <1>9, <1>10, <1>11 DEF HeartbeatInv

(***************************************************************************)
(* A write resets the writer's own timer, and is on its way to the other   *)
(* end, whose timer it will reset.                                         *)
(***************************************************************************)
LEMMA WriteResetsInv ==
    ASSUME HeartbeatInv, NEW m \in Muxes, NEW f \in HBFrames, Emit(m, f), MarkActive(m),
           stamped' \in [Muxes -> BOOLEAN], ackDue' \in [Muxes -> BOOLEAN],
           UNCHANGED <<connActive, dropped, dead>>
    PROVE  HeartbeatInv'
<1> DEFINE o == Far(m)
<1>1. o \in Muxes /\ o # m /\ Far(o) = m /\ \A x \in Muxes : x = m \/ x = o BY FarFact
<1>2. HeartbeatTypeOK /\ AnswerInv(o) /\ AnswerInv(m) BY <1>1 DEF HeartbeatInv
<1> HIDE DEF o
<1>3. retries' \in [Muxes -> Nat] /\ retries'[m] = 0 BY <1>2 DEF MarkActive, HeartbeatTypeOK
<1>4. pipe' \in [Muxes -> Seq(HBFrames)] /\ (~dead => pipe'[m] # <<>>) BY <1>2, EmitFact
<1>5. HeartbeatTypeOK' BY <1>2, <1>3, <1>4 DEF HeartbeatTypeOK
<1>6. AnswerInv(m)' BY <1>2, <1>3 DEF AnswerInv
<1>7. AnswerInv(o)' BY <1>1, <1>2, <1>4 DEF AnswerInv, Soon
<1> QED BY <1>1, <1>5, <1>6, <1>7 DEF HeartbeatInv

LEMMA WriteTrafficInv ==
    ASSUME HeartbeatInv, NEW m \in Muxes, WriteTraffic(m) PROVE HeartbeatInv'
<1>1. stamped' \in [Muxes -> BOOLEAN] /\ ackDue' \in [Muxes -> BOOLEAN]
  BY DEF WriteTraffic, HeartbeatInv, HeartbeatTypeOK
<1> QED BY <1>1, WriteResetsInv DEF WriteTraffic, HBFrames

LEMMA WritePingAckInv ==
    ASSUME HeartbeatInv, NEW m \in Muxes, WritePingAck(m) PROVE HeartbeatInv'
<1>1. stamped' \in [Muxes -> BOOLEAN] /\ ackDue' \in [Muxes -> BOOLEAN]
  BY DEF WritePingAck, HeartbeatInv, HeartbeatTypeOK
<1> QED BY <1>1, WriteResetsInv DEF WritePingAck, HBFrames

LEMMA SeeActiveInv == ASSUME HeartbeatInv, NEW m \in Muxes, SeeActive(m) PROVE HeartbeatInv'
<1> DEFINE o == Far(m)
<1>1. o \in Muxes /\ o # m /\ Far(o) = m /\ \A x \in Muxes : x = m \/ x = o BY FarFact
<1>2. HeartbeatTypeOK /\ AnswerInv(o) /\ AnswerInv(m) BY <1>1 DEF HeartbeatInv
<1> HIDE DEF o
<1>3. UNCHANGED <<stamped, ackDue, pipe, dropped, dead>> BY DEF SeeActive
<1>4. /\ retries' \in [Muxes -> Nat] /\ retries'[m] = 0 /\ retries'[o] = retries[o]
      /\ connActive' \in [Muxes -> BOOLEAN] /\ connActive'[o] = connActive[o]
  BY <1>1, <1>2 DEF SeeActive, MarkActive, HeartbeatTypeOK
<1>5. HeartbeatTypeOK' BY <1>2, <1>3, <1>4 DEF HeartbeatTypeOK
<1>6. AnswerInv(m)' BY <1>2, <1>3, <1>4 DEF AnswerInv
<1>7. AnswerInv(o)' BY <1>1, <1>2, <1>3, <1>4 DEF AnswerInv, Soon, PingInFlight
<1> QED BY <1>1, <1>5, <1>6, <1>7 DEF HeartbeatInv

(***************************************************************************)
(* The timer fires when nothing is on its way: at most one ping has gone   *)
(* unanswered, so this is the one that will be answered, and with at least *)
(* two heartbeats to go the writer does not give up.                       *)
(***************************************************************************)
LEMMA FiresFact ==
    ASSUME HeartbeatInv, NEW m \in Muxes, Fires(m), ~dead
    PROVE  /\ retries[m] \in {0, 1}
           /\ retries[m] = 1 => stamped[Far(m)]
<1>1. Far(m) \in Muxes /\ \A x \in Muxes : pipe[x] = <<>>
  BY FarFact DEF Fires, Muxes
<1>2. ~Soon(m) BY <1>1 DEF Fires, Quiet, Soon
<1>3. ~PingInFlight(m) BY <1>1 DEF PingInFlight
<1>4. retries[m] \in Nat /\ AnswerInv(m) BY DEF HeartbeatInv, HeartbeatTypeOK
<1> QED BY <1>2, <1>3, <1>4 DEF AnswerInv

LEMMA RetryInv == ASSUME HeartbeatInv, NEW m \in Muxes, Retry(m) PROVE HeartbeatInv'
<1> DEFINE o == Far(m)
<1>1. o \in Muxes /\ o # m /\ Far(o) = m /\ \A x \in Muxes : x = m \/ x = o BY FarFact
<1>2. HeartbeatTypeOK /\ AnswerInv(o) /\ AnswerInv(m) BY <1>1 DEF HeartbeatInv
<1>3. ~dead => retries[m] \in {0, 1} /\ (retries[m] = 1 => stamped[o])
  BY FiresFact DEF Retry
<1> HIDE DEF o
<1>4. UNCHANGED <<stamped, ackDue, connActive, dropped, dead>> BY DEF Retry
<1>5. /\ retries' \in [Muxes -> Nat] /\ retries'[m] = retries[m] + 1
  BY <1>2 DEF Retry, HeartbeatTypeOK
<1>6. /\ pipe' \in [Muxes -> Seq(HBFrames)]
      /\ ~dead => pipe'[m] # <<>> /\ PingInFlight(m)'
  BY <1>2, EmitFact DEF Retry, HBFrames
<1>7. HeartbeatTypeOK' BY <1>2, <1>4, <1>5, <1>6 DEF HeartbeatTypeOK
<1>8. AnswerInv(m)' BY <1>2, <1>3, <1>4, <1>5, <1>6 DEF AnswerInv, o
<1>9. AnswerInv(o)' BY <1>1, <1>2, <1>4, <1>6 DEF AnswerInv, Soon
<1> QED BY <1>1, <1>7, <1>8, <1>9 DEF HeartbeatInv

LEMMA GiveUpInv ==
    ASSUME MaxHeartbeats >= 2, HeartbeatInv, NEW m \in Muxes, GiveUp(m) PROVE HeartbeatInv'
<1>1. dead
  BY FiresFact, HeartbeatAssumption DEF GiveUp
<1>2. UNCHANGED <<retries, stamped, ackDue, connActive, pipe, dead>>
      /\ dropped' \in [Muxes -> BOOLEAN]
  BY DEF GiveUp, HeartbeatInv, HeartbeatTypeOK
<1> QED BY <1>1, <1>2 DEF HeartbeatInv, HeartbeatTypeOK, AnswerInv

LEMMA NetworkDiesInv == ASSUME HeartbeatInv, NetworkDies PROVE HeartbeatInv'
<1>1. <<>> \in Seq(HBFrames) OBVIOUS
<1>2. pipe' \in [Muxes -> Seq(HBFrames)] BY <1>1 DEF NetworkDies
<1>3. dead' = TRUE /\ UNCHANGED <<retries, stamped, ackDue, connActive, dropped>>
  BY DEF NetworkDies
<1> QED BY <1>2, <1>3 DEF HeartbeatInv, HeartbeatTypeOK, AnswerInv

(***************************************************************************)
(* A muxer whose peer answers and whose network delivers keeps its         *)
(* connection, for every MaxHeartbeats of at least two, although every     *)
(* other ping goes unanswered (h2mux/idletimer.go and h2mux/muxwriter.go). *)
(***************************************************************************)
THEOREM HealthyIsKept ==
    ASSUME MaxHeartbeats >= 2 PROVE HeartbeatSpec => []HealthyNotDropped
<1>1. HeartbeatInit => HeartbeatInv BY HeartbeatInitInv
<1>2. HeartbeatInv /\ [HeartbeatNext]_hbVars => HeartbeatInv'
  <2> SUFFICES ASSUME HeartbeatInv, [HeartbeatNext]_hbVars PROVE HeartbeatInv' OBVIOUS
  <2>1. CASE UNCHANGED hbVars
    BY <2>1 DEF hbVars, HeartbeatInv, HeartbeatTypeOK, AnswerInv, Soon, PingInFlight
  <2>2. ASSUME NEW m \in Muxes, HeartbeatWriter(m) PROVE HeartbeatInv'
    BY <2>2, WritePingAckInv, SeeActiveInv, RetryInv, GiveUpInv DEF HeartbeatWriter
  <2> QED BY <2>1, <2>2, ReadFrameInv, WriteTrafficInv, NetworkDiesInv DEF HeartbeatNext
<1>3. HeartbeatInv => HealthyNotDropped
  BY DEF HeartbeatInv, AnswerInv, HealthyNotDropped
<1> QED BY <1>1, <1>2, <1>3, PTL DEF HeartbeatSpec

-----------------------------------------------------------------------------
(***************************************************************************)
(* The handshake.  What an end can do and says in its SETTINGS, and what   *)
(* two ends can do together.                                               *)
(***************************************************************************)
Capability(e) == IF config[e].supported THEN config[e].preset ELSE CompressionNone
SettingOf(e) ==
    IF config[e].supported THEN CompressionSettingVal(config[e].preset) ELSE 0

SettingsFrame(e) ==
    [type |-> "SETTINGS", magic |-> config[e].role, compression |-> SettingOf(e)]
AckFrame == [type |-> "ACK"]
AlienFrames == { [type |-> "SETTINGS", magic |-> "none", compression |-> 0],
                 [type |-> "ACK"], [type |-> "OTHER"] }

Lesser(x, y) == IF x < y THEN x ELSE y
Common(q, p) == [nDicts |-> Lesser(p.nDicts, q.nDicts), dictSize |-> Lesser(p.dictSize, q.dictSize)]

(* The 32 bits of the setting carry a preset faithfully, and an end that   *)
(* sends no preset, or the empty one, gets no compression.                 *)
LEMMA NegotiatedFact ==
    ASSUME NEW q \in CompressionPresets, NEW p \in CompressionPresets
    PROVE  /\ Negotiated(q, CompressionSettingVal(p)) = Common(q, p)
           /\ Negotiated(q, 0) = Common(q, CompressionNone)
<1> USE DEF CompressionVersion, CompressionFormat
<1>1. ParseCompressionSettingVal(CompressionSettingVal(p)) =
        [version |-> 1, format |-> 2, dictSize |-> p.dictSize, nDicts |-> p.nDicts]
  BY DEF ParseCompressionSettingVal, CompressionSettingVal, CompressionPresets
<1>2. ParseCompressionSettingVal(0).version = 0 BY DEF ParseCompressionSettingVal
<1>3. q.nDicts \in Nat /\ q.dictSize \in Nat /\ p.nDicts \in Nat /\ p.dictSize \in Nat
  BY DEF CompressionPresets
<1>4. p.dictSize = 0 <=> p.nDicts = 0 BY DEF CompressionPresets
<1>5. Negotiated(q, 0) = CompressionNone BY <1>2 DEF Negotiated
<1>6. Common(q, CompressionNone) = CompressionNone
  BY <1>3 DEF Common, Lesser, CompressionNone
<1>7. CASE p.dictSize = 0
  <2>1. Negotiated(q, CompressionSettingVal(p)) = CompressionNone
    BY <1>1, <1>7 DEF Negotiated
  <2>2. Common(q, p) = CompressionNone
    BY <1>3, <1>4, <1>7 DEF Common, Lesser, CompressionNone
  <2> QED BY <1>5, <1>6, <2>1, <2>2
<1>8. CASE p.dictSize # 0
  <2>1. Negotiated(q, CompressionSettingVal(p)) = Common(q, p)
    BY <1>1, <1>4, <1>8 DEF Negotiated, Common, Lesser
  <2> QED BY <1>5, <1>6, <2>1
<1> QED BY <1>7, <1>8

LEMMA CommonSymmetric ==
    ASSUME NEW q \in CompressionPresets, NEW p \in CompressionPresets
    PROVE  Common(q, p) = Common(p, q)
BY DEF Common, Lesser, CompressionPresets

-----------------------------------------------------------------------------
HeardSettings(e) == (stage[e] = "settings" /\ heard[e]) \/ stage[e] \in {"ack", "ok"}
HeardAck(e) == (stage[e] = "ack" /\ heard[e]) \/ stage[e] = "ok"
Unwritten(e) == stage[e] = "settings" /\ ~wrote[e]

(* e has accepted the other end for what it is.                            *)
Agreed(e) ==
    /\ IsMuxer(e) /\ IsMuxer(OtherEnd(e)) /\ config[OtherEnd(e)].role # config[e].role
    /\ quality[e] = Common(Capability(e), Capability(OtherEnd(e)))

HsTypeOK ==
    /\ DOMAIN config = Ends /\ \A e \in Ends : config[e] \in Muxers \cup {[kind |-> "alien"]}
    /\ stage \in [Ends -> {"settings", "ack", "ok", "failed"}]
    /\ wrote \in [Ends -> BOOLEAN] /\ heard \in [Ends -> BOOLEAN]

(* What is on its way from e.                                              *)
SentInv(e) ==
    /\ IsMuxer(e) =>
         /\ sent[e] \in {<<>>, <<SettingsFrame(e)>>, <<SettingsFrame(e), AckFrame>>, <<AckFrame>>}
         /\ Unwritten(e) => sent[e] = <<>>
         /\ stage[e] = "settings" \/ (stage[e] = "ack" /\ ~wrote[e]) =>
              sent[e] \in {<<>>, <<SettingsFrame(e)>>}
         /\ sent[e] \in {<<SettingsFrame(e)>>, <<SettingsFrame(e), AckFrame>>} =>
              ~HeardSettings(OtherEnd(e))
         /\ sent[e] \in {<<SettingsFrame(e), AckFrame>>, <<AckFrame>>} => Agreed(e)
         /\ HeardSettings(OtherEnd(e)) => ~Unwritten(e)
    /\ ~IsMuxer(e) =>
         /\ stage[e] = "settings" /\ ~heard[e]
         /\ sent[e] = <<>> \/ \E f \in AlienFrames : sent[e] = <<f>>

(* What e knows.                                                           *)
HeardInv(e) ==
    /\ HeardSettings(e) => Agreed(e)
    /\ HeardAck(e) => Agreed(OtherEnd(e))
    /\ IsMuxer(e) /\ stage[e] = "settings" /\ ~heard[e] => quality[e] = Capability(e)

HandshakeInv ==
    /\ HsTypeOK /\ DOMAIN sent = Ends /\ DOMAIN quality = Ends
    /\ \A e \in Ends : SentInv(e) /\ HeardInv(e)

LEMMA TupleFacts ==
    ASSUME NEW x, NEW y
    PROVE  /\ Append(<<>>, x) = <<x>> /\ Append(<<x>>, y) = <<x, y>>
           /\ Head(<<x>>) = x /\ Tail(<<x>>) = <<>>
           /\ Head(<<x, y>>) = x /\ Tail(<<x, y>>) = <<y>>
           /\ <<x>> # <<>> /\ <<x, y>> # <<>> /\ <<x>> # <<x, y>> /\ <<y>> # <<x, y>>
           /\ (<<x>> = <<y>> => x = y)
<1> DEFINE s == Append(<<x>>, y)
           t == <<x, y>>
<1>1. <<x>> \in Seq({x, y}) OBVIOUS
<1>2. s \in Seq({x, y}) /\ Len(s) = 2 /\ s[1] = x /\ s[2] = y BY <1>1, AppendProperties
<1>3. t \in Seq({x, y}) /\ Len(t) = 2 /\ t[1] = x /\ t[2] = y OBVIOUS
<1> HIDE DEF s, t
<1>4. ASSUME NEW i \in 1 .. 2 PROVE s[i] = t[i]
  <2>1. i = 1 \/ i = 2 OBVIOUS
  <2> QED BY <2>1, <1>2, <1>3
<1>5. s = t BY <1>2, <1>3, <1>4, SeqEqual
<1>6. Append(<<x>>, y) = <<x, y>> BY <1>5 DEF s, t
<1> QED BY <1>6

LEMMA FrameFacts ==
    ASSUME NEW e
    PROVE  /\ SettingsFrame(e).type = "SETTINGS" /\ AckFrame.type = "ACK"
           /\ SettingsFrame(e).magic = config[e].role
           /\ SettingsFrame(e).compression = SettingOf(e)
           /\ SettingsFrame(e) # AckFrame
<1>1. /\ SettingsFrame(e).type = "SETTINGS" /\ AckFrame.type = "ACK"
      /\ SettingsFrame(e).magic = config[e].role
      /\ SettingsFrame(e).compression = SettingOf(e)
  BY DEF SettingsFrame, AckFrame
<1> QED BY <1>1

LEMMA OtherEndFact ==
    ASSUME NEW e \in Ends
    PROVE  /\ OtherEnd(e) \in Ends /\ OtherEnd(e) # e /\ OtherEnd(OtherEnd(e)) = e
           /\ \A x \in Ends : x = e \/ x = OtherEnd(e)
BY DEF Ends, OtherEnd

LEMMA ConfigFact ==
    ASSUME HsTypeOK, NEW e \in Ends, IsMuxer(e)
    PROVE  /\ config[e].role \in Roles /\ Capability(e) \in CompressionPresets
           /\ config[e].preset \in CompressionPresets /\ config[e].supported \in BOOLEAN
<1>1. config[e] \in Muxers
  BY DEF HsTypeOK, IsMuxer
<1>2. config[e].role \in Roles /\ config[e].preset \in CompressionPresets
      /\ config[e].supported \in BOOLEAN
  BY <1>1 DEF Muxers
<1>3. CompressionNone \in CompressionPresets BY DEF CompressionNone, CompressionPresets
<1> QED BY <1>2, <1>3 DEF Capability

LEMMA NegotiatesCommon ==
    ASSUME HsTypeOK, NEW e \in Ends, IsMuxer(e), IsMuxer(OtherEnd(e))
    PROVE  Negotiated(Capability(e), SettingOf(OtherEnd(e)))
             = Common(Capability(e), Capability(OtherEnd(e)))
<1>1. OtherEnd(e) \in Ends BY OtherEndFact
<1> QED BY <1>1, ConfigFact, NegotiatedFact DEF SettingOf, Capability

LEMMA StaticFact ==
    ASSUME config' = config
    PROVE  \A e : /\ IsMuxer(e)' <=> IsMuxer(e)
                  /\ SettingsFrame(e)' = SettingsFrame(e)
                  /\ Capability(e)' = Capability(e)
                  /\ quality'[e] = quality[e] /\ quality'[OtherEnd(e)] = quality[OtherEnd(e)] =>
                       (Agreed(e)' <=> Agreed(e))
BY DEF IsMuxer, SettingsFrame, Capability, Agreed, SettingOf, OtherEnd

LEMMA HandshakeInitInv == HandshakeInit => HandshakeInv
<1> SUFFICES ASSUME HandshakeInit PROVE HandshakeInv OBVIOUS
<1>1. PICK a \in Muxers, b \in Muxers \cup {[kind |-> "alien"]} :
        /\ config = [e \in Ends |-> IF e = "a" THEN a ELSE b]
        /\ quality = [e \in Ends |->
              IF config[e].kind = "muxer" /\ config[e].supported THEN config[e].preset
              ELSE CompressionNone]
  BY DEF HandshakeInit
<1>2. DOMAIN config = Ends /\ \A e \in Ends : config[e] \in Muxers \cup {[kind |-> "alien"]}
  BY <1>1
<1>3. /\ stage \in [Ends -> {"settings", "ack", "ok", "failed"}]
      /\ wrote \in [Ends -> BOOLEAN] /\ heard \in [Ends -> BOOLEAN] /\ DOMAIN sent = Ends
      /\ \A e \in Ends : stage[e] = "settings" /\ ~wrote[e] /\ ~heard[e] /\ sent[e] = <<>>
  BY DEF HandshakeInit
<1>4. /\ DOMAIN quality = Ends
      /\ \A e \in Ends : IsMuxer(e) => quality[e] = Capability(e)
  BY <1>1 DEF IsMuxer, Capability
<1>5. HsTypeOK BY <1>2, <1>3 DEF HsTypeOK
<1>6. ASSUME NEW e \in Ends PROVE SentInv(e) /\ HeardInv(e)
  <2>1. OtherEnd(e) \in Ends BY OtherEndFact
  <2>2. ~HeardSettings(e) /\ ~HeardSettings(OtherEnd(e)) /\ ~HeardAck(e)
    BY <1>3, <2>1 DEF HeardSettings, HeardAck
  <2>3. <<AckFrame>> # <<>> /\ <<SettingsFrame(e)>> # <<>> /\ <<SettingsFrame(e), AckFrame>> # <<>>
    BY TupleFacts
  <2> QED BY <1>3, <1>4, <2>2, <2>3 DEF SentInv, HeardInv
<1> QED BY <1>3, <1>4, <1>5, <1>6 DEF HandshakeInv

-----------------------------------------------------------------------------
LEMMA WriteOwnFrameInv ==
    ASSUME HandshakeInv, NEW e \in Ends, WriteOwnFrame(e) PROVE HandshakeInv'
<1> DEFINE o == OtherEnd(e)
           S == SettingsFrame(e)
<1>1. o \in Ends /\ o # e /\ OtherEnd(o) = e /\ \A x \in Ends : x = e \/ x = o
  BY OtherEndFact
<1>2. HsTypeOK /\ SentInv(e) /\ HeardInv(e) /\ SentInv(o) /\ HeardInv(o)
  BY <1>1 DEF HandshakeInv
<1>3. UNCHANGED <<config, stage, heard, quality>> /\ IsMuxer(e) /\ ~wrote[e]
      /\ stage[e] \in {"settings", "ack"}
  BY DEF WriteOwnFrame
<1>4. OwnFrame(e) = IF stage[e] = "ack" THEN AckFrame ELSE S
  BY DEF OwnFrame, AckFrame, SettingsFrame, SettingOf
<1>5. /\ wrote' \in [Ends -> BOOLEAN] /\ wrote'[e] /\ wrote'[o] = wrote[o]
  BY <1>1, <1>2 DEF WriteOwnFrame, HsTypeOK
<1>6. /\ DOMAIN sent' = Ends /\ sent'[e] = Append(sent[e], OwnFrame(e)) /\ sent'[o] = sent[o]
  BY <1>1 DEF WriteOwnFrame, HandshakeInv
<1>7. /\ HeardSettings(e)' <=> HeardSettings(e)
      /\ HeardSettings(o)' <=> HeardSettings(o)
      /\ HeardAck(e)' <=> HeardAck(e)
      /\ HeardAck(o)' <=> HeardAck(o)
      /\ Agreed(e)' <=> Agreed(e)
      /\ Agreed(o)' <=> Agreed(o)
      /\ SettingsFrame(e)' = SettingsFrame(e) /\ SettingsFrame(o)' = SettingsFrame(o)
      /\ IsMuxer(e)' /\ (IsMuxer(o)' <=> IsMuxer(o))
      /\ Capability(e)' = Capability(e) /\ Capability(o)' = Capability(o)
  BY <1>3, StaticFact DEF HeardSettings, HeardAck
<1>8. HsTypeOK' BY <1>2, <1>3, <1>5 DEF HsTypeOK
<1>9. SentInv(o)' /\ HeardInv(o)' /\ HeardInv(e)'
  BY <1>1, <1>2, <1>3, <1>5, <1>6, <1>7 DEF SentInv, HeardInv, Unwritten
<1>10. SentInv(e)'
  <2>1. CASE stage[e] = "settings"
    <3>1. Unwritten(e) BY <1>3, <2>1 DEF Unwritten
    <3>2. sent'[e] = <<S>> BY <1>2, <1>3, <1>4, <1>6, <2>1, <3>1, TupleFacts DEF SentInv
    <3>3. ~HeardSettings(o) BY <1>2, <1>3, <3>1 DEF SentInv
    <3>4. <<S>> # <<S, AckFrame>> /\ <<S>> # <<AckFrame>> BY TupleFacts, FrameFacts
    <3> QED BY <1>3, <1>5, <1>7, <2>1, <3>2, <3>3, <3>4 DEF SentInv, Unwritten
  <2>2. CASE stage[e] = "ack"
    <3>1. sent[e] \in {<<>>, <<S>>} BY <1>2, <1>3, <2>2 DEF SentInv
    <3>2. \/ sent[e] = <<>> /\ sent'[e] = <<AckFrame>>
          \/ sent[e] = <<S>> /\ sent'[e] = <<S, AckFrame>>
      <4>1. sent'[e] = Append(sent[e], AckFrame) BY <1>4, <1>6, <2>2
      <4>2. Append(<<S>>, AckFrame) = <<S, AckFrame>> /\ Append(<<>>, AckFrame) = <<AckFrame>>
        BY TupleFacts
      <4> HIDE DEF S
      <4> QED BY <4>1, <4>2, <3>1, Zenon
    <3>3. Agreed(e) BY <1>2, <2>2 DEF HeardInv, HeardSettings
    <3>4. sent[e] = <<S>> => ~HeardSettings(o) BY <1>2, <1>3 DEF SentInv
    <3>5. <<AckFrame>> # <<S, AckFrame>> /\ <<S>> # <<AckFrame>> BY TupleFacts, FrameFacts
    <3>6. stage'[e] = "ack" /\ wrote'[e] /\ ~Unwritten(e)'
      BY <1>3, <1>5, <2>2 DEF Unwritten
    <3>7. CASE sent'[e] = <<AckFrame>>
      <4>1. ~(sent'[e] \in {<<S>>, <<S, AckFrame>>}) BY <3>5, <3>7
      <4> QED BY <1>5, <1>7, <3>3, <3>6, <3>7, <4>1 DEF SentInv
    <3>8. CASE sent[e] = <<S>> /\ sent'[e] = <<S, AckFrame>>
      BY <1>5, <1>7, <3>3, <3>4, <3>6, <3>8 DEF SentInv
    <3> QED BY <3>2, <3>7, <3>8
  <2> QED BY <1>3, <2>1, <2>2
<1> QED BY <1>1, <1>3, <1>6, <1>8, <1>9, <1>10 DEF HandshakeInv

(* What is left of the frames of a muxer once the first has been read.     *)
LEMMA ReadFact ==
    ASSUME HandshakeInv, NEW o \in Ends, IsMuxer(o), sent[o] # <<>>
    PROVE  /\ \/ sent[o] = <<SettingsFrame(o)>> /\ Tail(sent[o]) = <<>>
                 /\ Head(sent[o]) = SettingsFrame(o)
              \/ sent[o] = <<SettingsFrame(o), AckFrame>> /\ Tail(sent[o]) = <<AckFrame>>
                 /\ Head(sent[o]) = SettingsFrame(o)
              \/ sent[o] = <<AckFrame>> /\ Tail(sent[o]) = <<>> /\ Head(sent[o]) = AckFrame
           /\ Tail(sent[o]) \in {<<>>, <<AckFrame>>}
           /\ stage[o] = "settings" \/ (stage[o] = "ack" /\ ~wrote[o]) => Tail(sent[o]) = <<>>
           /\ Tail(sent[o]) = <<AckFrame>> => Agreed(o)
           /\ ~Unwritten(o)
<1> DEFINE S == SettingsFrame(o)
<1>1. SentInv(o) BY DEF HandshakeInv
<1>2. sent[o] \in {<<S>>, <<S, AckFrame>>, <<AckFrame>>} BY <1>1 DEF SentInv
<1>3. /\ Head(<<S>>) = S /\ Tail(<<S>>) = <<>>
      /\ Head(<<S, AckFrame>>) = S /\ Tail(<<S, AckFrame>>) = <<AckFrame>>
      /\ Head(<<AckFrame>>) = AckFrame /\ Tail(<<AckFrame>>) = <<>>
      /\ <<S>> # <<>> /\ <<AckFrame>> # <<>> /\ <<S>> # <<S, AckFrame>> /\ <<AckFrame>> # <<S, AckFrame>>
  BY TupleFacts
<1>4. /\ stage[o] = "settings" \/ (stage[o] = "ack" /\ ~wrote[o]) => sent[o] \in {<<>>, <<S>>}
      /\ sent[o] \in {<<S, AckFrame>>, <<AckFrame>>} => Agreed(o)
      /\ ~Unwritten(o)
  BY <1>1 DEF SentInv
<1> HIDE DEF S
<1>5. \/ sent[o] = <<S>> /\ Tail(sent[o]) = <<>> /\ Head(sent[o]) = S
      \/ sent[o] = <<S, AckFrame>> /\ Tail(sent[o]) = <<AckFrame>> /\ Head(sent[o]) = S
      \/ sent[o] = <<AckFrame>> /\ Tail(sent[o]) = <<>> /\ Head(sent[o]) = AckFrame
  BY <1>2, <1>3, Zenon
<1>6. Tail(sent[o]) \in {<<>>, <<AckFrame>>} BY <1>5, Zenon
<1>7. Tail(sent[o]) = <<AckFrame>> => Agreed(o) BY <1>3, <1>4, <1>5, Zenon
<1>8. stage[o] = "settings" \/ (stage[o] = "ack" /\ ~wrote[o]) => Tail(sent[o]) = <<>>
  BY <1>3, <1>4, <1>5, Zenon
<1> QED BY <1>4, <1>5, <1>6, <1>7, <1>8, Zenon DEF S

(* The reader takes the frame: what the sender's side keeps of its part of *)
(* the invariant, whatever the reader makes of the frame.                  *)
LEMMA ReadKeepsSender ==
    ASSUME HandshakeInv, NEW e \in Ends, ReadPeerFrame(e),
           HeardSettings(e)' => IsMuxer(OtherEnd(e)), Agreed(OtherEnd(e))' <=> Agreed(OtherEnd(e))
    PROVE  SentInv(OtherEnd(e))'
<1> DEFINE o == OtherEnd(e)
<1>1. o \in Ends /\ o # e /\ OtherEnd(o) = e BY OtherEndFact
<1>2. /\ UNCHANGED <<config, wrote>> /\ sent[o] # <<>>
      /\ sent'[o] = Tail(sent[o]) /\ stage'[o] = stage[o] /\ heard'[o] = heard[o]
  BY <1>1 DEF ReadPeerFrame, HandshakeInv, HsTypeOK
<1>3. /\ IsMuxer(o)' <=> IsMuxer(o)
      /\ SettingsFrame(o)' = SettingsFrame(o) /\ AckFrame' = AckFrame
      /\ Unwritten(o)' <=> Unwritten(o)
      /\ Agreed(o)' <=> Agreed(o)
  BY <1>1, <1>2, StaticFact DEF Unwritten, AckFrame
<1>4. SentInv(o) BY <1>1 DEF HandshakeInv
<1> SUFFICES SentInv(o)' OBVIOUS
<1>5. CASE IsMuxer(o)
  <2>1. /\ sent'[o] \in {<<>>, <<AckFrame>>}
        /\ stage'[o] = "settings" \/ (stage'[o] = "ack" /\ ~wrote'[o]) => sent'[o] = <<>>
        /\ sent'[o] = <<AckFrame>> => Agreed(o)'
        /\ ~Unwritten(o)'
    BY <1>1, <1>2, <1>3, <1>5, ReadFact
  <2>2. /\ <<SettingsFrame(o)>> # <<>> /\ <<SettingsFrame(o), AckFrame>> # <<>>
        /\ <<SettingsFrame(o)>> # <<AckFrame>> /\ <<AckFrame>> # <<SettingsFrame(o), AckFrame>>
        /\ <<AckFrame>> # <<>>
    BY TupleFacts, FrameFacts
  <2>3. ~(sent'[o] \in {<<SettingsFrame(o)>>, <<SettingsFrame(o), AckFrame>>})
    BY <2>1, <2>2, Zenon
  <2>4. sent'[o] \in {<<SettingsFrame(o), AckFrame>>, <<AckFrame>>} => Agreed(o)'
    BY <2>1, <2>2, <2>3, Zenon
  <2>5. sent'[o] \in {<<>>, <<SettingsFrame(o)>>, <<SettingsFrame(o), AckFrame>>, <<AckFrame>>}
    BY <2>1, Zenon
  <2>6. stage'[o] = "settings" \/ (stage'[o] = "ack" /\ ~wrote'[o]) =>
          sent'[o] \in {<<>>, <<SettingsFrame(o)>>}
    BY <2>1, Zenon
  <2> HIDE DEF o
  <2> QED BY <1>3, <1>5, <2>1, <2>3, <2>4, <2>5, <2>6 DEF SentInv
<1>6. CASE ~IsMuxer(o)
  <2>1. PICK f \in AlienFrames : sent[o] = <<f>> BY <1>2, <1>4, <1>6 DEF SentInv
  <2>2. sent'[o] = <<>> BY <1>2, <2>1, TupleFacts
  <2>3. stage'[o] = "settings" /\ ~heard'[o] BY <1>2, <1>4, <1>6 DEF SentInv
  <2> HIDE DEF o
  <2> QED BY <1>3, <1>6, <2>2, <2>3 DEF SentInv
<1> QED BY <1>5, <1>6

LEMMA ReadPeerFrameInv ==
    ASSUME HandshakeInv, NEW e \in Ends, ReadPeerFrame(e) PROVE HandshakeInv'
<1> DEFINE o == OtherEnd(e)
           f == Head(sent[o])
<1>1. o \in Ends /\ o # e /\ OtherEnd(o) = e /\ \A x \in Ends : x = e \/ x = o
  BY OtherEndFact
<1>2. HsTypeOK /\ SentInv(e) /\ HeardInv(e) /\ SentInv(o) /\ HeardInv(o)
  BY <1>1 DEF HandshakeInv
<1>3. /\ UNCHANGED <<config, wrote>> /\ IsMuxer(e) /\ ~heard[e] /\ sent[o] # <<>>
      /\ stage[e] \in {"settings", "ack"}
  BY DEF ReadPeerFrame
<1>4. /\ DOMAIN sent' = Ends /\ sent'[e] = sent[e] /\ DOMAIN quality' = Ends
      /\ stage'[o] = stage[o] /\ heard'[o] = heard[o] /\ quality'[o] = quality[o]
  BY <1>1 DEF ReadPeerFrame, HandshakeInv, HsTypeOK
<1>5. HsTypeOK' BY <1>2, <1>3 DEF ReadPeerFrame, HsTypeOK
<1>6. /\ HeardSettings(o)' <=> HeardSettings(o)
      /\ HeardAck(o)' <=> HeardAck(o)
      /\ SettingsFrame(e)' = SettingsFrame(e)
      /\ IsMuxer(e)' /\ (IsMuxer(o)' <=> IsMuxer(o))
      /\ Capability(e)' = Capability(e) /\ Capability(o)' = Capability(o)
      /\ AckFrame' = AckFrame
  BY <1>3, <1>4, StaticFact DEF HeardSettings, HeardAck, AckFrame
<1>7. Agreed(o)' <=> Agreed(o)
  BY <1>1, <1>3, <1>4, <1>6 DEF Agreed, IsMuxer
<1>8. CASE ~AcceptsFrame(e, f)
  <2>1. stage'[e] = "failed" /\ UNCHANGED <<heard, quality>>
    BY <1>2, <1>8 DEF ReadPeerFrame, HsTypeOK
  <2>2. ~HeardSettings(e)' /\ ~HeardAck(e)' /\ ~Unwritten(e)'
    BY <2>1 DEF HeardSettings, HeardAck, Unwritten
  <2>3. Agreed(e)' <=> Agreed(e) BY <1>3, <2>1, StaticFact
  <2>4. SentInv(o)' BY <1>7, <2>2, ReadKeepsSender
  <2>5. SentInv(e)'
    BY <1>2, <1>3, <1>4, <1>6, <2>1, <2>2, <2>3 DEF SentInv
  <2>6. HeardInv(e)' /\ HeardInv(o)'
    BY <1>1, <1>2, <1>4, <1>6, <1>7, <2>1, <2>2, <2>3 DEF HeardInv
  <2> QED BY <1>1, <1>4, <1>5, <2>4, <2>5, <2>6 DEF HandshakeInv
<1>9. CASE AcceptsFrame(e, f) /\ stage[e] = "settings"
  <2>1. f.type = "SETTINGS" /\ f.magic \in Roles \ {config[e].role}
    BY <1>9 DEF AcceptsFrame
  <2>2. IsMuxer(o)
    <3> SUFFICES ASSUME ~IsMuxer(o) PROVE FALSE OBVIOUS
    <3>1. PICK g \in AlienFrames : sent[o] = <<g>> BY <1>2, <1>3 DEF SentInv
    <3>2. f = g BY <3>1, TupleFacts
    <3>3. f.type # "SETTINGS" \/ f.magic = "none" BY <3>2 DEF AlienFrames
    <3> QED BY <2>1, <3>3 DEF Roles
  <2>3. f = SettingsFrame(o) BY <1>1, <1>3, <2>1, <2>2, ReadFact, FrameFacts
  <2>4. ~Unwritten(o)' 
    BY <1>1, <1>3, <1>4, <2>2, ReadFact DEF Unwritten
  <2>5. quality'[e] = Negotiated(quality[e], f.compression) /\ UNCHANGED stage /\ heard'[e]
    BY <1>2, <1>9, <2>1 DEF ReadPeerFrame, HandshakeInv, HsTypeOK
  <2>6. quality[e] = Capability(e) BY <1>2, <1>3, <1>9 DEF HeardInv
  <2>7. quality'[e] = Common(Capability(e), Capability(o))
    BY <1>2, <1>3, <2>2, <2>3, <2>5, <2>6, NegotiatesCommon, FrameFacts
  <2>8. config[o].role # config[e].role BY <2>1, <2>3, FrameFacts
  <2>9. Agreed(e)' BY <1>3, <1>6, <2>2, <2>7, <2>8 DEF Agreed
  <2>10. SentInv(o)' BY <1>7, <2>2, ReadKeepsSender
  <2>11. ~HeardAck(e)' BY <1>9, <2>5 DEF HeardAck
  <2>12. Unwritten(e)' <=> Unwritten(e) BY <1>3, <2>5 DEF Unwritten
  <2>13. SentInv(e)'
    BY <1>2, <1>3, <1>4, <1>6, <1>9, <2>5, <2>9, <2>12 DEF SentInv
  <2>14. HeardInv(e)' BY <1>6, <2>5, <2>9, <2>11 DEF HeardInv
  <2>15. HeardInv(o)'
    BY <1>1, <1>2, <1>4, <1>6, <1>7, <2>9 DEF HeardInv
  <2> QED BY <1>1, <1>4, <1>5, <2>10, <2>13, <2>14, <2>15 DEF HandshakeInv
<1>10. CASE AcceptsFrame(e, f) /\ stage[e] = "ack"
  <2>1. f.type = "ACK" BY <1>10 DEF AcceptsFrame
  <2>2. HeardSettings(e) BY <1>10 DEF HeardSettings
  <2>3. Agreed(e) /\ IsMuxer(o) BY <1>2, <2>2 DEF HeardInv, Agreed
  <2>4. ~(sent[o] \in {<<SettingsFrame(o)>>, <<SettingsFrame(o), AckFrame>>})
    BY <1>1, <1>2, <2>2, <2>3 DEF SentInv
  <2>5. sent[o] = <<AckFrame>> BY <1>2, <1>3, <2>3, <2>4 DEF SentInv
  <2>6. Agreed(o) BY <1>2, <2>3, <2>5 DEF SentInv
  <2>7. quality'[e] = quality[e] /\ UNCHANGED stage /\ heard'[e]
    <3>1. quality' = [quality EXCEPT ![e] = quality[e]] /\ UNCHANGED stage /\ heard'[e]
      BY <1>2, <1>10, <2>1 DEF ReadPeerFrame, HsTypeOK
    <3> QED BY <3>1 DEF HandshakeInv
  <2>8. Agreed(e)' <=> Agreed(e) BY <1>3, <1>4, <2>7, StaticFact
  <2>9. SentInv(o)' BY <1>7, <2>3, ReadKeepsSender
  <2>10. Unwritten(e)' <=> Unwritten(e) BY <1>3, <2>7 DEF Unwritten
  <2>11. SentInv(e)'
    BY <1>2, <1>3, <1>4, <1>6, <2>7, <2>8, <2>10 DEF SentInv
  <2>12. HeardInv(e)' BY <1>7, <1>10, <2>3, <2>6, <2>7, <2>8 DEF HeardInv
  <2>13. HeardInv(o)' BY <1>1, <1>2, <1>4, <1>6, <1>7, <2>8 DEF HeardInv
  <2> QED BY <1>1, <1>4, <1>5, <2>9, <2>11, <2>12, <2>13 DEF HandshakeInv
<1> QED BY <1>3, <1>8, <1>9, <1>10

LEMMA StageDoneInv ==
    ASSUME HandshakeInv, NEW e \in Ends, StageDone(e) PROVE HandshakeInv'
<1> DEFINE o == OtherEnd(e)
<1>1. o \in Ends /\ o # e /\ OtherEnd(o) = e /\ \A x \in Ends : x = e \/ x = o
  BY OtherEndFact
<1>2. HsTypeOK /\ SentInv(e) /\ HeardInv(e) /\ SentInv(o) /\ HeardInv(o)
  BY <1>1 DEF HandshakeInv
<1>3. UNCHANGED <<config, quality, sent>> /\ wrote[e] /\ heard[e] BY DEF StageDone
<1>4. /\ stage'[o] = stage[o] /\ heard'[o] = heard[o] /\ wrote'[o] = wrote[o]
      /\ ~heard'[e] /\ ~wrote'[e]
      /\ \/ stage[e] = "settings" /\ stage'[e] = "ack"
         \/ stage[e] = "ack" /\ stage'[e] = "ok"
  BY <1>1, <1>2 DEF StageDone, HsTypeOK
<1>5. HsTypeOK' BY <1>2, <1>3 DEF StageDone, HsTypeOK
<1>6. IsMuxer(e) BY <1>2, <1>3 DEF SentInv
<1>7. /\ HeardSettings(e)' <=> HeardSettings(e)
      /\ HeardSettings(o)' <=> HeardSettings(o)
      /\ HeardAck(e)' <=> HeardAck(e)
      /\ HeardAck(o)' <=> HeardAck(o)
  BY <1>3, <1>4 DEF HeardSettings, HeardAck
<1>8. /\ Agreed(e)' <=> Agreed(e)
      /\ Agreed(o)' <=> Agreed(o)
      /\ SettingsFrame(e)' = SettingsFrame(e) /\ SettingsFrame(o)' = SettingsFrame(o)
      /\ IsMuxer(e)' /\ (IsMuxer(o)' <=> IsMuxer(o))
      /\ Capability(e)' = Capability(e) /\ Capability(o)' = Capability(o)
  BY <1>3, <1>6, StaticFact
<1>9. ~Unwritten(e)' /\ ~Unwritten(e) /\ (Unwritten(o)' <=> Unwritten(o))
  BY <1>3, <1>4 DEF Unwritten
<1>10. SentInv(o)' BY <1>1, <1>2, <1>3, <1>4, <1>7, <1>8, <1>9 DEF SentInv
<1>11. HeardInv(o)' BY <1>1, <1>2, <1>3, <1>4, <1>7, <1>8 DEF HeardInv
<1>12. HeardInv(e)' BY <1>2, <1>4, <1>7, <1>8 DEF HeardInv
<1>13. SentInv(e)' BY <1>2, <1>3, <1>4, <1>6, <1>7, <1>8, <1>9 DEF SentInv
<1> QED BY <1>1, <1>3, <1>5, <1>10, <1>11, <1>12, <1>13 DEF HandshakeInv

LEMMA StageTimesOutInv ==
    ASSUME HandshakeInv, NEW e \in Ends, StageTimesOut(e) PROVE HandshakeInv'
<1> DEFINE o == OtherEnd(e)
<1>1. o \in Ends /\ o # e /\ OtherEnd(o) = e /\ \A x \in Ends : x = e \/ x = o
  BY OtherEndFact
<1>2. HsTypeOK /\ SentInv(e) /\ HeardInv(e) /\ SentInv(o) /\ HeardInv(o)
  BY <1>1 DEF HandshakeInv
<1>3. UNCHANGED <<config, wrote, heard, quality, sent>> /\ IsMuxer(e) BY DEF StageTimesOut
<1>4. stage'[o] = stage[o] /\ stage'[e] = "failed"
  BY <1>1, <1>2 DEF StageTimesOut, HsTypeOK
<1>5. HsTypeOK' BY <1>2, <1>3 DEF StageTimesOut, HsTypeOK
<1>6. /\ ~HeardSettings(e)' /\ ~HeardAck(e)' /\ ~Unwritten(e)'
      /\ HeardSettings(o)' <=> HeardSettings(o)
      /\ HeardAck(o)' <=> HeardAck(o)
      /\ Unwritten(o)' <=> Unwritten(o)
  BY <1>3, <1>4 DEF HeardSettings, HeardAck, Unwritten
<1>7. /\ Agreed(e)' <=> Agreed(e)
      /\ Agreed(o)' <=> Agreed(o)
      /\ SettingsFrame(e)' = SettingsFrame(e) /\ SettingsFrame(o)' = SettingsFrame(o)
      /\ IsMuxer(e)' /\ (IsMuxer(o)' <=> IsMuxer(o))
      /\ Capability(e)' = Capability(e) /\ Capability(o)' = Capability(o)
  BY <1>3, StaticFact
<1>8. SentInv(o)' BY <1>1, <1>2, <1>3, <1>4, <1>6, <1>7 DEF SentInv
<1>9. HeardInv(o)' BY <1>1, <1>2, <1>3, <1>4, <1>6, <1>7 DEF HeardInv
<1>10. HeardInv(e)' BY <1>4, <1>6 DEF HeardInv
<1>11. SentInv(e)' BY <1>2, <1>3, <1>4, <1>6, <1>7 DEF SentInv
<1> QED BY <1>1, <1>3, <1>5, <1>8, <1>9, <1>10, <1>11 DEF HandshakeInv

LEMMA AlienSendsInv ==
    ASSUME HandshakeInv, NEW e \in Ends, AlienSends(e) PROVE HandshakeInv'
<1> DEFINE o == OtherEnd(e)
<1>1. o \in Ends /\ o # e /\ OtherEnd(o) = e /\ \A x \in Ends : x = e \/ x = o
  BY OtherEndFact
<1>2. HsTypeOK /\ SentInv(e) /\ HeardInv(e) /\ SentInv(o) /\ HeardInv(o)
  BY <1>1 DEF HandshakeInv
<1>3. UNCHANGED <<config, stage, heard, quality>> /\ ~IsMuxer(e) BY DEF AlienSends
<1>4. PICK f \in AlienFrames : sent' = [sent EXCEPT ![e] = <<f>>]
  BY DEF AlienSends, AlienFrames
<1>5. DOMAIN sent' = Ends /\ sent'[e] = <<f>> /\ sent'[o] = sent[o] /\ wrote'[o] = wrote[o]
  BY <1>1, <1>2, <1>4 DEF AlienSends, HandshakeInv, HsTypeOK
<1>6. HsTypeOK' BY <1>2, <1>3 DEF AlienSends, HsTypeOK
<1>7. /\ HeardSettings(e)' <=> HeardSettings(e)
      /\ HeardSettings(o)' <=> HeardSettings(o)
      /\ HeardAck(e)' <=> HeardAck(e)
      /\ HeardAck(o)' <=> HeardAck(o)
      /\ Unwritten(o)' <=> Unwritten(o)
  BY <1>3, <1>5 DEF HeardSettings, HeardAck, Unwritten
<1>8. /\ Agreed(e)' <=> Agreed(e)
      /\ Agreed(o)' <=> Agreed(o)
      /\ SettingsFrame(o)' = SettingsFrame(o)
      /\ ~IsMuxer(e)' /\ (IsMuxer(o)' <=> IsMuxer(o))
      /\ Capability(o)' = Capability(o)
  BY <1>3, StaticFact
<1>9. SentInv(o)' BY <1>1, <1>2, <1>3, <1>5, <1>7, <1>8 DEF SentInv
<1>10. HeardInv(o)' BY <1>1, <1>2, <1>3, <1>7, <1>8 DEF HeardInv
<1>11. HeardInv(e)' BY <1>2, <1>3, <1>7, <1>8 DEF HeardInv
<1>12. SentInv(e)'
  <2>1. stage'[e] = "settings" /\ ~heard'[e] BY <1>2, <1>3 DEF SentInv
  <2> QED BY <1>4, <1>5, <1>8, <2>1 DEF SentInv, AlienFrames
<1> QED BY <1>1, <1>3, <1>5, <1>6, <1>9, <1>10, <1>11, <1>12 DEF HandshakeInv

LEMMA HandshakeStutters ==
    ASSUME HandshakeInv, UNCHANGED hsVars PROVE HandshakeInv'
<1>1. UNCHANGED <<config, stage, wrote, heard, quality, sent>> BY DEF hsVars
<1>2. HsTypeOK' /\ DOMAIN sent' = Ends /\ DOMAIN quality' = Ends
  BY <1>1 DEF HandshakeInv, HsTypeOK
<1>3. ASSUME NEW e \in Ends PROVE SentInv(e)' /\ HeardInv(e)'
  <2>1. \A x : /\ HeardSettings(x)' <=> HeardSettings(x)
               /\ HeardAck(x)' <=> HeardAck(x)
               /\ Unwritten(x)' <=> Unwritten(x)
               /\ Agreed(x)' <=> Agreed(x)
               /\ SettingsFrame(x)' = SettingsFrame(x)
               /\ IsMuxer(x)' <=> IsMuxer(x)
               /\ Capability(x)' = Capability(x)
    BY <1>1, StaticFact DEF HeardSettings, HeardAck, Unwritten
  <2>2. SentInv(e) /\ HeardInv(e) BY DEF HandshakeInv
  <2>3. SentInv(e)' BY <1>1, <2>1, <2>2 DEF SentInv
  <2>4. HeardInv(e)' BY <1>1, <2>1, <2>2 DEF HeardInv
  <2> QED BY <2>3, <2>4
<1> QED BY <1>2, <1>3 DEF HandshakeInv

(***************************************************************************)
(* Handshake of h2mux: whichever frame is late, early, missing or foreign, *)
(* an end that has passed the first stage faces a muxer of the other role, *)
(* and two ends that have passed it, or one that has finished and its      *)
(* peer, compress with the same dictionaries (h2mux/handshake.go).         *)
(***************************************************************************)
THEOREM HandshakeIsSound == HandshakeSpec => []HandshakeSound
<1>1. ASSUME HandshakeInv, [HandshakeNext]_hsVars PROVE HandshakeInv'
  <2>1. ASSUME NEW e \in Ends,
               \/ WriteOwnFrame(e) \/ ReadPeerFrame(e) \/ StageDone(e)
               \/ StageTimesOut(e) \/ AlienSends(e)
        PROVE  HandshakeInv'
    BY <1>1, <2>1, WriteOwnFrameInv, ReadPeerFrameInv, StageDoneInv, StageTimesOutInv, AlienSendsInv
  <2> QED BY <1>1, <2>1, HandshakeStutters DEF HandshakeNext
<1>2. ASSUME HandshakeInv PROVE HandshakeSound
  <2> SUFFICES ASSUME NEW e \in Ends
               PROVE  /\ Passed(e) /\ IsMuxer(e) => IsMuxer(OtherEnd(e)) /\ config[OtherEnd(e)].role # config[e].role
                      /\ Passed(e) /\ Passed(OtherEnd(e)) => quality[e] = quality[OtherEnd(e)]
                      /\ stage[e] = "ok" => quality[e] = quality[OtherEnd(e)]
    BY DEF HandshakeSound
  <2> DEFINE o == OtherEnd(e)
  <2>1. o \in Ends /\ OtherEnd(o) = e BY OtherEndFact
  <2>2. HsTypeOK /\ HeardInv(e) /\ HeardInv(o) BY <1>2, <2>1 DEF HandshakeInv
  <2>3. /\ Passed(e) => Agreed(e)
        /\ Passed(o) => Agreed(o)
        /\ stage[e] = "ok" => Agreed(e) /\ Agreed(o)
    BY <2>1, <2>2 DEF Passed, HeardInv, HeardSettings, HeardAck
  <2>4. Agreed(e) /\ Agreed(o) => quality[e] = quality[o]
    <3> SUFFICES ASSUME Agreed(e), Agreed(o) PROVE quality[e] = quality[o] OBVIOUS
    <3>1. Capability(e) \in CompressionPresets /\ Capability(o) \in CompressionPresets
      BY <2>1, <2>2, ConfigFact DEF Agreed
    <3>2. /\ quality[e] = Common(Capability(e), Capability(o))
          /\ quality[o] = Common(Capability(o), Capability(e))
      BY <2>1 DEF Agreed
    <3> QED BY <3>1, <3>2, CommonSymmetric
  <2>5. Agreed(e) => IsMuxer(o) /\ config[o].role # config[e].role BY DEF Agreed
  <2> QED BY <2>3, <2>4, <2>5
<1> QED BY <1>1, <1>2, HandshakeInitInv, PTL DEF HandshakeSpec

(***************************************************************************)
(* Bytes in flight.  The sum over a sequence of frames is what any         *)
(* function that adds them up from the left says.                          *)
(***************************************************************************)
LEMMA SmallestExists ==
    ASSUME NEW T, T \subseteq Nat, T # {} PROVE \E x \in T : \A y \in T : x <= y
<1> DEFINE R == {ss \in Nat \X Nat : ss[1] < ss[2]}
<1>1. IsWellFoundedOn(R, Nat) BY NatLessThanWellFounded, Zenon DEF OpToRel
<1> HIDE DEF R
<1>2. PICK x \in T : \A y \in T : ~(<<y, x>> \in R) BY <1>1, WFMin
<1>3. ASSUME NEW y \in T PROVE x <= y
  <2>1. <<y, x>> \in Nat \X Nat OBVIOUS
  <2>2. ~(y < x) BY <1>2, <2>1 DEF R
  <2> QED BY <2>2
<1> QED BY <1>3

Frames ==
    [type : {"DATA"}, id : Ids, eof : BOOLEAN, n : Nat]
    \cup [type : {"WINDOW_UPDATE"}, id : Ids, n : Nat]
    \cup [type : {"HEADERS", "RST_STREAM"}, id : Ids]
    \cup [type : {"GOAWAY"}, id : Nat]

LEMMA BytesFact ==
    ASSUME NEW f \in Frames, NEW id, NEW type \in {"DATA", "WINDOW_UPDATE"}
    PROVE  BytesOf(f, id, type) \in Nat
BY DEF Frames, BytesOf

(* g is the sequence of the sums of the first 1, 2, ..., n frames, and     *)
(* Upto(g, i) the sum of the first i.                                      *)
Upto(g, i) == IF i = 0 THEN 0 ELSE g[i]

SumsUpTo(g, n, frames, id, type) ==
    /\ g \in [1 .. n -> Nat]
    /\ \A i \in 1 .. n : g[i] = Upto(g, i - 1) + BytesOf(frames[i], id, type)

LEMMA SumExists ==
    ASSUME NEW frames \in Seq(Frames), NEW id, NEW type \in {"DATA", "WINDOW_UPDATE"}
    PROVE  \E g : SumsUpTo(g, Len(frames), frames, id, type)
<1> DEFINE P(n) == \E g : SumsUpTo(g, n, frames, id, type)
           N == Len(frames)
           B(i) == BytesOf(frames[i], id, type)
           T == {n \in 0 .. N : ~P(n)}
<1>0. N \in Nat /\ \A i \in 1 .. N : B(i) \in Nat BY BytesFact
<1>1. P(0)
  <2>1. SumsUpTo([i \in 1 .. 0 |-> 0], 0, frames, id, type) BY DEF SumsUpTo
  <2> QED BY <2>1
<1>2. ASSUME NEW n \in 0 .. N - 1, P(n) PROVE P(n + 1)
  <2>1. PICK g : SumsUpTo(g, n, frames, id, type) BY <1>2
  <2> DEFINE z == Upto(g, n) + B(n + 1)
             h == [i \in 1 .. n + 1 |-> IF i = n + 1 THEN z ELSE g[i]]
  <2>2. g \in [1 .. n -> Nat] /\ n \in Nat /\ n + 1 \in 1 .. N BY <1>0, <2>1 DEF SumsUpTo
  <2>3. Upto(g, n) \in Nat /\ B(n + 1) \in Nat BY <1>0, <2>2 DEF Upto
  <2> HIDE DEF B
  <2>4. h \in [1 .. n + 1 -> Nat] BY <2>2, <2>3
  <2>5. \A i \in 1 .. n + 1 : h[i] = IF i = n + 1 THEN z ELSE g[i] OBVIOUS
  <2> HIDE DEF h, z
  <2>6. ASSUME NEW i \in 1 .. n + 1 PROVE h[i] = Upto(h, i - 1) + B(i)
    <3>1. Upto(h, i - 1) = Upto(g, i - 1) BY <2>2, <2>5 DEF Upto
    <3>2. CASE i = n + 1
      <4>1. h[i] = Upto(g, n) + B(n + 1) /\ i - 1 = n BY <2>2, <2>5, <3>2 DEF z
      <4> QED BY <3>1, <3>2, <4>1
    <3>3. CASE i # n + 1
      <4>1. i \in 1 .. n BY <2>2, <3>3
      <4>2. g[i] = Upto(g, i - 1) + B(i) BY <2>1, <4>1 DEF SumsUpTo, B
      <4>3. h[i] = g[i] BY <2>5, <3>3
      <4> QED BY <3>1, <4>2, <4>3
    <3> QED BY <3>2, <3>3
  <2>7. SumsUpTo(h, n + 1, frames, id, type) BY <2>4, <2>6 DEF SumsUpTo, B
  <2> QED BY <2>7
<1> HIDE DEF P
<1>3. T = {}
  <2> SUFFICES ASSUME T # {} PROVE FALSE OBVIOUS
  <2>1. T \subseteq Nat BY <1>0
  <2>2. PICK n \in T : \A y \in T : n <= y BY <2>1, SmallestExists
  <2>3. n \in 0 .. N /\ n # 0 /\ ~P(n) BY <1>1, <2>2
  <2>4. n - 1 \in 0 .. N /\ n - 1 \in 0 .. N - 1 /\ n - 1 \notin T BY <1>0, <2>2, <2>3
  <2>5. P(n - 1) BY <2>4
  <2>6. P((n - 1) + 1) BY <1>2, <2>4, <2>5
  <2>7. (n - 1) + 1 = n BY <1>0, <2>3
  <2> QED BY <2>3, <2>6, <2>7
<1>4. P(N) BY <1>0, <1>3
<1> QED BY <1>4 DEF P

LEMMA SumIsTotal ==
    ASSUME NEW frames \in Seq(Frames), NEW id, NEW type \in {"DATA", "WINDOW_UPDATE"},
           NEW g, SumsUpTo(g, Len(frames), frames, id, type)
    PROVE  Total(frames, id, type) = Upto(g, Len(frames))
<1> DEFINE N == Len(frames)
           B(i) == BytesOf(frames[i], id, type)
           Is(s) == s = [i \in 1 .. N |-> (IF i = 1 THEN 0 ELSE s[i - 1]) + B(i)]
           c == CHOOSE s : Is(s)
<1>0. N \in Nat /\ (frames = <<>> <=> N = 0) OBVIOUS
<1>1. Total(frames, id, type) = IF N = 0 THEN 0 ELSE c[N] BY <1>0 DEF Total
<1>2. g \in [1 .. N -> Nat] /\ \A i \in 1 .. N : g[i] = Upto(g, i - 1) + B(i)
  BY DEF SumsUpTo
<1> HIDE DEF B, N
<1>3. Is(g)
  <2>1. \A i \in 1 .. N : Upto(g, i - 1) = IF i = 1 THEN 0 ELSE g[i - 1]
    BY <1>0 DEF Upto
  <2>2. \A i \in 1 .. N : g[i] = (IF i = 1 THEN 0 ELSE g[i - 1]) + B(i) BY <1>2, <2>1
  <2> QED BY <1>2, <2>2
<1> HIDE DEF Is
<1>4. Is(c) BY <1>3
<1>5. c = [i \in 1 .. N |-> (IF i = 1 THEN 0 ELSE c[i - 1]) + B(i)] BY <1>4 DEF Is
<1> HIDE DEF c
<1>6. \A i \in 1 .. N : c[i] = (IF i = 1 THEN 0 ELSE c[i - 1]) + B(i) BY <1>5
<1> DEFINE T == {i \in 1 .. N : c[i] # g[i]}
<1>7. T = {}
  <2> SUFFICES ASSUME T # {} PROVE FALSE OBVIOUS
  <2>1. T \subseteq Nat BY <1>0
  <2>2. PICK n \in T : \A y \in T : n <= y BY <2>1, SmallestExists
  <2>3. n \in 1 .. N /\ c[n] # g[n] BY <2>2
  <2>4. (IF n = 1 THEN 0 ELSE c[n - 1]) = Upto(g, n - 1)
    <3>1. CASE n = 1 BY <3>1 DEF Upto
    <3>2. CASE n # 1
      <4>1. n - 1 \in 1 .. N /\ n - 1 \notin T /\ n - 1 # 0 BY <1>0, <2>2, <2>3, <3>2
      <4>2. c[n - 1] = g[n - 1] BY <4>1
      <4> QED BY <3>2, <4>1, <4>2 DEF Upto
    <3> QED BY <3>1, <3>2
  <2>5. g[n] = Upto(g, n - 1) + B(n) BY <1>2, <2>3
  <2>6. c[n] = (IF n = 1 THEN 0 ELSE c[n - 1]) + B(n) BY <1>6, <2>3
  <2> QED BY <2>3, <2>4, <2>5, <2>6
<1>8. N # 0 => c[N] = g[N] BY <1>0, <1>7
<1> QED BY <1>1, <1>8 DEF N, Upto

LEMMA TotalType ==
    ASSUME NEW frames \in Seq(Frames), NEW id, NEW type \in {"DATA", "WINDOW_UPDATE"}
    PROVE  Total(frames, id, type) \in Nat
<1>1. PICK g : SumsUpTo(g, Len(frames), frames, id, type) BY SumExists
<1>2. Total(frames, id, type) = Upto(g, Len(frames)) BY <1>1, SumIsTotal
<1> QED BY <1>1, <1>2 DEF SumsUpTo, Upto

LEMMA TotalConcat ==
    ASSUME NEW v \in Seq(Frames), NEW w \in Seq(Frames), NEW id,
           NEW type \in {"DATA", "WINDOW_UPDATE"}
    PROVE  Total(v \o w, id, type) = Total(v, id, type) + Total(w, id, type)
<1> DEFINE m == Len(v)
           n == Len(w)
           u == v \o w
<1>1. /\ m \in Nat /\ n \in Nat /\ u \in Seq(Frames) /\ Len(u) = m + n
      /\ \A i \in 1 .. m : u[i] = v[i]
      /\ \A i \in m + 1 .. m + n : u[i] = w[i - m]
  OBVIOUS
<1>2. PICK g : SumsUpTo(g, m, v, id, type) BY SumExists
<1>3. PICK h : SumsUpTo(h, n, w, id, type) BY SumExists
<1>4. /\ g \in [1 .. m -> Nat]
      /\ \A i \in 1 .. m : g[i] = Upto(g, i - 1) + BytesOf(v[i], id, type)
  BY <1>2 DEF SumsUpTo
<1>5. /\ h \in [1 .. n -> Nat]
      /\ \A i \in 1 .. n : h[i] = Upto(h, i - 1) + BytesOf(w[i], id, type)
  BY <1>3 DEF SumsUpTo
<1>6. Total(v, id, type) = Upto(g, m) /\ Total(w, id, type) = Upto(h, n)
  BY <1>2, <1>3, SumIsTotal
<1>a. \A i \in 1 .. n : BytesOf(w[i], id, type) \in Nat BY BytesFact
<1> HIDE DEF m, n, u
<1> DEFINE gm == Upto(g, m)
           k == [i \in 1 .. m + n |-> IF i <= m THEN g[i] ELSE gm + h[i - m]]
<1>7. gm \in Nat BY <1>1, <1>4 DEF Upto
<1> HIDE DEF gm
<1>8. k \in [1 .. m + n -> Nat]
  <2>1. ASSUME NEW i \in 1 .. m + n
        PROVE  (IF i <= m THEN g[i] ELSE gm + h[i - m]) \in Nat
    <3>1. CASE i <= m
      <4>1. i \in 1 .. m BY <1>1, <3>1
      <4> QED BY <1>4, <3>1, <4>1
    <3>2. CASE ~(i <= m)
      <4>1. i - m \in 1 .. n BY <1>1, <3>2
      <4> QED BY <1>5, <1>7, <3>2, <4>1
    <3> QED BY <3>1, <3>2
  <2> QED BY <2>1
<1>9. \A i \in 1 .. m + n : k[i] = IF i <= m THEN g[i] ELSE gm + h[i - m] OBVIOUS
<1> HIDE DEF k
<1>10. ASSUME NEW i \in 1 .. m + n PROVE k[i] = Upto(k, i - 1) + BytesOf(u[i], id, type)
  <2>1. CASE i <= m
    <3>1. i \in 1 .. m /\ u[i] = v[i] BY <1>1, <2>1
    <3>2. Upto(k, i - 1) = Upto(g, i - 1) BY <1>1, <1>9, <3>1 DEF Upto
    <3>3. k[i] = g[i] /\ g[i] = Upto(g, i - 1) + BytesOf(v[i], id, type)
      BY <1>4, <1>9, <2>1, <3>1
    <3> QED BY <3>1, <3>2, <3>3
  <2>2. CASE ~(i <= m)
    <3> DEFINE j == i - m
               b == BytesOf(w[j], id, type)
    <3>1. j \in 1 .. n /\ i \in m + 1 .. m + n BY <1>1, <2>2
    <3>2. u[i] = w[j] /\ b \in Nat BY <1>1, <1>a, <3>1
    <3>3. h[j] = Upto(h, j - 1) + b /\ k[i] = gm + h[j] BY <1>5, <1>9, <2>2, <3>1
    <3>4. Upto(h, j - 1) \in Nat BY <1>1, <1>5, <3>1 DEF Upto
    <3>5. Upto(k, i - 1) = gm + Upto(h, j - 1)
      <4>1. CASE j = 1
        <5>1. i - 1 = m /\ Upto(h, j - 1) = 0 BY <1>1, <4>1 DEF Upto
        <5>2. Upto(k, m) = gm
          <6>1. m = 0 \/ m \in 1 .. m + n BY <1>1
          <6>2. m <= m BY <1>1
          <6> QED BY <1>9, <6>1, <6>2 DEF Upto, gm
        <5> QED BY <1>7, <5>1, <5>2
      <4>2. CASE j # 1
        <5>1. /\ i - 1 \in 1 .. m + n /\ ~(i - 1 <= m) /\ i - 1 # 0
              /\ (i - 1) - m = j - 1 /\ j - 1 # 0
          BY <1>1, <2>2, <3>1, <4>2
        <5>2. k[i - 1] = gm + h[j - 1] BY <1>9, <5>1
        <5> HIDE DEF j
        <5> QED BY <5>1, <5>2 DEF Upto
      <4> QED BY <4>1, <4>2
    <3> HIDE DEF b, j
    <3>6. k[i] = Upto(k, i - 1) + b BY <1>7, <3>2, <3>3, <3>4, <3>5
    <3> QED BY <3>2, <3>6 DEF b
  <2> QED BY <1>1, <2>1, <2>2
<1>11. SumsUpTo(k, Len(u), u, id, type) BY <1>1, <1>8, <1>10 DEF SumsUpTo
<1>12. Total(u, id, type) = Upto(k, m + n) BY <1>1, <1>11, SumIsTotal
<1>13. Upto(k, m + n) = gm + Upto(h, n)
  <2>1. CASE n = 0
    <3>1. Upto(h, n) = 0 /\ m + n = m /\ m <= m BY <1>1, <2>1 DEF Upto
    <3>2. m = 0 \/ m \in 1 .. m + n BY <1>1
    <3>3. Upto(k, m) = gm BY <1>9, <3>1, <3>2 DEF Upto, gm
    <3> QED BY <1>7, <3>1, <3>3
  <2>2. CASE n # 0
    <3>1. ~(m + n <= m) /\ m + n \in 1 .. m + n /\ (m + n) - m = n /\ m + n # 0
      BY <1>1, <2>2
    <3>2. k[m + n] = gm + h[n] BY <1>9, <3>1
    <3> QED BY <2>2, <3>1, <3>2 DEF Upto
  <2> QED BY <2>1, <2>2
<1> QED BY <1>6, <1>12, <1>13 DEF u, gm

(* No frame of the type for the stream, or no bytes in any.                *)
LEMMA TotalZero ==
    ASSUME NEW w \in Seq(Frames), NEW id, NEW type \in {"DATA", "WINDOW_UPDATE"},
           \A i \in 1 .. Len(w) : BytesOf(w[i], id, type) = 0
    PROVE  Total(w, id, type) = 0
<1> DEFINE N == Len(w)
           g == [i \in 1 .. N |-> 0]
<1>0. N \in Nat OBVIOUS
<1>1. \A i \in 0 .. N : Upto(g, i) = 0 BY <1>0 DEF Upto
<1>2. \A i \in 1 .. N : g[i] = Upto(g, i - 1) + BytesOf(w[i], id, type) BY <1>0, <1>1
<1>3. SumsUpTo(g, N, w, id, type) BY <1>2 DEF SumsUpTo
<1>4. Total(w, id, type) = Upto(g, N) BY <1>3, SumIsTotal
<1> QED BY <1>0, <1>1, <1>4

LEMMA TotalOne ==
    ASSUME NEW f \in Frames, NEW id, NEW type \in {"DATA", "WINDOW_UPDATE"}
    PROVE  Total(<<f>>, id, type) = BytesOf(f, id, type)
<1> DEFINE b == BytesOf(f, id, type)
           g == [i \in 1 .. 1 |-> b]
           w == <<f>>
<1>1. w \in Seq(Frames) /\ Len(w) = 1 /\ w[1] = f OBVIOUS
<1>2. b \in Nat BY BytesFact
<1> HIDE DEF b, w
<1>3. g \in [1 .. 1 -> Nat] /\ g[1] = b BY <1>2
<1> HIDE DEF g
<1>4. \A i \in 1 .. 1 : g[i] = Upto(g, i - 1) + BytesOf(w[i], id, type)
  BY <1>1, <1>2, <1>3 DEF b, Upto
<1>5. SumsUpTo(g, Len(w), w, id, type) BY <1>1, <1>3, <1>4 DEF SumsUpTo
<1>6. Total(w, id, type) = Upto(g, 1) BY <1>1, <1>5, SumIsTotal
<1> QED BY <1>3, <1>6 DEF b, w, Upto

LEMMA TotalTail ==
    ASSUME NEW w \in Seq(Frames), w # <<>>, NEW id, NEW type \in {"DATA", "WINDOW_UPDATE"}
    PROVE  Total(w, id, type) = BytesOf(Head(w), id, type) + Total(Tail(w), id, type)
<1>1. w = <<Head(w)>> \o Tail(w) /\ Head(w) \in Frames /\ Tail(w) \in Seq(Frames)
  OBVIOUS
<1>2. <<Head(w)>> \in Seq(Frames) BY <1>1
<1>3. Total(<<Head(w)>> \o Tail(w), id, type) =
      Total(<<Head(w)>>, id, type) + Total(Tail(w), id, type)
  BY <1>1, <1>2, TotalConcat
<1> QED BY <1>1, <1>3, TotalOne

-----------------------------------------------------------------------------
(***************************************************************************)
(* The invariant of the streams.                                           *)
(***************************************************************************)
ErrorCodes == {"STREAM_CLOSED", "INTERNAL"}
Users == {"idle", "requesting", "refused", "awaiting", "open", "failed", "serving",
          "closing", "done"}

MuxTypeOK ==
    /\ stream \in [Sides -> [Ids -> Streams]]
    /\ active \in [Sides -> SUBSET Ids]
    /\ nextID \in [Sides -> Nat] /\ maxPeer \in [Sides -> Nat]
    /\ nextID["origin"] % 2 = 1 /\ nextID["edge"] % 2 = 0
    /\ ready \in [Sides -> Seq(Ids)]
    /\ errors \in [Sides -> SUBSET [id : Ids, code : ErrorCodes]]
    /\ writing \in [Sides -> Nat] /\ writer \in [Sides -> {"loop", "eof", "ended"}]
    /\ \A s \in Sides : writer[s] = "eof" => writing[s] \in Ids
    /\ wire \in [Sides -> Seq(Frames)]
    /\ user \in [Sides -> [Ids -> Users]]
    /\ blocked \in [Sides -> [Ids -> BOOLEAN]]
    /\ aborted \in [Sides -> BOOLEAN]

(* What s may send, has in flight or has been granted fits the window of   *)
(* its peer; a stream that s has forgotten sends no more.                  *)
Room(s, id) ==
    Total(wire[s], id, "DATA")
    + (IF id \in active[s]
       THEN stream[s][id].sendWindow + Total(wire[Peer(s)], id, "WINDOW_UPDATE") ELSE 0)
    <= stream[Peer(s)][id].receiveWindow

(* What has been read and not been given back makes up the maximum, until  *)
(* the last frame, which skips the window.                                 *)
BufferOK(st) ==
    /\ st.read <= st.currentMax /\ st.currentMax <= MaxWindow
    /\ IF st.receivedEOF THEN st.closed
       ELSE st.read + st.receiveWindow + st.windowUpdate = st.currentMax

(* A receive window that has not been used.                                *)
Unused(st) == /\ st.receiveWindow = DefaultWindow /\ st.currentMax = DefaultWindow
              /\ st.windowUpdate = 0 /\ st.read = 0

(* A stream that s has not opened yet: nothing of it is on the wire.       *)
Future(s, id) == ~IsPeerStreamID(s, id) /\ id >= nextID[s]

FutureInv(s, id) ==
    Future(s, id) =>
        /\ id \notin active[s] /\ id > maxPeer[Peer(s)]
        /\ ~blocked[s][id] /\ user[s][id] \in {"idle", "requesting", "failed"}
        /\ user[s][id] = "requesting" => stream[s][id] = NewStream(TRUE)
        /\ \A f \in Range(wire[s]) : f.type = "HEADERS" => f.id # id
        /\ Total(wire[s], id, "DATA") = 0

(* A stream of the peer that s has not accepted: s has said nothing on it, *)
(* and its opener has received nothing.                                    *)
Unheard(s, id) == IsPeerStreamID(s, id) /\ id > maxPeer[s]

UnheardInv(s, id) ==
    Unheard(s, id) =>
        /\ id \notin active[s] /\ ~blocked[s][id] /\ user[s][id] = "idle"
        /\ stream[s][id] = NewStream(FALSE)
        /\ Unused(stream[Peer(s)][id])
        /\ Total(wire[s], id, "DATA") = 0 /\ Total(wire[s], id, "WINDOW_UPDATE") = 0
        /\ Total(wire[Peer(s)], id, "WINDOW_UPDATE") = 0

Woken(s, id) ==
    /\ id \in active[s] /\ ~aborted[s] /\ HasWork(stream[s][id]) => id \in Range(ready[s])
    /\ blocked[s][id] /\ (stream[s][id].writeEOF \/ ~WriteBufferFull(stream[s][id]))
         => stream[s][id].hasSpace

StreamInv(s, id) == /\ Room(s, id) /\ BufferOK(stream[s][id])
                    /\ FutureInv(s, id) /\ UnheardInv(s, id) /\ Woken(s, id)

MuxInv == MuxTypeOK /\ \A s \in Sides, id \in Ids : StreamInv(s, id)

-----------------------------------------------------------------------------
(* The sequence of a finite set.                                           *)
LEMMA SetToSeqFact ==
    ASSUME NEW S, IsFiniteSet(S)
    PROVE  SetToSeq(S) \in Seq(S) /\ Range(SetToSeq(S)) = S
<1> DEFINE n == Cardinality(S)
           D == 1 .. n
           f == SetToSeq(S)
<1>1. n \in Nat /\ ExistsBijection(D, S) BY FS_CardinalityType
<1>2. \E g \in [D -> S] : IsInjective(g)
  BY <1>1 DEF ExistsBijection, Bijection, Injection, IsInjective
<1>3. f \in [D -> S] /\ IsInjective(f) BY <1>2 DEF SetToSeq
<1>4. f \in Injection(D, S) BY <1>3 DEF Injection, IsInjective
<1>5. IsFiniteSet(D) /\ Cardinality(D) = n BY <1>1, FS_Interval
<1>6. f \in Surjection(D, S) BY <1>4, <1>5, FS_Injection
<1> HIDE DEF f, n
<1>7. f \in Seq(S) BY <1>1, <1>3
<1>8. Range(f) = S BY <1>3, <1>6 DEF Surjection, Range
<1> QED BY <1>7, <1>8 DEF f

LEMMA IdsFinite ==
    ASSUME NEW S, S \subseteq Ids PROVE IsFiniteSet(S)
<1>1. IsFiniteSet(Ids) BY MuxAssumption, FS_Interval DEF Ids
<1> QED BY <1>1, FS_Subset

(* Signal puts the streams on the list and takes none off it.              *)
LEMMA SignalFact ==
    ASSUME NEW s \in Sides, ready[s] \in Seq(Ids), NEW ids, ids \subseteq Ids
    PROVE  /\ SignalAll(s, ids) \in Seq(Ids)
           /\ Range(ready[s]) \subseteq Range(SignalAll(s, ids))
           /\ ~aborted[s] => ids \subseteq Range(SignalAll(s, ids))
<1> DEFINE S == ids \ Range(ready[s])
<1>1. SetToSeq(S) \in Seq(S) /\ Range(SetToSeq(S)) = S
  <2>1. IsFiniteSet(S) BY IdsFinite
  <2> QED BY <2>1, SetToSeqFact
<1>2. SetToSeq(S) \in Seq(Ids)
  <2>1. S \subseteq Ids OBVIOUS
  <2> HIDE DEF S
  <2> QED BY <1>1, <2>1
<1> HIDE DEF S
<1>3. /\ ready[s] \o SetToSeq(S) \in Seq(Ids)
      /\ Range(ready[s] \o SetToSeq(S)) = Range(ready[s]) \cup S
  BY <1>1, <1>2, RangeConcatenation
<1> QED BY <1>3 DEF SignalAll, S

LEMMA PeerFact ==
    ASSUME NEW s \in Sides
    PROVE  /\ Peer(s) \in Sides /\ Peer(s) # s /\ Peer(Peer(s)) = s
           /\ \A t \in Sides : t = s \/ t = Peer(s)
BY DEF Sides, Peer

-----------------------------------------------------------------------------
(* What a side adds to the wire or takes from it.                          *)

(* From v to w: no more bytes of any stream and no more HEADERS.           *)
Calm(v, w) ==
    /\ \A id \in Ids, type \in {"DATA", "WINDOW_UPDATE"} :
          Total(w, id, type) <= Total(v, id, type)
    /\ \A f \in Range(w) : f.type = "HEADERS" => f \in Range(v)

LEMMA CalmSame == ASSUME NEW w \in Seq(Frames) PROVE Calm(w, w)
<1>1. \A id \in Ids, type \in {"DATA", "WINDOW_UPDATE"} : Total(w, id, type) \in Nat
  BY TotalType
<1> QED BY <1>1 DEF Calm

LEMMA CalmEmpty == ASSUME NEW w \in Seq(Frames) PROVE Calm(w, <<>>)
<1>1. \A id \in Ids, type \in {"DATA", "WINDOW_UPDATE"} :
         Total(w, id, type) \in Nat /\ Total(<<>>, id, type) = 0
  <2> TAKE id \in Ids, type \in {"DATA", "WINDOW_UPDATE"}
  <2>1. <<>> \in Seq(Frames) /\ \A i \in 1 .. Len(<<>>) : BytesOf(<<>>[i], id, type) = 0
    OBVIOUS
  <2> QED BY <2>1, TotalType, TotalZero
<1>2. Range(<<>>) = {} BY DEF Range
<1> QED BY <1>1, <1>2 DEF Calm

LEMMA CalmTail ==
    ASSUME NEW w \in Seq(Frames), w # <<>>
    PROVE  /\ Calm(w, Tail(w)) /\ Tail(w) \in Seq(Frames) /\ Head(w) \in Range(w)
           /\ \A f \in Range(Tail(w)) : f \in Range(w)
<1>1. Tail(w) \in Seq(Frames) /\ Head(w) \in Frames OBVIOUS
<1>2. ASSUME NEW id \in Ids, NEW type \in {"DATA", "WINDOW_UPDATE"}
      PROVE  Total(Tail(w), id, type) <= Total(w, id, type)
  <2>1. Total(w, id, type) = BytesOf(Head(w), id, type) + Total(Tail(w), id, type)
    BY TotalTail
  <2>2. BytesOf(Head(w), id, type) \in Nat /\ Total(Tail(w), id, type) \in Nat
    BY <1>1, BytesFact, TotalType
  <2> QED BY <2>1, <2>2
<1>3. \A f \in Range(Tail(w)) : f \in Range(w)
  <2> SUFFICES ASSUME NEW i \in 1 .. Len(Tail(w)) PROVE Tail(w)[i] \in Range(w)
    BY <1>1 DEF Range
  <2>1. Tail(w)[i] = w[i + 1] /\ i + 1 \in 1 .. Len(w) OBVIOUS
  <2> QED BY <2>1 DEF Range
<1>4. Head(w) \in Range(w)
  <2>1. Head(w) = w[1] /\ 1 \in 1 .. Len(w) OBVIOUS
  <2> QED BY <2>1 DEF Range
<1> QED BY <1>1, <1>2, <1>3, <1>4 DEF Calm

Controls == [type : {"RST_STREAM"}, id : Ids] \cup [type : {"GOAWAY"}, id : Nat]

LEMMA CalmControl ==
    ASSUME NEW w \in Seq(Frames), NEW fs \in Seq(Controls)
    PROVE  Calm(w, w \o fs) /\ w \o fs \in Seq(Frames)
<1>1. fs \in Seq(Frames)
  <2>1. Controls \subseteq Frames BY DEF Controls, Frames
  <2> QED BY <2>1
<1>2. \A id \in Ids, type \in {"DATA", "WINDOW_UPDATE"} : Total(fs, id, type) = 0
  <2> TAKE id \in Ids, type \in {"DATA", "WINDOW_UPDATE"}
  <2>1. \A i \in 1 .. Len(fs) : BytesOf(fs[i], id, type) = 0
    <3> TAKE i \in 1 .. Len(fs)
    <3>1. fs[i] \in Controls OBVIOUS
    <3>2. fs[i].type # type BY <3>1 DEF Controls
    <3> QED BY <3>2 DEF BytesOf
  <2> QED BY <1>1, <2>1, TotalZero
<1>3. \A id \in Ids, type \in {"DATA", "WINDOW_UPDATE"} :
         Total(w \o fs, id, type) = Total(w, id, type) /\ Total(w, id, type) \in Nat
  <2> TAKE id \in Ids, type \in {"DATA", "WINDOW_UPDATE"}
  <2>1. Total(w \o fs, id, type) = Total(w, id, type) + Total(fs, id, type)
    BY <1>1, TotalConcat
  <2>2. Total(w, id, type) \in Nat BY TotalType
  <2> QED BY <1>2, <2>1, <2>2
<1>4. w \o fs \in Seq(Frames) /\ Range(w \o fs) = Range(w) \cup Range(fs)
  BY <1>1, RangeConcatenation
<1>5. \A f \in Range(fs) : f.type # "HEADERS"
  <2> SUFFICES ASSUME NEW i \in 1 .. Len(fs) PROVE fs[i].type # "HEADERS" BY DEF Range
  <2>1. fs[i] \in Controls OBVIOUS
  <2> QED BY <2>1 DEF Controls
<1> QED BY <1>3, <1>4, <1>5 DEF Calm

(* The resets of the streams in the error map.                             *)
LEMMA ResetsFact ==
    ASSUME NEW E, E \subseteq [id : Ids, code : ErrorCodes]
    PROVE  SetToSeq({[type |-> "RST_STREAM", id |-> e.id] : e \in E}) \in Seq(Controls)
<1> DEFINE J == {e.id : e \in E}
           S == {[type |-> "RST_STREAM", id |-> e.id] : e \in E}
           f == [i \in J |-> [type |-> "RST_STREAM", id |-> i]]
<1>1. J \subseteq Ids OBVIOUS
<1>2. IsFiniteSet(J) BY <1>1, IdsFinite
<1>3. f \in Surjection(J, S)
  <2>1. f \in [J -> S] OBVIOUS
  <2>2. \A x \in S : \E i \in J : f[i] = x OBVIOUS
  <2> QED BY <2>1, <2>2 DEF Surjection
<1>4. IsFiniteSet(S) BY <1>2, <1>3, FS_Surjection
<1>5. SetToSeq(S) \in Seq(S) BY <1>4, SetToSeqFact
<1>6. S \subseteq Controls BY DEF Controls
<1> HIDE DEF S
<1>7. SetToSeq(S) \in Seq(Controls) BY <1>5, <1>6
<1> QED BY <1>7 DEF S

-----------------------------------------------------------------------------
(* getChunk: the frames are within the send window, and announce as much   *)
(* of the receive window as is given back.                                 *)
LEMMA ChunkBytesFact ==
    ASSUME NEW st \in Streams
    PROVE  /\ ChunkBytes(st) \in Nat /\ ChunkBytes(st) <= st.sendWindow
           /\ ChunkBytes(st) <= st.write /\ ChunkEOF(st) \in BOOLEAN
BY DEF ChunkBytes, ChunkEOF, Streams

LEMMA DivFact ==
    ASSUME NEW a \in Nat, NEW m \in Nat \ {0}
    PROVE  a \div m \in Nat /\ (a \div m) * m <= a /\ a < (a \div m) * m + m
OBVIOUS

LEMMA DataFramesFact ==
    ASSUME NEW st \in Streams, NEW id \in Ids
    PROVE  LET w == DataFrames(id, st) IN
           /\ w \in Seq(Frames)
           /\ \A f \in Range(w) : f.type = "DATA" /\ f.id = id
           /\ Total(w, id, "DATA") = ChunkBytes(st)
<1> DEFINE n == ChunkBytes(st)
           m == MaxFrameSize
           last == IF n = 0 THEN 1 ELSE (n + m - 1) \div m
           size(i) == IF i < last THEN m ELSE n - (last - 1) * m
           frame(i) == [type |-> "DATA", id |-> id, eof |-> i = last /\ ChunkEOF(st),
                        n |-> size(i)]
           w == DataFrames(id, st)
           g == [i \in 1 .. last |-> IF i = last THEN n ELSE i * m]
<1>1. n \in Nat /\ m \in Nat \ {0} BY ChunkBytesFact, WindowAssumption
<1>2. w = [i \in 1 .. last |-> frame(i)] BY DEF DataFrames
<1> HIDE DEF n, m, w
<1>3. last \in Nat \ {0} /\ (last - 1) * m <= n
  <2>1. CASE n = 0 BY <1>1, <2>1
  <2>2. CASE n # 0
    <3> DEFINE a == n + m - 1
               q == a \div m
    <3>1. a \in Nat BY <1>1, <2>2
    <3>2. q \in Nat /\ q * m <= a /\ a < q * m + m BY <1>1, <3>1, DivFact
    <3> HIDE DEF q
    <3>3. q # 0
      <4>1. q = 0 => q * m = 0 BY <1>1
      <4>2. m <= a BY <1>1, <2>2
      <4> QED BY <1>1, <3>1, <3>2, <4>1, <4>2
    <3>4. (q - 1) * m = q * m - m BY <1>1, <3>2
    <3>5. q * m \in Nat BY <1>1, <3>2
    <3>6. (q - 1) * m <= n BY <1>1, <3>2, <3>4, <3>5
    <3>7. last = q BY <2>2 DEF q
    <3> QED BY <3>2, <3>3, <3>6, <3>7
  <2> QED BY <2>1, <2>2
<1> HIDE DEF last
<1>4. (last - 1) * m \in Nat BY <1>1, <1>3
<1>5. \A i \in 1 .. last : size(i) \in Nat BY <1>1, <1>3, <1>4
<1>6. \A i \in 1 .. last :
         /\ frame(i) \in [type : {"DATA"}, id : Ids, eof : BOOLEAN, n : Nat]
         /\ frame(i).type = "DATA" /\ frame(i).id = id /\ frame(i).n = size(i)
  <2> HIDE DEF size
  <2> TAKE i \in 1 .. last
  <2>1. (i = last /\ ChunkEOF(st)) \in BOOLEAN BY ChunkBytesFact
  <2> QED BY <1>5, <2>1
<1> HIDE DEF frame
<1>7. w \in Seq(Frames) /\ Len(w) = last
  <2>1. \A i \in 1 .. last : frame(i) \in Frames BY <1>6 DEF Frames
  <2> QED BY <1>2, <1>3, <2>1
<1>8. \A f \in Range(w) : f.type = "DATA" /\ f.id = id BY <1>2, <1>6, <1>7 DEF Range
<1>9. g \in [1 .. last -> Nat]
  <2>1. \A i \in 1 .. last : i * m \in Nat BY <1>1, <1>3
  <2> QED BY <1>1, <2>1
<1>10. \A i \in 1 .. last : g[i] = IF i = last THEN n ELSE i * m OBVIOUS
<1> HIDE DEF g
<1>11. \A i \in 1 .. last : g[i] = Upto(g, i - 1) + BytesOf(w[i], id, "DATA")
  <2> TAKE i \in 1 .. last
  <2>1. BytesOf(w[i], id, "DATA") = size(i) BY <1>2, <1>6 DEF BytesOf
  <2>2. Upto(g, i - 1) = (i - 1) * m
    <3>1. CASE i = 1
      <4>1. i - 1 = 0 /\ 0 * m = 0 BY <1>1, <3>1
      <4> QED BY <4>1 DEF Upto
    <3>2. CASE i # 1
      <4>1. i - 1 \in 1 .. last /\ i - 1 # last /\ i - 1 # 0 BY <1>3, <3>2
      <4> QED BY <1>10, <4>1 DEF Upto
    <3> QED BY <3>1, <3>2
  <2>3. CASE i = last
    <3> DEFINE k == (last - 1) * m
    <3>1. g[i] = n /\ size(i) = n - k BY <1>10, <2>3
    <3>2. Upto(g, i - 1) = k /\ k \in Nat BY <1>4, <2>2, <2>3
    <3>3. BytesOf(w[i], id, "DATA") = n - k BY <2>1, <3>1
    <3> HIDE DEF k
    <3> QED BY <1>1, <3>1, <3>2, <3>3
  <2>4. CASE i # last
    <3>1. size(i) = m /\ g[i] = i * m BY <1>3, <1>10, <2>4
    <3>2. (i - 1) * m + m = i * m BY <1>1, <1>3
    <3> QED BY <2>1, <2>2, <3>1, <3>2
  <2> QED BY <2>3, <2>4
<1>12. Upto(g, last) = n BY <1>3, <1>10 DEF Upto
<1>13. SumsUpTo(g, Len(w), w, id, "DATA") BY <1>7, <1>9, <1>11 DEF SumsUpTo
<1>14. Total(w, id, "DATA") = Upto(g, last) BY <1>7, <1>13, SumIsTotal
<1> QED BY <1>7, <1>8, <1>12, <1>14 DEF w, n

LEMMA ForeignZero ==
    ASSUME NEW w \in Seq(Frames), NEW id, NEW type \in {"DATA", "WINDOW_UPDATE"},
           \A f \in Range(w) : f.type # type \/ f.id # id
    PROVE  Total(w, id, type) = 0
<1>1. \A i \in 1 .. Len(w) : BytesOf(w[i], id, type) = 0 BY DEF Range, BytesOf
<1> QED BY <1>1, TotalZero

LEMMA ChunkFramesFact ==
    ASSUME NEW st \in Streams, NEW id \in Ids
    PROVE  LET w == ChunkFrames(id, st) IN
           /\ w \in Seq(Frames)
           /\ \A f \in Range(w) : f.id = id
           /\ Total(w, id, "DATA") <= ChunkBytes(st) /\ Total(w, id, "DATA") \in Nat
           /\ Total(w, id, "WINDOW_UPDATE") = st.windowUpdate
<1> DEFINE a == IF st.headersSent \/ ~st.writeHeaders THEN <<>>
                ELSE <<[type |-> "HEADERS", id |-> id]>>
           b == IF st.windowUpdate = 0 THEN <<>>
                ELSE <<[type |-> "WINDOW_UPDATE", id |-> id, n |-> st.windowUpdate]>>
           c == IF st.sentEOF THEN <<>> ELSE DataFrames(id, st)
           w == ChunkFrames(id, st)
<1>0. st.windowUpdate \in Nat /\ ChunkBytes(st) \in Nat BY ChunkBytesFact DEF Streams
<1>e. <<>> \in Seq(Frames) /\ Range(<<>>) = {} BY DEF Range
<1>1. a \in Seq(Frames) /\ \A f \in Range(a) : f.id = id /\ f.type = "HEADERS"
  <2> DEFINE h == [type |-> "HEADERS", id |-> id]
  <2>1. h \in Frames /\ h.id = id /\ h.type = "HEADERS" BY DEF Frames
  <2> HIDE DEF h
  <2>2. <<h>> \in Seq(Frames) /\ Range(<<h>>) = {h} BY <2>1 DEF Range
  <2> QED BY <1>e, <2>1, <2>2 DEF h
<1>2. /\ b \in Seq(Frames) /\ \A f \in Range(b) : f.id = id /\ f.type = "WINDOW_UPDATE"
      /\ Total(b, id, "WINDOW_UPDATE") = st.windowUpdate
  <2> DEFINE u == [type |-> "WINDOW_UPDATE", id |-> id, n |-> st.windowUpdate]
  <2>1. u \in Frames /\ u.id = id /\ u.type = "WINDOW_UPDATE" /\ u.n = st.windowUpdate
    BY <1>0 DEF Frames
  <2>2. Total(<<>>, id, "WINDOW_UPDATE") = 0 BY <1>e, ForeignZero
  <2> HIDE DEF u
  <2>3. <<u>> \in Seq(Frames) /\ Range(<<u>>) = {u} BY <2>1 DEF Range
  <2>4. Total(<<u>>, id, "WINDOW_UPDATE") = st.windowUpdate
    BY <2>1, TotalOne DEF BytesOf
  <2> QED BY <1>e, <2>1, <2>2, <2>3, <2>4 DEF u
<1>3. /\ c \in Seq(Frames) /\ \A f \in Range(c) : f.id = id /\ f.type = "DATA"
      /\ Total(c, id, "DATA") <= ChunkBytes(st) /\ Total(c, id, "DATA") \in Nat
  <2>1. Total(<<>>, id, "DATA") = 0 BY <1>e, ForeignZero
  <2>2. CASE st.sentEOF BY <1>0, <1>e, <2>1, <2>2
  <2>3. CASE ~st.sentEOF
    <3>1. c = DataFrames(id, st) BY <2>3
    <3> HIDE DEF c
    <3> QED BY <1>0, <3>1, DataFramesFact
  <2> QED BY <2>2, <2>3
<1>4. w = (a \o b) \o c BY DEF ChunkFrames
<1> HIDE DEF a, b, c, w
<1>5. a \o b \in Seq(Frames) /\ Range(a \o b) = Range(a) \cup Range(b)
  BY <1>1, <1>2, RangeConcatenation
<1>6. w \in Seq(Frames) /\ Range(w) = Range(a) \cup Range(b) \cup Range(c)
  <2> DEFINE ab == a \o b
  <2>1. ab \in Seq(Frames) /\ w = ab \o c BY <1>4, <1>5
  <2> HIDE DEF ab
  <2>2. Range(ab \o c) = Range(ab) \cup Range(c) BY <1>3, <2>1, RangeConcatenation
  <2>3. ab \o c \in Seq(Frames) BY <1>3, <2>1
  <2> QED BY <1>5, <2>1, <2>2, <2>3 DEF ab
<1>7. ASSUME NEW type \in {"DATA", "WINDOW_UPDATE"}
      PROVE  Total(w, id, type) = Total(a, id, type) + Total(b, id, type) + Total(c, id, type)
  <2>1. Total(w, id, type) = Total(a \o b, id, type) + Total(c, id, type)
    BY <1>3, <1>4, <1>5, TotalConcat
  <2>2. Total(a \o b, id, type) = Total(a, id, type) + Total(b, id, type)
    BY <1>1, <1>2, TotalConcat
  <2> QED BY <2>1, <2>2
<1>8. Total(a, id, "DATA") = 0 /\ Total(a, id, "WINDOW_UPDATE") = 0
      /\ Total(b, id, "DATA") = 0 /\ Total(c, id, "WINDOW_UPDATE") = 0
  <2>1. \A f \in Range(a) : f.type # "DATA" /\ f.type # "WINDOW_UPDATE" BY <1>1
  <2>2. \A f \in Range(b) : f.type # "DATA" BY <1>2
  <2>3. \A f \in Range(c) : f.type # "WINDOW_UPDATE" BY <1>3
  <2> QED BY <1>1, <1>2, <1>3, <2>1, <2>2, <2>3, ForeignZero
<1>9. /\ Total(w, id, "DATA") = Total(c, id, "DATA")
      /\ Total(w, id, "WINDOW_UPDATE") = st.windowUpdate
  BY <1>0, <1>2, <1>3, <1>7, <1>8
<1>10. \A f \in Range(w) : f.id = id BY <1>1, <1>2, <1>3, <1>6
<1> QED BY <1>3, <1>6, <1>9, <1>10 DEF w

LEMMA GetChunkFact ==
    ASSUME NEW st \in Streams
    PROVE  LET g == GetChunk(st) IN
           /\ g \in Streams
           /\ g.sendWindow = st.sendWindow - ChunkBytes(st)
           /\ g.receiveWindow = st.receiveWindow + st.windowUpdate
           /\ ~HasWork(g)
           /\ g.writeEOF = st.writeEOF
           /\ st.hasSpace \/ ~WriteBufferFull(g) => g.hasSpace
           /\ g.hasSpace => st.hasSpace \/ ~WriteBufferFull(g)
           /\ Unused(st) => Unused(g)
           /\ BufferOK(st) => BufferOK(g)
<1> DEFINE g == GetChunk(st)
           n == ChunkBytes(st)
<1>1. n \in Nat /\ n <= st.sendWindow /\ n <= st.write /\ ChunkEOF(st) \in BOOLEAN
  BY ChunkBytesFact
<1>2. /\ st.write \in Nat /\ st.sendWindow \in Nat /\ st.receiveWindow \in Nat
      /\ st.windowUpdate \in Nat /\ st.sentEOF \in BOOLEAN /\ st.hasSpace \in BOOLEAN
      /\ st.writeEOF \in BOOLEAN /\ st.read \in Nat /\ st.currentMax \in Nat
  BY DEF Streams
<1>3. WriteBufferMax \in Nat /\ DefaultWindow \in Nat /\ MaxWindow \in Nat
  BY WindowAssumption
<1>4. g \in Streams
  <2>1. st.write - n \in Nat /\ st.sendWindow - n \in Nat
        /\ st.receiveWindow + st.windowUpdate \in Nat
    BY <1>1, <1>2
  <2>2. (st.hasSpace \/ st.write - n < WriteBufferMax) \in BOOLEAN
        /\ (st.sentEOF \/ ChunkEOF(st)) \in BOOLEAN
    OBVIOUS
  <2> HIDE DEF n
  <2> QED BY <2>1, <2>2 DEF GetChunk, Streams, n
<1>5. /\ g.write = st.write - n /\ g.sendWindow = st.sendWindow - n
      /\ g.receiveWindow = st.receiveWindow + st.windowUpdate /\ g.windowUpdate = 0
      /\ g.headersSent = TRUE /\ g.sentEOF = (st.sentEOF \/ ChunkEOF(st))
      /\ g.hasSpace = (st.hasSpace \/ st.write - n < WriteBufferMax)
      /\ g.writeEOF = st.writeEOF /\ g.read = st.read /\ g.currentMax = st.currentMax
      /\ g.receivedEOF = st.receivedEOF /\ g.closed = st.closed
  BY DEF GetChunk, Streams
<1> HIDE DEF g
<1>6. ~HasWork(g)
  <2>1. g.sendWindow = 0 \/ g.write = 0 BY <1>1, <1>2, <1>5 DEF ChunkBytes
  <2>2. ChunkBytes(g) = 0 BY <1>1, <1>2, <1>5, <2>1 DEF ChunkBytes
  <2>3. ChunkEOF(g) => ChunkEOF(st) BY <1>1, <1>2, <1>5 DEF ChunkEOF
  <2>4. ~(g.windowUpdate > 0) /\ ~(ChunkBytes(g) > 0) /\ g.headersSent BY <1>5, <2>2
  <2>5. ChunkEOF(g) => g.sentEOF BY <1>5, <2>3
  <2> QED BY <2>4, <2>5 DEF HasWork
<1>7. g.hasSpace <=> st.hasSpace \/ ~WriteBufferFull(g)
  <2>1. ~WriteBufferFull(g) <=> st.write - n < WriteBufferMax
    BY <1>1, <1>2, <1>3, <1>5 DEF WriteBufferFull
  <2>2. g.hasSpace = (st.hasSpace \/ st.write - n < WriteBufferMax) BY <1>5
  <2> HIDE DEF n
  <2> QED BY <2>1, <2>2
<1>8. Unused(st) => Unused(g) BY <1>2, <1>3, <1>5 DEF Unused
<1>9. BufferOK(st) => BufferOK(g) BY <1>2, <1>5 DEF BufferOK
<1> QED BY <1>4, <1>5, <1>6, <1>7, <1>8, <1>9 DEF g

-----------------------------------------------------------------------------
(* A stream is one side's to open and the other's to accept.               *)
LEMMA ParityFact ==
    ASSUME MuxTypeOK, NEW s \in Sides, NEW id \in Ids
    PROVE  IsPeerStreamID(Peer(s), id) <=> ~IsPeerStreamID(s, id)
<1>1. id \in Nat /\ nextID[s] \in Nat /\ nextID[Peer(s)] \in Nat
  BY PeerFact DEF MuxTypeOK, Ids
<1>2. id % 2 \in {0, 1} BY <1>1
<1>3. nextID["origin"] % 2 = 1 /\ nextID["edge"] % 2 = 0 BY DEF MuxTypeOK
<1> QED BY <1>2, <1>3 DEF Sides, Peer, IsPeerStreamID

LEMMA SetStreamFact ==
    ASSUME MuxTypeOK, NEW s \in Sides, NEW id \in Ids, NEW st \in Streams,
           SetStream(s, id, st)
    PROVE  /\ stream' \in [Sides -> [Ids -> Streams]] /\ stream'[s][id] = st
           /\ \A t \in Sides, i \in Ids :
                 t # s \/ i # id => stream'[t][i] = stream[t][i]
BY DEF MuxTypeOK, SetStream

LEMMA InvFact ==
    ASSUME MuxInv, NEW s \in Sides, NEW id \in Ids
    PROVE  /\ MuxTypeOK /\ stream[s][id] \in Streams
           /\ Room(s, id) /\ BufferOK(stream[s][id])
           /\ FutureInv(s, id) /\ UnheardInv(s, id) /\ Woken(s, id)
           /\ \A type \in {"DATA", "WINDOW_UPDATE"} : Total(wire[s], id, type) \in Nat
<1>1. MuxTypeOK /\ StreamInv(s, id) BY DEF MuxInv
<1>2. stream[s][id] \in Streams /\ wire[s] \in Seq(Frames) BY <1>1 DEF MuxTypeOK
<1> QED BY <1>1, <1>2, TotalType DEF StreamInv

(* A write that waits has its token when it could go on.                   *)
Signs(st) == st.writeEOF \/ ~WriteBufferFull(st) => st.hasSpace

(* What the application does to a stream leaves the windows alone.         *)
Kept(a, b) ==
    /\ b \in Streams /\ b.receiveWindow = a.receiveWindow /\ b.sendWindow = a.sendWindow
    /\ BufferOK(a) => BufferOK(b)
    /\ Unused(a) => Unused(b)

LEMMA NewStreamFact ==
    ASSUME NEW h \in BOOLEAN
    PROVE  /\ NewStream(h) \in Streams /\ Unused(NewStream(h)) /\ BufferOK(NewStream(h))
           /\ NewStream(h).sendWindow = DefaultWindow
           /\ NewStream(h).receiveWindow = DefaultWindow
           /\ NewStream(h).writeHeaders = h
<1>1. DefaultWindow \in Nat /\ MaxWindow \in Nat /\ DefaultWindow <= MaxWindow
  BY WindowAssumption
<1>2. NewStream(h) \in Streams BY <1>1 DEF NewStream, Streams
<1>3. Unused(NewStream(h)) /\ BufferOK(NewStream(h))
  BY <1>1 DEF NewStream, Unused, BufferOK
<1> QED BY <1>2, <1>3 DEF NewStream

LEMMA NewStreamIdle == ~HasWork(NewStream(FALSE))
<1> DEFINE n == NewStream(FALSE)
<1>1. DefaultWindow \in Nat \ {0} BY WindowAssumption
<1>2. /\ n.windowUpdate = 0 /\ n.writeHeaders = FALSE /\ n.writeEOF = FALSE
      /\ n.write = 0 /\ n.sendWindow = DefaultWindow
  BY DEF NewStream
<1> HIDE DEF n
<1>3. ChunkBytes(n) = 0 /\ ~ChunkEOF(n) BY <1>1, <1>2 DEF ChunkBytes, ChunkEOF
<1>4. ~HasWork(n) BY <1>2, <1>3 DEF HasWork
<1> QED BY <1>4 DEF n

(* The operations of the application.                                      *)
LEMMA WriteByteFact ==
    ASSUME NEW st \in Streams
    PROVE  Kept(st, WriteByte(st)) /\ (Signs(st) => Signs(WriteByte(st)))
<1>1. WriteBufferMax \in Nat BY WindowAssumption
<1>2. Kept(st, WriteByte(st)) BY DEF Kept, WriteByte, BufferOK, Unused, Streams
<1>3. Signs(st) => Signs(WriteByte(st))
  BY <1>1 DEF Signs, WriteByte, WriteBufferFull, Streams
<1> QED BY <1>2, <1>3

LEMMA CloseWriteFact ==
    ASSUME NEW st \in Streams
    PROVE  /\ Kept(st, CloseWrite(st)) /\ (Signs(st) => Signs(CloseWrite(st)))
           /\ ~CloseWriteNotifies(st) => CloseWrite(st) = st
<1>1. Kept(st, CloseWrite(st)) BY DEF Kept, CloseWrite, BufferOK, Unused, Streams
<1>2. Signs(st) => Signs(CloseWrite(st)) BY DEF Signs, CloseWrite, Streams
<1> QED BY <1>1, <1>2 DEF CloseWriteNotifies, CloseWrite

LEMMA CloseReadFact ==
    ASSUME NEW st \in Streams
    PROVE  /\ Kept(st, CloseRead(st)) /\ (Signs(st) => Signs(CloseRead(st)))
           /\ HasWork(CloseRead(st)) => HasWork(st)
<1>1. Kept(st, CloseRead(st)) BY DEF Kept, CloseRead, BufferOK, Unused, Streams
<1>2. Signs(st) => Signs(CloseRead(st)) BY DEF Signs, CloseRead, WriteBufferFull, Streams
<1>3. HasWork(CloseRead(st)) => HasWork(st)
  BY DEF HasWork, CloseRead, ChunkBytes, ChunkEOF, Streams
<1> QED BY <1>1, <1>2, <1>3

LEMMA CloseFact ==
    ASSUME NEW st \in Streams
    PROVE  /\ Kept(st, Close(st)) /\ (Signs(st) => Signs(Close(st)))
           /\ ~CloseWriteNotifies(st) /\ HasWork(Close(st)) => HasWork(st)
<1> DEFINE w == CloseWrite(st)
<1>1. Kept(st, w) /\ (Signs(st) => Signs(w)) /\ (~CloseWriteNotifies(st) => w = st)
  BY CloseWriteFact
<1>2. w \in Streams BY <1>1 DEF Kept
<1>3. Close(st) = CloseRead(w) BY DEF Close
<1> HIDE DEF w
<1>4. /\ Kept(w, CloseRead(w)) /\ (Signs(w) => Signs(CloseRead(w)))
      /\ HasWork(CloseRead(w)) => HasWork(w)
  BY <1>2, CloseReadFact
<1>5. Kept(st, CloseRead(w)) BY <1>1, <1>4 DEF Kept
<1> QED BY <1>1, <1>3, <1>4, <1>5

LEMMA HeadersFact ==
    ASSUME NEW st \in Streams
    PROVE  Kept(st, WriteHeaders(st)) /\ (Signs(st) => Signs(WriteHeaders(st)))
<1>1. Kept(st, WriteHeaders(st)) BY DEF Kept, WriteHeaders, BufferOK, Unused, Streams
<1>2. Signs(st) => Signs(WriteHeaders(st))
  BY DEF Signs, WriteHeaders, WriteBufferFull, Streams
<1> QED BY <1>1, <1>2

LEMMA ReadAllFact ==
    ASSUME NEW st \in Streams
    PROVE  Kept(st, ReadAll(st)) /\ (Signs(st) => Signs(ReadAll(st)))
<1> DEFINE r == ReadAll(st)
<1>1. /\ r \in Streams /\ r.read = 0 /\ r.windowUpdate = st.windowUpdate + st.read
      /\ r.receiveWindow = st.receiveWindow /\ r.sendWindow = st.sendWindow
      /\ r.currentMax = st.currentMax /\ r.receivedEOF = st.receivedEOF
      /\ r.closed = st.closed /\ r.writeEOF = st.writeEOF /\ r.write = st.write
      /\ r.hasSpace = st.hasSpace
  <2> DEFINE e == [st EXCEPT !.read = 0]
  <2>1. /\ e \in Streams /\ e.read = 0 /\ e.windowUpdate = st.windowUpdate
        /\ e.receiveWindow = st.receiveWindow /\ e.sendWindow = st.sendWindow
        /\ e.currentMax = st.currentMax /\ e.receivedEOF = st.receivedEOF
        /\ e.closed = st.closed /\ e.writeEOF = st.writeEOF /\ e.write = st.write
        /\ e.hasSpace = st.hasSpace
    BY DEF Streams
  <2>2. st.read \in Nat BY DEF Streams
  <2>3. r = [e EXCEPT !.windowUpdate = @ + st.read] BY DEF ReadAll, ReplenishReceiveWindow
  <2> HIDE DEF e, r
  <2> QED BY <2>1, <2>2, <2>3 DEF Streams
<1>2. /\ st.read \in Nat /\ st.windowUpdate \in Nat /\ st.receiveWindow \in Nat
      /\ st.currentMax \in Nat
  BY DEF Streams
<1> HIDE DEF r
<1>3. BufferOK(st) => BufferOK(r) BY <1>1, <1>2, WindowAssumption DEF BufferOK
<1>4. Unused(st) => Unused(r) BY <1>1, <1>2 DEF Unused
<1>5. Signs(st) => Signs(r) BY <1>1 DEF Signs, WriteBufferFull
<1> QED BY <1>1, <1>3, <1>4, <1>5 DEF Kept, r

LEMMA ReceivedFact ==
    ASSUME NEW st \in Streams
    PROVE  LET r == [st EXCEPT !.headersReceived = TRUE]
           IN  Kept(st, r) /\ (Signs(st) => Signs(r)) /\ (HasWork(r) => HasWork(st))
<1> DEFINE r == [st EXCEPT !.headersReceived = TRUE]
<1>1. Kept(st, r) BY DEF Kept, BufferOK, Unused, Streams
<1>2. Signs(st) => Signs(r) BY DEF Signs, WriteBufferFull, Streams
<1>3. HasWork(r) => HasWork(st) BY DEF HasWork, ChunkBytes, ChunkEOF, Streams
<1> QED BY <1>1, <1>2, <1>3

LEMMA TokenFact ==
    ASSUME NEW st \in Streams
    PROVE  LET r == [st EXCEPT !.hasSpace = FALSE]
           IN  /\ Kept(st, r) /\ (HasWork(r) => HasWork(st)) /\ r.writeEOF = st.writeEOF
               /\ WriteBufferFull(r) <=> WriteBufferFull(st)
<1> DEFINE r == [st EXCEPT !.hasSpace = FALSE]
<1>1. Kept(st, r) BY DEF Kept, BufferOK, Unused, Streams
<1>3. HasWork(r) => HasWork(st) BY DEF HasWork, ChunkBytes, ChunkEOF, Streams
<1> QED BY <1>1, <1>3 DEF WriteBufferFull, Streams

-----------------------------------------------------------------------------
(* A step that opens no stream and sends no bytes: what a side takes off   *)
(* the wire it takes off its receive window or adds to its send window.    *)
Gentle(t, i) ==
    /\ Total(wire[Peer(t)], i, "DATA")' + stream[t][i].receiveWindow
         <= Total(wire[Peer(t)], i, "DATA") + stream'[t][i].receiveWindow
    /\ i \in active'[t] =>
         stream'[t][i].sendWindow + Total(wire[Peer(t)], i, "WINDOW_UPDATE")'
           <= stream[t][i].sendWindow + Total(wire[Peer(t)], i, "WINDOW_UPDATE")
    /\ BufferOK(stream'[t][i])
    /\ Unheard(Peer(t), i) /\ Unused(stream[t][i]) => Unused(stream'[t][i])
    /\ Unheard(t, i) =>
         stream'[t][i] = stream[t][i] /\ user'[t][i] = user[t][i] /\ ~blocked'[t][i]
    /\ Future(t, i) =>
         /\ ~blocked'[t][i] /\ user'[t][i] \in {"idle", "requesting", "failed"}
         /\ user'[t][i] = "requesting" => stream'[t][i] = NewStream(TRUE)
    /\ Woken(t, i)'

LEMMA CalmStep ==
    ASSUME MuxInv, MuxTypeOK', nextID' = nextID, maxPeer' = maxPeer,
           \A t \in Sides : active'[t] \subseteq active[t] /\ Calm(wire[t], wire'[t]),
           \A t \in Sides, i \in Ids : Gentle(t, i)
    PROVE  MuxInv'
<1> SUFFICES ASSUME NEW t \in Sides, NEW i \in Ids PROVE StreamInv(t, i)'
  BY DEF MuxInv
<1> DEFINE p == Peer(t)
<1>0. p \in Sides /\ Peer(p) = t BY PeerFact
<1> HIDE DEF p
<1>1. /\ Room(t, i) /\ FutureInv(t, i) /\ UnheardInv(t, i)
      /\ stream[t][i] \in Streams /\ stream[p][i] \in Streams
      /\ \A type \in {"DATA", "WINDOW_UPDATE"} :
            Total(wire[t], i, type) \in Nat /\ Total(wire[p], i, type) \in Nat
  BY <1>0, InvFact
<1>2. /\ stream'[t][i] \in Streams /\ stream'[p][i] \in Streams
      /\ \A type \in {"DATA", "WINDOW_UPDATE"} :
            Total(wire[t], i, type)' \in Nat /\ Total(wire[p], i, type)' \in Nat
  <2>1. wire'[t] \in Seq(Frames) /\ wire'[p] \in Seq(Frames) BY <1>0 DEF MuxTypeOK
  <2> QED BY <1>0, <2>1, TotalType DEF MuxTypeOK
<1>3. Gentle(t, i) /\ Gentle(p, i) BY <1>0
<1>4. /\ active'[t] \subseteq active[t]
      /\ \A type \in {"DATA", "WINDOW_UPDATE"} :
            /\ Total(wire[t], i, type)' <= Total(wire[t], i, type)
            /\ Total(wire[p], i, type)' <= Total(wire[p], i, type)
      /\ \A f \in Range(wire'[t]) : f.type = "HEADERS" => f \in Range(wire[t])
  BY <1>0 DEF Calm
<1>5. Room(t, i)'
  <2> DEFINE d == Total(wire[t], i, "DATA")
             u == Total(wire[p], i, "WINDOW_UPDATE")
             d2 == Total(wire[t], i, "DATA")'
             u2 == Total(wire[p], i, "WINDOW_UPDATE")'
             a == stream[t][i].sendWindow
             a2 == stream'[t][i].sendWindow
             b == stream[p][i].receiveWindow
             b2 == stream'[p][i].receiveWindow
  <2>1. /\ d \in Nat /\ u \in Nat /\ d2 \in Nat /\ u2 \in Nat /\ a \in Nat /\ a2 \in Nat
        /\ b \in Nat /\ b2 \in Nat
    BY <1>1, <1>2 DEF Streams
  <2>2. d + (IF i \in active[t] THEN a + u ELSE 0) <= b BY <1>1 DEF Room, p
  <2>3. d2 + b <= d + b2 BY <1>0, <1>3 DEF Gentle
  <2>4. i \in active'[t] => a2 + u2 <= a + u BY <1>3 DEF Gentle, p
  <2>5. d2 <= d /\ u2 <= u BY <1>4
  <2> HIDE DEF d, u, d2, u2, a, a2, b, b2
  <2>6. d2 + (IF i \in active'[t] THEN a2 + u2 ELSE 0) <= b2
    BY <1>4, <2>1, <2>2, <2>3, <2>4
  <2> QED BY <2>6 DEF Room, p, d2, a2, u2, b2
<1>6. BufferOK(stream[t][i])' /\ Woken(t, i)' BY <1>3 DEF Gentle
<1>7. (Future(t, i)' <=> Future(t, i)) /\ (Unheard(t, i)' <=> Unheard(t, i))
  BY DEF Future, Unheard, IsPeerStreamID
<1>8. FutureInv(t, i)'
  <2> SUFFICES ASSUME Future(t, i)
      PROVE  /\ i \notin active'[t] /\ i > maxPeer'[p]
             /\ ~blocked'[t][i] /\ user'[t][i] \in {"idle", "requesting", "failed"}
             /\ user'[t][i] = "requesting" => stream'[t][i] = NewStream(TRUE)
             /\ \A f \in Range(wire'[t]) : f.type = "HEADERS" => f.id # i
             /\ Total(wire[t], i, "DATA")' = 0
    BY <1>7 DEF FutureInv, p
  <2>1. /\ i \notin active[t] /\ i > maxPeer[p]
        /\ \A f \in Range(wire[t]) : f.type = "HEADERS" => f.id # i
        /\ Total(wire[t], i, "DATA") = 0
    BY <1>1 DEF FutureInv, p
  <2>2. Total(wire[t], i, "DATA")' = 0
    <3>1. Total(wire[t], i, "DATA")' <= 0 /\ Total(wire[t], i, "DATA")' \in Nat
      BY <1>2, <1>4, <2>1
    <3> QED BY <3>1
  <2>3. /\ ~blocked'[t][i] /\ user'[t][i] \in {"idle", "requesting", "failed"}
        /\ user'[t][i] = "requesting" => stream'[t][i] = NewStream(TRUE)
    BY <1>3 DEF Gentle
  <2> QED BY <1>4, <2>1, <2>2, <2>3
<1>9. UnheardInv(t, i)'
  <2> SUFFICES ASSUME Unheard(t, i)
      PROVE  /\ i \notin active'[t] /\ ~blocked'[t][i] /\ user'[t][i] = "idle"
             /\ stream'[t][i] = NewStream(FALSE)
             /\ Unused(stream'[p][i])
             /\ Total(wire[t], i, "DATA")' = 0 /\ Total(wire[t], i, "WINDOW_UPDATE")' = 0
             /\ Total(wire[p], i, "WINDOW_UPDATE")' = 0
    BY <1>7 DEF UnheardInv, p
  <2>1. /\ i \notin active[t] /\ user[t][i] = "idle" /\ stream[t][i] = NewStream(FALSE)
        /\ Unused(stream[p][i])
        /\ Total(wire[t], i, "DATA") = 0 /\ Total(wire[t], i, "WINDOW_UPDATE") = 0
        /\ Total(wire[p], i, "WINDOW_UPDATE") = 0
    BY <1>1 DEF UnheardInv, p
  <2>2. stream'[t][i] = stream[t][i] /\ user'[t][i] = user[t][i] /\ ~blocked'[t][i]
    BY <1>3 DEF Gentle
  <2>3. Unused(stream'[p][i]) BY <1>0, <1>3, <2>1 DEF Gentle
  <2>4. /\ Total(wire[t], i, "DATA")' = 0 /\ Total(wire[t], i, "WINDOW_UPDATE")' = 0
        /\ Total(wire[p], i, "WINDOW_UPDATE")' = 0
    <3>1. \A k \in Nat : k <= 0 => k = 0 OBVIOUS
    <3> QED BY <1>2, <1>4, <2>1, <3>1
  <2> QED BY <1>4, <2>1, <2>2, <2>3, <2>4
<1> QED BY <1>5, <1>6, <1>8, <1>9 DEF StreamInv

(* A stream whose windows the step leaves alone.                           *)
LEMMA GentleKept ==
    ASSUME MuxInv, MuxTypeOK', NEW t \in Sides, NEW i \in Ids,
           active'[t] \subseteq active[t], Calm(wire[Peer(t)], wire'[Peer(t)]),
           Kept(stream[t][i], stream'[t][i]), Woken(t, i)',
           ~Future(t, i), ~Unheard(t, i)
    PROVE  Gentle(t, i)
<1> DEFINE p == Peer(t)
<1>0. p \in Sides BY PeerFact
<1> HIDE DEF p
<1>1. /\ BufferOK(stream[t][i]) /\ stream[t][i] \in Streams
      /\ \A type \in {"DATA", "WINDOW_UPDATE"} : Total(wire[p], i, type) \in Nat
  BY <1>0, InvFact
<1>2. \A type \in {"DATA", "WINDOW_UPDATE"} : Total(wire[p], i, type)' \in Nat
  <2>1. wire'[p] \in Seq(Frames) BY <1>0 DEF MuxTypeOK
  <2> QED BY <2>1, TotalType
<1>3. \A type \in {"DATA", "WINDOW_UPDATE"} : Total(wire[p], i, type)' <= Total(wire[p], i, type)
  BY DEF Calm, p
<1>4. /\ stream'[t][i] \in Streams /\ BufferOK(stream'[t][i])
      /\ Unused(stream[t][i]) => Unused(stream'[t][i])
      /\ stream'[t][i].receiveWindow = stream[t][i].receiveWindow
      /\ stream'[t][i].sendWindow = stream[t][i].sendWindow
  BY <1>1 DEF Kept
<1>5. stream[t][i].receiveWindow \in Nat /\ stream[t][i].sendWindow \in Nat BY <1>1 DEF Streams
<1>6. /\ Total(wire[p], i, "DATA")' + stream[t][i].receiveWindow
           <= Total(wire[p], i, "DATA") + stream'[t][i].receiveWindow
      /\ stream'[t][i].sendWindow + Total(wire[p], i, "WINDOW_UPDATE")'
           <= stream[t][i].sendWindow + Total(wire[p], i, "WINDOW_UPDATE")
  BY <1>1, <1>2, <1>3, <1>4, <1>5
<1> QED BY <1>4, <1>6 DEF Gentle, p

(* A stream that the step does not touch.                                  *)
LEMMA GentleSame ==
    ASSUME MuxInv, MuxTypeOK', NEW t \in Sides, NEW i \in Ids,
           active'[t] \subseteq active[t], Calm(wire[Peer(t)], wire'[Peer(t)]),
           stream'[t][i] = stream[t][i], user'[t][i] = user[t][i],
           blocked'[t][i] = blocked[t][i], aborted[t] => aborted'[t],
           i \in Range(ready[t]) /\ i \in active'[t] => i \in Range(ready'[t]) \/ aborted'[t]
    PROVE  Gentle(t, i)
<1> DEFINE p == Peer(t)
<1>0. p \in Sides BY PeerFact
<1> HIDE DEF p
<1>1. /\ BufferOK(stream[t][i]) /\ stream[t][i] \in Streams /\ Woken(t, i)
      /\ FutureInv(t, i) /\ UnheardInv(t, i)
      /\ \A type \in {"DATA", "WINDOW_UPDATE"} : Total(wire[p], i, type) \in Nat
  BY <1>0, InvFact
<1>2. \A type \in {"DATA", "WINDOW_UPDATE"} : Total(wire[p], i, type)' \in Nat
  <2>1. wire'[p] \in Seq(Frames) BY <1>0 DEF MuxTypeOK
  <2> QED BY <2>1, TotalType
<1>3. \A type \in {"DATA", "WINDOW_UPDATE"} : Total(wire[p], i, type)' <= Total(wire[p], i, type)
  BY DEF Calm, p
<1>5. stream[t][i].receiveWindow \in Nat /\ stream[t][i].sendWindow \in Nat BY <1>1 DEF Streams
<1>6. /\ Total(wire[p], i, "DATA")' + stream[t][i].receiveWindow
           <= Total(wire[p], i, "DATA") + stream'[t][i].receiveWindow
      /\ stream'[t][i].sendWindow + Total(wire[p], i, "WINDOW_UPDATE")'
           <= stream[t][i].sendWindow + Total(wire[p], i, "WINDOW_UPDATE")
  BY <1>1, <1>2, <1>3, <1>5
<1>7. Woken(t, i)' BY <1>1 DEF Woken
<1>8. Future(t, i) => /\ ~blocked'[t][i] /\ user'[t][i] \in {"idle", "requesting", "failed"}
                      /\ user'[t][i] = "requesting" => stream'[t][i] = NewStream(TRUE)
  BY <1>1 DEF FutureInv
<1>9. Unheard(t, i) => ~blocked'[t][i] BY <1>1 DEF UnheardInv
<1> QED BY <1>1, <1>6, <1>7, <1>8, <1>9 DEF Gentle, p

-----------------------------------------------------------------------------
(* Steps on one stream, and steps that close some.                         *)

Others(f, g, s, id) == \A t \in Sides, i \in Ids : t # s \/ i # id => g[t][i] = f[t][i]

LEMMA OneStream ==
    ASSUME MuxInv, MuxTypeOK', NEW s \in Sides, NEW id \in Ids,
           nextID' = nextID, maxPeer' = maxPeer, aborted' = aborted,
           \A t \in Sides : active'[t] \subseteq active[t] /\ Calm(wire[t], wire'[t]),
           \A t \in Sides : Range(ready[t]) \subseteq Range(ready'[t]),
           Others(stream, stream', s, id), Others(user, user', s, id),
           Others(blocked, blocked', s, id), Gentle(s, id)
    PROVE  MuxInv'
<1>1. ASSUME NEW t \in Sides, NEW i \in Ids, t # s \/ i # id PROVE Gentle(t, i)
  <2>1. /\ stream'[t][i] = stream[t][i] /\ user'[t][i] = user[t][i]
        /\ blocked'[t][i] = blocked[t][i]
    BY <1>1 DEF Others
  <2>2. Calm(wire[Peer(t)], wire'[Peer(t)]) BY PeerFact
  <2>3. active'[t] \subseteq active[t] /\ (aborted[t] => aborted'[t]) OBVIOUS
  <2>4. i \in Range(ready[t]) => i \in Range(ready'[t]) OBVIOUS
  <2> QED BY <2>1, <2>2, <2>3, <2>4, GentleSame
<1>2. \A t \in Sides, i \in Ids : Gentle(t, i)
  <2> TAKE t \in Sides, i \in Ids
  <2> QED BY <1>1
<1> QED BY <1>2, CalmStep

LEMMA WireSame ==
    ASSUME MuxTypeOK, wire' = wire
    PROVE  \A t \in Sides : Calm(wire[t], wire'[t])
<1> TAKE t \in Sides
<1>1. wire[t] \in Seq(Frames) BY DEF MuxTypeOK
<1> QED BY <1>1, CalmSame

(* The ready list after SignalAll(s, ids).                                 *)
Signalled(s, ids) ==
    /\ ready' \in [Sides -> Seq(Ids)]
    /\ \A t \in Sides : Range(ready[t]) \subseteq Range(ready'[t])
    /\ ~aborted[s] => ids \subseteq Range(ready'[s])

LEMMA SignalledFact ==
    ASSUME MuxTypeOK, NEW s \in Sides, NEW ids, ids \subseteq Ids,
           ready' = [ready EXCEPT ![s] = SignalAll(s, ids)]
    PROVE  Signalled(s, ids)
<1>1. ready \in [Sides -> Seq(Ids)] BY DEF MuxTypeOK
<1>2. /\ SignalAll(s, ids) \in Seq(Ids)
      /\ Range(ready[s]) \subseteq Range(SignalAll(s, ids))
      /\ ~aborted[s] => ids \subseteq Range(SignalAll(s, ids))
  BY <1>1, SignalFact
<1>3. ready' \in [Sides -> Seq(Ids)] BY <1>1, <1>2
<1>4. ready'[s] = SignalAll(s, ids) /\ \A t \in Sides : t # s => ready'[t] = ready[t] BY <1>1
<1> QED BY <1>2, <1>3, <1>4 DEF Signalled

LEMMA AppTypes ==
    ASSUME MuxTypeOK, NoApp, stream' \in [Sides -> [Ids -> Streams]],
           ready' \in [Sides -> Seq(Ids)], user' \in [Sides -> [Ids -> Users]],
           blocked' \in [Sides -> [Ids -> BOOLEAN]]
    PROVE  MuxTypeOK'
BY DEF MuxTypeOK, NoApp, maps, conns

(* An operation of the application on a stream it has.                     *)
LEMMA AppStep ==
    ASSUME MuxInv, NoApp, NEW s \in Sides, NEW id \in Ids, NEW st,
           Kept(stream[s][id], st), SetStream(s, id, st), Signalled(s, {}),
           user' \in [Sides -> [Ids -> Users]], Others(user, user', s, id),
           blocked' \in [Sides -> [Ids -> BOOLEAN]], Others(blocked, blocked', s, id),
           ~Future(s, id), ~Unheard(s, id), Woken(s, id)'
    PROVE  MuxInv'
<1>1. MuxTypeOK /\ st \in Streams BY DEF MuxInv, Kept
<1>2. /\ stream' \in [Sides -> [Ids -> Streams]] /\ stream'[s][id] = st
      /\ Others(stream, stream', s, id)
  BY <1>1, SetStreamFact DEF Others
<1>3. MuxTypeOK' BY <1>1, <1>2, AppTypes DEF Signalled
<1>4. /\ nextID' = nextID /\ maxPeer' = maxPeer /\ aborted' = aborted /\ wire' = wire
      /\ active' = active
  BY DEF NoApp, maps, conns
<1>5. \A t \in Sides : active'[t] \subseteq active[t] /\ Calm(wire[t], wire'[t])
  BY <1>1, <1>4, WireSame
<1>6. Gentle(s, id) BY <1>2, <1>3, <1>5, PeerFact, GentleKept
<1>7. \A t \in Sides : Range(ready[t]) \subseteq Range(ready'[t]) BY DEF Signalled
<1> QED BY <1>2, <1>3, <1>4, <1>5, <1>6, <1>7, OneStream

(* The opener of a stream goes on, and nothing else happens.               *)
LEMMA UserStep ==
    ASSUME MuxInv, NoApp, UNCHANGED <<stream, ready, blocked>>,
           NEW s \in Sides, NEW id \in Ids,
           user' \in [Sides -> [Ids -> Users]], Others(user, user', s, id),
           ~Unheard(s, id), Future(s, id) => user'[s][id] \in {"idle", "failed"}
    PROVE  MuxInv'
<1>1. MuxTypeOK BY DEF MuxInv
<1>3. MuxTypeOK' BY <1>1, AppTypes DEF MuxTypeOK
<1>4. /\ nextID' = nextID /\ maxPeer' = maxPeer /\ aborted' = aborted /\ wire' = wire
      /\ active' = active
  BY DEF NoApp, maps, conns
<1>5. \A t \in Sides : active'[t] \subseteq active[t] /\ Calm(wire[t], wire'[t])
  BY <1>1, <1>4, WireSame
<1>6. Gentle(s, id)
  <2>1. /\ BufferOK(stream[s][id]) /\ stream[s][id] \in Streams /\ Woken(s, id)
        /\ FutureInv(s, id)
        /\ \A type \in {"DATA", "WINDOW_UPDATE"} : Total(wire[Peer(s)], id, type) \in Nat
    BY PeerFact, InvFact
  <2>2. stream[s][id].receiveWindow \in Nat /\ stream[s][id].sendWindow \in Nat
    BY <2>1 DEF Streams
  <2>3. Woken(s, id)' BY <1>4, <2>1 DEF Woken
  <2>4. /\ Total(wire[Peer(s)], id, "DATA")' + stream[s][id].receiveWindow
             <= Total(wire[Peer(s)], id, "DATA") + stream'[s][id].receiveWindow
        /\ stream'[s][id].sendWindow + Total(wire[Peer(s)], id, "WINDOW_UPDATE")'
             <= stream[s][id].sendWindow + Total(wire[Peer(s)], id, "WINDOW_UPDATE")
    BY <1>4, <2>1, <2>2
  <2>5. Future(s, id) => /\ ~blocked'[s][id]
                         /\ user'[s][id] \in {"idle", "requesting", "failed"}
                         /\ user'[s][id] # "requesting"
    BY <2>1 DEF FutureInv
  <2> QED BY <2>1, <2>3, <2>4, <2>5 DEF Gentle
<1>7. /\ \A t \in Sides : Range(ready[t]) \subseteq Range(ready'[t])
      /\ Others(stream, stream', s, id) /\ Others(blocked, blocked', s, id)
  BY DEF Others
<1> QED BY <1>3, <1>4, <1>5, <1>6, <1>7, OneStream

LEMMA CloseStreamsFact ==
    ASSUME MuxTypeOK, NEW s \in Sides, NEW ids, ids \subseteq Ids, CloseStreams(s, ids)
    PROVE  /\ stream' \in [Sides -> [Ids -> Streams]]
           /\ \A i \in ids : stream'[s][i] = Close(stream[s][i])
           /\ \A t \in Sides, i \in Ids : t # s \/ i \notin ids => stream'[t][i] = stream[t][i]
           /\ Signalled(s, {i \in ids : CloseWriteNotifies(stream[s][i])})
<1>1. stream \in [Sides -> [Ids -> Streams]] BY DEF MuxTypeOK
<1>2. \A i \in Ids : Close(stream[s][i]) \in Streams BY <1>1, CloseFact DEF Kept
<1>3. stream' = [stream EXCEPT ![s] = [i \in Ids |->
                    IF i \in ids THEN Close(stream[s][i]) ELSE stream[s][i]]]
  BY DEF CloseStreams
<1>4. stream' \in [Sides -> [Ids -> Streams]] BY <1>1, <1>2, <1>3
<1>5. stream'[s] = [i \in Ids |-> IF i \in ids THEN Close(stream[s][i]) ELSE stream[s][i]]
  BY <1>1, <1>3
<1>6. \A t \in Sides : t # s => stream'[t] = stream[t] BY <1>1, <1>3
<1>7. Signalled(s, {i \in ids : CloseWriteNotifies(stream[s][i])})
  BY SignalledFact DEF CloseStreams
<1> QED BY <1>4, <1>5, <1>6, <1>7

LEMMA CloseStep ==
    ASSUME MuxInv, MuxTypeOK', NEW s \in Sides, NEW ids, ids \subseteq Ids,
           CloseStreams(s, ids), \A i \in ids : ~Future(s, i) /\ ~Unheard(s, i),
           nextID' = nextID, maxPeer' = maxPeer, aborted' = aborted, blocked' = blocked,
           \A t \in Sides : active'[t] \subseteq active[t] /\ Calm(wire[t], wire'[t]),
           \A t \in Sides, i \in Ids : t # s \/ i \notin ids => user'[t][i] = user[t][i]
    PROVE  MuxInv'
<1>1. MuxTypeOK BY DEF MuxInv
<1>2. /\ \A i \in ids : stream'[s][i] = Close(stream[s][i])
      /\ \A t \in Sides, i \in Ids : t # s \/ i \notin ids => stream'[t][i] = stream[t][i]
      /\ Signalled(s, {i \in ids : CloseWriteNotifies(stream[s][i])})
  BY <1>1, CloseStreamsFact
<1>3. \A t \in Sides : Range(ready[t]) \subseteq Range(ready'[t]) BY <1>2 DEF Signalled
<1>4. ASSUME NEW i \in ids PROVE Gentle(s, i)
  <2>1. stream[s][i] \in Streams /\ Woken(s, i) BY InvFact
  <2>2. stream'[s][i] = Close(stream[s][i]) BY <1>2
  <2>3. /\ Kept(stream[s][i], stream'[s][i])
        /\ Signs(stream[s][i]) => Signs(stream'[s][i])
        /\ ~CloseWriteNotifies(stream[s][i]) /\ HasWork(stream'[s][i]) => HasWork(stream[s][i])
    BY <2>1, <2>2, CloseFact
  <2>4. CloseWriteNotifies(stream[s][i]) /\ ~aborted[s] => i \in Range(ready'[s])
    BY <1>2 DEF Signalled
  <2>5. active'[s] \subseteq active[s] OBVIOUS
  <2>6. Woken(s, i)' BY <1>3, <2>1, <2>3, <2>4, <2>5 DEF Woken, Signs
  <2>7. Calm(wire[Peer(s)], wire'[Peer(s)]) BY PeerFact
  <2> QED BY <2>3, <2>5, <2>6, <2>7, GentleKept
<1>5. ASSUME NEW t \in Sides, NEW i \in Ids, t # s \/ i \notin ids PROVE Gentle(t, i)
  <2>1. stream'[t][i] = stream[t][i] /\ user'[t][i] = user[t][i] BY <1>2, <1>5
  <2>2. Calm(wire[Peer(t)], wire'[Peer(t)]) BY PeerFact
  <2>3. i \in Range(ready[t]) => i \in Range(ready'[t]) BY <1>3
  <2>4. active'[t] \subseteq active[t] /\ (aborted[t] => aborted'[t])
        /\ blocked'[t][i] = blocked[t][i]
    OBVIOUS
  <2> QED BY <2>1, <2>2, <2>3, <2>4, GentleSame
<1>6. \A t \in Sides, i \in Ids : Gentle(t, i)
  <2> TAKE t \in Sides, i \in Ids
  <2> QED BY <1>4, <1>5
<1> QED BY <1>6, CalmStep

-----------------------------------------------------------------------------
(* The actions of the applications.                                        *)

(* Who uses a stream has it: its opener once it is past nextID, a handler  *)
(* once it is accepted.                                                    *)
LEMMA Taken ==
    ASSUME MuxInv, NEW s \in Sides, NEW id \in Ids
    PROVE  /\ user[s][id] # "idle" \/ blocked[s][id] \/ id \in active[s] => ~Unheard(s, id)
           /\ \/ user[s][id] \notin {"idle", "requesting", "failed"} \/ blocked[s][id]
              \/ id \in active[s] \/ id < nextID[s]
              => ~Future(s, id)
<1>1. FutureInv(s, id) /\ UnheardInv(s, id) /\ MuxTypeOK BY InvFact
<1>2. id \in Nat /\ nextID[s] \in Nat BY <1>1 DEF MuxTypeOK, Ids
<1>3. id < nextID[s] => ~Future(s, id) BY <1>2 DEF Future
<1> QED BY <1>1, <1>3 DEF FutureInv, UnheardInv

LEMMA UserSet ==
    ASSUME MuxTypeOK, NEW s \in Sides, NEW id \in Ids, NEW u \in Users,
           user' = [user EXCEPT ![s][id] = u]
    PROVE  /\ user' \in [Sides -> [Ids -> Users]] /\ user'[s][id] = u
           /\ Others(user, user', s, id)
BY DEF MuxTypeOK, Others

LEMMA OpenStreamKeeps ==
    ASSUME MuxInv, NEW s \in Sides, NEW id \in Ids, OpenStream(s, id)
    PROVE  MuxInv'
<1> DEFINE p == Peer(s)
<1>0. p \in Sides /\ Peer(p) = s BY PeerFact
<1>1. MuxTypeOK /\ Future(s, id) BY DEF MuxInv, OpenStream, Future, Local
<1>2. NewStream(TRUE) \in Streams /\ Unused(NewStream(TRUE)) /\ BufferOK(NewStream(TRUE))
  BY NewStreamFact
<1>3. /\ stream' \in [Sides -> [Ids -> Streams]] /\ stream'[s][id] = NewStream(TRUE)
      /\ Others(stream, stream', s, id)
  BY <1>1, <1>2, SetStreamFact DEF OpenStream, Others
<1>4. /\ user' \in [Sides -> [Ids -> Users]] /\ user'[s][id] = "requesting"
      /\ Others(user, user', s, id)
  BY <1>1 DEF OpenStream, MuxTypeOK, Users, Others
<1>5. UNCHANGED <<ready, blocked>> /\ NoApp BY DEF OpenStream
<1>6. MuxTypeOK' BY <1>1, <1>3, <1>4, <1>5, AppTypes DEF MuxTypeOK
<1>7. /\ nextID' = nextID /\ maxPeer' = maxPeer /\ aborted' = aborted /\ wire' = wire
      /\ active' = active
  BY <1>5 DEF NoApp, maps, conns
<1>8. \A t \in Sides : active'[t] \subseteq active[t] /\ Calm(wire[t], wire'[t])
  BY <1>1, <1>7, WireSame
<1>9. Gentle(s, id)
  <2>1. FutureInv(s, id) /\ UnheardInv(p, id)
        /\ \A type \in {"DATA", "WINDOW_UPDATE"} : Total(wire[p], id, type) \in Nat
    BY <1>0, InvFact
  <2>2. ~IsPeerStreamID(s, id) /\ IsPeerStreamID(p, id) BY <1>1, ParityFact DEF Future
  <2>3. id \notin active[s] /\ id > maxPeer[p] /\ ~blocked[s][id]
    BY <1>1, <2>1 DEF FutureInv
  <2>4. Unused(stream[s][id]) BY <1>0, <2>1, <2>2, <2>3 DEF UnheardInv, Unheard
  <2>5. stream'[s][id].receiveWindow = stream[s][id].receiveWindow
        /\ stream[s][id].receiveWindow \in Nat
    BY <1>2, <1>3, <2>4, WindowAssumption DEF Unused
  <2>6. Total(wire[p], id, "DATA")' + stream[s][id].receiveWindow
             <= Total(wire[p], id, "DATA") + stream'[s][id].receiveWindow
    BY <1>7, <2>1, <2>5
  <2>7. Woken(s, id)' BY <1>5, <1>7, <2>3 DEF Woken
  <2>8. ~Unheard(s, id) BY <2>2 DEF Unheard
  <2> QED BY <1>2, <1>3, <1>4, <1>5, <1>7, <2>3, <2>6, <2>7, <2>8 DEF Gentle
<1>10. /\ \A t \in Sides : Range(ready[t]) \subseteq Range(ready'[t])
       /\ Others(blocked, blocked', s, id)
  BY <1>5 DEF Others
<1> QED BY <1>3, <1>4, <1>6, <1>7, <1>8, <1>9, <1>10, OneStream

LEMMA OpenStreamReturnsKeeps ==
    ASSUME MuxInv, NEW s \in Sides, NEW id \in Ids, OpenStreamReturns(s, id)
    PROVE  MuxInv'
<1>1. MuxTypeOK BY DEF MuxInv
<1>2. UNCHANGED <<stream, ready, blocked>> /\ NoApp BY DEF OpenStreamReturns
<1>3. user[s][id] # "idle" BY DEF OpenStreamReturns
<1>4. user' \in [Sides -> [Ids -> Users]] /\ Others(user, user', s, id)
  <2>1. PICK u \in {"open", "failed"} : user' = [user EXCEPT ![s][id] = u]
    BY DEF OpenStreamReturns
  <2> QED BY <1>1, <2>1, UserSet DEF Users
<1>5. Future(s, id) => user'[s][id] \in {"idle", "failed"}
  <2>1. user[s][id] = "awaiting" => ~Future(s, id) BY Taken
  <2>2. user[s][id] = "awaiting" \/ user'[s][id] = "failed"
    BY <1>1 DEF OpenStreamReturns, MuxTypeOK
  <2> QED BY <2>1, <2>2
<1>6. ~Unheard(s, id) BY <1>3, Taken
<1> QED BY <1>2, <1>4, <1>5, <1>6, UserStep

LEMMA OpenStreamTimesOutKeeps ==
    ASSUME MuxInv, NEW s \in Sides, NEW id \in Ids, OpenStreamTimesOut(s, id)
    PROVE  MuxInv'
<1>1. MuxTypeOK BY DEF MuxInv
<1>2. blocked' = blocked /\ NoApp BY DEF OpenStreamTimesOut
<1>3. user[s][id] # "idle" BY DEF OpenStreamTimesOut
<1>4. /\ user' \in [Sides -> [Ids -> Users]] /\ Others(user, user', s, id)
      /\ user[s][id] = "requesting" => user'[s][id] = "idle"
  <2>1. PICK u \in {"idle", "failed", "done"} :
          user' = [user EXCEPT ![s][id] = u] /\ (user[s][id] = "requesting" => u = "idle")
    BY DEF OpenStreamTimesOut
  <2> QED BY <1>1, <2>1, UserSet DEF Users
<1>5. user[s][id] \in {"requesting", "awaiting", "refused"} BY DEF OpenStreamTimesOut
<1>6. user[s][id] # "requesting" => ~Future(s, id) BY <1>5, Taken
<1>7. ~Unheard(s, id) BY <1>3, Taken
<1>8. CASE UNCHANGED <<stream, ready>>
  BY <1>2, <1>4, <1>6, <1>7, <1>8, UserStep
<1>9. CASE user[s][id] # "requesting" /\ CloseStreams(s, {id})
  <2>1. /\ stream' \in [Sides -> [Ids -> Streams]]
        /\ Signalled(s, {i \in {id} : CloseWriteNotifies(stream[s][i])})
    BY <1>1, <1>9, CloseStreamsFact
  <2>2. MuxTypeOK' BY <1>1, <1>2, <1>4, <2>1, AppTypes DEF Signalled, MuxTypeOK
  <2>3. /\ nextID' = nextID /\ maxPeer' = maxPeer /\ aborted' = aborted /\ wire' = wire
        /\ active' = active
    BY <1>2 DEF NoApp, maps, conns
  <2>4. \A t \in Sides : active'[t] \subseteq active[t] /\ Calm(wire[t], wire'[t])
    BY <1>1, <2>3, WireSame
  <2>5. \A i \in {id} : ~Future(s, i) /\ ~Unheard(s, i) BY <1>6, <1>7, <1>9
  <2>6. \A t \in Sides, i \in Ids : t # s \/ i \notin {id} => user'[t][i] = user[t][i]
    BY <1>4 DEF Others
  <2> QED BY <1>2, <1>9, <2>2, <2>3, <2>4, <2>5, <2>6, CloseStep
<1> QED BY <1>8, <1>9 DEF OpenStreamTimesOut

LEMMA SameApps ==
    ASSUME MuxTypeOK, NEW s \in Sides, NEW id \in Ids
    PROVE  /\ user' = user => /\ user' \in [Sides -> [Ids -> Users]]
                              /\ Others(user, user', s, id)
           /\ blocked' = blocked => /\ blocked' \in [Sides -> [Ids -> BOOLEAN]]
                                    /\ Others(blocked, blocked', s, id)
           /\ ready' = ready => Signalled(s, {})
BY DEF MuxTypeOK, Others, Signalled

(* An operation that signals the writer.                                   *)
LEMMA SignalStep ==
    ASSUME MuxInv, NoApp, NEW s \in Sides, NEW id \in Ids, NEW st,
           Kept(stream[s][id], st), Signs(stream[s][id]) => Signs(st),
           SetStream(s, id, st), Signal(s, id), UNCHANGED <<user, blocked>>,
           ~Future(s, id), ~Unheard(s, id)
    PROVE  MuxInv'
<1>1. MuxTypeOK /\ Woken(s, id) /\ st \in Streams BY InvFact DEF Kept
<1>2. Signalled(s, {id}) BY <1>1, SignalledFact DEF Signal
<1>3. stream'[s][id] = st BY <1>1, SetStreamFact
<1>4. aborted' = aborted BY DEF NoApp, conns
<1>5. Woken(s, id)' BY <1>1, <1>2, <1>3, <1>4 DEF Woken, Signs, Signalled
<1>6. Signalled(s, {}) BY <1>2 DEF Signalled
<1> QED BY <1>1, <1>5, <1>6, SameApps, AppStep

LEMMA AppWriteKeeps ==
    ASSUME MuxInv, NEW s \in Sides, NEW id \in Ids, AppWrite(s, id)
    PROVE  MuxInv'
<1> DEFINE st == stream[s][id]
<1>1. MuxTypeOK /\ st \in Streams BY InvFact
<1>2. ~Future(s, id) /\ ~Unheard(s, id)
  <2>1. user[s][id] # "idle" /\ (user[s][id] = "serving" \/ id < nextID[s])
    BY DEF AppWrite, Uses, Flushes
  <2> QED BY <2>1, Taken
<1>3. NoApp /\ user' = user BY DEF AppWrite
<1>4. CASE SetStream(s, id, WriteByte(st)) /\ Signal(s, id) /\ blocked' = blocked
  <2>1. Kept(st, WriteByte(st)) /\ (Signs(st) => Signs(WriteByte(st)))
    BY <1>1, WriteByteFact
  <2> QED BY <1>2, <1>3, <1>4, <2>1, SignalStep
<1>5. CASE /\ ~st.writeEOF /\ WriteBufferFull(st)
           /\ blocked' = [blocked EXCEPT ![s][id] = TRUE] /\ UNCHANGED <<stream, ready>>
  <2>1. blocked' \in [Sides -> [Ids -> BOOLEAN]] /\ Others(blocked, blocked', s, id)
    BY <1>1, <1>5 DEF MuxTypeOK, Others
  <2>2. Kept(st, st) BY <1>1 DEF Kept
  <2>3. SetStream(s, id, st)
    <3>1. stream \in [Sides -> [Ids -> Streams]] BY <1>1 DEF MuxTypeOK
    <3>2. stream = [stream EXCEPT ![s][id] = stream[s][id]] BY <3>1
    <3> QED BY <1>5, <3>2 DEF SetStream
  <2>4. Signalled(s, {}) BY <1>1, <1>5, SameApps
  <2>5. user' \in [Sides -> [Ids -> Users]] /\ Others(user, user', s, id)
    BY <1>1, <1>3, SameApps
  <2>6. aborted' = aborted /\ active' = active BY <1>3 DEF NoApp, conns, maps
  <2>7. Woken(s, id)
    BY InvFact
  <2>8. Woken(s, id)' BY <1>5, <2>6, <2>7 DEF Woken
  <2> QED BY <1>2, <1>3, <2>1, <2>2, <2>3, <2>4, <2>5, <2>8, AppStep
<1> QED BY <1>4, <1>5 DEF AppWrite

LEMMA AppWriteWakesKeeps ==
    ASSUME MuxInv, NEW s \in Sides, NEW id \in Ids, AppWriteWakes(s, id)
    PROVE  MuxInv'
<1> DEFINE st == stream[s][id]
           r == [st EXCEPT !.hasSpace = FALSE]
<1>1. MuxTypeOK /\ st \in Streams /\ Woken(s, id) BY InvFact
<1>2. ~Future(s, id) /\ ~Unheard(s, id) BY Taken DEF AppWriteWakes
<1>3. NoApp /\ user' = user /\ ready' = ready /\ SetStream(s, id, r) BY DEF AppWriteWakes
<1>4. blocked' = [blocked EXCEPT ![s][id] = WriteBufferFull(st) /\ ~st.writeEOF]
  BY DEF AppWriteWakes
<1>5. /\ Kept(st, r) /\ (HasWork(r) => HasWork(st)) /\ r.writeEOF = st.writeEOF
      /\ WriteBufferFull(r) <=> WriteBufferFull(st)
  BY <1>1, TokenFact
<1>6. /\ blocked' \in [Sides -> [Ids -> BOOLEAN]] /\ Others(blocked, blocked', s, id)
      /\ blocked'[s][id] => WriteBufferFull(st) /\ ~st.writeEOF
  <2>1. (WriteBufferFull(st) /\ ~st.writeEOF) \in BOOLEAN OBVIOUS
  <2> QED BY <1>1, <1>4, <2>1 DEF MuxTypeOK, Others
<1>7. Signalled(s, {}) /\ user' \in [Sides -> [Ids -> Users]] /\ Others(user, user', s, id)
  BY <1>1, <1>3, SameApps
<1> HIDE DEF r
<1>8. r \in Streams BY <1>5 DEF Kept
<1>9. stream'[s][id] = r BY <1>1, <1>3, <1>8, SetStreamFact
<1>10. aborted' = aborted /\ active' = active BY <1>3 DEF NoApp, conns, maps
<1>11. Woken(s, id)' BY <1>1, <1>3, <1>5, <1>6, <1>9, <1>10 DEF Woken
<1> QED BY <1>2, <1>3, <1>5, <1>6, <1>7, <1>11, AppStep

LEMMA AppSignals ==
    ASSUME MuxInv, NEW s \in Sides, NEW id \in Ids,
           AppWriteHeaders(s, id) \/ AppRead(s, id) \/ AppCloseWrite(s, id)
    PROVE  MuxInv'
<1> DEFINE st == stream[s][id]
<1>1. st \in Streams BY InvFact
<1>2. ~Future(s, id) /\ ~Unheard(s, id)
  <2>1. user[s][id] # "idle" /\ (user[s][id] \in {"serving", "open"} \/ id < nextID[s])
    BY DEF AppWriteHeaders, AppRead, AppCloseWrite, Flushes
  <2> QED BY <2>1, Taken
<1>3. NoApp /\ Signal(s, id) /\ UNCHANGED <<user, blocked>>
  BY DEF AppWriteHeaders, AppRead, AppCloseWrite, apps
<1>4. PICK op \in {WriteHeaders(st), ReadAll(st), CloseWrite(st)} : SetStream(s, id, op)
  BY DEF AppWriteHeaders, AppRead, AppCloseWrite
<1>5. Kept(st, op) /\ (Signs(st) => Signs(op))
  BY <1>1, HeadersFact, ReadAllFact, CloseWriteFact
<1> QED BY <1>2, <1>3, <1>4, <1>5, SignalStep

LEMMA AppCloseKeeps ==
    ASSUME MuxInv, NEW s \in Sides, NEW id \in Ids, AppClose(s, id)
    PROVE  MuxInv'
<1> DEFINE st == stream[s][id]
           c == CloseWrite(st)
           ids == {i \in {id} : CloseWriteNotifies(st)}
<1>1. MuxTypeOK /\ st \in Streams /\ Woken(s, id) BY InvFact
<1>2. ~Future(s, id) /\ ~Unheard(s, id)
  <2>1. user[s][id] \in {"serving", "open"} BY DEF AppClose
  <2> QED BY <2>1, Taken
<1>3. /\ NoApp /\ blocked' = blocked /\ SetStream(s, id, c)
      /\ ready' = [ready EXCEPT ![s] = SignalAll(s, ids)]
  BY DEF AppClose
<1>4. user' \in [Sides -> [Ids -> Users]] /\ Others(user, user', s, id)
  BY <1>1 DEF AppClose, MuxTypeOK, Users, Others
<1>5. blocked' \in [Sides -> [Ids -> BOOLEAN]] /\ Others(blocked, blocked', s, id)
  BY <1>1, <1>3, SameApps
<1>6. Kept(st, c) /\ (Signs(st) => Signs(c)) /\ (~CloseWriteNotifies(st) => c = st)
  BY <1>1, CloseWriteFact
<1>7. Signalled(s, ids)
  <2>1. ids \subseteq Ids OBVIOUS
  <2> HIDE DEF ids
  <2> QED BY <1>1, <1>3, <2>1, SignalledFact
<1>8. c \in Streams BY <1>6 DEF Kept
<1> HIDE DEF c
<1>9. stream'[s][id] = c BY <1>1, <1>3, <1>8, SetStreamFact
<1>10. aborted' = aborted /\ active' = active BY <1>3 DEF NoApp, conns, maps
<1>11. Woken(s, id)'
  <2>1. CASE CloseWriteNotifies(st)
    <3>1. ~aborted[s] => id \in Range(ready'[s]) BY <1>7, <2>1 DEF Signalled
    <3> QED BY <1>1, <1>3, <1>6, <1>9, <1>10, <3>1 DEF Woken, Signs
  <2>2. CASE ~CloseWriteNotifies(st)
    <3>1. stream'[s][id] = stream[s][id] BY <1>6, <1>9, <2>2
    <3>2. Range(ready[s]) \subseteq Range(ready'[s]) BY <1>7 DEF Signalled
    <3> QED BY <1>1, <1>3, <1>10, <3>1, <3>2 DEF Woken
  <2> QED BY <2>1, <2>2
<1>12. Signalled(s, {}) BY <1>7 DEF Signalled
<1> QED BY <1>2, <1>3, <1>4, <1>5, <1>6, <1>11, <1>12, AppStep

LEMMA AppCloseReadKeeps ==
    ASSUME MuxInv, NEW s \in Sides, NEW id \in Ids, AppCloseRead(s, id)
    PROVE  MuxInv'
<1> DEFINE st == stream[s][id]
           c == CloseRead(st)
<1>1. MuxTypeOK /\ st \in Streams /\ Woken(s, id) BY InvFact
<1>2. ~Future(s, id) /\ ~Unheard(s, id)
  <2>1. user[s][id] = "closing" BY DEF AppCloseRead
  <2> QED BY <2>1, Taken
<1>3. NoApp /\ blocked' = blocked /\ ready' = ready /\ SetStream(s, id, c)
  BY DEF AppCloseRead
<1>4. user' \in [Sides -> [Ids -> Users]] /\ Others(user, user', s, id)
  BY <1>1 DEF AppCloseRead, MuxTypeOK, Users, Others
<1>5. /\ blocked' \in [Sides -> [Ids -> BOOLEAN]] /\ Others(blocked, blocked', s, id)
      /\ Signalled(s, {})
  BY <1>1, <1>3, SameApps
<1>6. Kept(st, c) /\ (Signs(st) => Signs(c)) /\ (HasWork(c) => HasWork(st))
  BY <1>1, CloseReadFact
<1>8. c \in Streams BY <1>6 DEF Kept
<1> HIDE DEF c
<1>9. stream'[s][id] = c BY <1>1, <1>3, <1>8, SetStreamFact
<1>10. aborted' = aborted /\ active' = active BY <1>3 DEF NoApp, conns, maps
<1>11. Woken(s, id)' BY <1>1, <1>3, <1>6, <1>9, <1>10 DEF Woken, Signs
<1> QED BY <1>2, <1>3, <1>4, <1>5, <1>6, <1>11, AppStep

LEMMA AppKeeps ==
    ASSUME MuxInv, NEW s \in Sides, App(s) PROVE MuxInv'
<1>1. PICK id \in Ids :
        \/ OpenStream(s, id) \/ OpenStreamReturns(s, id)
        \/ OpenStreamTimesOut(s, id) \/ AppWrite(s, id)
        \/ AppWriteWakes(s, id) \/ AppWriteHeaders(s, id) \/ AppRead(s, id)
        \/ AppCloseWrite(s, id) \/ AppClose(s, id) \/ AppCloseRead(s, id)
  BY DEF App
<1> QED BY <1>1, OpenStreamKeeps, OpenStreamReturnsKeeps, OpenStreamTimesOutKeeps,
           AppWriteKeeps, AppWriteWakesKeeps, AppSignals, AppCloseKeeps, AppCloseReadKeeps

-----------------------------------------------------------------------------
(* Steps that touch no stream.                                             *)
LEMMA StillStep ==
    ASSUME MuxInv, MuxTypeOK', nextID' = nextID, maxPeer' = maxPeer,
           UNCHANGED <<stream, user, blocked, aborted>>,
           \A t \in Sides : active'[t] \subseteq active[t] /\ Calm(wire[t], wire'[t]),
           \A t \in Sides, i \in Ids :
              i \in Range(ready[t]) /\ i \in active'[t] => i \in Range(ready'[t])
    PROVE  MuxInv'
<1>1. ASSUME NEW t \in Sides, NEW i \in Ids PROVE Gentle(t, i)
  <2>1. Calm(wire[Peer(t)], wire'[Peer(t)]) BY PeerFact
  <2>2. /\ active'[t] \subseteq active[t] /\ (aborted[t] => aborted'[t])
        /\ stream'[t][i] = stream[t][i] /\ user'[t][i] = user[t][i]
        /\ blocked'[t][i] = blocked[t][i]
        /\ i \in Range(ready[t]) /\ i \in active'[t] => i \in Range(ready'[t])
    OBVIOUS
  <2> QED BY <2>1, <2>2, GentleSame
<1> QED BY <1>1, CalmStep

LEMMA SendFact ==
    ASSUME MuxTypeOK, NEW s \in Sides, NEW frames \in Seq(Controls), Send(s, frames)
    PROVE  /\ wire' \in [Sides -> Seq(Frames)]
           /\ \A t \in Sides : Calm(wire[t], wire'[t])
<1>1. wire \in [Sides -> Seq(Frames)] BY DEF MuxTypeOK
<1> DEFINE w == IF conn[Peer(s)] /\ ~stalled THEN wire[s] \o frames ELSE wire[s]
<1>2. w \in Seq(Frames) /\ Calm(wire[s], w) BY <1>1, CalmControl, CalmSame
<1>3. wire' = [wire EXCEPT ![s] = w] BY DEF Send
<1> HIDE DEF w
<1>4. wire'[s] = w /\ \A t \in Sides : t # s => wire'[t] = wire[t] BY <1>1, <1>3
<1>5. wire' \in [Sides -> Seq(Frames)] BY <1>1, <1>2, <1>3
<1>6. \A t \in Sides : Calm(wire[t], wire'[t])
  <2> TAKE t \in Sides
  <2>1. wire[t] \in Seq(Frames) BY <1>1
  <2>2. Calm(wire[t], wire[t]) BY <2>1, CalmSame
  <2> QED BY <1>2, <1>4, <2>2
<1> QED BY <1>5, <1>6

(* The wire to s is emptied.                                               *)
LEMMA EmptiedFact ==
    ASSUME MuxTypeOK, NEW s \in Sides, wire' = [wire EXCEPT ![Peer(s)] = <<>>]
    PROVE  /\ wire' \in [Sides -> Seq(Frames)]
           /\ \A t \in Sides : Calm(wire[t], wire'[t])
<1>1. wire \in [Sides -> Seq(Frames)] /\ Peer(s) \in Sides BY PeerFact DEF MuxTypeOK
<1>2. wire' \in [Sides -> Seq(Frames)]
  <2>1. <<>> \in Seq(Frames) OBVIOUS
  <2> QED BY <1>1, <2>1
<1>3. \A t \in Sides : Calm(wire[t], wire'[t])
  <2> TAKE t \in Sides
  <2>1. wire[t] \in Seq(Frames) /\ (wire'[t] = wire[t] \/ wire'[t] = <<>>) BY <1>1
  <2> QED BY <2>1, CalmSame, CalmEmpty
<1> QED BY <1>2, <1>3

(* The first frame for s is taken off the wire.                            *)
LEMMA ReceivesFact ==
    ASSUME MuxTypeOK, NEW s \in Sides, NEW type, Receives(s, type)
    PROVE  /\ wire' \in [Sides -> Seq(Frames)]
           /\ \A t \in Sides : Calm(wire[t], wire'[t])
           /\ Frame(s) \in Frames /\ Frame(s).type = type /\ Frame(s) \in Range(wire[Peer(s)])
           /\ wire'[s] = wire[s]
           /\ wire[Peer(s)] # <<>> /\ wire'[Peer(s)] = Tail(wire[Peer(s)])
           /\ UNCHANGED <<writer, writing, reader, aborted, conn, fault, stalled>>
<1> DEFINE w == wire[Peer(s)]
<1>1. wire \in [Sides -> Seq(Frames)] /\ Peer(s) \in Sides /\ Peer(s) # s
  BY PeerFact DEF MuxTypeOK
<1>2. w \in Seq(Frames) /\ w # <<>> BY <1>1 DEF Receives
<1>3. Calm(w, Tail(w)) /\ Tail(w) \in Seq(Frames) /\ Head(w) \in Range(w) BY <1>2, CalmTail
<1>4. wire' = [wire EXCEPT ![Peer(s)] = Tail(w)] /\ Head(w).type = type BY DEF Receives
<1>5. Head(w) \in Frames BY <1>2
<1> HIDE DEF w
<1>6. wire'[s] = wire[s] /\ wire'[Peer(s)] = Tail(w) BY <1>1, <1>4
<1>7. wire' \in [Sides -> Seq(Frames)] BY <1>1, <1>3, <1>4
<1>8. \A t \in Sides : Calm(wire[t], wire'[t])
  <2> TAKE t \in Sides
  <2>1. t = s \/ t = Peer(s) BY PeerFact
  <2>2. wire[s] \in Seq(Frames) BY <1>1
  <2>3. Calm(wire[s], wire[s]) BY <2>2, CalmSame
  <2> QED BY <1>3, <1>6, <2>1, <2>3 DEF w
<1>9. UNCHANGED <<writer, writing, reader, aborted, conn, fault, stalled>>
  BY DEF Receives, conns
<1> QED BY <1>2, <1>3, <1>4, <1>5, <1>6, <1>7, <1>8, <1>9 DEF w, Frame

LEMMA DeleteFact ==
    ASSUME MuxTypeOK, NEW s \in Sides, NEW id, Delete(s, id)
    PROVE  /\ active' \in [Sides -> SUBSET Ids]
           /\ \A t \in Sides : active'[t] \subseteq active[t]
           /\ nextID' = nextID /\ maxPeer' = maxPeer
BY DEF MuxTypeOK, Delete

LEMMA WriterAfterEOFKeeps ==
    ASSUME MuxInv, NEW s \in Sides, WriterAfterEOF(s) PROVE MuxInv'
<1> DEFINE id == writing[s]
<1>1. MuxTypeOK BY DEF MuxInv
<1>2. id \in Ids BY <1>1 DEF MuxTypeOK, WriterAfterEOF
<1>3. /\ UNCHANGED <<stream, ready, errors, aborted, user, blocked>>
      /\ writer' = [writer EXCEPT ![s] = "loop"] /\ writing' = [writing EXCEPT ![s] = 0]
  BY DEF WriterAfterEOF, apps
<1>4. /\ active' \in [Sides -> SUBSET Ids] /\ nextID' = nextID /\ maxPeer' = maxPeer
      /\ \A t \in Sides : active'[t] \subseteq active[t]
  <2>1. Delete(s, id) \/ UNCHANGED maps BY DEF WriterAfterEOF
  <2>2. UNCHANGED maps => active' = active /\ nextID' = nextID /\ maxPeer' = maxPeer
    BY DEF maps
  <2>3. active \in [Sides -> SUBSET Ids] BY <1>1 DEF MuxTypeOK
  <2> QED BY <1>1, <2>1, <2>2, <2>3, DeleteFact
<1>5. wire' \in [Sides -> Seq(Frames)] /\ \A t \in Sides : Calm(wire[t], wire'[t])
  <2> DEFINE r == [type |-> "RST_STREAM", id |-> id]
  <2>1. wire' = wire \/ Send(s, <<r>>) BY DEF WriterAfterEOF
  <2>2. r \in Controls BY <1>2 DEF Controls
  <2> HIDE DEF r
  <2>3. <<r>> \in Seq(Controls) BY <2>2
  <2>4. wire \in [Sides -> Seq(Frames)] BY <1>1 DEF MuxTypeOK
  <2> QED BY <1>1, <2>1, <2>3, <2>4, SendFact, WireSame
<1>6. MuxTypeOK' BY <1>1, <1>3, <1>4, <1>5 DEF MuxTypeOK
<1> QED BY <1>3, <1>4, <1>5, <1>6, StillStep

LEMMA WriterSendsKeeps ==
    ASSUME MuxInv, NEW s \in Sides, WriterGoAway(s) \/ WriterErrors(s) PROVE MuxInv'
<1>1. MuxTypeOK BY DEF MuxInv
<1>2. /\ UNCHANGED <<stream, ready, aborted, user, blocked, active, nextID, maxPeer>>
      /\ UNCHANGED <<writer, writing>>
  BY DEF WriterGoAway, WriterErrors, apps, maps, conns
<1>3. wire' \in [Sides -> Seq(Frames)] /\ \A t \in Sides : Calm(wire[t], wire'[t])
  <2>1. CASE WriterGoAway(s)
    <3> DEFINE g == [type |-> "GOAWAY", id |-> maxPeer[s]]
    <3>1. Send(s, <<g>>) BY <2>1 DEF WriterGoAway
    <3>2. g \in Controls BY <1>1 DEF Controls, MuxTypeOK
    <3> HIDE DEF g
    <3>3. <<g>> \in Seq(Controls) BY <3>2
    <3> QED BY <1>1, <3>1, <3>3, SendFact
  <2>2. CASE WriterErrors(s)
    <3> DEFINE fs == SetToSeq({[type |-> "RST_STREAM", id |-> e.id] : e \in errors[s]})
    <3>1. Send(s, fs) BY <2>2 DEF WriterErrors
    <3>2. errors[s] \subseteq [id : Ids, code : ErrorCodes] BY <1>1 DEF MuxTypeOK
    <3>3. fs \in Seq(Controls) BY <3>2, ResetsFact
    <3> HIDE DEF fs
    <3> QED BY <1>1, <3>1, <3>3, SendFact
  <2> QED BY <2>1, <2>2
<1>4. errors' \in [Sides -> SUBSET [id : Ids, code : ErrorCodes]]
  BY <1>1 DEF WriterGoAway, WriterErrors, MuxTypeOK
<1>5. MuxTypeOK' BY <1>1, <1>2, <1>3, <1>4 DEF MuxTypeOK
<1> QED BY <1>2, <1>3, <1>5, StillStep

(* Shutdown, CloseWhenEmpty and Stall: the maps of streams stay.           *)
LEMMA EndsKeep ==
    ASSUME MuxInv, NEW s \in Sides, Shutdown(s) \/ CloseWhenEmpty(s) \/ Stall
    PROVE  MuxInv'
<1>1. MuxTypeOK BY DEF MuxInv
<1>2. /\ UNCHANGED <<stream, ready, aborted, user, blocked, active, nextID, maxPeer>>
      /\ UNCHANGED <<writer, writing, errors>>
  BY DEF Shutdown, CloseWhenEmpty, Stall, apps, maps
<1>3. wire' \in [Sides -> Seq(Frames)] /\ \A t \in Sides : Calm(wire[t], wire'[t])
  <2>0. wire \in [Sides -> Seq(Frames)] BY <1>1 DEF MuxTypeOK
  <2>1. CASE Shutdown(s) BY <1>1, <2>0, <2>1, WireSame DEF Shutdown
  <2>2. CASE CloseWhenEmpty(s) BY <1>1, <2>2, EmptiedFact DEF CloseWhenEmpty
  <2>3. CASE Stall
    <3>1. wire' = [t \in Sides |-> <<>>] BY <2>3 DEF Stall
    <3>2. <<>> \in Seq(Frames) OBVIOUS
    <3>3. wire' \in [Sides -> Seq(Frames)] BY <3>1, <3>2
    <3>4. \A t \in Sides : wire'[t] = <<>> /\ wire[t] \in Seq(Frames) BY <2>0, <3>1
    <3> QED BY <3>3, <3>4, CalmEmpty
  <2> QED BY <2>1, <2>2, <2>3
<1>4. MuxTypeOK' BY <1>1, <1>2, <1>3 DEF MuxTypeOK
<1> QED BY <1>2, <1>3, <1>4, StillStep

(* Either loop ends: the streams in the map are closed.                    *)
LEMMA EndLoopKeeps ==
    ASSUME MuxInv, NEW s \in Sides, EndLoop(s), UNCHANGED <<errors, user, blocked, writing>>,
           writer' = writer \/ writer' = [writer EXCEPT ![s] = "ended"]
    PROVE  MuxInv'
<1>1. MuxTypeOK BY DEF MuxInv
<1>2. wire' \in [Sides -> Seq(Frames)] /\ \A t \in Sides : Calm(wire[t], wire'[t])
  BY <1>1, EmptiedFact DEF EndLoop
<1>3. /\ UNCHANGED <<active, nextID, maxPeer>>
      /\ aborted' = [aborted EXCEPT ![s] = TRUE] /\ ready' = [ready EXCEPT ![s] = <<>>]
      /\ stream' = [stream EXCEPT ![s] = [id \in Ids |->
                    IF id \in active[s] /\ ~aborted[s] THEN Close(stream[s][id])
                    ELSE stream[s][id]]]
  BY DEF EndLoop, Abort
<1>4. stream \in [Sides -> [Ids -> Streams]] BY <1>1 DEF MuxTypeOK
<1>5. \A i \in Ids : Close(stream[s][i]) \in Streams BY <1>4, CloseFact DEF Kept
<1>6. stream' \in [Sides -> [Ids -> Streams]] BY <1>3, <1>4, <1>5
<1>7. /\ stream'[s] = [id \in Ids |-> IF id \in active[s] /\ ~aborted[s]
                                       THEN Close(stream[s][id]) ELSE stream[s][id]]
      /\ \A t \in Sides : t # s => stream'[t] = stream[t]
  BY <1>3, <1>4
<1>8. /\ aborted' \in [Sides -> BOOLEAN] /\ aborted'[s]
      /\ \A t \in Sides : t # s => aborted'[t] = aborted[t] /\ ready'[t] = ready[t]
      /\ ready' \in [Sides -> Seq(Ids)]
  <2>1. <<>> \in Seq(Ids) OBVIOUS
  <2> QED BY <1>1, <1>3, <2>1 DEF MuxTypeOK
<1>9. writer' \in [Sides -> {"loop", "eof", "ended"}]
      /\ \A t \in Sides : writer'[t] = "eof" => writer[t] = "eof"
  BY <1>1 DEF MuxTypeOK
<1>10. MuxTypeOK' BY <1>1, <1>2, <1>3, <1>6, <1>8, <1>9 DEF MuxTypeOK
<1>11. ASSUME NEW t \in Sides, NEW i \in Ids PROVE Gentle(t, i)
  <2>1. Calm(wire[Peer(t)], wire'[Peer(t)]) /\ active'[t] \subseteq active[t]
        /\ user'[t][i] = user[t][i] /\ blocked'[t][i] = blocked[t][i]
    BY <1>2, <1>3, PeerFact
  <2>2. CASE t = s /\ i \in active[s] /\ ~aborted[s]
    <3>1. stream'[t][i] = Close(stream[t][i]) BY <1>7, <2>2
    <3>2. stream[t][i] \in Streams /\ Woken(t, i) BY InvFact
    <3>3. /\ Kept(stream[t][i], stream'[t][i])
          /\ Signs(stream[t][i]) => Signs(stream'[t][i])
      BY <3>1, <3>2, CloseFact
    <3>4. Woken(t, i)' BY <1>8, <2>1, <2>2, <3>2, <3>3 DEF Woken, Signs
    <3>5. ~Future(t, i) /\ ~Unheard(t, i) BY <2>2, Taken
    <3> QED BY <1>10, <2>1, <3>3, <3>4, <3>5, GentleKept
  <2>3. CASE ~(t = s /\ i \in active[s] /\ ~aborted[s])
    <3>1. stream'[t][i] = stream[t][i] BY <1>7, <2>3
    <3>2. /\ aborted[t] => aborted'[t]
          /\ i \in Range(ready[t]) => i \in Range(ready'[t]) \/ aborted'[t]
      BY <1>8
    <3> QED BY <1>10, <2>1, <3>1, <3>2, GentleSame
  <2> QED BY <2>2, <2>3
<1> QED BY <1>2, <1>3, <1>10, <1>11, CalmStep

LEMMA LoopEndsKeep ==
    ASSUME MuxInv, NEW s \in Sides, WriterEnds(s) \/ ReaderEnds(s) PROVE MuxInv'
<1>1. /\ EndLoop(s) /\ UNCHANGED <<errors, user, blocked, writing>>
      /\ writer' = writer \/ writer' = [writer EXCEPT ![s] = "ended"]
  BY DEF WriterEnds, ReaderEnds, apps
<1> QED BY <1>1, EndLoopKeeps

-----------------------------------------------------------------------------
(* The writer sends a chunk of a stream.                                   *)

(* The frames of id that s has put on the wire, when they get through.     *)
LEMMA ChunkSent ==
    ASSUME MuxTypeOK, NEW s \in Sides, NEW id \in Ids,
           Send(s, ChunkFrames(id, stream[s][id]))
    PROVE  LET st == stream[s][id] IN
           /\ wire' \in [Sides -> Seq(Frames)] /\ wire'[Peer(s)] = wire[Peer(s)]
           /\ \A f \in Range(wire'[s]) : f \in Range(wire[s]) \/ f.id = id
           /\ \A i \in Ids, type \in {"DATA", "WINDOW_UPDATE"} :
                 i # id => Total(wire[s], i, type)' = Total(wire[s], i, type)
           /\ Total(wire[s], id, "DATA")' <= Total(wire[s], id, "DATA") + ChunkBytes(st)
           /\ Total(wire[s], id, "WINDOW_UPDATE")'
                <= Total(wire[s], id, "WINDOW_UPDATE") + st.windowUpdate
<1> DEFINE st == stream[s][id]
           fs == ChunkFrames(id, st)
<1>1. wire \in [Sides -> Seq(Frames)] /\ st \in Streams /\ Peer(s) \in Sides /\ Peer(s) # s
  BY PeerFact DEF MuxTypeOK
<1>2. /\ fs \in Seq(Frames) /\ \A f \in Range(fs) : f.id = id
      /\ Total(fs, id, "DATA") <= ChunkBytes(st) /\ Total(fs, id, "DATA") \in Nat
      /\ Total(fs, id, "WINDOW_UPDATE") = st.windowUpdate
  BY <1>1, ChunkFramesFact
<1>3. wire' = [wire EXCEPT ![s] = IF conn[Peer(s)] /\ ~stalled THEN wire[s] \o fs ELSE wire[s]]
  BY DEF Send
<1>4. ChunkBytes(st) \in Nat /\ st.windowUpdate \in Nat BY <1>1, ChunkBytesFact DEF Streams
<1> HIDE DEF fs, st
<1>5. /\ wire[s] \in Seq(Frames) /\ wire[s] \o fs \in Seq(Frames)
      /\ Range(wire[s] \o fs) = Range(wire[s]) \cup Range(fs)
  BY <1>1, <1>2, RangeConcatenation
<1>6. wire'[s] = wire[s] \o fs \/ wire'[s] = wire[s] BY <1>1, <1>3
<1>7. wire' \in [Sides -> Seq(Frames)] /\ wire'[Peer(s)] = wire[Peer(s)]
  BY <1>1, <1>3, <1>5
<1>8. \A f \in Range(wire'[s]) : f \in Range(wire[s]) \/ f.id = id BY <1>2, <1>5, <1>6
<1>9. \A i \in Ids, type \in {"DATA", "WINDOW_UPDATE"} :
         /\ Total(wire[s], i, type) \in Nat
         /\ Total(wire[s] \o fs, i, type) = Total(wire[s], i, type) + Total(fs, i, type)
  BY <1>2, <1>5, TotalType, TotalConcat
<1>10. ASSUME NEW i \in Ids, NEW type \in {"DATA", "WINDOW_UPDATE"}, i # id
       PROVE  Total(wire[s], i, type)' = Total(wire[s], i, type)
  <2>1. \A f \in Range(fs) : f.type # type \/ f.id # i BY <1>2, <1>10
  <2>2. Total(fs, i, type) = 0 BY <1>2, <2>1, ForeignZero
  <2>3. Total(wire[s] \o fs, i, type) = Total(wire[s], i, type) BY <1>9, <2>2
  <2> QED BY <1>6, <2>3
<1>11. Total(wire[s], id, "DATA")' <= Total(wire[s], id, "DATA") + ChunkBytes(st)
  <2>1. CASE wire'[s] = wire[s] BY <1>4, <1>9, <2>1
  <2>2. CASE wire'[s] = wire[s] \o fs
    <3>1. Total(wire[s], id, "DATA")' = Total(wire[s], id, "DATA") + Total(fs, id, "DATA")
      BY <1>9, <2>2
    <3> QED BY <1>2, <1>4, <1>9, <3>1
  <2> QED BY <1>6, <2>1, <2>2
<1>12. Total(wire[s], id, "WINDOW_UPDATE")'
                <= Total(wire[s], id, "WINDOW_UPDATE") + st.windowUpdate
  <2>1. CASE wire'[s] = wire[s] BY <1>4, <1>9, <2>1
  <2>2. CASE wire'[s] = wire[s] \o fs
    <3>1. Total(wire[s], id, "WINDOW_UPDATE")'
            = Total(wire[s], id, "WINDOW_UPDATE") + st.windowUpdate
      BY <1>2, <1>9, <2>2
    <3> QED BY <1>4, <1>9, <3>1
  <2> QED BY <1>6, <2>1, <2>2
<1> QED BY <1>7, <1>8, <1>10, <1>11, <1>12 DEF st

LEMMA ChunkStep ==
    ASSUME MuxInv, MuxTypeOK', NEW s \in Sides, NEW id \in Ids,
           Send(s, ChunkFrames(id, stream[s][id])), SetStream(s, id, GetChunk(stream[s][id])),
           active'[Peer(s)] = active[Peer(s)],
           \A i \in Ids : i # id => (i \in active'[s] <=> i \in active[s]),
           maxPeer' = maxPeer, nextID'[Peer(s)] = nextID[Peer(s)], nextID'[s] >= nextID[s],
           ~Future(s, id)', ~Unheard(s, id),
           Total(wire[s], id, "DATA") + stream[s][id].sendWindow
             + Total(wire[Peer(s)], id, "WINDOW_UPDATE") <= stream[Peer(s)][id].receiveWindow,
           blocked' = blocked, aborted' = aborted, Others(user, user', s, id),
           \A t \in Sides, i \in Ids : t # s \/ i # id =>
              (i \in Range(ready[t]) => i \in Range(ready'[t]))
    PROVE  MuxInv'
<1> DEFINE p == Peer(s)
           st == stream[s][id]
           g == GetChunk(st)
<1>0. p \in Sides /\ p # s /\ Peer(p) = s /\ \A t \in Sides : t = s \/ t = p BY PeerFact
<1> HIDE DEF p
<1>1. MuxTypeOK /\ st \in Streams BY InvFact
<1>2. /\ wire'[p] = wire[p]
      /\ \A f \in Range(wire'[s]) : f \in Range(wire[s]) \/ f.id = id
      /\ \A i \in Ids, type \in {"DATA", "WINDOW_UPDATE"} :
            i # id => Total(wire[s], i, type)' = Total(wire[s], i, type)
      /\ Total(wire[s], id, "DATA")' <= Total(wire[s], id, "DATA") + ChunkBytes(st)
      /\ Total(wire[s], id, "WINDOW_UPDATE")'
           <= Total(wire[s], id, "WINDOW_UPDATE") + st.windowUpdate
  BY <1>1, ChunkSent DEF p
<1>3. /\ g \in Streams
      /\ g.sendWindow = st.sendWindow - ChunkBytes(st)
      /\ g.receiveWindow = st.receiveWindow + st.windowUpdate
      /\ ~HasWork(g) /\ g.writeEOF = st.writeEOF
      /\ st.hasSpace \/ ~WriteBufferFull(g) => g.hasSpace
      /\ Unused(st) => Unused(g)
      /\ BufferOK(st) => BufferOK(g)
  BY <1>1, GetChunkFact
<1>4. stream'[s][id] = g /\ Others(stream, stream', s, id)
  BY <1>1, <1>3, SetStreamFact DEF Others
<1>5. ChunkBytes(st) \in Nat /\ ChunkBytes(st) <= st.sendWindow BY <1>1, ChunkBytesFact
<1> HIDE DEF st, g
<1>6. \A t \in Sides, i \in Ids :
         /\ stream[t][i] \in Streams /\ Room(t, i) /\ BufferOK(stream[t][i])
         /\ FutureInv(t, i) /\ UnheardInv(t, i) /\ Woken(t, i)
         /\ Total(wire[t], i, "DATA") \in Nat /\ Total(wire[t], i, "WINDOW_UPDATE") \in Nat
  BY InvFact
<1>7. \A t \in Sides, i \in Ids :
         /\ Total(wire[t], i, "DATA")' \in Nat /\ Total(wire[t], i, "WINDOW_UPDATE")' \in Nat
  <2> TAKE t \in Sides, i \in Ids
  <2>1. wire'[t] \in Seq(Frames) BY DEF MuxTypeOK
  <2> QED BY <2>1, TotalType
<1>8. \A t \in Sides, i \in Ids :
         (Unheard(t, i)' => Unheard(t, i)) /\ (Future(t, i)' => Future(t, i))
  <2> TAKE t \in Sides, i \in Ids
  <2>1. i \in Nat /\ nextID[t] \in Nat /\ nextID'[t] \in Nat /\ nextID'[t] >= nextID[t]
        /\ nextID'[t] % 2 = nextID[t] % 2
    <3>1. nextID[t] \in Nat /\ nextID'[t] \in Nat /\ i \in Nat BY <1>1 DEF MuxTypeOK, Ids
    <3>2. nextID'[t] % 2 = nextID[t] % 2 BY <1>1 DEF MuxTypeOK, Sides
    <3> QED BY <1>0, <3>1, <3>2 DEF p
  <2> QED BY <2>1 DEF Unheard, Future, IsPeerStreamID
<1>9. ASSUME NEW t \in Sides, NEW i \in Ids, i # id PROVE StreamInv(t, i)'
  <2> DEFINE q == Peer(t)
  <2>0. q \in Sides BY PeerFact
  <2> HIDE DEF q
  <2>1. /\ stream'[t][i] = stream[t][i] /\ stream'[q][i] = stream[q][i]
        /\ user'[t][i] = user[t][i] /\ blocked'[t][i] = blocked[t][i]
        /\ i \in Range(ready[t]) => i \in Range(ready'[t])
        /\ i \in active'[t] <=> i \in active[t]
    BY <1>0, <1>4, <1>9, <2>0 DEF Others, p
  <2>2. \A u \in Sides : /\ Total(wire[u], i, "DATA")' = Total(wire[u], i, "DATA")
                         /\ Total(wire[u], i, "WINDOW_UPDATE")' = Total(wire[u], i, "WINDOW_UPDATE")
    BY <1>0, <1>2, <1>9
  <2>3. /\ Room(t, i) /\ BufferOK(stream[t][i]) /\ FutureInv(t, i) /\ UnheardInv(t, i)
        /\ Woken(t, i)
    BY <1>6
  <2>4. Room(t, i)' BY <2>0, <2>1, <2>2, <2>3 DEF Room, q
  <2>5. \A f \in Range(wire'[t]) : f \in Range(wire[t]) \/ f.id = id BY <1>0, <1>2
  <2>6. FutureInv(t, i)'
    BY <1>8, <1>9, <2>1, <2>2, <2>3, <2>5 DEF FutureInv
  <2>7. UnheardInv(t, i)' BY <1>8, <2>0, <2>1, <2>2, <2>3 DEF UnheardInv, q
  <2>8. Woken(t, i)' BY <2>1, <2>3 DEF Woken
  <2> QED BY <2>1, <2>3, <2>4, <2>6, <2>7, <2>8 DEF StreamInv
<1>10. StreamInv(s, id)'
  <2>1. Room(s, id)'
    <3> DEFINE d == Total(wire[s], id, "DATA")
               d2 == Total(wire[s], id, "DATA")'
               u == Total(wire[p], id, "WINDOW_UPDATE")
               n == ChunkBytes(st)
               a == st.sendWindow
               b == stream[p][id].receiveWindow
    <3>1. d \in Nat /\ d2 \in Nat /\ u \in Nat /\ n \in Nat /\ a \in Nat /\ b \in Nat
      BY <1>0, <1>1, <1>5, <1>6, <1>7 DEF Streams
    <3>2. d + a + u <= b /\ n <= a /\ d2 <= d + n BY <1>2, <1>5 DEF p, st
    <3>3. stream'[p][id].receiveWindow = b BY <1>0, <1>4 DEF Others
    <3>4. stream'[s][id].sendWindow = a - n BY <1>3, <1>4
    <3>5. Total(wire[p], id, "WINDOW_UPDATE")' = u BY <1>2
    <3> HIDE DEF d, d2, u, n, a, b
    <3>6. d2 + (IF id \in active'[s] THEN (a - n) + u ELSE 0) <= b BY <3>1, <3>2
    <3> QED BY <3>3, <3>4, <3>5, <3>6 DEF Room, p, d2
  <2>2. BufferOK(stream[s][id])' BY <1>3, <1>4, <1>6 DEF st
  <2>3. FutureInv(s, id)' BY DEF FutureInv
  <2>4. UnheardInv(s, id)' BY <1>8 DEF UnheardInv
  <2>5. Woken(s, id) BY <1>6
  <2>6. Woken(s, id)' BY <1>3, <1>4, <2>5 DEF Woken, st
  <2> QED BY <2>1, <2>2, <2>3, <2>4, <2>6 DEF StreamInv
<1>11. StreamInv(p, id)'
  <2>0. /\ stream'[p][id] = stream[p][id] /\ user'[p][id] = user[p][id]
        /\ blocked'[p][id] = blocked[p][id] /\ active'[p] = active[p]
        /\ id \in Range(ready[p]) => id \in Range(ready'[p])
    BY <1>0, <1>4 DEF Others, p
  <2>9. /\ Room(p, id) /\ BufferOK(stream[p][id]) /\ FutureInv(p, id) /\ UnheardInv(p, id)
        /\ Woken(p, id)
    BY <1>0, <1>6
  <2>1. Room(p, id)'
    <3> DEFINE d == Total(wire[p], id, "DATA")
               u == Total(wire[s], id, "WINDOW_UPDATE")
               u2 == Total(wire[s], id, "WINDOW_UPDATE")'
               n == st.windowUpdate
               a == stream[p][id].sendWindow
               b == st.receiveWindow
    <3>1. d \in Nat /\ u \in Nat /\ u2 \in Nat /\ n \in Nat /\ a \in Nat /\ b \in Nat
      BY <1>0, <1>1, <1>6, <1>7 DEF Streams
    <3>2. d + (IF id \in active[p] THEN a + u ELSE 0) <= b BY <1>0, <2>9 DEF Room, st
    <3>3. u2 <= u + n BY <1>2
    <3>4. stream'[s][id].receiveWindow = b + n BY <1>3, <1>4
    <3>5. Total(wire[p], id, "DATA")' = d BY <1>2
    <3> HIDE DEF d, u, u2, n, a, b
    <3>6. d + (IF id \in active[p] THEN a + u2 ELSE 0) <= b + n BY <3>1, <3>2, <3>3
    <3> QED BY <1>0, <2>0, <3>4, <3>5, <3>6 DEF Room, u2, a
  <2>2. BufferOK(stream[p][id])' BY <2>0, <2>9
  <2>3. FutureInv(p, id)' BY <1>0, <1>2, <1>8, <2>0, <2>9 DEF FutureInv
  <2>4. UnheardInv(p, id)'
    <3> SUFFICES ASSUME Unheard(p, id)'
        PROVE  /\ id \notin active'[p] /\ ~blocked'[p][id] /\ user'[p][id] = "idle"
               /\ stream'[p][id] = NewStream(FALSE) /\ Unused(stream'[s][id])
               /\ Total(wire[p], id, "DATA")' = 0 /\ Total(wire[p], id, "WINDOW_UPDATE")' = 0
               /\ Total(wire[s], id, "WINDOW_UPDATE")' = 0
      BY <1>0 DEF UnheardInv
    <3>1. Unheard(p, id) BY <1>0, <1>8
    <3>2. /\ id \notin active[p] /\ ~blocked[p][id] /\ user[p][id] = "idle"
          /\ stream[p][id] = NewStream(FALSE) /\ Unused(st)
          /\ Total(wire[p], id, "DATA") = 0 /\ Total(wire[p], id, "WINDOW_UPDATE") = 0
          /\ Total(wire[s], id, "WINDOW_UPDATE") = 0
      BY <1>0, <2>9, <3>1 DEF UnheardInv, st
    <3>3. Unused(stream'[s][id]) BY <1>3, <1>4, <3>2
    <3>4. st.windowUpdate = 0 BY <3>2 DEF Unused
    <3>5. Total(wire[s], id, "WINDOW_UPDATE")' <= 0 BY <1>2, <3>2, <3>4
    <3>6. Total(wire[s], id, "WINDOW_UPDATE")' = 0 BY <1>7, <3>5
    <3> QED BY <1>2, <2>0, <3>2, <3>3, <3>6
  <2>5. Woken(p, id)' BY <2>0, <2>9 DEF Woken
  <2> QED BY <2>1, <2>2, <2>3, <2>4, <2>5 DEF StreamInv
<1>12. \A t \in Sides, i \in Ids : StreamInv(t, i)'
  <2> TAKE t \in Sides, i \in Ids
  <2> QED BY <1>0, <1>9, <1>10, <1>11
<1> QED BY <1>12 DEF MuxInv

(* What WriteStreamData leaves behind is of its type.                      *)
LEMMA WriteTypes ==
    ASSUME MuxTypeOK, NEW s \in Sides, NEW id \in Ids, WriteStreamData(s, id, stream[s][id])
    PROVE  /\ wire' \in [Sides -> Seq(Frames)]
           /\ stream' \in [Sides -> [Ids -> Streams]]
           /\ writer' \in [Sides -> {"loop", "eof", "ended"}] /\ writing' \in [Sides -> Nat]
           /\ \A t \in Sides : writer'[t] = "eof" => writing'[t] \in Ids
           /\ aborted' = aborted
<1> DEFINE st == stream[s][id]
<1>1. st \in Streams BY DEF MuxTypeOK
<1>2. Send(s, ChunkFrames(id, st)) /\ SetStream(s, id, GetChunk(st)) BY DEF WriteStreamData
<1>3. wire' \in [Sides -> Seq(Frames)] BY <1>2, ChunkSent
<1>4. GetChunk(st) \in Streams BY <1>1, GetChunkFact
<1>5. stream' \in [Sides -> [Ids -> Streams]] BY <1>2, <1>4, SetStreamFact
<1>6. /\ writer' = [writer EXCEPT ![s] = IF SendsEOF(st) THEN "eof" ELSE "loop"]
      /\ writing' = [writing EXCEPT ![s] = IF SendsEOF(st) THEN id ELSE 0]
      /\ aborted' = aborted
  BY DEF WriteStreamData
<1>7. id \in Nat BY DEF Ids
<1>8. /\ writer' \in [Sides -> {"loop", "eof", "ended"}] /\ writing' \in [Sides -> Nat]
      /\ \A t \in Sides : writer'[t] = "eof" => writing'[t] \in Ids
  BY <1>6, <1>7 DEF MuxTypeOK
<1> QED BY <1>3, <1>5, <1>6, <1>8

LEMMA TailFact ==
    ASSUME NEW q \in Seq(Ids), q # <<>>
    PROVE  /\ Tail(q) \in Seq(Ids) /\ Head(q) \in Ids
           /\ \A i \in Range(q) : i # Head(q) => i \in Range(Tail(q))
<1>1. Tail(q) \in Seq(Ids) /\ Head(q) \in Ids OBVIOUS
<1>2. ASSUME NEW k \in 1 .. Len(q), q[k] # Head(q) PROVE q[k] \in Range(Tail(q))
  <2>1. k # 1 BY <1>2
  <2>2. k - 1 \in 1 .. Len(Tail(q)) /\ Tail(q)[k - 1] = q[k] BY <2>1
  <2>3. DOMAIN Tail(q) = 1 .. Len(Tail(q)) BY <1>1
  <2> QED BY <2>2, <2>3 DEF Range
<1> QED BY <1>1, <1>2 DEF Range

LEMMA WriterReadyKeeps ==
    ASSUME MuxInv, NEW s \in Sides, WriterReady(s) PROVE MuxInv'
<1>1. MuxTypeOK BY DEF MuxInv
<1>2. ready[s] \in Seq(Ids) /\ ready[s] # <<>> BY <1>1 DEF MuxTypeOK, WriterReady
<1>3. PICK id \in Ids :
         /\ id = Head(ready[s]) /\ Tail(ready[s]) \in Seq(Ids)
         /\ \A i \in Range(ready[s]) : i # id => i \in Range(Tail(ready[s]))
  BY <1>2, TailFact
<1>4. /\ ready' = [ready EXCEPT ![s] = Tail(ready[s])]
      /\ UNCHANGED <<active, nextID, maxPeer, errors, user, blocked>>
  BY DEF WriterReady, maps, apps
<1>5. ready' \in [Sides -> Seq(Ids)] BY <1>1, <1>3, <1>4 DEF MuxTypeOK
<1>6. \A t \in Sides, i \in Ids : t # s \/ i # id =>
         (i \in Range(ready[t]) => i \in Range(ready'[t]))
  <2> TAKE t \in Sides, i \in Ids
  <2>1. ready'[s] = Tail(ready[s]) /\ (t # s => ready'[t] = ready[t])
    BY <1>1, <1>4 DEF MuxTypeOK
  <2> QED BY <1>3, <2>1
<1>7. CASE id \in active[s]
  <2>1. WriteStreamData(s, id, stream[s][id]) BY <1>3, <1>7 DEF WriterReady
  <2>2. MuxTypeOK' BY <1>1, <1>3, <1>4, <1>5, <2>1, WriteTypes DEF MuxTypeOK
  <2>3. aborted' = aborted BY <1>1, <1>3, <2>1, WriteTypes
  <2>4. Send(s, ChunkFrames(id, stream[s][id])) /\ SetStream(s, id, GetChunk(stream[s][id]))
    BY <2>1 DEF WriteStreamData
  <2>5. ~Future(s, id) /\ ~Unheard(s, id) BY <1>3, <1>7, Taken
  <2>6. ~Future(s, id)' BY <1>4, <2>5 DEF Future, IsPeerStreamID
  <2>7. Total(wire[s], id, "DATA") + stream[s][id].sendWindow
             + Total(wire[Peer(s)], id, "WINDOW_UPDATE") <= stream[Peer(s)][id].receiveWindow
    <3> DEFINE d == Total(wire[s], id, "DATA")
               a == stream[s][id].sendWindow
               u == Total(wire[Peer(s)], id, "WINDOW_UPDATE")
               b == stream[Peer(s)][id].receiveWindow
    <3>1. Room(s, id) /\ stream[s][id] \in Streams /\ d \in Nat BY <1>3, InvFact
    <3>2. u \in Nat /\ stream[Peer(s)][id] \in Streams BY <1>3, PeerFact, InvFact
    <3>3. a \in Nat /\ b \in Nat BY <3>1, <3>2 DEF Streams
    <3>4. d + (a + u) <= b BY <1>7, <3>1 DEF Room
    <3> HIDE DEF d, a, u, b
    <3>5. d + a + u <= b BY <3>1, <3>2, <3>3, <3>4
    <3> QED BY <3>5 DEF d, a, u, b
  <2>8. nextID'[s] >= nextID[s] /\ nextID'[Peer(s)] = nextID[Peer(s)]
    BY <1>1, <1>4 DEF MuxTypeOK
  <2>9. Others(user, user', s, id) BY <1>4 DEF Others
  <2> QED BY <1>3, <1>4, <1>6, <2>2, <2>3, <2>4, <2>5, <2>6, <2>7, <2>8, <2>9, ChunkStep
<1>8. CASE id \notin active[s]
  <2>1. UNCHANGED <<stream, writer, writing, aborted, wire>>
    BY <1>3, <1>8 DEF WriterReady, conns
  <2>2. MuxTypeOK' BY <1>1, <1>4, <1>5, <2>1 DEF MuxTypeOK
  <2>3. \A t \in Sides : active'[t] \subseteq active[t] /\ Calm(wire[t], wire'[t])
    BY <1>1, <1>4, <2>1, WireSame
  <2>4. \A t \in Sides, i \in Ids :
           i \in Range(ready[t]) /\ i \in active'[t] => i \in Range(ready'[t])
    BY <1>4, <1>6, <1>8
  <2> QED BY <1>4, <2>1, <2>2, <2>3, <2>4, StillStep
<1> QED BY <1>7, <1>8

LEMMA WriterNewStreamKeeps ==
    ASSUME MuxInv, NEW s \in Sides, NEW id \in Ids, WriterNewStream(s, id) PROVE MuxInv'
<1> DEFINE p == Peer(s)
<1>0. p \in Sides /\ Peer(p) = s /\ p # s BY PeerFact
<1> HIDE DEF p
<1>1. MuxTypeOK BY DEF MuxInv
<1>2. /\ user[s][id] = "requesting" /\ id = nextID[s] /\ ~aborted[s]
      /\ nextID' = [nextID EXCEPT ![s] = nextID[s] + 2]
      /\ UNCHANGED <<maxPeer, ready, errors, blocked>>
  BY DEF WriterNewStream, CanWrite
<1>3. id \in Nat /\ nextID[s] \in Nat BY <1>1 DEF MuxTypeOK, Ids
<1>4. /\ nextID' \in [Sides -> Nat] /\ nextID'[p] = nextID[p] /\ nextID'[s] = nextID[s] + 2
      /\ nextID'["origin"] % 2 = 1 /\ nextID'["edge"] % 2 = 0
  <2>1. nextID' \in [Sides -> Nat] /\ nextID'[p] = nextID[p] /\ nextID'[s] = nextID[s] + 2
    <3>1. nextID \in [Sides -> Nat] BY <1>1 DEF MuxTypeOK
    <3>2. nextID[s] + 2 \in Nat BY <1>3
    <3> QED BY <1>0, <1>2, <3>1, <3>2
  <2>2. \A k \in Nat : (k + 2) % 2 = k % 2 OBVIOUS
  <2>3. nextID["origin"] % 2 = 1 /\ nextID["edge"] % 2 = 0 BY <1>1 DEF MuxTypeOK
  <2>4. nextID'[s] % 2 = nextID[s] % 2 BY <1>3, <2>1, <2>2
  <2> QED BY <1>0, <2>1, <2>3, <2>4 DEF Sides
<1>5. user' \in [Sides -> [Ids -> Users]] /\ Others(user, user', s, id)
  <2>1. PICK u \in {"refused", "awaiting"} : user' = [user EXCEPT ![s][id] = u]
    BY DEF WriterNewStream
  <2> QED BY <1>1, <2>1, UserSet DEF Users
<1>6. Future(s, id) /\ ~Unheard(s, id)
  <2>1. ~IsPeerStreamID(s, id) BY <1>2 DEF IsPeerStreamID
  <2> QED BY <1>2, <1>3, <2>1 DEF Future, Unheard
<1>7. ~Future(s, id)' BY <1>2, <1>3, <1>4 DEF Future
<1>8. /\ stream[s][id] = NewStream(TRUE) /\ id > maxPeer[p] /\ id \notin active[s]
      /\ Total(wire[s], id, "DATA") = 0
  BY <1>2, <1>6, InvFact DEF FutureInv, p
<1>9. stream[p][id] = NewStream(FALSE) /\ Total(wire[p], id, "WINDOW_UPDATE") = 0
  <2>1. IsPeerStreamID(p, id) BY <1>1, <1>6, ParityFact DEF Future, p
  <2>2. UnheardInv(p, id) BY <1>0, InvFact
  <2> QED BY <1>8, <2>1, <2>2 DEF UnheardInv, Unheard
<1>10. Total(wire[s], id, "DATA") + stream[s][id].sendWindow
             + Total(wire[p], id, "WINDOW_UPDATE") <= stream[p][id].receiveWindow
  <2>1. stream[s][id].sendWindow = DefaultWindow /\ stream[p][id].receiveWindow = DefaultWindow
    BY <1>8, <1>9, NewStreamFact
  <2>2. DefaultWindow \in Nat BY WindowAssumption
  <2>3. 0 + DefaultWindow + 0 <= DefaultWindow BY <2>2
  <2>4. Total(wire[s], id, "DATA") = 0 /\ Total(wire[p], id, "WINDOW_UPDATE") = 0
    BY <1>8, <1>9
  <2> QED BY <2>1, <2>3, <2>4
<1>11. CASE ~ignoreNew[s]
  <2>1. /\ active' = [active EXCEPT ![s] = active[s] \cup {id}]
        /\ WriteStreamData(s, id, stream[s][id])
    BY <1>11 DEF WriterNewStream
  <2>2. /\ active' \in [Sides -> SUBSET Ids] /\ active'[p] = active[p]
        /\ \A i \in Ids : i # id => (i \in active'[s] <=> i \in active[s])
    BY <1>0, <1>1, <2>1 DEF MuxTypeOK
  <2>3. MuxTypeOK' BY <1>1, <1>2, <1>4, <1>5, <2>1, <2>2, WriteTypes DEF MuxTypeOK
  <2>4. aborted' = aborted BY <1>1, <2>1, WriteTypes
  <2>5. Send(s, ChunkFrames(id, stream[s][id])) /\ SetStream(s, id, GetChunk(stream[s][id]))
    BY <2>1 DEF WriteStreamData
  <2>6. nextID'[s] >= nextID[s] BY <1>3, <1>4
  <2>7. \A t \in Sides, i \in Ids : t # s \/ i # id =>
           (i \in Range(ready[t]) => i \in Range(ready'[t]))
    BY <1>2
  <2>8. /\ active'[Peer(s)] = active[Peer(s)] /\ nextID'[Peer(s)] = nextID[Peer(s)]
        /\ Total(wire[s], id, "DATA") + stream[s][id].sendWindow
             + Total(wire[Peer(s)], id, "WINDOW_UPDATE") <= stream[Peer(s)][id].receiveWindow
    BY <1>4, <1>10, <2>2 DEF p
  <2>9. maxPeer' = maxPeer /\ blocked' = blocked BY <1>2
  <2> QED BY <1>5, <1>6, <1>7, <2>2, <2>3, <2>4, <2>5, <2>6, <2>7, <2>8, <2>9, ChunkStep
<1>12. CASE ignoreNew[s]
  <2>1. UNCHANGED <<stream, active, writer, writing, aborted, wire>>
    BY <1>12 DEF WriterNewStream, conns
  <2>2. MuxTypeOK' BY <1>1, <1>2, <1>4, <1>5, <2>1 DEF MuxTypeOK
  <2>3. ASSUME NEW t \in Sides, NEW i \in Ids PROVE StreamInv(t, i)'
    <3>1. /\ Room(t, i) /\ BufferOK(stream[t][i]) /\ FutureInv(t, i) /\ UnheardInv(t, i)
          /\ Woken(t, i)
      BY InvFact
    <3>2. (Unheard(t, i)' => Unheard(t, i)) /\ (Future(t, i)' => Future(t, i) /\ ~(t = s /\ i = id))
      <4>1. i \in Nat /\ nextID[t] \in Nat /\ nextID'[t] \in Nat /\ nextID'[t] >= nextID[t]
            /\ nextID'[t] % 2 = nextID[t] % 2
        <5>1. nextID[t] \in Nat /\ nextID'[t] \in Nat /\ i \in Nat
          BY <1>1, <1>4 DEF MuxTypeOK, Ids
        <5>2. nextID'[t] % 2 = nextID[t] % 2 BY <1>1, <1>4 DEF MuxTypeOK, Sides
        <5>3. nextID'[t] >= nextID[t] BY <1>0, <1>3, <1>4, <5>1, PeerFact DEF p
        <5> QED BY <5>1, <5>2, <5>3
      <4> QED BY <1>2, <1>7, <4>1 DEF Unheard, Future, IsPeerStreamID
    <3>3. Unheard(t, i) => user'[t][i] = user[t][i] BY <1>5, <1>6 DEF Others
    <3>4. Future(t, i)' => user'[t][i] = user[t][i] BY <1>5, <3>2 DEF Others
    <3>5. Room(t, i)' BY <2>1, <3>1 DEF Room
    <3>6. Woken(t, i)' BY <1>2, <2>1, <3>1 DEF Woken
    <3>7. FutureInv(t, i)' BY <1>2, <2>1, <3>1, <3>2, <3>4 DEF FutureInv
    <3>8. UnheardInv(t, i)' BY <1>2, <2>1, <3>1, <3>2, <3>3 DEF UnheardInv
    <3> QED BY <2>1, <3>1, <3>5, <3>6, <3>7, <3>8 DEF StreamInv
  <2> QED BY <2>2, <2>3 DEF MuxInv
<1> QED BY <1>11, <1>12

-----------------------------------------------------------------------------
(* The reader.                                                             *)
LEMMA RaiseErrorFact ==
    ASSUME MuxTypeOK, NEW s \in Sides, NEW id \in Ids, NEW code \in ErrorCodes,
           RaiseError(s, id, code)
    PROVE  errors' \in [Sides -> SUBSET [id : Ids, code : ErrorCodes]]
<1> DEFINE E == [id : Ids, code : ErrorCodes]
           e == [id |-> id, code |-> code]
           S == {x \in errors[s] : x.id # id} \cup {e}
<1>1. errors \in [Sides -> SUBSET E] BY DEF MuxTypeOK
<1>2. e \in E OBVIOUS
<1>3. errors' = [errors EXCEPT ![s] = S] BY DEF RaiseError
<1> HIDE DEF e, E
<1>4. S \subseteq E BY <1>1, <1>2
<1> HIDE DEF S
<1>5. errors' \in [Sides -> SUBSET E] BY <1>1, <1>3, <1>4
<1> QED BY <1>5 DEF E

LEMMA FrameFact ==
    ASSUME MuxTypeOK, NEW s \in Sides, NEW id \in Ids,
           NEW type \in {"DATA", "WINDOW_UPDATE"}, NEW kind, Receives(s, kind)
    PROVE  /\ Total(wire[Peer(s)], id, type) =
                BytesOf(Frame(s), id, type) + Total(wire[Peer(s)], id, type)'
           /\ Total(wire[Peer(s)], id, type)' \in Nat
           /\ BytesOf(Frame(s), id, type) \in Nat
<1> DEFINE p == Peer(s)
<1>1. p \in Sides BY PeerFact
<1>2. /\ Frame(s) \in Frames /\ wire[p] # <<>> /\ wire'[p] = Tail(wire[p])
  BY ReceivesFact
<1> HIDE DEF p
<1>3. wire[p] \in Seq(Frames) BY <1>1 DEF MuxTypeOK
<1>4. Total(wire[p], id, type) = BytesOf(Head(wire[p]), id, type) + Total(Tail(wire[p]), id, type)
  BY <1>2, <1>3, TotalTail
<1>5. Tail(wire[p]) \in Seq(Frames) BY <1>2, <1>3
<1>6. Total(Tail(wire[p]), id, type) \in Nat BY <1>5, TotalType
<1>7. BytesOf(Frame(s), id, type) \in Nat BY <1>2, BytesFact
<1>8. Total(wire[p], id, type)' = Total(Tail(wire[p]), id, type) BY <1>2
<1> QED BY <1>4, <1>6, <1>7, <1>8 DEF Frame, p

(* A frame that changes no stream.                                         *)
LEMMA IgnoredKeeps ==
    ASSUME MuxInv, NEW s \in Sides, NEW kind, Receives(s, kind),
           errors' \in [Sides -> SUBSET [id : Ids, code : ErrorCodes]],
           UNCHANGED <<stream, active, nextID, maxPeer, ready, user, blocked>>
    PROVE  MuxInv'
<1>1. MuxTypeOK BY DEF MuxInv
<1>2. /\ wire' \in [Sides -> Seq(Frames)] /\ \A t \in Sides : Calm(wire[t], wire'[t])
      /\ UNCHANGED <<writer, writing, aborted>>
  BY <1>1, ReceivesFact
<1>3. MuxTypeOK' BY <1>1, <1>2 DEF MuxTypeOK
<1> QED BY <1>2, <1>3, StillStep

LEMMA AcceptKeeps ==
    ASSUME MuxInv, NEW s \in Sides, Receives(s, "HEADERS"), NEW id \in Ids,
           id = Frame(s).id, IsPeerStreamID(s, id), id > maxPeer[s],
           maxPeer' = [maxPeer EXCEPT ![s] = id],
           active' = [active EXCEPT ![s] = active[s] \cup {id}],
           SetStream(s, id, NewStream(FALSE)),
           user' = [user EXCEPT ![s][id] = "serving"],
           UNCHANGED <<errors, ready, nextID, blocked>>
    PROVE  MuxInv'
<1> DEFINE p == Peer(s)
<1>0. p \in Sides /\ Peer(p) = s /\ p # s /\ \A t \in Sides : t = s \/ t = p BY PeerFact
<1> HIDE DEF p
<1>1. MuxTypeOK BY DEF MuxInv
<1>2. /\ wire' \in [Sides -> Seq(Frames)] /\ \A t \in Sides : Calm(wire[t], wire'[t])
      /\ Frame(s) \in Range(wire[p]) /\ Frame(s).type = "HEADERS"
      /\ UNCHANGED <<writer, writing, aborted>>
  BY <1>1, ReceivesFact DEF p
<1>3. NewStream(FALSE) \in Streams BY NewStreamFact
<1>4. /\ stream' \in [Sides -> [Ids -> Streams]] /\ stream'[s][id] = NewStream(FALSE)
      /\ Others(stream, stream', s, id)
  BY <1>1, <1>3, SetStreamFact DEF Others
<1>5. /\ user' \in [Sides -> [Ids -> Users]] /\ Others(user, user', s, id)
      /\ user'[s][id] = "serving"
  <2>1. "serving" \in Users BY DEF Users
  <2> QED BY <1>1, <2>1, UserSet
<1>6. /\ active' \in [Sides -> SUBSET Ids] /\ active'[p] = active[p]
      /\ active'[s] = active[s] \cup {id}
  BY <1>0, <1>1 DEF MuxTypeOK
<1>7. /\ maxPeer' \in [Sides -> Nat] /\ maxPeer'[p] = maxPeer[p] /\ maxPeer'[s] = id
      /\ id \in Nat
  <2>1. id \in Nat BY DEF Ids
  <2>2. maxPeer \in [Sides -> Nat] BY <1>1 DEF MuxTypeOK
  <2> QED BY <1>0, <2>1, <2>2
<1>8. MuxTypeOK' BY <1>1, <1>2, <1>4, <1>5, <1>6, <1>7 DEF MuxTypeOK
<1>9. \A t \in Sides, i \in Ids :
         /\ stream[t][i] \in Streams /\ Room(t, i) /\ BufferOK(stream[t][i])
         /\ FutureInv(t, i) /\ UnheardInv(t, i) /\ Woken(t, i)
         /\ Total(wire[t], i, "DATA") \in Nat /\ Total(wire[t], i, "WINDOW_UPDATE") \in Nat
  BY InvFact
<1>10. \A t \in Sides, i \in Ids :
         /\ Total(wire[t], i, "DATA")' \in Nat /\ Total(wire[t], i, "WINDOW_UPDATE")' \in Nat
         /\ Total(wire[t], i, "DATA")' <= Total(wire[t], i, "DATA")
         /\ Total(wire[t], i, "WINDOW_UPDATE")' <= Total(wire[t], i, "WINDOW_UPDATE")
  <2> TAKE t \in Sides, i \in Ids
  <2>1. wire'[t] \in Seq(Frames) /\ Calm(wire[t], wire'[t]) BY <1>2
  <2> QED BY <2>1, TotalType DEF Calm
<1>11. /\ ~blocked[s][id] /\ stream[s][id] = NewStream(FALSE) /\ Unused(stream[p][id])
       /\ Total(wire[s], id, "DATA") = 0 /\ Total(wire[p], id, "WINDOW_UPDATE") = 0
  BY <1>9 DEF UnheardInv, Unheard, p
<1>12. \A t \in Sides, i \in Ids : stream'[t][i] = stream[t][i]
  BY <1>4, <1>11 DEF Others
<1>13. \A i \in Ids : Future(p, i) => i > id
  <2> TAKE i \in Ids
  <2>1. ~IsPeerStreamID(p, id) BY <1>0, <1>1, ParityFact
  <2>2. FutureInv(p, id) BY <1>0, <1>9
  <2>3. ~(id >= nextID[p]) BY <1>2, <2>1, <2>2 DEF FutureInv, Future
  <2>4. i \in Nat /\ nextID[p] \in Nat BY <1>0, <1>1 DEF MuxTypeOK, Ids
  <2> QED BY <1>7, <2>3, <2>4 DEF Future
<1>14. \A t \in Sides, i \in Ids :
         /\ Future(t, i)' <=> Future(t, i)
         /\ Unheard(t, i)' => Unheard(t, i) /\ ~(t = s /\ i = id)
  <2> TAKE t \in Sides, i \in Ids
  <2>1. i \in Nat /\ maxPeer[t] \in Nat BY <1>1 DEF MuxTypeOK, Ids
  <2>2. Future(t, i)' <=> Future(t, i) BY DEF Future, IsPeerStreamID
  <2>3. Unheard(t, i)' => Unheard(t, i) /\ ~(t = s /\ i = id)
    <3>1. CASE t = s BY <1>7, <2>1, <3>1 DEF Unheard, IsPeerStreamID
    <3>2. CASE t # s BY <1>0, <1>7, <2>1, <3>2 DEF Unheard, IsPeerStreamID
    <3> QED BY <3>1, <3>2
  <2> QED BY <2>2, <2>3
<1>15. ~Future(s, id) BY DEF Future
<1>16. ASSUME NEW t \in Sides, NEW i \in Ids PROVE StreamInv(t, i)'
  <2> DEFINE q == Peer(t)
  <2>0. q \in Sides BY PeerFact
  <2> HIDE DEF q
  <2>1. /\ Room(t, i) /\ BufferOK(stream[t][i]) /\ FutureInv(t, i) /\ UnheardInv(t, i)
        /\ Woken(t, i)
    BY <1>9
  <2>2. stream'[t][i] = stream[t][i] /\ stream'[q][i] = stream[q][i] BY <1>12, <2>0
  <2>3. Room(t, i)'
    <3> DEFINE d == Total(wire[t], i, "DATA")
               u == Total(wire[q], i, "WINDOW_UPDATE")
               d2 == Total(wire[t], i, "DATA")'
               u2 == Total(wire[q], i, "WINDOW_UPDATE")'
               a == stream[t][i].sendWindow
               b == stream[q][i].receiveWindow
    <3>1. /\ d \in Nat /\ u \in Nat /\ d2 \in Nat /\ u2 \in Nat /\ d2 <= d /\ u2 <= u
          /\ a \in Nat /\ b \in Nat
      BY <1>9, <1>10, <2>0 DEF Streams
    <3>2. d + (IF i \in active[t] THEN a + u ELSE 0) <= b BY <2>1 DEF Room, q
    <3>3. CASE t = s /\ i = id
      <4>1. d = 0 /\ u = 0 BY <1>11, <3>3 DEF q, p
      <4>2. a = DefaultWindow /\ b = DefaultWindow
        BY <1>11, <3>3, NewStreamFact DEF q, p, Unused
      <4> HIDE DEF d, u, d2, u2, a, b
      <4>3. d2 + (IF i \in active'[t] THEN a + u2 ELSE 0) <= b BY <3>1, <4>1, <4>2
      <4> QED BY <2>2, <4>3 DEF Room, q, d2, u2, a, b
    <3>4. CASE ~(t = s /\ i = id)
      <4>1. i \in active'[t] => i \in active[t] BY <1>0, <1>6, <3>4
      <4> HIDE DEF d, u, d2, u2, a, b
      <4>3. d2 + (IF i \in active'[t] THEN a + u2 ELSE 0) <= b BY <3>1, <3>2, <4>1
      <4> QED BY <2>2, <4>3 DEF Room, q, d2, u2, a, b
    <3> QED BY <3>3, <3>4
  <2>4. FutureInv(t, i)'
    <3> SUFFICES ASSUME Future(t, i)
        PROVE  /\ i \notin active'[t] /\ i > maxPeer'[q]
               /\ ~blocked'[t][i] /\ user'[t][i] \in {"idle", "requesting", "failed"}
               /\ user'[t][i] = "requesting" => stream'[t][i] = NewStream(TRUE)
               /\ \A f \in Range(wire'[t]) : f.type = "HEADERS" => f.id # i
               /\ Total(wire[t], i, "DATA")' = 0
      BY <1>14 DEF FutureInv, q
    <3>1. /\ i \notin active[t] /\ i > maxPeer[q] /\ ~blocked[t][i]
          /\ user[t][i] \in {"idle", "requesting", "failed"}
          /\ user[t][i] = "requesting" => stream[t][i] = NewStream(TRUE)
          /\ \A f \in Range(wire[t]) : f.type = "HEADERS" => f.id # i
          /\ Total(wire[t], i, "DATA") = 0
      BY <2>1 DEF FutureInv, q
    <3>2. ~(t = s /\ i = id) BY <1>15
    <3>3. i \notin active'[t] BY <1>0, <1>6, <3>1, <3>2
    <3>4. i > maxPeer'[q]
      <4>1. CASE t = s
        <5>1. q = p BY <4>1 DEF q, p
        <5> QED BY <1>7, <3>1, <5>1
      <4>2. CASE t = p
        <5>1. q = s BY <1>0, <4>2 DEF q
        <5> QED BY <1>7, <1>13, <4>2, <5>1
      <4> QED BY <1>0, <4>1, <4>2
    <3>5. user'[t][i] = user[t][i] BY <1>5, <3>2 DEF Others
    <3>6. \A f \in Range(wire'[t]) : f.type = "HEADERS" => f.id # i
      BY <1>2, <3>1 DEF Calm
    <3>7. Total(wire[t], i, "DATA")' = 0
      <4>1. Total(wire[t], i, "DATA")' \in Nat /\ Total(wire[t], i, "DATA")' <= 0
        BY <1>10, <3>1
      <4> QED BY <4>1
    <3> QED BY <2>2, <3>1, <3>3, <3>4, <3>5, <3>6, <3>7
  <2>5. UnheardInv(t, i)'
    <3> SUFFICES ASSUME Unheard(t, i)'
        PROVE  /\ i \notin active'[t] /\ ~blocked'[t][i] /\ user'[t][i] = "idle"
               /\ stream'[t][i] = NewStream(FALSE) /\ Unused(stream'[q][i])
               /\ Total(wire[t], i, "DATA")' = 0 /\ Total(wire[t], i, "WINDOW_UPDATE")' = 0
               /\ Total(wire[q], i, "WINDOW_UPDATE")' = 0
      BY DEF UnheardInv, q
    <3>1. Unheard(t, i) /\ ~(t = s /\ i = id) BY <1>14
    <3>2. /\ i \notin active[t] /\ ~blocked[t][i] /\ user[t][i] = "idle"
          /\ stream[t][i] = NewStream(FALSE) /\ Unused(stream[q][i])
          /\ Total(wire[t], i, "DATA") = 0 /\ Total(wire[t], i, "WINDOW_UPDATE") = 0
          /\ Total(wire[q], i, "WINDOW_UPDATE") = 0
      BY <2>1, <3>1 DEF UnheardInv, q
    <3>3. i \notin active'[t] BY <1>0, <1>6, <3>1, <3>2
    <3>4. user'[t][i] = user[t][i] BY <1>5, <3>1 DEF Others
    <3>5. \A k \in Nat : k <= 0 => k = 0 OBVIOUS
    <3>6. /\ Total(wire[t], i, "DATA")' = 0 /\ Total(wire[t], i, "WINDOW_UPDATE")' = 0
          /\ Total(wire[q], i, "WINDOW_UPDATE")' = 0
      BY <1>10, <2>0, <3>2, <3>5
    <3> QED BY <2>2, <3>2, <3>3, <3>4, <3>6
  <2>6. Woken(t, i)'
    <3>1. CASE t = s /\ i = id
      BY <1>11, <2>2, <3>1, NewStreamIdle DEF Woken
    <3>2. CASE ~(t = s /\ i = id)
      <4>1. i \in active'[t] => i \in active[t] BY <1>0, <1>6, <3>2
      <4> QED BY <1>2, <2>1, <2>2, <4>1 DEF Woken
    <3> QED BY <3>1, <3>2
  <2> QED BY <2>1, <2>2, <2>3, <2>4, <2>5, <2>6 DEF StreamInv
<1> QED BY <1>8, <1>16 DEF MuxInv

LEMMA ReceiveHeadersKeeps ==
    ASSUME MuxInv, NEW s \in Sides, ReceiveHeaders(s) PROVE MuxInv'
<1>1. MuxTypeOK BY DEF MuxInv
<1>2. Receives(s, "HEADERS") BY DEF ReceiveHeaders
<1>3. /\ Frame(s) \in Frames /\ Frame(s).type = "HEADERS"
      /\ wire' \in [Sides -> Seq(Frames)] /\ \A t \in Sides : Calm(wire[t], wire'[t])
      /\ UNCHANGED <<writer, writing, aborted>>
  BY <1>1, <1>2, ReceivesFact
<1>4. PICK id \in Ids : id = Frame(s).id BY <1>3 DEF Frames
<1>5. UNCHANGED <<ready, nextID, blocked>> BY DEF ReceiveHeaders
<1>6. CASE /\ IsPeerStreamID(s, id) /\ ~ignoreNew[s] /\ id > maxPeer[s]
           /\ maxPeer' = [maxPeer EXCEPT ![s] = id]
           /\ active' = [active EXCEPT ![s] = @ \cup {id}]
           /\ SetStream(s, id, NewStream(FALSE))
           /\ user' = [user EXCEPT ![s][id] = "serving"]
           /\ UNCHANGED errors
  BY <1>2, <1>4, <1>5, <1>6, AcceptKeeps
<1>7. CASE RaiseError(s, id, "STREAM_CLOSED") /\ UNCHANGED <<stream, active, maxPeer, user>>
  <2>1. "STREAM_CLOSED" \in ErrorCodes BY DEF ErrorCodes
  <2>2. errors' \in [Sides -> SUBSET [id : Ids, code : ErrorCodes]]
    BY <1>1, <1>7, <2>1, RaiseErrorFact
  <2> QED BY <1>2, <1>5, <1>7, <2>2, IgnoredKeeps
<1>8. CASE /\ id \in active[s]
           /\ SetStream(s, id, [stream[s][id] EXCEPT !.headersReceived = TRUE])
           /\ UNCHANGED <<active, maxPeer, user, errors>>
  <2> DEFINE st == stream[s][id]
             r == [st EXCEPT !.headersReceived = TRUE]
  <2>1. st \in Streams /\ Woken(s, id) BY InvFact
  <2>2. Kept(st, r) /\ (Signs(st) => Signs(r)) /\ (HasWork(r) => HasWork(st))
    BY <2>1, ReceivedFact
  <2>3. r \in Streams /\ SetStream(s, id, r) BY <1>8, <2>2 DEF Kept
  <2> HIDE DEF r
  <2>4. /\ stream' \in [Sides -> [Ids -> Streams]] /\ stream'[s][id] = r
        /\ Others(stream, stream', s, id)
    BY <1>1, <2>3, SetStreamFact DEF Others
  <2>5. MuxTypeOK' BY <1>1, <1>3, <1>5, <1>8, <2>4 DEF MuxTypeOK
  <2>6. Woken(s, id)' BY <1>3, <1>5, <1>8, <2>1, <2>2, <2>4 DEF Woken, Signs
  <2>7. ~Future(s, id) /\ ~Unheard(s, id) BY <1>8, Taken
  <2>8. Calm(wire[Peer(s)], wire'[Peer(s)]) BY <1>3, PeerFact
  <2>9. Gentle(s, id) BY <1>8, <2>2, <2>4, <2>5, <2>6, <2>7, <2>8, GentleKept
  <2>10. /\ Others(user, user', s, id) /\ Others(blocked, blocked', s, id)
         /\ \A t \in Sides : active'[t] \subseteq active[t] /\ Calm(wire[t], wire'[t])
         /\ \A t \in Sides : Range(ready[t]) \subseteq Range(ready'[t])
    BY <1>3, <1>5, <1>8 DEF Others
  <2> QED BY <1>3, <1>5, <1>8, <2>4, <2>5, <2>9, <2>10, OneStream
<1> QED BY <1>4, <1>6, <1>7, <1>8 DEF ReceiveHeaders

(* What the arrival of n bytes does to a stream that has room for them.    *)
LEMMA EOFFact ==
    ASSUME NEW st \in Streams, NEW n \in Nat, BufferOK(st), n <= st.receiveWindow,
           ~(n > 0 /\ st.closed)
    PROVE  LET r == ReceiveEOF([st EXCEPT !.read = @ + n]) IN
           /\ r \in Streams /\ BufferOK(r)
           /\ r.receiveWindow = st.receiveWindow /\ r.sendWindow = st.sendWindow
           /\ n = 0 /\ Unused(st) => Unused(r)
           /\ Signs(st) => Signs(r)
           /\ HasWork(r) => HasWork(st)
<1> DEFINE got == [st EXCEPT !.read = @ + n]
           r == ReceiveEOF(got)
<1>1. /\ st.read \in Nat /\ st.receiveWindow \in Nat /\ st.windowUpdate \in Nat
      /\ st.currentMax \in Nat /\ st.closed \in BOOLEAN /\ st.receivedEOF \in BOOLEAN
  BY DEF Streams
<1>2. /\ got \in Streams /\ got.read = st.read + n
      /\ got.receiveWindow = st.receiveWindow /\ got.currentMax = st.currentMax
      /\ got.windowUpdate = st.windowUpdate /\ got.sendWindow = st.sendWindow
      /\ got.write = st.write /\ got.writeEOF = st.writeEOF /\ got.hasSpace = st.hasSpace
      /\ got.writeHeaders = st.writeHeaders /\ got.headersSent = st.headersSent
      /\ got.sentEOF = st.sentEOF
  BY DEF Streams
<1>3. r = [[got EXCEPT !.receivedEOF = TRUE] EXCEPT !.closed = TRUE]
  BY DEF ReceiveEOF, CloseRead
<1> HIDE DEF got, r
<1>4. /\ r \in Streams /\ r.read = st.read + n /\ r.closed /\ r.receivedEOF
      /\ r.receiveWindow = st.receiveWindow /\ r.currentMax = st.currentMax
      /\ r.windowUpdate = st.windowUpdate /\ r.sendWindow = st.sendWindow
      /\ r.write = st.write /\ r.writeEOF = st.writeEOF /\ r.hasSpace = st.hasSpace
      /\ r.writeHeaders = st.writeHeaders /\ r.headersSent = st.headersSent
      /\ r.sentEOF = st.sentEOF
  BY <1>2, <1>3 DEF Streams
<1>5. st.read + n <= st.currentMax BY <1>1 DEF BufferOK
<1>6. BufferOK(r) BY <1>4, <1>5 DEF BufferOK
<1>7. n = 0 /\ Unused(st) => Unused(r) BY <1>1, <1>4 DEF Unused
<1>8. Signs(st) => Signs(r) BY <1>4 DEF Signs, WriteBufferFull
<1>9. HasWork(r) => HasWork(st) BY <1>4 DEF HasWork, ChunkBytes, ChunkEOF
<1> QED BY <1>4, <1>6, <1>7, <1>8, <1>9 DEF r, got

LEMMA ConsumeFact ==
    ASSUME NEW st \in Streams, NEW n \in Nat, BufferOK(st), n <= st.receiveWindow,
           ~(n > 0 /\ st.closed)
    PROVE  LET r == ConsumeReceiveWindow([st EXCEPT !.read = @ + n], n) IN
           /\ r \in Streams /\ BufferOK(r)
           /\ r.receiveWindow = st.receiveWindow - n /\ r.sendWindow = st.sendWindow
           /\ n = 0 /\ Unused(st) => Unused(r)
           /\ Signs(st) => Signs(r)
           /\ ~GrowsWindow(st, n) /\ HasWork(r) => HasWork(st)
<1> DEFINE got == [st EXCEPT !.read = @ + n]
           used == [got EXCEPT !.receiveWindow = @ - n]
           r == ConsumeReceiveWindow(got, n)
           m == NextMax(st)
<1>1. /\ st.read \in Nat /\ st.receiveWindow \in Nat /\ st.windowUpdate \in Nat
      /\ st.currentMax \in Nat /\ st.closed \in BOOLEAN /\ st.receivedEOF \in BOOLEAN
      /\ MaxWindow \in Nat /\ DefaultWindow \in Nat \ {0}
  BY WindowAssumption DEF Streams
<1>2. /\ got \in Streams /\ got.read = st.read + n
      /\ got.receiveWindow = st.receiveWindow /\ got.currentMax = st.currentMax
      /\ got.windowUpdate = st.windowUpdate /\ got.sendWindow = st.sendWindow
      /\ got.write = st.write /\ got.writeEOF = st.writeEOF /\ got.hasSpace = st.hasSpace
      /\ got.writeHeaders = st.writeHeaders /\ got.headersSent = st.headersSent
      /\ got.sentEOF = st.sentEOF /\ got.closed = st.closed
      /\ got.receivedEOF = st.receivedEOF
  BY DEF Streams
<1> HIDE DEF got
<1>3. st.receiveWindow - n \in Nat BY <1>1
<1>4. /\ used \in Streams /\ used.read = st.read + n
      /\ used.receiveWindow = st.receiveWindow - n /\ used.currentMax = st.currentMax
      /\ used.windowUpdate = st.windowUpdate /\ used.sendWindow = st.sendWindow
      /\ used.write = st.write /\ used.writeEOF = st.writeEOF /\ used.hasSpace = st.hasSpace
      /\ used.writeHeaders = st.writeHeaders /\ used.headersSent = st.headersSent
      /\ used.sentEOF = st.sentEOF /\ used.closed = st.closed
      /\ used.receivedEOF = st.receivedEOF
  BY <1>2, <1>3 DEF Streams
<1>5. (GrowsWindow(got, n) <=> GrowsWindow(st, n)) /\ NextMax(got) = m
  BY <1>2 DEF GrowsWindow, NextMax
<1>6. r = IF GrowsWindow(st, n)
          THEN [used EXCEPT !.windowUpdate = @ + m - st.currentMax, !.currentMax = m]
          ELSE used
  BY <1>2, <1>5 DEF ConsumeReceiveWindow
<1> HIDE DEF used, r
<1>7. st.currentMax <= MaxWindow BY DEF BufferOK
<1>8. m \in Nat /\ st.currentMax <= m /\ m <= MaxWindow BY <1>1, <1>7 DEF NextMax
<1>9. n = 0 /\ Unused(st) => ~GrowsWindow(st, n)
  <2>1. DefaultWindow \div 2 <= DefaultWindow BY <1>1
  <2>2. DefaultWindow \div 2 \in Nat BY <1>1
  <2>3. ~(DefaultWindow - 0 < DefaultWindow \div 2) BY <1>1, <2>1, <2>2
  <2> QED BY <2>3 DEF Unused, GrowsWindow
<1> HIDE DEF m
<1>10. st.read + n <= st.currentMax BY <1>1 DEF BufferOK
<1>11. CASE GrowsWindow(st, n)
  <2> DEFINE k == used.windowUpdate + m - st.currentMax
  <2>1. k \in Nat /\ k = st.windowUpdate + m - st.currentMax BY <1>1, <1>4, <1>8
  <2>2. r = [used EXCEPT !.windowUpdate = k, !.currentMax = m] BY <1>6, <1>11
  <2> HIDE DEF k
  <2>3. /\ r \in Streams /\ r.read = st.read + n
        /\ r.receiveWindow = st.receiveWindow - n /\ r.currentMax = m
        /\ r.windowUpdate = k /\ r.sendWindow = st.sendWindow
        /\ r.write = st.write /\ r.writeEOF = st.writeEOF /\ r.hasSpace = st.hasSpace
        /\ r.closed = st.closed /\ r.receivedEOF = st.receivedEOF
    BY <1>4, <1>8, <2>1, <2>2 DEF Streams
  <2>4. st.read + n <= m BY <1>1, <1>8, <1>10
  <2>5. BufferOK(r)
    <3>1. CASE st.receivedEOF
      <4>1. st.closed BY <3>1 DEF BufferOK
      <4> QED BY <1>8, <2>3, <2>4, <3>1, <4>1 DEF BufferOK
    <3>2. CASE ~st.receivedEOF
      <4>1. st.read + st.receiveWindow + st.windowUpdate = st.currentMax BY <3>2 DEF BufferOK
      <4>2. (st.read + n) + (st.receiveWindow - n) + k = m BY <1>1, <1>8, <2>1, <4>1
      <4> QED BY <1>8, <2>3, <2>4, <3>2, <4>2 DEF BufferOK
    <3> QED BY <3>1, <3>2
  <2>6. Signs(st) => Signs(r) BY <2>3 DEF Signs, WriteBufferFull
  <2> QED BY <1>9, <1>11, <2>3, <2>5, <2>6 DEF r, got
<1>12. CASE ~GrowsWindow(st, n)
  <2>1. r = used BY <1>6, <1>12
  <2>2. BufferOK(r)
    <3>1. CASE st.receivedEOF
      <4>1. st.closed BY <3>1 DEF BufferOK
      <4> QED BY <1>4, <1>7, <1>10, <2>1, <3>1, <4>1 DEF BufferOK
    <3>2. CASE ~st.receivedEOF
      <4>1. st.read + st.receiveWindow + st.windowUpdate = st.currentMax BY <3>2 DEF BufferOK
      <4>2. (st.read + n) + (st.receiveWindow - n) + st.windowUpdate = st.currentMax
        BY <1>1, <4>1
      <4> QED BY <1>4, <1>7, <1>10, <2>1, <3>2, <4>2 DEF BufferOK
    <3> QED BY <3>1, <3>2
  <2>3. n = 0 /\ Unused(st) => Unused(r) BY <1>1, <1>4, <2>1 DEF Unused
  <2>4. Signs(st) => Signs(r) BY <1>4, <2>1 DEF Signs, WriteBufferFull
  <2>5. HasWork(r) => HasWork(st) BY <1>4, <2>1 DEF HasWork, ChunkBytes, ChunkEOF
  <2> QED BY <1>4, <2>1, <2>2, <2>3, <2>4, <2>5 DEF r, got
<1> QED BY <1>11, <1>12

(* A frame with f.n bytes for a stream in the map.                         *)
LEMMA TakenKeeps ==
    ASSUME MuxInv, MuxTypeOK', NEW s \in Sides, NEW kind, Receives(s, kind),
           NEW id \in Ids, id \in active[s],
           nextID' = nextID, maxPeer' = maxPeer, UNCHANGED <<user, blocked>>,
           \A t \in Sides : active'[t] \subseteq active[t],
           \A t \in Sides : Range(ready[t]) \subseteq Range(ready'[t]),
           NEW st \in Streams, SetStream(s, id, st), BufferOK(st),
           st.receiveWindow + BytesOf(Frame(s), id, "DATA") >= stream[s][id].receiveWindow,
           st.sendWindow <= stream[s][id].sendWindow + BytesOf(Frame(s), id, "WINDOW_UPDATE"),
           Unheard(Peer(s), id) /\ Unused(stream[s][id]) => Unused(st),
           Signs(stream[s][id]) => Signs(st),
           HasWork(st) => HasWork(stream[s][id]) \/ aborted[s] \/ id \in Range(ready'[s])
    PROVE  MuxInv'
<1> DEFINE p == Peer(s)
           old == stream[s][id]
<1>0. p \in Sides BY PeerFact
<1>1. MuxTypeOK /\ old \in Streams /\ Woken(s, id) BY InvFact
<1>2. (\A t \in Sides : Calm(wire[t], wire'[t])) /\ aborted' = aborted BY <1>1, ReceivesFact
<1>3. stream'[s][id] = st /\ Others(stream, stream', s, id)
  BY <1>1, SetStreamFact DEF Others
<1>4. Others(user, user', s, id) /\ Others(blocked, blocked', s, id) BY DEF Others
<1>5. ~Future(s, id) /\ ~Unheard(s, id) BY Taken
<1>6. Woken(s, id)' BY <1>1, <1>2, <1>3 DEF Woken, Signs
<1>7. /\ Total(wire[p], id, "DATA")' + old.receiveWindow
           <= Total(wire[p], id, "DATA") + st.receiveWindow
      /\ st.sendWindow + Total(wire[p], id, "WINDOW_UPDATE")'
           <= old.sendWindow + Total(wire[p], id, "WINDOW_UPDATE")
  <2> DEFINE d == Total(wire[p], id, "DATA")
             d2 == Total(wire[p], id, "DATA")'
             u == Total(wire[p], id, "WINDOW_UPDATE")
             u2 == Total(wire[p], id, "WINDOW_UPDATE")'
             x == BytesOf(Frame(s), id, "DATA")
             y == BytesOf(Frame(s), id, "WINDOW_UPDATE")
             a == old.receiveWindow
             b == st.receiveWindow
             v == old.sendWindow
             w == st.sendWindow
  <2>1. d = x + d2 /\ u = y + u2 /\ d2 \in Nat /\ u2 \in Nat /\ x \in Nat /\ y \in Nat
    BY <1>1, FrameFact
  <2>2. a \in Nat /\ b \in Nat /\ v \in Nat /\ w \in Nat BY <1>1 DEF Streams
  <2>3. b + x >= a /\ w <= v + y OBVIOUS
  <2> HIDE DEF d, d2, u, u2, x, y, a, b, v, w
  <2>4. d2 + a <= d + b /\ w + u2 <= v + u BY <2>1, <2>2, <2>3
  <2> QED BY <2>4 DEF d, d2, u, u2, a, b, v, w
<1>8. Gentle(s, id) BY <1>3, <1>5, <1>6, <1>7 DEF Gentle
<1> QED BY <1>2, <1>3, <1>4, <1>8, OneStream

LEMMA ReceiveDataKeeps ==
    ASSUME MuxInv, NEW s \in Sides, ReceiveData(s) PROVE MuxInv'
<1> DEFINE p == Peer(s)
<1>0. p \in Sides /\ Peer(p) = s BY PeerFact
<1>1. MuxTypeOK BY DEF MuxInv
<1>2. Receives(s, "DATA") BY DEF ReceiveData
<1>3. /\ Frame(s) \in Frames /\ Frame(s).type = "DATA"
      /\ wire' \in [Sides -> Seq(Frames)] /\ UNCHANGED <<writer, writing, aborted>>
  BY <1>1, <1>2, ReceivesFact
<1>4. PICK f \in [type : {"DATA"}, id : Ids, eof : BOOLEAN, n : Nat] : f = Frame(s)
  BY <1>3 DEF Frames
<1>5. PICK id \in Ids, n \in Nat : id = f.id /\ n = f.n BY <1>4
<1> DEFINE st == stream[s][id]
           got == [st EXCEPT !.read = @ + n]
<1>6. UNCHANGED <<user, blocked>> BY DEF ReceiveData, apps
<1>7. /\ BytesOf(Frame(s), id, "DATA") = n /\ BytesOf(Frame(s), id, "WINDOW_UPDATE") = 0
  BY <1>4, <1>5 DEF BytesOf
<1>8. st \in Streams /\ BufferOK(st) BY InvFact
<1>9. n <= st.receiveWindow /\ (Unheard(p, id) => n = 0)
  <2> DEFINE d == Total(wire[p], id, "DATA")
             d2 == Total(wire[p], id, "DATA")'
             x == IF id \in active[p] THEN stream[p][id].sendWindow
                      + Total(wire[s], id, "WINDOW_UPDATE") ELSE 0
             b == st.receiveWindow
  <2>1. d = n + d2 /\ d2 \in Nat BY <1>1, <1>2, <1>7, FrameFact
  <2>2. d + x <= b BY <1>0, InvFact DEF Room
  <2>3. x \in Nat /\ b \in Nat
    <3>1. stream[p][id] \in Streams /\ Total(wire[s], id, "WINDOW_UPDATE") \in Nat
      BY <1>0, InvFact
    <3>2. stream[p][id].sendWindow \in Nat /\ b \in Nat BY <1>8, <3>1 DEF Streams
    <3> QED BY <3>1, <3>2
  <2>4. Unheard(p, id) => d = 0 BY <1>0, InvFact DEF UnheardInv
  <2> HIDE DEF d, d2, x, b
  <2>5. n <= b /\ (d = 0 => n = 0) BY <2>1, <2>2, <2>3
  <2> QED BY <2>4, <2>5 DEF b
<1>10. ASSUME UNCHANGED <<stream, maps, ready>>,
              errors' = errors \/ RaiseError(s, id, "STREAM_CLOSED") \/ RaiseError(s, id, "INTERNAL")
       PROVE  MuxInv'
  <2>1. "STREAM_CLOSED" \in ErrorCodes /\ "INTERNAL" \in ErrorCodes BY DEF ErrorCodes
  <2>2. errors' \in [Sides -> SUBSET [id : Ids, code : ErrorCodes]]
    <3>1. CASE errors' = errors BY <1>1, <3>1 DEF MuxTypeOK
    <3> QED BY <1>1, <1>10, <2>1, <3>1, RaiseErrorFact
  <2>3. UNCHANGED <<stream, active, nextID, maxPeer, ready>> BY <1>10 DEF maps
  <2> QED BY <1>2, <1>6, <2>2, <2>3, IgnoredKeeps
<1>11. CASE /\ id \in active[s] /\ ~(n > 0 /\ st.closed)
            /\ SetStream(s, id, ReceiveEOF(got))
            /\ IF EOFCloses(st) THEN Delete(s, id) ELSE UNCHANGED maps
            /\ UNCHANGED <<ready, errors>>
  <2> DEFINE r == ReceiveEOF(got)
  <2>1. /\ r \in Streams /\ BufferOK(r)
        /\ r.receiveWindow = st.receiveWindow /\ r.sendWindow = st.sendWindow
        /\ n = 0 /\ Unused(st) => Unused(r)
        /\ Signs(st) => Signs(r)
        /\ HasWork(r) => HasWork(st)
    BY <1>8, <1>9, <1>11, EOFFact
  <2>2. SetStream(s, id, r) BY <1>11
  <2> HIDE DEF r
  <2>3. stream' \in [Sides -> [Ids -> Streams]] BY <1>1, <2>1, <2>2, SetStreamFact
  <2>4. /\ active' \in [Sides -> SUBSET Ids] /\ nextID' = nextID /\ maxPeer' = maxPeer
        /\ \A t \in Sides : active'[t] \subseteq active[t]
    <3>1. Delete(s, id) \/ UNCHANGED maps BY <1>11
    <3>2. UNCHANGED maps => active' = active /\ nextID' = nextID /\ maxPeer' = maxPeer
      BY DEF maps
    <3>3. active \in [Sides -> SUBSET Ids] BY <1>1 DEF MuxTypeOK
    <3> QED BY <1>1, <3>1, <3>2, <3>3, DeleteFact
  <2>5. MuxTypeOK' BY <1>1, <1>3, <1>6, <1>11, <2>3, <2>4 DEF MuxTypeOK
  <2>6. st.receiveWindow \in Nat /\ st.sendWindow \in Nat BY <1>8 DEF Streams
  <2>7. /\ r.receiveWindow + BytesOf(Frame(s), id, "DATA") >= st.receiveWindow
        /\ r.sendWindow <= st.sendWindow + BytesOf(Frame(s), id, "WINDOW_UPDATE")
    BY <1>7, <2>1, <2>6
  <2>8. Unheard(Peer(s), id) /\ Unused(st) => Unused(r) BY <1>9, <2>1
  <2>9. \A t \in Sides : Range(ready[t]) \subseteq Range(ready'[t]) BY <1>11
  <2> QED BY <1>2, <1>6, <1>11, <2>1, <2>2, <2>4, <2>5, <2>7, <2>8, <2>9, TakenKeeps
<1>12. CASE /\ id \in active[s] /\ ~(n > 0 /\ st.closed)
            /\ SetStream(s, id, ConsumeReceiveWindow(got, n))
            /\ IF GrowsWindow(st, n) THEN Signal(s, id) ELSE UNCHANGED ready
            /\ UNCHANGED errors /\ UNCHANGED maps
  <2> DEFINE r == ConsumeReceiveWindow(got, n)
  <2>1. /\ r \in Streams /\ BufferOK(r)
        /\ r.receiveWindow = st.receiveWindow - n /\ r.sendWindow = st.sendWindow
        /\ n = 0 /\ Unused(st) => Unused(r)
        /\ Signs(st) => Signs(r)
        /\ ~GrowsWindow(st, n) /\ HasWork(r) => HasWork(st)
    BY <1>8, <1>9, <1>12, ConsumeFact
  <2>2. SetStream(s, id, r) BY <1>12
  <2> HIDE DEF r
  <2>3. stream' \in [Sides -> [Ids -> Streams]] BY <1>1, <2>1, <2>2, SetStreamFact
  <2>4. active' = active /\ nextID' = nextID /\ maxPeer' = maxPeer BY <1>12 DEF maps
  <2>5. /\ Signalled(s, {})
        /\ GrowsWindow(st, n) => aborted[s] \/ id \in Range(ready'[s])
    <3>1. CASE GrowsWindow(st, n)
      <4>1. Signalled(s, {id}) BY <1>1, <1>12, <3>1, SignalledFact DEF Signal
      <4> QED BY <4>1 DEF Signalled
    <3>2. CASE ~GrowsWindow(st, n) BY <1>1, <1>12, <3>2, SameApps
    <3> QED BY <3>1, <3>2
  <2>6. MuxTypeOK' BY <1>1, <1>3, <1>6, <1>12, <2>3, <2>4, <2>5 DEF MuxTypeOK, Signalled
  <2>7. st.receiveWindow \in Nat /\ st.sendWindow \in Nat BY <1>8 DEF Streams
  <2>8. /\ r.receiveWindow + BytesOf(Frame(s), id, "DATA") >= st.receiveWindow
        /\ r.sendWindow <= st.sendWindow + BytesOf(Frame(s), id, "WINDOW_UPDATE")
    BY <1>7, <2>1, <2>7
  <2>9. Unheard(Peer(s), id) /\ Unused(st) => Unused(r) BY <1>9, <2>1
  <2>10. \A t \in Sides : Range(ready[t]) \subseteq Range(ready'[t]) BY <2>5 DEF Signalled
  <2>11. HasWork(r) => HasWork(st) \/ aborted[s] \/ id \in Range(ready'[s]) BY <2>1, <2>5
  <2> QED BY <1>2, <1>6, <1>12, <2>1, <2>2, <2>4, <2>6, <2>8, <2>9, <2>10, <2>11, TakenKeeps
<1>13. ~(st.receiveWindow < n)
  <2>1. st.receiveWindow \in Nat BY <1>8 DEF Streams
  <2> QED BY <1>9, <2>1
<1> HIDE DEF st
<1>14. \/ UNCHANGED <<stream, maps, ready>>
          /\ (errors' = errors \/ RaiseError(s, id, "STREAM_CLOSED") \/ RaiseError(s, id, "INTERNAL"))
       \/ /\ id \in active[s] /\ ~(n > 0 /\ st.closed)
          /\ SetStream(s, id, ReceiveEOF(got))
          /\ IF EOFCloses(st) THEN Delete(s, id) ELSE UNCHANGED maps
          /\ UNCHANGED <<ready, errors>>
       \/ /\ id \in active[s] /\ ~(n > 0 /\ st.closed)
          /\ SetStream(s, id, ConsumeReceiveWindow(got, n))
          /\ IF GrowsWindow(st, n) THEN Signal(s, id) ELSE UNCHANGED ready
          /\ UNCHANGED errors /\ UNCHANGED maps
  BY <1>4, <1>5, <1>13 DEF ReceiveData, st
<1> QED BY <1>10, <1>11, <1>12, <1>14

LEMMA ReceiveWindowUpdateKeeps ==
    ASSUME MuxInv, NEW s \in Sides, ReceiveWindowUpdate(s) PROVE MuxInv'
<1>1. MuxTypeOK BY DEF MuxInv
<1>2. Receives(s, "WINDOW_UPDATE") BY DEF ReceiveWindowUpdate
<1>3. /\ Frame(s) \in Frames /\ Frame(s).type = "WINDOW_UPDATE"
      /\ wire' \in [Sides -> Seq(Frames)] /\ UNCHANGED <<writer, writing, aborted>>
  BY <1>1, <1>2, ReceivesFact
<1>4. PICK f \in [type : {"WINDOW_UPDATE"}, id : Ids, n : Nat] : f = Frame(s)
  BY <1>3 DEF Frames
<1>5. PICK id \in Ids, n \in Nat : id = f.id /\ n = f.n BY <1>4
<1> DEFINE st == stream[s][id]
           r == ReplenishSendWindow(st, n)
<1>6. UNCHANGED <<user, blocked, active, nextID, maxPeer, errors>>
  BY DEF ReceiveWindowUpdate, apps, maps
<1>7. BytesOf(Frame(s), id, "DATA") = 0 /\ BytesOf(Frame(s), id, "WINDOW_UPDATE") = n
  BY <1>4, <1>5 DEF BytesOf
<1>8. st \in Streams /\ BufferOK(st) BY InvFact
<1>9. CASE id \notin active[s]
  <2>1. UNCHANGED <<stream, ready>> BY <1>4, <1>5, <1>9 DEF ReceiveWindowUpdate
  <2>2. errors' \in [Sides -> SUBSET [id : Ids, code : ErrorCodes]]
    BY <1>1, <1>6 DEF MuxTypeOK
  <2> QED BY <1>2, <1>6, <2>1, <2>2, IgnoredKeeps
<1>10. CASE id \in active[s]
  <2>1. SetStream(s, id, r) /\ Signal(s, id) BY <1>4, <1>5, <1>10 DEF ReceiveWindowUpdate
  <2>2. /\ r \in Streams /\ r.receiveWindow = st.receiveWindow
        /\ r.sendWindow = st.sendWindow + n
        /\ BufferOK(r) /\ (Unused(st) => Unused(r)) /\ (Signs(st) => Signs(r))
    <3>1. st.sendWindow + n \in Nat BY <1>8 DEF Streams
    <3>2. /\ r \in Streams /\ r.receiveWindow = st.receiveWindow
          /\ r.sendWindow = st.sendWindow + n
          /\ r.read = st.read /\ r.currentMax = st.currentMax /\ r.closed = st.closed
          /\ r.windowUpdate = st.windowUpdate /\ r.receivedEOF = st.receivedEOF
          /\ r.write = st.write /\ r.writeEOF = st.writeEOF /\ r.hasSpace = st.hasSpace
      BY <1>8, <3>1 DEF ReplenishSendWindow, Streams
    <3> HIDE DEF r
    <3> QED BY <1>8, <3>2 DEF BufferOK, Unused, Signs, WriteBufferFull
  <2> HIDE DEF r
  <2>3. stream' \in [Sides -> [Ids -> Streams]] BY <1>1, <2>1, <2>2, SetStreamFact
  <2>4. Signalled(s, {id}) BY <1>1, <2>1, SignalledFact DEF Signal
  <2>5. MuxTypeOK' BY <1>1, <1>3, <1>6, <2>3, <2>4 DEF MuxTypeOK, Signalled
  <2>6. st.receiveWindow \in Nat /\ st.sendWindow \in Nat BY <1>8 DEF Streams
  <2>7. /\ r.receiveWindow + BytesOf(Frame(s), id, "DATA") >= st.receiveWindow
        /\ r.sendWindow <= st.sendWindow + BytesOf(Frame(s), id, "WINDOW_UPDATE")
    BY <1>7, <2>2, <2>6
  <2>8. /\ \A t \in Sides : Range(ready[t]) \subseteq Range(ready'[t])
        /\ aborted[s] \/ id \in Range(ready'[s])
        /\ \A t \in Sides : active'[t] \subseteq active[t]
    BY <1>6, <2>4 DEF Signalled
  <2> QED BY <1>2, <1>6, <1>10, <2>1, <2>2, <2>5, <2>7, <2>8, TakenKeeps
<1> QED BY <1>9, <1>10

LEMMA ReceiveResetKeeps ==
    ASSUME MuxInv, NEW s \in Sides, ReceiveReset(s) PROVE MuxInv'
<1>1. MuxTypeOK BY DEF MuxInv
<1>2. /\ wire' \in [Sides -> Seq(Frames)] /\ \A t \in Sides : Calm(wire[t], wire'[t])
      /\ UNCHANGED <<writer, writing, aborted>>
  BY <1>1, ReceivesFact DEF ReceiveReset
<1>3. PICK ids \in SUBSET Ids : ids \subseteq active[s] /\ CloseStreams(s, ids)
  <2>1. active[s] \subseteq Ids BY <1>1 DEF MuxTypeOK
  <2> QED BY <2>1 DEF ReceiveReset
<1>4. UNCHANGED <<errors, user, blocked>> BY DEF ReceiveReset, apps
<1>5. /\ active' \in [Sides -> SUBSET Ids] /\ nextID' = nextID /\ maxPeer' = maxPeer
      /\ \A t \in Sides : active'[t] \subseteq active[t]
  BY <1>1, DeleteFact DEF ReceiveReset
<1>6. stream' \in [Sides -> [Ids -> Streams]] /\ ready' \in [Sides -> Seq(Ids)]
  BY <1>1, <1>3, CloseStreamsFact DEF Signalled
<1>7. MuxTypeOK' BY <1>1, <1>2, <1>4, <1>5, <1>6 DEF MuxTypeOK
<1>8. \A i \in ids : ~Future(s, i) /\ ~Unheard(s, i) BY <1>3, Taken
<1> QED BY <1>2, <1>3, <1>4, <1>5, <1>7, <1>8, CloseStep

LEMMA ReceiveGoAwayKeeps ==
    ASSUME MuxInv, NEW s \in Sides, ReceiveGoAway(s) PROVE MuxInv'
<1>1. MuxTypeOK BY DEF MuxInv
<1>2. /\ wire' \in [Sides -> Seq(Frames)] /\ \A t \in Sides : Calm(wire[t], wire'[t])
      /\ UNCHANGED <<writer, writing, aborted>>
  BY <1>1, ReceivesFact DEF ReceiveGoAway
<1>3. PICK ids \in SUBSET Ids : ids \subseteq active[s] /\ CloseStreams(s, ids)
  <2>1. active[s] \subseteq Ids BY <1>1 DEF MuxTypeOK
  <2> QED BY <2>1 DEF ReceiveGoAway
<1>4. UNCHANGED <<errors, user, blocked, active, nextID, maxPeer>>
  BY DEF ReceiveGoAway, apps
<1>6. stream' \in [Sides -> [Ids -> Streams]] /\ ready' \in [Sides -> Seq(Ids)]
  BY <1>1, <1>3, CloseStreamsFact DEF Signalled
<1>7. MuxTypeOK' BY <1>1, <1>2, <1>4, <1>6 DEF MuxTypeOK
<1>8. \A i \in ids : ~Future(s, i) /\ ~Unheard(s, i) BY <1>3, Taken
<1> QED BY <1>2, <1>3, <1>4, <1>7, <1>8, CloseStep

LEMMA MuxInvInit == MuxInit => MuxInv
<1> SUFFICES ASSUME MuxInit PROVE MuxInv OBVIOUS
<1>1. NewStream(FALSE) \in Streams /\ Unused(NewStream(FALSE)) /\ BufferOK(NewStream(FALSE))
  BY NewStreamFact
<1>2. /\ stream \in [Sides -> [Ids -> Streams]]
      /\ \A s \in Sides, id \in Ids : stream[s][id] = NewStream(FALSE)
  BY <1>1 DEF MuxInit
<1>3. /\ ready \in [Sides -> Seq(Ids)] /\ wire \in [Sides -> Seq(Frames)]
      /\ \A s \in Sides : wire[s] = <<>> /\ active[s] = {} /\ errors[s] = {} /\ maxPeer[s] = 0
  BY DEF MuxInit
<1>4. /\ user \in [Sides -> [Ids -> Users]] /\ blocked \in [Sides -> [Ids -> BOOLEAN]]
      /\ \A s \in Sides, id \in Ids : user[s][id] = "idle" /\ ~blocked[s][id]
  BY DEF MuxInit, Users
<1>5. nextID \in [Sides -> Nat] /\ nextID["origin"] = 1 /\ nextID["edge"] = 2
  BY DEF MuxInit, Sides
<1>6. MuxTypeOK
  <2>1. 1 % 2 = 1 /\ 2 % 2 = 0 OBVIOUS
  <2>2. nextID["origin"] % 2 = 1 /\ nextID["edge"] % 2 = 0 BY <1>5, <2>1
  <2>3. /\ active \in [Sides -> SUBSET Ids] /\ maxPeer \in [Sides -> Nat]
        /\ errors \in [Sides -> SUBSET [id : Ids, code : ErrorCodes]]
        /\ writing \in [Sides -> Nat] /\ writer \in [Sides -> {"loop", "eof", "ended"}]
        /\ aborted \in [Sides -> BOOLEAN]
        /\ \A s \in Sides : writer[s] = "eof" => writing[s] \in Ids
    BY DEF MuxInit
  <2> QED BY <1>2, <1>3, <1>4, <1>5, <2>2, <2>3 DEF MuxTypeOK
<1>7. ASSUME NEW s \in Sides, NEW id \in Ids PROVE StreamInv(s, id)
  <2> DEFINE p == Peer(s)
  <2>0. p \in Sides BY PeerFact
  <2>1. \A t \in Sides : Total(wire[t], id, "DATA") = 0 /\ Total(wire[t], id, "WINDOW_UPDATE") = 0
    <3> TAKE t \in Sides
    <3>1. wire[t] \in Seq(Frames) /\ \A f \in Range(wire[t]) : FALSE BY <1>3 DEF Range
    <3> QED BY <3>1, ForeignZero
  <2> HIDE DEF p
  <2>2. stream[s][id] = NewStream(FALSE) /\ stream[p][id] = NewStream(FALSE) BY <1>2, <2>0
  <2>3. Room(s, id)
    <3>1. id \notin active[s] BY <1>3
    <3>2. Total(wire[s], id, "DATA") = 0 BY <2>1
    <3>3. stream[p][id].receiveWindow \in Nat BY <1>2, <2>0 DEF Streams
    <3>4. 0 + 0 <= stream[p][id].receiveWindow BY <3>3
    <3> QED BY <3>1, <3>2, <3>4 DEF Room, p
  <2>4. id > 0 BY DEF Ids
  <2>5. FutureInv(s, id)
    <3>1. \A f \in Range(wire[s]) : FALSE BY <1>3 DEF Range
    <3> QED BY <1>3, <1>4, <2>0, <2>1, <2>4, <3>1 DEF FutureInv, p
  <2>6. UnheardInv(s, id) BY <1>1, <1>3, <1>4, <2>0, <2>1, <2>2 DEF UnheardInv, p
  <2>7. Woken(s, id) BY <1>3, <1>4 DEF Woken
  <2> QED BY <1>1, <2>2, <2>3, <2>5, <2>6, <2>7 DEF StreamInv
<1> QED BY <1>6, <1>7 DEF MuxInv

LEMMA MuxInvNext == MuxInv /\ [MuxNext]_muxVars => MuxInv'
<1> SUFFICES ASSUME MuxInv, [MuxNext]_muxVars PROVE MuxInv' OBVIOUS
<1>1. ASSUME NEW s \in Sides, Writer(s) PROVE MuxInv'
  <2>1. CASE \E id \in Ids : WriterNewStream(s, id) BY <2>1, WriterNewStreamKeeps
  <2>2. CASE WriterDropped(s) \/ WriterAborts(s) \/ WriterFails(s)
    <3>1. WriterEnds(s) BY <2>2 DEF WriterDropped, WriterAborts, WriterFails
    <3> QED BY <3>1, LoopEndsKeep
  <2> QED BY <1>1, <2>1, <2>2, WriterReadyKeeps, WriterAfterEOFKeeps, WriterSendsKeeps DEF Writer
<1>2. ASSUME NEW s \in Sides, Reader(s) PROVE MuxInv'
  <2>1. CASE ReaderFails(s)
    <3>1. ReaderEnds(s) BY <2>1 DEF ReaderFails
    <3> QED BY <3>1, LoopEndsKeep
  <2> QED BY <1>2, <2>1, ReceiveHeadersKeeps, ReceiveDataKeeps, ReceiveWindowUpdateKeeps,
             ReceiveResetKeeps, ReceiveGoAwayKeeps DEF Reader
<1>3. CASE Stall
  <2>1. "origin" \in Sides BY DEF Sides
  <2> QED BY <1>3, <2>1, EndsKeep
<1>4. CASE UNCHANGED muxVars
  <2>1. /\ UNCHANGED <<stream, active, nextID, maxPeer, ready, errors, writer, writing>>
        /\ UNCHANGED <<aborted, wire, user, blocked>>
    BY <1>4 DEF muxVars, maps, conns, apps
  <2>2. MuxTypeOK BY DEF MuxInv
  <2>3. MuxTypeOK' BY <2>1, <2>2 DEF MuxTypeOK
  <2>4. \A t \in Sides : active'[t] \subseteq active[t] /\ Calm(wire[t], wire'[t])
    BY <2>1, <2>2, WireSame
  <2> QED BY <2>1, <2>3, <2>4, StillStep
<1> QED BY <1>1, <1>2, <1>3, <1>4, AppKeeps, EndsKeep DEF MuxNext

(* The invariant of the windows, of what is on the wire and of the ready   *)
(* list holds in every state of the two muxers.                            *)
THEOREM MuxInvariance == MuxSpec => []MuxInv
BY MuxInvInit, MuxInvNext, PTL DEF MuxSpec

LEMMA MuxInvSound == MuxInv => FlowControlSound
<1> SUFFICES ASSUME MuxInv PROVE FlowControlSound OBVIOUS
<1>1. ASSUME NEW s \in Sides, NEW id \in Ids
      PROVE  LET to == stream[Peer(s)][id] IN
             /\ id \in active[s] =>
                  stream[s][id].sendWindow + InFlight(s, id, "DATA")
                     + InFlight(Peer(s), id, "WINDOW_UPDATE") <= to.receiveWindow
             /\ to.read <= to.currentMax /\ to.currentMax <= MaxWindow
             /\ \A e \in errors[s] : e.code # "FLOW_CONTROL"
  <2> DEFINE p == Peer(s)
             d == Total(wire[s], id, "DATA")
             u == Total(wire[p], id, "WINDOW_UPDATE")
             a == stream[s][id].sendWindow
             b == stream[p][id].receiveWindow
  <2>0. p \in Sides BY PeerFact
  <2>1. Room(s, id) /\ stream[s][id] \in Streams /\ d \in Nat /\ MuxTypeOK BY InvFact
  <2>2. BufferOK(stream[p][id]) /\ stream[p][id] \in Streams /\ u \in Nat BY <2>0, InvFact
  <2>3. a \in Nat /\ b \in Nat BY <2>1, <2>2 DEF Streams
  <2>4. id \in active[s] => d + (a + u) <= b BY <2>1 DEF Room
  <2>5. \A e \in errors[s] : e.code # "FLOW_CONTROL"
    <3>1. errors[s] \subseteq [id : Ids, code : ErrorCodes] BY <2>1 DEF MuxTypeOK
    <3>2. \A e \in errors[s] : e.code \in ErrorCodes BY <3>1
    <3> QED BY <3>2 DEF ErrorCodes
  <2> HIDE DEF d, u, a, b, p
  <2>6. id \in active[s] => a + d + u <= b BY <2>1, <2>2, <2>3, <2>4
  <2> QED BY <2>2, <2>5, <2>6 DEF BufferOK, InFlight, a, b, d, u, p
<1>2. WindowsAgree BY <1>1 DEF WindowsAgree
<1>3. ASSUME NEW s \in Sides, NEW id \in Ids PROVE Woken(s, id) BY InvFact
<1>4. NoLostWakeup BY <1>3 DEF NoLostWakeup, Woken
<1> QED BY <1>2, <1>4 DEF FlowControlSound

(***************************************************************************)
(* Flow control between two muxers: a side never has more to send, in      *)
(* flight and granted than its peer's consumeReceiveWindow will take, so   *)
(* no stream is reset for FLOW_CONTROL, and no wake-up of the writer or of *)
(* a Write that waits is lost.                                             *)
(***************************************************************************)
THEOREM FlowControlHolds == MuxSpec => []FlowControlSound
BY MuxInvariance, MuxInvSound, PTL
=============================================================================
