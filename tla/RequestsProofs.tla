--------------------------- MODULE RequestsProofs ---------------------------
(***************************************************************************)
(* Proofs about the requests that one connection with the edge carries     *)
(* (module Requests): how a stream ends tells the edge how the request     *)
(* went, and nothing is left behind.                                       *)
(***************************************************************************)
EXTENDS Requests, TLAPS

Types == {"none", "http", "websocket", "tcp", "rpc", "unknown", "configuration", "control"}
Stages == {"idle", "proxy", "other", "roundtrip", "connect", "local", "respond", "upgrade",
           "copy", "pipe", "unwind", "fail", "close", "closing", "done"}
HeadNames == {"origin", "error", "local", "filtered", "implicit"}

Fins == {"open", "queued", "end", "reset"}

ReqTypeOK ==
    /\ transport \in {"http2", "quic"} /\ conn \in {"open", "closed", "lost"}
    /\ job \in [Reqs -> [type : Types, svc : Services \cup {"none", "off"}]]
    /\ stage \in [Reqs -> Stages]
    /\ reply \in [Reqs -> Seq(HeadNames)]
    /\ sent \in [Reqs -> BOOLEAN]
    /\ body \in [Reqs -> {"none", "whole", "cut", "pipe"}]
    /\ fin \in [Reqs -> Fins]
    /\ peer \in [Reqs -> {"open", "eof", "gone"}]
    /\ origin \in [Reqs -> {"none", "open", "ended", "closed"}]

-----------------------------------------------------------------------------
(***************************************************************************)
(* What the handler of a request has written when it is at a stage.  The   *)
(* error path is the hard one: whoever fails after a head was tried has    *)
(* set sent, and the ones before have written nothing at all, so that the  *)
(* choice between an error response and a reset is right either way.       *)
(***************************************************************************)
Clean(r) == reply[r] = <<>> /\ ~sent[r] /\ body[r] = "none" /\ fin[r] = "open"

Answered(r) ==
    \/ reply[r] = <<"origin">> /\ body[r] \in {"whole", "pipe"}
    \/ body[r] = "none" /\ \E h \in HeadNames \ {"origin"} : reply[r] = <<h>>

BeforeHead == {"idle", "proxy", "roundtrip", "connect", "local", "respond", "upgrade"}

(* HTTP/2 answers for a handler that wrote nothing, with a head that only  *)
(* unproxied requests get.                                                 *)
StageInv(r) ==
    /\ stage[r] = "idle" => ~Proxied(r) /\ Clean(r)
    /\ stage[r] \notin {"idle", "other", "fail", "close", "closing", "done"} => Proxied(r)
    /\ Proxied(r) =>
         /\ stage[r] # "other"
         /\ stage[r] \in BeforeHead => Clean(r)
         /\ stage[r] = "copy" =>
              reply[r] = <<"origin">> /\ sent[r] /\ body[r] = "none" /\ fin[r] = "open"
         /\ stage[r] \in {"pipe", "unwind"} =>
              reply[r] = <<"origin">> /\ sent[r] /\ body[r] = "pipe" /\ fin[r] = "open"
         /\ stage[r] = "fail" => fin[r] = "open" /\ (sent[r] \/ Clean(r))
         /\ stage[r] \in {"close", "closing", "done"} =>
              Broken(r) \/ fin[r] = "reset" \/ Answered(r)

RuleInv(r) == job[r].type \in {"http", "websocket"} => job[r].svc \in Services

OriginInv(r) ==
    stage[r] \notin {"respond", "upgrade", "copy", "pipe", "unwind"} =>
        origin[r] \in {"none", "closed"}

RInv(r) == StageInv(r) /\ RuleInv(r) /\ OriginInv(r)

DrainInv == transport = "http2" /\ conn = "closed" => \A r \in Reqs : ~Running(r)

RequestsInv == ReqTypeOK /\ (\A r \in Reqs : RInv(r)) /\ DrainInv

-----------------------------------------------------------------------------
LEMMA RequestsInitInv == RequestsInit => RequestsInv
<1> SUFFICES ASSUME RequestsInit PROVE RequestsInv OBVIOUS
<1>1. ReqTypeOK BY DEF RequestsInit, ReqTypeOK, Types, Stages, Fins
<1>2. \A r \in Reqs : RInv(r)
  BY DEF RequestsInit, RInv, StageInv, RuleInv, OriginInv, Clean, Proxied, BeforeHead
<1>3. DrainInv BY DEF RequestsInit, DrainInv
<1> QED BY <1>1, <1>2, <1>3 DEF RequestsInv

(***************************************************************************)
(* A step of one request leaves the others, and the connection, alone.     *)
(***************************************************************************)
OnlyOf(r) ==
    /\ UNCHANGED <<transport, conn>>
    /\ \A q \in Reqs \ {r} : UNCHANGED <<job[q], stage[q], reply[q], sent[q], body[q], fin[q],
                                         peer[q], origin[q]>>

LEMMA FrameInv ==
    ASSUME RequestsInv, NEW r \in Reqs, ReqTypeOK', OnlyOf(r), RInv(r)',
           conn = "open" \/ Running(r) \/ stage'[r] = stage[r]
    PROVE  RequestsInv'
<1>1. ASSUME NEW q \in Reqs, q # r PROVE RInv(q)'
  <2>1. RInv(q) BY DEF RequestsInv
  <2>2. UNCHANGED <<job[q], stage[q], reply[q], sent[q], body[q], fin[q], peer[q],
                    origin[q], conn>>
    BY <1>1 DEF OnlyOf
  <2> QED BY <2>1, <2>2
      DEF RInv, StageInv, RuleInv, OriginInv, Clean, Answered, Proxied, Broken
<1>2. DrainInv'
  BY DEF DrainInv, RequestsInv, OnlyOf, Running
<1> QED BY <1>1, <1>2 DEF RequestsInv

(* How a stage is entered, and a half of a stream is ended.                *)
LEMMA GoFact ==
    ASSUME ReqTypeOK, NEW r \in Reqs, NEW p \in Stages, Go(r, p)
    PROVE  /\ stage' \in [Reqs -> Stages] /\ stage'[r] = p
           /\ \A q \in Reqs \ {r} : stage'[q] = stage[q]
BY DEF Go, ReqTypeOK

LEMMA EndFact ==
    ASSUME ReqTypeOK, NEW r \in Reqs, NEW how \in Fins, End(r, how)
    PROVE  /\ fin' \in [Reqs -> Fins]
           /\ fin'[r] = IF fin[r] = "open" THEN how ELSE fin[r]
           /\ \A q \in Reqs \ {r} : fin'[q] = fin[q]
BY DEF End, ReqTypeOK, Fins

LEMMA HeadsFact ==
    ASSUME ReqTypeOK, NEW r \in Reqs, NEW h \in HeadNames,
           reply' = [reply EXCEPT ![r] = Heads(reply[r], h)]
    PROVE  /\ reply' \in [Reqs -> Seq(HeadNames)]
           /\ reply[r] = <<>> => reply'[r] = <<h>>
           /\ \A q \in Reqs \ {r} : reply'[q] = reply[q]
<1>1. reply[r] \in Seq(HeadNames) BY DEF ReqTypeOK
<1>2. Heads(reply[r], h) \in Seq(HeadNames) BY <1>1 DEF Heads
<1>3. reply[r] = <<>> => Heads(reply[r], h) = <<h>> BY DEF Heads
<1> QED BY <1>2, <1>3 DEF ReqTypeOK

LEMMA WriteHeadFact ==
    ASSUME ReqTypeOK, NEW r \in Reqs, NEW h \in HeadNames, NEW next \in Stages,
           NEW onError \in Stages, WriteRespHeaders(r, h, next, onError)
    PROVE  /\ stage' \in [Reqs -> Stages] /\ reply' \in [Reqs -> Seq(HeadNames)]
           /\ sent' \in [Reqs -> BOOLEAN] /\ sent'[r]
           /\ \/ stage'[r] = onError /\ Broken(r)
              \/ stage'[r] = next /\ (reply[r] = <<>> => reply'[r] = <<h>>)
           /\ \A q \in Reqs \ {r} : UNCHANGED <<stage[q], reply[q], sent[q]>>
<1>1. /\ sent' \in [Reqs -> BOOLEAN] /\ sent'[r]
      /\ \A q \in Reqs \ {r} : sent'[q] = sent[q]
  BY DEF WriteRespHeaders, ReqTypeOK
<1>2. CASE HeadFails(r)
  BY <1>1, <1>2, GoFact DEF WriteRespHeaders, HeadFails, ReqTypeOK
<1>3. CASE ~HeadFails(r)
  <2>1. reply' = [reply EXCEPT ![r] = Heads(reply[r], h)] /\ Go(r, next)
    BY <1>3 DEF WriteRespHeaders
  <2> QED BY <1>1, <2>1, GoFact, HeadsFact
<1> QED BY <1>2, <1>3

-----------------------------------------------------------------------------
LEMMA AcceptInv == ASSUME RequestsInv, NEW r \in Reqs, Accept(r) PROVE RequestsInv'
<1>1. ReqTypeOK /\ RInv(r) /\ stage[r] = "idle" /\ conn = "open"
  BY DEF RequestsInv, Accept
<1>a. PICK type \in RequestTypes :
        /\ \E svc \in MatchingServices(type) : job' = [job EXCEPT ![r] = [type |-> type, svc |-> svc]]
        /\ Go(r, IF type \in {"http", "websocket", "tcp"} THEN "proxy" ELSE "other")
  BY DEF Accept
<1>2. PICK svc \in MatchingServices(type) : job' = [job EXCEPT ![r] = [type |-> type, svc |-> svc]]
  BY <1>a
<1>3. type \in Types
  <2>1. \A u \in Upgrades, t \in BOOLEAN : DetermineHTTP2Type(u, t) \in Types
    BY DEF DetermineHTTP2Type, Upgrades, Types
  <2>2. QuicTypes \subseteq Types BY DEF QuicTypes, Types
  <2> QED BY <2>1, <2>2 DEF RequestTypes
<1>4. svc \in Services \cup {"none", "off"} /\ (type \in {"http", "websocket"} => svc \in Services)
  BY DEF Services, MatchingServices
<1>5. stage' \in [Reqs -> Stages] /\ (\A q \in Reqs \ {r} : stage'[q] = stage[q])
      /\ stage'[r] = IF type \in {"http", "websocket", "tcp"} THEN "proxy" ELSE "other"
  <2>1. CASE type \in {"http", "websocket", "tcp"} BY <1>1, <1>a, <2>1, GoFact DEF Stages
  <2>2. CASE type \notin {"http", "websocket", "tcp"} BY <1>1, <1>a, <2>2, GoFact DEF Stages
  <2> QED BY <2>1, <2>2
<1>6. /\ job' \in [Reqs -> [type : Types, svc : Services \cup {"none", "off"}]]
      /\ job'[r] = [type |-> type, svc |-> svc] /\ \A q \in Reqs \ {r} : job'[q] = job[q]
  BY <1>1, <1>2, <1>3, <1>4 DEF ReqTypeOK
<1>7. UNCHANGED <<transport, conn, reply, sent, body, fin, peer, origin>>
  BY DEF Accept, linkVars, envVars, replyVars
<1>8. ReqTypeOK' BY <1>1, <1>5, <1>6, <1>7 DEF ReqTypeOK
<1>9. OnlyOf(r) BY <1>5, <1>6, <1>7 DEF OnlyOf
<1>10. RInv(r)'
  <2>1. Clean(r)' BY <1>1, <1>7 DEF Clean, RInv, StageInv
  <2>2. Proxied(r)' <=> type \in {"http", "websocket", "tcp"} BY <1>6 DEF Proxied
  <2>3. StageInv(r)' BY <1>5, <2>1, <2>2 DEF StageInv, BeforeHead
  <2>4. RuleInv(r)' BY <1>4, <1>6 DEF RuleInv
  <2>5. OriginInv(r)' BY <1>1, <1>5, <1>7 DEF OriginInv, RInv
  <2> QED BY <2>3, <2>4, <2>5 DEF RInv
<1> QED BY <1>1, <1>8, <1>9, <1>10, FrameInv

LEMMA RefuseInv == ASSUME RequestsInv, NEW r \in Reqs, RefuseStream(r) PROVE RequestsInv'
<1>1. ReqTypeOK /\ RInv(r) /\ stage[r] \in {"proxy", "other"} BY DEF RequestsInv, RefuseStream
<1>2. /\ stage' \in [Reqs -> Stages] /\ stage'[r] = "close"
      /\ \A q \in Reqs \ {r} : stage'[q] = stage[q]
  BY <1>1, GoFact DEF RefuseStream, Stages
<1>3. /\ fin' \in [Reqs -> Fins]
      /\ fin[r] = "open" => fin'[r] = "reset"
      /\ \A q \in Reqs \ {r} : fin'[q] = fin[q]
  BY <1>1, EndFact DEF RefuseStream, Fins
<1>4. UNCHANGED <<transport, conn, job, reply, sent, body, peer, origin>>
  BY DEF RefuseStream, linkVars, envVars, askVars
<1>5. ReqTypeOK' BY <1>1, <1>2, <1>3, <1>4 DEF ReqTypeOK
<1>6. OnlyOf(r) BY <1>2, <1>3, <1>4 DEF OnlyOf
<1>7. RInv(r)'
  BY <1>1, <1>2, <1>3, <1>4
  DEF RInv, StageInv, RuleInv, OriginInv, Proxied, BeforeHead, Clean
<1> QED BY <1>1, <1>5, <1>6, <1>7, FrameInv DEF Running

LEMMA ServeOtherInv == ASSUME RequestsInv, NEW r \in Reqs, ServeOther(r) PROVE RequestsInv'
<1>1. ReqTypeOK /\ RInv(r) /\ stage[r] = "other" BY DEF RequestsInv, ServeOther
<1>2. PICK writes, fails \in BOOLEAN :
        /\ reply' = [reply EXCEPT ![r] =
              IF transport = "http2" /\ writes THEN Heads(@, "implicit") ELSE @]
        /\ Go(r, IF job[r].type # "rpc" /\ (fails \/ job[r].type = "unknown")
                 THEN "fail" ELSE "close")
  BY DEF ServeOther
<1>3. /\ stage' \in [Reqs -> Stages] /\ stage'[r] \in {"fail", "close"}
      /\ \A q \in Reqs \ {r} : stage'[q] = stage[q]
  <2>1. CASE job[r].type # "rpc" /\ (fails \/ job[r].type = "unknown")
    BY <1>1, <1>2, <2>1, GoFact DEF Stages
  <2>2. CASE ~(job[r].type # "rpc" /\ (fails \/ job[r].type = "unknown"))
    BY <1>1, <1>2, <2>2, GoFact DEF Stages
  <2> QED BY <2>1, <2>2
<1>4. reply' \in [Reqs -> Seq(HeadNames)] /\ \A q \in Reqs \ {r} : reply'[q] = reply[q]
  <2>1. CASE transport = "http2" /\ writes
    BY <1>1, <1>2, <2>1, HeadsFact DEF HeadNames
  <2>2. CASE ~(transport = "http2" /\ writes) BY <1>1, <1>2, <2>2 DEF ReqTypeOK
  <2> QED BY <2>1, <2>2
<1>5. UNCHANGED <<transport, conn, job, sent, body, fin, peer, origin>>
  BY DEF ServeOther, linkVars, envVars, askVars
<1>6. ReqTypeOK' BY <1>1, <1>3, <1>4, <1>5 DEF ReqTypeOK
<1>7. OnlyOf(r) BY <1>3, <1>4, <1>5 DEF OnlyOf
<1>8. RInv(r)'
  BY <1>1, <1>3, <1>5 DEF RInv, StageInv, RuleInv, OriginInv, Proxied
<1> QED BY <1>1, <1>6, <1>7, <1>8, FrameInv DEF Running

-----------------------------------------------------------------------------
(***************************************************************************)
(* The steps up to the head.                                               *)
(***************************************************************************)
LEMMA GoOnlyInv ==
    ASSUME RequestsInv, NEW r \in Reqs, NEW p \in Stages, Go(r, p), Running(r),
           UNCHANGED <<transport, conn, job, reply, sent, body, fin, peer>>,
           origin' \in [Reqs -> {"none", "open", "ended", "closed"}],
           \A q \in Reqs \ {r} : origin'[q] = origin[q],
           RInv(r)'
    PROVE  RequestsInv'
<1>1. ReqTypeOK BY DEF RequestsInv
<1>2. stage' \in [Reqs -> Stages] /\ \A q \in Reqs \ {r} : stage'[q] = stage[q]
  BY <1>1, GoFact
<1>3. ReqTypeOK' BY <1>1, <1>2 DEF ReqTypeOK
<1>4. OnlyOf(r) BY <1>2 DEF OnlyOf
<1> QED BY <1>3, <1>4, FrameInv

(* A head that stands for the whole answer: the filter's, the service's.   *)
LEMMA WholeAnswerInv ==
    ASSUME RequestsInv, NEW r \in Reqs, NEW h \in HeadNames \ {"origin"},
           stage[r] \in {"proxy", "local"}, Proxied(r),
           WriteRespHeaders(r, h, "close", "close"),
           UNCHANGED <<transport, conn, job, body, fin, peer, origin>>
    PROVE  RequestsInv'
<1>1. ReqTypeOK /\ RInv(r) BY DEF RequestsInv
<1>2. /\ stage' \in [Reqs -> Stages] /\ reply' \in [Reqs -> Seq(HeadNames)]
      /\ sent' \in [Reqs -> BOOLEAN] /\ sent'[r] /\ stage'[r] = "close"
      /\ Broken(r) \/ (reply[r] = <<>> => reply'[r] = <<h>>)
      /\ \A q \in Reqs \ {r} : UNCHANGED <<stage[q], reply[q], sent[q]>>
  BY <1>1, WriteHeadFact DEF Stages
<1>3. Clean(r) BY <1>1 DEF RInv, StageInv, BeforeHead
<1>4. Broken(r)' \/ Answered(r)' BY <1>2, <1>3 DEF Answered, Clean, Broken
<1>5. RInv(r)'
  BY <1>1, <1>2, <1>4 DEF RInv, StageInv, RuleInv, OriginInv, BeforeHead
<1>6. ReqTypeOK' BY <1>1, <1>2 DEF ReqTypeOK
<1>7. OnlyOf(r) BY <1>2 DEF OnlyOf
<1> QED BY <1>5, <1>6, <1>7, FrameInv DEF Running

LEMMA ProxyHTTPInv == ASSUME RequestsInv, NEW r \in Reqs, ProxyHTTP(r) PROVE RequestsInv'
<1>1. /\ ReqTypeOK /\ RInv(r) /\ stage[r] = "proxy"
      /\ job[r].type \in {"http", "websocket"}
  BY DEF RequestsInv, ProxyHTTP
<1>2. Proxied(r) /\ Running(r) BY <1>1 DEF Proxied, Running
<1>3. UNCHANGED <<transport, conn, job, body, fin, peer, origin>>
  BY DEF ProxyHTTP, linkVars, envVars, askVars
<1>4. ASSUME NEW p \in {"fail", "roundtrip", "connect", "local"}, Go(r, p),
             UNCHANGED <<reply, sent>>
      PROVE  RequestsInv'
  <2>1. p \in Stages BY <1>4 DEF Stages
  <2>2. stage'[r] = p BY <1>1, <1>4, <2>1, GoFact
  <2>3. RInv(r)'
    BY <1>1, <1>2, <1>3, <1>4, <2>2
    DEF RInv, StageInv, RuleInv, OriginInv, BeforeHead, Clean, Proxied
  <2>4. origin' \in [Reqs -> {"none", "open", "ended", "closed"}]
    BY <1>1, <1>3 DEF ReqTypeOK
  <2> QED BY <1>2, <1>3, <1>4, <2>1, <2>3, <2>4, GoOnlyInv
<1>5. CASE Go(r, "fail") /\ UNCHANGED <<reply, sent>> BY <1>4, <1>5
<1>6. CASE WriteRespHeaders(r, "filtered", "close", "close")
  BY <1>1, <1>2, <1>3, <1>6, WholeAnswerInv DEF HeadNames
<1>7. CASE /\ Go(r, CASE job[r].svc = "http" -> "roundtrip"
                      [] job[r].svc \in {"stream", "wsstream"} -> "connect"
                      [] job[r].svc = "local" -> "local")
           /\ UNCHANGED <<reply, sent>>
  <2> DEFINE p == CASE job[r].svc = "http" -> "roundtrip"
                    [] job[r].svc \in {"stream", "wsstream"} -> "connect"
                    [] job[r].svc = "local" -> "local"
  <2>1. job[r].svc \in {"http", "stream", "wsstream", "local"}
    BY <1>1 DEF RInv, RuleInv, Services
  <2>2. p \in {"fail", "roundtrip", "connect", "local"} BY <2>1, Zenon
  <2>3. Go(r, p) /\ UNCHANGED <<reply, sent>> BY <1>7, Zenon
  <2> HIDE DEF p
  <2> QED BY <1>4, <2>2, <2>3
<1> QED BY <1>5, <1>6, <1>7, Zenon DEF ProxyHTTP

LEMMA ProxyInv ==
    ASSUME RequestsInv, NEW r \in Reqs, ProxyTCP(r) \/ ProxyLocalRequest(r) \/ OriginFails(r)
    PROVE  RequestsInv'
<1>1. ReqTypeOK /\ RInv(r) BY DEF RequestsInv
<1>2. stage[r] \in {"proxy", "local", "roundtrip", "connect"} /\ Running(r)
  BY DEF ProxyTCP, ProxyLocalRequest, OriginFails, Running
<1>3. UNCHANGED <<transport, conn, job, body, fin, peer, origin>>
  BY DEF ProxyTCP, ProxyLocalRequest, OriginFails, linkVars, envVars, askVars, replyVars
<1>4. ASSUME NEW p \in {"fail", "connect"}, Go(r, p), UNCHANGED <<reply, sent>>
      PROVE  RequestsInv'
  <2>1. p \in Stages BY <1>4 DEF Stages
  <2>2. stage'[r] = p BY <1>1, <1>4, <2>1, GoFact
  <2>3. RInv(r)'
    BY <1>1, <1>2, <1>3, <1>4, <2>2
    DEF RInv, StageInv, RuleInv, OriginInv, BeforeHead, Clean, Proxied
  <2>4. origin' \in [Reqs -> {"none", "open", "ended", "closed"}]
    BY <1>1, <1>3 DEF ReqTypeOK
  <2> QED BY <1>2, <1>3, <1>4, <2>1, <2>3, <2>4, GoOnlyInv
<1>5. CASE ProxyTCP(r) BY <1>4, <1>5 DEF ProxyTCP, replyVars
<1>6. CASE OriginFails(r) BY <1>4, <1>6 DEF OriginFails, replyVars
<1>7. CASE ProxyLocalRequest(r)
  <2>1. stage[r] = "local" /\ WriteRespHeaders(r, "local", "close", "close")
    BY <1>7 DEF ProxyLocalRequest
  <2>2. Proxied(r) BY <1>1, <2>1 DEF RInv, StageInv
  <2> QED BY <1>3, <2>1, <2>2, WholeAnswerInv DEF HeadNames
<1> QED BY <1>5, <1>6, <1>7

-----------------------------------------------------------------------------
(***************************************************************************)
(* The origin's answer: its head, its body, the two-way pipe.              *)
(***************************************************************************)
LEMMA OriginAnswersInv ==
    ASSUME RequestsInv, NEW r \in Reqs, OriginAnswers(r) PROVE RequestsInv'
<1>1. ReqTypeOK /\ RInv(r) BY DEF RequestsInv
<1>2. stage[r] \in {"roundtrip", "connect"} /\ Running(r) BY DEF OriginAnswers, Running
<1>3. UNCHANGED <<transport, conn, job, reply, sent, body, fin, peer>>
  BY DEF OriginAnswers, linkVars, envVars, askVars, replyVars
<1>4. PICK p \in {"respond", "upgrade"} : Go(r, p) BY DEF OriginAnswers
<1>5. p \in Stages BY DEF Stages
<1>6. /\ origin' \in [Reqs -> {"none", "open", "ended", "closed"}]
      /\ \A q \in Reqs \ {r} : origin'[q] = origin[q]
  BY <1>1 DEF OriginAnswers, ReqTypeOK
<1>7. stage'[r] = p BY <1>1, <1>4, <1>5, GoFact
<1>8. RInv(r)'
  BY <1>1, <1>2, <1>3, <1>7
  DEF RInv, StageInv, RuleInv, OriginInv, BeforeHead, Clean, Proxied
<1> QED BY <1>2, <1>3, <1>4, <1>5, <1>6, <1>8, GoOnlyInv

LEMMA RespondInv == ASSUME RequestsInv, NEW r \in Reqs, RespondFromOrigin(r) PROVE RequestsInv'
<1> DEFINE next == IF stage[r] = "respond" THEN "copy" ELSE "pipe"
<1>1. ReqTypeOK /\ RInv(r) BY DEF RequestsInv
<1>2. stage[r] \in {"respond", "upgrade"} /\ Running(r) /\ next \in {"copy", "pipe"}
  BY DEF RespondFromOrigin, Running
<1>3. UNCHANGED <<transport, conn, job, fin, peer>>
  BY DEF RespondFromOrigin, linkVars, envVars, askVars
<1>4. WriteRespHeaders(r, "origin", next, "fail") BY DEF RespondFromOrigin
<1>5. /\ body' = [body EXCEPT ![r] = IF stage'[r] = "pipe" THEN "pipe" ELSE @]
      /\ origin' = [origin EXCEPT ![r] = IF stage'[r] = "fail" THEN "closed" ELSE @]
  BY DEF RespondFromOrigin
<1> HIDE DEF next
<1>6. /\ stage' \in [Reqs -> Stages] /\ reply' \in [Reqs -> Seq(HeadNames)]
      /\ sent' \in [Reqs -> BOOLEAN] /\ sent'[r]
      /\ \/ stage'[r] = "fail"
         \/ stage'[r] = next /\ (reply[r] = <<>> => reply'[r] = <<"origin">>)
      /\ \A q \in Reqs \ {r} : UNCHANGED <<stage[q], reply[q], sent[q]>>
  <2>1. next \in Stages /\ "fail" \in Stages /\ "origin" \in HeadNames
    BY <1>2 DEF Stages, HeadNames
  <2> QED BY <1>1, <1>4, <2>1, WriteHeadFact
<1>7. /\ body' \in [Reqs -> {"none", "whole", "cut", "pipe"}]
      /\ body'[r] = (IF stage'[r] = "pipe" THEN "pipe" ELSE body[r])
      /\ origin' \in [Reqs -> {"none", "open", "ended", "closed"}]
      /\ stage'[r] = "fail" => origin'[r] = "closed"
      /\ \A q \in Reqs \ {r} : UNCHANGED <<body[q], origin[q]>>
  BY <1>1, <1>5 DEF ReqTypeOK
<1>8. Clean(r) /\ Proxied(r) BY <1>1, <1>2 DEF RInv, StageInv, BeforeHead
<1>9. ReqTypeOK' BY <1>1, <1>3, <1>6, <1>7 DEF ReqTypeOK
<1>10. OnlyOf(r) BY <1>3, <1>6, <1>7 DEF OnlyOf
<1>11. RInv(r)'
  <2>1. Proxied(r)' /\ RuleInv(r)' BY <1>1, <1>3, <1>8 DEF Proxied, RInv, RuleInv
  <2>2. StageInv(r)'
    BY <1>2, <1>3, <1>6, <1>7, <1>8, <2>1 DEF StageInv, BeforeHead, Clean
  <2>3. OriginInv(r)' BY <1>2, <1>6, <1>7 DEF OriginInv
  <2> QED BY <2>1, <2>2, <2>3 DEF RInv
<1> QED BY <1>2, <1>9, <1>10, <1>11, FrameInv

LEMMA CopyBodyInv == ASSUME RequestsInv, NEW r \in Reqs, CopyBody(r) PROVE RequestsInv'
<1>1. ReqTypeOK /\ RInv(r) /\ stage[r] = "copy" /\ Running(r)
  BY DEF RequestsInv, CopyBody, Running
<1>2. UNCHANGED <<transport, conn, job, reply, sent, fin, peer>>
  BY DEF CopyBody, linkVars, envVars, askVars
<1>3. /\ origin' \in [Reqs -> {"none", "open", "ended", "closed"}]
      /\ origin'[r] = "closed" /\ \A q \in Reqs \ {r} : origin'[q] = origin[q]
  BY <1>1 DEF CopyBody, ReqTypeOK
<1>4. \/ body' = [body EXCEPT ![r] = "whole"] /\ Go(r, "close")
      \/ body' = [body EXCEPT ![r] = "cut"] /\ Go(r, "fail")
  BY DEF CopyBody
<1>5. /\ body' \in [Reqs -> {"none", "whole", "cut", "pipe"}]
      /\ \A q \in Reqs \ {r} : body'[q] = body[q]
  BY <1>1, <1>4 DEF ReqTypeOK
<1>6. /\ stage' \in [Reqs -> Stages] /\ \A q \in Reqs \ {r} : stage'[q] = stage[q]
      /\ \/ body'[r] = "whole" /\ stage'[r] = "close"
         \/ body'[r] = "cut" /\ stage'[r] = "fail"
  BY <1>1, <1>4, GoFact DEF Stages, ReqTypeOK
<1>7. ReqTypeOK' BY <1>1, <1>2, <1>3, <1>5, <1>6 DEF ReqTypeOK
<1>8. OnlyOf(r) BY <1>2, <1>3, <1>5, <1>6 DEF OnlyOf
<1>9. RInv(r)'
  BY <1>1, <1>2, <1>3, <1>5, <1>6
  DEF RInv, StageInv, RuleInv, OriginInv, BeforeHead, Answered, Proxied
<1> QED BY <1>1, <1>7, <1>8, <1>9, FrameInv

LEMMA PipeInv ==
    ASSUME RequestsInv, NEW r \in Reqs, WaitAnyDone(r) \/ Unwind(r) PROVE RequestsInv'
<1>1. ReqTypeOK /\ RInv(r) BY DEF RequestsInv
<1>2. UNCHANGED <<transport, conn, job, reply, sent, body, fin, peer>>
  BY DEF WaitAnyDone, Unwind, linkVars, envVars, askVars, replyVars
<1>3. CASE WaitAnyDone(r)
  <2>1. stage[r] = "pipe" /\ Running(r) /\ Go(r, "unwind") /\ origin' = origin
    BY <1>3 DEF WaitAnyDone, Running
  <2>2. stage'[r] = "unwind" BY <1>1, <2>1, GoFact DEF Stages
  <2>3. RInv(r)'
    BY <1>1, <1>2, <2>1, <2>2 DEF RInv, StageInv, RuleInv, OriginInv, BeforeHead, Proxied
  <2>4. origin' \in [Reqs -> {"none", "open", "ended", "closed"}] BY <1>1, <2>1 DEF ReqTypeOK
  <2> QED BY <1>2, <2>1, <2>3, <2>4, GoOnlyInv DEF Stages
<1>4. CASE Unwind(r)
  <2>1. stage[r] = "unwind" /\ Running(r) /\ Go(r, "close") BY <1>4 DEF Unwind, Running
  <2>2. stage'[r] = "close" BY <1>1, <2>1, GoFact DEF Stages
  <2>3. /\ origin' \in [Reqs -> {"none", "open", "ended", "closed"}]
        /\ origin'[r] = "closed" /\ \A q \in Reqs \ {r} : origin'[q] = origin[q]
    BY <1>1, <1>4 DEF Unwind, ReqTypeOK
  <2>4. RInv(r)'
    BY <1>1, <1>2, <2>1, <2>2, <2>3
    DEF RInv, StageInv, RuleInv, OriginInv, BeforeHead, Answered, Proxied
  <2> QED BY <1>2, <2>1, <2>3, <2>4, GoOnlyInv DEF Stages
<1> QED BY <1>3, <1>4

-----------------------------------------------------------------------------
(***************************************************************************)
(* The end of a stream.                                                    *)
(***************************************************************************)
LEMMA WriteErrorInv ==
    ASSUME RequestsInv, NEW r \in Reqs, WriteErrorResponse(r) PROVE RequestsInv'
<1>1. ReqTypeOK /\ RInv(r) /\ stage[r] = "fail" /\ Running(r)
  BY DEF RequestsInv, WriteErrorResponse, Running
<1>2. UNCHANGED <<transport, conn, job, body, peer, origin>>
  BY DEF WriteErrorResponse, linkVars, envVars, askVars
<1>3. CASE sent[r] \/ HeadFails(r)
  <2>1. End(r, "reset") /\ UNCHANGED <<reply, sent>>
        /\ Go(r, IF transport = "http2" THEN "done" ELSE "close")
    BY <1>3 DEF WriteErrorResponse
  <2>2. /\ stage' \in [Reqs -> Stages] /\ stage'[r] \in {"done", "close"}
        /\ \A q \in Reqs \ {r} : stage'[q] = stage[q]
    <3>1. CASE transport = "http2" BY <1>1, <2>1, <3>1, GoFact DEF Stages
    <3>2. CASE transport # "http2" BY <1>1, <2>1, <3>2, GoFact DEF Stages
    <3> QED BY <3>1, <3>2
  <2>3. /\ fin' \in [Reqs -> Fins] /\ (fin[r] = "open" => fin'[r] = "reset")
        /\ \A q \in Reqs \ {r} : fin'[q] = fin[q]
    BY <1>1, <2>1, EndFact DEF Fins
  <2>4. ReqTypeOK' BY <1>1, <1>2, <2>1, <2>2, <2>3 DEF ReqTypeOK
  <2>5. OnlyOf(r) BY <1>2, <2>1, <2>2, <2>3 DEF OnlyOf
  <2>6. RInv(r)'
    BY <1>1, <1>2, <2>2, <2>3 DEF RInv, StageInv, RuleInv, OriginInv, BeforeHead, Proxied
  <2> QED BY <1>1, <2>4, <2>5, <2>6, FrameInv
<1>4. CASE ~(sent[r] \/ HeadFails(r))
  <2>1. /\ reply' = [reply EXCEPT ![r] = Heads(reply[r], "error")]
        /\ sent' = [sent EXCEPT ![r] = TRUE] /\ Go(r, "close") /\ UNCHANGED fin
    BY <1>4 DEF WriteErrorResponse
  <2>2. /\ stage' \in [Reqs -> Stages] /\ stage'[r] = "close"
        /\ \A q \in Reqs \ {r} : stage'[q] = stage[q]
    BY <1>1, <2>1, GoFact DEF Stages
  <2>3. /\ reply' \in [Reqs -> Seq(HeadNames)]
        /\ reply[r] = <<>> => reply'[r] = <<"error">>
        /\ \A q \in Reqs \ {r} : reply'[q] = reply[q]
    BY <1>1, <2>1, HeadsFact DEF HeadNames
  <2>4. sent' \in [Reqs -> BOOLEAN] /\ \A q \in Reqs \ {r} : sent'[q] = sent[q]
    BY <1>1, <2>1 DEF ReqTypeOK
  <2>5. ReqTypeOK' BY <1>1, <1>2, <2>1, <2>2, <2>3, <2>4 DEF ReqTypeOK
  <2>6. OnlyOf(r) BY <1>2, <2>1, <2>2, <2>3, <2>4 DEF OnlyOf
  <2>7. Proxied(r) => Answered(r)'
    <3>1. Proxied(r) => reply'[r] = <<"error">> /\ body'[r] = "none"
      BY <1>1, <1>2, <1>4, <2>3 DEF RInv, StageInv, Clean
    <3> QED BY <3>1 DEF Answered, HeadNames
  <2>8. RInv(r)'
    BY <1>1, <1>2, <2>2, <2>7 DEF RInv, StageInv, RuleInv, OriginInv, BeforeHead, Proxied
  <2> QED BY <1>1, <2>5, <2>6, <2>8, FrameInv
<1> QED BY <1>3, <1>4

(* The server's own head comes only where the handler wrote none, and then *)
(* the stream is broken or reset: no answered request has an empty reply.  *)
LEMMA CloseInv ==
    ASSUME RequestsInv, NEW r \in Reqs, CloseStream(r) \/ CloseLocked(r) PROVE RequestsInv'
<1>1. ReqTypeOK /\ RInv(r) /\ stage[r] \in {"close", "closing"} /\ Running(r)
  BY DEF RequestsInv, CloseStream, CloseLocked, Running
<1>2. UNCHANGED <<transport, conn, job, sent, body, peer, origin>>
  BY DEF CloseStream, CloseLocked, linkVars, envVars, askVars
<1>3. \/ Go(r, "done") /\ (End(r, "end") \/ End(r, "queued"))
      \/ Go(r, "closing") /\ UNCHANGED fin
  BY DEF CloseStream, CloseLocked, HandlerDone
<1>4. /\ stage' \in [Reqs -> Stages] /\ stage'[r] \in {"done", "closing"}
      /\ \A q \in Reqs \ {r} : stage'[q] = stage[q]
  BY <1>1, <1>3, GoFact DEF Stages
<1>5. /\ fin' \in [Reqs -> Fins] /\ (fin[r] = "reset" => fin'[r] = "reset")
      /\ \A q \in Reqs \ {r} : fin'[q] = fin[q]
  <2>1. CASE End(r, "end") BY <1>1, <2>1, EndFact DEF Fins
  <2>3. CASE End(r, "queued") BY <1>1, <2>3, EndFact DEF Fins
  <2>2. CASE UNCHANGED fin BY <1>1, <2>2 DEF ReqTypeOK
  <2> QED BY <1>3, <2>1, <2>2, <2>3
<1>6. /\ reply' \in [Reqs -> Seq(HeadNames)] /\ (reply[r] # <<>> => reply'[r] = reply[r])
      /\ \A q \in Reqs \ {r} : reply'[q] = reply[q]
  <2>1. CASE UNCHANGED reply BY <1>1, <2>1 DEF ReqTypeOK
  <2>2. CASE reply' = [reply EXCEPT ![r] = IF @ = <<>> THEN <<"implicit">> ELSE @]
    <3>1. <<"implicit">> \in Seq(HeadNames) BY DEF HeadNames
    <3> QED BY <1>1, <2>2, <3>1 DEF ReqTypeOK
  <2> QED BY <2>1, <2>2 DEF CloseStream, CloseLocked
<1>7. ReqTypeOK' BY <1>1, <1>2, <1>4, <1>5, <1>6 DEF ReqTypeOK
<1>8. OnlyOf(r) BY <1>2, <1>4, <1>5, <1>6 DEF OnlyOf
<1>9. Answered(r) => Answered(r)'
  <2>1. \A h \in HeadNames : <<h>> # <<>> OBVIOUS
  <2> QED BY <1>2, <1>6, <2>1 DEF Answered, HeadNames
<1>10. Broken(r) => Broken(r)' BY <1>2 DEF Broken
<1>11. RInv(r)'
  BY <1>1, <1>2, <1>4, <1>5, <1>9, <1>10
  DEF RInv, StageInv, RuleInv, OriginInv, BeforeHead, Proxied
<1> QED BY <1>1, <1>7, <1>8, <1>11, FrameInv

(* END_STREAM leaves the queue after the handler has answered.             *)
LEMMA QueueDrainsInv ==
    ASSUME RequestsInv, NEW r \in Reqs, QueueDrains(r) PROVE RequestsInv'
<1>1. ReqTypeOK /\ RInv(r) /\ fin[r] = "queued" BY DEF RequestsInv, QueueDrains
<1>2. UNCHANGED <<transport, conn, job, stage, reply, sent, body, peer, origin>>
  BY DEF QueueDrains, linkVars, envVars, askVars
<1>3. fin' \in [Reqs -> Fins] /\ fin'[r] = "end" /\ \A q \in Reqs \ {r} : fin'[q] = fin[q]
  BY <1>1 DEF QueueDrains, ReqTypeOK, Fins
<1>4. ReqTypeOK' BY <1>1, <1>2, <1>3 DEF ReqTypeOK
<1>5. OnlyOf(r) BY <1>2, <1>3 DEF OnlyOf
<1>6. (Answered(r) => Answered(r)') /\ (Broken(r) => Broken(r)') BY <1>2 DEF Answered, Broken
<1>7. RInv(r)'
  BY <1>1, <1>2, <1>3, <1>6
  DEF RInv, StageInv, RuleInv, OriginInv, BeforeHead, Proxied, Clean
<1> QED BY <1>2, <1>4, <1>5, <1>7, FrameInv

-----------------------------------------------------------------------------
(***************************************************************************)
(* The connection and the environment.  A break only weakens what a stream *)
(* has to show.                                                            *)
(***************************************************************************)
LEMMA LinkInv ==
    ASSUME RequestsInv, CancelContext \/ CloseConn \/ ConnLost PROVE RequestsInv'
<1>1. UNCHANGED <<transport, job, stage, reply, sent, body, fin, peer, origin>>
  BY DEF CancelContext, CloseConn, ConnLost, askVars, envVars, replyVars
<1>2. conn' = conn \/ conn' \in {"closed", "lost"} BY DEF CancelContext, CloseConn, ConnLost
<1>3. ReqTypeOK' BY <1>1, <1>2 DEF RequestsInv, ReqTypeOK
<1>4. ASSUME NEW r \in Reqs PROVE RInv(r)'
  <2>1. RInv(r) BY DEF RequestsInv
  <2>2. Broken(r) => Broken(r)' BY <1>1, <1>2 DEF Broken
  <2> QED BY <1>1, <2>1, <2>2
      DEF RInv, StageInv, RuleInv, OriginInv, Clean, Answered, Proxied
<1>5. DrainInv'
  BY <1>1 DEF CancelContext, CloseConn, ConnLost, DrainInv, RequestsInv, Running
<1> QED BY <1>3, <1>4, <1>5 DEF RequestsInv

LEMMA EnvironmentInv ==
    ASSUME RequestsInv, NEW r \in Reqs, PeerStep(r) \/ OriginEnds(r) PROVE RequestsInv'
<1>1. ReqTypeOK /\ RInv(r) BY DEF RequestsInv
<1>2. UNCHANGED <<transport, conn, job, stage, reply, sent, body, fin>>
  BY DEF PeerStep, OriginEnds, linkVars, askVars, replyVars
<1>3. /\ peer' \in [Reqs -> {"open", "eof", "gone"}] /\ (peer[r] = "gone" => peer'[r] = "gone")
      /\ \A q \in Reqs \ {r} : peer'[q] = peer[q]
  BY <1>1 DEF PeerStep, OriginEnds, envVars, ReqTypeOK
<1>4. /\ origin' \in [Reqs -> {"none", "open", "ended", "closed"}]
      /\ origin'[r] # origin[r] => origin[r] = "open"
      /\ \A q \in Reqs \ {r} : origin'[q] = origin[q]
  BY <1>1 DEF PeerStep, OriginEnds, ReqTypeOK
<1>5. ReqTypeOK' BY <1>1, <1>2, <1>3, <1>4 DEF ReqTypeOK
<1>6. OnlyOf(r) BY <1>2, <1>3, <1>4 DEF OnlyOf
<1>7. Broken(r) => Broken(r)' BY <1>2, <1>3 DEF Broken
<1>8. RInv(r)'
  BY <1>1, <1>2, <1>4, <1>7
  DEF RInv, StageInv, RuleInv, OriginInv, Clean, Answered, Proxied
<1> QED BY <1>2, <1>5, <1>6, <1>8, FrameInv

LEMMA StutterInv ==
    ASSUME RequestsInv,
           UNCHANGED <<transport, conn, job, stage, reply, sent, body, fin, peer, origin>>
    PROVE  RequestsInv'
BY DEF RequestsInv, ReqTypeOK, RInv, StageInv, RuleInv, OriginInv, Clean, Answered, Proxied,
       Broken, DrainInv, Running

LEMMA RequestsNextInv == ASSUME RequestsInv, [RequestsNext]_reqVars PROVE RequestsInv'
<1>1. ASSUME NEW r \in Reqs, Handler(r) PROVE RequestsInv'
  BY <1>1, RefuseInv, ServeOtherInv, ProxyHTTPInv, ProxyInv, RespondInv, PipeInv,
     WriteErrorInv, CloseInv DEF Handler
<1>2. ASSUME NEW r \in Reqs, Copier(r) PROVE RequestsInv'
  BY <1>2, StutterInv DEF Copier, CopierReads, CopierWrites, CopierMarks, linkVars, askVars,
     envVars, replyVars
<1>3. CASE UNCHANGED reqVars
  BY <1>3, StutterInv DEF reqVars, linkVars, askVars, envVars, replyVars
<1> QED BY <1>1, <1>2, <1>3, LinkInv, AcceptInv, CopyBodyInv, ProxyInv, OriginAnswersInv,
        EnvironmentInv, QueueDrainsInv DEF RequestsNext

THEOREM RequestsInvariance == RequestsSpec => []RequestsInv
<1>1. RequestsInit => RequestsInv BY RequestsInitInv
<1>2. RequestsInv /\ [RequestsNext]_reqVars => RequestsInv' BY RequestsNextInv
<1> QED BY <1>1, <1>2, PTL DEF RequestsSpec

(***************************************************************************)
(* For any number of streams on either transport, and wherever the edge,   *)
(* the origin or the connection breaks: a proxied request whose stream     *)
(* ends well carries one head and what that head promises                  *)
(* (connection/http2.go, connection/quic.go and proxy/proxy.go).           *)
(***************************************************************************)
THEOREM OutcomeIsHonest == RequestsSpec => []HonestOutcome
<1>1. RequestsInv => HonestOutcome
  <2> SUFFICES ASSUME RequestsInv, NEW r \in Reqs, Proxied(r), fin[r] = "end", ~Broken(r)
               PROVE  /\ Len(reply[r]) = 1
                      /\ reply[r][1] = "origin" => body[r] \in {"whole", "pipe"}
                      /\ reply[r][1] # "origin" => body[r] = "none"
    BY DEF HonestOutcome
  <2>1. stage[r] \in Stages /\ StageInv(r) BY DEF RequestsInv, ReqTypeOK, RInv
  <2>2. Answered(r) BY <2>1 DEF StageInv, Stages, BeforeHead, Clean
  <2> QED BY <2>2 DEF Answered
<1> QED BY <1>1, RequestsInvariance, PTL

(***************************************************************************)
(* Whatever path its handler took, a request that is over has closed its   *)
(* origin, and HTTP/2 closes the connection under no request that runs     *)
(* (HTTP2Connection.close).                                                *)
(***************************************************************************)
THEOREM TeardownIsClean == RequestsSpec => []CleanTeardown
<1>1. RequestsInv => CleanTeardown
  BY DEF RequestsInv, RInv, OriginInv, DrainInv, CleanTeardown, NoOriginLeak,
         DrainsBeforeClose
<1> QED BY <1>1, RequestsInvariance, PTL
=============================================================================
