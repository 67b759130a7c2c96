------------------------------ MODULE Requests ------------------------------
(***************************************************************************)
(* Serving the requests of one connection with the edge: connection/http2, *)
(* connection/quic, quic/quic_protocol and quic/safe_stream on the edge's  *)
(* side, proxy and ingress/origin_connection on the origin's, stream.Pipe  *)
(* in between.  The edge, the origin and the network are the environment:  *)
(* they may end, break or stall anything at any time.                      *)
(***************************************************************************)
EXTENDS Integers, Sequences

CONSTANT Reqs          \* the streams the edge may open

VARIABLES
    transport,  \* "http2" or "quic"
    ctx,        \* the context of Serve: "live" or "cancelled"
    conn,       \* "open", "closed" by us, or "lost"
    job,        \* what is asked: type, and service of the rule that matches
    early,      \* the request was accepted while the context was live
    stage,         \* where its handler is
    reply,      \* the response heads written to the stream
    sent,       \* statusWritten, or connectResponseSent
    body,       \* what was delivered of the origin's answer
    fin,        \* our half of the stream: "open", "queued" (END_STREAM waits
                \* behind a write in progress), "end" or "reset"
    peer,       \* the edge's half: "open", "eof" or "gone"
    stalled,    \* the edge has stopped reading
    origin,     \* the connection to the origin: "none", "open", "ended", "closed"
    copier,     \* the two goroutines of Pipe
    doneChan,   \* marks in Pipe's channel
    deadline    \* SafeStreamCloser.Close has set a write deadline

linkVars == <<transport, ctx, conn>>
askVars == <<job, early>>
envVars == <<peer, stalled>>
replyVars == <<reply, sent, body, fin>>
pipeVars == <<copier, doneChan, deadline>>
reqVars == <<linkVars, askVars, envVars, replyVars, pipeVars, stage, origin>>

Upgrades == {"configuration", "websocket", "control", "none"}

(* The header decides first for configuration and websocket, then the TCP  *)
(* source header, then the control stream.                                 *)
DetermineHTTP2Type(upgrade, tcpSource) ==
    IF upgrade \in {"configuration", "websocket"} THEN upgrade
    ELSE IF tcpSource THEN "tcp"
    ELSE IF upgrade = "control" THEN "control" ELSE "http"

Services == {"http", "stream", "wsstream", "local"}

(* The handler must not tell a failed stream from a good one by itself.    *)
Broken(r) == peer[r] = "gone" \/ conn # "open"

(* The request's context: HTTP/2 derives it from Serve's, QUIC from the    *)
(* stream's.                                                               *)
Cancelled(r) == Broken(r) \/ (transport = "http2" /\ ctx = "cancelled")

RequestsInit ==
    /\ transport \in {"http2", "quic"} /\ ctx = "live" /\ conn = "open"
    /\ job = [r \in Reqs |-> [type |-> "none", svc |-> "none"]]
    /\ early = [r \in Reqs |-> FALSE]
    /\ stage = [r \in Reqs |-> "idle"]
    /\ reply = [r \in Reqs |-> <<>>] /\ sent = [r \in Reqs |-> FALSE]
    /\ body = [r \in Reqs |-> "none"] /\ fin = [r \in Reqs |-> "open"]
    /\ peer = [r \in Reqs |-> "open"] /\ stalled = [r \in Reqs |-> FALSE]
    /\ origin = [r \in Reqs |-> "none"]
    /\ copier = [r \in Reqs |-> [o2t |-> "off", t2o |-> "off"]]
    /\ doneChan = [r \in Reqs |-> 0] /\ deadline = [r \in Reqs |-> FALSE]

Go(r, p) == stage' = [stage EXCEPT ![r] = p]
End(r, how) == fin' = [fin EXCEPT ![r] = IF @ = "open" THEN how ELSE @]

(* HTTP/2 keeps the first head of a stream; a QUIC stream carries bytes.   *)
Heads(s, h) == IF transport = "http2" /\ s # <<>> THEN s ELSE Append(s, h)

(* ConnectRequest's type, or an RPC stream; quic/quic_protocol.            *)
QuicTypes == {"http", "websocket", "tcp", "rpc", "unknown"}

(* What may be asked over the transport, and what may serve it.            *)
RequestTypes ==
    IF transport = "http2"
    THEN {DetermineHTTP2Type(u, t) : u \in Upgrades, t \in BOOLEAN} ELSE QuicTypes
MatchingServices(type) ==
    IF type \in {"http", "websocket"} THEN Services
    ELSE IF type = "tcp" THEN {"stream", "off"} ELSE {"none"}

-----------------------------------------------------------------------------
(* acceptStream and http2's server; ServeHTTP and handleStream up to the   *)
(* choice of handler.                                                      *)
Accept(r) ==
    /\ conn = "open" /\ stage[r] = "idle"
    /\ \E type \in RequestTypes :
          /\ \E svc \in MatchingServices(type) :
                job' = [job EXCEPT ![r] = [type |-> type, svc |-> svc]]
          /\ Go(r, IF type \in {"http", "websocket", "tcp"} THEN "proxy" ELSE "other")
    /\ early' = [early EXCEPT ![r] = ctx = "live"]
    /\ UNCHANGED <<linkVars, envVars, replyVars, pipeVars, origin>>

(* DetermineProtocol or ReadConnectRequestData fail: no response, a reset. *)
RefuseStream(r) ==
    /\ transport = "quic" /\ stage[r] \in {"proxy", "other"}
    /\ End(r, "reset") /\ Go(r, "close")
    /\ UNCHANGED <<linkVars, askVars, envVars, pipeVars, origin, reply, sent, body>>

(* handleConfigurationUpdate, the control stream, an RPC stream: they write *)
(* without a head, which HTTP/2 makes a 200, or fail.  RPC errors are only *)
(* logged; an unknown type of QUIC request is an error.                    *)
ServeOther(r) ==
    /\ stage[r] = "other"
    /\ \E writes, fails \in BOOLEAN :
          /\ reply' = [reply EXCEPT ![r] =
                IF transport = "http2" /\ writes THEN Heads(@, "implicit") ELSE @]
          /\ Go(r, IF job[r].type # "rpc" /\ (fails \/ job[r].type = "unknown")
                   THEN "fail" ELSE "close")
    /\ UNCHANGED <<linkVars, askVars, envVars, pipeVars, origin, sent, body, fin>>

(* streamReadWriteAcker and httpResponseAdapter write a ConnectResponse to *)
(* the stream at once.                                                     *)
HeadFails(r) == transport = "quic" /\ Broken(r)

ForgetsSentBug(r, h, next, onError) ==
    /\ reply' = [reply EXCEPT ![r] = Heads(@, h)] /\ Go(r, next)
    /\ UNCHANGED sent

(* http2RespWriter.WriteRespHeaders, which cannot fail, and the QUIC       *)
(* writers, which note that they answered before they try.                 *)
WriteRespHeaders(r, h, next, onError) ==
    /\ sent' = [sent EXCEPT ![r] = TRUE]
    /\ IF HeadFails(r)
       THEN UNCHANGED reply /\ Go(r, onError)
       ELSE reply' = [reply EXCEPT ![r] = Heads(@, h)] /\ Go(r, next)

(* ProxyHTTP up to the service: buildHTTPRequest or a middleware may fail, *)
(* a middleware may filter the request: a response, and no error.          *)
ProxyHTTP(r) ==
    /\ stage[r] = "proxy" /\ job[r].type \in {"http", "websocket"}
    /\ \/ /\ Go(r, "fail") /\ UNCHANGED <<reply, sent>>
       \/ WriteRespHeaders(r, "filtered", "close", "close")
       \/ /\ Go(r, CASE job[r].svc = "http" -> "roundtrip"
                     [] job[r].svc \in {"stream", "wsstream"} -> "connect"
                     [] job[r].svc = "local" -> "local")
          /\ UNCHANGED <<reply, sent>>
    /\ UNCHANGED <<linkVars, askVars, envVars, pipeVars, origin, body, fin>>

(* ProxyTCP, and getRequestHost's error.                                   *)
ProxyTCP(r) ==
    /\ stage[r] = "proxy" /\ job[r].type = "tcp"
    /\ \/ Go(r, "fail")
       \/ job[r].svc # "off" /\ Go(r, "connect")
    /\ UNCHANGED <<linkVars, askVars, envVars, replyVars, pipeVars, origin>>

ProxyLocalRequest(r) ==
    /\ stage[r] = "local"
    /\ WriteRespHeaders(r, "local", "close", "close")
    /\ UNCHANGED <<linkVars, askVars, envVars, pipeVars, origin, body, fin>>

(* RoundTrip and EstablishConnection: an error, or a connection.           *)
OriginFails(r) ==
    /\ stage[r] \in {"roundtrip", "connect"}
    /\ Go(r, "fail")
    /\ UNCHANGED <<linkVars, askVars, envVars, replyVars, pipeVars, origin>>

OriginAnswers(r) ==
    /\ stage[r] \in {"roundtrip", "connect"}
    /\ origin' = [origin EXCEPT ![r] = "open"]
    /\ \/ stage[r] = "roundtrip" /\ Go(r, "respond")
       \/ Go(r, "upgrade")            \* 101, or a connection to acknowledge
    /\ UNCHANGED <<linkVars, askVars, envVars, replyVars, pipeVars>>

LeaksOriginBug(r) ==
    /\ stage[r] \in {"respond", "upgrade"}
    /\ WriteRespHeaders(r, "origin", IF stage[r] = "respond" THEN "copy" ELSE "pipe", "fail")
    /\ copier' = [copier EXCEPT ![r] =
          IF stage'[r] = "pipe" THEN [o2t |-> "reading", t2o |-> "reading"] ELSE @]
    /\ body' = [body EXCEPT ![r] = IF stage'[r] = "pipe" THEN "pipe" ELSE @]
    /\ UNCHANGED <<linkVars, askVars, envVars, origin, fin, doneChan, deadline>>

(* The response head, or AckConnection; both copiers of Pipe start.  On an *)
(* error the deferred Close runs on the way out.                           *)
RespondFromOrigin(r) ==
    /\ stage[r] \in {"respond", "upgrade"}
    /\ WriteRespHeaders(r, "origin", IF stage[r] = "respond" THEN "copy" ELSE "pipe", "fail")
    /\ copier' = [copier EXCEPT ![r] =
          IF stage'[r] = "pipe" THEN [o2t |-> "reading", t2o |-> "reading"] ELSE @]
    /\ body' = [body EXCEPT ![r] = IF stage'[r] = "pipe" THEN "pipe" ELSE @]
    /\ origin' = [origin EXCEPT ![r] = IF stage'[r] = "fail" THEN "closed" ELSE @]
    /\ UNCHANGED <<linkVars, askVars, envVars, fin, doneChan, deadline>>

(* cfio.Copy: the whole body and its trailers, or an error of either end.  *)
CopyBody(r) ==
    /\ stage[r] = "copy"
    /\ origin' = [origin EXCEPT ![r] = "closed"]
    /\ \/ /\ ~Broken(r) /\ ~stalled[r]
          /\ body' = [body EXCEPT ![r] = "whole"] /\ Go(r, "close")
       \/ body' = [body EXCEPT ![r] = "cut"] /\ Go(r, "fail")
    /\ UNCHANGED <<linkVars, askVars, envVars, pipeVars, reply, sent, fin>>

-----------------------------------------------------------------------------
(* stream.Pipe.  While a write to the tunnel is under way SafeStreamCloser *)
(* holds its lock, and the websocket its writeLock on top of it.           *)
LockFree(r) == copier[r].o2t # "writing"

Ended(r) == fin[r] \in {"end", "reset"}

(* The edge's end, an error, or nopCloserReadWriter once it is closed.     *)
TunnelReadEnds(r) == peer[r] # "open" \/ Broken(r) \/ Ended(r)

(* A read returns data or an end.                                          *)
CopierReads(r, d) ==
    /\ copier[r][d] = "reading"
    /\ LET data == IF d = "o2t" THEN origin[r] = "open" ELSE peer[r] = "open" /\ ~Broken(r)
           over == IF d = "o2t" THEN origin[r] # "open"
                   ELSE TunnelReadEnds(r)
       IN  \/ data /\ copier' = [copier EXCEPT ![r][d] = "writing"]
           \/ over /\ copier' = [copier EXCEPT ![r][d] = "marking"]
    /\ UNCHANGED <<linkVars, askVars, envVars, replyVars, stage, origin, doneChan, deadline>>

WriteFails(r, d) ==
    IF d = "t2o" THEN origin[r] # "open"
    ELSE Broken(r) \/ Ended(r) \/ deadline[r]

(* A write goes through, or fails: the stream is gone or has ended, or the *)
(* deadline has passed.  That the handler has returned does not end an     *)
(* HTTP/2 write that the edge holds up.                                    *)
CopierWrites(r, d) ==
    /\ copier[r][d] = "writing"
    /\ \/ /\ ~WriteFails(r, d) /\ (d = "o2t" => ~stalled[r])
          /\ copier' = [copier EXCEPT ![r][d] = "reading"]
       \/ WriteFails(r, d) /\ copier' = [copier EXCEPT ![r][d] = "marking"]
    /\ UNCHANGED <<linkVars, askVars, envVars, replyVars, stage, origin, doneChan, deadline>>

(* doneChan's capacity: room for both marks, only one of which is awaited. *)
DoneCapacity == 2

(* markUniStreamDone: a full channel would block.                          *)
CopierMarks(r, d) ==
    /\ copier[r][d] = "marking"
    /\ doneChan[r] < DoneCapacity
    /\ copier' = [copier EXCEPT ![r][d] = "done"]
    /\ doneChan' = [doneChan EXCEPT ![r] = @ + 1]
    /\ UNCHANGED <<linkVars, askVars, envVars, replyVars, stage, origin, deadline>>

WaitAnyDone(r) ==
    /\ stage[r] = "pipe" /\ doneChan[r] > 0
    /\ doneChan' = [doneChan EXCEPT ![r] = @ - 1]
    /\ Go(r, "unwind")
    /\ UNCHANGED <<linkVars, askVars, envVars, replyVars, origin, copier, deadline>>

(* Stream returns: a websocket waits for the write in progress; then the   *)
(* deferred Close of the origin's connection.                              *)
Unwind(r) ==
    /\ stage[r] = "unwind"
    /\ job[r].svc = "wsstream" => LockFree(r)
    /\ origin' = [origin EXCEPT ![r] = "closed"]
    /\ Go(r, "close")
    /\ UNCHANGED <<linkVars, askVars, envVars, replyVars, pipeVars>>

-----------------------------------------------------------------------------
(* The handler returned an error.  HTTP/2: a 502, or an abort if the       *)
(* status is out.  QUIC: a connect response with the error, or a reset if  *)
(* one is out or cannot be written.                                        *)
WriteErrorResponse(r) ==
    /\ stage[r] = "fail"
    /\ IF sent[r] \/ HeadFails(r)
       THEN /\ End(r, "reset") /\ UNCHANGED <<reply, sent>>
            /\ Go(r, IF transport = "http2" THEN "done" ELSE "close")
       ELSE /\ reply' = [reply EXCEPT ![r] = Heads(@, "error")]
            /\ sent' = [sent EXCEPT ![r] = TRUE]
            /\ Go(r, "close") /\ UNCHANGED fin
    /\ UNCHANGED <<linkVars, askVars, envVars, pipeVars, origin, body>>

(* http2's handlerDone: END_STREAM goes out behind what the stream's queue *)
(* still holds, that is a write of Pipe's copier in progress.              *)
HandlerDone(r) == End(r, IF LockFree(r) THEN "end" ELSE "queued")

NoDeadlineBug(r) ==
    /\ stage[r] = "close"
    /\ IF transport = "http2"
       THEN /\ HandlerDone(r) /\ Go(r, "done")
            /\ reply' = [reply EXCEPT ![r] = IF @ = <<>> THEN <<"implicit">> ELSE @]
       ELSE Go(r, "closing") /\ UNCHANGED <<reply, fin>>
    /\ UNCHANGED <<linkVars, askVars, envVars, sent, body, origin, copier, doneChan, deadline>>

(* The end of ServeHTTP, where the server answers for a handler that did   *)
(* not; the first half of SafeStreamCloser.Close.                          *)
CloseStream(r) ==
    /\ stage[r] = "close"
    /\ IF transport = "http2"
       THEN /\ HandlerDone(r) /\ Go(r, "done") /\ UNCHANGED deadline
            /\ reply' = [reply EXCEPT ![r] = IF @ = <<>> THEN <<"implicit">> ELSE @]
       ELSE /\ deadline' = [deadline EXCEPT ![r] = TRUE]
            /\ Go(r, "closing") /\ UNCHANGED <<reply, fin>>
    /\ UNCHANGED <<linkVars, askVars, envVars, sent, body, origin, copier, doneChan>>

(* The server writes the queued END_STREAM; the handler is gone by then.   *)
QueueDrains(r) ==
    /\ fin[r] = "queued" /\ ~Broken(r)
    /\ stalled[r] => LockFree(r)
    /\ fin' = [fin EXCEPT ![r] = "end"]
    /\ UNCHANGED <<linkVars, askVars, envVars, reply, sent, body, origin, pipeVars, stage>>

(* SafeStreamCloser.Close gets the lock, cancels reads and closes.         *)
CloseLocked(r) ==
    /\ stage[r] = "closing" /\ LockFree(r)
    /\ End(r, "end") /\ Go(r, "done")
    /\ UNCHANGED <<linkVars, askVars, envVars, reply, sent, body, origin, pipeVars>>

-----------------------------------------------------------------------------
Running(r) == stage[r] \notin {"idle", "done"}

(* Shutdown, or one of the goroutines of Serve has returned.               *)
CancelContext ==
    /\ ctx = "live" /\ ctx' = "cancelled"
    /\ UNCHANGED <<transport, conn, askVars, envVars, replyVars, pipeVars, stage, origin>>

NoDrainBug ==
    /\ conn = "open" /\ ctx = "cancelled"
    /\ conn' = "closed"
    /\ UNCHANGED <<transport, ctx, askVars, envVars, replyVars, pipeVars, stage, origin>>

(* HTTP2Connection.close waits for the handlers; acceptStream closes the   *)
(* QUIC session at once.                                                   *)
CloseConn ==
    /\ conn = "open" /\ ctx = "cancelled"
    /\ transport = "http2" => \A r \in Reqs : ~Running(r)
    /\ conn' = "closed"
    /\ UNCHANGED <<transport, ctx, askVars, envVars, replyVars, pipeVars, stage, origin>>

(* The environment.                                                        *)
ConnLost ==
    /\ conn = "open" /\ conn' = "lost"
    /\ UNCHANGED <<transport, ctx, askVars, envVars, replyVars, pipeVars, stage, origin>>
PeerStep(r) ==
    /\ Running(r) /\ conn = "open"
    /\ \/ peer[r] = "open" /\ peer' = [peer EXCEPT ![r] = "eof"] /\ UNCHANGED stalled
       \/ peer[r] # "gone" /\ peer' = [peer EXCEPT ![r] = "gone"] /\ UNCHANGED stalled
       \/ stalled' = [stalled EXCEPT ![r] = TRUE] /\ UNCHANGED peer
    /\ UNCHANGED <<linkVars, askVars, replyVars, pipeVars, stage, origin>>
OriginEnds(r) ==
    /\ origin[r] = "open" /\ origin' = [origin EXCEPT ![r] = "ended"]
    /\ UNCHANGED <<linkVars, askVars, envVars, replyVars, pipeVars, stage>>

Handler(r) ==
    \/ RefuseStream(r) \/ ServeOther(r) \/ ProxyHTTP(r) \/ ProxyTCP(r)
    \/ ProxyLocalRequest(r) \/ RespondFromOrigin(r) \/ WaitAnyDone(r) \/ Unwind(r)
    \/ WriteErrorResponse(r) \/ CloseStream(r) \/ CloseLocked(r)
Copier(r) ==
    \E d \in {"o2t", "t2o"} : CopierReads(r, d) \/ CopierWrites(r, d) \/ CopierMarks(r, d)

RequestsNext ==
    \/ CancelContext \/ CloseConn \/ ConnLost
    \/ \E r \in Reqs : \/ Accept(r) \/ Handler(r) \/ Copier(r) \/ CopyBody(r)
                       \/ OriginFails(r) \/ OriginAnswers(r)
                       \/ QueueDrains(r) \/ PeerStep(r) \/ OriginEnds(r)

(* Goroutines run; a cancelled context ends what waits for the origin; a   *)
(* sync.Mutex hands the lock to a waiter it has starved (strong fairness). *)
RequestsFairness ==
    /\ WF_reqVars(CloseConn)
    /\ \A r \in Reqs :
          /\ WF_reqVars(Handler(r)) /\ WF_reqVars(QueueDrains(r))
          /\ SF_reqVars(Unwind(r)) /\ SF_reqVars(CloseLocked(r))
          /\ WF_reqVars(Cancelled(r) /\ OriginFails(r))
          /\ WF_reqVars(Cancelled(r) /\ (stalled[r] => Broken(r)) /\ CopyBody(r))
          /\ \A d \in {"o2t", "t2o"} :
                /\ WF_reqVars(CopierReads(r, d)) /\ WF_reqVars(CopierWrites(r, d))
                /\ WF_reqVars(CopierMarks(r, d))

RequestsSpec == RequestsInit /\ [][RequestsNext]_reqVars /\ RequestsFairness

-----------------------------------------------------------------------------
Proxied(r) == job[r].type \in {"http", "websocket", "tcp"}

(***************************************************************************)
(* The edge can tell how a proxied request went: a stream that ends well   *)
(* carries exactly one head, the origin's only if its body was delivered,  *)
(* an error only if nothing of it was.  A failure after the head must be a *)
(* reset, whichever of status, acknowledgement or filter sent it.          *)
(***************************************************************************)
HonestOutcome ==
    \A r \in Reqs : Proxied(r) /\ fin[r] = "end" /\ ~Broken(r) =>
        /\ Len(reply[r]) = 1
        /\ reply[r][1] = "origin" => body[r] \in {"whole", "pipe"}
        /\ reply[r][1] # "origin" => body[r] = "none"

(***************************************************************************)
(* No request leaves its origin connection behind, on any error path.      *)
(***************************************************************************)
NoOriginLeak ==
    \A r \in Reqs : stage[r] = "done" => origin[r] \in {"none", "closed"}

(***************************************************************************)
(* HTTP2Connection.close: the connection is closed under no request that   *)
(* was accepted before the shutdown.                                       *)
(***************************************************************************)
DrainsBeforeClose ==
    transport = "http2" /\ conn = "closed" => \A r \in Reqs : early[r] => ~Running(r)

(***************************************************************************)
(* What ends, ends cleanly: a handler that returned has closed its origin, *)
(* and a connection is closed only once it has drained.                    *)
(***************************************************************************)
CleanTeardown == NoOriginLeak /\ DrainsBeforeClose

(***************************************************************************)
(* "If one side is done, we are done": once one copier of a Pipe is, the   *)
(* handler returns and both copiers end, though the edge may have stopped  *)
(* reading.  Two exceptions, both of a write to the tunnel that the edge   *)
(* holds up: a websocket service does not return before it, and over       *)
(* HTTP/2 its copier outlives the handler, for the server lets END_STREAM  *)
(* wait behind it.                                                         *)
(***************************************************************************)
PipeWindsDown ==
    \A r \in Reqs :
        (\E d \in {"o2t", "t2o"} : copier[r][d] = "marking")
            ~> \/ stage[r] = "done" /\ copier[r] = [o2t |-> "done", t2o |-> "done"]
               \/ /\ stalled[r] /\ ~LockFree(r)
                  /\ \/ job[r].svc = "wsstream"
                     \/ transport = "http2" /\ stage[r] = "done" /\ copier[r].t2o = "done"
=============================================================================
