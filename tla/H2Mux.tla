-------------------------------- MODULE H2Mux --------------------------------
(***************************************************************************)
(* Two h2mux muxers, the client "origin" and the server "edge", serving a  *)
(* connection after their handshake.  Each has a reader goroutine, a       *)
(* writer goroutine, the active stream map both use, the ready list, and   *)
(* the applications that open, handle, read, write and close streams.      *)
(*                                                                         *)
(* A frame is handled in one step and so is a chunk written, except that   *)
(* the writer looks at the read side of a stream only after it has sent    *)
(* END_STREAM (WriterAfterEOF).  The connection is closed by either end,   *)
(* or goes silent (Stall), which only the heartbeats can notice: the idle  *)
(* timer fires long after everything that can be delivered has been.       *)
(* Compression dictionaries are off, as in the default build.              *)
(***************************************************************************)
EXTENDS H2Stream, FiniteSets, SequencesExt

CONSTANTS
    MaxStreamID,     \* bound: streams 1..MaxStreamID
    Loads            \* bound: bytes the two sides write to a stream, and the
                     \* ways the connection may be disturbed meanwhile

(* What may disturb the exchange of bytes: a shutdown, a dead network, an  *)
(* opener whose context ends, an application that closes its stream.       *)
Faults == {"shutdown", "stall", "timeout", "close"}

ASSUME MuxAssumption ==
    /\ MaxStreamID \in Nat \ {0}
    /\ Loads \subseteq [origin: Nat, edge: Nat, fault: SUBSET Faults]

Sides == {"origin", "edge"}
Peer(s) == IF s = "origin" THEN "edge" ELSE "origin"
Ids == 1..MaxStreamID

VARIABLES
    stream,     \* the MuxedStream objects of a side
    active,     \* activeStreamMap.streams
    nextID,     \* activeStreamMap.nextStreamID
    maxPeer,    \* activeStreamMap.maxPeerStreamID
    ignoreNew,  \* activeStreamMap.ignoreNewStreams
    emptied,    \* streamsEmptyChan is closed
    ready,      \* ReadyList: the IDs waiting for the writer, without repeats
    errors,     \* StreamErrorMap: stream IDs and codes to reset with
    goAway,     \* the one-slot goAwayChan holds a code
    writer,     \* "loop", "eof" (just sent END_STREAM) or "ended"
    writing,    \* the stream the writer sent END_STREAM for
    reader,     \* "reading" or "ended"
    aborted,    \* abortChan is closed
    conn,       \* this end of the connection is open
    fault,      \* the disturbances of this behaviour
    stalled,    \* the network delivers nothing any more
    wire,       \* frames sent by a side and not read by its peer
    user,       \* the goroutine that opened or handles the stream
    blocked,    \* a Write waits for writeBufferHasSpace
    left        \* bytes the application has not written yet

maps  == <<active, nextID, maxPeer, ignoreNew, emptied>>
conns == <<writer, writing, reader, aborted, conn, fault, stalled>>
apps  == <<user, blocked, left>>
muxVars == <<stream, maps, ready, errors, goAway, conns, wire, apps>>

IsPeerStreamID(s, id) == (id % 2) # (nextID[s] % 2)
IsLocalStreamID(s, id) == (id % 2) = (nextID[s] % 2) /\ id < nextID[s]
Local(s) == {id \in Ids : ~IsPeerStreamID(s, id)}

MuxInit ==
    /\ stream = [s \in Sides |-> [id \in Ids |-> NewStream(FALSE)]]
    /\ active = [s \in Sides |-> {}]
    /\ nextID = [s \in Sides |-> IF s = "origin" THEN 1 ELSE 2]
    /\ maxPeer = [s \in Sides |-> 0]
    /\ ignoreNew = [s \in Sides |-> FALSE]
    /\ emptied = [s \in Sides |-> FALSE]
    /\ ready = [s \in Sides |-> <<>>]
    /\ errors = [s \in Sides |-> {}]
    /\ goAway = [s \in Sides |-> FALSE]
    /\ writer = [s \in Sides |-> "loop"]
    /\ writing = [s \in Sides |-> 0]
    /\ reader = [s \in Sides |-> "reading"]
    /\ aborted = [s \in Sides |-> FALSE]
    /\ conn = [s \in Sides |-> TRUE]
    /\ stalled = FALSE
    /\ wire = [s \in Sides |-> <<>>]
    /\ user = [s \in Sides |-> [id \in Ids |-> "idle"]]
    /\ blocked = [s \in Sides |-> [id \in Ids |-> FALSE]]
    /\ \E load \in Loads :
          /\ fault = load.fault
          /\ left = [s \in Sides |-> [id \in Ids |-> load[s]]]

-----------------------------------------------------------------------------
(* The shared structures.                                                  *)

(* ReadyList.Signal: a stream already queued is not queued again, and      *)
(* nothing is queued once the list is closed.                              *)
SignalAll(s, ids) ==
    IF aborted[s] THEN ready[s]
    ELSE ready[s] \o SetToSeq(ids \ Range(ready[s]))

Signal(s, id) == ready' = [ready EXCEPT ![s] = SignalAll(s, {id})]

SetStream(s, id, st) == stream' = [stream EXCEPT ![s][id] = st]

(* activeStreamMap.Delete                                                  *)
Delete(s, id) ==
    /\ active' = [active EXCEPT ![s] = @ \ {id}]
    /\ emptied' = [emptied EXCEPT ![s] = @ \/ (ignoreNew[s] /\ active[s] \subseteq {id})]
    /\ UNCHANGED <<nextID, maxPeer, ignoreNew>>

RaiseError(s, id, code) ==
    errors' = [errors EXCEPT ![s] = {e \in @ : e.id # id} \cup {[id |-> id, code |-> code]}]

(* A frame reaches a peer that still listens, unless the network is dead.  *)
Send(s, frames) ==
    wire' = [wire EXCEPT ![s] = IF conn[Peer(s)] /\ ~stalled THEN @ \o frames ELSE @]

AbortOnlyMapBug(s) ==
    /\ aborted' = [aborted EXCEPT ![s] = TRUE]
    /\ ready' = [ready EXCEPT ![s] = <<>>]
    /\ ignoreNew' = [ignoreNew EXCEPT ![s] = TRUE]
    /\ emptied' = [emptied EXCEPT ![s] = TRUE]
    /\ UNCHANGED <<stream, active, nextID, maxPeer>>

(* Muxer.abort: abortOnce closes the channel and the ready list, then      *)
(* activeStreamMap.Abort closes the streams and keeps them in the map.     *)
Abort(s) ==
    /\ aborted' = [aborted EXCEPT ![s] = TRUE]
    /\ ready' = [ready EXCEPT ![s] = <<>>]
    /\ stream' = [stream EXCEPT ![s] = [id \in Ids |->
                    IF id \in active[s] /\ ~aborted[s] THEN Close(@[id]) ELSE @[id]]]
    /\ ignoreNew' = [ignoreNew EXCEPT ![s] = TRUE]
    /\ emptied' = [emptied EXCEPT ![s] = TRUE]
    /\ UNCHANGED <<active, nextID, maxPeer>>

(* What the reader's and the writer's goroutines do when run returns: the  *)
(* fuse, closing their end of the connection, abort.  How they then hand   *)
(* their result to Serve is H2Serve's subject.                             *)
EndLoop(s) ==
    /\ conn' = [conn EXCEPT ![s] = FALSE]
    /\ wire' = [wire EXCEPT ![Peer(s)] = <<>>]
    /\ Abort(s)

-----------------------------------------------------------------------------
(* The writer's select loop.                                               *)

CanWrite(s) == writer[s] = "loop" /\ conn[s] /\ ~aborted[s]

(* writeStreamData up to the END_STREAM frame.                             *)
WriteStreamData(s, id, st) ==
    /\ Send(s, ChunkFrames(id, st))
    /\ SetStream(s, id, GetChunk(st))
    /\ writer' = [writer EXCEPT ![s] = IF SendsEOF(st) THEN "eof" ELSE "loop"]
    /\ writing' = [writing EXCEPT ![s] = IF SendsEOF(st) THEN id ELSE 0]
    /\ UNCHANGED <<reader, aborted, conn, fault, stalled>>

(* case <-readyStreamChan, for a stream that may be gone by now.           *)
WriterReady(s) ==
    /\ CanWrite(s) /\ ready[s] # <<>>
    /\ ready' = [ready EXCEPT ![s] = Tail(@)]
    /\ LET id == Head(ready[s]) IN
         IF id \in active[s]
         THEN WriteStreamData(s, id, stream[s][id])
         ELSE UNCHANGED <<stream, conns, wire>>
    /\ UNCHANGED <<maps, errors, goAway, apps>>

(* writeStreamData after END_STREAM: a stream whose read side is closed is *)
(* reset, unless the peer ended it too, and forgotten.                     *)
WriterAfterEOF(s) ==
    /\ writer[s] = "eof"
    /\ LET id == writing[s] IN
         IF stream[s][id].closed
         THEN /\ Delete(s, id)
              /\ IF stream[s][id].receivedEOF \/ ~conn[s] THEN UNCHANGED wire
                 ELSE Send(s, <<[type |-> "RST_STREAM", id |-> id]>>)
         ELSE UNCHANGED <<maps, wire>>
    /\ writer' = [writer EXCEPT ![s] = "loop"]
    /\ writing' = [writing EXCEPT ![s] = 0]
    /\ UNCHANGED <<stream, ready, errors, goAway, reader, aborted, conn, fault, stalled, apps>>

(* case <-newStreamChan: a Set refused by a shutdown leaves the opener     *)
(* waiting for the abort.                                                  *)
WriterNewStream(s, id) ==
    /\ CanWrite(s) /\ user[s][id] = "requesting" /\ id = nextID[s]
    /\ nextID' = [nextID EXCEPT ![s] = @ + 2]
    /\ user' = [user EXCEPT ![s][id] = IF ignoreNew[s] THEN "refused" ELSE "awaiting"]
    /\ IF ignoreNew[s]
       THEN UNCHANGED <<stream, active, conns, wire>>
       ELSE /\ active' = [active EXCEPT ![s] = @ \cup {id}]
            /\ WriteStreamData(s, id, stream[s][id])
    /\ UNCHANGED <<maxPeer, ignoreNew, emptied, ready, errors, goAway, blocked, left>>

WriterGoAway(s) ==
    /\ CanWrite(s) /\ goAway[s]
    /\ goAway' = [goAway EXCEPT ![s] = FALSE]
    /\ Send(s, <<[type |-> "GOAWAY", id |-> maxPeer[s]]>>)
    /\ UNCHANGED <<stream, maps, ready, errors, conns, apps>>

WriterErrors(s) ==
    /\ CanWrite(s) /\ errors[s] # {}
    /\ errors' = [errors EXCEPT ![s] = {}]
    /\ Send(s, SetToSeq({[type |-> "RST_STREAM", id |-> e.id] : e \in errors[s]}))
    /\ UNCHANGED <<stream, maps, ready, goAway, conns, apps>>

(* Nothing is left for the writer of s to send.                            *)
WriterIdle(s) == ready[s] = <<>> /\ errors[s] = {} /\ ~goAway[s]

WriterEnds(s) ==
    /\ writer' = [writer EXCEPT ![s] = "ended"]
    /\ EndLoop(s)
    /\ UNCHANGED <<writing, reader, fault, stalled, errors, goAway, apps>>

(* The heartbeats of a dead connection go unanswered (see H2Heartbeat).    *)
WriterDropped(s) == CanWrite(s) /\ WriterIdle(s) /\ stalled /\ WriterEnds(s)

(* case <-abortChan, or a write that fails on a closed or dead connection. *)
WriterAborts(s) == writer[s] = "loop" /\ aborted[s] /\ WriterEnds(s)

WriterFails(s) ==
    /\ writer[s] = "loop" /\ (~conn[s] \/ stalled) /\ ~aborted[s]
    /\ ~WriterIdle(s) \/ (\E id \in Ids : user[s][id] = "requesting")
    /\ WriterEnds(s)

-----------------------------------------------------------------------------
(* The reader: one action per kind of frame.                               *)

(* The next frame for s, of the given type.                                *)
Receives(s, type) ==
    /\ reader[s] = "reading" /\ conn[s] /\ ~stalled
    /\ wire[Peer(s)] # <<>> /\ Head(wire[Peer(s)]).type = type
    /\ wire' = [wire EXCEPT ![Peer(s)] = Tail(@)]
    /\ UNCHANGED conns

Frame(s) == Head(wire[Peer(s)])

ShutdownMap(s) ==
    /\ ignoreNew' = [ignoreNew EXCEPT ![s] = TRUE]
    /\ emptied' = [emptied EXCEPT ![s] = @ \/ active[s] = {}]
    /\ goAway' = [goAway EXCEPT ![s] = @ \/ ~ignoreNew[s]]

(* receiveHeaderData: HEADERS of a new stream, or of the response.         *)
ReceiveHeaders(s) ==
    /\ Receives(s, "HEADERS")
    /\ LET id == Frame(s).id IN
         \/ /\ IsPeerStreamID(s, id) /\ ~ignoreNew[s] /\ id > maxPeer[s]
            /\ maxPeer' = [maxPeer EXCEPT ![s] = id]
            /\ active' = [active EXCEPT ![s] = @ \cup {id}]
            /\ SetStream(s, id, NewStream(FALSE))
            /\ user' = [user EXCEPT ![s][id] = "serving"]
            /\ UNCHANGED errors
         \/ /\ IsPeerStreamID(s, id) /\ (ignoreNew[s] \/ id <= maxPeer[s])
            /\ RaiseError(s, id, "STREAM_CLOSED")
            /\ UNCHANGED <<stream, active, maxPeer, user>>
         \/ /\ ~IsPeerStreamID(s, id) /\ id \in active[s]
            /\ SetStream(s, id, [stream[s][id] EXCEPT !.headersReceived = TRUE])
            /\ UNCHANGED <<active, maxPeer, user, errors>>
         \/ /\ ~IsPeerStreamID(s, id) /\ id \notin active[s]
            /\ RaiseError(s, id, "STREAM_CLOSED")
            /\ UNCHANGED <<stream, active, maxPeer, user>>
    /\ UNCHANGED <<goAway, ready, nextID, ignoreNew, emptied, blocked, left>>

(* receiveFrameData.  END_STREAM skips the window; data for a read side    *)
(* that is closed resets the stream and does not forget it.                *)
ReceiveData(s) ==
    /\ Receives(s, "DATA")
    /\ LET f == Frame(s)
           st == stream[s][f.id]
           got == [st EXCEPT !.read = @ + f.n]
       IN
         \/ /\ f.id \notin active[s]
            /\ IF f.eof THEN UNCHANGED errors ELSE RaiseError(s, f.id, "STREAM_CLOSED")
            /\ UNCHANGED <<stream, maps, ready>>
         \/ /\ f.id \in active[s] /\ f.n > 0 /\ st.closed
            /\ RaiseError(s, f.id, "INTERNAL")
            /\ UNCHANGED <<stream, maps, ready>>
         \/ /\ f.id \in active[s] /\ ~(f.n > 0 /\ st.closed) /\ f.eof
            /\ SetStream(s, f.id, ReceiveEOF(got))
            /\ IF EOFCloses(st) THEN Delete(s, f.id) ELSE UNCHANGED maps
            /\ UNCHANGED <<ready, errors>>
         \/ /\ f.id \in active[s] /\ ~(f.n > 0 /\ st.closed) /\ ~f.eof
            /\ IF st.receiveWindow < f.n
               THEN /\ RaiseError(s, f.id, "FLOW_CONTROL")
                    /\ SetStream(s, f.id, got)
                    /\ UNCHANGED ready
               ELSE /\ SetStream(s, f.id, ConsumeReceiveWindow(got, f.n))
                    /\ IF GrowsWindow(st, f.n) THEN Signal(s, f.id) ELSE UNCHANGED ready
                    /\ UNCHANGED errors
            /\ UNCHANGED maps
    /\ UNCHANGED <<goAway, apps>>

LostUpdateBug(s) ==
    /\ Receives(s, "WINDOW_UPDATE")
    /\ LET f == Frame(s) IN
         IF f.id \in active[s]
         THEN SetStream(s, f.id, ReplenishSendWindow(stream[s][f.id], f.n))
         ELSE UNCHANGED stream
    /\ UNCHANGED <<goAway, maps, errors, apps, ready>>

(* updateStreamWindow                                                      *)
ReceiveWindowUpdate(s) ==
    /\ Receives(s, "WINDOW_UPDATE")
    /\ LET f == Frame(s) IN
         IF f.id \in active[s]
         THEN /\ SetStream(s, f.id, ReplenishSendWindow(stream[s][f.id], f.n))
              /\ Signal(s, f.id)
         ELSE UNCHANGED <<stream, ready>>
    /\ UNCHANGED <<goAway, maps, errors, apps>>

(* The streams of ids are closed, waking their writer where CloseWrite     *)
(* changed something.                                                      *)
CloseStreams(s, ids) ==
    /\ stream' = [stream EXCEPT ![s] = [id \in Ids |->
                    IF id \in ids THEN Close(@[id]) ELSE @[id]]]
    /\ ready' = [ready EXCEPT ![s] =
                    SignalAll(s, {id \in ids : CloseWriteNotifies(stream[s][id])})]

ReceiveReset(s) ==
    /\ Receives(s, "RST_STREAM")
    /\ CloseStreams(s, {Frame(s).id} \cap active[s])
    /\ Delete(s, Frame(s).id)
    /\ UNCHANGED <<goAway, errors, apps>>

(* receiveGoAway closes every stream from two above the peer's last one to *)
(* our last one, whoever opened it.                                        *)
ReceiveGoAway(s) ==
    /\ Receives(s, "GOAWAY")
    /\ ShutdownMap(s)
    /\ CloseStreams(s, {id \in active[s] : id >= Frame(s).id + 2 /\ id <= nextID[s] - 2})
    /\ UNCHANGED <<errors, apps, active, nextID, maxPeer>>

ReaderEnds(s) ==
    /\ reader' = [reader EXCEPT ![s] = "ended"]
    /\ EndLoop(s)
    /\ UNCHANGED <<writer, writing, fault, stalled, errors, goAway, apps>>

(* ReadFrame fails once this end is closed, or the peer's is and all of it *)
(* has been read.                                                          *)
ReaderFails(s) ==
    /\ reader[s] = "reading"
    /\ ~conn[s] \/ (~conn[Peer(s)] /\ wire[Peer(s)] = <<>> /\ ~stalled)
    /\ ReaderEnds(s)

-----------------------------------------------------------------------------
(* The applications.                                                       *)

NoApp == UNCHANGED <<maps, errors, goAway, conns, wire>>

(* An aborted muxer has closed its streams, and what an application does   *)
(* after the network died it might as well have done just before: only     *)
(* those that wait count any more.                                         *)
Gone(s) == aborted[s] \/ stalled

(* OpenStream hands a stream to the writer ...                             *)
OpenStream(s, id) ==
    /\ id \in Local(s) /\ id >= nextID[s] /\ user[s][id] = "idle" /\ ~Gone(s)
    /\ user' = [user EXCEPT ![s][id] = "requesting"]
    /\ SetStream(s, id, NewStream(TRUE))
    /\ UNCHANGED <<ready, blocked, left>>
    /\ NoApp

(* ... and waits for the response's headers or the abort ...               *)
OpenStreamReturns(s, id) ==
    /\ \/ /\ user[s][id] = "awaiting" /\ stream[s][id].headersReceived
          /\ user' = [user EXCEPT ![s][id] = "open"]
       \/ /\ user[s][id] \in {"requesting", "awaiting", "refused"} /\ aborted[s]
          /\ user' = [user EXCEPT ![s][id] = "failed"]
    /\ UNCHANGED <<stream, ready, blocked, left>>
    /\ NoApp

(* ... or until its context ends.  OpenRPCStream also closes the stream.   *)
OpenStreamTimesOut(s, id) ==
    /\ "timeout" \in fault
    /\ \/ /\ user[s][id] = "requesting"
          /\ user' = [user EXCEPT ![s][id] = "idle"]
          /\ UNCHANGED <<stream, ready>>
       \/ /\ user[s][id] \in {"awaiting", "refused"}
          /\ user' = [user EXCEPT ![s][id] = IF @ = "refused" THEN "done" ELSE "failed"]
          /\ UNCHANGED <<stream, ready>> \/ CloseStreams(s, {id})
    /\ UNCHANGED <<blocked, left>>
    /\ NoApp

(* Who may write to the stream: its opener and the goroutine flushing its  *)
(* body, which goes on when the opener has given up, or its handler.       *)
Flushes(s, id) == user[s][id] \in {"awaiting", "open", "failed"} /\ ~Gone(s) /\ id < nextID[s]
Uses(s, id) == Flushes(s, id) \/ (user[s][id] = "serving" /\ ~Gone(s))

AppWrite(s, id) ==
    /\ Uses(s, id) /\ ~blocked[s][id] /\ left[s][id] > 0
    /\ LET st == stream[s][id] IN
         \/ /\ ~st.writeEOF /\ ~WriteBufferFull(st)
            /\ SetStream(s, id, WriteByte(st))
            /\ Signal(s, id)
            /\ left' = [left EXCEPT ![s][id] = @ - 1]
            /\ UNCHANGED blocked
         \/ /\ ~st.writeEOF /\ WriteBufferFull(st)
            /\ blocked' = [blocked EXCEPT ![s][id] = TRUE]
            /\ UNCHANGED <<stream, ready, left>>
    /\ UNCHANGED user
    /\ NoApp

(* awaitWriteBufferHasSpace takes the token and looks again.               *)
AppWriteWakes(s, id) ==
    /\ blocked[s][id] /\ stream[s][id].hasSpace
    /\ SetStream(s, id, [stream[s][id] EXCEPT !.hasSpace = FALSE])
    /\ blocked' = [blocked EXCEPT ![s][id] =
                     WriteBufferFull(stream[s][id]) /\ ~stream[s][id].writeEOF]
    /\ UNCHANGED <<ready, user, left>>
    /\ NoApp

AppWriteHeaders(s, id) ==
    /\ user[s][id] = "serving" /\ ~Gone(s) /\ ~stream[s][id].writeHeaders
    /\ SetStream(s, id, WriteHeaders(stream[s][id]))
    /\ Signal(s, id)
    /\ UNCHANGED apps
    /\ NoApp

AppRead(s, id) ==
    /\ user[s][id] \in {"open", "serving"} /\ ~Gone(s) /\ stream[s][id].read > 0
    /\ SetStream(s, id, ReadAll(stream[s][id]))
    /\ Signal(s, id)
    /\ UNCHANGED apps
    /\ NoApp

(* flushBody has copied the request's body.                                *)
AppCloseWrite(s, id) ==
    /\ Flushes(s, id) /\ ~blocked[s][id] /\ ~stream[s][id].writeEOF
    /\ SetStream(s, id, CloseWrite(stream[s][id]))
    /\ Signal(s, id)
    /\ UNCHANGED apps
    /\ NoApp

(* Close in its two parts: the write side first.                           *)
AppClose(s, id) ==
    /\ "close" \in fault
    /\ user[s][id] \in {"open", "serving"} /\ ~Gone(s) /\ ~blocked[s][id]
    /\ SetStream(s, id, CloseWrite(stream[s][id]))
    /\ ready' = [ready EXCEPT ![s] =
                   SignalAll(s, {i \in {id} : CloseWriteNotifies(stream[s][id])})]
    /\ user' = [user EXCEPT ![s][id] = "closing"]
    /\ UNCHANGED <<blocked, left>>
    /\ NoApp

AppCloseRead(s, id) ==
    /\ user[s][id] = "closing"
    /\ SetStream(s, id, CloseRead(stream[s][id]))
    /\ user' = [user EXCEPT ![s][id] = "done"]
    /\ UNCHANGED <<ready, blocked, left>>
    /\ NoApp

(* Muxer.Shutdown, and its goroutine that closes the connection when the   *)
(* last stream has gone.                                                   *)
Shutdown(s) ==
    /\ "shutdown" \in fault /\ ~aborted[s] /\ ~ignoreNew[s]
    /\ ShutdownMap(s)
    /\ UNCHANGED <<stream, active, nextID, maxPeer, ready, errors, writer, writing, reader, aborted, conn, fault, stalled, wire, apps>>

CloseWhenEmpty(s) ==
    /\ ignoreNew[s] /\ emptied[s] /\ conn[s]
    /\ conn' = [conn EXCEPT ![s] = FALSE]
    /\ wire' = [wire EXCEPT ![Peer(s)] = <<>>]
    /\ UNCHANGED <<stream, maps, ready, errors, goAway, writer, writing, reader, aborted, fault, stalled, apps>>

(* The network goes silent (environment).                                  *)
Stall ==
    /\ "stall" \in fault /\ ~stalled /\ (\E s \in Sides : conn[s])
    /\ stalled' = TRUE
    /\ wire' = [s \in Sides |-> <<>>]
    /\ UNCHANGED <<stream, maps, ready, errors, goAway, writer, writing, reader, aborted, conn, fault, apps>>

-----------------------------------------------------------------------------
Writer(s) == \/ WriterReady(s) \/ WriterAfterEOF(s) \/ WriterGoAway(s)
             \/ WriterErrors(s) \/ WriterDropped(s) \/ WriterAborts(s)
             \/ WriterFails(s) \/ (\E id \in Ids : WriterNewStream(s, id))

Reader(s) == \/ ReceiveHeaders(s) \/ ReceiveData(s) \/ ReceiveWindowUpdate(s)
             \/ ReceiveReset(s) \/ ReceiveGoAway(s) \/ ReaderFails(s)

App(s) == \E id \in Ids :
             \/ OpenStream(s, id) \/ OpenStreamReturns(s, id)
             \/ OpenStreamTimesOut(s, id) \/ AppWrite(s, id)
             \/ AppWriteWakes(s, id) \/ AppWriteHeaders(s, id) \/ AppRead(s, id)
             \/ AppCloseWrite(s, id) \/ AppClose(s, id) \/ AppCloseRead(s, id)

MuxNext == \/ \E s \in Sides : Writer(s) \/ Reader(s) \/ App(s) \/ Shutdown(s) \/ CloseWhenEmpty(s)
           \/ Stall

(* The loops run, a woken goroutine runs; an application that keeps a      *)
(* stream open is not forced to do anything with it.                       *)
MuxFairness ==
    \A s \in Sides :
        /\ WF_muxVars(Writer(s)) /\ WF_muxVars(Reader(s)) /\ WF_muxVars(CloseWhenEmpty(s))
        /\ WF_muxVars(\E id \in Ids : AppWriteWakes(s, id) \/ OpenStreamReturns(s, id))

MuxSpec == MuxInit /\ [][MuxNext]_muxVars /\ MuxFairness

-----------------------------------------------------------------------------
(* Properties.                                                             *)

(* The bytes of the frames of a type for a stream.                         *)
BytesOf(f, id, type) == IF f.type = type /\ f.id = id THEN f.n ELSE 0

Total(frames, id, type) ==
    LET sum[i \in 1 .. Len(frames)] ==
            (IF i = 1 THEN 0 ELSE sum[i - 1]) + BytesOf(frames[i], id, type)
    IN  IF frames = <<>> THEN 0 ELSE sum[Len(frames)]

InFlight(s, id, type) == Total(wire[s], id, type)

(***************************************************************************)
(* Flow control: what a side may still send, has in flight, or has been    *)
(* granted by an update on its way, is within the receiver's window; so    *)
(* consumeReceiveWindow never refuses data of a muxer that keeps to        *)
(* getChunk, and unread data never exceeds the window's current maximum.   *)
(***************************************************************************)
WindowsAgree ==
    \A s \in Sides, id \in Ids :
        LET to == stream[Peer(s)][id] IN
        /\ id \in active[s] =>
             stream[s][id].sendWindow + InFlight(s, id, "DATA")
                + InFlight(Peer(s), id, "WINDOW_UPDATE") <= to.receiveWindow
        /\ to.read <= to.currentMax /\ to.currentMax <= MaxWindow
        /\ \A e \in errors[s] : e.code # "FLOW_CONTROL"

(***************************************************************************)
(* No wake-up is lost: a tracked stream with something to send is on the   *)
(* ready list, and a Write that waits for room has a token as soon as      *)
(* there is room or the stream is closed.                                  *)
(***************************************************************************)
NoLostWakeup ==
    \A s \in Sides, id \in Ids :
        /\ id \in active[s] /\ ~aborted[s] /\ HasWork(stream[s][id]) => id \in Range(ready[s])
        /\ blocked[s][id] /\ (stream[s][id].writeEOF \/ ~WriteBufferFull(stream[s][id]))
             => stream[s][id].hasSpace

(***************************************************************************)
(* Nobody waits for ever on flow control, and nobody overruns it.          *)
(***************************************************************************)
FlowControlSound == WindowsAgree /\ NoLostWakeup

Dead == stalled \/ \E s \in Sides : ~conn[s]

(* The reader and the writer of s are over, and nobody who uses a stream   *)
(* is left waiting: not in OpenStream, not in Write, and not in Read, which *)
(* waits on the stream's buffer until that is closed.                      *)
Released(s) ==
    /\ writer[s] = "ended" /\ reader[s] = "ended"
    /\ \A id \in Ids :
         /\ ~blocked[s][id] /\ user[s][id] \notin {"requesting", "awaiting", "refused"}
         /\ user[s][id] \in {"open", "serving"} => stream[s][id].closed
=============================================================================
