------------------------------ MODULE H2Stream ------------------------------
(***************************************************************************)
(* h2mux.MuxedStream as a value: what each of its methods, all of which    *)
(* hold the stream's writeLock, does to the buffers, the two flow control  *)
(* windows and the end-of-stream flags.  Bytes are counted, not stored.    *)
(* A method that also wakes the writer (writeNotify) has a ...Notifies     *)
(* companion where that depends on the state.                              *)
(***************************************************************************)
EXTENDS Integers, Sequences

CONSTANTS
    DefaultWindow,   \* MuxerConfig.DefaultWindowSize
    MaxWindow,       \* MuxerConfig.MaxWindowSize
    WriteBufferMax,  \* MuxerConfig.StreamWriteBufferMaxLen
    MaxFrameSize     \* MuxWriter.maxFrameSize

ASSUME WindowAssumption ==
    /\ {DefaultWindow, MaxWindow, WriteBufferMax, MaxFrameSize} \subseteq Nat \ {0}
    /\ DefaultWindow <= MaxWindow

Streams == [ read: Nat, closed: BOOLEAN, receiveWindow: Nat, currentMax: Nat,
             windowUpdate: Nat, headersReceived: BOOLEAN, write: Nat,
             hasSpace: BOOLEAN, sendWindow: Nat, writeHeaders: BOOLEAN,
             headersSent: BOOLEAN, writeEOF: BOOLEAN, sentEOF: BOOLEAN,
             receivedEOF: BOOLEAN ]

(* A stream opened here knows its headers; one accepted from the peer gets *)
(* them from its handler.                                                  *)
NewStream(headers) ==
    [ read |-> 0, closed |-> FALSE, receiveWindow |-> DefaultWindow,
      currentMax |-> DefaultWindow, windowUpdate |-> 0,
      headersReceived |-> FALSE, write |-> 0, hasSpace |-> FALSE,
      sendWindow |-> DefaultWindow, writeHeaders |-> headers,
      headersSent |-> FALSE, writeEOF |-> FALSE, sentEOF |-> FALSE,
      receivedEOF |-> FALSE ]

-----------------------------------------------------------------------------
(* The application's side.                                                 *)

WriteBufferFull(st) == WriteBufferMax <= st.write

(* One byte of a Write: the loop copies what fits and notifies each time.  *)
WriteByte(st) == [st EXCEPT !.write = @ + 1]

CloseWriteNotifies(st) == ~st.writeEOF

(* The token in writeBufferHasSpace lets a blocked Write see writeEOF.     *)
CloseWrite(st) == IF st.writeEOF THEN st
                  ELSE [st EXCEPT !.writeEOF = TRUE, !.hasSpace = TRUE]

CloseRead(st) == [st EXCEPT !.closed = TRUE]

Close(st) == CloseRead(CloseWrite(st))

WriteHeaders(st) == [st EXCEPT !.writeHeaders = TRUE, !.headersSent = FALSE]

ReplenishReceiveWindow(st, n) == [st EXCEPT !.windowUpdate = @ + n]

(* Read empties the shared buffer and gives its window back.               *)
ReadAll(st) == ReplenishReceiveWindow([st EXCEPT !.read = 0], st.read)

-----------------------------------------------------------------------------
(* The reader's side.                                                      *)

ReplenishSendWindow(st, n) == [st EXCEPT !.sendWindow = @ + n]

(* consumeReceiveWindow grows the window when half of it is used.          *)
GrowsWindow(st, n) == /\ st.receiveWindow - n < st.currentMax \div 2
                      /\ st.currentMax < MaxWindow

UncappedBug(st) == 2 * st.currentMax

NextMax(st) == IF 2 * st.currentMax > MaxWindow THEN MaxWindow ELSE 2 * st.currentMax

ConsumeReceiveWindow(st, n) ==
    LET used == [st EXCEPT !.receiveWindow = @ - n]
    IN  IF GrowsWindow(st, n)
        THEN [used EXCEPT !.windowUpdate = @ + NextMax(st) - st.currentMax,
                          !.currentMax = NextMax(st)]
        ELSE used

ReceiveEOF(st) == CloseRead([st EXCEPT !.receivedEOF = TRUE])

(* What receiveEOF returns: the stream may be forgotten.                   *)
EOFCloses(st) == st.writeEOF /\ st.write = 0

-----------------------------------------------------------------------------
(* getChunk, on the writer: what is sent, and the stream afterwards.       *)

ChunkBytes(st) == IF st.sendWindow < st.write THEN st.sendWindow ELSE st.write

ChunkEOF(st) == st.writeEOF /\ st.write <= st.sendWindow

SendsEOF(st) == ~st.sentEOF /\ ChunkEOF(st)

ForgetsSendWindowBug(st) ==
    [st EXCEPT !.write = @ - ChunkBytes(st), !.hasSpace = TRUE,
               !.receiveWindow = @ + st.windowUpdate, !.windowUpdate = 0,
               !.headersSent = TRUE, !.sentEOF = @ \/ ChunkEOF(st)]

GetChunk(st) ==
    [st EXCEPT !.write = @ - ChunkBytes(st),
               !.sendWindow = @ - ChunkBytes(st),
               !.hasSpace = @ \/ st.write - ChunkBytes(st) < WriteBufferMax,
               !.receiveWindow = @ + st.windowUpdate,
               !.windowUpdate = 0,
               !.headersSent = TRUE,
               !.sentEOF = @ \/ ChunkEOF(st)]

(* nextDataFrame: the sizes of the DATA frames, one of size 0 when there   *)
(* is nothing to send; only the last carries END_STREAM.                   *)
DataFrames(id, st) ==
    LET n == ChunkBytes(st)
        last == IF n = 0 THEN 1 ELSE (n + MaxFrameSize - 1) \div MaxFrameSize
    IN  [ i \in 1..last |->
            [ type |-> "DATA", id |-> id, eof |-> i = last /\ ChunkEOF(st),
              n |-> IF i < last THEN MaxFrameSize ELSE n - (last - 1) * MaxFrameSize ] ]

ChunkFrames(id, st) ==
    (IF st.headersSent \/ ~st.writeHeaders THEN <<>>
     ELSE <<[type |-> "HEADERS", id |-> id]>>)
    \o (IF st.windowUpdate = 0 THEN <<>>
        ELSE <<[type |-> "WINDOW_UPDATE", id |-> id, n |-> st.windowUpdate]>>)
    \o (IF st.sentEOF THEN <<>> ELSE DataFrames(id, st))

(* There is something to send that the stream's window lets through.       *)
HasWork(st) == \/ st.writeHeaders /\ ~st.headersSent
               \/ st.windowUpdate > 0
               \/ ~st.sentEOF /\ (ChunkBytes(st) > 0 \/ ChunkEOF(st))
=============================================================================
