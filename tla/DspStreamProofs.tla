---------------------------- MODULE DspStreamProofs ----------------------------
(***************************************************************************)
(* DspStream for any contents of blocks: no torn read, no lost wakeup, and *)
(* the stream is a channel.  All of it follows from the handshake between  *)
(* canSwap, dataReady and the places of the two workers: at any time       *)
(* exactly one of them may move the block on.                              *)
(***************************************************************************)
EXTENDS DspStream, TLAPS

\* Whose turn it is.
Handshake ==
    /\ canSwap => /\ ~ dataReady
                  /\ writer # "publish"
                  /\ reader \notin {"start", "handle", "flush", "free"}
    /\ writer = "publish" => /\ ~ dataReady
                             /\ reader \notin {"start", "handle", "flush", "free"}
    /\ reader \in {"start", "handle", "flush"} => dataReady
    /\ reader = "free" => ~ dataReady
    /\ ~ canSwap => dataReady \/ writer = "publish" \/ reader = "free"

\* Which buffers hold a whole block.
Filled ==
    /\ writer \in {"swap", "asleep"} => buf[front] \in Blocks
    /\ InTransit => buf[1 - front] \in Blocks

StopsDown ==
    /\ writerCtl \in {"stopped", "running"} => ~ inStop /\ ~ writerStop
    /\ readerCtl \in {"stopped", "running"} => ~ readerStop

IInv ==
    /\ TypeOK
    /\ NoTornRead
    /\ NoLostWakeup
    /\ WorkersMatchBlocks
    /\ Handshake
    /\ Filled
    /\ StopsDown

-----------------------------------------------------------------------------
LEMMA InitIInv == Init => IInv
<1> SUFFICES ASSUME Init PROVE IInv
  OBVIOUS
<1>1. TypeOK
  <2>1. buf \in [0 .. 1 -> Blocks \cup {NoBlock, Torn}]
    BY DEF Init
  <2>2. front \in 0 .. 1 /\ view \in 0 .. 1
    BY DEF Init
  <2> QED BY <2>1, <2>2 DEF Init, TypeOK, WriterAt, ReaderAt, CtlAt
<1>2. NoTornRead /\ NoLostWakeup /\ WorkersMatchBlocks /\ Handshake /\ Filled /\ StopsDown
  BY DEF Init, NoTornRead, NoLostWakeup, WorkersMatchBlocks, Handshake, Filled, InTransit, StopsDown
<1> QED BY <1>1, <1>2 DEF IInv

\* Reading front and buf: there are two buffers.
LEMMA TwoBuffers ==
    ASSUME TypeOK
    PROVE  /\ front \in {0, 1} /\ 1 - front \in {0, 1} /\ 1 - front \in 0 .. 1 /\ 1 - front # front
           /\ 1 - (1 - front) = front
           /\ DOMAIN buf = {0, 1}
BY DEF TypeOK

LEMMA WriterIInv ==
    ASSUME IInv, WriterRead \/ WriterFill \/ WriterSwap \/ WriterPublish \/ WriterNotify
    PROVE  IInv'
<1> USE DEF IInv, streamVars, writerVars, readerVars, Woken, MaySwap
<1>1. CASE WriterRead
  <2>1. TypeOK'
    BY <1>1 DEF WriterRead, TypeOK, WriterAt, ReaderAt, CtlAt
  <2>2. NoTornRead' /\ Filled'
    BY <1>1, TwoBuffers DEF WriterRead, TypeOK, NoTornRead, Filled, InTransit, Handshake
  <2>3. Handshake'
    BY <1>1 DEF WriterRead, TypeOK, Handshake, WorkersMatchBlocks
  <2>4. NoLostWakeup' /\ WorkersMatchBlocks' /\ StopsDown'
    BY <1>1 DEF WriterRead, TypeOK, NoLostWakeup, WorkersMatchBlocks, StopsDown, WriterAt, ReaderAt, CtlAt
  <2> QED BY <2>1, <2>2, <2>3, <2>4
<1>2. CASE WriterFill
  <2>1. TypeOK'
    BY <1>2 DEF WriterFill, TypeOK, WriterAt, ReaderAt, CtlAt
  <2>2. NoTornRead' /\ Filled'
    BY <1>2, TwoBuffers DEF WriterFill, TypeOK, NoTornRead, Filled, InTransit, Handshake
  <2>3. Handshake'
    BY <1>2 DEF WriterFill, TypeOK, Handshake, WorkersMatchBlocks
  <2>4. NoLostWakeup' /\ WorkersMatchBlocks' /\ StopsDown'
    BY <1>2 DEF WriterFill, TypeOK, NoLostWakeup, WorkersMatchBlocks, StopsDown, WriterAt, ReaderAt, CtlAt
  <2> QED BY <2>1, <2>2, <2>3, <2>4
<1>3. CASE WriterSwap
  <2>1. TypeOK'
    <3>1. (canSwap \in BOOLEAN /\ writerStop \in BOOLEAN /\ dataReady \in BOOLEAN
             /\ readerStop \in BOOLEAN /\ inStop \in BOOLEAN)'
      BY <1>3, Zenon DEF WriterSwap, TypeOK
    <3>2. (front \in 0 .. 1 /\ buf \in [0 .. 1 -> Blocks \cup {NoBlock, Torn}] /\ view \in 0 .. 1
             /\ taken \in Blocks \cup {NoBlock})'
      BY <1>3, TwoBuffers DEF WriterSwap, TypeOK
    <3>3. (writer \in WriterAt /\ reader \in ReaderAt /\ writerCtl \in CtlAt
             /\ readerCtl \in CtlAt \ {"raise"})'
      BY <1>3 DEF WriterSwap, TypeOK, WriterAt, ReaderAt, CtlAt
    <3> QED BY <3>1, <3>2, <3>3 DEF TypeOK
  <2>2. NoTornRead' /\ Filled'
    BY <1>3, TwoBuffers DEF WriterSwap, TypeOK, NoTornRead, Filled, InTransit, Handshake
  <2>3. Handshake'
    BY <1>3 DEF WriterSwap, TypeOK, Handshake, WorkersMatchBlocks
  <2>4. NoLostWakeup' /\ WorkersMatchBlocks' /\ StopsDown'
    BY <1>3 DEF WriterSwap, TypeOK, NoLostWakeup, WorkersMatchBlocks, StopsDown, WriterAt, ReaderAt, CtlAt
  <2> QED BY <2>1, <2>2, <2>3, <2>4
<1>4. CASE WriterPublish
  <2>1. TypeOK'
    BY <1>4 DEF WriterPublish, TypeOK, WriterAt, ReaderAt, CtlAt
  <2>2. NoTornRead' /\ Filled'
    BY <1>4, TwoBuffers DEF WriterPublish, TypeOK, NoTornRead, Filled, InTransit, Handshake
  <2>3. Handshake'
    BY <1>4 DEF WriterPublish, TypeOK, Handshake, WorkersMatchBlocks
  <2>4. NoLostWakeup' /\ WorkersMatchBlocks' /\ StopsDown'
    BY <1>4 DEF WriterPublish, TypeOK, NoLostWakeup, WorkersMatchBlocks, StopsDown, WriterAt, ReaderAt, CtlAt
  <2> QED BY <2>1, <2>2, <2>3, <2>4
<1>5. CASE WriterNotify
  <2>1. TypeOK'
    BY <1>5 DEF WriterNotify, TypeOK, WriterAt, ReaderAt, CtlAt
  <2>2. NoTornRead' /\ Filled'
    BY <1>5, TwoBuffers DEF WriterNotify, TypeOK, NoTornRead, Filled, InTransit, Handshake
  <2>3. Handshake'
    BY <1>5 DEF WriterNotify, TypeOK, Handshake, WorkersMatchBlocks
  <2>4. NoLostWakeup' /\ WorkersMatchBlocks' /\ StopsDown'
    BY <1>5 DEF WriterNotify, TypeOK, NoLostWakeup, WorkersMatchBlocks, StopsDown, WriterAt, ReaderAt, CtlAt
  <2> QED BY <2>1, <2>2, <2>3, <2>4
<1> QED BY <1>1, <1>2, <1>3, <1>4, <1>5

LEMMA ReaderIInv ==
    ASSUME IInv, ReaderRead \/ ReaderStart \/ ReaderHandle \/ ReaderFlush
               \/ ReaderFree \/ ReaderNotify
    PROVE  IInv'
<1> USE DEF IInv, streamVars, writerVars, readerVars, Woken, MaySwap
<1>1. CASE ReaderRead
  <2>1. TypeOK'
    BY <1>1 DEF ReaderRead, TypeOK, WriterAt, ReaderAt, CtlAt
  <2>2. NoTornRead' /\ Filled'
    BY <1>1, TwoBuffers DEF ReaderRead, TypeOK, NoTornRead, Filled, InTransit, Handshake
  <2>3. Handshake'
    BY <1>1 DEF ReaderRead, TypeOK, Handshake, WorkersMatchBlocks
  <2>4. NoLostWakeup' /\ WorkersMatchBlocks' /\ StopsDown'
    BY <1>1 DEF ReaderRead, TypeOK, NoLostWakeup, WorkersMatchBlocks, StopsDown, WriterAt, ReaderAt, CtlAt
  <2> QED BY <2>1, <2>2, <2>3, <2>4
<1>2. CASE ReaderStart
  <2>1. TypeOK'
    BY <1>2, TwoBuffers DEF ReaderStart, TypeOK, WriterAt, ReaderAt, CtlAt
  <2>2. NoTornRead' /\ Filled'
    BY <1>2, TwoBuffers DEF ReaderStart, TypeOK, NoTornRead, Filled, InTransit, Handshake
  <2>3. Handshake'
    BY <1>2 DEF ReaderStart, TypeOK, Handshake, WorkersMatchBlocks
  <2>4. NoLostWakeup' /\ WorkersMatchBlocks' /\ StopsDown'
    BY <1>2 DEF ReaderStart, TypeOK, NoLostWakeup, WorkersMatchBlocks, StopsDown, WriterAt, ReaderAt, CtlAt
  <2> QED BY <2>1, <2>2, <2>3, <2>4
<1>3. CASE ReaderHandle
  <2>1. TypeOK'
    BY <1>3 DEF ReaderHandle, TypeOK, WriterAt, ReaderAt, CtlAt, NoTornRead
  <2>2. NoTornRead' /\ Filled'
    BY <1>3, TwoBuffers DEF ReaderHandle, TypeOK, NoTornRead, Filled, InTransit, Handshake
  <2>3. Handshake'
    BY <1>3 DEF ReaderHandle, TypeOK, Handshake, WorkersMatchBlocks
  <2>4. NoLostWakeup' /\ WorkersMatchBlocks' /\ StopsDown'
    BY <1>3 DEF ReaderHandle, TypeOK, NoLostWakeup, WorkersMatchBlocks, StopsDown, WriterAt, ReaderAt, CtlAt
  <2> QED BY <2>1, <2>2, <2>3, <2>4
<1>4. CASE ReaderFlush
  <2>1. TypeOK'
    <3>1. (canSwap \in BOOLEAN /\ writerStop \in BOOLEAN /\ dataReady \in BOOLEAN
             /\ readerStop \in BOOLEAN /\ inStop \in BOOLEAN)'
      BY <1>4, Zenon DEF ReaderFlush, TypeOK
    <3>2. (front \in 0 .. 1 /\ buf \in [0 .. 1 -> Blocks \cup {NoBlock, Torn}] /\ view \in 0 .. 1
             /\ taken \in Blocks \cup {NoBlock})'
      BY <1>4 DEF ReaderFlush, TypeOK
    <3>3. (writer \in WriterAt /\ reader \in ReaderAt /\ writerCtl \in CtlAt
             /\ readerCtl \in CtlAt \ {"raise"})'
      BY <1>4 DEF ReaderFlush, TypeOK, WriterAt, ReaderAt, CtlAt
    <3> QED BY <3>1, <3>2, <3>3 DEF TypeOK
  <2>2. NoTornRead' /\ Filled'
    BY <1>4, TwoBuffers DEF ReaderFlush, TypeOK, NoTornRead, Filled, InTransit, Handshake
  <2>3. Handshake'
    BY <1>4 DEF ReaderFlush, TypeOK, Handshake, WorkersMatchBlocks
  <2>4. NoLostWakeup' /\ WorkersMatchBlocks' /\ StopsDown'
    BY <1>4 DEF ReaderFlush, TypeOK, NoLostWakeup, WorkersMatchBlocks, StopsDown, WriterAt, ReaderAt, CtlAt
  <2> QED BY <2>1, <2>2, <2>3, <2>4
<1>5. CASE ReaderFree
  <2>1. TypeOK'
    BY <1>5 DEF ReaderFree, TypeOK, WriterAt, ReaderAt, CtlAt
  <2>2. NoTornRead' /\ Filled'
    BY <1>5, TwoBuffers DEF ReaderFree, TypeOK, NoTornRead, Filled, InTransit, Handshake
  <2>3. Handshake'
    BY <1>5 DEF ReaderFree, TypeOK, Handshake, WorkersMatchBlocks
  <2>4. NoLostWakeup' /\ WorkersMatchBlocks' /\ StopsDown'
    BY <1>5 DEF ReaderFree, TypeOK, NoLostWakeup, WorkersMatchBlocks, StopsDown, WriterAt, ReaderAt, CtlAt
  <2> QED BY <2>1, <2>2, <2>3, <2>4
<1>6. CASE ReaderNotify
  <2>1. TypeOK'
    BY <1>6 DEF ReaderNotify, TypeOK, WriterAt, ReaderAt, CtlAt
  <2>2. NoTornRead' /\ Filled'
    BY <1>6, TwoBuffers DEF ReaderNotify, TypeOK, NoTornRead, Filled, InTransit, Handshake
  <2>3. Handshake'
    BY <1>6 DEF ReaderNotify, TypeOK, Handshake, WorkersMatchBlocks
  <2>4. NoLostWakeup' /\ WorkersMatchBlocks' /\ StopsDown'
    BY <1>6 DEF ReaderNotify, TypeOK, NoLostWakeup, WorkersMatchBlocks, StopsDown, WriterAt, ReaderAt, CtlAt
  <2> QED BY <2>1, <2>2, <2>3, <2>4
<1> QED BY <1>1, <1>2, <1>3, <1>4, <1>5, <1>6

LEMMA ControlIInv ==
    ASSUME IInv, \/ StartWriter \/ StopWriter \/ RaiseWriterStop \/ NotifyWriterStop
                 \/ JoinWriter \/ ClearWriterStop \/ StartReader \/ StopReader
                 \/ NotifyReaderStop \/ JoinReader \/ ClearReaderStop \/ SpuriousWakeup
    PROVE  IInv'
<1> USE DEF IInv, streamVars, writerVars, readerVars, Woken, MaySwap
<1>1. CASE StartWriter
  <2>1. TypeOK'
    BY <1>1 DEF StartWriter, TypeOK, WriterAt, ReaderAt, CtlAt
  <2>2. NoTornRead' /\ Filled'
    BY <1>1, TwoBuffers DEF StartWriter, TypeOK, NoTornRead, Filled, InTransit, Handshake
  <2>3. Handshake'
    BY <1>1 DEF StartWriter, TypeOK, Handshake, WorkersMatchBlocks
  <2>4. NoLostWakeup' /\ WorkersMatchBlocks' /\ StopsDown'
    BY <1>1 DEF StartWriter, TypeOK, NoLostWakeup, WorkersMatchBlocks, StopsDown, WriterAt, ReaderAt, CtlAt
  <2> QED BY <2>1, <2>2, <2>3, <2>4
<1>2. CASE StopWriter
  <2>1. TypeOK'
    BY <1>2 DEF StopWriter, TypeOK, WriterAt, ReaderAt, CtlAt
  <2>2. NoTornRead' /\ Filled'
    BY <1>2, TwoBuffers DEF StopWriter, TypeOK, NoTornRead, Filled, InTransit, Handshake
  <2>3. Handshake'
    BY <1>2 DEF StopWriter, TypeOK, Handshake, WorkersMatchBlocks
  <2>4. NoLostWakeup' /\ WorkersMatchBlocks' /\ StopsDown'
    BY <1>2 DEF StopWriter, TypeOK, NoLostWakeup, WorkersMatchBlocks, StopsDown, WriterAt, ReaderAt, CtlAt
  <2> QED BY <2>1, <2>2, <2>3, <2>4
<1>3. CASE RaiseWriterStop
  <2>1. TypeOK'
    BY <1>3 DEF RaiseWriterStop, TypeOK, WriterAt, ReaderAt, CtlAt
  <2>2. NoTornRead' /\ Filled'
    BY <1>3, TwoBuffers DEF RaiseWriterStop, TypeOK, NoTornRead, Filled, InTransit, Handshake
  <2>3. Handshake'
    BY <1>3 DEF RaiseWriterStop, TypeOK, Handshake, WorkersMatchBlocks
  <2>4. NoLostWakeup' /\ WorkersMatchBlocks' /\ StopsDown'
    BY <1>3 DEF RaiseWriterStop, TypeOK, NoLostWakeup, WorkersMatchBlocks, StopsDown, WriterAt, ReaderAt, CtlAt
  <2> QED BY <2>1, <2>2, <2>3, <2>4
<1>4. CASE NotifyWriterStop
  <2>1. TypeOK'
    BY <1>4 DEF NotifyWriterStop, TypeOK, WriterAt, ReaderAt, CtlAt
  <2>2. NoTornRead' /\ Filled'
    BY <1>4, TwoBuffers DEF NotifyWriterStop, TypeOK, NoTornRead, Filled, InTransit, Handshake
  <2>3. Handshake'
    BY <1>4 DEF NotifyWriterStop, TypeOK, Handshake, WorkersMatchBlocks
  <2>4. NoLostWakeup' /\ WorkersMatchBlocks' /\ StopsDown'
    BY <1>4 DEF NotifyWriterStop, TypeOK, NoLostWakeup, WorkersMatchBlocks, StopsDown, WriterAt, ReaderAt, CtlAt
  <2> QED BY <2>1, <2>2, <2>3, <2>4
<1>5. CASE JoinWriter
  <2>1. TypeOK'
    BY <1>5 DEF JoinWriter, TypeOK, WriterAt, ReaderAt, CtlAt
  <2>2. NoTornRead' /\ Filled'
    BY <1>5, TwoBuffers DEF JoinWriter, TypeOK, NoTornRead, Filled, InTransit, Handshake
  <2>3. Handshake'
    BY <1>5 DEF JoinWriter, TypeOK, Handshake, WorkersMatchBlocks
  <2>4. NoLostWakeup' /\ WorkersMatchBlocks' /\ StopsDown'
    BY <1>5 DEF JoinWriter, TypeOK, NoLostWakeup, WorkersMatchBlocks, StopsDown, WriterAt, ReaderAt, CtlAt
  <2> QED BY <2>1, <2>2, <2>3, <2>4
<1>6. CASE ClearWriterStop
  <2>1. TypeOK'
    <3>1. (canSwap \in BOOLEAN /\ writerStop \in BOOLEAN /\ dataReady \in BOOLEAN
             /\ readerStop \in BOOLEAN /\ inStop \in BOOLEAN)'
      BY <1>6, Zenon DEF ClearWriterStop, TypeOK
    <3>2. (front \in 0 .. 1 /\ buf \in [0 .. 1 -> Blocks \cup {NoBlock, Torn}] /\ view \in 0 .. 1
             /\ taken \in Blocks \cup {NoBlock})'
      BY <1>6 DEF ClearWriterStop, TypeOK
    <3>3. (writer \in WriterAt /\ reader \in ReaderAt /\ writerCtl \in CtlAt
             /\ readerCtl \in CtlAt \ {"raise"})'
      BY <1>6 DEF ClearWriterStop, TypeOK, WriterAt, ReaderAt, CtlAt
    <3> QED BY <3>1, <3>2, <3>3 DEF TypeOK
  <2>2. NoTornRead' /\ Filled'
    BY <1>6, TwoBuffers DEF ClearWriterStop, TypeOK, NoTornRead, Filled, InTransit, Handshake
  <2>3. Handshake'
    BY <1>6 DEF ClearWriterStop, TypeOK, Handshake, WorkersMatchBlocks
  <2>4. NoLostWakeup' /\ WorkersMatchBlocks' /\ StopsDown'
    BY <1>6 DEF ClearWriterStop, TypeOK, NoLostWakeup, WorkersMatchBlocks, StopsDown, WriterAt, ReaderAt, CtlAt
  <2> QED BY <2>1, <2>2, <2>3, <2>4
<1>7. CASE StartReader
  <2>1. TypeOK'
    BY <1>7 DEF StartReader, TypeOK, WriterAt, ReaderAt, CtlAt
  <2>2. NoTornRead' /\ Filled'
    BY <1>7, TwoBuffers DEF StartReader, TypeOK, NoTornRead, Filled, InTransit, Handshake, WorkersMatchBlocks
  <2>3. Handshake'
    BY <1>7 DEF StartReader, TypeOK, Handshake, WorkersMatchBlocks
  <2>4. NoLostWakeup' /\ WorkersMatchBlocks' /\ StopsDown'
    BY <1>7 DEF StartReader, TypeOK, NoLostWakeup, WorkersMatchBlocks, StopsDown, WriterAt, ReaderAt, CtlAt
  <2> QED BY <2>1, <2>2, <2>3, <2>4
<1>8. CASE StopReader
  <2>1. TypeOK'
    BY <1>8 DEF StopReader, TypeOK, WriterAt, ReaderAt, CtlAt
  <2>2. NoTornRead' /\ Filled'
    BY <1>8, TwoBuffers DEF StopReader, TypeOK, NoTornRead, Filled, InTransit, Handshake
  <2>3. Handshake'
    BY <1>8 DEF StopReader, TypeOK, Handshake, WorkersMatchBlocks
  <2>4. NoLostWakeup' /\ WorkersMatchBlocks' /\ StopsDown'
    BY <1>8 DEF StopReader, TypeOK, NoLostWakeup, WorkersMatchBlocks, StopsDown, WriterAt, ReaderAt, CtlAt
  <2> QED BY <2>1, <2>2, <2>3, <2>4
<1>9. CASE NotifyReaderStop
  <2>1. TypeOK'
    BY <1>9 DEF NotifyReaderStop, TypeOK, WriterAt, ReaderAt, CtlAt
  <2>2. NoTornRead' /\ Filled'
    BY <1>9, TwoBuffers DEF NotifyReaderStop, TypeOK, NoTornRead, Filled, InTransit, Handshake
  <2>3. Handshake'
    BY <1>9 DEF NotifyReaderStop, TypeOK, Handshake, WorkersMatchBlocks
  <2>4. NoLostWakeup' /\ WorkersMatchBlocks' /\ StopsDown'
    BY <1>9 DEF NotifyReaderStop, TypeOK, NoLostWakeup, WorkersMatchBlocks, StopsDown, WriterAt, ReaderAt, CtlAt
  <2> QED BY <2>1, <2>2, <2>3, <2>4
<1>10. CASE JoinReader
  <2>1. TypeOK'
    BY <1>10 DEF JoinReader, TypeOK, WriterAt, ReaderAt, CtlAt
  <2>2. NoTornRead' /\ Filled'
    BY <1>10, TwoBuffers DEF JoinReader, TypeOK, NoTornRead, Filled, InTransit, Handshake
  <2>3. Handshake'
    BY <1>10 DEF JoinReader, TypeOK, Handshake, WorkersMatchBlocks
  <2>4. NoLostWakeup' /\ WorkersMatchBlocks' /\ StopsDown'
    BY <1>10 DEF JoinReader, TypeOK, NoLostWakeup, WorkersMatchBlocks, StopsDown, WriterAt, ReaderAt, CtlAt
  <2> QED BY <2>1, <2>2, <2>3, <2>4
<1>11. CASE ClearReaderStop
  <2>1. TypeOK'
    <3>1. (canSwap \in BOOLEAN /\ writerStop \in BOOLEAN /\ dataReady \in BOOLEAN
             /\ readerStop \in BOOLEAN /\ inStop \in BOOLEAN)'
      BY <1>11, Zenon DEF ClearReaderStop, TypeOK
    <3>2. (front \in 0 .. 1 /\ buf \in [0 .. 1 -> Blocks \cup {NoBlock, Torn}] /\ view \in 0 .. 1
             /\ taken \in Blocks \cup {NoBlock})'
      BY <1>11 DEF ClearReaderStop, TypeOK
    <3>3. (writer \in WriterAt /\ reader \in ReaderAt /\ writerCtl \in CtlAt
             /\ readerCtl \in CtlAt \ {"raise"})'
      BY <1>11 DEF ClearReaderStop, TypeOK, WriterAt, ReaderAt, CtlAt
    <3> QED BY <3>1, <3>2, <3>3 DEF TypeOK
  <2>2. NoTornRead' /\ Filled'
    BY <1>11, TwoBuffers DEF ClearReaderStop, TypeOK, NoTornRead, Filled, InTransit, Handshake
  <2>3. Handshake'
    BY <1>11 DEF ClearReaderStop, TypeOK, Handshake, WorkersMatchBlocks
  <2>4. NoLostWakeup' /\ WorkersMatchBlocks' /\ StopsDown'
    BY <1>11 DEF ClearReaderStop, TypeOK, NoLostWakeup, WorkersMatchBlocks, StopsDown, WriterAt, ReaderAt, CtlAt
  <2> QED BY <2>1, <2>2, <2>3, <2>4
<1>12. CASE SpuriousWakeup
  <2>1. TypeOK'
    BY <1>12 DEF SpuriousWakeup, TypeOK, WriterAt, ReaderAt, CtlAt
  <2>2. NoTornRead' /\ Filled'
    BY <1>12, TwoBuffers DEF SpuriousWakeup, TypeOK, NoTornRead, Filled, InTransit, Handshake
  <2>3. Handshake'
    BY <1>12 DEF SpuriousWakeup, TypeOK, Handshake, WorkersMatchBlocks
  <2>4. NoLostWakeup' /\ WorkersMatchBlocks' /\ StopsDown'
    BY <1>12 DEF SpuriousWakeup, TypeOK, NoLostWakeup, WorkersMatchBlocks, StopsDown, WriterAt, ReaderAt, CtlAt
  <2> QED BY <2>1, <2>2, <2>3, <2>4
<1> QED BY <1>1, <1>2, <1>3, <1>4, <1>5, <1>6, <1>7, <1>8, <1>9, <1>10, <1>11, <1>12

LEMMA NextIInv == IInv /\ [Next]_vars => IInv'
<1> SUFFICES ASSUME IInv, [Next]_vars PROVE IInv'
  OBVIOUS
<1>1. CASE Next
  BY <1>1, WriterIInv, ReaderIInv, ControlIInv
     DEF Next, WriterWorks, ReaderWorks, WriterStops, ReaderStops
<1>2. CASE UNCHANGED vars
  BY <1>2 DEF vars, streamVars, writerVars, readerVars, IInv, TypeOK, NoTornRead, NoLostWakeup,
              WorkersMatchBlocks, Handshake, Filled, InTransit, StopsDown
<1> QED BY <1>1, <1>2

-----------------------------------------------------------------------------
(***************************************************************************)
(* Every state of every run has the types of TypeOK.                       *)
(***************************************************************************)
THEOREM TypeCorrect == Spec => []TypeOK
<1>1. IInv => TypeOK
  BY DEF IInv
<1> QED BY <1>1, InitIInv, NextIInv, PTL DEF Spec

(***************************************************************************)
(* A handler never works on the buffer the writer fills.                   *)
(***************************************************************************)
THEOREM ReadsWhole == Spec => []NoTornRead
<1>1. IInv => NoTornRead
  BY DEF IInv
<1> QED BY <1>1, InitIInv, NextIInv, PTL DEF Spec

(***************************************************************************)
(* No worker sleeps through a condition that came true.                    *)
(***************************************************************************)
THEOREM WakeupsArrive == Spec => []NoLostWakeup
<1>1. IInv => NoLostWakeup
  BY DEF IInv
<1> QED BY <1>1, InitIInv, NextIInv, PTL DEF Spec

(***************************************************************************)
(* A worker lives exactly as long as its block is running or stopping.     *)
(***************************************************************************)
THEOREM WorkersLive == Spec => []WorkersMatchBlocks
<1>1. IInv => WorkersMatchBlocks
  BY DEF IInv
<1> QED BY <1>1, InitIInv, NextIInv, PTL DEF Spec

-----------------------------------------------------------------------------
(* The stream is a channel. *)

Between == IF InTransit THEN buf[1 - front] ELSE NoBlock

LEMMA PutStep ==
    ASSUME IInv, WriterSwap
    PROVE  [Channel!Next]_<<Between, taken>>
<1>1. CASE writer' = "publish"
  <2>1. canSwap /\ ~ canSwap' /\ front' = 1 - front /\ buf' = buf /\ reader' = reader /\ taken' = taken
    BY <1>1 DEF WriterSwap, MaySwap, readerVars
  <2>2. Between = NoBlock
    BY <2>1 DEF Between, InTransit
  <2>3. Between' = buf[front]
    BY <2>1, TwoBuffers DEF IInv, Between, InTransit, Handshake
  <2>4. buf[front] \in Blocks
    BY DEF IInv, Filled, WriterSwap
  <2> QED BY <2>1, <2>2, <2>3, <2>4 DEF Channel!Next, Channel!Put, Between
<1>2. CASE writer' # "publish"
  <2>1. UNCHANGED <<canSwap, front, buf, reader, taken>>
    BY <1>2 DEF WriterSwap, readerVars
  <2> QED BY <2>1 DEF Between, InTransit
<1> QED BY <1>1, <1>2

LEMMA TakeStep ==
    ASSUME IInv, ReaderHandle
    PROVE  [Channel!Next]_<<Between, taken>>
<1>1. ~ canSwap /\ reader = "handle" /\ reader' = "flush" /\ taken' = buf[view]
  BY DEF ReaderHandle, IInv, Handshake
<1>2. Between = buf[1 - front] /\ Between' = NoBlock
  BY <1>1 DEF Between, InTransit, ReaderHandle, streamVars
<1>3. view = 1 - front /\ buf[1 - front] \in Blocks
  BY <1>1 DEF IInv, NoTornRead
<1>4. Between # NoBlock /\ taken' = Between
  BY <1>1, <1>2, <1>3, StreamAssumption
<1> QED BY <1>2, <1>4 DEF Channel!Next, Channel!Take, Between

LEMMA OtherStep ==
    ASSUME IInv, [Next]_vars, ~ WriterSwap, ~ ReaderHandle
    PROVE  UNCHANGED <<Between, taken>>
<1> USE DEF IInv, streamVars, writerVars, readerVars
<1>1. CASE WriterRead \/ WriterFill
  <2>1. buf'[1 - front] = buf[1 - front] /\ UNCHANGED <<canSwap, front, reader, taken>>
    BY <1>1, TwoBuffers DEF WriterRead, WriterFill
  <2> QED BY <2>1 DEF Between, InTransit
<1>2. CASE ReaderFree
  BY <1>2 DEF ReaderFree, Between, InTransit
<1>3. CASE \/ WriterPublish \/ WriterNotify
           \/ ReaderRead \/ ReaderStart \/ ReaderFlush \/ ReaderNotify \/ SpuriousWakeup
  BY <1>3 DEF WriterPublish, WriterNotify, ReaderRead, ReaderStart, ReaderFlush, ReaderNotify,
              SpuriousWakeup, Woken, Between, InTransit
<1>4. CASE \/ StartWriter \/ StopWriter \/ WriterStops
  BY <1>4 DEF StartWriter, StopWriter, WriterStops, RaiseWriterStop, NotifyWriterStop, JoinWriter,
              ClearWriterStop, Between, InTransit
<1>5. CASE \/ StartReader \/ StopReader \/ ReaderStops
  BY <1>5 DEF StartReader, StopReader, ReaderStops, NotifyReaderStop, JoinReader, ClearReaderStop,
              WorkersMatchBlocks, Woken, Between, InTransit
<1>6. CASE UNCHANGED vars
  BY <1>6 DEF vars, Between, InTransit
<1> QED BY <1>1, <1>2, <1>3, <1>4, <1>5, <1>6 DEF Next, WriterWorks, ReaderWorks

(***************************************************************************)
(* DspStream implements BlockChannel: swapping puts, handling takes, and   *)
(* no stop, start, sleep or wakeup is visible to the channel.              *)
(***************************************************************************)
THEOREM Refinement == Spec => ChannelSpec
<1>1. Init => Channel!Init
  BY DEF Init, Channel!Init, InTransit
<1>2. IInv /\ [Next]_vars => [Channel!Next]_<<Between, taken>>
  BY PutStep, TakeStep, OtherStep
<1>3. IInv /\ [Next]_vars => [Channel!Next]_Channel!channelVars
  BY <1>2 DEF Channel!channelVars, Between
<1> QED BY InitIInv, NextIInv, <1>1, <1>3, PTL DEF Spec, ChannelSpec, Channel!Spec

=============================================================================
