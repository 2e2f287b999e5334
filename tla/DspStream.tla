------------------------------- MODULE DspStream -------------------------------
(***************************************************************************)
(* A stream of the DSP graph (stream.h) between two blocks (block.h): the  *)
(* worker thread of the block that writes it, the worker thread of the     *)
(* block that reads it, and for each block the thread that starts and      *)
(* stops it.                                                               *)
(*                                                                         *)
(* The granularity is the critical section: what runs under swapMtx or     *)
(* rdyMtx is one action, and a notify_all, which is issued after the       *)
(* unlock, is an action of its own.  A thread that waits on a condition    *)
(* variable is asleep until it is notified.                                *)
(***************************************************************************)
EXTENDS Integers

CONSTANTS
    Blocks,         \* contents of a block
    NoBlock,        \* a buffer nothing was written to, nothing taken yet
    Torn            \* a buffer that is being written

ASSUME StreamAssumption ==
    /\ NoBlock \notin Blocks
    /\ Torn \notin Blocks
    /\ Torn # NoBlock

VARIABLES
    canSwap, writerStop,    \* under swapMtx
    dataReady, readerStop,  \* under rdyMtx
    front,                  \* which of the two buffers is writeBuf
    buf,                    \* contents of the buffers
    writer,                 \* where the writing block's worker is
    inStop,                 \* readerStop of the stream that feeds the writing block
    reader,                 \* where the reading block's worker is
    view,                   \* the buffer the handler was given
    taken,                  \* what the handler made of it
    writerCtl, readerCtl    \* where the threads are that start and stop the blocks

streamVars == <<canSwap, writerStop, dataReady, readerStop, front, buf>>
writerVars == <<writer, inStop, writerCtl>>
readerVars == <<reader, view, taken, readerCtl>>
vars == <<streamVars, writerVars, readerVars>>

WriterAt == {"off", "read", "fill", "swap", "asleep", "publish", "notify"}
ReaderAt == {"off", "read", "asleep", "start", "handle", "flush", "free", "notify"}
CtlAt    == {"stopped", "running", "raise", "notify", "join", "clear"}

-----------------------------------------------------------------------------
(* The writing block: read the input, fill writeBuf, swap. *)

\* read() of the writing block's own input: a block to work on, or -1.
WriterRead ==
    /\ writer = "read"
    /\ IF inStop
       THEN /\ writer' = "off"
            /\ UNCHANGED buf
       ELSE /\ writer' = "fill"
            /\ buf' = [buf EXCEPT ![front] = Torn]
    /\ UNCHANGED <<canSwap, writerStop, dataReady, readerStop, front, inStop, writerCtl, readerVars>>

WriterFill ==
    /\ writer = "fill"
    /\ writer' = "swap"
    /\ \E b \in Blocks : buf' = [buf EXCEPT ![front] = b]
    /\ UNCHANGED <<canSwap, writerStop, dataReady, readerStop, front, inStop, writerCtl, readerVars>>

\* Mutant: the writer does not wait for the reader.
MaySwapAlways == TRUE

MaySwap == canSwap

\* swap() under swapMtx: give up, swap the buffers, or wait.
WriterSwap ==
    /\ writer = "swap"
    /\ \/ /\ writerStop
          /\ writer' = "off"
          /\ UNCHANGED <<canSwap, front>>
       \/ /\ ~ writerStop
          /\ MaySwap
          /\ writer' = "publish"
          /\ front' = 1 - front
          /\ canSwap' = FALSE
       \/ /\ ~ writerStop
          /\ ~ MaySwap
          /\ writer' = "asleep"
          /\ UNCHANGED <<canSwap, front>>
    /\ UNCHANGED <<writerStop, dataReady, readerStop, buf, inStop, writerCtl, readerVars>>

\* swap() under rdyMtx.
WriterPublish ==
    /\ writer = "publish"
    /\ writer' = "notify"
    /\ dataReady' = TRUE
    /\ UNCHANGED <<canSwap, writerStop, readerStop, front, buf, inStop, writerCtl, readerVars>>

\* Mutant: a reader that sleeps is not notified.
WokenNever(worker, test) == worker

\* notify_all: a sleeper goes back to its test.
Woken(worker, test) == IF worker = "asleep" THEN test ELSE worker

WriterNotify ==
    /\ writer = "notify"
    /\ writer' = "read"
    /\ reader' = Woken(reader, "read")
    /\ UNCHANGED <<streamVars, inStop, writerCtl, view, taken, readerCtl>>

-----------------------------------------------------------------------------
(* The reading block: read, handle, flush. *)

\* read() under rdyMtx: give up, go on, or wait.
ReaderRead ==
    /\ reader = "read"
    /\ reader' = IF readerStop THEN "off" ELSE IF dataReady THEN "start" ELSE "asleep"
    /\ UNCHANGED <<streamVars, writerVars, view, taken, readerCtl>>

\* The handler gets readBuf and works on it.
ReaderStart ==
    /\ reader = "start"
    /\ reader' = "handle"
    /\ view' = 1 - front
    /\ UNCHANGED <<streamVars, writerVars, taken, readerCtl>>

ReaderHandle ==
    /\ reader = "handle"
    /\ reader' = "flush"
    /\ taken' = buf[view]
    /\ UNCHANGED <<streamVars, writerVars, view, readerCtl>>

\* Mutant: the block stays ready after it was handled.
ReaderFlushNothing ==
    /\ reader = "flush"
    /\ reader' = "free"
    /\ UNCHANGED <<streamVars, writerVars, view, taken, readerCtl>>

\* flush() under rdyMtx, and then under swapMtx.
ReaderFlush ==
    /\ reader = "flush"
    /\ reader' = "free"
    /\ dataReady' = FALSE
    /\ UNCHANGED <<canSwap, writerStop, readerStop, front, buf, writerVars, view, taken, readerCtl>>

\* Mutant: the writer that already holds the next block is forgotten.
ReaderFreeSilent ==
    /\ reader = "free"
    /\ reader' = "read"
    /\ canSwap' = TRUE
    /\ UNCHANGED <<writerStop, dataReady, readerStop, front, buf, writerVars, view, taken, readerCtl>>

ReaderFree ==
    /\ reader = "free"
    /\ reader' = "notify"
    /\ canSwap' = TRUE
    /\ UNCHANGED <<writerStop, dataReady, readerStop, front, buf, writerVars, view, taken, readerCtl>>

ReaderNotify ==
    /\ reader = "notify"
    /\ reader' = "read"
    /\ writer' = Woken(writer, "swap")
    /\ UNCHANGED <<streamVars, inStop, writerCtl, view, taken, readerCtl>>

\* A condition variable may wake a waiter for no reason.
SpuriousWakeup ==
    \/ writer = "asleep" /\ writer' = "swap" /\ UNCHANGED reader
    \/ reader = "asleep" /\ reader' = "read" /\ UNCHANGED writer
    /\ UNCHANGED <<streamVars, inStop, writerCtl, view, taken, readerCtl>>

-----------------------------------------------------------------------------
(* start() and doStop() of the writing block: stop its input, stop its     *)
(* output, join the worker, take the stops back.  A setter that stops the  *)
(* block for a moment (tempStop, tempStart) is a stop followed by a start. *)

StartWriter ==
    /\ writerCtl = "stopped"
    /\ writerCtl' = "running"
    /\ writer' = "read"
    /\ UNCHANGED <<streamVars, inStop, readerVars>>

StopWriter ==
    /\ writerCtl = "running"
    /\ writerCtl' = "raise"
    /\ inStop' = TRUE
    /\ UNCHANGED <<streamVars, writer, readerVars>>

\* stopWriter() under swapMtx, and its notify_all.
RaiseWriterStop ==
    /\ writerCtl = "raise"
    /\ writerCtl' = "notify"
    /\ writerStop' = TRUE
    /\ UNCHANGED <<canSwap, dataReady, readerStop, front, buf, writer, inStop, readerVars>>

NotifyWriterStop ==
    /\ writerCtl = "notify"
    /\ writerCtl' = "join"
    /\ writer' = Woken(writer, "swap")
    /\ UNCHANGED <<streamVars, inStop, readerVars>>

\* Mutant: the worker is not joined.
JoinWriterNever ==
    /\ writerCtl = "join"
    /\ writerCtl' = "clear"
    /\ UNCHANGED <<streamVars, writer, inStop, readerVars>>

JoinWriter ==
    /\ writerCtl = "join"
    /\ writer = "off"
    /\ writerCtl' = "clear"
    /\ UNCHANGED <<streamVars, writer, inStop, readerVars>>

\* clearReadStop() of the input and clearWriteStop(), neither under a lock.
ClearWriterStop ==
    /\ writerCtl = "clear"
    /\ writerCtl' = "stopped"
    /\ writerStop' = FALSE
    /\ inStop' = FALSE
    /\ UNCHANGED <<canSwap, dataReady, readerStop, front, buf, writer, readerVars>>

(* The same for the reading block. *)

StartReader ==
    /\ readerCtl = "stopped"
    /\ readerCtl' = "running"
    /\ reader' = "read"
    /\ UNCHANGED <<streamVars, writerVars, view, taken>>

StopReader ==
    /\ readerCtl = "running"
    /\ readerCtl' = "notify"
    /\ readerStop' = TRUE
    /\ UNCHANGED <<canSwap, writerStop, dataReady, front, buf, writerVars, reader, view, taken>>

NotifyReaderStop ==
    /\ readerCtl = "notify"
    /\ readerCtl' = "join"
    /\ reader' = Woken(reader, "read")
    /\ UNCHANGED <<streamVars, writerVars, view, taken>>

JoinReader ==
    /\ readerCtl = "join"
    /\ reader = "off"
    /\ readerCtl' = "clear"
    /\ UNCHANGED <<streamVars, writerVars, reader, view, taken>>

\* Mutant: the block starts with its stop still raised.
ClearReaderStopForgotten ==
    /\ readerCtl = "clear"
    /\ readerCtl' = "stopped"
    /\ UNCHANGED <<streamVars, writerVars, reader, view, taken>>

ClearReaderStop ==
    /\ readerCtl = "clear"
    /\ readerCtl' = "stopped"
    /\ readerStop' = FALSE
    /\ UNCHANGED <<canSwap, writerStop, dataReady, front, buf, writerVars, reader, view, taken>>

-----------------------------------------------------------------------------
Init ==
    /\ canSwap = TRUE
    /\ writerStop = FALSE
    /\ dataReady = FALSE
    /\ readerStop = FALSE
    /\ front = 0
    /\ buf = [i \in 0 .. 1 |-> NoBlock]
    /\ writer = "off"
    /\ inStop = FALSE
    /\ reader = "off"
    /\ view = 0
    /\ taken = NoBlock
    /\ writerCtl = "stopped"
    /\ readerCtl = "stopped"

WriterWorks == WriterFill \/ WriterSwap \/ WriterPublish \/ WriterNotify
ReaderWorks == ReaderRead \/ ReaderStart \/ ReaderHandle \/ ReaderFlush \/ ReaderFree \/ ReaderNotify

WriterStops == RaiseWriterStop \/ NotifyWriterStop \/ JoinWriter \/ ClearWriterStop
ReaderStops == NotifyReaderStop \/ JoinReader \/ ClearReaderStop

Next ==
    \/ WriterRead \/ WriterWorks
    \/ ReaderWorks
    \/ SpuriousWakeup
    \/ StartWriter \/ StopWriter \/ WriterStops
    \/ StartReader \/ StopReader \/ ReaderStops

\* The system runs every thread that is not waiting; nobody owes a start, a
\* stop, or a block at the input of the writing block.
Fairness ==
    /\ WF_vars(inStop /\ WriterRead)
    /\ WF_vars(WriterWorks)
    /\ WF_vars(ReaderWorks)
    /\ WF_vars(WriterStops)
    /\ WF_vars(ReaderStops)

Spec == Init /\ [][Next]_vars /\ Fairness

-----------------------------------------------------------------------------
(* Properties *)

TypeOK ==
    /\ canSwap \in BOOLEAN /\ writerStop \in BOOLEAN
    /\ dataReady \in BOOLEAN /\ readerStop \in BOOLEAN
    /\ front \in 0 .. 1
    /\ buf \in [0 .. 1 -> Blocks \cup {NoBlock, Torn}]
    /\ writer \in WriterAt
    /\ inStop \in BOOLEAN
    /\ reader \in ReaderAt
    /\ view \in 0 .. 1
    /\ taken \in Blocks \cup {NoBlock}
    /\ writerCtl \in CtlAt
    /\ readerCtl \in CtlAt \ {"raise"}

(***************************************************************************)
(* While a handler works on its buffer the writer does not: the two        *)
(* threads share the buffers without a lock around them, and only the      *)
(* order of canSwap and dataReady keeps them apart.                        *)
(***************************************************************************)
NoTornRead ==
    reader \in {"start", "handle"} =>
        /\ buf[1 - front] \in Blocks
        /\ reader = "handle" => view = 1 - front

(***************************************************************************)
(* A worker sleeps on a condition that has come true only while somebody   *)
(* is about to notify it.                                                  *)
(***************************************************************************)
NoLostWakeup ==
    /\ writer = "asleep" /\ (canSwap \/ writerStop)
          => reader = "notify" \/ writerCtl = "notify"
    /\ reader = "asleep" /\ (dataReady \/ readerStop)
          => writer = "notify" \/ readerCtl = "notify"

(***************************************************************************)
(* A worker runs for as long as its block is running, and a stop leaves    *)
(* nothing behind that could end the next worker.                          *)
(***************************************************************************)
WorkersMatchBlocks ==
    /\ writerCtl = "running" => writer # "off"
    /\ readerCtl = "running" => reader # "off"
    /\ writerCtl \in {"stopped", "clear"} => writer = "off"
    /\ readerCtl \in {"stopped", "clear"} => reader = "off"

(***************************************************************************)
(* stop() returns, whatever the other block is doing: the control thread   *)
(* is the user interface's.                                                *)
(***************************************************************************)
StopReturns ==
    /\ writerCtl = "raise" ~> writerCtl = "stopped"
    /\ readerCtl = "notify" ~> readerCtl = "stopped"

(***************************************************************************)
(* When both blocks are left running and the input goes on, so does the    *)
(* stream, whatever stops and starts came before.                          *)
(***************************************************************************)
Flows ==
    /\ WF_vars(WriterRead)
    /\ <>[](writerCtl = "running" /\ readerCtl = "running")
    => []<><<ReaderHandle>>_vars

\* The block between the ends: swapped in and not yet handled.
InTransit == ~ canSwap /\ reader \notin {"flush", "free"}

Channel == INSTANCE BlockChannel
    WITH slot <- IF InTransit THEN buf[1 - front] ELSE NoBlock

(***************************************************************************)
(* The stream is a channel with room for one block: no block is lost, or   *)
(* handled twice, or handled in parts, over any number of stops, starts    *)
(* and wakeups at either end.                                              *)
(***************************************************************************)
ChannelSpec == Channel!Spec

=============================================================================
