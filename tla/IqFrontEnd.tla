------------------------------ MODULE IqFrontEnd ------------------------------
(***************************************************************************)
(* The I/Q front end (iq_frontend.cpp): samples pass a chain of optional   *)
(* preprocessors; one splitter thread copies each block of them to the FFT *)
(* branch and to the input of every VFO, each VFO's thread makes channel   *)
(* samples of it, and a decoder's handler thread reads them.  The user     *)
(* interface thread adds, removes and reconfigures VFOs, starts and stops  *)
(* handlers, enables and disables preprocessors and changes the rates      *)
(* while samples flow.                                                     *)
(*                                                                         *)
(* Streams are the one-place channels DspStream implements, and raising a  *)
(* block's stops is one step; the input buffer in front of the chain and   *)
(* the reshaper in the FFT branch are part of their streams.               *)
(***************************************************************************)
EXTENDS Integers, Sequences, SequencesExt

CONSTANTS
    Vfos,       \* VFO names
    Served,     \* those whose output some decoder will read
    NoVfo,      \* belongs to no VFO
    Chain       \* the preprocessors that are ever enabled, in the order of the chain

ASSUME FrontEndAssumption ==
    /\ Served \subseteq Vfos
    /\ NoVfo \notin Vfos
    /\ IsFiniteSet(Vfos)
    /\ Chain \in Seq({"decim", "dcBlock", "conjugate"}) /\ IsInjective(Chain)

\* Blocks, each with its worker thread.
Splitter   == <<"splitter", NoVfo>>
FftSink    == <<"fftSink", NoVfo>>
RxVfo(v)   == <<"rxVfo", v>>
Handler(v) == <<"handler", v>>
Link(l)    == <<"link", l>>
Links      == {Link(l) : l \in Range(Chain)}
RxVfos     == {RxVfo(v) : v \in Vfos}
Blocks     == {Splitter, FftSink} \cup Links \cup RxVfos \cup {Handler(v) : v \in Vfos}

\* Streams.
Input     == <<"input", NoVfo>>
FftIn     == <<"fftIn", NoVfo>>
VfoIn(v)  == <<"vfoIn", v>>
VfoOut(v) == <<"vfoOut", v>>
LinkOut(l) == <<"linkOut", l>>
ChainStreams == {Input} \cup {LinkOut(l) : l \in Range(Chain)}
Streams   == (ChainStreams \ {Input}) \cup {FftIn} \cup {VfoIn(v) : v \in Vfos} \cup {VfoOut(v) : v \in Vfos}

VARIABLES
    full,       \* streams that hold a block
    input,      \* block of the chain or splitter -> the stream it reads
    live,       \* VFOs that exist, and their streams with them
    bound,      \* the splitter's streams, in the order it serves them
    next,       \* the one it serves now
    at,         \* block -> where its worker is: "off", "read" or "swap"
    running,    \* blocks that were started
    stops,      \* blocks whose input and outputs are told to stop
    registered, \* VFO -> the streams its decoder's handler has registered: the
                \* "present" one, one that was "freed" (a set: twice is as once)
    ui          \* what the user interface thread still has to do

workerVars == <<full, next, at>>
vars == <<workerVars, input, live, bound, running, stops, registered, ui>>

\* The streams a block reads and writes.
In(b) == CASE b \in DOMAIN input -> input[b]
           [] b = FftSink         -> FftIn
           [] b \in RxVfos        -> VfoIn(b[2])
           [] OTHER               -> VfoOut(b[2])

Out(b) == IF b \in RxVfos THEN VfoOut(b[2]) ELSE LinkOut(b[2])

\* The preprocessors in use, and those before and behind one in the chain.
Enabled        == {l \in Range(Chain) : Link(l) \in running}
Precedes(k, l) == \E i, j \in DOMAIN Chain : i < j /\ Chain[i] = k /\ Chain[j] = l
Before(l)      == {k \in Enabled : Precedes(k, l)}
After(l)       == {k \in Enabled : Precedes(l, k)}
Foremost(ls)   == CHOOSE l \in ls : \A k \in ls : k = l \/ Precedes(l, k)
Hindmost(ls)   == CHOOSE l \in ls : \A k \in ls : k = l \/ Precedes(k, l)

\* Each block of the path reads what the block before it writes.
Behind(ls) == IF ls = {} THEN Input ELSE LinkOut(Hindmost(ls))
InOrder ==
    /\ \A l \in Enabled : input[Link(l)] = Behind(Before(l))
    /\ input[Splitter] = Behind(Enabled)

\* The source delivers, through the input buffer: the front end's input never
\* lacks samples for long, and none are counted.
Available(b) == In(b) \in full \/ In(b) = Input

\* A reader's stop is a flag of the stream: it reaches all who read it.
ReadStopped(b) == \E c \in stops : In(c) = In(b)

-----------------------------------------------------------------------------
(* The worker threads *)

\* read() returns -1: the worker ends.
Quit(b) ==
    /\ at[b] = "read"
    /\ ReadStopped(b)
    /\ at' = [at EXCEPT ![b] = "off"]
    /\ UNCHANGED <<full, next>>

SplitRead ==
    /\ at[Splitter] = "read"
    /\ ~ReadStopped(Splitter)
    /\ Available(Splitter)
    /\ at' = [at EXCEPT ![Splitter] = "swap"]
    /\ next' = 1
    /\ UNCHANGED full

\* Mutant: stop() does not reach a splitter that waits for room.
SplitAbandonNever == FALSE /\ UNCHANGED workerVars

\* swap() returns false: drop the block for the streams that are left.
SplitAbandon ==
    /\ at[Splitter] = "swap"
    /\ next <= Len(bound)
    /\ Splitter \in stops
    /\ at' = [at EXCEPT ![Splitter] = "off"]
    /\ full' = full \ {In(Splitter)}
    /\ UNCHANGED next

SplitSwap ==
    /\ at[Splitter] = "swap"
    /\ next <= Len(bound)
    /\ Splitter \notin stops
    /\ bound[next] \notin full
    /\ full' = full \cup {bound[next]}
    /\ next' = next + 1
    /\ UNCHANGED at

\* Mutant: the input is not flushed.
SplitFlushForgotten ==
    /\ at[Splitter] = "swap"
    /\ next > Len(bound)
    /\ at' = [at EXCEPT ![Splitter] = "off"]
    /\ UNCHANGED <<full, next>>

SplitFlush ==
    /\ at[Splitter] = "swap"
    /\ next > Len(bound)
    /\ at' = [at EXCEPT ![Splitter] = "read"]
    /\ full' = full \ {In(Splitter)}
    /\ UNCHANGED next

\* A preprocessor or a VFO: it frees its input before it waits for room.
ProcRead(b) ==
    /\ at[b] = "read"
    /\ ~ReadStopped(b)
    /\ Available(b)
    /\ full' = full \ {In(b)}
    /\ at' = [at EXCEPT ![b] = "swap"]
    /\ UNCHANGED next

ProcSwap(b) ==
    /\ at[b] = "swap"
    /\ \/ /\ b \in stops
          /\ at' = [at EXCEPT ![b] = "off"]
          /\ UNCHANGED full
       \/ /\ b \notin stops
          /\ Out(b) \notin full
          /\ at' = [at EXCEPT ![b] = "read"]
          /\ full' = full \cup {Out(b)}
    /\ UNCHANGED next

Handle(v) ==
    /\ at[Handler(v)] = "read"
    /\ Handler(v) \notin stops
    /\ VfoOut(v) \in full
    /\ full' = full \ {VfoOut(v)}
    /\ UNCHANGED <<next, at>>

FftHandle ==
    /\ at[FftSink] = "read"
    /\ FftSink \notin stops
    /\ FftIn \in full
    /\ full' = full \ {FftIn}
    /\ UNCHANGED <<next, at>>

SplitterThread == SplitRead \/ SplitAbandon \/ SplitSwap \/ SplitFlush

Workers ==
    /\ \/ SplitterThread \/ FftHandle
       \/ \E v \in Vfos : Handle(v)
       \/ \E b \in Links \cup RxVfos : ProcRead(b) \/ ProcSwap(b)
       \/ \E b \in Blocks : Quit(b)
    /\ UNCHANGED <<input, live, bound, running, stops, registered, ui>>

-----------------------------------------------------------------------------
(* The user interface thread: an operation is the list of its steps.       *)

Create(v) == <<"create", v>>
Bind(v)   == <<"bind", v>>
Unbind(v) == <<"unbind", v>>
Delete(v) == <<"delete", v>>
Start(b)  == <<"start", b>>
Stop(b)   == <<"stop", b>>
Connect(b, s) == <<"connect", <<b, s>>>>
Register(v) == <<"register", v>>
Discard(v)  == <<"discard", v>>

\* tempStop and tempStart of blocks that run.
Paused(bs, steps) ==
    [i \in DOMAIN bs |-> Stop(bs[i])] \o steps \o [i \in DOMAIN bs |-> Start(bs[i])]

\* A block that does not run stays as it is.
SetInput(b, s) == Paused(IF b \in running THEN <<b>> ELSE <<>>, <<Connect(b, s)>>)

\* addVFO: the streams exist before the splitter is given them.
AddVfo(v) ==
    <<Create(v), Stop(Splitter), Bind(VfoIn(v)), Start(Splitter), Start(RxVfo(v))>>

\* Mutant: the splitter is not stopped for the unbinding.
RemoveVfoEarly(v) ==
    <<Stop(RxVfo(v)), Delete(v), Stop(Splitter), Unbind(VfoIn(v)), Start(Splitter)>>

\* ~VFO stops the RxVFO, removeVFO stops it again.
RemoveVfo(v) ==
    <<Stop(RxVfo(v)), Stop(RxVfo(v)), Stop(Splitter), Unbind(VfoIn(v)), Start(Splitter), Delete(v)>>

\* A setter of RxVFO that stops it for a moment.
ReconfigureVfo(v) == <<Stop(RxVfo(v)), Start(RxVfo(v))>>

\* The neighbours of a link: the walk for the one before ends at the first
\* link that is enabled.
InputOf(l)  == IF Before(l) = {} THEN Input ELSE LinkOut(Foremost(Before(l)))
ReaderOf(l) == IF After(l) = {} THEN Splitter ELSE Link(Foremost(After(l)))

EnableBlock(l) == SetInput(ReaderOf(l), LinkOut(l)) \o <<Connect(Link(l), InputOf(l)), Start(Link(l))>>

\* Mutant: the block after the disabled one keeps its input.
DisableBlockOnly(l) == <<Stop(Link(l))>>

DisableBlock(l) == <<Stop(Link(l))>> \o SetInput(ReaderOf(l), InputOf(l))

SetBlockEnabled(l) == IF Link(l) \in running THEN DisableBlock(l) ELSE EnableBlock(l)

\* The rate of the blocks behind the decimator, in some order, and the FFT
\* branch while they wait.
SetSampleRate ==
    LET rated == {Link("dcBlock")} \cup {RxVfo(v) : v \in live}
    IN  {Paused(bs, Paused(<<FftSink>>, <<>>)) : bs \in SetToSeqs(rated \cap running)}

\* A decoder bound to the VFO is built, or enabled in the menu: its handler is
\* initialised every time, and what that registers stays registered.
AttachHandler(v) == <<Register(v), Start(Handler(v))>>

\* The decoder is disabled in the menu.
DetachHandler(v) == <<Stop(Handler(v))>>

\* The instance is deleted, and its handler with it.
DeleteDecoder(v) == <<Stop(Handler(v)), Discard(v)>>

\* Mutant: the decoder is only disabled before its VFO goes.
DecoderGoneSilent(v) == Handler(v) \notin running

\* A decoder is deleted before its VFO goes (HoldLifecycle, BoundHasVfo).
DecoderGone(v) == registered[v] = {}

\* Only a served VFO ever has a decoder.
\* Decimation is not offered while samples come: Init chooses it.
Operations ==
    {AddVfo(v) : v \in Vfos \ live}
    \cup {RemoveVfo(v) : v \in {w \in live : DecoderGone(w)}}
    \cup {ReconfigureVfo(v) : v \in live}
    \cup {AttachHandler(v) : v \in {w \in live \cap Served : Handler(w) \notin running}}
    \cup {DetachHandler(v) : v \in {w \in live : Handler(w) \in running}}
    \cup {DeleteDecoder(v) : v \in {w \in live : ~DecoderGone(w)}}
    \cup {SetBlockEnabled(l) : l \in Range(Chain) \ {"decim"}}
    \cup SetSampleRate

Begin ==
    /\ ui = <<>>
    /\ ui' \in Operations
    /\ UNCHANGED <<workerVars, input, live, bound, running, stops, registered>>

Does(name) == ui # <<>> /\ ui[1][1] = name
What       == ui[1][2]
Done       == ui' = Tail(ui)

DoCreate ==
    /\ Does("create")
    /\ live' = live \cup {What}
    /\ Done
    /\ UNCHANGED <<workerVars, input, bound, running, stops, registered>>

DoBind ==
    /\ Does("bind")
    /\ bound' = Append(bound, What)
    /\ Done
    /\ UNCHANGED <<workerVars, input, live, running, stops, registered>>

DoUnbind ==
    /\ Does("unbind")
    /\ \E i \in DOMAIN bound : bound[i] = What /\ bound' = RemoveAt(bound, i)
    /\ Done
    /\ UNCHANGED <<workerVars, input, live, running, stops, registered>>

\* The VFO and its streams are freed.
DoDelete ==
    /\ Does("delete")
    /\ live' = live \ {What}
    /\ full' = full \ {VfoIn(What), VfoOut(What)}
    /\ registered' = [registered EXCEPT ![What] = IF @ = {} THEN {} ELSE {"freed"}]
    /\ Done
    /\ UNCHANGED <<next, at, input, bound, running, stops>>

DoRegister ==
    /\ Does("register")
    /\ registered' = [registered EXCEPT ![What] = @ \cup {"present"}]
    /\ Done
    /\ UNCHANGED <<workerVars, input, live, bound, running, stops>>

DoDiscard ==
    /\ Does("discard")
    /\ registered' = [registered EXCEPT ![What] = {}]
    /\ Done
    /\ UNCHANGED <<workerVars, input, live, bound, running, stops>>

DoConnect ==
    /\ Does("connect")
    /\ input' = [input EXCEPT ![What[1]] = What[2]]
    /\ Done
    /\ UNCHANGED <<workerVars, live, bound, running, stops, registered>>

DoStart ==
    /\ Does("start")
    /\ running' = running \cup {What}
    /\ at' = [at EXCEPT ![What] = IF What \in running THEN @ ELSE "read"]
    /\ Done
    /\ UNCHANGED <<full, next, input, live, bound, stops, registered>>

\* stopReader and stopWriter on the block's streams.
RaiseStop ==
    /\ Does("stop")
    /\ What \in running \ stops
    /\ stops' = stops \cup {What}
    /\ UNCHANGED <<workerVars, input, live, bound, running, registered, ui>>

StopAgain ==
    /\ Does("stop")
    /\ What \notin running
    /\ Done
    /\ UNCHANGED <<workerVars, input, live, bound, running, stops, registered>>

\* The worker is joined and the stops are taken back.
JoinStop ==
    /\ Does("stop")
    /\ What \in stops
    /\ at[What] = "off"
    /\ stops' = stops \ {What}
    /\ running' = running \ {What}
    /\ Done
    /\ UNCHANGED <<workerVars, input, live, bound, registered>>

UiWorks ==
    \/ DoCreate \/ DoBind \/ DoUnbind \/ DoDelete \/ DoRegister \/ DoDiscard
    \/ DoConnect \/ DoStart \/ RaiseStop \/ StopAgain \/ JoinStop

-----------------------------------------------------------------------------
Init ==
    /\ full = {}
    /\ live = {}
    /\ bound = <<FftIn>>
    /\ next = 1
    /\ \E on \in SUBSET Links : running = {Splitter, FftSink} \cup on
    /\ input \in [Links \cup {Splitter} -> ChainStreams]
    /\ InOrder
    /\ \A b \in Links \ running : input[b] = Input
    /\ at = [b \in Blocks |-> IF b \in running THEN "read" ELSE "off"]
    /\ stops = {}
    /\ registered = [v \in Vfos |-> {}]
    /\ ui = <<>>

Next == Workers \/ Begin \/ UiWorks

\* Threads that can go on do; the source delivers.  Nobody owes an operation.
Fairness ==
    /\ WF_vars(SplitterThread /\ Workers)
    /\ WF_vars(FftHandle /\ Workers)
    /\ \A v \in Vfos : WF_vars(Handle(v) /\ Workers)
    /\ \A b \in Links \cup RxVfos : WF_vars((ProcRead(b) \/ ProcSwap(b)) /\ Workers)
    /\ \A b \in Blocks : WF_vars(Quit(b) /\ Workers)
    /\ WF_vars(UiWorks)

Spec == Init /\ [][Next]_vars /\ Fairness

-----------------------------------------------------------------------------
(* Properties *)

TypeOK ==
    /\ full \subseteq Streams
    /\ input \in [Links \cup {Splitter} -> ChainStreams]
    /\ live \subseteq Vfos
    /\ bound \in Seq({FftIn} \cup {VfoIn(v) : v \in Vfos})
    /\ next \in Nat \ {0}
    /\ at[Splitter] = "swap" => next <= Len(bound) + 1
    /\ at \in [Blocks -> {"off", "read", "swap"}]
    /\ running \subseteq Blocks
    /\ stops \subseteq running
    /\ registered \in [Vfos -> SUBSET {"present", "freed"}]

(***************************************************************************)
(* No thread works on the streams of a VFO that was deleted: no worker of  *)
(* its blocks runs, the splitter's list is never changed under it, and no  *)
(* stop reaches a stream that a handler registered and that is gone,       *)
(* however often the decoders bound to held VFOs were built, disabled and  *)
(* enabled.                                                                *)
(***************************************************************************)
OnlyLiveStreams ==
    /\ TypeOK
    /\ \A v \in Vfos \ live :
        /\ {RxVfo(v), Handler(v)} \cap running = {}
        /\ at[RxVfo(v)] = "off" /\ at[Handler(v)] = "off"
        /\ \A i \in DOMAIN bound : bound[i] # VfoIn(v)
        /\ {VfoIn(v), VfoOut(v)} \cap full = {}
    /\ \A v \in Vfos : Handler(v) \in stops => "freed" \notin registered[v]
    /\ \A i, j \in DOMAIN bound : bound[i] = bound[j] => i = j
    /\ Does("bind") \/ Does("unbind") => at[Splitter] = "off"

(***************************************************************************)
(* chain.h:71: the "blocks before and after the block": between two        *)
(* operations each enabled block reads what the enabled block nearest      *)
(* before it writes, and the splitter what the last of them writes.        *)
(***************************************************************************)
PathInOrder == ui = <<>> => InOrder

(***************************************************************************)
(* The user interface never hangs on a worker: each operation ends though  *)
(* the worker it joins may be waiting for room in a stream that nobody     *)
(* reads.                                                                  *)
(***************************************************************************)
OperationsEnd == ui # <<>> ~> ui = <<>>

(***************************************************************************)
(* When the operations are over, samples come and every VFO is being read, *)
(* the spectrum and all the decoders go on receiving samples, whatever     *)
(* went before.                                                            *)
(***************************************************************************)
EverybodyIsFed ==
    <>[](ui = <<>> /\ \A v \in live : Handler(v) \in running)
    => /\ []<><<FftHandle>>_vars
       /\ \A v \in Vfos : <>[](v \in live) => []<><<Handle(v)>>_vars

(***************************************************************************)
(* hold_manager.h:23-26: "the operator can pin "P25 control + ADS-B 1090 + *)
(* ISM 433" and have each one decoded by the right native module": a held  *)
(* VFO whose decoder is attached is decoded, whatever else is held.        *)
(***************************************************************************)
HeldIsDecoded ==
    \A v \in Vfos :
        <>[](ui = <<>> /\ v \in live /\ Handler(v) \in running) => []<><<Handle(v)>>_vars

=============================================================================
