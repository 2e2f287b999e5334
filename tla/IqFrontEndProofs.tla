--------------------------- MODULE IqFrontEndProofs ---------------------------
(***************************************************************************)
(* No worker ever touches the streams of a VFO that was deleted, for any   *)
(* set of VFOs and any chain of preprocessors; and after every operation   *)
(* the path is in order, for any two preprocessors.  The invariants follow *)
(* what is left of the user interface's operation: what has been done of   *)
(* it and what it may still rely on, and where it leads.                   *)
(***************************************************************************)
EXTENDS IqFrontEnd, FiniteSets, FiniteSetTheorems, SequenceTheorems, TLAPS

-----------------------------------------------------------------------------
(* What is left of an operation *)

IsBound(s) == \E i \in DOMAIN bound : bound[i] = s

\* Steps that touch no VFO's existence and start nothing of a VFO that is not
\* there.
Steady == {Splitter, FftSink} \cup Links \cup {RxVfo(v) : v \in live}

Harmless ==
    {Start(b) : b \in Steady}
    \cup {Stop(b) : b \in Blocks}
    \cup {Connect(b, s) : b \in Links \cup {Splitter}, s \in ChainStreams}

ToBind(v)   == <<Stop(Splitter), Bind(VfoIn(v)), Start(Splitter), Start(RxVfo(v))>>
BindNow(v)  == <<Bind(VfoIn(v)), Start(Splitter), Start(RxVfo(v))>>
Bound(v)    == <<Start(Splitter), Start(RxVfo(v))>>

StopTwice(v) == <<Stop(RxVfo(v)), Stop(Splitter), Unbind(VfoIn(v)), Start(Splitter), Delete(v)>>
ToUnbind(v)  == <<Stop(Splitter), Unbind(VfoIn(v)), Start(Splitter), Delete(v)>>
UnbindNow(v) == <<Unbind(VfoIn(v)), Start(Splitter), Delete(v)>>
Unbound(v)   == <<Start(Splitter), Delete(v)>>

Adding(v) ==
    \/ ui = AddVfo(v) /\ v \notin live
    \/ ui = ToBind(v) /\ v \in live /\ ~IsBound(VfoIn(v))
    \/ ui = BindNow(v) /\ v \in live /\ ~IsBound(VfoIn(v)) /\ Splitter \notin running

Removing(v) ==
    /\ v \in live
    /\ Handler(v) \notin running /\ registered[v] = {}
    /\ \/ ui = RemoveVfo(v)
       \/ ui = StopTwice(v) /\ RxVfo(v) \notin running
       \/ ui = ToUnbind(v) /\ RxVfo(v) \notin running
       \/ ui = UnbindNow(v) /\ RxVfo(v) \notin running /\ Splitter \notin running
       \/ ui = Unbound(v) /\ RxVfo(v) \notin running /\ ~IsBound(VfoIn(v))
       \/ ui = <<Delete(v)>> /\ RxVfo(v) \notin running /\ ~IsBound(VfoIn(v))

Decoding(v) ==
    /\ v \in live
    /\ \/ ui = AttachHandler(v)
       \/ ui = <<Start(Handler(v))>> /\ registered[v] # {}
       \/ ui = DetachHandler(v)
       \/ ui = DeleteDecoder(v)
       \/ ui = <<Discard(v)>> /\ Handler(v) \notin running

Underway ==
    \/ ui \in Seq(Harmless)
    \/ \E v \in Vfos : Adding(v) \/ Removing(v) \/ Decoding(v)

\* The invariant.
RegisteredRuns ==
    \A v \in Vfos :
        /\ "freed" \notin registered[v]
        /\ Handler(v) \in running => registered[v] # {}

DeadIsIdle(v) ==
    /\ RxVfo(v) \notin running /\ Handler(v) \notin running /\ registered[v] = {}
    /\ ~IsBound(VfoIn(v))
    /\ VfoIn(v) \notin full /\ VfoOut(v) \notin full

IInv ==
    /\ TypeOK
    /\ \A b \in Blocks \ running : at[b] = "off"
    /\ \A v \in Vfos \ live : DeadIsIdle(v)
    /\ \A i, j \in DOMAIN bound : bound[i] = bound[j] => i = j
    /\ RegisteredRuns
    /\ Underway

-----------------------------------------------------------------------------
(* Names *)

\* Blocks and streams of different kinds are different.
LEMMA Distinct ==
    ASSUME NEW v \in Vfos, NEW w \in Vfos
    PROVE  /\ RxVfo(v) \in Blocks /\ Handler(v) \in Blocks
           /\ Splitter \in Blocks /\ FftSink \in Blocks /\ Links \subseteq Blocks
           /\ RxVfo(v) # Splitter /\ Handler(v) # Splitter /\ RxVfo(v) # Handler(w)
           /\ (RxVfo(v) = RxVfo(w) => v = w) /\ (Handler(v) = Handler(w) => v = w)
           /\ VfoIn(v) # FftIn /\ VfoIn(v) # VfoOut(w)
           /\ (VfoIn(v) = VfoIn(w) => v = w) /\ (VfoOut(v) = VfoOut(w) => v = w)
BY DEF RxVfo, Handler, Splitter, FftSink, Links, Link, Blocks, RxVfos, VfoIn, VfoOut, FftIn

\* The steps of the two operations that add and remove a VFO, one by one.
LEMMA AddSteps ==
    ASSUME NEW v
    PROVE  /\ AddVfo(v) # <<>> /\ AddVfo(v)[1] = Create(v) /\ Tail(AddVfo(v)) = ToBind(v)
           /\ ToBind(v) # <<>> /\ ToBind(v)[1] = Stop(Splitter) /\ Tail(ToBind(v)) = BindNow(v)
           /\ BindNow(v) # <<>> /\ BindNow(v)[1] = Bind(VfoIn(v)) /\ Tail(BindNow(v)) = Bound(v)
BY DEF AddVfo, ToBind, BindNow, Bound

LEMMA RemoveSteps ==
    ASSUME NEW v
    PROVE  /\ RemoveVfo(v) # <<>> /\ RemoveVfo(v)[1] = Stop(RxVfo(v)) /\ Tail(RemoveVfo(v)) = StopTwice(v)
           /\ StopTwice(v) # <<>> /\ StopTwice(v)[1] = Stop(RxVfo(v)) /\ Tail(StopTwice(v)) = ToUnbind(v)
           /\ ToUnbind(v) # <<>> /\ ToUnbind(v)[1] = Stop(Splitter) /\ Tail(ToUnbind(v)) = UnbindNow(v)
           /\ UnbindNow(v) # <<>> /\ UnbindNow(v)[1] = Unbind(VfoIn(v)) /\ Tail(UnbindNow(v)) = Unbound(v)
           /\ Unbound(v) # <<>> /\ Unbound(v)[1] = Start(Splitter) /\ Tail(Unbound(v)) = <<Delete(v)>>
           /\ <<Delete(v)>> # <<>> /\ <<Delete(v)>>[1] = Delete(v) /\ Tail(<<Delete(v)>>) = <<>>
BY DEF RemoveVfo, StopTwice, ToUnbind, UnbindNow, Unbound

LEMMA RemoveNames ==
    ASSUME NEW v
    PROVE  /\ RemoveVfo(v)[1][1] = "stop" /\ StopTwice(v)[1][1] = "stop" /\ ToUnbind(v)[1][1] = "stop"
           /\ UnbindNow(v)[1][1] = "unbind"
           /\ Unbound(v)[1][1] = "start"
           /\ <<Delete(v)>>[1][1] = "delete"
<1>1. /\ Stop(RxVfo(v))[1] = "stop" /\ Stop(Splitter)[1] = "stop"
      /\ Unbind(VfoIn(v))[1] = "unbind" /\ Start(Splitter)[1] = "start" /\ Delete(v)[1] = "delete"
  BY DEF Stop, Unbind, Start, Delete
<1> QED BY <1>1, RemoveSteps

LEMMA DecoderSteps ==
    ASSUME NEW v
    PROVE  /\ AttachHandler(v) # <<>> /\ AttachHandler(v)[1] = Register(v)
           /\ Tail(AttachHandler(v)) = <<Start(Handler(v))>>
           /\ DeleteDecoder(v) # <<>> /\ DeleteDecoder(v)[1] = Stop(Handler(v))
           /\ Tail(DeleteDecoder(v)) = <<Discard(v)>>
           /\ DetachHandler(v) # <<>> /\ DetachHandler(v)[1] = Stop(Handler(v)) /\ Tail(DetachHandler(v)) = <<>>
           /\ <<Start(Handler(v))>>[1] = Start(Handler(v)) /\ Tail(<<Start(Handler(v))>>) = <<>>
           /\ <<Discard(v)>>[1] = Discard(v) /\ Tail(<<Discard(v)>>) = <<>>
BY DEF AttachHandler, DeleteDecoder, DetachHandler

LEMMA DecoderNames ==
    ASSUME NEW v
    PROVE  /\ AttachHandler(v)[1][1] = "register" /\ <<Start(Handler(v))>>[1][1] = "start"
           /\ DetachHandler(v)[1][1] = "stop" /\ DeleteDecoder(v)[1][1] = "stop"
           /\ <<Discard(v)>>[1][1] = "discard"
<1>1. /\ Register(v)[1] = "register" /\ Start(Handler(v))[1] = "start"
      /\ Stop(Handler(v))[1] = "stop" /\ Discard(v)[1] = "discard"
  BY DEF Register, Start, Stop, Discard
<1> QED BY <1>1, DecoderSteps

LEMMA HarmlessSteps ==
    ASSUME ui \in Seq(Harmless), ui # <<>>
    PROVE  /\ ui[1] \in Harmless
           /\ Tail(ui) \in Seq(Harmless)
OBVIOUS

-----------------------------------------------------------------------------
(* The workers *)

\* What a worker fills belongs to a VFO that is there, and only blocks that
\* run have a worker.
LEMMA WorkerStep ==
    ASSUME IInv, Workers
    PROVE  IInv'
<1>0. UNCHANGED <<input, live, bound, running, stops, registered, ui>>
  BY DEF Workers
<1>1. Underway'
  BY <1>0 DEF IInv, Underway, Adding, Removing, Decoding, Harmless, Steady, IsBound
<1>2. ASSUME NEW s, s \in full', s \notin full
      PROVE  s \in Streams /\ \A v \in Vfos \ live : s # VfoIn(v) /\ s # VfoOut(v)
  <2>1. CASE SplitterThread
    <3>1. SplitSwap
      BY <1>2, <2>1 DEF SplitterThread, SplitRead, SplitAbandon, SplitSwap, SplitFlush
    <3>2. next \in DOMAIN bound /\ s = bound[next]
      BY <1>2, <3>1 DEF SplitSwap, IInv, TypeOK
    <3>3. s \in {FftIn} \cup {VfoIn(v) : v \in Vfos}
      BY <3>2 DEF IInv, TypeOK
    <3>4. \A v \in Vfos \ live : s # VfoIn(v)
      BY <3>2 DEF IInv, DeadIsIdle, IsBound
    <3>5. \A v \in Vfos : s # VfoOut(v)
      BY <3>3 DEF FftIn, VfoIn, VfoOut
    <3>6. s \in Streams
      BY <3>3 DEF Streams
    <3> QED BY <3>4, <3>5, <3>6
  <2>2. ASSUME NEW b \in Links \cup RxVfos, ProcRead(b) \/ ProcSwap(b)
        PROVE  s \in Streams /\ \A v \in Vfos \ live : s # VfoIn(v) /\ s # VfoOut(v)
    <3>1. s = Out(b) /\ at[b] = "swap"
      BY <1>2, <2>2 DEF ProcRead, ProcSwap
    <3>2. CASE b \in Links
      <4>1. PICK l \in Range(Chain) : b = Link(l)
        BY <3>2 DEF Links
      <4>2. b \notin RxVfos /\ b[2] = l
        BY <4>1 DEF RxVfos, RxVfo, Link
      <4>3. s = LinkOut(l)
        BY <3>1, <4>2 DEF Out
      <4> QED BY <4>3 DEF LinkOut, VfoIn, VfoOut, Streams, ChainStreams, Input
    <3>3. CASE b \in RxVfos
      <4>1. PICK w \in Vfos : b = RxVfo(w)
        BY <3>3 DEF RxVfos
      <4>2. s = VfoOut(w)
        BY <3>1, <3>3, <4>1 DEF Out, RxVfo
      <4>3. RxVfo(w) \in running
        BY <3>1, <4>1, Distinct DEF IInv
      <4>4. w \in live
        BY <4>3 DEF IInv, DeadIsIdle
      <4>5. \A v \in Vfos \ live : s # VfoIn(v) /\ s # VfoOut(v)
        BY <4>2, <4>4, Distinct
      <4> QED BY <4>2, <4>5 DEF Streams
    <3> QED BY <3>2, <3>3
  <2>3. CASE FftHandle
    BY <1>2, <2>3 DEF FftHandle
  <2>4. CASE \E v \in Vfos : Handle(v)
    BY <1>2, <2>4 DEF Handle
  <2>5. CASE \E b \in Blocks : Quit(b)
    BY <1>2, <2>5 DEF Quit
  <2> QED BY <2>1, <2>2, <2>3, <2>4, <2>5 DEF Workers
<1> DEFINE Placed ==
        /\ next' \in Nat \ {0}
        /\ at' \in [Blocks -> {"off", "read", "swap"}]
        /\ at'[Splitter] = "swap" => next' <= Len(bound) + 1
        /\ \A b \in Blocks \ running : at'[b] = "off"
<1>3. Placed
  <2> USE DEF IInv, TypeOK
  <2>0. Splitter \in Blocks /\ \A b \in Links \cup RxVfos : b \in Blocks /\ b # Splitter
    BY DEF Blocks, Splitter, Links, Link, RxVfos, RxVfo
  <2>1. CASE SplitterThread
    <3>1. CASE SplitRead
      BY <2>0, <3>1 DEF SplitRead
    <3>2. CASE SplitAbandon
      BY <2>0, <3>2 DEF SplitAbandon
    <3>3. CASE SplitSwap
      BY <2>0, <3>3 DEF SplitSwap
    <3>4. CASE SplitFlush
      BY <2>0, <3>4 DEF SplitFlush
    <3> QED BY <2>1, <3>1, <3>2, <3>3, <3>4 DEF SplitterThread
  <2>2. ASSUME NEW b \in Links \cup RxVfos, ProcRead(b) \/ ProcSwap(b)
        PROVE  Placed
    <3>1. at[b] # "off" /\ next' = next
      BY <2>2 DEF ProcRead, ProcSwap
    <3>2. at' \in [Blocks -> {"off", "read", "swap"}] /\ \A c \in Blocks : c # b => at'[c] = at[c]
      BY <2>0, <2>2 DEF ProcRead, ProcSwap
    <3> QED BY <2>0, <3>1, <3>2
  <2>3. CASE FftHandle
    BY <2>3 DEF FftHandle
  <2>4. CASE \E v \in Vfos : Handle(v)
    BY <2>4 DEF Handle
  <2>5. ASSUME NEW b \in Blocks, Quit(b)
        PROVE  Placed
    BY <2>5 DEF Quit
  <2> QED BY <2>1, <2>2, <2>3, <2>4, <2>5 DEF Workers
<1>4. TypeOK'
  BY <1>0, <1>2, <1>3 DEF IInv, TypeOK
<1>5. \A v \in Vfos \ live : DeadIsIdle(v)'
  BY <1>0, <1>2 DEF IInv, DeadIsIdle, IsBound
<1> QED BY <1>0, <1>1, <1>3, <1>4, <1>5 DEF IInv, RegisteredRuns

-----------------------------------------------------------------------------
(* The operations *)

\* The names of the steps, by the operation they belong to.
LEMMA StepNames ==
    ASSUME Underway, ui # <<>>
    PROVE  \/ /\ ui[1] \in Harmless /\ Tail(ui) \in Seq(Harmless)
              /\ ui[1][1] \in {"start", "stop", "connect"}
           \/ \E v \in Vfos : Adding(v) /\ ui[1][1] \in {"create", "stop", "bind"}
           \/ \E v \in Vfos : Removing(v) /\ ui[1][1] \in {"stop", "unbind", "start", "delete"}
           \/ \E v \in Vfos : Decoding(v) /\ ui[1][1] \in {"register", "start", "stop", "discard"}
<1>1. CASE ui \in Seq(Harmless)
  <2>1. ui[1][1] \in {"start", "stop", "connect"}
    BY <1>1, HarmlessSteps DEF Harmless, Start, Stop, Connect
  <2> QED BY <1>1, <2>1, HarmlessSteps
<1>2. ASSUME NEW v \in Vfos, Adding(v)
      PROVE  ui[1][1] \in {"create", "stop", "bind"}
  BY <1>2, AddSteps DEF Adding, Create, Stop, Bind
<1>3. ASSUME NEW v \in Vfos, Removing(v)
      PROVE  ui[1][1] \in {"stop", "unbind", "start", "delete"}
  <2>1. ui[1] \in {Stop(RxVfo(v)), Stop(Splitter), Unbind(VfoIn(v)), Start(Splitter), Delete(v)}
    BY <1>3, RemoveSteps DEF Removing
  <2> QED BY <2>1 DEF Stop, Unbind, Start, Delete
<1>4. ASSUME NEW v \in Vfos, Decoding(v)
      PROVE  ui[1][1] \in {"register", "start", "stop", "discard"}
  BY <1>4, DecoderNames DEF Decoding
<1>5. CASE \E v \in Vfos : Adding(v) \/ Removing(v) \/ Decoding(v)
  BY <1>2, <1>3, <1>4, <1>5, Zenon
<1> QED BY <1>1, <1>5, Zenon DEF Underway

\* A VFO that was created is bound to nothing yet.
LEMMA CreateStep ==
    ASSUME IInv, DoCreate
    PROVE  IInv'
<1>1. PICK v \in Vfos : Adding(v)
  BY StepNames DEF DoCreate, Does, IInv
<1>2. ui = AddVfo(v) /\ v \notin live
  BY <1>1, AddSteps DEF DoCreate, Does, Adding, Stop, Bind
<1>3. What = v /\ ui' = ToBind(v)
  BY <1>2, AddSteps DEF What, Create, Done, DoCreate
<1>4. live' = live \cup {v} /\ UNCHANGED <<workerVars, input, bound, running, stops, registered>>
  BY <1>3 DEF DoCreate
<1>5. TypeOK'
  BY <1>4 DEF IInv, TypeOK, workerVars
<1>6. \A w \in Vfos \ live' : DeadIsIdle(w)'
  BY <1>4 DEF IInv, DeadIsIdle, IsBound, workerVars
<1>7. ~IsBound(VfoIn(v))'
  BY <1>2, <1>4 DEF IInv, DeadIsIdle, IsBound
<1>8. Adding(v)'
  BY <1>3, <1>4, <1>7 DEF Adding, ToBind
<1> QED BY <1>4, <1>5, <1>6, <1>8 DEF IInv, Underway, RegisteredRuns, workerVars

\* Nothing is bound twice, and the splitter is not running meanwhile.
LEMMA BindStep ==
    ASSUME IInv, DoBind
    PROVE  IInv'
<1>1. PICK v \in Vfos : Adding(v)
  BY StepNames DEF DoBind, Does, IInv
<1>2. ui = BindNow(v) /\ v \in live /\ ~IsBound(VfoIn(v)) /\ Splitter \notin running
  BY <1>1, AddSteps DEF DoBind, Does, Adding, Stop, Create
<1>3. What = VfoIn(v) /\ ui' = Bound(v)
  BY <1>2, AddSteps DEF What, Bind, Done, DoBind
<1>4. bound' = Append(bound, VfoIn(v)) /\ UNCHANGED <<workerVars, input, live, running, stops, registered>>
  BY <1>3 DEF DoBind
<1>5. bound \in Seq({FftIn} \cup {VfoIn(w) : w \in Vfos})
  BY DEF IInv, TypeOK
<1>6. bound' \in Seq({FftIn} \cup {VfoIn(w) : w \in Vfos})
  BY <1>4, <1>5
<1>7. /\ DOMAIN bound' = 1 .. Len(bound) + 1
      /\ \A i \in 1 .. Len(bound) : bound'[i] = bound[i]
      /\ bound'[Len(bound) + 1] = VfoIn(v)
      /\ DOMAIN bound = 1 .. Len(bound) /\ Len(bound) \in Nat
  BY <1>4, <1>5
<1>8. at[Splitter] = "off"
  BY <1>2, Distinct DEF IInv
<1>9. TypeOK'
  BY <1>4, <1>6, <1>8 DEF IInv, TypeOK, workerVars
<1>10. \A w \in Vfos \ live' : DeadIsIdle(w)'
  <2> SUFFICES ASSUME NEW w \in Vfos \ live
               PROVE  DeadIsIdle(w)'
    BY <1>4
  <2>1. VfoIn(w) # VfoIn(v)
    BY <1>2, Distinct
  <2>2. ~IsBound(VfoIn(w))
    BY DEF IInv, DeadIsIdle
  <2>3. ~IsBound(VfoIn(w))'
    BY <1>7, <2>1, <2>2 DEF IsBound
  <2> QED BY <1>4, <2>3 DEF IInv, DeadIsIdle, workerVars
<1>11. \A i, j \in DOMAIN bound' : bound'[i] = bound'[j] => i = j
  BY <1>2, <1>7 DEF IInv, IsBound
<1>12. ui' \in Seq(Harmless')
  <2>1. Splitter \in Steady' /\ RxVfo(v) \in Steady'
    BY <1>2, <1>4 DEF Steady
  <2>2. Start(Splitter) \in Harmless' /\ Start(RxVfo(v)) \in Harmless'
    BY <2>1 DEF Harmless
  <2> QED BY <1>3, <2>2 DEF Bound
<1> QED BY <1>4, <1>9, <1>10, <1>11, <1>12 DEF IInv, Underway, RegisteredRuns, workerVars

\* Taking one place out of a sequence.
LEMMA WithoutOne ==
    ASSUME NEW S, NEW s \in Seq(S), NEW k \in DOMAIN s
    PROVE  /\ RemoveAt(s, k) \in Seq(S)
           /\ DOMAIN RemoveAt(s, k) = 1 .. Len(s) - 1
           /\ \A i \in 1 .. Len(s) - 1 : RemoveAt(s, k)[i] = IF i < k THEN s[i] ELSE s[i + 1]
<1> DEFINE front == SubSeq(s, 1, k - 1)
           back  == SubSeq(s, k + 1, Len(s))
<1>1. Len(s) \in Nat /\ k \in 1 .. Len(s)
  OBVIOUS
<1>2. front \in Seq(S) /\ Len(front) = k - 1 /\ \A i \in 1 .. k - 1 : front[i] = s[i]
  BY <1>1
<1>3. back \in Seq(S) /\ Len(back) = Len(s) - k /\ \A i \in 1 .. Len(s) - k : back[i] = s[k + i]
  BY <1>1
<1>4. RemoveAt(s, k) = front \o back
  BY DEF RemoveAt
<1> HIDE DEF front, back
<1>5. Len(front \o back) = Len(s) - 1 /\ front \o back \in Seq(S)
  <2>1. front \in Seq(S) /\ back \in Seq(S) /\ Len(front) + Len(back) = Len(s) - 1
    BY <1>1, <1>2, <1>3
  <2> QED BY <2>1, ConcatProperties
<1>6. ASSUME NEW i \in 1 .. Len(s) - 1
      PROVE  (front \o back)[i] = IF i < k THEN s[i] ELSE s[i + 1]
  <2>1. CASE i < k
    <3>1. i \in 1 .. Len(front) /\ i \in 1 .. Len(front) + Len(back)
      BY <1>1, <1>2, <1>3, <2>1
    <3>2. (front \o back)[i] = front[i]
      BY <1>2, <1>3, <3>1, ConcatProperties
    <3> QED BY <1>1, <1>2, <2>1, <3>1, <3>2
  <2>2. CASE ~(i < k)
    <3>0. i \in 1 .. Len(front) + Len(back) /\ ~(i <= Len(front))
      <4>1. Len(front) = k - 1 /\ Len(back) = Len(s) - k
        BY <1>2, <1>3
      <4> QED BY <1>1, <2>2, <4>1
    <3>1. (front \o back)[i] = back[i - (k - 1)]
      <4>1. (front \o back)[i] = back[i - Len(front)]
        BY <1>2, <1>3, <3>0, ConcatProperties
      <4> QED BY <1>2, <4>1
    <3>2. back[i - (k - 1)] = s[k + (i - (k - 1))]
      BY <1>1, <1>3, <2>2
    <3>3. k + (i - (k - 1)) = i + 1
      BY <1>1
    <3> QED BY <2>2, <3>1, <3>2, <3>3
  <2> QED BY <2>1, <2>2
<1> QED BY <1>1, <1>4, <1>5, <1>6

\* A VFO's stream was bound once only: unbound, nothing serves it any more.
LEMMA UnbindStep ==
    ASSUME IInv, DoUnbind
    PROVE  IInv'
<1>1. PICK v \in Vfos : Removing(v)
  BY StepNames DEF DoUnbind, Does, IInv
<1>2. /\ ui = UnbindNow(v) /\ v \in live /\ RxVfo(v) \notin running /\ Splitter \notin running
      /\ Handler(v) \notin running /\ registered[v] = {}
  BY <1>1, RemoveNames DEF DoUnbind, Does, Removing
<1>3. What = VfoIn(v) /\ ui' = Unbound(v)
  BY <1>2, RemoveSteps DEF What, Unbind, Done, DoUnbind
<1>4. RxVfo(v) \notin running /\ Handler(v) \notin running /\ Splitter \notin running
  BY <1>2
<1>5. UNCHANGED <<workerVars, input, live, running, stops, registered>>
  BY DEF DoUnbind
<1>6. PICK k \in DOMAIN bound : bound[k] = VfoIn(v) /\ bound' = RemoveAt(bound, k)
  BY <1>3 DEF DoUnbind
<1>7. bound \in Seq({FftIn} \cup {VfoIn(w) : w \in Vfos})
  BY DEF IInv, TypeOK
<1>8. /\ bound' \in Seq({FftIn} \cup {VfoIn(w) : w \in Vfos})
      /\ DOMAIN bound' = 1 .. Len(bound) - 1
      /\ \A i \in 1 .. Len(bound) - 1 : bound'[i] = IF i < k THEN bound[i] ELSE bound[i + 1]
      /\ DOMAIN bound = 1 .. Len(bound) /\ Len(bound) \in Nat
  <2> DEFINE S == {FftIn} \cup {VfoIn(w) : w \in Vfos}
  <2>1. bound \in Seq(S)
    BY <1>7
  <2> HIDE DEF S
  <2>2. RemoveAt(bound, k) \in Seq(S)
    BY <1>6, <2>1, WithoutOne
  <2>3. /\ DOMAIN RemoveAt(bound, k) = 1 .. Len(bound) - 1
        /\ \A i \in 1 .. Len(bound) - 1 : RemoveAt(bound, k)[i] = IF i < k THEN bound[i] ELSE bound[i + 1]
    BY <1>6, <2>1, WithoutOne
  <2> QED BY <1>6, <2>1, <2>2, <2>3 DEF S
<1>9. \A i \in DOMAIN bound' : \E j \in DOMAIN bound : j # k /\ bound'[i] = bound[j]
  <2> SUFFICES ASSUME NEW i \in DOMAIN bound'
               PROVE  \E j \in DOMAIN bound : j # k /\ bound'[i] = bound[j]
    OBVIOUS
  <2>1. CASE i < k
    BY <1>8, <2>1
  <2>2. CASE ~(i < k)
    <3>1. i + 1 \in DOMAIN bound /\ i + 1 # k /\ bound'[i] = bound[i + 1]
      BY <1>8, <2>2
    <3> QED BY <3>1
  <2> QED BY <2>1, <2>2
<1>10. ~IsBound(VfoIn(v))'
  BY <1>6, <1>9 DEF IInv, IsBound
<1>11. \A w \in Vfos \ live' : DeadIsIdle(w)'
  BY <1>5, <1>9 DEF IInv, DeadIsIdle, IsBound, workerVars
<1>12. \A i, j \in DOMAIN bound' : bound'[i] = bound'[j] => i = j
  <2> SUFFICES ASSUME NEW i \in DOMAIN bound', NEW j \in DOMAIN bound', bound'[i] = bound'[j]
               PROVE  i = j
    OBVIOUS
  <2> DEFINE was(x) == IF x < k THEN x ELSE x + 1
  <2>1. k \in Int /\ i \in Int /\ j \in Int
    BY <1>6, <1>8
  <2>2. was(i) \in DOMAIN bound /\ was(j) \in DOMAIN bound
    BY <1>8, <2>1
  <2>3. bound'[i] = bound[was(i)] /\ bound'[j] = bound[was(j)]
    BY <1>8, <2>1
  <2>4. was(i) = was(j)
    <3> HIDE DEF was
    <3> QED BY <2>2, <2>3 DEF IInv
  <2> QED BY <2>1, <2>4
<1>13. at[Splitter] = "off"
  BY <1>1, <1>4, Distinct DEF IInv
<1>14. TypeOK'
  BY <1>5, <1>8, <1>13 DEF IInv, TypeOK, workerVars
<1>15. Removing(v)'
  BY <1>2, <1>3, <1>4, <1>5, <1>10 DEF Removing, Unbound
<1> QED BY <1>5, <1>11, <1>12, <1>14, <1>15 DEF IInv, Underway, RegisteredRuns, workerVars

\* A VFO goes when nothing of it runs and the splitter has forgotten it.
LEMMA DeleteStep ==
    ASSUME IInv, DoDelete
    PROVE  IInv'
<1>1. PICK v \in Vfos : Removing(v)
  BY StepNames DEF DoDelete, Does, IInv
<1>2. ui = <<Delete(v)>> /\ v \in live
  BY <1>1, RemoveNames DEF DoDelete, Does, Removing
<1>3. What = v /\ ui' = <<>>
  BY <1>2, RemoveSteps DEF What, Delete, Done, DoDelete
<1>4. RxVfo(v) \notin running /\ Handler(v) \notin running /\ ~IsBound(VfoIn(v)) /\ registered[v] = {}
  BY <1>1, RemoveNames DEF DoDelete, Does, Removing
<1>5. /\ live' = live \ {v} /\ full' = full \ {VfoIn(v), VfoOut(v)}
      /\ UNCHANGED <<next, at, input, bound, running, stops, registered>>
  BY <1>3, <1>4 DEF DoDelete, IInv, TypeOK
<1>6. TypeOK'
  BY <1>5 DEF IInv, TypeOK
<1>7. \A w \in Vfos \ live' : DeadIsIdle(w)'
  BY <1>4, <1>5 DEF IInv, DeadIsIdle, IsBound
<1>8. ui' \in Seq(Harmless')
  BY <1>3
<1> QED BY <1>5, <1>6, <1>7, <1>8 DEF IInv, Underway, RegisteredRuns

LEMMA ConnectStep ==
    ASSUME IInv, DoConnect
    PROVE  IInv'
<1>1. ui[1] \in Harmless /\ Tail(ui) \in Seq(Harmless)
  BY StepNames DEF DoConnect, Does, IInv
<1>2. PICK b \in Links \cup {Splitter}, s \in ChainStreams : ui[1] = Connect(b, s)
  BY <1>1 DEF DoConnect, Does, Harmless, Start, Stop, Connect
<1>3. /\ input' = [input EXCEPT ![b] = s] /\ ui' = Tail(ui)
      /\ UNCHANGED <<workerVars, live, bound, running, stops, registered>>
  BY <1>2 DEF DoConnect, What, Connect, Done
<1>4. TypeOK'
  BY <1>3 DEF IInv, TypeOK, workerVars
<1>5. \A v \in Vfos \ live' : DeadIsIdle(v)'
  BY <1>3 DEF IInv, DeadIsIdle, IsBound, workerVars
<1>6. ui' \in Seq(Harmless')
  BY <1>1, <1>3 DEF Harmless, Steady
<1> QED BY <1>3, <1>4, <1>5, <1>6 DEF IInv, Underway, RegisteredRuns, workerVars

\* Only what belongs to a living VFO is started, and not what a removal has
\* stopped.
LEMMA StartStep ==
    ASSUME IInv, DoStart
    PROVE  IInv'
<1> DEFINE b == What
<1>1. UNCHANGED <<full, next, input, live, bound, stops, registered>> /\ ui' = Tail(ui)
  BY DEF DoStart, Done
<1> DEFINE Startable == b \in Steady \/ \E v \in live : b = Handler(v) /\ registered[v] # {}
<1>2. Startable /\ Underway'
  <2>1. CASE ui[1] \in Harmless /\ Tail(ui) \in Seq(Harmless)
    <3>1. b \in Steady
      BY <2>1 DEF DoStart, Does, What, Harmless, Start, Stop, Connect
    <3>2. ui' \in Seq(Harmless')
      BY <1>1, <2>1 DEF Harmless, Steady
    <3> QED BY <3>1, <3>2 DEF Underway
  <2>2. ASSUME NEW v \in Vfos, Removing(v)
        PROVE  Startable /\ Underway'
    <3>1. /\ ui = Unbound(v) /\ v \in live /\ ~IsBound(VfoIn(v))
          /\ Handler(v) \notin running /\ RxVfo(v) \notin running /\ registered[v] = {}
      BY <2>2, RemoveNames DEF DoStart, Does, Removing
    <3>2. b = Splitter /\ ui' = <<Delete(v)>>
      BY <1>1, <3>1, RemoveSteps DEF What, Start
    <3>3. running' = running \cup {Splitter}
      BY <3>2 DEF DoStart
    <3>4. RxVfo(v) \notin running' /\ Handler(v) \notin running'
      BY <3>1, <3>3, Distinct
    <3>5. Removing(v)'
      BY <1>1, <3>1, <3>2, <3>4 DEF Removing, IsBound
    <3> QED BY <3>2, <3>5 DEF Underway, Steady
  <2>3. ASSUME NEW v \in Vfos, Decoding(v)
        PROVE  Startable /\ Underway'
    <3>1. ui = <<Start(Handler(v))>> /\ v \in live /\ registered[v] # {}
      BY <2>3, DecoderNames DEF DoStart, Does, Decoding
    <3>2. b = Handler(v) /\ ui' = <<>>
      BY <1>1, <3>1, DecoderSteps DEF What, Start
    <3>3. ui' \in Seq(Harmless')
      BY <3>2
    <3> QED BY <3>1, <3>2, <3>3 DEF Underway
  <2> QED BY <2>1, <2>2, <2>3, StepNames DEF DoStart, Does, IInv
<1> HIDE DEF b
<1>3. b \in Blocks
  <2>1. live \subseteq Vfos
    BY DEF IInv, TypeOK
  <2> QED BY <1>2, <2>1 DEF Steady, Blocks, RxVfos
<1>4. running' = running \cup {b} /\ at' = [at EXCEPT ![b] = IF b \in running THEN @ ELSE "read"]
  BY DEF DoStart, b
<1>5. b = Splitter => at'[Splitter] # "swap" \/ at' = at
  BY <1>3, <1>4 DEF IInv, TypeOK
<1>6. at' \in [Blocks -> {"off", "read", "swap"}] /\ running' \subseteq Blocks
  BY <1>3, <1>4 DEF IInv, TypeOK
<1>7. at'[Splitter] = "swap" => next' <= Len(bound') + 1
  BY <1>1, <1>3, <1>4, <1>5 DEF IInv, TypeOK
<1>8. TypeOK'
  BY <1>1, <1>4, <1>6, <1>7 DEF IInv, TypeOK
<1>9. \A c \in Blocks \ running' : at'[c] = "off"
  BY <1>3, <1>4 DEF IInv, TypeOK
<1>10. ASSUME NEW v \in Vfos \ live'
       PROVE  DeadIsIdle(v)'
  <2>1. v \notin live /\ live \subseteq Vfos
    BY <1>1 DEF IInv, TypeOK
  <2>2. b # RxVfo(v) /\ b # Handler(v)
    BY <1>2, <2>1, Distinct DEF Steady, Splitter, FftSink, Links, Link, RxVfo, Handler
  <2> QED BY <1>1, <1>4, <2>1, <2>2 DEF IInv, DeadIsIdle, IsBound
<1>11. RegisteredRuns'
  <2> SUFFICES ASSUME NEW v \in Vfos, b = Handler(v)
               PROVE  registered[v] # {}
    BY <1>1, <1>4 DEF IInv, RegisteredRuns
  <2>1. b \notin Steady
    BY DEF Steady, Splitter, FftSink, Links, Link, RxVfo, Handler
  <2>2. live \subseteq Vfos
    BY DEF IInv, TypeOK
  <2> QED BY <1>2, <2>1, <2>2, Distinct
<1> QED BY <1>1, <1>2, <1>8, <1>9, <1>10, <1>11 DEF IInv

\* The handler is about to start.
LEMMA RegisterStep ==
    ASSUME IInv, DoRegister
    PROVE  IInv'
<1>1. PICK v \in Vfos : Decoding(v)
  BY StepNames DEF DoRegister, Does, IInv
<1>2. ui = AttachHandler(v) /\ v \in live
  BY <1>1, DecoderNames DEF DoRegister, Does, Decoding
<1>3. What = v /\ ui' = <<Start(Handler(v))>>
  BY <1>2, DecoderSteps DEF What, Register, Done, DoRegister
<1>4. /\ registered' = [registered EXCEPT ![v] = @ \cup {"present"}]
      /\ UNCHANGED <<full, next, at, input, live, bound, running, stops>>
  BY <1>3 DEF DoRegister, workerVars
<1>5. registered \in [Vfos -> SUBSET {"present", "freed"}]
  BY DEF IInv, TypeOK
<1>6. /\ registered' \in [Vfos -> SUBSET {"present", "freed"}]
      /\ registered'[v] = registered[v] \cup {"present"}
      /\ \A w \in Vfos : w # v => registered'[w] = registered[w]
  BY <1>4, <1>5
<1>7. TypeOK'
  BY <1>4, <1>6 DEF IInv, TypeOK
<1>8. \A w \in Vfos \ live' : DeadIsIdle(w)'
  BY <1>2, <1>4, <1>6 DEF IInv, DeadIsIdle, IsBound
<1>9. RegisteredRuns'
  BY <1>4, <1>6 DEF IInv, RegisteredRuns
<1>10. Decoding(v)'
  BY <1>2, <1>3, <1>4, <1>6 DEF Decoding
<1> QED BY <1>4, <1>7, <1>8, <1>9, <1>10 DEF IInv, Underway

\* With the handler goes what it registered; it does not run any more.
LEMMA DiscardStep ==
    ASSUME IInv, DoDiscard
    PROVE  IInv'
<1>1. PICK v \in Vfos : Decoding(v)
  BY StepNames DEF DoDiscard, Does, IInv
<1>2. ui = <<Discard(v)>> /\ v \in live /\ Handler(v) \notin running
  BY <1>1, DecoderNames DEF DoDiscard, Does, Decoding
<1>3. What = v /\ ui' = <<>>
  BY <1>2, DecoderSteps DEF What, Discard, Done, DoDiscard
<1>4. /\ registered' = [registered EXCEPT ![v] = {}]
      /\ UNCHANGED <<full, next, at, input, live, bound, running, stops>>
  BY <1>3 DEF DoDiscard, workerVars
<1>5. registered \in [Vfos -> SUBSET {"present", "freed"}]
  BY DEF IInv, TypeOK
<1>6. /\ registered' \in [Vfos -> SUBSET {"present", "freed"}]
      /\ registered'[v] = {}
      /\ \A w \in Vfos : w # v => registered'[w] = registered[w]
  BY <1>4, <1>5
<1>7. TypeOK'
  BY <1>4, <1>6 DEF IInv, TypeOK
<1>8. \A w \in Vfos \ live' : DeadIsIdle(w)'
  BY <1>2, <1>4, <1>6 DEF IInv, DeadIsIdle, IsBound
<1>9. RegisteredRuns'
  BY <1>2, <1>4, <1>6 DEF IInv, RegisteredRuns
<1>10. ui' \in Seq(Harmless')
  BY <1>3
<1> QED BY <1>4, <1>7, <1>8, <1>9, <1>10 DEF IInv, Underway

\* A stop that has returned has joined the worker, and stays true until the
\* operation itself starts the block again.
LEMMA StopReturns ==
    ASSUME Underway, Does("stop"), Done, running' = running \ {What}, UNCHANGED <<live, bound, registered>>
    PROVE  Underway'
<1>1. ui # <<>> /\ ui[1][1] = "stop" /\ ui' = Tail(ui)
  BY DEF Does, Done
<1>2. CASE Tail(ui) \in Seq(Harmless)
  BY <1>1, <1>2 DEF Underway, Harmless, Steady
<1>3. ASSUME NEW v \in Vfos, Adding(v)
      PROVE  Underway'
  <2>1. ui = ToBind(v) /\ v \in live /\ ~IsBound(VfoIn(v))
    BY <1>1, <1>3, AddSteps DEF Adding, Create, Bind
  <2>2. What = Splitter /\ ui' = BindNow(v)
    BY <1>1, <2>1, AddSteps DEF What, Stop
  <2>3. Adding(v)'
    BY <2>1, <2>2 DEF Adding, BindNow, IsBound
  <2> QED BY <2>3 DEF Underway
<1>4. ASSUME NEW v \in Vfos, Removing(v)
      PROVE  Underway'
  <2>1. v \in live' /\ Handler(v) \notin running' /\ registered'[v] = {}
    BY <1>4 DEF Removing
  <2>2. CASE ui = RemoveVfo(v)
    <3>1. What = RxVfo(v) /\ ui' = StopTwice(v)
      BY <1>1, <2>2, RemoveSteps DEF What, Stop
    <3>2. Removing(v)'
      BY <2>1, <3>1 DEF Removing, StopTwice
    <3> QED BY <3>2 DEF Underway
  <2>3. CASE ui = StopTwice(v) /\ RxVfo(v) \notin running
    <3>1. ui' = ToUnbind(v)
      BY <1>1, <2>3, RemoveSteps
    <3>2. Removing(v)'
      BY <2>1, <2>3, <3>1 DEF Removing, ToUnbind
    <3> QED BY <3>2 DEF Underway
  <2>4. CASE ui = ToUnbind(v) /\ RxVfo(v) \notin running
    <3>1. What = Splitter /\ ui' = UnbindNow(v)
      BY <1>1, <2>4, RemoveSteps DEF What, Stop
    <3>2. Removing(v)'
      BY <2>1, <2>4, <3>1 DEF Removing, UnbindNow
    <3> QED BY <3>2 DEF Underway
  <2> QED BY <1>1, <1>4, <2>2, <2>3, <2>4, RemoveNames DEF Removing
<1>5. ASSUME NEW v \in Vfos, Decoding(v)
      PROVE  Underway'
  <2>1. v \in live' /\ (ui = DetachHandler(v) \/ ui = DeleteDecoder(v))
    BY <1>1, <1>5, DecoderNames DEF Decoding
  <2>2. CASE ui = DetachHandler(v)
    <3>1. ui' = <<>>
      BY <1>1, <2>2, DecoderSteps
    <3>2. ui' \in Seq(Harmless')
      BY <3>1
    <3> QED BY <3>2 DEF Underway
  <2>3. CASE ui = DeleteDecoder(v)
    <3>1. What = Handler(v) /\ ui' = <<Discard(v)>>
      BY <1>1, <2>3, DecoderSteps DEF What, Stop
    <3>2. Decoding(v)'
      BY <2>1, <3>1 DEF Decoding
    <3> QED BY <3>2 DEF Underway
  <2> QED BY <2>1, <2>2, <2>3
<1> QED BY <1>1, <1>2, <1>3, <1>4, <1>5, StepNames

LEMMA StopStep ==
    ASSUME IInv, RaiseStop \/ StopAgain \/ JoinStop
    PROVE  IInv'
<1>1. CASE RaiseStop
  <2>1. UNCHANGED <<full, next, at, input, live, bound, running, registered, ui>> /\ stops' \subseteq running
    BY <1>1 DEF RaiseStop, IInv, TypeOK, workerVars
  <2>2. TypeOK'
    BY <2>1 DEF IInv, TypeOK
  <2>3. \A v \in Vfos \ live' : DeadIsIdle(v)'
    BY <2>1 DEF IInv, DeadIsIdle, IsBound
  <2>4. Underway'
    BY <2>1 DEF IInv, Underway, Adding, Removing, Decoding, Harmless, Steady, IsBound
  <2> QED BY <2>1, <2>2, <2>3, <2>4 DEF IInv, RegisteredRuns
<1>2. CASE StopAgain \/ JoinStop
  <2>1. /\ UNCHANGED <<full, next, at, input, live, bound, registered>>
        /\ Does("stop") /\ Done
        /\ running' = running \ {What} /\ stops' = stops \ {What}
        /\ What \in running => at[What] = "off"
    BY <1>2 DEF StopAgain, JoinStop, IInv, TypeOK, workerVars
  <2>2. Underway'
    BY <2>1, StopReturns DEF IInv
  <2>3. TypeOK'
    BY <2>1 DEF IInv, TypeOK
  <2>4. \A v \in Vfos \ live' : DeadIsIdle(v)'
    BY <2>1 DEF IInv, DeadIsIdle, IsBound
  <2>5. \A b \in Blocks \ running' : at'[b] = "off"
    BY <2>1 DEF IInv
  <2> QED BY <2>1, <2>2, <2>3, <2>4, <2>5 DEF IInv, RegisteredRuns
<1> QED BY <1>1, <1>2

-----------------------------------------------------------------------------
(* The start of an operation *)

\* Stopping blocks, doing something harmless and starting them again is
\* harmless.
LEMMA PauseHarmless ==
    ASSUME TypeOK, NEW bs \in Seq(Steady), NEW steps \in Seq(Harmless)
    PROVE  Paused(bs, steps) \in Seq(Harmless)
<1> DEFINE stop  == [i \in DOMAIN bs |-> Stop(bs[i])]
           start == [i \in DOMAIN bs |-> Start(bs[i])]
<1>1. Steady \subseteq Blocks
  <2>1. live \subseteq Vfos
    BY DEF TypeOK
  <2> QED BY <2>1 DEF Steady, Blocks, RxVfos
<1>2. DOMAIN bs = 1 .. Len(bs) /\ Len(bs) \in Nat /\ \A i \in DOMAIN bs : bs[i] \in Steady
  OBVIOUS
<1>3. \A b \in Steady : Stop(b) \in Harmless /\ Start(b) \in Harmless
  BY <1>1 DEF Harmless
<1>4. stop \in Seq(Harmless) /\ start \in Seq(Harmless)
  <2> HIDE DEF Harmless, Steady
  <2> QED BY <1>2, <1>3
<1> HIDE DEF stop, start
<1>5. stop \o steps \o start \in Seq(Harmless)
  BY <1>4, ConcatProperties
<1> QED BY <1>5 DEF Paused, stop, start

\* The chain has three places at most, each preprocessor one.
LEMMA ChainIsShort ==
    /\ DOMAIN Chain = 1 .. Len(Chain) /\ Len(Chain) \in Nat /\ DOMAIN Chain \subseteq {1, 2, 3}
    /\ \A i, j \in DOMAIN Chain : Chain[i] = Chain[j] => i = j
<1>1. /\ DOMAIN Chain = 1 .. Len(Chain) /\ Len(Chain) \in Nat
      /\ \A i \in DOMAIN Chain : Chain[i] \in {"decim", "dcBlock", "conjugate"}
      /\ \A i, j \in DOMAIN Chain : Chain[i] = Chain[j] => i = j
  BY FrontEndAssumption DEF IsInjective
<1>2. Len(Chain) <= 3
  <2> SUFFICES ASSUME Len(Chain) > 3
               PROVE  FALSE
    BY <1>1
  <2>1. {1, 2, 3, 4} \subseteq DOMAIN Chain
    BY <1>1
  <2> QED BY <1>1, <2>1
<1> QED BY <1>1, <1>2

\* Some preprocessor of a set is the first of them in the chain.
LEMMA ForemostInSet ==
    ASSUME NEW ls \in SUBSET Range(Chain), ls # {}
    PROVE  Foremost(ls) \in ls
<1>1. /\ DOMAIN Chain = 1 .. Len(Chain) /\ Len(Chain) \in Nat /\ DOMAIN Chain \subseteq {1, 2, 3}
      /\ \A i, j \in DOMAIN Chain : Chain[i] = Chain[j] => i = j
  BY ChainIsShort
<1>2. DOMAIN Chain \subseteq {1, 2, 3}
  BY <1>1
<1> DEFINE places == {i \in DOMAIN Chain : Chain[i] \in ls}
<1>3. places # {}
  BY DEF Range
<1>4. \E i \in places : \A j \in places : i <= j
  BY <1>2, <1>3
<1>5. PICK i \in places : \A j \in places : i <= j
  BY <1>4
<1>6. ASSUME NEW k \in ls, k # Chain[i]
      PROVE  Precedes(Chain[i], k)
  <2>1. PICK j \in DOMAIN Chain : Chain[j] = k
    BY DEF Range
  <2>2. i < j
    BY <1>1, <1>5, <1>6, <2>1
  <2> QED BY <1>5, <2>1, <2>2 DEF Precedes
<1>7. Chain[i] \in ls /\ \A k \in ls : k = Chain[i] \/ Precedes(Chain[i], k)
  BY <1>5, <1>6
<1> QED BY <1>7 DEF Foremost

LEMMA InputIsReadable ==
    ASSUME NEW l \in Range(Chain), NEW b \in Links \cup {Splitter}, NEW s \in ChainStreams, TypeOK
    PROVE  /\ InputOf(l) \in ChainStreams
           /\ ReaderOf(l) \in Links \cup {Splitter}
           /\ SetInput(b, s) \in Seq(Harmless)
<1>1. InputOf(l) \in ChainStreams
  <2>1. Before(l) \subseteq Range(Chain)
    BY DEF Before, Enabled
  <2> QED BY <2>1, ForemostInSet DEF InputOf, ChainStreams
<1>2. ReaderOf(l) \in Links \cup {Splitter}
  <2>1. After(l) \subseteq Range(Chain)
    BY DEF After, Enabled
  <2> QED BY <2>1, ForemostInSet DEF ReaderOf, Links
<1>3. SetInput(b, s) \in Seq(Harmless)
  <2>1. Connect(b, s) \in Harmless /\ b \in Steady
    BY DEF Harmless, Steady
  <2>2. <<Connect(b, s)>> \in Seq(Harmless) /\ <<b>> \in Seq(Steady) /\ <<>> \in Seq(Steady)
    BY <2>1
  <2> QED BY <2>2, PauseHarmless DEF SetInput
<1> QED BY <1>1, <1>2, <1>3

\* Only so many blocks depend on the rate.
LEMMA RatedIsFinite ==
    ASSUME TypeOK
    PROVE  IsFiniteSet(({Link("dcBlock")} \cup {RxVfo(v) : v \in live}) \cap running)
<1>1. IsFiniteSet(live)
  BY FrontEndAssumption, FS_Subset DEF TypeOK
<1> DEFINE rx == [v \in live |-> RxVfo(v)]
<1>2. rx \in Surjection(live, {RxVfo(v) : v \in live})
  BY DEF Surjection
<1>3. IsFiniteSet({RxVfo(v) : v \in live})
  <2> HIDE DEF rx
  <2> QED BY <1>1, <1>2, FS_Surjection
<1>4. IsFiniteSet({RxVfo(v) : v \in live} \cup {Link("dcBlock")})
  BY <1>3, FS_AddElement
<1> QED BY <1>4, FS_Subset

LEMMA BeginStep ==
    ASSUME IInv, Begin
    PROVE  IInv'
<1>1. UNCHANGED <<full, next, at, input, live, bound, running, stops, registered>>
  BY DEF Begin, workerVars
<1>2. TypeOK
  BY DEF IInv
<1>3. ASSUME ui' \in Seq(Harmless)
      PROVE  Underway'
  BY <1>1, <1>3 DEF Underway, Harmless, Steady
<1>4. ASSUME NEW v \in Vfos \ live, ui' = AddVfo(v)
      PROVE  Underway'
  <2>1. Adding(v)'
    BY <1>1, <1>4 DEF Adding, AddVfo
  <2> QED BY <2>1 DEF Underway
<1>5. ASSUME NEW v \in live, DecoderGone(v), ui' = RemoveVfo(v)
      PROVE  Underway'
  <2>1. v \in Vfos
    BY <1>2 DEF TypeOK
  <2>2. registered[v] = {} /\ Handler(v) \notin running
    BY <1>5, <2>1 DEF DecoderGone, IInv, RegisteredRuns
  <2>3. Removing(v)'
    BY <1>1, <1>5, <2>2 DEF Removing, RemoveVfo
  <2> QED BY <2>1, <2>3 DEF Underway
<1>6. ASSUME NEW v \in live, ui' \in {ReconfigureVfo(v), AttachHandler(v), DetachHandler(v), DeleteDecoder(v)}
      PROVE  Underway'
  <2>1. v \in Vfos
    BY <1>2 DEF TypeOK
  <2>2. CASE ui' = ReconfigureVfo(v)
    <3>1. {Stop(RxVfo(v)), Start(RxVfo(v))} \subseteq Harmless
      BY <2>1, Distinct DEF Harmless, Steady
    <3>2. <<Stop(RxVfo(v)), Start(RxVfo(v))>> \in Seq(Harmless)
      BY <3>1
    <3> QED BY <1>3, <2>2, <3>2 DEF ReconfigureVfo
  <2>3. CASE ui' \in {AttachHandler(v), DetachHandler(v), DeleteDecoder(v)}
    <3>1. Decoding(v)'
      BY <1>1, <2>3 DEF Decoding, AttachHandler, DetachHandler, DeleteDecoder
    <3> QED BY <2>1, <3>1 DEF Underway
  <2> QED BY <1>6, <2>2, <2>3
<1>7. ASSUME NEW l \in Range(Chain), ui' = SetBlockEnabled(l)
      PROVE  Underway'
  <2> DEFINE b == Link(l)
  <2>1. b \in Links /\ b \in Blocks /\ LinkOut(l) \in ChainStreams
    BY DEF Links, Blocks, ChainStreams
  <2>2. {Stop(b), Start(b)} \subseteq Harmless
    BY <2>1 DEF Harmless, Steady
  <2>3. /\ InputOf(l) \in ChainStreams
        /\ SetInput(ReaderOf(l), LinkOut(l)) \in Seq(Harmless)
        /\ SetInput(ReaderOf(l), InputOf(l)) \in Seq(Harmless)
    BY <1>2, <2>1, InputIsReadable
  <2>4. Connect(b, InputOf(l)) \in Harmless
    BY <2>1, <2>3 DEF Harmless
  <2>5. EnableBlock(l) \in Seq(Harmless)
    <3>1. <<Connect(b, InputOf(l)), Start(b)>> \in Seq(Harmless)
      BY <2>2, <2>4
    <3> QED BY <2>3, <3>1, ConcatProperties DEF EnableBlock
  <2>6. DisableBlock(l) \in Seq(Harmless)
    <3>1. <<Stop(b)>> \in Seq(Harmless)
      BY <2>2
    <3> QED BY <2>3, <3>1, ConcatProperties DEF DisableBlock
  <2> QED BY <1>3, <1>7, <2>5, <2>6 DEF SetBlockEnabled
<1>8. ASSUME ui' \in SetSampleRate
      PROVE  Underway'
  <2> DEFINE rated == {Link("dcBlock")} \cup {RxVfo(v) : v \in live}
             on == rated \cap running
  <2>1. PICK bs \in SetToSeqs(on) : ui' = Paused(bs, Paused(<<FftSink>>, <<>>))
    BY <1>8 DEF SetSampleRate
  <2>2. IsFiniteSet(on)
    BY <1>2, RatedIsFinite
  <2>3. on \subseteq Steady
    <3>1. Link("dcBlock") \in Blocks => Link("dcBlock") \in Links
      BY DEF Blocks, Links, Link, Splitter, FftSink, RxVfos, RxVfo, Handler
    <3> QED BY <1>2, <3>1 DEF TypeOK, Steady
  <2>4. bs \in Seq(Steady)
    <3>1. Cardinality(on) \in Nat
      BY <2>2, FS_CardinalityType
    <3>2. bs \in [1 .. Cardinality(on) -> on]
      BY <2>1 DEF SetToSeqs
    <3> HIDE DEF on
    <3> QED BY <2>3, <3>1, <3>2
  <2>5. <<FftSink>> \in Seq(Steady) /\ <<>> \in Seq(Harmless)
    BY DEF Steady
  <2> QED BY <1>2, <1>3, <2>1, <2>4, <2>5, PauseHarmless
<1>9. Underway'
  BY <1>4, <1>5, <1>6, <1>7, <1>8 DEF Begin, Operations
<1>10. TypeOK'
  BY <1>1 DEF IInv, TypeOK
<1>11. \A v \in Vfos \ live' : DeadIsIdle(v)'
  BY <1>1 DEF IInv, DeadIsIdle, IsBound
<1> QED BY <1>1, <1>9, <1>10, <1>11 DEF IInv, RegisteredRuns

-----------------------------------------------------------------------------
(* The theorem *)

LEMMA InitIInv ==
    ASSUME Init
    PROVE  IInv
<1>1. bound = <<FftIn>> /\ DOMAIN bound = {1} /\ bound[1] = FftIn
  BY DEF Init
<1>2. running \subseteq Blocks /\ \A v \in Vfos : RxVfo(v) \notin running /\ Handler(v) \notin running
  <2>1. PICK on \in SUBSET Links : running = {Splitter, FftSink} \cup on
    BY DEF Init
  <2> QED BY <2>1 DEF Links, Link, Splitter, FftSink, RxVfo, Handler, Blocks
<1>3. TypeOK
  BY <1>1, <1>2 DEF Init, TypeOK
<1>4. \A v \in Vfos : ~IsBound(VfoIn(v))
  BY <1>1 DEF IsBound, VfoIn, FftIn
<1>5. Underway
  BY DEF Init, Underway
<1> QED BY <1>1, <1>2, <1>3, <1>4, <1>5 DEF Init, IInv, RegisteredRuns, DeadIsIdle

LEMMA NextIInv ==
    ASSUME IInv, [Next]_vars
    PROVE  IInv'
<1>1. CASE UNCHANGED vars
  <2>1. UNCHANGED <<full, next, at, input, live, bound, running, stops, registered, ui>>
    BY <1>1 DEF vars, workerVars
  <2>2. Underway'
    BY <2>1 DEF IInv, Underway, Adding, Removing, Decoding, Harmless, Steady, IsBound
  <2>3. TypeOK' /\ \A v \in Vfos \ live' : DeadIsIdle(v)'
    BY <2>1 DEF IInv, TypeOK, DeadIsIdle, IsBound
  <2> QED BY <2>1, <2>2, <2>3 DEF IInv, RegisteredRuns
<1>2. CASE Workers
  BY <1>2, WorkerStep
<1>3. CASE Begin
  BY <1>3, BeginStep
<1>4. CASE UiWorks
  BY <1>4, CreateStep, BindStep, UnbindStep, DeleteStep, RegisterStep, DiscardStep, ConnectStep, StartStep, StopStep
     DEF UiWorks
<1> QED BY <1>1, <1>2, <1>3, <1>4 DEF Next

\* What is left of the operation tells when the splitter has to be off.
LEMMA InvariantSuffices ==
    ASSUME IInv
    PROVE  OnlyLiveStreams
<1>1. \A v \in Vfos \ live : at[RxVfo(v)] = "off" /\ at[Handler(v)] = "off"
  BY Distinct DEF IInv, DeadIsIdle
<1>2. ASSUME Does("bind") \/ Does("unbind")
      PROVE  at[Splitter] = "off"
  <2>1. ui # <<>> /\ ui[1][1] \in {"bind", "unbind"}
    BY <1>2 DEF Does
  <2>2. PICK v \in Vfos : Adding(v) \/ Removing(v)
    BY <2>1, StepNames DEF IInv
  <2>3. Splitter \notin running
    BY <2>1, <2>2, AddSteps, RemoveNames DEF Adding, Removing, Create, Stop
  <2> QED BY <2>3, <2>2, Distinct DEF IInv
<1> QED BY <1>1, <1>2 DEF IInv, RegisteredRuns, OnlyLiveStreams, DeadIsIdle, IsBound

\* Whatever workers and operations interleave, nobody works on the streams of
\* a VFO that was deleted, no stop of a handler reaches one it had registered,
\* and the splitter's list is never changed under it; for any number of VFOs,
\* with any chain.
THEOREM OnlyLiveTheorem == Spec => []OnlyLiveStreams
BY InitIInv, NextIInv, InvariantSuffices, PTL DEF Spec

-----------------------------------------------------------------------------
(* The path *)

\* Whether a block runs, and what it reads, when what is left of the operation
\* has been done.
NoneOf(S)    == \A k \in DOMAIN ui : ui[k] \notin S
LastOf(a, S) == \E i \in DOMAIN ui : ui[i] = a /\ \A k \in DOMAIN ui : i < k => ui[k] \notin S

Connects(b) == {Connect(b, s) : s \in ChainStreams}

RunsAfter(b) ==
    \/ b \in running /\ NoneOf({Stop(b)})
    \/ LastOf(Start(b), {Stop(b)})

ReadsAfter(b, s) ==
    \/ input[b] = s /\ NoneOf(Connects(b))
    \/ LastOf(Connect(b, s), Connects(b))

\* The stream that is due to b when the preprocessors in on are in use.
Due(on, b) == Behind(IF b = Splitter THEN on ELSE {k \in on : Precedes(k, b[2])})

\* The operation ends with the path in order.
PathKept ==
    \E on \in SUBSET Range(Chain) :
        /\ \A b \in Links : RunsAfter(b) <=> b[2] \in on
        /\ \A b \in Links \cup {Splitter}, s \in ChainStreams :
               (b = Splitter \/ b[2] \in on) /\ s = Due(on, b) => ReadsAfter(b, s)

LEMMA StepsDiffer ==
    ASSUME NEW a, NEW b, NEW s, NEW t
    PROVE  /\ Start(a) # Stop(b) /\ Start(a) # Connect(b, s) /\ Stop(a) # Connect(b, s)
           /\ (Start(a) = Start(b) => a = b) /\ (Stop(a) = Stop(b) => a = b)
           /\ (Connect(a, s) = Connect(b, t) => a = b /\ s = t)
BY DEF Start, Stop, Connect

\* The steps are a list of pairs, done from the first to the last.
LEMMA StepsInOrder ==
    ASSUME Underway, ui # <<>>
    PROVE  /\ Len(ui) \in Nat /\ Len(ui) >= 1
           /\ DOMAIN ui = 1 .. Len(ui) /\ DOMAIN Tail(ui) = 1 .. Len(ui) - 1
           /\ \A k \in 1 .. Len(ui) - 1 : Tail(ui)[k] = ui[k + 1]
           /\ ui[1] = <<ui[1][1], ui[1][2]>>
<1> DEFINE StepsFor(v) == {Create(v), Bind(VfoIn(v)), Unbind(VfoIn(v)), Delete(v), Stop(Splitter),
                          Start(Splitter), Stop(RxVfo(v)), Start(RxVfo(v)),
                          Register(v), Start(Handler(v)), Stop(Handler(v)), Discard(v)}
<1>1. ASSUME NEW v, Adding(v) \/ Removing(v) \/ Decoding(v)
      PROVE  ui \in Seq(StepsFor(v))
  <2> HIDE DEF StepsFor
  <2>1. {Create(v), Bind(VfoIn(v)), Unbind(VfoIn(v)), Delete(v), Stop(Splitter),
         Start(Splitter), Stop(RxVfo(v)), Start(RxVfo(v)),
         Register(v), Start(Handler(v)), Stop(Handler(v)), Discard(v)} \subseteq StepsFor(v)
    BY DEF StepsFor
  <2>2. AddVfo(v) \in Seq(StepsFor(v)) /\ ToBind(v) \in Seq(StepsFor(v)) /\ BindNow(v) \in Seq(StepsFor(v))
    BY <2>1 DEF AddVfo, ToBind, BindNow
  <2>3. RemoveVfo(v) \in Seq(StepsFor(v)) /\ StopTwice(v) \in Seq(StepsFor(v))
    BY <2>1 DEF RemoveVfo, StopTwice
  <2>4. ToUnbind(v) \in Seq(StepsFor(v)) /\ UnbindNow(v) \in Seq(StepsFor(v)) /\ Unbound(v) \in Seq(StepsFor(v))
    BY <2>1 DEF ToUnbind, UnbindNow, Unbound
  <2>5. <<Delete(v)>> \in Seq(StepsFor(v))
    BY <2>1
  <2>6. AttachHandler(v) \in Seq(StepsFor(v)) /\ DetachHandler(v) \in Seq(StepsFor(v))
    BY <2>1 DEF AttachHandler, DetachHandler
  <2>7. /\ DeleteDecoder(v) \in Seq(StepsFor(v))
        /\ <<Start(Handler(v))>> \in Seq(StepsFor(v)) /\ <<Discard(v)>> \in Seq(StepsFor(v))
    BY <2>1 DEF DeleteDecoder
  <2> QED BY <1>1, <2>2, <2>3, <2>4, <2>5, <2>6, <2>7 DEF Adding, Removing, Decoding
<1>2. \E S : ui \in Seq(S)
  BY <1>1 DEF Underway
<1>3. /\ Len(ui) \in Nat /\ Len(ui) >= 1
      /\ DOMAIN ui = 1 .. Len(ui) /\ DOMAIN Tail(ui) = 1 .. Len(ui) - 1
      /\ \A k \in 1 .. Len(ui) - 1 : Tail(ui)[k] = ui[k + 1]
  <2>1. PICK S : ui \in Seq(S)
    BY <1>2
  <2> QED BY <2>1
<1>4. ui[1] = <<ui[1][1], ui[1][2]>>
  <2>1. CASE ui \in Seq(Harmless)
    <3>1. ui[1] \in Harmless
      BY <2>1, HarmlessSteps
    <3> QED BY <3>1 DEF Harmless, Start, Stop, Connect
  <2>2. ASSUME NEW v, Adding(v) \/ Removing(v) \/ Decoding(v)
        PROVE  ui[1] = <<ui[1][1], ui[1][2]>>
    <3>1. ui[1] \in StepsFor(v)
      <4> HIDE DEF StepsFor
      <4> QED BY <1>1, <1>3, <2>2
    <3> QED BY <3>1 DEF Create, Bind, Unbind, Delete, Stop, Start, Register, Discard
  <2> QED BY <2>1, <2>2 DEF Underway
<1> QED BY <1>3, <1>4

\* What the list says without its first step.
LEMMA HeadDone ==
    ASSUME IInv, NEW a, NEW S, ui # <<>>, ui' = Tail(ui)
    PROVE  /\ NoneOf(S) <=> ui[1] \notin S /\ NoneOf(S)'
           /\ LastOf(a, S) <=> (ui[1] = a /\ NoneOf(S)') \/ LastOf(a, S)'
<1> DEFINE n == Len(ui)
<1>1. /\ n \in Nat /\ n >= 1 /\ DOMAIN ui = 1 .. n /\ DOMAIN ui' = 1 .. n - 1
      /\ \A k \in 1 .. n - 1 : ui'[k] = ui[k + 1]
  BY StepsInOrder DEF IInv
<1> HIDE DEF n
<1>2. \A k \in 2 .. n : k - 1 \in DOMAIN ui' /\ ui'[k - 1] = ui[k]
  BY <1>1
<1>3. NoneOf(S)' <=> \A k \in 2 .. n : ui[k] \notin S
  <2>1. ASSUME \A k \in 2 .. n : ui[k] \notin S, NEW k \in DOMAIN ui'
        PROVE  ui'[k] \notin S
    BY <1>1, <2>1
  <2>2. ASSUME \A k \in DOMAIN ui' : ui'[k] \notin S, NEW k \in 2 .. n
        PROVE  ui[k] \notin S
    BY <1>2, <2>2
  <2> QED BY <2>1, <2>2 DEF NoneOf
<1>4. ASSUME NEW i \in 2 .. n, ui[i] = a, \A k \in DOMAIN ui : i < k => ui[k] \notin S
      PROVE  LastOf(a, S)'
  <2>1. i - 1 \in DOMAIN ui' /\ ui'[i - 1] = a
    BY <1>2, <1>4
  <2>2. \A k \in DOMAIN ui' : i - 1 < k => ui'[k] \notin S
    BY <1>1, <1>4
  <2> QED BY <2>1, <2>2 DEF LastOf
<1>5. ASSUME NEW i \in DOMAIN ui', ui'[i] = a, \A k \in DOMAIN ui' : i < k => ui'[k] \notin S
      PROVE  LastOf(a, S)
  <2>1. i + 1 \in DOMAIN ui /\ ui[i + 1] = a
    BY <1>1, <1>5
  <2>2. ASSUME NEW k \in DOMAIN ui, i + 1 < k
        PROVE  ui[k] \notin S
    <3>1. k \in 2 .. n /\ i < k - 1
      BY <1>1, <2>2
    <3> QED BY <1>2, <1>5, <3>1
  <2> QED BY <2>1, <2>2 DEF LastOf
<1>6. ASSUME ui[1] = a, \A k \in 2 .. n : ui[k] \notin S
      PROVE  LastOf(a, S)
  <2>1. 1 \in DOMAIN ui /\ \A k \in DOMAIN ui : 1 < k => k \in 2 .. n
    BY <1>1
  <2> QED BY <1>6, <2>1 DEF LastOf
<1>7. NoneOf(S) <=> ui[1] \notin S /\ \A k \in 2 .. n : ui[k] \notin S
  BY <1>1 DEF NoneOf
<1>8. ASSUME LastOf(a, S)
      PROVE  (ui[1] = a /\ NoneOf(S)') \/ LastOf(a, S)'
  <2>1. PICK i \in DOMAIN ui : ui[i] = a /\ \A k \in DOMAIN ui : i < k => ui[k] \notin S
    BY <1>8 DEF LastOf
  <2>2. CASE i = 1
    <3>1. \A k \in 2 .. n : k \in DOMAIN ui /\ i < k
      BY <1>1, <2>2
    <3>2. \A k \in 2 .. n : ui[k] \notin S
      BY <2>1, <3>1
    <3> QED BY <1>3, <2>1, <2>2, <3>2
  <2>3. CASE i # 1
    <3>1. i \in 2 .. n
      BY <1>1, <2>3
    <3> QED BY <1>4, <2>1, <3>1
  <2> QED BY <2>2, <2>3
<1>9. ASSUME (ui[1] = a /\ NoneOf(S)') \/ LastOf(a, S)'
      PROVE  LastOf(a, S)
  <2>1. CASE ui[1] = a /\ NoneOf(S)'
    BY <1>3, <1>6, <2>1
  <2>2. CASE LastOf(a, S)'
    <3>1. PICK i \in DOMAIN ui' : ui'[i] = a /\ \A k \in DOMAIN ui' : i < k => ui'[k] \notin S
      BY <2>2 DEF LastOf
    <3> QED BY <1>5, <3>1
  <2> QED BY <1>9, <2>1, <2>2
<1> QED BY <1>3, <1>7, <1>8, <1>9

\* A step does what it says and is off the list: the outcome stays.
LEMMA RunsStays ==
    ASSUME IInv, NEW b, ui # <<>>, ui' = Tail(ui),
           \/ ui[1] = Start(b) /\ b \in running'
           \/ ui[1] = Stop(b) /\ b \notin running'
           \/ ui[1] # Start(b) /\ ui[1] # Stop(b) /\ (b \in running' <=> b \in running)
    PROVE  RunsAfter(b)' <=> RunsAfter(b)
<1> DEFINE S == {Stop(b)}
           none == NoneOf(S)'
           last == LastOf(Start(b), S)'
<1>1. /\ NoneOf(S) <=> ui[1] # Stop(b) /\ none
      /\ LastOf(Start(b), S) <=> (ui[1] = Start(b) /\ none) \/ last
  BY HeadDone
<1>2. RunsAfter(b)' <=> (b \in running' /\ none) \/ last
  BY DEF RunsAfter, Start, Stop
<1> HIDE DEF none, last
<1>3. RunsAfter(b) <=> (b \in running /\ ui[1] # Stop(b) /\ none) \/ (ui[1] = Start(b) /\ none) \/ last
  BY <1>1 DEF RunsAfter
<1> QED BY <1>2, <1>3, StepsDiffer

LEMMA ReadsStays ==
    ASSUME IInv, NEW b, NEW s \in ChainStreams, ui # <<>>, ui' = Tail(ui),
           \/ ui[1] \in Connects(b) /\ ui[1] = Connect(b, input'[b])
           \/ ui[1] \notin Connects(b) /\ input'[b] = input[b]
    PROVE  ReadsAfter(b, s)' <=> ReadsAfter(b, s)
<1> DEFINE S == Connects(b)
           none == NoneOf(S)'
           last == LastOf(Connect(b, s), S)'
<1>1. /\ NoneOf(S) <=> ui[1] \notin S /\ none
      /\ LastOf(Connect(b, s), S) <=> (ui[1] = Connect(b, s) /\ none) \/ last
  BY HeadDone
<1>2. ReadsAfter(b, s)' <=> (input'[b] = s /\ none) \/ last
  BY DEF ReadsAfter, Connects, Connect, ChainStreams, LinkOut, Input
<1>3. Connect(b, s) \in S
  BY DEF Connects
<1>4. Connect(b, input'[b]) = Connect(b, s) <=> input'[b] = s
  BY StepsDiffer
<1> HIDE DEF none, last, S
<1>5. ReadsAfter(b, s) <=> (input[b] = s /\ ui[1] \notin S /\ none) \/ (ui[1] = Connect(b, s) /\ none) \/ last
  BY <1>1 DEF ReadsAfter, S
<1> QED BY <1>2, <1>3, <1>4, <1>5 DEF S

\* Some preprocessor of a set is the last of them in the chain.
LEMMA HindmostInSet ==
    ASSUME NEW ls \in SUBSET Range(Chain), ls # {}
    PROVE  Hindmost(ls) \in ls
<1>1. /\ DOMAIN Chain = 1 .. Len(Chain) /\ Len(Chain) \in Nat /\ DOMAIN Chain \subseteq {1, 2, 3}
      /\ \A i, j \in DOMAIN Chain : Chain[i] = Chain[j] => i = j
  BY ChainIsShort
<1> DEFINE places == {i \in DOMAIN Chain : Chain[i] \in ls}
<1>2. places # {}
  BY DEF Range
<1>3. \E i \in places : \A j \in places : j <= i
  <2>1. places \subseteq {1, 2, 3}
    BY <1>1
  <2> HIDE DEF places
  <2>2. CASE 3 \in places
    BY <2>1, <2>2
  <2>3. CASE 3 \notin places /\ 2 \in places
    BY <2>1, <2>3
  <2>4. CASE 3 \notin places /\ 2 \notin places
    <3>1. places = {1}
      BY <1>2, <2>1, <2>4
    <3> QED BY <3>1
  <2> QED BY <2>2, <2>3, <2>4
<1>4. PICK i \in places : \A j \in places : j <= i
  BY <1>3
<1>5. ASSUME NEW k \in ls, k # Chain[i]
      PROVE  Precedes(k, Chain[i])
  <2>1. PICK j \in DOMAIN Chain : Chain[j] = k
    BY DEF Range
  <2>2. j < i
    BY <1>1, <1>4, <1>5, <2>1
  <2> QED BY <1>4, <2>1, <2>2 DEF Precedes
<1>6. Chain[i] \in ls /\ \A k \in ls : k = Chain[i] \/ Precedes(k, Chain[i])
  BY <1>4, <1>5
<1> QED BY <1>6 DEF Hindmost

LEMMA DueIsReadable ==
    ASSUME NEW on \in SUBSET Range(Chain), NEW b
    PROVE  Due(on, b) \in ChainStreams
<1>1. \A ls \in SUBSET Range(Chain) : Behind(ls) \in ChainStreams
  BY HindmostInSet DEF Behind, ChainStreams
<1>2. (IF b = Splitter THEN on ELSE {k \in on : Precedes(k, b[2])}) \in SUBSET Range(Chain)
  OBVIOUS
<1> QED BY <1>1, <1>2 DEF Due

\* The outcome is the same: so is the path it leads to.
LEMMA SameOutcome ==
    ASSUME PathKept,
           \A b \in Links : RunsAfter(b)' <=> RunsAfter(b),
           \A b \in Links \cup {Splitter}, s \in ChainStreams : ReadsAfter(b, s)' <=> ReadsAfter(b, s)
    PROVE  PathKept'
<1>1. PICK on \in SUBSET Range(Chain) :
          /\ \A b \in Links : RunsAfter(b) <=> b[2] \in on
          /\ \A b \in Links \cup {Splitter}, s \in ChainStreams :
                 (b = Splitter \/ b[2] \in on) /\ s = Due(on, b) => ReadsAfter(b, s)
  BY DEF PathKept
<1>2. /\ \A b \in Links : RunsAfter(b)' <=> b[2] \in on
      /\ \A b \in Links \cup {Splitter}, s \in ChainStreams :
             (b = Splitter \/ b[2] \in on) /\ s = Due(on, b) => ReadsAfter(b, s)'
  BY <1>1
<1> QED BY <1>2 DEF PathKept

\* No step of the user interface changes where its operation leads.
LEMMA StepKeepsPath ==
    ASSUME IInv, UiWorks, PathKept
    PROVE  PathKept'
<1>1. CASE RaiseStop
  <2>1. UNCHANGED <<ui, running, input>>
    BY <1>1 DEF RaiseStop
  <2>2. /\ \A b \in Links : RunsAfter(b)' <=> RunsAfter(b)
        /\ \A b \in Links \cup {Splitter}, s \in ChainStreams : ReadsAfter(b, s)' <=> ReadsAfter(b, s)
    BY <2>1 DEF RunsAfter, ReadsAfter, NoneOf, LastOf
  <2> QED BY <2>2, SameOutcome
<1>2. CASE ~RaiseStop
  <2>1. ui # <<>> /\ ui' = Tail(ui)
    BY <1>2 DEF UiWorks, DoCreate, DoBind, DoUnbind, DoDelete, DoRegister, DoDiscard, DoConnect, DoStart,
                StopAgain, JoinStop, Does, Done
  <2>2. ui[1] = <<ui[1][1], ui[1][2]>>
    BY <2>1, StepsInOrder DEF IInv
  <2>3. ASSUME NEW b \in Links
        PROVE  \/ ui[1] = Start(b) /\ b \in running'
               \/ ui[1] = Stop(b) /\ b \notin running'
               \/ ui[1] # Start(b) /\ ui[1] # Stop(b) /\ (b \in running' <=> b \in running)
    <3>1. CASE DoCreate \/ DoBind \/ DoUnbind \/ DoDelete \/ DoRegister \/ DoDiscard \/ DoConnect
      <4>1. /\ ui[1][1] \in {"create", "bind", "unbind", "delete", "register", "discard", "connect"}
            /\ running' = running
        BY <3>1 DEF DoCreate, DoBind, DoUnbind, DoDelete, DoRegister, DoDiscard, DoConnect, Does
      <4> QED BY <4>1 DEF Start, Stop
    <3>2. CASE DoStart
      <4>1. ui[1] = Start(What) /\ running' = running \cup {What}
        BY <2>2, <3>2 DEF DoStart, Does, What, Start
      <4> QED BY <4>1, StepsDiffer
    <3>3. CASE StopAgain \/ JoinStop
      <4>1. ui[1] = Stop(What) /\ running' = running \ {What}
        BY <2>2, <3>3 DEF StopAgain, JoinStop, Does, What, Stop
      <4> QED BY <4>1, StepsDiffer
    <3> QED BY <1>2, <3>1, <3>2, <3>3 DEF UiWorks
  <2>4. ASSUME NEW b \in Links \cup {Splitter}
        PROVE  \/ ui[1] \in Connects(b) /\ ui[1] = Connect(b, input'[b])
               \/ ui[1] \notin Connects(b) /\ input'[b] = input[b]
    <3>1. CASE DoConnect
      <4>1. PICK c \in Links \cup {Splitter}, s \in ChainStreams : ui[1] = Connect(c, s)
        <5>1. ui[1] \in Harmless
          BY <3>1, StepNames DEF DoConnect, Does, IInv
        <5> QED BY <3>1, <5>1 DEF DoConnect, Does, Harmless, Start, Stop, Connect
      <4>2. input' = [input EXCEPT ![c] = s]
        BY <3>1, <4>1 DEF DoConnect, What, Connect
      <4>3. input'[c] = s /\ (b # c => input'[b] = input[b])
        BY <4>2 DEF IInv, TypeOK
      <4>4. CASE b = c
        BY <4>1, <4>3, <4>4 DEF Connects
      <4>5. CASE b # c
        <5>1. ui[1] \notin Connects(b)
          BY <4>1, <4>5, StepsDiffer DEF Connects
        <5> QED BY <4>3, <4>5, <5>1
      <4> QED BY <4>4, <4>5
    <3>2. CASE ~DoConnect
      <4>1. ui[1][1] # "connect" /\ input' = input
        BY <1>2, <3>2 DEF UiWorks, DoCreate, DoBind, DoUnbind, DoDelete, DoRegister, DoDiscard, DoStart,
                          StopAgain, JoinStop, Does
      <4> QED BY <4>1 DEF Connects, Connect
    <3> QED BY <3>1, <3>2
  <2>5. \A b \in Links : RunsAfter(b)' <=> RunsAfter(b)
    BY <2>1, <2>3, RunsStays
  <2>6. \A b \in Links \cup {Splitter}, s \in ChainStreams : ReadsAfter(b, s)' <=> ReadsAfter(b, s)
    BY <2>1, <2>4, ReadsStays
  <2> QED BY <2>5, <2>6, SameOutcome
<1> QED BY <1>1, <1>2

LEMMA WorkersKeepPath ==
    ASSUME UNCHANGED <<ui, running, input>>, PathKept
    PROVE  PathKept'
<1>1. /\ \A b \in Links : RunsAfter(b)' <=> RunsAfter(b)
      /\ \A b \in Links \cup {Splitter}, s \in ChainStreams : ReadsAfter(b, s)' <=> ReadsAfter(b, s)
  BY DEF RunsAfter, ReadsAfter, NoneOf, LastOf
<1> QED BY <1>1, SameOutcome

-----------------------------------------------------------------------------
(* The path of two preprocessors *)

LEMMA TwoLinks ==
    ASSUME Len(Chain) <= 2
    PROVE  /\ \A l \in Range(Chain) : ~Precedes(l, l)
           /\ \A k, l \in Range(Chain) : k # l => (Precedes(k, l) <=> ~Precedes(l, k))
           /\ \A k, l, m \in Range(Chain) : k # l => m \in {k, l}
<1>1. DOMAIN Chain \subseteq {1, 2} /\ \A i, j \in DOMAIN Chain : Chain[i] = Chain[j] => i = j
  BY ChainIsShort
<1>2. \A l \in Range(Chain) : \E i \in DOMAIN Chain : Chain[i] = l
  BY DEF Range
<1> QED BY <1>1, <1>2 DEF Precedes

LEMMA BehindTwo ==
    ASSUME Len(Chain) <= 2, NEW l \in Range(Chain), NEW m \in Range(Chain), m # l
    PROVE  /\ Behind({}) = Input /\ Behind({l}) = LinkOut(l) /\ Foremost({l}) = l
           /\ Precedes(m, l) => Behind({l, m}) = LinkOut(l)
           /\ Precedes(l, m) => Behind({l, m}) = LinkOut(m)
<1>1. Hindmost({l}) = l /\ Foremost({l}) = l
  BY DEF Hindmost, Foremost
<1>2. Hindmost({l, m}) \in {l, m} /\ \A k \in {l, m} : k = Hindmost({l, m}) \/ Precedes(k, Hindmost({l, m}))
  BY TwoLinks DEF Hindmost
<1>3. /\ Precedes(m, l) => Hindmost({l, m}) = l
      /\ Precedes(l, m) => Hindmost({l, m}) = m
  BY <1>2, TwoLinks
<1> QED BY <1>1, <1>3 DEF Behind

\* The blocks of the path when the preprocessors in on are in use.
PathOf(on) == {Link(l) : l \in on} \cup {Splitter}

LEMMA DueOf ==
    ASSUME NEW on
    PROVE  /\ Due(on, Splitter) = Behind(on)
           /\ \A k : Due(on, Link(k)) = Behind({j \in on : Precedes(j, k)})
<1>1. \A k : Link(k) # Splitter /\ Link(k)[2] = k
  BY DEF Link, Splitter
<1>2. ASSUME NEW k
      PROVE  Due(on, Link(k)) = Behind({j \in on : Precedes(j, k)})
  <2>1. (IF Link(k) = Splitter THEN on ELSE {j \in on : Precedes(j, Link(k)[2])}) = {j \in on : Precedes(j, k)}
    BY <1>1
  <2> QED BY <2>1 DEF Due
<1>3. Due(on, Splitter) = Behind(on)
  BY DEF Due
<1> QED BY <1>2, <1>3

\* Read in order: each block of the path reads what is due to it.
LEMMA OrderIsDue ==
    InOrder <=> \A b \in PathOf(Enabled) : input[b] = Due(Enabled, b)
<1>1. \A l : Link(l) # Splitter /\ Link(l)[2] = l
  BY DEF Link, Splitter
<1>2. Due(Enabled, Splitter) = Behind(Enabled)
  BY DEF Due
<1>3. \A l : Due(Enabled, Link(l)) = Behind(Before(l))
  BY <1>1 DEF Due, Before
<1> QED BY <1>2, <1>3 DEF InOrder, PathOf

\* With l switched on, the block behind it reads it, it reads the block before
\* it, and all others read what they read.
LEMMA EnableOrder ==
    ASSUME Len(Chain) <= 2, NEW l \in Range(Chain), l \notin Enabled, InOrder
    PROVE  LET on == Enabled \cup {l}
           IN  /\ on \in SUBSET Range(Chain)
               /\ ReaderOf(l) \in PathOf(on) /\ ReaderOf(l) # Link(l)
               /\ Due(on, Link(l)) = InputOf(l)
               /\ Due(on, ReaderOf(l)) = LinkOut(l)
               /\ \A b \in PathOf(on) \ {ReaderOf(l), Link(l)} : Due(on, b) = input[b]
<1> DEFINE on == Enabled \cup {l}
<1>1. Enabled \subseteq Range(Chain) /\ on \in SUBSET Range(Chain)
  BY DEF Enabled
<1>2. \A k : Link(k) # Splitter /\ Link(k)[2] = k
  BY DEF Link, Splitter
<1>3. \A b \in PathOf(Enabled) : input[b] = Due(Enabled, b)
  BY OrderIsDue
<1>4. /\ Due(on, Splitter) = Behind(on)
      /\ \A k : Due(on, Link(k)) = Behind({j \in on : Precedes(j, k)})
      /\ Due(Enabled, Splitter) = Behind(Enabled)
      /\ \A k : Due(Enabled, Link(k)) = Behind({j \in Enabled : Precedes(j, k)})
  <2> HIDE DEF on
  <2> QED BY DueOf, Zenon
<1>5. CASE Enabled = {}
  <2>1. Before(l) = {} /\ After(l) = {} /\ on = {l}
    BY <1>5 DEF Before, After
  <2>2. ReaderOf(l) = Splitter /\ InputOf(l) = Input
    BY <2>1 DEF ReaderOf, InputOf
  <2>3. {j \in {l} : Precedes(j, l)} = {}
    BY TwoLinks
  <2>4. Behind({}) = Input /\ Behind({l}) = LinkOut(l)
    BY DEF Behind, Hindmost
  <2> QED BY <1>1, <1>2, <1>4, <2>1, <2>2, <2>3, <2>4 DEF PathOf
<1>6. ASSUME Enabled # {}
      PROVE  \E m \in Range(Chain) : m # l /\ Enabled = {m}
  BY <1>1, <1>6, TwoLinks
<1>7. ASSUME NEW m \in Range(Chain), m # l, Enabled = {m}
      PROVE  /\ ReaderOf(l) \in PathOf(on) /\ ReaderOf(l) # Link(l)
             /\ Due(on, Link(l)) = InputOf(l)
             /\ Due(on, ReaderOf(l)) = LinkOut(l)
             /\ \A b \in PathOf(on) \ {ReaderOf(l), Link(l)} : Due(on, b) = input[b]
  <2>0. on = {l, m} /\ ~Precedes(l, l) /\ ~Precedes(m, m) /\ (Precedes(m, l) <=> ~Precedes(l, m))
    BY <1>7, TwoLinks
  <2>1. PathOf(on) = {Link(l), Link(m), Splitter} /\ PathOf(Enabled) = {Link(m), Splitter}
    BY <1>7 DEF PathOf
  <2>2. Link(m) # Link(l)
    BY <1>2, <1>7
  <2>3. /\ Behind({}) = Input /\ Behind({l}) = LinkOut(l) /\ Behind({m}) = LinkOut(m) /\ Foremost({m}) = m
        /\ Precedes(m, l) => Behind({l, m}) = LinkOut(l)
        /\ Precedes(l, m) => Behind({l, m}) = LinkOut(m)
    BY <1>7, BehindTwo
  <2>4. {j \in Enabled : Precedes(j, m)} = {}
    BY <1>7, <2>0
  <2>5. input[Link(m)] = Input /\ input[Splitter] = LinkOut(m)
    BY <1>3, <1>4, <1>7, <2>1, <2>3, <2>4
  <2>6. CASE Precedes(m, l)
    <3>1. Before(l) = {m} /\ After(l) = {}
      BY <1>7, <2>0, <2>6 DEF Before, After
    <3>2. ReaderOf(l) = Splitter /\ InputOf(l) = LinkOut(m)
      BY <2>3, <3>1 DEF ReaderOf, InputOf
    <3>3. {j \in on : Precedes(j, l)} = {m} /\ {j \in on : Precedes(j, m)} = {}
      BY <2>0, <2>6
    <3>4. Due(on, Link(l)) = LinkOut(m) /\ Due(on, Splitter) = LinkOut(l) /\ Due(on, Link(m)) = Input
      BY <1>4, <2>0, <2>3, <2>6, <3>3
    <3> QED BY <1>2, <2>1, <2>5, <3>2, <3>4
  <2>7. CASE Precedes(l, m)
    <3>1. Before(l) = {} /\ After(l) = {m}
      BY <1>7, <2>0, <2>7 DEF Before, After
    <3>2. ReaderOf(l) = Link(m) /\ InputOf(l) = Input
      BY <2>3, <3>1 DEF ReaderOf, InputOf
    <3>3. {j \in on : Precedes(j, l)} = {} /\ {j \in on : Precedes(j, m)} = {l}
      BY <2>0, <2>7
    <3>4. Due(on, Link(l)) = Input /\ Due(on, Splitter) = LinkOut(m) /\ Due(on, Link(m)) = LinkOut(l)
      BY <1>4, <2>0, <2>3, <2>7, <3>3
    <3> QED BY <1>2, <2>1, <2>2, <2>5, <3>2, <3>4
  <2> QED BY <2>0, <2>6, <2>7
<1> QED BY <1>1, <1>5, <1>6, <1>7

\* With l switched off, the block behind it reads what l read.
LEMMA DisableOrder ==
    ASSUME Len(Chain) <= 2, NEW l \in Enabled, InOrder
    PROVE  LET on == Enabled \ {l}
           IN  /\ on \in SUBSET Range(Chain)
               /\ ReaderOf(l) \in PathOf(on)
               /\ Due(on, ReaderOf(l)) = InputOf(l)
               /\ \A b \in PathOf(on) \ {ReaderOf(l)} : Due(on, b) = input[b]
<1> DEFINE on == Enabled \ {l}
<1>1. Enabled \subseteq Range(Chain) /\ on \in SUBSET Range(Chain) /\ l \in Range(Chain)
  BY DEF Enabled
<1>2. \A k : Link(k) # Splitter /\ Link(k)[2] = k
  BY DEF Link, Splitter
<1>3. \A b \in PathOf(Enabled) : input[b] = Due(Enabled, b)
  BY OrderIsDue
<1>4. /\ Due(on, Splitter) = Behind(on)
      /\ \A k : Due(on, Link(k)) = Behind({j \in on : Precedes(j, k)})
      /\ Due(Enabled, Splitter) = Behind(Enabled)
      /\ \A k : Due(Enabled, Link(k)) = Behind({j \in Enabled : Precedes(j, k)})
  <2> HIDE DEF on
  <2> QED BY DueOf, Zenon
<1>5. CASE on = {}
  <2>0. Enabled = {l} /\ ~Precedes(l, l)
    BY <1>1, <1>5, TwoLinks
  <2>1. Before(l) = {} /\ After(l) = {}
    BY <2>0 DEF Before, After
  <2>2. ReaderOf(l) = Splitter /\ InputOf(l) = Input
    BY <2>1 DEF ReaderOf, InputOf
  <2>3. Due(on, Splitter) = Input
    BY <1>4, <1>5 DEF Behind
  <2>4. PathOf(on) = {Splitter}
    BY <1>5 DEF PathOf
  <2> QED BY <1>1, <2>2, <2>3, <2>4
<1>6. ASSUME on # {}
      PROVE  \E m \in Range(Chain) : m # l /\ Enabled = {l, m} /\ on = {m}
  BY <1>1, <1>6, TwoLinks
<1>7. ASSUME NEW m \in Range(Chain), m # l, Enabled = {l, m}, on = {m}
      PROVE  /\ ReaderOf(l) \in PathOf(on)
             /\ Due(on, ReaderOf(l)) = InputOf(l)
             /\ \A b \in PathOf(on) \ {ReaderOf(l)} : Due(on, b) = input[b]
  <2>0. ~Precedes(l, l) /\ ~Precedes(m, m) /\ (Precedes(m, l) <=> ~Precedes(l, m))
    BY <1>1, <1>7, TwoLinks
  <2>1. PathOf(Enabled) = {Link(l), Link(m), Splitter} /\ PathOf(on) = {Link(m), Splitter}
    BY <1>7 DEF PathOf
  <2>3. /\ Behind({}) = Input /\ Behind({l}) = LinkOut(l) /\ Behind({m}) = LinkOut(m) /\ Foremost({m}) = m
        /\ Precedes(m, l) => Behind({l, m}) = LinkOut(l)
        /\ Precedes(l, m) => Behind({l, m}) = LinkOut(m)
    BY <1>1, <1>7, BehindTwo
  <2>4. {j \in on : Precedes(j, m)} = {}
    BY <1>7, <2>0
  <2>5. Due(on, Link(m)) = Input /\ Due(on, Splitter) = LinkOut(m)
    BY <1>4, <1>7, <2>3, <2>4
  <2>6. CASE Precedes(m, l)
    <3>1. Before(l) = {m} /\ After(l) = {}
      BY <1>7, <2>0, <2>6 DEF Before, After
    <3>2. ReaderOf(l) = Splitter /\ InputOf(l) = LinkOut(m)
      BY <2>3, <3>1 DEF ReaderOf, InputOf
    <3>3. {j \in Enabled : Precedes(j, m)} = {}
      BY <1>7, <2>0, <2>6
    <3>4. input[Link(m)] = Input
      BY <1>3, <1>4, <2>1, <2>3, <3>3
    <3> QED BY <1>2, <2>1, <2>5, <3>2, <3>4
  <2>7. CASE Precedes(l, m)
    <3>1. Before(l) = {} /\ After(l) = {m}
      BY <1>7, <2>0, <2>7 DEF Before, After
    <3>2. ReaderOf(l) = Link(m) /\ InputOf(l) = Input
      BY <2>3, <3>1 DEF ReaderOf, InputOf
    <3>3. input[Splitter] = LinkOut(m)
      BY <1>3, <1>4, <1>7, <2>1, <2>3, <2>7
    <3> QED BY <1>2, <2>1, <2>5, <3>2, <3>3
  <2> QED BY <2>0, <2>6, <2>7
<1> QED BY <1>1, <1>5, <1>6, <1>7

-----------------------------------------------------------------------------
(* Where the operations lead *)

\* Short lists put together.
LEMMA Joined ==
    ASSUME NEW a, NEW b, NEW c
    PROVE  /\ <<a>> \o <<b>> = <<a, b>>
           /\ <<a, b>> \o <<c>> = <<a, b, c>>
           /\ <<a>> \o <<b, c>> = <<a, b, c>>
<1> DEFINE S == {a, b, c}
<1>0. /\ {<<a>>, <<b>>, <<c>>} \subseteq Seq(S)
      /\ {<<a, b>>, <<b, c>>} \subseteq Seq(S)
      /\ {<<a, b, c>>} \subseteq Seq(S)
  OBVIOUS
<1> HIDE DEF S
<1>1. <<a>> \o <<b>> = <<a, b>>
  <2>1. Len(<<a>> \o <<b>>) = 2 /\ <<a>> \o <<b>> \in Seq(S)
    BY <1>0
  <2>2. \A i \in 1 .. 2 : (<<a>> \o <<b>>)[i] = <<a, b>>[i]
    OBVIOUS
  <2> QED BY <1>0, <2>1, <2>2, SeqEqual
<1>2. <<a, b>> \o <<c>> = <<a, b, c>>
  <2>1. Len(<<a, b>> \o <<c>>) = 3 /\ <<a, b>> \o <<c>> \in Seq(S)
    BY <1>0
  <2>2. \A i \in 1 .. 3 : (<<a, b>> \o <<c>>)[i] = <<a, b, c>>[i]
    OBVIOUS
  <2> QED BY <1>0, <2>1, <2>2, SeqEqual
<1>3. <<a>> \o <<b, c>> = <<a, b, c>>
  <2>1. Len(<<a>> \o <<b, c>>) = 3 /\ <<a>> \o <<b, c>> \in Seq(S)
    BY <1>0
  <2>2. \A i \in 1 .. 3 : (<<a>> \o <<b, c>>)[i] = <<a, b, c>>[i]
    OBVIOUS
  <2> QED BY <1>0, <2>1, <2>2, SeqEqual
<1> QED BY <1>1, <1>2, <1>3

LEMMA JoinedFour ==
    ASSUME NEW a, NEW b, NEW c, NEW d
    PROVE  <<a>> \o <<b, c, d>> = <<a, b, c, d>>
<1> DEFINE S == {a, b, c, d}
           u == <<a>> \o <<b, c, d>>
           v == <<a, b, c, d>>
<1>1. <<a>> \in Seq(S) /\ <<b, c, d>> \in Seq(S) /\ v \in Seq(S)
  OBVIOUS
<1>2. Len(u) = 4 /\ u \in Seq(S) /\ Len(v) = 4
  BY <1>1
<1>3. \A i \in 1 .. 4 : u[i] = v[i]
  OBVIOUS
<1> HIDE DEF S, u, v
<1>4. u = v
  BY <1>1, <1>2, <1>3, SeqEqual
<1> QED BY <1>4 DEF u, v

LEMMA JoinedFive ==
    ASSUME NEW a, NEW b, NEW c, NEW d, NEW e
    PROVE  <<a, b, c>> \o <<d, e>> = <<a, b, c, d, e>>
<1> DEFINE S == {a, b, c, d, e}
           u == <<a, b, c>> \o <<d, e>>
           v == <<a, b, c, d, e>>
<1>1. <<a, b, c>> \in Seq(S) /\ <<d, e>> \in Seq(S) /\ v \in Seq(S)
  OBVIOUS
<1>2. Len(u) = 5 /\ u \in Seq(S) /\ Len(v) = 5
  BY <1>1
<1>3. \A i \in 1 .. 5 : u[i] = v[i]
  OBVIOUS
<1> HIDE DEF S, u, v
<1>4. u = v
  BY <1>1, <1>2, <1>3, SeqEqual
<1> QED BY <1>4 DEF u, v

LEMMA SetInputSteps ==
    ASSUME NEW b, NEW s
    PROVE  SetInput(b, s) = IF b \in running THEN <<Stop(b), Connect(b, s), Start(b)>> ELSE <<Connect(b, s)>>
<1>1. \A c : Paused(<<b>>, <<c>>) = <<Stop(b), c, Start(b)>>
  <2> TAKE c
  <2> DEFINE stop  == [i \in DOMAIN <<b>> |-> Stop(<<b>>[i])]
             start == [i \in DOMAIN <<b>> |-> Start(<<b>>[i])]
  <2>1. stop = <<Stop(b)>> /\ start = <<Start(b)>>
    OBVIOUS
  <2>2. Paused(<<b>>, <<c>>) = stop \o <<c>> \o start
    BY DEF Paused
  <2> HIDE DEF stop, start
  <2> QED BY <2>1, <2>2, Joined
<1>2. \A c : Paused(<<>>, <<c>>) = <<c>>
  <2> TAKE c
  <2>1. [i \in DOMAIN <<>> |-> Stop(<<>>[i])] = <<>> /\ [i \in DOMAIN <<>> |-> Start(<<>>[i])] = <<>>
    OBVIOUS
  <2> QED BY <2>1 DEF Paused
<1> QED BY <1>1, <1>2 DEF SetInput

LEMMA OthersConnect ==
    ASSUME NEW b
    PROVE  /\ \A c : Start(c) \notin Connects(b) /\ Stop(c) \notin Connects(b)
           /\ \A c, t : c # b => Connect(c, t) \notin Connects(b)
BY StepsDiffer DEF Connects

LEMMA ReadsThen ==
    ASSUME NEW b, NEW s \in ChainStreams
    PROVE  ReadsAfter(b, s)' <=>
               \/ input'[b] = s /\ \A k \in DOMAIN ui' : ui'[k] \notin Connects(b)
               \/ \E i \in DOMAIN ui' :
                      ui'[i] = Connect(b, s) /\ \A k \in DOMAIN ui' : i < k => ui'[k] \notin Connects(b)
BY DEF ReadsAfter, NoneOf, LastOf, Connects, Connect, ChainStreams, LinkOut, Input

\* What a list of known steps leads to.
LEMMA EnableOutcome ==
    ASSUME NEW l \in Range(Chain), ReaderOf(l) # Link(l), ui' = EnableBlock(l), UNCHANGED <<input, running>>,
           ReaderOf(l) \in Links \cup {Splitter}, InputOf(l) \in ChainStreams
    PROVE  /\ \A b \in Links : RunsAfter(b)' <=> b \in running \cup {Link(l)}
           /\ \A b \in Links \cup {Splitter}, s \in ChainStreams :
                  s = (IF b = Link(l) THEN InputOf(l)
                       ELSE IF b = ReaderOf(l) THEN LinkOut(l) ELSE input[b]) => ReadsAfter(b, s)'
<1> DEFINE L == Link(l)
           R == ReaderOf(l)
           src == InputOf(l)
           out == LinkOut(l)
<1>0. src \in ChainStreams /\ out \in ChainStreams
  BY DEF ChainStreams
<1>1. CASE R \in running
  <2>1. EnableBlock(l) = <<Stop(R), Connect(R, out), Start(R), Connect(L, src), Start(L)>>
    <3>1. EnableBlock(l) = <<Stop(R), Connect(R, out), Start(R)>> \o <<Connect(L, src), Start(L)>>
      BY <1>1, SetInputSteps DEF EnableBlock
    <3> HIDE DEF L, R, src, out
    <3> QED BY <3>1, JoinedFive
  <2>0. L # R
    BY DEF L, R
  <2> HIDE DEF L, R, src, out
  <2>2. /\ DOMAIN ui' = 1 .. 5
        /\ ui'[1] = Stop(R) /\ ui'[2] = Connect(R, out) /\ ui'[3] = Start(R)
        /\ ui'[4] = Connect(L, src) /\ ui'[5] = Start(L)
    BY <2>1
  <2>3. ASSUME NEW b \in Links
        PROVE  RunsAfter(b)' <=> b \in running \cup {L}
    BY <1>1, <2>2, <2>3, StepsDiffer DEF RunsAfter, NoneOf, LastOf
  <2>4. ASSUME NEW b \in Links \cup {Splitter}, NEW s \in ChainStreams,
               s = (IF b = L THEN src ELSE IF b = R THEN out ELSE input[b])
        PROVE  ReadsAfter(b, s)'
    <3> USE OthersConnect
    <3>1. CASE b = L
      <4>1. ui'[4] = Connect(b, s) /\ 4 \in DOMAIN ui'
        BY <2>2, <2>4, <3>1
      <4>2. \A k \in DOMAIN ui' : 4 < k => ui'[k] \notin Connects(b)
        BY <2>2
      <4> QED BY <4>1, <4>2, ReadsThen
    <3>2. CASE b = R
      <4>1. ui'[2] = Connect(b, s) /\ 2 \in DOMAIN ui' /\ b # L
        BY <2>0, <2>2, <2>4, <3>2
      <4>2. \A k \in DOMAIN ui' : 2 < k => ui'[k] \notin Connects(b)
        BY <2>2, <4>1
      <4> QED BY <4>1, <4>2, ReadsThen
    <3>3. CASE b # L /\ b # R
      <4>1. input'[b] = s
        BY <2>4, <3>3
      <4>2. \A k \in DOMAIN ui' : ui'[k] \notin Connects(b)
        BY <2>2, <3>3
      <4> QED BY <4>1, <4>2, ReadsThen
    <3> QED BY <3>1, <3>2, <3>3
  <2> QED BY <2>3, <2>4 DEF L, R, src, out
<1>2. CASE R \notin running
  <2>1. EnableBlock(l) = <<Connect(R, out), Connect(L, src), Start(L)>>
    <3>1. EnableBlock(l) = <<Connect(R, out)>> \o <<Connect(L, src), Start(L)>>
      BY <1>2, SetInputSteps DEF EnableBlock
    <3> HIDE DEF L, R, src, out
    <3> QED BY <3>1, Joined
  <2>0. L # R
    BY DEF L, R
  <2> HIDE DEF L, R, src, out
  <2>2. /\ DOMAIN ui' = 1 .. 3
        /\ ui'[1] = Connect(R, out) /\ ui'[2] = Connect(L, src) /\ ui'[3] = Start(L)
    BY <2>1
  <2>3. ASSUME NEW b \in Links
        PROVE  RunsAfter(b)' <=> b \in running \cup {L}
    BY <1>2, <2>2, <2>3, StepsDiffer DEF RunsAfter, NoneOf, LastOf
  <2>4. ASSUME NEW b \in Links \cup {Splitter}, NEW s \in ChainStreams,
               s = (IF b = L THEN src ELSE IF b = R THEN out ELSE input[b])
        PROVE  ReadsAfter(b, s)'
    <3> USE OthersConnect
    <3>1. CASE b = L
      <4>1. ui'[2] = Connect(b, s) /\ 2 \in DOMAIN ui'
        BY <2>2, <2>4, <3>1
      <4>2. \A k \in DOMAIN ui' : 2 < k => ui'[k] \notin Connects(b)
        BY <2>2
      <4> QED BY <4>1, <4>2, ReadsThen
    <3>2. CASE b = R
      <4>1. ui'[1] = Connect(b, s) /\ 1 \in DOMAIN ui' /\ b # L
        BY <2>0, <2>2, <2>4, <3>2
      <4>2. \A k \in DOMAIN ui' : 1 < k => ui'[k] \notin Connects(b)
        BY <2>2, <4>1
      <4> QED BY <4>1, <4>2, ReadsThen
    <3>3. CASE b # L /\ b # R
      <4>1. input'[b] = s
        BY <2>4, <3>3
      <4>2. \A k \in DOMAIN ui' : ui'[k] \notin Connects(b)
        <5>1. ui'[1] \notin Connects(b)
          BY <2>2, <3>3
        <5>2. ui'[2] \notin Connects(b)
          BY <2>2, <3>3
        <5>3. ui'[3] \notin Connects(b)
          BY <2>2
        <5> QED BY <2>2, <5>1, <5>2, <5>3
      <4> QED BY <4>1, <4>2, ReadsThen
    <3> QED BY <3>1, <3>2, <3>3
  <2> QED BY <2>3, <2>4 DEF L, R, src, out
<1> QED BY <1>1, <1>2

LEMMA DisableOutcome ==
    ASSUME NEW l \in Range(Chain), ui' = DisableBlock(l), UNCHANGED <<input, running>>,
           ReaderOf(l) # Link(l), ReaderOf(l) \in Links \cup {Splitter}, InputOf(l) \in ChainStreams
    PROVE  /\ \A b \in Links : RunsAfter(b)' <=> b \in running \ {Link(l)}
           /\ \A b \in Links \cup {Splitter}, s \in ChainStreams :
                  s = (IF b = ReaderOf(l) THEN InputOf(l) ELSE input[b]) => ReadsAfter(b, s)'
<1> DEFINE L == Link(l)
           R == ReaderOf(l)
           src == InputOf(l)
<1>1. CASE R \in running
  <2>1. DisableBlock(l) = <<Stop(L), Stop(R), Connect(R, src), Start(R)>>
    <3>1. DisableBlock(l) = <<Stop(L)>> \o <<Stop(R), Connect(R, src), Start(R)>>
      BY <1>1, SetInputSteps DEF DisableBlock
    <3> HIDE DEF L, R, src
    <3> QED BY <3>1, JoinedFour
  <2> HIDE DEF L, R, src
  <2>2. /\ DOMAIN ui' = 1 .. 4
        /\ ui'[1] = Stop(L) /\ ui'[2] = Stop(R) /\ ui'[3] = Connect(R, src) /\ ui'[4] = Start(R)
    BY <2>1
  <2>0. L # R
    BY DEF L, R
  <2>3. ASSUME NEW b \in Links
        PROVE  RunsAfter(b)' <=> b \in running \ {L}
    BY <1>1, <2>0, <2>2, <2>3, StepsDiffer DEF RunsAfter, NoneOf, LastOf
  <2>4. ASSUME NEW b \in Links \cup {Splitter}, NEW s \in ChainStreams, s = (IF b = R THEN src ELSE input[b])
        PROVE  ReadsAfter(b, s)'
    <3> USE OthersConnect
    <3>1. CASE b = R
      <4>1. ui'[3] = Connect(b, s) /\ 3 \in DOMAIN ui'
        BY <2>2, <2>4, <3>1
      <4>2. \A k \in DOMAIN ui' : 3 < k => ui'[k] \notin Connects(b)
        BY <2>2
      <4> QED BY <4>1, <4>2, ReadsThen
    <3>2. CASE b # R
      <4>1. input'[b] = s
        BY <2>4, <3>2
      <4>2. \A k \in DOMAIN ui' : ui'[k] \notin Connects(b)
        BY <2>2, <3>2
      <4> QED BY <4>1, <4>2, ReadsThen
    <3> QED BY <3>1, <3>2
  <2> QED BY <2>3, <2>4 DEF L, R, src
<1>2. CASE R \notin running
  <2>1. DisableBlock(l) = <<Stop(L), Connect(R, src)>>
    <3>1. DisableBlock(l) = <<Stop(L)>> \o <<Connect(R, src)>>
      BY <1>2, SetInputSteps DEF DisableBlock
    <3> HIDE DEF L, R, src
    <3> QED BY <3>1, Joined
  <2> HIDE DEF L, R, src
  <2>2. DOMAIN ui' = 1 .. 2 /\ ui'[1] = Stop(L) /\ ui'[2] = Connect(R, src)
    BY <2>1
  <2>3. ASSUME NEW b \in Links
        PROVE  RunsAfter(b)' <=> b \in running \ {L}
    BY <1>2, <2>2, <2>3, StepsDiffer DEF RunsAfter, NoneOf, LastOf
  <2>4. ASSUME NEW b \in Links \cup {Splitter}, NEW s \in ChainStreams, s = (IF b = R THEN src ELSE input[b])
        PROVE  ReadsAfter(b, s)'
    <3> USE OthersConnect
    <3>1. CASE b = R
      <4>1. ui'[2] = Connect(b, s) /\ 2 \in DOMAIN ui'
        BY <2>2, <2>4, <3>1
      <4>2. \A k \in DOMAIN ui' : 2 < k => ui'[k] \notin Connects(b)
        BY <2>2
      <4> QED BY <4>1, <4>2, ReadsThen
    <3>2. CASE b # R
      <4>1. input'[b] = s
        BY <2>4, <3>2
      <4>2. \A k \in DOMAIN ui' : ui'[k] \notin Connects(b)
        BY <2>2, <3>2
      <4> QED BY <4>1, <4>2, ReadsThen
    <3> QED BY <3>1, <3>2
  <2> QED BY <2>3, <2>4 DEF L, R, src
<1> QED BY <1>1, <1>2

LEMMA LeadsInOrder ==
    ASSUME NEW on \in SUBSET Range(Chain),
           \A b \in Links : RunsAfter(b)' <=> b \in PathOf(on),
           \A b \in PathOf(on), s \in ChainStreams : s = Due(on, b) => ReadsAfter(b, s)'
    PROVE  PathKept'
<1>1. \A b \in Links : b # Splitter /\ (b \in PathOf(on) <=> b[2] \in on)
  BY DEF Links, Link, PathOf, Splitter
<1>2. Splitter \in PathOf(on)
  BY DEF PathOf
<1>3. /\ \A b \in Links : RunsAfter(b)' <=> b[2] \in on
      /\ \A b \in Links \cup {Splitter}, s \in ChainStreams :
             (b = Splitter \/ b[2] \in on) /\ s = Due(on, b) => ReadsAfter(b, s)'
  BY <1>1, <1>2
<1> QED BY <1>3 DEF PathKept

\* An operation that leaves the path alone.
LEMMA QuietKeepsPath ==
    ASSUME InOrder,
           \A b \in Links : RunsAfter(b)' <=> b \in running,
           \A b \in Links \cup {Splitter}, s \in ChainStreams : s = input[b] => ReadsAfter(b, s)'
    PROVE  PathKept'
<1>1. PICK on \in SUBSET Range(Chain) : on = Enabled
  BY DEF Enabled
<1>2. ASSUME NEW b \in Links
      PROVE  b \in running <=> b \in PathOf(on)
  <2>1. PICK l \in Range(Chain) : b = Link(l)
    BY DEF Links
  <2>2. b \in PathOf(on) <=> l \in on
    BY <2>1 DEF PathOf, Link, Splitter
  <2> QED BY <1>1, <2>1, <2>2 DEF Enabled
<1>3. \A b \in PathOf(on) : b \in Links \cup {Splitter} /\ input[b] = Due(on, b)
  BY <1>1, OrderIsDue DEF PathOf, Links
<1> QED BY <1>2, <1>3, LeadsInOrder

LEMMA QuietOutcome ==
    ASSUME InOrder, UNCHANGED <<input, running>>,
           \A k \in DOMAIN ui' :
               /\ \A b \in Links : ui'[k] # Stop(b) /\ ui'[k] # Start(b)
               /\ \A b, s : ui'[k] # Connect(b, s)
    PROVE  PathKept'
<1>1. \A b \in Links : RunsAfter(b)' <=> b \in running
  BY DEF RunsAfter, NoneOf, LastOf, Start, Stop
<1>2. ASSUME NEW b \in Links \cup {Splitter}, NEW s \in ChainStreams, s = input[b]
      PROVE  ReadsAfter(b, s)'
  <2>1. \A k \in DOMAIN ui' : ui'[k] \notin Connects(b)
    BY DEF Connects
  <2> QED BY <1>2, <2>1, ReadsThen
<1> QED BY <1>1, <1>2, QuietKeepsPath

\* The steps of a pause, one by one.
LEMMA PausedSteps ==
    ASSUME NEW S, NEW bs \in Seq(S), NEW T, NEW steps \in Seq(T)
    PROVE  LET n == Len(bs)
               m == Len(steps)
           IN  /\ DOMAIN Paused(bs, steps) = 1 .. 2 * n + m
               /\ \A i \in 1 .. n : Paused(bs, steps)[i] = Stop(bs[i])
               /\ \A i \in 1 .. m : Paused(bs, steps)[n + i] = steps[i]
               /\ \A i \in 1 .. n : Paused(bs, steps)[n + m + i] = Start(bs[i])
<1> DEFINE n == Len(bs)
           m == Len(steps)
           stop  == [i \in DOMAIN bs |-> Stop(bs[i])]
           start == [i \in DOMAIN bs |-> Start(bs[i])]
           U == {Stop(b) : b \in S} \cup {Start(b) : b \in S} \cup T
           front == stop \o steps
           all == front \o start
<1>1. n \in Nat /\ m \in Nat /\ DOMAIN bs = 1 .. n /\ DOMAIN steps = 1 .. m
  OBVIOUS
<1>2. stop \in Seq(U) /\ Len(stop) = n /\ \A i \in 1 .. n : stop[i] = Stop(bs[i])
  BY <1>1
<1>3. start \in Seq(U) /\ Len(start) = n /\ \A i \in 1 .. n : start[i] = Start(bs[i])
  BY <1>1
<1>4. steps \in Seq(U)
  OBVIOUS
<1>5. Paused(bs, steps) = all
  BY DEF Paused
<1> HIDE DEF stop, start, U, n, m
<1>6. /\ front \in Seq(U) /\ Len(front) = n + m
      /\ \A i \in 1 .. n + m : front[i] = IF i <= n THEN stop[i] ELSE steps[i - n]
  BY <1>1, <1>2, <1>4, ConcatProperties DEF m
<1> HIDE DEF front
<1>7. /\ all \in Seq(U) /\ Len(all) = n + m + n
      /\ \A i \in 1 .. n + m + n : all[i] = IF i <= n + m THEN front[i] ELSE start[i - (n + m)]
  <2>1. /\ all \in Seq(U) /\ Len(all) = Len(front) + Len(start)
        /\ \A i \in 1 .. Len(front) + Len(start) :
               all[i] = IF i <= Len(front) THEN front[i] ELSE start[i - Len(front)]
    BY <1>3, <1>6, ConcatProperties
  <2> HIDE DEF all
  <2> QED BY <1>1, <1>3, <1>6, <2>1
<1>8. DOMAIN all = 1 .. n + m + n
  BY <1>7, LenProperties
<1> HIDE DEF all
<1>9. ASSUME NEW i \in 1 .. n
      PROVE  all[i] = Stop(bs[i]) /\ all[n + m + i] = Start(bs[i])
  <2>1. i \in 1 .. n + m + n /\ i <= n + m /\ i \in 1 .. n + m /\ i <= n
    BY <1>1
  <2>2. n + m + i \in 1 .. n + m + n /\ ~(n + m + i <= n + m) /\ (n + m + i) - (n + m) = i
    BY <1>1
  <2> QED BY <1>2, <1>3, <1>6, <1>7, <2>1, <2>2
<1>10. ASSUME NEW i \in 1 .. m
       PROVE  all[n + i] = steps[i]
  <2>1. n + i \in 1 .. n + m + n /\ n + i \in 1 .. n + m /\ n + i <= n + m /\ ~(n + i <= n) /\ (n + i) - n = i
    BY <1>1
  <2> QED BY <1>6, <1>7, <2>1
<1>11. n + m + n = 2 * n + m
  BY <1>1
<1> QED BY <1>5, <1>8, <1>9, <1>10, <1>11 DEF n, m

\* Changing the rate stops and starts preprocessors, and connects nothing.
LEMMA RateKeepsPath ==
    ASSUME TypeOK, InOrder, UNCHANGED <<input, running>>, ui' \in SetSampleRate
    PROVE  PathKept'
<1> DEFINE rated == {Link("dcBlock")} \cup {RxVfo(v) : v \in live}
           on == rated \cap running
<1>1. PICK bs \in SetToSeqs(on) : ui' = Paused(bs, Paused(<<FftSink>>, <<>>))
  BY DEF SetSampleRate
<1>2. bs \in Seq(on)
  <2>1. IsFiniteSet(on)
    BY RatedIsFinite
  <2>2. Cardinality(on) \in Nat
    BY <2>1, FS_CardinalityType
  <2>3. bs \in [1 .. Cardinality(on) -> on]
    BY <1>1 DEF SetToSeqs
  <2> HIDE DEF on
  <2> QED BY <2>2, <2>3
<1> DEFINE n == Len(bs)
           fft == Paused(<<FftSink>>, <<>>)
<1>3. fft = <<Stop(FftSink), Start(FftSink)>>
  <2>1. [i \in DOMAIN <<FftSink>> |-> Stop(<<FftSink>>[i])] = <<Stop(FftSink)>>
    OBVIOUS
  <2>2. [i \in DOMAIN <<FftSink>> |-> Start(<<FftSink>>[i])] = <<Start(FftSink)>>
    OBVIOUS
  <2>3. <<Stop(FftSink)>> \o <<>> = <<Stop(FftSink)>>
    OBVIOUS
  <2>4. fft = <<Stop(FftSink)>> \o <<Start(FftSink)>>
    BY <2>1, <2>2, <2>3 DEF Paused
  <2> HIDE DEF fft
  <2> QED BY <2>4, Joined
<1> HIDE DEF on, fft
<1>4. /\ DOMAIN ui' = 1 .. 2 * n + 2
      /\ \A i \in 1 .. n : ui'[i] = Stop(bs[i])
      /\ ui'[n + 1] = Stop(FftSink) /\ ui'[n + 2] = Start(FftSink)
      /\ \A i \in 1 .. n : ui'[n + 2 + i] = Start(bs[i])
  <2>1. fft \in Seq({Stop(FftSink), Start(FftSink)}) /\ Len(fft) = 2
    BY <1>3
  <2>2. /\ DOMAIN ui' = 1 .. 2 * n + 2
        /\ \A i \in 1 .. n : ui'[i] = Stop(bs[i])
        /\ ui'[n + 1] = fft[1] /\ ui'[n + 2] = fft[2]
        /\ \A i \in 1 .. n : ui'[n + 2 + i] = Start(bs[i])
    <3>1. ui' = Paused(bs, fft)
      BY <1>1 DEF fft
    <3>2. /\ DOMAIN Paused(bs, fft) = 1 .. 2 * Len(bs) + Len(fft)
          /\ \A i \in 1 .. Len(bs) : Paused(bs, fft)[i] = Stop(bs[i])
          /\ \A i \in 1 .. Len(fft) : Paused(bs, fft)[Len(bs) + i] = fft[i]
          /\ \A i \in 1 .. Len(bs) : Paused(bs, fft)[Len(bs) + Len(fft) + i] = Start(bs[i])
      <4> DEFINE T == {Stop(FftSink), Start(FftSink)}
      <4>1. fft \in Seq(T)
        BY <2>1
      <4> HIDE DEF T
      <4> QED BY <1>2, <4>1, PausedSteps
    <3>3. 1 \in 1 .. Len(fft) /\ 2 \in 1 .. Len(fft)
      BY <2>1
    <3> QED BY <2>1, <3>1, <3>2, <3>3
  <2>3. fft[1] = Stop(FftSink) /\ fft[2] = Start(FftSink)
    BY <1>3
  <2> QED BY <2>2, <2>3
<1>5. n \in Nat /\ \A i \in 1 .. n : bs[i] \in on
  BY <1>2
<1> HIDE DEF n
<1>6. ASSUME NEW k \in DOMAIN ui'
      PROVE  \/ k \in 1 .. n /\ ui'[k] = Stop(bs[k])
             \/ ui'[k] \in {Stop(FftSink), Start(FftSink)}
             \/ k > n + 2 /\ \E i \in 1 .. n : ui'[k] = Start(bs[i])
  <2>1. CASE k > n + 2
    <3>1. k - (n + 2) \in 1 .. n /\ k = n + 2 + (k - (n + 2))
      BY <1>4, <1>5, <2>1
    <3> QED BY <1>4, <2>1, <3>1
  <2>2. CASE k <= n + 2
    <3>1. k \in 1 .. n \/ k = n + 1 \/ k = n + 2
      BY <1>4, <1>5, <2>2
    <3> QED BY <1>4, <3>1
  <2> QED BY <1>4, <1>5, <2>1, <2>2
<1>7. ASSUME NEW b \in Links
      PROVE  RunsAfter(b)' <=> b \in running
  <2>0. b # FftSink
    BY DEF Links, Link, FftSink
  <2>1. CASE \E i \in 1 .. n : bs[i] = b
    <3>1. PICK i \in 1 .. n : bs[i] = b
      BY <2>1
    <3>2. n + 2 + i \in DOMAIN ui' /\ ui'[n + 2 + i] = Start(b)
      BY <1>4, <1>5, <3>1
    <3>3. \A k \in DOMAIN ui' : n + 2 + i < k => ui'[k] # Stop(b)
      BY <1>5, <1>6, <2>0, StepsDiffer
    <3>4. RunsAfter(b)'
      BY <3>2, <3>3 DEF RunsAfter, LastOf, Start, Stop
    <3>5. b \in running
      BY <1>5, <3>1 DEF on
    <3> QED BY <3>4, <3>5
  <2>2. CASE ~\E i \in 1 .. n : bs[i] = b
    <3>1. \A k \in DOMAIN ui' : ui'[k] # Stop(b) /\ ui'[k] # Start(b)
      BY <1>6, <2>0, <2>2, StepsDiffer
    <3> QED BY <3>1 DEF RunsAfter, NoneOf, LastOf, Start, Stop
  <2> QED BY <2>1, <2>2
<1>8. ASSUME NEW b \in Links \cup {Splitter}, NEW s \in ChainStreams, s = input[b]
      PROVE  ReadsAfter(b, s)'
  <2>0. \A c : Start(c) \notin Connects(b) /\ Stop(c) \notin Connects(b)
    BY OthersConnect
  <2>1. ASSUME NEW k \in DOMAIN ui'
        PROVE  ui'[k] \notin Connects(b)
    <3>1. \E c : ui'[k] = Stop(c) \/ ui'[k] = Start(c)
      BY <1>6
    <3> QED BY <2>0, <3>1
  <2> QED BY <1>8, <2>1, ReadsThen
<1> QED BY <1>7, <1>8, QuietKeepsPath

\* Each operation, begun with the path in order, will end so.
LEMMA BeginKeepsPath ==
    ASSUME Len(Chain) <= 2, IInv, InOrder, Begin
    PROVE  PathKept'
<1>1. UNCHANGED <<input, running>> /\ ui' \in Operations /\ TypeOK
  BY DEF Begin, IInv
<1>2. ASSUME NEW v, \/ ui' \in {AddVfo(v), RemoveVfo(v), ReconfigureVfo(v)}
                    \/ ui' \in {AttachHandler(v), DetachHandler(v), DeleteDecoder(v)}
      PROVE  PathKept'
  <2> DEFINE Other(k) == \/ ui'[k] \in {Create(v), Delete(v), Bind(VfoIn(v)), Unbind(VfoIn(v)), Register(v), Discard(v)}
                         \/ \E b \in {Splitter, RxVfo(v), Handler(v)} : ui'[k] \in {Start(b), Stop(b)}
  <2>1. ASSUME NEW k \in DOMAIN ui'
        PROVE  Other(k)
    BY <1>2 DEF AddVfo, RemoveVfo, ReconfigureVfo, AttachHandler, DetachHandler, DeleteDecoder
  <2>2. ASSUME NEW k, Other(k)
        PROVE  /\ \A b \in Links : ui'[k] # Stop(b) /\ ui'[k] # Start(b)
               /\ \A b, s : ui'[k] # Connect(b, s)
    <3>1. CASE ui'[k] \in {Create(v), Delete(v), Bind(VfoIn(v)), Unbind(VfoIn(v)), Register(v), Discard(v)}
      BY <3>1 DEF Create, Delete, Bind, Unbind, Register, Discard, Stop, Start, Connect
    <3>2. CASE \E b \in {Splitter, RxVfo(v), Handler(v)} : ui'[k] \in {Start(b), Stop(b)}
      <4>1. PICK c \in {Splitter, RxVfo(v), Handler(v)} : ui'[k] \in {Start(c), Stop(c)}
        BY <3>2
      <4>2. c \notin Links
        BY DEF Links, Link, Splitter, RxVfo, Handler
      <4> QED BY <4>1, <4>2, StepsDiffer
    <3> QED BY <2>2, <3>1, <3>2
  <2> HIDE DEF Other
  <2> QED BY <1>1, <2>1, <2>2, QuietOutcome
<1>3. ASSUME NEW l \in Range(Chain), ui' = SetBlockEnabled(l)
      PROVE  PathKept'
  <2>0. InputOf(l) \in ChainStreams /\ ReaderOf(l) \in Links \cup {Splitter}
    <3>1. Splitter \in Links \cup {Splitter} /\ Input \in ChainStreams
      BY DEF ChainStreams
    <3> QED BY <1>1, <3>1, InputIsReadable
  <2>1. CASE Link(l) \notin running
    <3>1. l \notin Enabled /\ ui' = EnableBlock(l)
      BY <1>3, <2>1 DEF Enabled, SetBlockEnabled
    <3>2. PICK on : on = Enabled \cup {l}
      OBVIOUS
    <3>3. /\ on \in SUBSET Range(Chain)
          /\ ReaderOf(l) \in PathOf(on) /\ ReaderOf(l) # Link(l)
          /\ Due(on, Link(l)) = InputOf(l)
          /\ Due(on, ReaderOf(l)) = LinkOut(l)
          /\ \A b \in PathOf(on) \ {ReaderOf(l), Link(l)} : Due(on, b) = input[b]
      BY <3>1, <3>2, EnableOrder
    <3>4. /\ \A b \in Links : RunsAfter(b)' <=> b \in running \cup {Link(l)}
          /\ \A b \in Links \cup {Splitter}, s \in ChainStreams :
                 s = (IF b = Link(l) THEN InputOf(l)
                      ELSE IF b = ReaderOf(l) THEN LinkOut(l) ELSE input[b]) => ReadsAfter(b, s)'
      BY <1>1, <2>0, <3>1, <3>3, EnableOutcome
    <3>5. ASSUME NEW b \in Links
          PROVE  b \in running \cup {Link(l)} <=> b \in PathOf(on)
      <4>1. PICK k \in Range(Chain) : b = Link(k)
        BY DEF Links
      <4>2. b \in PathOf(on) <=> k \in on
        BY <4>1 DEF PathOf, Link, Splitter
      <4>3. b = Link(l) <=> k = l
        BY <4>1 DEF Link
      <4> QED BY <3>2, <4>1, <4>2, <4>3 DEF Enabled
    <3>6. ASSUME NEW b \in PathOf(on), NEW s \in ChainStreams, s = Due(on, b)
          PROVE  ReadsAfter(b, s)'
      <4>1. b \in Links \cup {Splitter}
        BY <3>3 DEF PathOf, Links
      <4> QED BY <3>3, <3>4, <3>6, <4>1
    <3> QED BY <3>3, <3>4, <3>5, <3>6, LeadsInOrder
  <2>2. CASE Link(l) \in running
    <3>1. l \in Enabled /\ ui' = DisableBlock(l)
      BY <1>3, <2>2 DEF Enabled, SetBlockEnabled
    <3>2. PICK on : on = Enabled \ {l}
      OBVIOUS
    <3>3. /\ on \in SUBSET Range(Chain)
          /\ ReaderOf(l) \in PathOf(on)
          /\ Due(on, ReaderOf(l)) = InputOf(l)
          /\ \A b \in PathOf(on) \ {ReaderOf(l)} : Due(on, b) = input[b]
      BY <3>1, <3>2, DisableOrder
    <3>4. ReaderOf(l) # Link(l)
      BY <3>2, <3>3 DEF PathOf, Link, Splitter
    <3>5. /\ \A b \in Links : RunsAfter(b)' <=> b \in running \ {Link(l)}
          /\ \A b \in Links \cup {Splitter}, s \in ChainStreams :
                 s = (IF b = ReaderOf(l) THEN InputOf(l) ELSE input[b]) => ReadsAfter(b, s)'
      BY <1>1, <2>0, <3>1, <3>4, DisableOutcome
    <3>6. ASSUME NEW b \in Links
          PROVE  b \in running \ {Link(l)} <=> b \in PathOf(on)
      <4>1. PICK k \in Range(Chain) : b = Link(k)
        BY DEF Links
      <4>2. b \in PathOf(on) <=> k \in on
        BY <4>1 DEF PathOf, Link, Splitter
      <4>3. b = Link(l) <=> k = l
        BY <4>1 DEF Link
      <4> QED BY <3>2, <4>1, <4>2, <4>3 DEF Enabled
    <3>7. ASSUME NEW b \in PathOf(on), NEW s \in ChainStreams, s = Due(on, b)
          PROVE  ReadsAfter(b, s)'
      <4>1. b \in Links \cup {Splitter}
        BY <3>3 DEF PathOf, Links
      <4> QED BY <3>3, <3>5, <3>7, <4>1
    <3> QED BY <3>3, <3>5, <3>6, <3>7, LeadsInOrder
  <2> QED BY <2>1, <2>2
<1>4. CASE ui' \in SetSampleRate
  BY <1>1, <1>4, RateKeepsPath
<1> QED BY <1>1, <1>2, <1>3, <1>4 DEF Operations

\* With nothing left to do, the path is as it was to become.
LEMMA NothingLeft ==
    ASSUME ui = <<>>
    PROVE  PathKept <=> InOrder
<1>1. \A b : RunsAfter(b) <=> b \in running
  BY DEF RunsAfter, NoneOf, LastOf
<1>2. \A b, s : ReadsAfter(b, s) <=> input[b] = s
  BY DEF ReadsAfter, NoneOf, LastOf
<1>3. \A on : \A b \in Links : b \in PathOf(on) <=> b[2] \in on
  BY DEF Links, Link, PathOf, Splitter
<1>4. \A b \in Links : b \in running <=> b[2] \in Enabled
  BY DEF Links, Link, Enabled
<1>5. ASSUME PathKept
      PROVE  InOrder
  <2>1. PICK on \in SUBSET Range(Chain) :
            /\ \A b \in Links : b \in running <=> b[2] \in on
            /\ \A b \in Links \cup {Splitter}, s \in ChainStreams :
                   (b = Splitter \/ b[2] \in on) /\ s = Due(on, b) => input[b] = s
    BY <1>1, <1>2, <1>5 DEF PathKept
  <2>2. on = Enabled
    <3>1. \A l \in Range(Chain) : Link(l) \in Links /\ Link(l)[2] = l
      BY DEF Links, Link
    <3>2. \A l \in Range(Chain) : l \in on <=> Link(l) \in running
      BY <2>1, <3>1
    <3> QED BY <3>2 DEF Enabled
  <2>3. ASSUME NEW b \in PathOf(on)
        PROVE  input[b] = Due(on, b)
    <3>1. b \in Links \cup {Splitter} /\ (b = Splitter \/ b[2] \in on)
      BY DEF PathOf, Links, Link
    <3> QED BY <2>1, <3>1, DueIsReadable
  <2> QED BY <2>2, <2>3, OrderIsDue
<1>6. ASSUME InOrder
      PROVE  PathKept
  <2>1. PICK on \in SUBSET Range(Chain) : on = Enabled
    BY DEF Enabled
  <2>2. \A b \in PathOf(on) : input[b] = Due(on, b)
    BY <1>6, <2>1, OrderIsDue
  <2>3. \A b \in Links \cup {Splitter} : b = Splitter \/ b[2] \in on => b \in PathOf(on)
    BY <1>3 DEF PathOf
  <2>4. /\ \A b \in Links : RunsAfter(b) <=> b[2] \in on
        /\ \A b \in Links \cup {Splitter}, s \in ChainStreams :
               (b = Splitter \/ b[2] \in on) /\ s = Due(on, b) => ReadsAfter(b, s)
    BY <1>1, <1>2, <1>4, <2>1, <2>2, <2>3
  <2> QED BY <2>4 DEF PathKept
<1> QED BY <1>5, <1>6

LEMMA NextKeepsPath ==
    ASSUME Len(Chain) <= 2, IInv, PathKept, [Next]_vars
    PROVE  PathKept'
<1>1. CASE UNCHANGED vars
  <2>1. UNCHANGED <<ui, running, input>>
    BY <1>1 DEF vars
  <2> QED BY <2>1, WorkersKeepPath
<1>2. CASE Workers
  <2>1. UNCHANGED <<ui, running, input>>
    BY <1>2 DEF Workers
  <2> QED BY <2>1, WorkersKeepPath
<1>3. CASE Begin
  <2>1. InOrder
    BY <1>3, NothingLeft DEF Begin
  <2> QED BY <1>3, <2>1, BeginKeepsPath
<1>4. CASE UiWorks
  BY <1>4, StepKeepsPath
<1> QED BY <1>1, <1>2, <1>3, <1>4 DEF Next

\* With two preprocessors that may be on, the path is in order after every
\* operation, whatever workers and operations interleave (chain.h:71).  With
\* three it is not: the run frontend_chain shows how.
THEOREM PathTheorem ==
    ASSUME Len(Chain) <= 2
    PROVE  Spec => []PathInOrder
<1>1. Init => IInv /\ PathKept
  <2>1. Init => ui = <<>> /\ InOrder
    BY DEF Init
  <2> QED BY <2>1, InitIInv, NothingLeft
<1>2. IInv /\ PathKept /\ [Next]_vars => IInv' /\ PathKept'
  BY NextIInv, NextKeepsPath
<1>3. PathKept => PathInOrder
  BY NothingLeft DEF PathInOrder
<1> QED BY <1>1, <1>2, <1>3, PTL DEF Spec

=============================================================================
