---------------------------- MODULE HoldLifecycle ----------------------------
(***************************************************************************)
(* The multi-VFO hold list: HoldManager, HoldDecoderBinder and the binding *)
(* registry, wired together once per UI frame by main_window.cpp, with the *)
(* VFOs of VFOManager, the decoder instances of ModuleManager, and the     *)
(* sample handler of rtl433_decoder, which runs on a thread of its own and *)
(* reads the stream of the VFO it is attached to.                          *)
(*                                                                         *)
(* A frame is PreTick, Tick, PostTick, in that order, on the UI thread.    *)
(* The operator acts between frames (pc = "ui"); the source may be retuned *)
(* at any moment, in the middle of a frame too, by the scanner, rigctl or  *)
(* a fleet command.                                                        *)
(*                                                                         *)
(* The entry "h<n>" is the number n.  Its VFO ("Predator Hh<n>"), its      *)
(* decoder instance ("predator_hold_h<n>") and its binding are keyed by    *)
(* the same n, as the code derives the three names from the id.            *)
(***************************************************************************)
EXTENDS Integers, FiniteSets

CONSTANTS
    Freqs,          \* centre frequencies an operator may hold
    Bandwidths,     \* display bandwidths of a hit
    Spectra,        \* windows the source can be tuned to: [center, rate]
    RequiredBw,     \* requiredVfoBandwidth(Native_RTL433)
    MaxEntries,     \* max_entries_
    DupTol,         \* dup_tol_hz_
    MaxId           \* bound: no add once this many ids were minted

ASSUME HoldAssumption ==
    /\ Freqs \subseteq Int
    /\ Bandwidths \subseteq Nat
    /\ Spectra \subseteq [center: Int, rate: Nat]
    /\ Spectra # {}
    /\ RequiredBw \in Nat
    /\ MaxEntries \in Nat
    /\ DupTol \in Nat
    /\ MaxId \in Nat

Decoders == {"Radio_NBFM", "Native_RTL433"}
Entry    == [freq: Freqs, bw: Bandwidths, decoder: Decoders, enabled: BOOLEAN]
Ids      == 1 .. MaxId

\* Where an instance's handler gets its samples: nowhere (not running), the
\* held VFO's stream, the VFO a legacy instance owns, or freed memory.
Streams  == {"none", "held", "own", "freed"}
Instance == [bound: BOOLEAN, enabled: BOOLEAN, stream: Streams]

VARIABLES
    entries,        \* HoldManager::entries_, id -> entry; also the saved list
    idCounter,      \* HoldManager::id_counter_
    runtime,        \* HoldManager::runtime_, id -> vfo_active
    vfos,           \* VFOManager::vfos, the held ones: id -> offset and bandwidth
    active,         \* HoldDecoderBinder::active_
    instances,      \* ModuleManager::instances, the held ones
    bindings,       \* hold_binding_registry
    tuned,          \* the source's window now
    snap,           \* cfForHold, srForHold of the frame in progress
    pc,             \* what the UI thread does next: "ui", "tick", "post"
    savedInstances, \* config "moduleInstances": id -> enabled
    pluginEnabled,  \* plugin config: ids whose "enabled" flag is set
    moduleLoaded    \* whether the rtl433_decoder plugin is loaded

holdVars   == <<entries, idCounter, runtime>>
binderVars == <<active, bindings>>
configVars == <<savedInstances, pluginEnabled, moduleLoaded>>
vars == <<holdVars, vfos, binderVars, instances, tuned, snap, pc, configVars>>

-----------------------------------------------------------------------------
(* Helpers of the code *)

Abs(x) == IF x < 0 THEN -x ELSE x

Without(f, S) == [i \in DOMAIN f \ S |-> f[i]]

\* Which decoder kinds are mapped to a module.
Bindable(e) == e.decoder = "Native_RTL433"

\* The bandwidth both halves of the frame must use for an entry.
EffectiveBw(e) == IF Bindable(e) THEN RequiredBw ELSE e.bw

\* The whole passband lies inside the window; sides doubled to stay integral.
InBand(freq, bw, w) ==
    /\ 2 * freq + bw <= 2 * w.center + w.rate
    /\ 2 * freq - bw >= 2 * w.center - w.rate

WantsVfo(e, w) == e.enabled /\ InBand(e.freq, EffectiveBw(e), w)

\* The effects of starting and stopping an instance's sample pipeline.
StartPipeline(i, inst) ==
    IF inst.stream # "none" THEN inst
    ELSE [inst EXCEPT !.stream = IF ~ inst.bound THEN "own"
                                 ELSE IF i \in DOMAIN vfos THEN "held" ELSE "none"]

StopPipeline(inst) == [inst EXCEPT !.stream = "none"]

\* A module constructor: bound mode when a binding is registered, and then
\* enabled whatever the plugin's config says.
NewInstance(i, bound) ==
    LET fresh == [bound |-> bound, enabled |-> bound \/ i \in pluginEnabled, stream |-> "none"]
    IN IF fresh.enabled THEN StartPipeline(i, fresh) ELSE fresh

-----------------------------------------------------------------------------
Init ==
    /\ entries = << >>
    /\ idCounter = 0
    /\ runtime = << >>
    /\ vfos = << >>
    /\ active = {}
    /\ instances = << >>
    /\ bindings = {}
    /\ tuned \in Spectra
    /\ snap = tuned
    /\ pc = "ui"
    /\ savedInstances = << >>
    /\ pluginEnabled = {}
    /\ moduleLoaded \in BOOLEAN

-----------------------------------------------------------------------------
(* The operator, between frames *)

\* Mutant: a paused entry does not keep others away.
AddHoldOnPaused(freq, bw, decoder) ==
    /\ pc = "ui"
    /\ idCounter < MaxId
    /\ Cardinality(DOMAIN entries) < MaxEntries
    /\ \A i \in DOMAIN entries : entries[i].enabled => Abs(entries[i].freq - freq) > DupTol
    /\ LET id == idCounter + 1
           e  == [freq |-> freq, bw |-> bw, decoder |-> decoder, enabled |-> TRUE]
       IN /\ idCounter' = id
          /\ entries' = [i \in DOMAIN entries \cup {id} |-> IF i = id THEN e ELSE entries[i]]
          /\ runtime' = [i \in DOMAIN runtime \cup {id} |-> IF i = id THEN FALSE ELSE runtime[i]]
    /\ UNCHANGED <<vfos, binderVars, instances, tuned, snap, pc, configVars>>

\* "+ Hold": HoldManager::add, then save.
AddHold(freq, bw, decoder) ==
    /\ pc = "ui"
    /\ idCounter < MaxId
    /\ Cardinality(DOMAIN entries) < MaxEntries
    /\ \A i \in DOMAIN entries : Abs(entries[i].freq - freq) > DupTol
    /\ LET id == idCounter + 1
           e  == [freq |-> freq, bw |-> bw, decoder |-> decoder, enabled |-> TRUE]
       IN /\ idCounter' = id
          /\ entries' = [i \in DOMAIN entries \cup {id} |-> IF i = id THEN e ELSE entries[i]]
          /\ runtime' = [i \in DOMAIN runtime \cup {id} |-> IF i = id THEN FALSE ELSE runtime[i]]
    /\ UNCHANGED <<vfos, binderVars, instances, tuned, snap, pc, configVars>>

\* "Remove": pure data, the next frame tears things down.
RemoveHold(i) ==
    /\ pc = "ui"
    /\ i \in DOMAIN entries
    /\ entries' = Without(entries, {i})
    /\ UNCHANGED <<idCounter, runtime, vfos, binderVars, instances, tuned, snap, pc,
                   configVars>>

\* "Pause" / "Resume".
ToggleHold(i) ==
    /\ pc = "ui"
    /\ i \in DOMAIN entries
    /\ entries' = [entries EXCEPT ![i].enabled = ~ @]
    /\ UNCHANGED <<idCounter, runtime, vfos, binderVars, instances, tuned, snap, pc,
                   configVars>>

\* The module manager menu writes every live instance to the config, the
\* hold-bound ones included, whenever it adds or deletes one.
SaveInstances(insts) == savedInstances' = [i \in DOMAIN insts |-> insts[i].enabled]

\* The menu's delete button on a hold-bound instance: ModuleManager's
\* deleteInstance alone, neither the binder nor the registry hears of it.
MenuDeleteInstance(i) ==
    /\ pc = "ui"
    /\ i \in DOMAIN instances
    /\ instances' = Without(instances, {i})
    /\ SaveInstances(instances')
    /\ UNCHANGED <<holdVars, vfos, binderVars, tuned, snap, pc, pluginEnabled,
                   moduleLoaded>>

\* The menu adds or deletes an instance that has nothing to do with holds.
MenuChangeOther ==
    /\ pc = "ui"
    /\ SaveInstances(instances)
    /\ UNCHANGED <<holdVars, vfos, binderVars, instances, tuned, snap, pc,
                   pluginEnabled, moduleLoaded>>

\* The Enable / Disable button of an rtl433 instance.
MenuToggleInstance(i) ==
    /\ pc = "ui"
    /\ i \in DOMAIN instances
    /\ LET on == ~ instances[i].enabled IN
       /\ instances' = [instances EXCEPT ![i] =
              IF on THEN StartPipeline(i, [@ EXCEPT !.enabled = TRUE])
                    ELSE StopPipeline([@ EXCEPT !.enabled = FALSE])]
       /\ pluginEnabled' = IF on THEN pluginEnabled \cup {i} ELSE pluginEnabled \ {i}
    /\ UNCHANGED <<holdVars, vfos, binderVars, tuned, snap, pc, savedInstances,
                   moduleLoaded>>

\* The source is retuned, or its sample rate changed, at any point of a frame.
Retune(w) ==
    /\ w # tuned
    /\ tuned' = w
    /\ UNCHANGED <<holdVars, vfos, binderVars, instances, snap, pc, configVars>>

-----------------------------------------------------------------------------
(* The frame *)

\* Mutants: preTick ignores the pause button, or looks at the window of the
\* previous frame.
KeepsDecoderPaused(i, w) ==
    /\ i \in DOMAIN entries
    /\ Bindable(entries[i])
    /\ InBand(entries[i].freq, EffectiveBw(entries[i]), w)

KeepsDecoderStale(i, w) ==
    i \in DOMAIN entries /\ Bindable(entries[i]) /\ WantsVfo(entries[i], snap)

\* An active id whose entry keeps its decoder through this frame.
KeepsDecoder(i, w) ==
    i \in DOMAIN entries /\ Bindable(entries[i]) /\ WantsVfo(entries[i], w)

\* Mutants: the binder forgets without destroying, or never asks whether its
\* instances still exist.
PreTickForgets ==
    /\ pc = "ui"
    /\ active' = {i \in active : KeepsDecoder(i, tuned) /\ i \in DOMAIN instances}
    /\ snap' = tuned
    /\ pc' = "tick"
    /\ UNCHANGED <<holdVars, vfos, bindings, instances, tuned, configVars>>

PreTickTrusts ==
    /\ pc = "ui"
    /\ LET drop == {i \in active : ~ KeepsDecoder(i, tuned)}
       IN /\ instances' = Without(instances, drop)
          /\ bindings' = bindings \ drop
          /\ active' = active \ drop
    /\ snap' = tuned
    /\ pc' = "tick"
    /\ UNCHANGED <<holdVars, vfos, tuned, configVars>>

\* HoldDecoderBinder::preTick: instances whose VFO is about to go are deleted
\* first; instances deleted behind the binder's back are forgotten.
PreTick ==
    /\ pc = "ui"
    /\ LET drop == {i \in active : ~ KeepsDecoder(i, tuned)}
           gone == {i \in active \ drop : i \notin DOMAIN instances}
       IN /\ instances' = Without(instances, drop)
          /\ bindings' = bindings \ drop
          /\ active' = active \ (drop \cup gone)
    /\ snap' = tuned
    /\ pc' = "tick"
    /\ UNCHANGED <<holdVars, vfos, tuned, configVars>>

\* vfo_active after the reality check of existsCb.
HasVfo(i) == i \in DOMAIN runtime /\ runtime[i] /\ i \in DOMAIN vfos

\* Entries tick() will have a VFO for.
Wanted == {i \in DOMAIN entries : WantsVfo(entries[i], snap)}

\* Mutant: no garbage collection of removed entries.
DestroyedNoGC == {i \in DOMAIN entries \ Wanted : HasVfo(i)}

\* VFOs tick() deletes: paused or out of band, or their entry was removed (GC).
Destroyed ==
    {i \in DOMAIN entries \ Wanted : HasVfo(i)} \cup
    {i \in DOMAIN runtime \ DOMAIN entries : runtime[i]}

\* Where anchorCb puts a VFO.
Anchor(e) == [offset |-> e.freq - snap.center, bw |-> EffectiveBw(e)]

\* HoldManager::tick.  createVFO refuses a name that is taken only, and
\* createCb asks for that first.
Tick ==
    /\ pc = "tick"
    /\ runtime' = [i \in DOMAIN entries |-> i \in Wanted]
    /\ vfos' = [i \in (DOMAIN vfos \ Destroyed) \cup Wanted |->
                   IF i \in Wanted THEN Anchor(entries[i]) ELSE vfos[i]]
    /\ instances' = [i \in DOMAIN instances |->
           IF i \in Destroyed /\ instances[i].stream = "held"
           THEN [instances[i] EXCEPT !.stream = "freed"] ELSE instances[i]]
    /\ pc' = "post"
    /\ UNCHANGED <<entries, idCounter, binderVars, tuned, snap, configVars>>

\* Mutant: a failed create leaves its binding behind.
PostTickLeavesBinding ==
    /\ pc = "post"
    /\ LET ready   == {i \in DOMAIN entries \ active :
                          entries[i].enabled /\ Bindable(entries[i]) /\ i \in DOMAIN vfos}
           created == {i \in ready : moduleLoaded /\ i \notin DOMAIN instances}
       IN /\ instances' = [i \in DOMAIN instances \cup created |->
                              IF i \in created THEN NewInstance(i, TRUE) ELSE instances[i]]
          /\ bindings' = bindings \cup ready
          /\ active' = active \cup created \cup (ready \cap DOMAIN instances)
    /\ pc' = "ui"
    /\ UNCHANGED <<holdVars, vfos, tuned, snap, configVars>>

\* HoldDecoderBinder::postTick: spawn where the VFO exists; a create that
\* fails because the name is taken clears the binding and adopts the instance.
PostTick ==
    /\ pc = "post"
    /\ LET ready   == {i \in DOMAIN entries \ active :
                          entries[i].enabled /\ Bindable(entries[i]) /\ i \in DOMAIN vfos}
           created == {i \in ready : moduleLoaded /\ i \notin DOMAIN instances}
           adopted == ready \cap DOMAIN instances
       IN /\ instances' = [i \in DOMAIN instances \cup created |->
                              IF i \in created THEN NewInstance(i, TRUE) ELSE instances[i]]
          /\ bindings' = (bindings \ ready) \cup created
          /\ active' = active \cup created \cup adopted
    /\ pc' = "ui"
    /\ UNCHANGED <<holdVars, vfos, tuned, snap, configVars>>

-----------------------------------------------------------------------------
\* The program is closed and started again.  Instances named in the config are
\* created before the hold list is read, so no binding exists for them yet.
\* fromJson restarts the id counter above the ids it reads.
Restart ==
    /\ pc = "ui"
    /\ moduleLoaded' \in BOOLEAN
    /\ instances' = [i \in {j \in DOMAIN savedInstances : moduleLoaded'} |->
           IF savedInstances[i] THEN NewInstance(i, FALSE)
                                ELSE [bound |-> FALSE, enabled |-> FALSE, stream |-> "none"]]
    /\ pluginEnabled' = pluginEnabled \ {i \in DOMAIN instances' : ~ savedInstances[i]}
    /\ idCounter' \in {0} \cup {n + 1 : n \in DOMAIN entries}
    /\ \A n \in DOMAIN entries : n < idCounter'
    /\ runtime' = [i \in DOMAIN entries |-> FALSE]
    /\ vfos' = << >>
    /\ active' = {}
    /\ bindings' = {}
    /\ UNCHANGED <<entries, tuned, snap, pc, savedInstances>>

-----------------------------------------------------------------------------
Operator ==
    \/ \E freq \in Freqs, bw \in Bandwidths, decoder \in Decoders : AddHold(freq, bw, decoder)
    \/ \E i \in Ids : \/ RemoveHold(i)
                      \/ ToggleHold(i)
                      \/ MenuDeleteInstance(i)
                      \/ MenuToggleInstance(i)
    \/ MenuChangeOther

Environment == \E w \in Spectra : Retune(w)

Frame ==
    \/ PreTick
    \/ Tick
    \/ PostTick

Next == Operator \/ Environment \/ Frame \/ Restart

\* The UI thread draws frames for ever; nobody else owes anything.
Spec == Init /\ [][Next]_vars /\ WF_vars(Frame)

-----------------------------------------------------------------------------
(* Properties *)

\* Every variable keeps its type; the list keeps its limit, and its entries
\* their distance, through adds, removals and restarts.
TypeOK ==
    /\ DOMAIN entries \subseteq Ids /\ \A i \in DOMAIN entries : entries[i] \in Entry
    /\ Cardinality(DOMAIN entries) <= MaxEntries
    /\ \A i, j \in DOMAIN entries : i # j => Abs(entries[i].freq - entries[j].freq) > DupTol
    /\ idCounter \in 0 .. MaxId + 1
    /\ DOMAIN runtime \subseteq Ids /\ \A i \in DOMAIN runtime : runtime[i] \in BOOLEAN
    /\ DOMAIN vfos \subseteq Ids /\ \A i \in DOMAIN vfos : vfos[i] \in [offset: Int, bw: Nat]
    /\ active \subseteq Ids
    /\ DOMAIN instances \subseteq Ids /\ \A i \in DOMAIN instances : instances[i] \in Instance
    /\ bindings \subseteq Ids
    /\ tuned \in Spectra /\ snap \in Spectra
    /\ pc \in {"ui", "tick", "post"}
    /\ DOMAIN savedInstances \subseteq Ids
    /\ \A i \in DOMAIN savedInstances : savedInstances[i] \in BOOLEAN
    /\ pluginEnabled \subseteq Ids
    /\ moduleLoaded \in BOOLEAN

\* vfo_active of an entry says exactly whether its VFO exists.
VfoActiveIsReal == \A i \in Ids : (i \in DOMAIN runtime /\ runtime[i]) <=> i \in DOMAIN vfos

\* A held VFO sits on its entry's frequency, with its decoder's bandwidth.
Anchored ==
    \A i \in DOMAIN vfos :
        /\ i \in DOMAIN entries
        /\ vfos[i].offset + snap.center = entries[i].freq
        /\ vfos[i].bw = IF entries[i].decoder = "Native_RTL433" THEN RequiredBw ELSE entries[i].bw

(***************************************************************************)
(* After every tick the list, its runtime records and the VFO table agree: *)
(* no VFO leaked by a removal, none believed alive that is gone, and each  *)
(* where its entry wants it though the source moved under it.              *)
(***************************************************************************)
ListMatchesVfos == pc = "post" => VfoActiveIsReal /\ Anchored

\* A bound instance is known to the binder, so that a later preTick can
\* delete it: an untracked one would outlive its entry.
BoundIsTracked == \A i \in DOMAIN instances : instances[i].bound => i \in active

\* It goes before its VFO does.
BoundHasVfo == \A i \in DOMAIN instances : instances[i].bound => i \in DOMAIN vfos

(***************************************************************************)
(* No decoder's handler is ever attached to the stream of a VFO that was   *)
(* deleted, and no bound instance outlives its VFO; from preTick to the    *)
(* end of the frame nobody decodes an entry that was removed, is paused,   *)
(* or whose passband left the window; and what decodes stays within the    *)
(* binder's reach, whatever the module menu deleted.                       *)
(***************************************************************************)
DecodersWanted ==
    /\ \A i \in DOMAIN instances : instances[i].stream # "freed"
    /\ BoundIsTracked /\ BoundHasVfo
    /\ pc # "ui" => \A i \in DOMAIN instances : instances[i].stream = "held" =>
                        i \in DOMAIN entries /\ WantsVfo(entries[i], snap)

(***************************************************************************)
(* When a frame ends, the registry binds exactly the instances that were   *)
(* built in bound mode: no binding is left for a later instance of the     *)
(* same name to pick up, and none is missing.                              *)
(***************************************************************************)
BindingsExactAfterFrame ==
    [][PostTick => bindings' = {i \in DOMAIN instances' : instances'[i].bound}]_vars

(***************************************************************************)
(* A removed entry's VFO and bound decoder are released.                   *)
(***************************************************************************)
RemovedIsReleased ==
    \A i \in Ids : i \notin DOMAIN entries ~>
        \/ i \in DOMAIN entries
        \/ i \notin DOMAIN vfos /\ ~ (i \in DOMAIN instances /\ instances[i].bound)

(***************************************************************************)
(* An entry that stays enabled and in band has its VFO, and its decoder    *)
(* instance when it needs one, again and again, whatever the operator      *)
(* deletes from the module manager.                                        *)
(***************************************************************************)
WantedIsServed ==
    \A i \in Ids :
        <>[](moduleLoaded /\ i \in DOMAIN entries /\ WantsVfo(entries[i], tuned))
        => []<>(/\ i \in DOMAIN vfos
                /\ i \in DOMAIN entries /\ Bindable(entries[i]) => i \in DOMAIN instances)

\* HoldLifecycle implements StreamCustody: a held VFO is a stream, a handler
\* attached to it a reader, also when the stream is gone.
Custody == INSTANCE StreamCustody WITH
    live <- DOMAIN vfos,
    reading <- {i \in DOMAIN instances : instances[i].stream \in {"held", "freed"}}

CustodySpec == Custody!Spec

=============================================================================
