------------------------- MODULE HoldLifecycleProofs -------------------------
(***************************************************************************)
(* Safety of the hold list for every set of frequencies, windows and       *)
(* bounds.                                                                 *)
(***************************************************************************)
EXTENDS HoldLifecycle, FiniteSetTheorems, TLAPS

\* Runtime rows exist for every entry and only for ids already minted.
RuntimeCoversEntries ==
    /\ DOMAIN entries \subseteq DOMAIN runtime
    /\ \A i \in DOMAIN runtime : i <= idCounter

\* Who may be reading what.
ReadersSound ==
    \A i \in DOMAIN instances :
        /\ instances[i].stream # "freed"
        /\ instances[i].stream = "held" => instances[i].bound /\ i \in DOMAIN vfos
        /\ instances[i].stream = "own" => ~ instances[i].bound

\* What preTick establishes for the rest of its frame.
PreTickDone == pc # "ui" => \A i \in active : KeepsDecoder(i, snap)

\* What tick establishes for postTick.
TickDone == pc = "post" => Anchored

\* What the binder tracks has its VFO; after preTick it has its instance.
ActiveServed == active \subseteq DOMAIN vfos /\ (pc # "ui" => active \subseteq DOMAIN instances)

\* A binding without an instance is one the menu deleted: until preTick the
\* binder still tracks it, afterwards its entry is about to be served again.
Orphan(i) == i \in bindings /\ i \notin DOMAIN instances

BindingsSound ==
    /\ \A i \in DOMAIN instances : instances[i].bound <=> i \in bindings
    /\ \A i \in Ids : Orphan(i) =>
           /\ i \in DOMAIN vfos
           /\ pc = "ui" => i \in active
           /\ pc # "ui" => KeepsDecoder(i, snap)

IInv ==
    /\ TypeOK
    /\ RuntimeCoversEntries
    /\ VfoActiveIsReal
    /\ ReadersSound
    /\ BoundIsTracked
    /\ PreTickDone
    /\ TickDone
    /\ ActiveServed
    /\ BindingsSound

-----------------------------------------------------------------------------
\* The list is finite, so its entries can be counted.
LEMMA EntriesFinite ==
    ASSUME IInv
    PROVE  IsFiniteSet(DOMAIN entries)
<1>1. IsFiniteSet(1 .. MaxId)
  BY FS_Interval, HoldAssumption
<1> QED BY <1>1, FS_Subset DEF IInv, TypeOK, Ids

LEMMA InitIInv == Init => IInv
<1> SUFFICES ASSUME Init PROVE IInv
  OBVIOUS
<1>1. TypeOK
  <2>1. DOMAIN entries = {}
    BY DEF Init
  <2>2. Cardinality(DOMAIN entries) = 0
    BY <2>1, FS_EmptySet
  <2> QED BY <2>2, HoldAssumption DEF Init, TypeOK, Ids
<1>2. /\ RuntimeCoversEntries /\ VfoActiveIsReal /\ ReadersSound /\ BoundIsTracked
      /\ PreTickDone /\ TickDone /\ ActiveServed /\ BindingsSound
  BY DEF Init, RuntimeCoversEntries, VfoActiveIsReal, ReadersSound, BoundIsTracked, PreTickDone,
         TickDone, ActiveServed, BindingsSound, Orphan
<1> QED BY <1>1, <1>2 DEF IInv

-----------------------------------------------------------------------------
(* One lemma per action. *)

USE DEF Ids

LEMMA AddHoldIInv ==
    ASSUME IInv, NEW freq \in Freqs, NEW bw \in Bandwidths, NEW decoder \in Decoders,
           AddHold(freq, bw, decoder)
    PROVE  IInv'
<1> DEFINE id == idCounter + 1
<1> DEFINE e  == [freq |-> freq, bw |-> bw, decoder |-> decoder, enabled |-> TRUE]
<1>1. /\ id \in Ids /\ id \notin DOMAIN runtime /\ id \notin DOMAIN entries
      /\ e \in Entry
      /\ idCounter' = id
      /\ entries' = [i \in DOMAIN entries \cup {id} |-> IF i = id THEN e ELSE entries[i]]
      /\ runtime' = [i \in DOMAIN runtime \cup {id} |-> IF i = id THEN FALSE ELSE runtime[i]]
      /\ pc = "ui"
      /\ UNCHANGED <<vfos, active, bindings, instances, tuned, snap, pc, savedInstances,
                     pluginEnabled, moduleLoaded>>
  BY HoldAssumption DEF AddHold, IInv, TypeOK, RuntimeCoversEntries, Entry, binderVars, configVars
<1>2. \A i \in DOMAIN entries : Abs(entries[i].freq - e.freq) > DupTol
                               /\ Abs(e.freq - entries[i].freq) > DupTol
  <2>1. \A i \in DOMAIN entries : entries[i].freq \in Int
    BY HoldAssumption DEF IInv, TypeOK, Entry
  <2>2. \A i \in DOMAIN entries : Abs(entries[i].freq - freq) > DupTol
    BY DEF AddHold
  <2>3. \A x, y \in Int : Abs(x - y) = Abs(y - x)
    BY DEF Abs
  <2> QED BY <2>1, <2>2, <2>3, HoldAssumption
<1> HIDE DEF id, e
<1>3. TypeOK'
  <2>1. DOMAIN entries' \subseteq Ids /\ \A i \in DOMAIN entries' : entries'[i] \in Entry
    BY <1>1 DEF IInv, TypeOK
  <2>2. DOMAIN runtime' \subseteq Ids /\ \A i \in DOMAIN runtime' : runtime'[i] \in BOOLEAN
    BY <1>1 DEF IInv, TypeOK
  <2>3. idCounter' \in 0 .. MaxId + 1
    BY <1>1, HoldAssumption
  <2>4. (\A i, j \in DOMAIN entries :
             i # j => Abs(entries[i].freq - entries[j].freq) > DupTol)'
    BY <1>1, <1>2 DEF IInv, TypeOK
  <2>5. Cardinality(DOMAIN entries') <= MaxEntries
    <3>1. IsFiniteSet(DOMAIN entries)
      BY EntriesFinite
    <3>2. Cardinality(DOMAIN entries \cup {id}) = Cardinality(DOMAIN entries) + 1
      BY <1>1, <3>1, FS_AddElement
    <3>3. Cardinality(DOMAIN entries) \in Nat /\ Cardinality(DOMAIN entries) < MaxEntries
      BY <3>1, FS_CardinalityType DEF AddHold
    <3> QED BY <1>1, <3>2, <3>3, HoldAssumption
  <2> QED BY <1>1, <2>1, <2>2, <2>3, <2>4, <2>5 DEF IInv, TypeOK
<1>4. RuntimeCoversEntries'
  <2>1. id = idCounter + 1
    BY DEF id
  <2> QED BY <1>1, <2>1 DEF IInv, TypeOK, RuntimeCoversEntries
<1>5. VfoActiveIsReal'
  BY <1>1 DEF IInv, TypeOK, VfoActiveIsReal
<1>6. ReadersSound' /\ BoundIsTracked' /\ PreTickDone' /\ TickDone'
  BY <1>1 DEF IInv, ReadersSound, BoundIsTracked, PreTickDone, TickDone
<1>7. ActiveServed' /\ BindingsSound'
  BY <1>1 DEF IInv, ActiveServed, BindingsSound, Orphan
<1> QED BY <1>3, <1>4, <1>5, <1>6, <1>7 DEF IInv

LEMMA EditHoldIInv ==
    ASSUME IInv, NEW i \in Ids, RemoveHold(i) \/ ToggleHold(i)
    PROVE  IInv'
<1>1. /\ DOMAIN entries' \subseteq DOMAIN entries
      /\ \A j \in DOMAIN entries' : entries'[j] \in Entry /\ entries'[j].freq = entries[j].freq
      /\ pc = "ui"
      /\ UNCHANGED <<idCounter, runtime, vfos, active, bindings, instances, tuned, snap, pc,
                     savedInstances, pluginEnabled, moduleLoaded>>
  <2>1. CASE RemoveHold(i)
    BY <2>1 DEF RemoveHold, Without, IInv, TypeOK, binderVars, configVars
  <2>2. CASE ToggleHold(i)
    <3>1. i \in DOMAIN entries /\ entries[i] \in Entry
      BY <2>2 DEF ToggleHold, IInv, TypeOK
    <3>2. /\ [entries[i] EXCEPT !.enabled = ~ entries[i].enabled] \in Entry
          /\ [entries[i] EXCEPT !.enabled = ~ entries[i].enabled].freq = entries[i].freq
      BY <3>1 DEF Entry
    <3>3. entries' = [entries EXCEPT ![i] = [entries[i] EXCEPT !.enabled = ~ entries[i].enabled]]
      BY <2>2 DEF ToggleHold
    <3> QED BY <2>2, <3>2, <3>3 DEF ToggleHold, IInv, TypeOK, binderVars, configVars
  <2> QED BY <2>1, <2>2
<1>2. TypeOK'
  <2>1. Cardinality(DOMAIN entries') <= Cardinality(DOMAIN entries)
    BY <1>1, EntriesFinite, FS_Subset
  <2>2. IsFiniteSet(DOMAIN entries')
    BY <1>1, EntriesFinite, FS_Subset
  <2>3. Cardinality(DOMAIN entries') \in Int /\ Cardinality(DOMAIN entries) \in Int
    BY <2>2, EntriesFinite, FS_CardinalityType
  <2>4. Cardinality(DOMAIN entries') <= MaxEntries
    BY <2>1, <2>3, HoldAssumption DEF IInv, TypeOK
  <2> QED BY <1>1, <2>4 DEF IInv, TypeOK
<1>3. RuntimeCoversEntries' /\ VfoActiveIsReal'
  BY <1>1 DEF IInv, RuntimeCoversEntries, VfoActiveIsReal
<1>4. ReadersSound' /\ BoundIsTracked' /\ PreTickDone' /\ TickDone'
  BY <1>1 DEF IInv, ReadersSound, BoundIsTracked, PreTickDone, TickDone
<1>5. ActiveServed' /\ BindingsSound'
  BY <1>1 DEF IInv, ActiveServed, BindingsSound, Orphan
<1> QED BY <1>2, <1>3, <1>4, <1>5 DEF IInv

LEMMA MenuIInv ==
    ASSUME IInv,
           MenuChangeOther \/ \E i \in Ids : MenuDeleteInstance(i) \/ MenuToggleInstance(i)
    PROVE  IInv'
<1>1. /\ DOMAIN instances' \subseteq DOMAIN instances
      /\ \A j \in DOMAIN instances' :
            /\ instances'[j] \in Instance
            /\ instances'[j].bound = instances[j].bound
            /\ \/ instances'[j].stream \in {"none", instances[j].stream}
               \/ instances'[j].stream = "own" /\ ~ instances[j].bound
               \/ instances'[j].stream = "held" /\ instances[j].bound /\ j \in DOMAIN vfos
  <2>1. CASE MenuChangeOther
    BY <2>1 DEF MenuChangeOther, IInv, TypeOK
  <2>2. ASSUME NEW i \in Ids, MenuDeleteInstance(i)
        PROVE  <1>1!:
    BY <2>2 DEF MenuDeleteInstance, Without, IInv, TypeOK
  <2>3. ASSUME NEW i \in Ids, MenuToggleInstance(i)
        PROVE  <1>1!:
    <3> DEFINE on  == ~ instances[i].enabled
    <3> DEFINE new == IF on THEN StartPipeline(i, [instances[i] EXCEPT !.enabled = TRUE])
                            ELSE StopPipeline([instances[i] EXCEPT !.enabled = FALSE])
    <3>1. i \in DOMAIN instances /\ instances' = [instances EXCEPT ![i] = new]
      BY <2>3 DEF MenuToggleInstance
    <3>2. instances[i] \in Instance
      BY <3>1 DEF IInv, TypeOK
    <3>3. /\ new \in Instance
          /\ new.bound = instances[i].bound
          /\ \/ new.stream \in {"none", instances[i].stream}
             \/ new.stream = "own" /\ ~ instances[i].bound
             \/ new.stream = "held" /\ instances[i].bound /\ i \in DOMAIN vfos
      BY <3>2 DEF StartPipeline, StopPipeline, Instance, Streams
    <3> HIDE DEF new
    <3> QED BY <3>1, <3>3 DEF IInv, TypeOK
  <2> QED BY <2>1, <2>2, <2>3
<1>2. /\ pc = "ui"
      /\ UNCHANGED <<entries, idCounter, runtime, vfos, active, bindings, tuned, snap, pc,
                     moduleLoaded>>
      /\ pluginEnabled' \subseteq Ids
      /\ DOMAIN savedInstances' \subseteq Ids
      /\ \A i \in DOMAIN savedInstances' : savedInstances'[i] \in BOOLEAN
  <2>1. CASE MenuChangeOther
    BY <2>1 DEF MenuChangeOther, SaveInstances, IInv, TypeOK, Instance, holdVars, binderVars
  <2>2. ASSUME NEW i \in Ids, MenuDeleteInstance(i)
        PROVE  <1>2!:
    BY <2>2 DEF MenuDeleteInstance, SaveInstances, Without, IInv, TypeOK, Instance,
                holdVars, binderVars
  <2>3. ASSUME NEW i \in Ids, MenuToggleInstance(i)
        PROVE  <1>2!:
    <3>1. pluginEnabled' \subseteq Ids
      BY <2>3 DEF MenuToggleInstance, IInv, TypeOK
    <3> QED BY <2>3, <3>1 DEF MenuToggleInstance, IInv, TypeOK, holdVars, binderVars
  <2> QED BY <2>1, <2>2, <2>3
<1>3. TypeOK'
  BY <1>1, <1>2 DEF IInv, TypeOK
<1>4. ReadersSound' /\ BoundIsTracked'
  BY <1>1, <1>2 DEF IInv, ReadersSound, BoundIsTracked
<1>5. RuntimeCoversEntries' /\ VfoActiveIsReal' /\ PreTickDone' /\ TickDone'
  BY <1>2 DEF IInv, RuntimeCoversEntries, VfoActiveIsReal, PreTickDone, TickDone
<1>6. ActiveServed'
  BY <1>2 DEF IInv, ActiveServed
<1>7. BindingsSound'
  <2>1. \A i \in DOMAIN instances' : instances'[i].bound <=> i \in bindings'
    BY <1>1, <1>2 DEF IInv, BindingsSound
  <2>2. \A i \in bindings : i \in DOMAIN instances => i \in active
    BY DEF IInv, BindingsSound, BoundIsTracked
  <2>3. \A i \in Ids : Orphan(i)' => i \in active
    BY <1>2, <2>2 DEF IInv, BindingsSound, Orphan
  <2> QED BY <1>2, <2>1, <2>3 DEF IInv, BindingsSound, ActiveServed
<1> QED BY <1>3, <1>4, <1>5, <1>6, <1>7 DEF IInv

LEMMA RetuneIInv ==
    ASSUME IInv, NEW w \in Spectra, Retune(w)
    PROVE  IInv'
<1>1. /\ tuned' \in Spectra
      /\ UNCHANGED <<entries, idCounter, runtime, vfos, active, bindings, instances, snap, pc,
                     savedInstances, pluginEnabled, moduleLoaded>>
  BY DEF Retune, holdVars, binderVars, configVars
<1>2. TypeOK'
  BY <1>1 DEF IInv, TypeOK
<1>3. RuntimeCoversEntries' /\ VfoActiveIsReal' /\ ReadersSound' /\ BoundIsTracked'
  BY <1>1 DEF IInv, RuntimeCoversEntries, VfoActiveIsReal, ReadersSound, BoundIsTracked
<1>4. PreTickDone' /\ TickDone'
  BY <1>1 DEF IInv, PreTickDone, KeepsDecoder, TickDone, Anchored
<1>5. ActiveServed' /\ BindingsSound'
  BY <1>1 DEF IInv, ActiveServed, BindingsSound, Orphan, KeepsDecoder
<1> QED BY <1>2, <1>3, <1>4, <1>5 DEF IInv

LEMMA PreTickIInv == IInv /\ PreTick => IInv'
<1> SUFFICES ASSUME IInv, PreTick PROVE IInv'
  OBVIOUS
<1> DEFINE drop == {i \in active : ~ KeepsDecoder(i, tuned)}
<1> DEFINE gone == {i \in active \ drop : i \notin DOMAIN instances}
<1>1. /\ instances' = [i \in DOMAIN instances \ drop |-> instances[i]]
      /\ bindings' = bindings \ drop
      /\ active' = active \ (drop \cup gone)
      /\ snap' = tuned
      /\ pc' = "tick"
      /\ UNCHANGED <<entries, idCounter, runtime, vfos, tuned, savedInstances,
                     pluginEnabled, moduleLoaded>>
  BY DEF PreTick, Without, holdVars, configVars
<1> HIDE DEF drop, gone
<1>2. TypeOK'
  BY <1>1 DEF IInv, TypeOK
<1>3. RuntimeCoversEntries' /\ VfoActiveIsReal' /\ ReadersSound'
  BY <1>1 DEF IInv, RuntimeCoversEntries, VfoActiveIsReal, ReadersSound
<1>4. BoundIsTracked'
  BY <1>1 DEF IInv, BoundIsTracked, gone
<1>5. PreTickDone' /\ TickDone'
  BY <1>1 DEF PreTickDone, drop, KeepsDecoder, TickDone
<1>6. ActiveServed'
  BY <1>1 DEF IInv, ActiveServed, gone, drop
<1>7. BindingsSound'
  <2>1. \A i \in DOMAIN instances' : instances'[i].bound <=> i \in bindings'
    BY <1>1 DEF IInv, BindingsSound
  <2>2. \A i \in Ids : Orphan(i)' => Orphan(i) /\ i \in active /\ i \notin drop
    BY <1>1 DEF IInv, BindingsSound, Orphan, PreTick
  <2>3. \A i \in Ids : Orphan(i)' => KeepsDecoder(i, tuned)
    BY <2>2 DEF drop
  <2> QED BY <1>1, <2>1, <2>2, <2>3 DEF IInv, BindingsSound, KeepsDecoder
<1> QED BY <1>2, <1>3, <1>4, <1>5, <1>6, <1>7 DEF IInv

(***************************************************************************)
(* The heart of the matter: what Tick deletes is disjoint from what the    *)
(* binder still tracks, because preTick dropped the rest on the same data. *)
(***************************************************************************)
LEMMA DestroyedUntracked ==
    ASSUME IInv, pc = "tick"
    PROVE  Destroyed \cap active = {}
BY DEF IInv, PreTickDone, Destroyed, Wanted, KeepsDecoder

LEMMA TickIInv ==
    ASSUME IInv, Tick
    PROVE  IInv'
<1>1. /\ pc = "tick" /\ pc' = "post"
      /\ runtime' = [i \in DOMAIN entries |-> i \in Wanted]
      /\ vfos' = [i \in (DOMAIN vfos \ Destroyed) \cup Wanted |->
                     IF i \in Wanted THEN Anchor(entries[i]) ELSE vfos[i]]
      /\ UNCHANGED <<entries, idCounter, active, bindings, tuned, snap, savedInstances,
                     pluginEnabled, moduleLoaded>>
  BY DEF Tick, binderVars, configVars
<1>2. instances' = [i \in DOMAIN instances |->
           IF i \in Destroyed /\ instances[i].stream = "held"
           THEN [instances[i] EXCEPT !.stream = "freed"] ELSE instances[i]]
  BY DEF Tick
<1>3. \A i \in DOMAIN instances : instances[i].stream = "held" => i \notin Destroyed
  BY <1>1, DestroyedUntracked DEF IInv, ReadersSound, BoundIsTracked
<1>4. DOMAIN instances' = DOMAIN instances /\ \A i \in DOMAIN instances : instances'[i] = instances[i]
  BY <1>2, <1>3
<1>5. Wanted \subseteq DOMAIN entries /\ Wanted \subseteq Ids
  BY DEF Wanted, IInv, TypeOK
<1>6. \A i \in Ids : i \in Destroyed <=> i \in DOMAIN vfos /\ i \notin Wanted
  BY DEF Destroyed, Wanted, HasVfo, IInv, VfoActiveIsReal, RuntimeCoversEntries, TypeOK
<1>8. \A i \in Ids : i \in DOMAIN vfos' <=> i \in Wanted
  BY <1>1, <1>5, <1>6
<1>9. TypeOK'
  <2>2. \A i \in Wanted : Anchor(entries[i]) \in [offset: Int, bw: Nat]
    <3> SUFFICES ASSUME NEW i \in Wanted
                 PROVE  Anchor(entries[i]) \in [offset: Int, bw: Nat]
      OBVIOUS
    <3>1. entries[i].freq \in Int /\ entries[i].bw \in Nat
      BY <1>5, HoldAssumption DEF IInv, TypeOK, Entry
    <3>2. snap.center \in Int
      BY HoldAssumption DEF IInv, TypeOK
    <3> QED BY <3>1, <3>2, HoldAssumption DEF Anchor, EffectiveBw
  <2>3. DOMAIN vfos' \subseteq Ids /\ \A i \in DOMAIN vfos' : vfos'[i] \in [offset: Int, bw: Nat]
    BY <1>1, <1>5, <2>2 DEF IInv, TypeOK
  <2>4. DOMAIN runtime' \subseteq Ids /\ \A i \in DOMAIN runtime' : runtime'[i] \in BOOLEAN
    BY <1>1 DEF IInv, TypeOK
  <2> QED BY <1>1, <1>4, <2>3, <2>4 DEF IInv, TypeOK
<1>10. RuntimeCoversEntries'
  BY <1>1 DEF IInv, RuntimeCoversEntries
<1>11. VfoActiveIsReal'
  BY <1>1, <1>5, <1>8 DEF VfoActiveIsReal
<1>12. ReadersSound'
  <2>1. \A i \in DOMAIN instances : instances[i].stream = "held" => i \in DOMAIN vfos'
    BY <1>1, <1>3 DEF IInv, ReadersSound
  <2> QED BY <1>4, <2>1 DEF IInv, ReadersSound
<1>13. BoundIsTracked' /\ PreTickDone'
  BY <1>1, <1>4 DEF IInv, BoundIsTracked, PreTickDone, KeepsDecoder
<1>14. TickDone'
  <2> SUFFICES ASSUME NEW i \in DOMAIN vfos'
               PROVE  /\ i \in DOMAIN entries
                      /\ vfos'[i].offset + snap.center = entries[i].freq
                      /\ vfos'[i].bw = IF entries[i].decoder = "Native_RTL433"
                                       THEN RequiredBw ELSE entries[i].bw
    BY <1>1 DEF TickDone, Anchored
  <2>1. i \in Wanted /\ i \in DOMAIN entries /\ vfos'[i] = Anchor(entries[i])
    BY <1>1, <1>5, <1>8 DEF IInv, TypeOK
  <2>2. entries[i].freq \in Int /\ snap.center \in Int
    BY <2>1, HoldAssumption DEF IInv, TypeOK, Entry
  <2> QED BY <2>1, <2>2 DEF Anchor, EffectiveBw, Bindable
<1>15. ActiveServed'
  BY <1>1, <1>4, DestroyedUntracked DEF IInv, ActiveServed, TypeOK
<1>16. BindingsSound'
  <2>1. \A i \in Ids : Orphan(i) => i \in Wanted
    BY <1>1 DEF IInv, BindingsSound, KeepsDecoder, Wanted
  <2>2. \A i \in Ids : Orphan(i) => i \in DOMAIN vfos'
    BY <1>1, <1>6, <2>1 DEF IInv, BindingsSound
  <2> QED BY <1>1, <1>4, <2>2 DEF IInv, BindingsSound, Orphan, KeepsDecoder
<1> QED BY <1>9, <1>10, <1>11, <1>12, <1>13, <1>14, <1>15, <1>16 DEF IInv

LEMMA PostTickIInv ==
    ASSUME IInv, PostTick
    PROVE  IInv' /\ bindings' = {i \in DOMAIN instances' : instances'[i].bound}
<1> SUFFICES IInv' /\ bindings' = {i \in DOMAIN instances' : instances'[i].bound}
  OBVIOUS
<1> DEFINE ready   == {i \in DOMAIN entries \ active :
                          entries[i].enabled /\ Bindable(entries[i]) /\ i \in DOMAIN vfos}
<1> DEFINE created == {i \in ready : moduleLoaded /\ i \notin DOMAIN instances}
<1> DEFINE adopted == ready \cap DOMAIN instances
<1>1. /\ instances' = [i \in DOMAIN instances \cup created |->
                          IF i \in created THEN NewInstance(i, TRUE) ELSE instances[i]]
      /\ bindings' = (bindings \ ready) \cup created
      /\ active' = active \cup created \cup adopted
      /\ pc' = "ui"
      /\ UNCHANGED <<entries, idCounter, runtime, vfos, tuned, snap, savedInstances,
                     pluginEnabled, moduleLoaded>>
  BY DEF PostTick, holdVars, configVars
<1>2. /\ created \subseteq Ids /\ adopted \subseteq Ids
      /\ created \subseteq DOMAIN vfos
  BY DEF IInv, TypeOK
<1>3. \A i \in created : /\ NewInstance(i, TRUE) \in Instance
                         /\ NewInstance(i, TRUE).bound
                         /\ NewInstance(i, TRUE).stream = "held"
  BY <1>2 DEF NewInstance, StartPipeline, Instance, Streams
<1> HIDE DEF ready, created, adopted
<1>4. TypeOK'
  <2>1. DOMAIN instances' \subseteq Ids /\ \A i \in DOMAIN instances' : instances'[i] \in Instance
    BY <1>1, <1>2, <1>3 DEF IInv, TypeOK
  <2> QED BY <1>1, <1>2, <2>1 DEF IInv, TypeOK
<1>5. RuntimeCoversEntries' /\ VfoActiveIsReal' /\ PreTickDone' /\ TickDone'
  BY <1>1 DEF IInv, RuntimeCoversEntries, VfoActiveIsReal, PreTickDone, TickDone
<1>6. ReadersSound'
  BY <1>1, <1>2, <1>3 DEF IInv, ReadersSound
<1>7. BoundIsTracked'
  BY <1>1, <1>3 DEF IInv, BoundIsTracked
<1>8. ActiveServed'
  BY <1>1, <1>2 DEF IInv, ActiveServed, ready, adopted
<1>9. /\ bindings' = {i \in DOMAIN instances' : instances'[i].bound}
      /\ BindingsSound'
  <2>1. \A i \in Ids : Orphan(i) => i \in ready
    BY DEF IInv, BindingsSound, Orphan, ActiveServed, KeepsDecoder, WantsVfo, PostTick, ready
  <2>2. \A i \in ready : i \in DOMAIN instances => ~ instances[i].bound
    BY DEF IInv, BoundIsTracked, ready
  <2>3. created \cap DOMAIN instances = {} /\ created \subseteq ready
    BY DEF created
  <2>4. bindings \subseteq Ids
    BY DEF IInv, TypeOK
  <2>5. \A i \in bindings \ ready : i \in DOMAIN instances /\ instances[i].bound
    BY <2>1, <2>4 DEF IInv, BindingsSound, Orphan
  <2>6. \A i \in DOMAIN instances' : instances'[i].bound <=> i \in bindings'
    BY <1>1, <1>3, <2>2, <2>3 DEF IInv, BindingsSound
  <2>7. bindings' \subseteq DOMAIN instances'
    BY <1>1, <2>5
  <2> QED BY <2>6, <2>7 DEF BindingsSound, Orphan
<1> QED BY <1>4, <1>5, <1>6, <1>7, <1>8, <1>9 DEF IInv

LEMMA RestartIInv == IInv /\ Restart => IInv'
<1> SUFFICES ASSUME IInv, Restart PROVE IInv'
  OBVIOUS
<1> DEFINE created == {j \in DOMAIN savedInstances : moduleLoaded'}
<1> DEFINE fresh(i) == IF savedInstances[i] THEN NewInstance(i, FALSE)
                       ELSE [bound |-> FALSE, enabled |-> FALSE, stream |-> "none"]
<1>1. /\ pc = "ui"
      /\ moduleLoaded' \in BOOLEAN
      /\ instances' = [i \in created |-> fresh(i)]
      /\ pluginEnabled' \subseteq pluginEnabled
      /\ idCounter' \in {0} \cup {n + 1 : n \in DOMAIN entries}
      /\ \A n \in DOMAIN entries : n < idCounter'
      /\ runtime' = [i \in DOMAIN entries |-> FALSE]
      /\ DOMAIN vfos' = {} /\ active' = {} /\ bindings' = {}
      /\ UNCHANGED <<entries, tuned, snap, pc, savedInstances>>
  BY DEF Restart
<1>2. \A i \in created : /\ fresh(i) \in Instance
                         /\ ~ fresh(i).bound
                         /\ fresh(i).stream \in {"none", "own"}
  BY DEF NewInstance, StartPipeline, Instance, Streams
<1>3. created \subseteq Ids
  BY DEF IInv, TypeOK
<1> HIDE DEF created, fresh
<1>4. /\ DOMAIN instances' \subseteq Ids
      /\ \A i \in DOMAIN instances' : /\ instances'[i] \in Instance
                                     /\ ~ instances'[i].bound
                                     /\ instances'[i].stream \in {"none", "own"}
  BY <1>1, <1>2, <1>3
<1>5. TypeOK'
  <2>1. idCounter' \in 0 .. MaxId + 1
    BY <1>1, HoldAssumption DEF IInv, TypeOK
  <2>2. DOMAIN runtime' \subseteq Ids /\ \A i \in DOMAIN runtime' : runtime'[i] \in BOOLEAN
    BY <1>1 DEF IInv, TypeOK
  <2> QED BY <1>1, <1>4, <2>1, <2>2 DEF IInv, TypeOK
<1>6. RuntimeCoversEntries'
  <2>1. idCounter' \in Int /\ DOMAIN entries \subseteq Int
    BY <1>1 DEF IInv, TypeOK
  <2> QED BY <1>1, <2>1 DEF RuntimeCoversEntries
<1>7. VfoActiveIsReal'
  BY <1>1 DEF VfoActiveIsReal
<1>8. ReadersSound' /\ BoundIsTracked' /\ PreTickDone' /\ TickDone'
  BY <1>1, <1>4 DEF ReadersSound, BoundIsTracked, PreTickDone, TickDone
<1>9. ActiveServed' /\ BindingsSound'
  BY <1>1, <1>4 DEF ActiveServed, BindingsSound, Orphan
<1> QED BY <1>5, <1>6, <1>7, <1>8, <1>9 DEF IInv

LEMMA StutterIInv == IInv /\ UNCHANGED vars => IInv'
BY DEF IInv, TypeOK, RuntimeCoversEntries, VfoActiveIsReal, ReadersSound, BoundIsTracked,
       PreTickDone, TickDone, Anchored, KeepsDecoder, ActiveServed, BindingsSound, Orphan, vars,
       holdVars, binderVars, configVars

(***************************************************************************)
(* IInv is inductive.                                                      *)
(***************************************************************************)
LEMMA NextIInv == IInv /\ [Next]_vars => IInv'
<1> SUFFICES ASSUME IInv, [Next]_vars PROVE IInv'
  OBVIOUS
<1>1. CASE Operator
  BY <1>1, AddHoldIInv, EditHoldIInv, MenuIInv DEF Operator
<1>2. CASE Environment
  BY <1>2, RetuneIInv DEF Environment
<1>3. CASE Frame
  BY <1>3, PreTickIInv, TickIInv, PostTickIInv DEF Frame
<1>4. CASE Restart
  BY <1>4, RestartIInv
<1>5. CASE UNCHANGED vars
  BY <1>5, StutterIInv
<1> QED BY <1>1, <1>2, <1>3, <1>4, <1>5 DEF Next

(***************************************************************************)
(* Type correctness of every variable of the hold subsystem.               *)
(***************************************************************************)
THEOREM TypeCorrect == Spec => []TypeOK
<1>1. Spec => []IInv
  BY InitIInv, NextIInv, PTL DEF Spec
<1>2. IInv => TypeOK
  BY DEF IInv
<1> QED BY <1>1, <1>2, PTL

(***************************************************************************)
(* After every tick the hold list, its runtime records and VFOManager      *)
(* agree on which VFOs exist and where they are.                           *)
(***************************************************************************)
THEOREM ListTruthful == Spec => []ListMatchesVfos
<1>1. Spec => []IInv
  BY InitIInv, NextIInv, PTL DEF Spec
<1>2. IInv => ListMatchesVfos
  BY DEF IInv, TickDone, ListMatchesVfos
<1> QED BY <1>1, <1>2, PTL

(***************************************************************************)
(* No decoder thread is attached to the stream of a deleted VFO; in the    *)
(* second half of a frame only wanted entries are decoded, the binder      *)
(* reaches every instance it built, and none of these outlives its VFO,    *)
(* for any entries, any retuning in mid-frame and any operator.            *)
(***************************************************************************)
THEOREM DecodersAreWanted == Spec => []DecodersWanted
<1>1. Spec => []IInv
  BY InitIInv, NextIInv, PTL DEF Spec
<1>2. IInv => DecodersWanted
  BY DEF IInv, ReadersSound, BoundIsTracked, BoundHasVfo, ActiveServed, PreTickDone, KeepsDecoder, DecodersWanted
<1> QED BY <1>1, <1>2, PTL

(***************************************************************************)
(* When a frame ends, exactly the instances built in bound mode have a     *)
(* binding.                                                                *)
(***************************************************************************)
THEOREM BindingsExact == Spec => BindingsExactAfterFrame
<1>1. IInv /\ [Next]_vars =>
        [PostTick => bindings' = {i \in DOMAIN instances' : instances'[i].bound}]_vars
  BY PostTickIInv
<1> QED BY InitIInv, NextIInv, <1>1, PTL DEF Spec, BindingsExactAfterFrame

-----------------------------------------------------------------------------
(* The refinement, step by step. *)

Reading == {i \in DOMAIN instances : instances[i].stream \in {"held", "freed"}}

USE DEF Reading

LEMMA OperatorRefines ==
    ASSUME IInv, Operator
    PROVE  [Custody!Next]_<<DOMAIN vfos, Reading>>
<1>1. CASE \E freq \in Freqs, bw \in Bandwidths, decoder \in Decoders : AddHold(freq, bw, decoder)
  BY <1>1 DEF AddHold
<1>2. CASE MenuChangeOther
  BY <1>2 DEF MenuChangeOther
<1>3. ASSUME NEW i \in Ids, RemoveHold(i) \/ ToggleHold(i)
      PROVE  UNCHANGED <<DOMAIN vfos, Reading>>
  BY <1>3 DEF RemoveHold, ToggleHold
<1>4. ASSUME NEW i \in Ids, MenuDeleteInstance(i)
      PROVE  Custody!Detach({i})
  BY <1>4 DEF MenuDeleteInstance, Without, Custody!Detach
<1>5. ASSUME NEW i \in Ids, MenuToggleInstance(i)
      PROVE  Custody!Detach({i}) \/ Custody!Attach({i}) \/ UNCHANGED <<DOMAIN vfos, Reading>>
  <2> DEFINE new == IF ~ instances[i].enabled
                    THEN StartPipeline(i, [instances[i] EXCEPT !.enabled = TRUE])
                    ELSE StopPipeline([instances[i] EXCEPT !.enabled = FALSE])
  <2>1. /\ i \in DOMAIN instances /\ instances' = [instances EXCEPT ![i] = new]
        /\ vfos' = vfos
    BY <1>5 DEF MenuToggleInstance
  <2>2. instances[i] \in Instance
    BY <2>1 DEF IInv, TypeOK
  <2>3. \/ new.stream = "none"
        \/ new.stream = instances[i].stream
        \/ new.stream = "own" /\ instances[i].stream = "none"
        \/ new.stream = "held" /\ i \in DOMAIN vfos
    BY <2>2 DEF StartPipeline, StopPipeline, Instance, Streams
  <2> HIDE DEF new
  <2>4. CASE new.stream = "none"
    BY <2>1, <2>4 DEF Custody!Detach
  <2>5. CASE new.stream = instances[i].stream
    BY <2>1, <2>5
  <2>6. CASE new.stream = "own" /\ instances[i].stream = "none"
    BY <2>1, <2>6
  <2>7. CASE new.stream = "held" /\ i \in DOMAIN vfos
    BY <2>1, <2>7 DEF Custody!Attach
  <2> QED BY <2>3, <2>4, <2>5, <2>6, <2>7
<1>6. \A i \in Ids : {i} \in SUBSET Ids
  OBVIOUS
<1> QED BY <1>1, <1>2, <1>3, <1>4, <1>5, <1>6 DEF Operator, Custody!Next

LEMMA FrameRefines ==
    ASSUME IInv, Frame
    PROVE  Custody!Next
<1>1. CASE PreTick
  <2> DEFINE drop == {i \in active : ~ KeepsDecoder(i, tuned)}
  <2>1. drop \in SUBSET Ids
    BY DEF IInv, TypeOK
  <2>2. Custody!Detach(drop)
    BY <1>1 DEF PreTick, Without, Custody!Detach
  <2> HIDE DEF drop
  <2> QED BY <2>1, <2>2 DEF Custody!Next, Custody!Detach
<1>2. CASE Tick
  <2>1. /\ pc = "tick"
        /\ vfos' = [i \in (DOMAIN vfos \ Destroyed) \cup Wanted |->
                       IF i \in Wanted THEN Anchor(entries[i]) ELSE vfos[i]]
        /\ instances' = [i \in DOMAIN instances |->
               IF i \in Destroyed /\ instances[i].stream = "held"
               THEN [instances[i] EXCEPT !.stream = "freed"] ELSE instances[i]]
    BY <1>2 DEF Tick
  <2>2. Destroyed \cap Reading = {}
    BY <2>1, DestroyedUntracked DEF IInv, ReadersSound, BoundIsTracked
  <2>3. Reading' = Reading
    BY <2>1, <2>2
  <2>4. Wanted \in SUBSET Ids /\ Destroyed \in SUBSET Ids
    BY DEF Wanted, Destroyed, IInv, TypeOK
  <2>5. Custody!Reshape(Wanted, Destroyed)
    BY <2>1, <2>2, <2>3 DEF Custody!Reshape
  <2> QED BY <2>4, <2>5 DEF Custody!Next
<1>3. CASE PostTick
  <2> DEFINE ready   == {i \in DOMAIN entries \ active :
                            entries[i].enabled /\ Bindable(entries[i]) /\ i \in DOMAIN vfos}
  <2> DEFINE created == {i \in ready : moduleLoaded /\ i \notin DOMAIN instances}
  <2>1. /\ instances' = [i \in DOMAIN instances \cup created |->
                            IF i \in created THEN NewInstance(i, TRUE) ELSE instances[i]]
        /\ vfos' = vfos
    BY <1>3 DEF PostTick
  <2>2. created \in SUBSET Ids /\ created \subseteq DOMAIN vfos
    BY DEF IInv, TypeOK
  <2>3. \A i \in created : NewInstance(i, TRUE).stream = "held"
    BY <2>2 DEF NewInstance, StartPipeline
  <2> HIDE DEF created
  <2>4. Custody!Attach(created)
    BY <2>1, <2>2, <2>3 DEF Custody!Attach
  <2>5. created \in SUBSET Ids
    BY <2>2
  <2> QED BY <2>4, <2>5 DEF Custody!Next, Custody!Attach
<1> QED BY <1>1, <1>2, <1>3 DEF Frame

LEMMA RestartRefines ==
    ASSUME IInv, Restart
    PROVE  Custody!Next
<1> DEFINE created == {j \in DOMAIN savedInstances : moduleLoaded'}
<1> DEFINE fresh(i) == IF savedInstances[i] THEN NewInstance(i, FALSE)
                       ELSE [bound |-> FALSE, enabled |-> FALSE, stream |-> "none"]
<1>1. DOMAIN vfos' = {} /\ instances' = [i \in created |-> fresh(i)]
  BY DEF Restart
<1>2. \A i \in created : fresh(i).stream \in {"none", "own"}
  BY DEF NewInstance, StartPipeline
<1> HIDE DEF created, fresh
<1>3. Custody!Stop
  BY <1>1, <1>2 DEF Custody!Stop
<1> QED BY <1>3 DEF Custody!Next

(***************************************************************************)
(* HoldLifecycle implements StreamCustody: every step of the program opens *)
(* and closes streams only when no reader is attached to a closed one.     *)
(***************************************************************************)
THEOREM Refinement == Spec => CustodySpec
<1>1. Init => Custody!Init
  BY DEF Init, Custody!Init
<1>2. IInv /\ [Next]_vars => [Custody!Next]_<<DOMAIN vfos, Reading>>
  <2> SUFFICES ASSUME IInv, [Next]_vars
               PROVE  [Custody!Next]_<<DOMAIN vfos, Reading>>
    OBVIOUS
  <2>1. CASE Operator
    BY <2>1, OperatorRefines
  <2>2. CASE Environment
    BY <2>2 DEF Environment, Retune
  <2>3. CASE Frame
    BY <2>3, FrameRefines
  <2>4. CASE Restart
    BY <2>4, RestartRefines
  <2>5. CASE UNCHANGED vars
    BY <2>5 DEF vars
  <2> QED BY <2>1, <2>2, <2>3, <2>4, <2>5 DEF Next
<1>3. IInv /\ [Next]_vars => [Custody!Next]_Custody!custodyVars
  BY <1>2 DEF Custody!custodyVars
<1> QED BY InitIInv, NextIInv, <1>1, <1>3, PTL DEF Spec, CustodySpec, Custody!Spec

=============================================================================
