------------------------- MODULE OperatorRecordsProofs -------------------------
(***************************************************************************)
(* OperatorRecords for any operators, missions, overrides and writes under *)
(* way: the store agrees with memory wherever the order of the writes      *)
(* cannot matter, and the lock of a start keeps the missions apart.        *)
(***************************************************************************)
EXTENDS OperatorRecords, TLAPS

\* A write under way carries what memory holds, unless an older one may overtake it.
WritesCurrent ==
    \A w \in writes : \A r \in DOMAIN w \ unsure : w[r] = memory[r]

\* At most one start is under way, and the mission it ended is still the active one.
StartsAlone ==
    /\ \A s, t \in starting : s = t
    /\ \A s \in starting : s[2] = active /\ memory[Mission(active)] = "ended"

IInv == StoreAgrees /\ WritesCurrent /\ OneActive /\ StartsAlone

-----------------------------------------------------------------------------
(* The records *)

LEMMA RecordsDiffer ==
    /\ \A m \in Missions : Mission(m) \in Records
    /\ \A x \in Marks : Mark(x) \in Records
    /\ \A r \in Ranges : Block(r) \in Records
    /\ \A m, n \in Missions : Mission(m) = Mission(n) => m = n
    /\ \A m \in Missions, x \in Marks : Mission(m) # Mark(x)
    /\ \A m \in Missions, r \in Ranges : Mission(m) # Block(r)
<1>1. /\ \A m \in Missions : Mission(m) \in Records
      /\ \A x \in Marks : Mark(x) \in Records
      /\ \A r \in Ranges : Block(r) \in Records
  BY DEF Records
<1>2. \A m, n \in Missions : Mission(m) = Mission(n) => m = n
  BY DEF Mission
<1>3. \A m \in Missions, x \in Marks : Mission(m) # Mark(x)
  BY DEF Mission, Mark
<1>4. \A m \in Missions, r \in Ranges : Mission(m) # Block(r)
  BY DEF Mission, Block
<1> QED BY <1>1, <1>2, <1>3, <1>4

-----------------------------------------------------------------------------
(* Writes *)

\* A write of new values: memory takes them and a thread is handed the same.
LEMMA IssueKeeps ==
    ASSUME StoreAgrees, WritesCurrent, NEW S \in SUBSET Records, NEW v \in Values,
           Remember(Put(S, v)), Issue(Put(S, v)), rows' = rows
    PROVE  /\ memory' \in [Records -> Values]
           /\ \A r \in Records : memory'[r] = IF r \in S THEN v ELSE memory[r]
           /\ \A w \in writes' : DOMAIN w \subseteq Records /\ \A r \in DOMAIN w : w[r] \in Values
           /\ unsure' \subseteq Records
           /\ WritesCurrent'
           /\ \A r \in Records \ (Pending' \cup unsure') : rows'[r] = memory'[r]
<1> DEFINE w0 == Put(S, v)
<1>1. /\ DOMAIN w0 = S
      /\ \A r \in S : w0[r] = v
  BY DEF Put
<1>2. /\ writes' = writes \cup {w0}
      /\ unsure' = (unsure \ S) \cup (S \cap Pending)
      /\ memory' = [r \in Records |-> IF r \in S THEN v ELSE memory[r]]
  BY <1>1 DEF Issue, Remember
<1>3. /\ memory \in [Records -> Values]
      /\ \A w \in writes : DOMAIN w \subseteq Records /\ \A r \in DOMAIN w : w[r] \in Values
      /\ unsure \subseteq Records
      /\ \A r \in Records \ (Pending \cup unsure) : rows[r] = memory[r]
  BY DEF StoreAgrees, TypeOK
<1> HIDE DEF w0
<1>4. \A r \in Records : memory'[r] = IF r \in S THEN v ELSE memory[r]
  BY <1>2
<1>5. memory' \in [Records -> Values]
  BY <1>2, <1>3
<1>6. \A w \in writes' : DOMAIN w \subseteq Records /\ \A r \in DOMAIN w : w[r] \in Values
  BY <1>1, <1>2, <1>3
<1>7. WritesCurrent'
  <2> SUFFICES ASSUME NEW w \in writes', NEW r \in DOMAIN w, r \notin unsure'
               PROVE  w[r] = memory'[r]
    BY DEF WritesCurrent
  <2>1. r \in Records
    BY <1>6
  <2>2. CASE w = w0
    BY <1>1, <1>4, <2>1, <2>2
  <2>3. CASE w \in writes
    <3>1. r \in Pending
      BY <2>3 DEF Pending
    <3>2. r \notin S /\ r \notin unsure
      BY <1>2, <3>1
    <3> QED BY <1>4, <2>1, <2>3, <3>2 DEF WritesCurrent
  <2> QED BY <1>2, <2>2, <2>3
<1>8. ASSUME NEW r \in Records \ (Pending' \cup unsure')
      PROVE  rows'[r] = memory'[r]
  <2>1. Pending' = Pending \cup S
    BY <1>1, <1>2 DEF Pending
  <2>2. r \notin S /\ r \notin Pending /\ r \notin unsure
    BY <1>2, <2>1
  <2> QED BY <1>3, <1>4, <2>2
<1> QED BY <1>2, <1>3, <1>4, <1>5, <1>6, <1>7, <1>8

\* The end of a write, good or bad.
LEMMA WriteEndKeeps ==
    ASSUME StoreAgrees, WritesCurrent, NEW w \in writes, Written(w) \/ WriteFails(w),
           memory' = memory
    PROVE  /\ rows' \in [Records -> Values]
           /\ writes' \subseteq writes
           /\ unsure' \subseteq Records
           /\ WritesCurrent'
           /\ \A r \in Records \ (Pending' \cup unsure') : rows'[r] = memory'[r]
<1>1. /\ rows \in [Records -> Values]
      /\ \A u \in writes : DOMAIN u \subseteq Records /\ \A r \in DOMAIN u : u[r] \in Values
      /\ unsure \subseteq Records
      /\ \A r \in Records \ (Pending \cup unsure) : rows[r] = memory[r]
  BY DEF StoreAgrees, TypeOK
<1>2. writes' = writes \ {w} /\ unsure \subseteq unsure'
  BY DEF Written, WriteFails
<1>3. Pending \subseteq Pending' \cup DOMAIN w
  BY <1>2 DEF Pending
<1>4. WritesCurrent'
  BY <1>2 DEF WritesCurrent
<1>5. CASE Written(w)
  <2>1. /\ unsure' = unsure
        /\ rows' = [r \in Records |-> IF r \in DOMAIN w THEN w[r] ELSE rows[r]]
    BY <1>5 DEF Written
  <2>2. ASSUME NEW r \in Records \ (Pending' \cup unsure')
        PROVE  rows'[r] = memory'[r]
    <3>1. CASE r \in DOMAIN w
      BY <2>1, <3>1 DEF WritesCurrent
    <3>2. CASE r \notin DOMAIN w
      BY <1>1, <1>3, <2>1, <3>2
    <3> QED BY <3>1, <3>2
  <2> QED BY <1>1, <1>2, <1>4, <2>1, <2>2
<1>6. CASE WriteFails(w)
  <2>1. unsure' = unsure \cup DOMAIN w /\ rows' = rows
    BY <1>6 DEF WriteFails
  <2> QED BY <1>1, <1>2, <1>3, <1>4, <2>1
<1> QED BY <1>5, <1>6

-----------------------------------------------------------------------------
(* The invariant *)

LEMMA InitIInv == Init => IInv
<1> SUFFICES ASSUME Init PROVE IInv
  OBVIOUS
<1>1. /\ memory = None /\ rows = None
      /\ active = NoMission /\ resumed = {} /\ starting = {} /\ writes = {} /\ unsure = {}
  BY DEF Init
<1>2. None \in [Records -> Values] /\ \A m \in Missions : None[Mission(m)] # "active"
  BY RecordsDiffer DEF None, Values
<1> QED BY <1>1, <1>2 DEF IInv, StoreAgrees, TypeOK, WritesCurrent, OneActive, StartsAlone

\* A call that writes v to the records S and leaves the missions' state as it is
\* but for those records.
LEMMA CallKeeps ==
    ASSUME IInv, NEW S \in SUBSET Records, NEW v \in Values,
           Remember(Put(S, v)), Issue(Put(S, v)), rows' = rows, resumed' = resumed,
           active' \in Missions \cup {NoMission}, starting' \subseteq Operators \X Missions,
           \A m \in Missions :
               IF Mission(m) \in S THEN v = "active" => m = active'
               ELSE memory[Mission(m)] = "active" => m = active' \/ m \in resumed,
           StartsAlone'
    PROVE  IInv'
<1>1. resumed \subseteq Missions /\ rows \in [Records -> Values]
  BY DEF IInv, StoreAgrees, TypeOK
<1>2. /\ memory' \in [Records -> Values]
      /\ \A r \in Records : memory'[r] = IF r \in S THEN v ELSE memory[r]
      /\ \A w \in writes' : DOMAIN w \subseteq Records /\ \A r \in DOMAIN w : w[r] \in Values
      /\ unsure' \subseteq Records
      /\ WritesCurrent'
      /\ \A r \in Records \ (Pending' \cup unsure') : rows'[r] = memory'[r]
  BY IssueKeeps DEF IInv
<1>3. OneActive'
  BY <1>2, RecordsDiffer DEF OneActive
<1>4. TypeOK'
  BY <1>1, <1>2 DEF TypeOK
<1> QED BY <1>2, <1>3, <1>4 DEF IInv, StoreAgrees

LEMMA CreateKeeps ==
    ASSUME IInv, NEW m \in NewMissions, Create(m), rows' = rows, resumed' = resumed,
           \A n \in Missions : memory[Mission(n)] = "active" => n \in resumed,
           starting' = {}
    PROVE  IInv'
<1>1. m \in Missions /\ Mission(m) \in Records
  BY RecordsDiffer DEF NewMissions
<1>2. /\ active' = m
      /\ Remember(Put({Mission(m)}, "active"))
      /\ Issue(Put({Mission(m)}, "active"))
  BY DEF Create
<1>3. StartsAlone'
  BY DEF StartsAlone
<1>4. "active" \in Values /\ {Mission(m)} \in SUBSET Records
  BY <1>1 DEF Values
<1>5. \A n \in Missions : IF Mission(n) \in {Mission(m)} THEN n = active'
                          ELSE memory[Mission(n)] = "active" => n = active' \/ n \in resumed
  BY <1>1, <1>2, RecordsDiffer
<1> QED BY <1>1, <1>2, <1>3, <1>4, <1>5, CallKeeps

\* A call about overrides.
LEMMA OverrideKeeps ==
    ASSUME IInv, NEW S \in SUBSET Records, NEW v \in Values, WriteThrough(Put(S, v)),
           \A m \in Missions : Mission(m) \notin S
    PROVE  IInv'
<1>1. /\ Remember(Put(S, v)) /\ Issue(Put(S, v)) /\ rows' = rows /\ resumed' = resumed
      /\ active' = active /\ starting' = starting
  BY DEF WriteThrough
<1>2. /\ active \in Missions \cup {NoMission} /\ starting \subseteq Operators \X Missions
      /\ \A m \in Missions : memory[Mission(m)] = "active" => m = active \/ m \in resumed
  BY DEF IInv, StoreAgrees, TypeOK, OneActive
<1>3. StartsAlone'
  <2>1. \A m \in Missions : memory'[Mission(m)] = memory[Mission(m)]
    BY <1>1, RecordsDiffer DEF Remember, Put
  <2>2. \A s \in starting : s[2] \in Missions
    BY <1>2
  <2> QED BY <1>1, <2>1, <2>2 DEF IInv, StartsAlone
<1> QED BY <1>1, <1>2, <1>3, CallKeeps

LEMMA NextKeepsIInv == IInv /\ [Next]_vars => IInv'
<1> SUFFICES ASSUME IInv, [Next]_vars PROVE IInv'
  OBVIOUS
<1> USE RecordsDiffer
<1>1. ASSUME NEW w \in writes, Written(w) \/ WriteFails(w),
             UNCHANGED <<memory, active, resumed, starting>>
      PROVE  IInv'
  <2>1. /\ rows' \in [Records -> Values] /\ writes' \subseteq writes /\ unsure' \subseteq Records
        /\ WritesCurrent'
        /\ \A r \in Records \ (Pending' \cup unsure') : rows'[r] = memory'[r]
    BY <1>1, WriteEndKeeps DEF IInv
  <2>2. TypeOK'
    BY <1>1, <2>1 DEF IInv, StoreAgrees, TypeOK
  <2>3. OneActive' /\ StartsAlone'
    BY <1>1 DEF IInv, OneActive, StartsAlone
  <2> QED BY <2>1, <2>2, <2>3 DEF IInv, StoreAgrees
<1>2. CASE Start
  <2>1. PICK m \in NewMissions : Create(m)
    BY <1>2 DEF Start
  <2>2. /\ active = NoMission /\ starting' = {} /\ rows' = rows /\ resumed' = resumed
    BY <1>2 DEF Start, LockFree
  <2>3. \A n \in Missions : memory[Mission(n)] = "active" => n \in resumed
    BY <2>2, RecordsAssumption DEF IInv, OneActive, Missions
  <2> QED BY <2>1, <2>2, <2>3, CreateKeeps
<1>3. ASSUME NEW o \in Operators, AutoEnd(o) PROVE IInv'
  <2>1. /\ starting = {} /\ active # NoMission /\ starting' = {<<o, active>>}
        /\ Remember(Put({Mission(active)}, "ended")) /\ Issue(Put({Mission(active)}, "ended"))
        /\ rows' = rows /\ active' = active /\ resumed' = resumed
    BY <1>3 DEF AutoEnd, LockFree
  <2>2. active \in Missions /\ {Mission(active)} \in SUBSET Records /\ "ended" \in Values
    BY <2>1 DEF IInv, StoreAgrees, TypeOK, Values
  <2>3. memory'[Mission(active)] = "ended"
    BY <2>1, <2>2 DEF Remember, Put
  <2>4. StartsAlone'
    BY <2>1, <2>3 DEF StartsAlone
  <2>5. \A n \in Missions : memory[Mission(n)] = "active" => n = active' \/ n \in resumed
    BY <2>1 DEF IInv, OneActive
  <2>6. starting' \subseteq Operators \X Missions
    BY <2>1, <2>2
  <2> QED BY <2>1, <2>2, <2>4, <2>5, <2>6, CallKeeps
<1>4. ASSUME NEW o \in Operators, StartNext(o) PROVE IInv'
  <2>1. PICK e \in Missions : <<o, e>> \in starting /\ starting' = starting \ {<<o, e>>}
    BY <1>4 DEF StartNext
  <2>2. starting' = {} /\ e = active /\ memory[Mission(active)] = "ended"
    BY <2>1 DEF IInv, StartsAlone
  <2>3. \A n \in Missions : memory[Mission(n)] = "active" => n \in resumed
    BY <2>2 DEF IInv, OneActive
  <2>4. PICK m \in NewMissions : Create(m)
    BY <1>4 DEF StartNext
  <2>5. rows' = rows /\ resumed' = resumed
    BY <1>4 DEF StartNext
  <2> QED BY <2>2, <2>3, <2>4, <2>5, CreateKeeps
<1>5. ASSUME NEW m \in Missions, End(m) PROVE IInv'
  <2>1. /\ starting = {} /\ starting' = {} /\ rows' = rows /\ resumed' = resumed
        /\ active' = IF active = m THEN NoMission ELSE active
        /\ Remember(Put({Mission(m)}, "ended")) /\ Issue(Put({Mission(m)}, "ended"))
    BY <1>5 DEF End, LockFree, EndRow
  <2>2. {Mission(m)} \in SUBSET Records /\ "ended" \in Values
    BY DEF Values
  <2>3. StartsAlone'
    BY <2>1 DEF StartsAlone
  <2>4. active' \in Missions \cup {NoMission}
    BY <2>1 DEF IInv, StoreAgrees, TypeOK
  <2>5. \A n \in Missions : IF Mission(n) \in {Mission(m)} THEN TRUE
                            ELSE memory[Mission(n)] = "active" => n = active' \/ n \in resumed
    BY <2>1 DEF IInv, OneActive
  <2> QED BY <2>1, <2>2, <2>3, <2>4, <2>5, CallKeeps
<1>6. ASSUME NEW x \in Marks, RemoveMark(x) PROVE IInv'
  BY <1>6, OverrideKeeps DEF RemoveMark, Values
<1>7. ASSUME NEW x \in Marks, NEW label \in Labels, SetMark(x, label) PROVE IInv'
  <2>1. WriteThrough(Put({Mark(x)}, label)) /\ label \in Values /\ {Mark(x)} \in SUBSET Records
    BY <1>7 DEF SetMark, Values
  <2> QED BY <2>1, OverrideKeeps
<1>8. ASSUME NEW r \in Ranges, AddBlacklist(r) PROVE IInv'
  BY <1>8, OverrideKeeps DEF AddBlacklist, Values
<1>9. CASE ClearBlacklist
  <2>1. WriteThrough(Put({Block(r) : r \in Ranges}, "none"))
    BY <1>9 DEF ClearBlacklist
  <2>2. {Block(r) : r \in Ranges} \in SUBSET Records /\ "none" \in Values
    BY DEF Values
  <2>3. \A m \in Missions : Mission(m) \notin {Block(r) : r \in Ranges}
    OBVIOUS
  <2> QED BY <2>1, <2>2, <2>3, OverrideKeeps
<1>10. CASE Restart
  <2>1. /\ memory' = [r \in Records |-> rows[r]] /\ rows' = rows
        /\ active' \in Missions \cup {NoMission}
        /\ resumed' = ActiveRows /\ starting' = {} /\ writes' = {} /\ unsure' = {}
    BY <1>10 DEF Restart, Rehydrated
  <2>2. rows \in [Records -> Values] /\ ActiveRows \in SUBSET Missions
    BY DEF IInv, StoreAgrees, TypeOK, ActiveRows
  <2>4. TypeOK'
    BY <2>1, <2>2 DEF TypeOK
  <2>5. OneActive'
    BY <2>1 DEF OneActive, ActiveRows
  <2> QED BY <2>1, <2>4, <2>5 DEF IInv, StoreAgrees, WritesCurrent, StartsAlone
<1>11. CASE UNCHANGED vars
  BY <1>11 DEF vars, IInv, StoreAgrees, TypeOK, WritesCurrent, OneActive, StartsAlone, Pending
<1> QED BY <1>1, <1>2, <1>3, <1>4, <1>5, <1>6, <1>7, <1>8, <1>9, <1>10, <1>11 DEF Next

-----------------------------------------------------------------------------
(***************************************************************************)
(* Memory, rows and writes stay well formed (part of StoreAgrees), and the *)
(* store agrees with memory wherever no write is under way, overlapped     *)
(* another one or failed.                                                  *)
(***************************************************************************)
THEOREM StoreAgreement == Spec => []StoreAgrees
<1>1. IInv => StoreAgrees
  BY DEF IInv
<1> QED BY <1>1, InitIInv, NextKeepsIInv, PTL DEF Spec

(***************************************************************************)
(* One mission is active at a time, but for those a restart brought back.  *)
(***************************************************************************)
THEOREM MissionsAlone == Spec => []OneActive
<1>1. IInv => OneActive
  BY DEF IInv
<1> QED BY <1>1, InitIInv, NextKeepsIInv, PTL DEF Spec

(***************************************************************************)
(* A restart brings back what the calls that returned have done, for each  *)
(* record whose writes did not overlap or fail.                            *)
(***************************************************************************)
THEOREM Durability == Spec => ReturnedSurvives
<1> DEFINE Survives ==
        Restart => \A r \in Records \ (Pending \cup unsure) : memory'[r] = memory[r]
<1>1. IInv => Survives
  BY DEF IInv, StoreAgrees, Restart, Rehydrated
<1>2. IInv /\ [Next]_vars => [Survives]_vars
  BY <1>1
<1> QED BY <1>2, InitIInv, NextKeepsIInv, PTL DEF Spec, ReturnedSurvives

=============================================================================
