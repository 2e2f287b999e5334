--------------------------- MODULE CotApprovalProofs ---------------------------
(***************************************************************************)
(* CotApproval for every set of emitters, every limit and every number of  *)
(* escalations.                                                            *)
(*                                                                         *)
(* Tasks start in the order they were spawned, so the queue is sorted by   *)
(* item.  An enqueue takes a prefix off the queue: what the compaction     *)
(* pops is decided, and what the eviction pops it decides itself, so that  *)
(* no undecided item leaves the queue.  A beacon under way has not been    *)
(* recorded, which is why nothing is recorded or sent twice.               *)
(***************************************************************************)
EXTENDS CotApproval, FiniteSetTheorems, SequenceTheorems, WellFoundedInduction, TLAPS

\* Items are spawned, and start, in their order, and only started ones queue.
Arrivals ==
    /\ \A i, j \in Items : state[i] = "none" /\ state[j] # "none" => j < i
    /\ \A i, j \in Items : state[i] = "spawned" /\ state[j] \notin {"none", "spawned"} => j < i
    /\ \A k \in DOMAIN order : state[order[k]] \notin {"none", "spawned"}

\* What an item's state says about its emitter, its beacon and its record.
ItemState(i) ==
    /\ state[i] # "none" => emitter[i] \in Emitters
    /\ push[i] # "none" => state[i] \in {"approved", "auto"}
    /\ state[i] = "auto" => ~manual
    /\ i \in owed \cup audit => state[i] \in Terminal /\ push[i] # "sending"
    /\ i \notin owed \cap audit

IInv ==
    /\ TypeOK
    /\ PendingIsQueued
    /\ Arrivals
    /\ \A i \in Items : ItemState(i)
    /\ LimitedBySent

LEMMA Constants ==
    /\ NoEmitter \notin Emitters
    /\ MaxPending \in Nat \ {0} /\ Expiry \in Nat \ {0} /\ MinInterval \in Nat \ {0}
    /\ MaxItems \in Nat \ {0} /\ Items \subseteq Nat
<1>1. /\ NoEmitter \notin Emitters
      /\ MaxPending \in Nat \ {0} /\ Expiry \in Nat \ {0} /\ MinInterval \in Nat \ {0}
      /\ MaxItems \in Nat \ {0}
  BY ApprovalAssumption
<1>2. Items \subseteq Nat
  BY <1>1 DEF Items
<1> QED BY <1>1, <1>2

\* A nonempty set of positions has a first one: of the sets of positions before
\* a member, one is minimal.
LEMMA FirstPosition ==
    ASSUME NEW n \in Nat, NEW S \in SUBSET (1 .. n), S # {}
    PROVE  \E k \in S : \A l \in S : k <= l
<1> DEFINE Below(k) == {l \in S : l < k}
           T == {Below(k) : k \in S}
           R == StrictSubsetOrdering(S)
<1>1. IsFiniteSet(S)
  <2>1. IsFiniteSet(1 .. n)
    BY FS_Interval
  <2> QED BY <2>1, FS_Subset
<1>2. IsWellFoundedOn(R, SUBSET S)
  BY <1>1, FS_StrictSubsetOrderingWellFounded, FS_FiniteSubsetsOfFinite
<1>3. T \subseteq SUBSET S /\ T # {}
  OBVIOUS
<1>4. PICK x \in T : \A y \in T : ~(<<y, x>> \in R)
  <2> HIDE DEF R, T
  <2> QED BY <1>2, <1>3, WFMin
<1>5. PICK k \in S : x = Below(k)
  BY <1>4
<1>6. ASSUME NEW l \in S, l < k
      PROVE  FALSE
  <2>0. l \in Nat /\ k \in Nat /\ S \subseteq Nat
    OBVIOUS
  <2>1. l \in Below(k) /\ l \notin Below(l)
    BY <1>6, <2>0
  <2>2. Below(l) \subseteq Below(k)
    <3>1. \A a \in S : a < l => a < k
      BY <1>6, <2>0
    <3> QED BY <3>1, Zenon
  <2>3. Below(l) \in SUBSET S /\ Below(k) \in SUBSET S
    OBVIOUS
  <2>4. <<Below(l), Below(k)>> \in R
    <3> HIDE DEF Below
    <3> QED BY <2>1, <2>2, <2>3 DEF StrictSubsetOrdering
  <2> QED BY <1>4, <1>5, <2>4
<1> QED BY <1>6

-----------------------------------------------------------------------------
(* The queue *)

\* Compaction takes decided items off the head.
LEMMA CompactedIsSuffix ==
    ASSUME TypeOK
    PROVE  \E m \in 1 .. Len(order) + 1 :
              /\ Compacted = SubSeq(order, m, Len(order))
              /\ \A k \in 1 .. m - 1 : ~Pending(order[k])
<1> DEFINE live == {k \in DOMAIN order : Pending(order[k])}
<1>1. order \in Seq(Items) /\ Len(order) \in Nat /\ DOMAIN order = 1 .. Len(order)
  BY DEF TypeOK
<1>2. CASE live = {}
  <2>1. Compacted = <<>>
    BY <1>2 DEF Compacted
  <2>2. SubSeq(order, Len(order) + 1, Len(order)) = <<>>
    BY <1>1, SubSeqEmpty
  <2>3. \A k \in 1 .. Len(order) : ~Pending(order[k])
    BY <1>1, <1>2
  <2>4. Len(order) + 1 \in 1 .. Len(order) + 1 /\ (Len(order) + 1) - 1 = Len(order)
    BY <1>1
  <2> QED BY <2>1, <2>2, <2>3, <2>4
<1>3. CASE live # {}
  <2> DEFINE m == CHOOSE k \in live : \A l \in live : k <= l
  <2>1. \E k \in live : \A l \in live : k <= l
    <3>1. live \in SUBSET (1 .. Len(order))
      BY <1>1
    <3> HIDE DEF live
    <3> QED BY <1>1, <1>3, <3>1, FirstPosition
  <2>2. m \in live /\ \A l \in live : m <= l
    <3> HIDE DEF live
    <3> QED BY <2>1
  <2>3. Compacted = SubSeq(order, m, Len(order))
    BY <1>3 DEF Compacted
  <2> HIDE DEF m
  <2>4. m \in 1 .. Len(order) + 1
    BY <1>1, <2>2
  <2>5. \A k \in 1 .. m - 1 : ~Pending(order[k])
    BY <1>1, <2>2, <2>4
  <2> QED BY <2>3, <2>4, <2>5
<1> QED BY <1>2, <1>3

\* What stays of the queue when an item enters is a suffix that leaves it room;
\* what goes has been decided before, or is dropped now.
LEMMA EnqueueKeepsSuffix ==
    ASSUME TypeOK, NEW i \in Items, Enqueue(i)
    PROVE  /\ \E p \in 1 .. Len(order) + 1 :
                 /\ order' = Append(SubSeq(order, p, Len(order)), i)
                 /\ Len(order) - p + 1 < MaxPending
                 /\ \A k \in 1 .. p - 1 : order[k] # i => state'[order[k]] # "pending"
           /\ \A j \in Items : j # i /\ state'[j] # state[j] => Pending(j) /\ state'[j] = "dropped"
           /\ owed' = owed \cup {j \in Items : j # i /\ state'[j] # state[j]}
<1> DEFINE q == Compacted
           s == Surplus(q)
           dropped == {j \in Evicted(q) : Pending(j)}
<1>1. PICK m \in 1 .. Len(order) + 1 :
              /\ Compacted = SubSeq(order, m, Len(order))
              /\ \A k \in 1 .. m - 1 : ~Pending(order[k])
  BY CompactedIsSuffix
<1>2. order \in Seq(Items) /\ Len(order) \in Nat /\ m \in Nat \ {0}
  BY DEF TypeOK
<1>3. /\ q \in Seq(Items) /\ Len(q) = Len(order) - m + 1
      /\ \A k \in 1 .. Len(q) : q[k] = order[m + k - 1]
  <2>1. \A k \in m .. Len(order) : order[k] \in Items
    BY <1>2
  <2>2. /\ SubSeq(order, m, Len(order)) \in Seq(Items)
        /\ Len(SubSeq(order, m, Len(order))) = IF m <= Len(order) THEN Len(order) - m + 1 ELSE 0
        /\ \A k \in 1 .. Len(order) - m + 1 :
               SubSeq(order, m, Len(order))[k] = order[m + k - 1]
    BY <1>2, <2>1, SubSeqProperties
  <2>3. Len(q) = Len(order) - m + 1
    BY <1>1, <1>2, <2>2
  <2> QED BY <1>1, <2>2, <2>3
<1> HIDE DEF q
<1>4. Len(q) \in Nat /\ s \in Nat /\ s <= Len(q) /\ Len(q) - s < MaxPending
  <2>1. Len(q) \in Nat
    BY <1>2, <1>3
  <2> QED BY <2>1, Constants DEF Surplus
<1>5. Evicted(q) = {order[m + k - 1] : k \in 1 .. s}
  <2>1. \A k \in 1 .. s : q[k] = order[m + k - 1]
    BY <1>3, <1>4
  <2> HIDE DEF s
  <2>2. {q[k] : k \in 1 .. s} = {order[m + k - 1] : k \in 1 .. s}
    BY <2>1
  <2> QED BY <2>2 DEF Evicted, s
<1> HIDE DEF s
<1>6. SubSeq(q, s + 1, Len(q)) = SubSeq(order, m + s, Len(order))
  <2>1. \A k \in s + 1 .. Len(q) : q[k] \in Items
    BY <1>3, <1>4
  <2>2. \A k \in m + s .. Len(order) : order[k] \in Items
    BY <1>2, <1>4
  <2>3. /\ SubSeq(q, s + 1, Len(q)) \in Seq(Items)
        /\ Len(SubSeq(q, s + 1, Len(q))) = IF s + 1 <= Len(q) THEN Len(q) - (s + 1) + 1 ELSE 0
        /\ \A k \in 1 .. Len(q) - (s + 1) + 1 : SubSeq(q, s + 1, Len(q))[k] = q[s + 1 + k - 1]
    BY <1>4, <2>1, SubSeqProperties
  <2>4. /\ SubSeq(order, m + s, Len(order)) \in Seq(Items)
        /\ Len(SubSeq(order, m + s, Len(order)))
              = IF m + s <= Len(order) THEN Len(order) - (m + s) + 1 ELSE 0
        /\ \A k \in 1 .. Len(order) - (m + s) + 1 :
               SubSeq(order, m + s, Len(order))[k] = order[m + s + k - 1]
    BY <1>2, <1>4, <2>2, SubSeqProperties
  <2>5. /\ Len(SubSeq(q, s + 1, Len(q))) = Len(q) - s
        /\ Len(SubSeq(order, m + s, Len(order))) = Len(q) - s
    BY <1>2, <1>3, <1>4, <2>3, <2>4
  <2>6. ASSUME NEW k \in 1 .. Len(q) - s
        PROVE  SubSeq(q, s + 1, Len(q))[k] = SubSeq(order, m + s, Len(order))[k]
    <3>1. k \in 1 .. Len(q) - (s + 1) + 1 /\ k \in 1 .. Len(order) - (m + s) + 1
      BY <1>2, <1>3, <1>4
    <3>2. s + k \in 1 .. Len(q) /\ s + 1 + k - 1 = s + k /\ m + s + k - 1 = m + (s + k) - 1
      BY <1>2, <1>4
    <3> QED BY <1>3, <2>3, <2>4, <3>1, <3>2
  <2> QED BY <2>3, <2>4, <2>5, <2>6, SeqEqual
<1>7. order' = Append(SubSeq(order, m + s, Len(order)), i)
  BY <1>6 DEF Enqueue, q, s
<1>8. /\ state' = [j \in Items |-> IF j = i THEN "pending"
                                  ELSE IF j \in dropped THEN "dropped" ELSE state[j]]
      /\ owed' = owed \cup dropped
      /\ state[i] = "spawned"
  BY DEF Enqueue, q, NextToStart
<1>9. i \notin dropped /\ dropped \subseteq Items
  BY <1>2, <1>3, <1>4, <1>5, <1>8 DEF Pending
<1>10. ASSUME NEW k \in 1 .. (m + s) - 1, order[k] # i
       PROVE  state'[order[k]] # "pending"
  <2>1. order[k] \in Items
    BY <1>2, <1>3, <1>4
  <2>2. CASE k < m
    <3>1. ~Pending(order[k])
      BY <1>1, <1>2, <2>2
    <3> QED BY <1>8, <1>10, <2>1, <3>1 DEF Pending
  <2>3. CASE ~(k < m)
    <3>1. k - m + 1 \in 1 .. s /\ m + (k - m + 1) - 1 = k
      BY <1>2, <1>4, <2>3
    <3>2. order[k] \in Evicted(q)
      BY <1>5, <3>1
    <3> QED BY <1>8, <1>10, <2>1, <3>2 DEF Pending
  <2> QED BY <2>2, <2>3
<1>11. m + s \in 1 .. Len(order) + 1 /\ Len(order) - (m + s) + 1 < MaxPending
  BY <1>2, <1>3, <1>4, Constants
<1>12. dropped = {j \in Items : j # i /\ state'[j] # state[j]}
  BY <1>8, <1>9 DEF Pending
<1> QED BY <1>7, <1>8, <1>10, <1>11, <1>12 DEF Pending

-----------------------------------------------------------------------------
(* The invariant is inductive *)

LEMMA InitIInv == Init => IInv
<1> SUFFICES ASSUME Init PROVE IInv
  OBVIOUS
<1>1. TypeOK
  BY Constants DEF Init, TypeOK, States
<1>2. PendingIsQueued
  BY DEF Init, PendingIsQueued, Pending
<1>3. Arrivals
  BY DEF Init, Arrivals
<1>4. \A i \in Items : ItemState(i)
  BY DEF Init, ItemState
<1>5. LimitedBySent
  BY Constants DEF Init, LimitedBySent
<1> QED BY <1>1, <1>2, <1>3, <1>4, <1>5 DEF IInv

\* The first item that is new is spawned.
LEMMA EscalateIsNew ==
    ASSUME TypeOK, NEW e \in Emitters, Escalate(e)
    PROVE  \E i \in Items :
              /\ state[i] = "none" /\ \A k \in Items : state[k] = "none" => i <= k
              /\ emitter' = [emitter EXCEPT ![i] = e]
              /\ state' = [state EXCEPT ![i] = "spawned"]
              /\ UNCHANGED <<age, order, push, sinceGate, sinceEmit, manual, owed, audit>>
<1> DEFINE fresh == {j \in Items : state[j] = "none"}
           i == CHOOSE j \in fresh : \A k \in fresh : j <= k
<1>1. fresh # {} /\ fresh \in SUBSET (1 .. MaxItems)
  BY DEF Escalate, Items
<1>2. i \in fresh /\ \A k \in fresh : i <= k
  <2> HIDE DEF fresh
  <2>1. \E j \in fresh : \A k \in fresh : j <= k
    BY <1>1, FirstPosition, Constants
  <2> QED BY <2>1
<1> QED BY <1>2 DEF Escalate, emits, records

LEMMA EscalateIInv ==
    ASSUME IInv, NEW e \in Emitters, Escalate(e)
    PROVE  IInv'
<1>1. PICK i \in Items :
          /\ state[i] = "none" /\ \A k \in Items : state[k] = "none" => i <= k
          /\ emitter' = [emitter EXCEPT ![i] = e]
          /\ state' = [state EXCEPT ![i] = "spawned"]
          /\ UNCHANGED <<age, order, push, sinceGate, sinceEmit, manual, owed, audit>>
  BY EscalateIsNew DEF IInv
<1>2. i \in Items /\ state[i] = "none" /\ \A k \in Items : state[k] = "none" => i <= k
  BY <1>1
<1>3. TypeOK'
  BY <1>1, <1>2 DEF IInv, TypeOK, States
<1>4. \A k \in Items : (Pending(k)' <=> Pending(k)) /\ ItemState(k)'
  BY <1>1, <1>2 DEF IInv, TypeOK, Pending, ItemState, Terminal
<1>5. PendingIsQueued'
  BY <1>1, <1>4 DEF IInv, PendingIsQueued
<1>6. Arrivals'
  <2>1. \A k \in Items : state'[k] = IF k = i THEN "spawned" ELSE state[k]
    BY <1>1 DEF IInv, TypeOK
  <2>2. \A k \in DOMAIN order : order[k] \in Items
    BY DEF IInv, TypeOK
  <2>3. \A j, k \in Items : state'[j] = "none" /\ state'[k] # "none" => k < j
    BY <1>2, <2>1, Constants DEF IInv, Arrivals
  <2>4. \A j, k \in Items :
           state'[j] = "spawned" /\ state'[k] \notin {"none", "spawned"} => k < j
    BY <1>2, <2>1 DEF IInv, Arrivals
  <2>5. \A k \in DOMAIN order' : state'[order'[k]] \notin {"none", "spawned"}
    BY <1>1, <1>2, <2>1, <2>2 DEF IInv, Arrivals
  <2> QED BY <2>3, <2>4, <2>5 DEF Arrivals
<1>7. LimitedBySent'
  <2>1. \A k \in Items : push[k] = "sent" => emitter'[k] = emitter[k]
    BY <1>1, <1>2 DEF IInv, TypeOK, ItemState
  <2> QED BY <1>1, <2>1 DEF IInv, LimitedBySent
<1> QED BY <1>3, <1>4, <1>5, <1>6, <1>7 DEF IInv

\* A started or starting item moves on to a state that is neither new nor
\* pending; the queue stays as it is.
LEMMA ItemsMoveOn ==
    ASSUME IInv, order' = order, NEW M \in SUBSET Items,
           \A k \in Items \ M : state'[k] = state[k],
           \A k \in M : state'[k] \notin {"none", "spawned", "pending"},
           \A k \in M : state[k] # "none"
                       /\ \A j \in Items : state[j] = "spawned" => j \in M \/ k < j
    PROVE  PendingIsQueued' /\ Arrivals'
<1>1. \A k \in DOMAIN order : order[k] \in Items
  BY DEF IInv, TypeOK
<1>2. PendingIsQueued'
  BY DEF IInv, PendingIsQueued, Pending
<1>3. \A i, j \in Items : state'[i] = "none" /\ state'[j] # "none" => j < i
  BY DEF IInv, Arrivals
<1>4. \A i, j \in Items :
         state'[i] = "spawned" /\ state'[j] \notin {"none", "spawned"} => j < i
  BY DEF IInv, Arrivals
<1>5. \A k \in DOMAIN order' : state'[order'[k]] \notin {"none", "spawned"}
  BY <1>1 DEF IInv, Arrivals
<1> QED BY <1>2, <1>3, <1>4, <1>5 DEF Arrivals

LEMMA DecidedMoveOn ==
    ASSUME IInv, order' = order, NEW i \in Items, state[i] = "pending",
           NEW d \in Terminal, state' = [state EXCEPT ![i] = d]
    PROVE  PendingIsQueued' /\ Arrivals'
<1>1. \A k \in Items \ {i} : state'[k] = state[k]
  BY DEF IInv, TypeOK
<1>2. state'[i] \notin {"none", "spawned", "pending"}
  BY DEF IInv, TypeOK, Terminal
<1>3. state[i] # "none" /\ \A j \in Items : state[j] = "spawned" => j \in {i} \/ i < j
  BY DEF IInv, Arrivals
<1> QED BY <1>1, <1>2, <1>3, ItemsMoveOn

LEMMA AutoEmitIInv ==
    ASSUME IInv, NEW i \in Items, AutoEmit(i)
    PROVE  IInv'
<1>1. /\ ~manual /\ state[i] = "spawned" /\ \A j \in Items : state[j] = "spawned" => i <= j
      /\ state' = [state EXCEPT ![i] = "auto"]
      /\ push' = [push EXCEPT ![i] = IF GateOpen(i) THEN "sending" ELSE "suppressed"]
      /\ UNCHANGED <<emitter, age, order, sinceGate, sinceEmit, manual, owed, audit>>
  BY DEF AutoEmit, StartsPending, NextToStart, Gate, records
<1>2. push[i] = "none" /\ i \notin owed \cup audit
  BY <1>1 DEF IInv, ItemState, Terminal
<1>3. TypeOK'
  BY <1>1 DEF IInv, TypeOK, States
<1>4. \A k \in Items : ItemState(k)'
  BY <1>1, <1>2 DEF IInv, TypeOK, ItemState
<1>5. PendingIsQueued' /\ Arrivals'
  <2>1. \A k \in Items \ {i} : state'[k] = state[k]
    BY <1>1 DEF IInv, TypeOK
  <2>2. state'[i] = "auto" /\ \A j \in Items : state[j] = "spawned" => j \in {i} \/ i < j
    BY <1>1, Constants DEF IInv, TypeOK
  <2> QED BY <1>1, <2>1, <2>2, ItemsMoveOn
<1>6. LimitedBySent'
  <2>1. \A k \in Items : push[k] = "sent" => push'[k] = "sent"
    BY <1>1, <1>2 DEF IInv, TypeOK
  <2> QED BY <1>1, <2>1 DEF IInv, LimitedBySent
<1> QED BY <1>3, <1>4, <1>5, <1>6 DEF IInv

LEMMA EnqueueIInv ==
    ASSUME IInv, NEW i \in Items, Enqueue(i)
    PROVE  IInv'
<1>1. /\ manual /\ state[i] = "spawned" /\ \A j \in Items : state[j] = "spawned" => i <= j
      /\ UNCHANGED <<emitter, push, sinceGate, sinceEmit, manual, audit>>
      /\ state'[i] = "pending" /\ state' \in [Items -> States] /\ age' \in [Items -> 0 .. Expiry + 1]
  <2>1. state \in [Items -> States] /\ age \in [Items -> 0 .. Expiry + 1] /\ 0 \in 0 .. Expiry + 1
    BY Constants DEF IInv, TypeOK
  <2>2. /\ manual /\ state[i] = "spawned" /\ \A j \in Items : state[j] = "spawned" => i <= j
        /\ UNCHANGED <<emitter, push, sinceGate, sinceEmit, manual, audit>>
        /\ state'[i] = "pending"
    BY DEF Enqueue, StartsPending, NextToStart, emits
  <2>3. state' \in [Items -> States] /\ age' \in [Items -> 0 .. Expiry + 1]
    BY <2>1 DEF Enqueue, States, Terminal
  <2> QED BY <2>2, <2>3
<1>2. PICK p \in 1 .. Len(order) + 1 :
          /\ order' = Append(SubSeq(order, p, Len(order)), i)
          /\ Len(order) - p + 1 < MaxPending
          /\ \A k \in 1 .. p - 1 : order[k] # i => state'[order[k]] # "pending"
  BY EnqueueKeepsSuffix DEF IInv
<1>3. /\ \A j \in Items : j # i /\ state'[j] # state[j] => Pending(j) /\ state'[j] = "dropped"
      /\ owed' = owed \cup {j \in Items : j # i /\ state'[j] # state[j]}
  BY EnqueueKeepsSuffix DEF IInv
<1> DEFINE n == Len(order) - p + 1
<1>4. order \in Seq(Items) /\ Len(order) \in Nat /\ p \in Nat /\ n \in Nat
  BY DEF IInv, TypeOK
<1>5. /\ order' \in Seq(Items) /\ Len(order') = n + 1
      /\ \A k \in 1 .. n : order'[k] = order[p + k - 1]
      /\ order'[n + 1] = i
  <2>1. \A k \in p .. Len(order) : order[k] \in Items
    BY <1>4
  <2>2. /\ SubSeq(order, p, Len(order)) \in Seq(Items)
        /\ Len(SubSeq(order, p, Len(order))) = IF p <= Len(order) THEN n ELSE 0
        /\ \A k \in 1 .. n : SubSeq(order, p, Len(order))[k] = order[p + k - 1]
    BY <1>4, <2>1, SubSeqProperties
  <2>3. Len(SubSeq(order, p, Len(order))) = n
    BY <1>4, <2>2
  <2> HIDE DEF n
  <2> QED BY <1>2, <2>2, <2>3, AppendProperties
<1>6. \A k \in 1 .. n : p + k - 1 \in 1 .. Len(order)
  BY <1>4
<1>7. \A k \in 1 .. Len(order) : order[k] # i /\ state[order[k]] \notin {"none", "spawned"}
                                           /\ order[k] \in Items /\ order[k] < i
  BY <1>1, <1>4 DEF IInv, Arrivals
<1>8. TypeOK'
  <2>1. owed' \subseteq Items
    BY <1>3 DEF IInv, TypeOK
  <2>2. Len(order') <= MaxPending
    BY <1>2, <1>4, <1>5, Constants
  <2> QED BY <1>1, <1>5, <2>1, <2>2 DEF IInv, TypeOK
<1> HIDE DEF n
<1>9. PendingIsQueued'
  <2>1. ASSUME NEW j \in Items, state'[j] = "pending"
        PROVE  \E k \in DOMAIN order' : order'[k] = j
    <3>1. CASE j = i
      BY <1>4, <1>5, <3>1
    <3>2. CASE j # i
      <4>1. Pending(j)
        BY <1>3, <2>1, <3>2 DEF Pending
      <4>2. PICK k \in 1 .. Len(order) : order[k] = j
        BY <1>4, <4>1 DEF IInv, PendingIsQueued, Range
      <4>3. ~(k < p)
        BY <1>2, <1>4, <2>1, <3>2, <4>2
      <4>4. k - p + 1 \in 1 .. n /\ p + (k - p + 1) - 1 = k
        BY <1>4, <4>3 DEF n
      <4>5. order'[k - p + 1] = j
        BY <1>5, <4>2, <4>4
      <4>6. k - p + 1 \in DOMAIN order'
        BY <1>4, <1>5, <4>4
      <4> QED BY <4>5, <4>6
    <3> QED BY <3>1, <3>2
  <2>2. ASSUME NEW k \in DOMAIN order', NEW l \in DOMAIN order', k < l
        PROVE  order'[k] < order'[l]
    <3>1. k \in 1 .. n /\ l \in 1 .. n + 1
      BY <1>4, <1>5, <2>2
    <3>2. order'[k] = order[p + k - 1] /\ p + k - 1 \in 1 .. Len(order)
      BY <1>5, <1>6, <3>1
    <3>3. CASE l = n + 1
      BY <1>5, <1>7, <3>2, <3>3
    <3>4. CASE l \in 1 .. n
      <4>1. order'[l] = order[p + l - 1] /\ p + l - 1 \in 1 .. Len(order)
        BY <1>5, <1>6, <3>4
      <4>2. p + k - 1 < p + l - 1
        BY <1>4, <2>2, <3>1
      <4> QED BY <3>2, <4>1, <4>2, <1>4 DEF IInv, PendingIsQueued
    <3> QED BY <1>4, <3>1, <3>3, <3>4
  <2> QED BY <2>1, <2>2 DEF PendingIsQueued, Pending, Range
<1>10. \A j \in Items : /\ state'[j] = "none" <=> state[j] = "none"
                        /\ state'[j] = "spawned" <=> state[j] = "spawned" /\ j # i
  BY <1>1, <1>3 DEF Pending
<1>11. Arrivals'
  <2>1. \A j, k \in Items : state'[j] = "none" /\ state'[k] # "none" => k < j
    BY <1>10 DEF IInv, Arrivals
  <2>2. ASSUME NEW j \in Items, NEW k \in Items,
               state'[j] = "spawned", state'[k] \notin {"none", "spawned"}
        PROVE  k < j
    <3>1. CASE k = i
      BY <1>1, <1>10, <2>2, <3>1, Constants
    <3>2. CASE k # i
      BY <1>10, <2>2, <3>2 DEF IInv, Arrivals
    <3> QED BY <3>1, <3>2
  <2>3. ASSUME NEW k \in DOMAIN order'
        PROVE  state'[order'[k]] \notin {"none", "spawned"}
    <3>1. CASE k = n + 1
      BY <1>1, <1>5, <3>1
    <3>2. CASE k \in 1 .. n
      BY <1>5, <1>6, <1>7, <1>10, <3>2
    <3> QED BY <1>4, <1>5, <3>1, <3>2
  <2> QED BY <2>1, <2>2, <2>3 DEF Arrivals
<1>12. ASSUME NEW j \in Items
       PROVE  ItemState(j)'
  <2>1. CASE j = i
    <3>1. j \notin owed' /\ j \notin audit /\ push[j] = "none" /\ emitter[j] \in Emitters
      BY <1>1, <1>3, <2>1 DEF IInv, ItemState, Terminal
    <3> QED BY <1>1, <2>1, <3>1 DEF ItemState
  <2>2. CASE j # i /\ state'[j] # state[j]
    <3>1. /\ state[j] = "pending" /\ state'[j] = "dropped"
      BY <1>3, <2>2 DEF Pending
    <3>2. j \notin audit /\ push[j] = "none" /\ emitter[j] \in Emitters
      BY <3>1 DEF IInv, ItemState, Terminal
    <3> QED BY <1>1, <3>1, <3>2 DEF ItemState, Terminal
  <2>3. CASE j # i /\ state'[j] = state[j]
    <3>1. j \in owed' <=> j \in owed
      BY <1>3, <2>3
    <3> QED BY <1>1, <2>3, <3>1 DEF IInv, ItemState
  <2> QED BY <2>1, <2>2, <2>3
<1>13. LimitedBySent'
  BY <1>1 DEF IInv, LimitedBySent
<1> QED BY <1>8, <1>9, <1>11, <1>12, <1>13 DEF IInv

LEMMA ApproveIInv ==
    ASSUME IInv, NEW i \in Items, Approve(i)
    PROVE  IInv'
<1>1. /\ state[i] = "pending"
      /\ state' = [state EXCEPT ![i] = "approved"]
      /\ age' = [age EXCEPT ![i] = 0]
      /\ push' = [push EXCEPT ![i] = IF GateOpen(i) THEN "sending" ELSE "suppressed"]
      /\ owed' = IF GateOpen(i) THEN owed ELSE owed \cup {i}
      /\ UNCHANGED <<emitter, order, sinceGate, sinceEmit, manual, audit>>
  BY DEF Approve, MayDecide, Pending, Gate
<1>2. push[i] = "none" /\ i \notin owed \cup audit
  BY <1>1 DEF IInv, ItemState, Terminal
<1>3. TypeOK'
  BY <1>1, Constants DEF IInv, TypeOK, States, Terminal
<1>4. \A k \in Items : ItemState(k)'
  BY <1>1, <1>2 DEF IInv, TypeOK, ItemState, Terminal
<1>5. PendingIsQueued' /\ Arrivals'
  BY <1>1, DecidedMoveOn DEF Terminal
<1>6. LimitedBySent'
  <2>1. \A k \in Items : push[k] = "sent" => push'[k] = "sent"
    BY <1>1, <1>2 DEF IInv, TypeOK
  <2> QED BY <1>1, <2>1 DEF IInv, LimitedBySent
<1> QED BY <1>3, <1>4, <1>5, <1>6 DEF IInv

LEMMA RejectIInv ==
    ASSUME IInv, NEW i \in Items, Reject(i)
    PROVE  IInv'
<1>1. /\ state[i] = "pending"
      /\ state' = [state EXCEPT ![i] = "rejected"]
      /\ age' = [age EXCEPT ![i] = 0]
      /\ owed' = owed \cup {i}
      /\ UNCHANGED <<emitter, order, push, sinceGate, sinceEmit, manual, audit>>
  BY DEF Reject, MayDecide, Pending, emits
<1>2. push[i] = "none" /\ i \notin owed \cup audit
  BY <1>1 DEF IInv, ItemState, Terminal
<1>3. TypeOK'
  <2>1. state' \in [Items -> States] /\ owed' \subseteq Items
    BY <1>1 DEF IInv, TypeOK, States, Terminal
  <2>2. age' \in [Items -> 0 .. Expiry + 1]
    BY <1>1, Constants DEF IInv, TypeOK
  <2> QED BY <1>1, <2>1, <2>2 DEF IInv, TypeOK
<1>4. \A k \in Items : ItemState(k)'
  BY <1>1, <1>2 DEF IInv, TypeOK, ItemState, Terminal
<1>5. PendingIsQueued' /\ Arrivals'
  BY <1>1, DecidedMoveOn DEF Terminal
<1>6. LimitedBySent'
  BY <1>1 DEF IInv, LimitedBySent
<1> QED BY <1>3, <1>4, <1>5, <1>6 DEF IInv

LEMMA ExpireIInv ==
    ASSUME IInv, ExpireStale
    PROVE  IInv'
<1>1. /\ Overdue \subseteq Items /\ \A k \in Overdue : state[k] = "pending"
      /\ state' = [k \in Items |-> IF k \in Overdue THEN "expired" ELSE state[k]]
      /\ age' = [k \in Items |-> IF k \in Overdue THEN 0 ELSE age[k]]
      /\ owed' = owed \cup Overdue
      /\ UNCHANGED <<emitter, order, push, sinceGate, sinceEmit, manual, audit>>
  BY DEF ExpireStale, Overdue, Pending, emits
<1>2. \A k \in Overdue : push[k] = "none" /\ k \notin audit
  BY <1>1 DEF IInv, ItemState, Terminal
<1> HIDE DEF Overdue
<1>3. TypeOK'
  BY <1>1, Constants DEF IInv, TypeOK, States, Terminal
<1>4. \A k \in Items : ItemState(k)'
  BY <1>1, <1>2 DEF IInv, TypeOK, ItemState, Terminal
<1>5. PendingIsQueued' /\ Arrivals'
  <2>1. \A k \in Items \ Overdue : state'[k] = state[k]
    BY <1>1
  <2>2. \A k \in Overdue : state'[k] = "expired"
    BY <1>1
  <2>3. \A k \in Overdue : \A j \in Items : state[j] = "spawned" => k < j
    BY <1>1 DEF IInv, Arrivals
  <2> QED BY <1>1, <2>1, <2>2, <2>3, ItemsMoveOn
<1>6. LimitedBySent'
  BY <1>1 DEF IInv, LimitedBySent
<1> QED BY <1>3, <1>4, <1>5, <1>6 DEF IInv

\* Neither items nor the queue change.
LEMMA QueueKept ==
    ASSUME IInv, UNCHANGED <<state, order>>
    PROVE  PendingIsQueued' /\ Arrivals'
  BY DEF IInv, PendingIsQueued, Arrivals, Pending

LEMMA SendDoneIInv ==
    ASSUME IInv, NEW i \in Items, SendDone(i)
    PROVE  IInv'
<1>1. /\ push[i] = "sending"
      /\ push' = [push EXCEPT ![i] = "sent"]
      /\ sinceEmit' = [sinceEmit EXCEPT ![emitter[i]] = sinceGate[i]]
      /\ owed' = IF state[i] = "approved" THEN owed \cup {i} ELSE owed
      /\ UNCHANGED <<emitter, state, age, order, sinceGate, manual, audit>>
  BY DEF SendDone, OweIfApproved, queue
<1>2. i \notin owed \cup audit /\ state[i] \in {"approved", "auto"} /\ emitter[i] \in Emitters
  BY <1>1 DEF IInv, ItemState
<1>3. TypeOK'
  BY <1>1, <1>2 DEF IInv, TypeOK
<1>4. \A k \in Items : ItemState(k)'
  BY <1>1, <1>2 DEF IInv, TypeOK, ItemState, Terminal
<1>5. LimitedBySent'
  <2> SUFFICES ASSUME NEW e \in Emitters, sinceEmit'[e] < MinInterval
               PROVE  \E k \in Items : emitter[k] = e /\ push'[k] = "sent"
                                      /\ sinceGate[k] = sinceEmit'[e]
    BY <1>1 DEF LimitedBySent
  <2>1. CASE e = emitter[i]
    <3>1. push'[i] = "sent" /\ sinceEmit'[e] = sinceGate[i]
      BY <1>1, <1>2, <2>1 DEF IInv, TypeOK
    <3> QED BY <2>1, <3>1
  <2>2. CASE e # emitter[i]
    <3>1. sinceEmit'[e] = sinceEmit[e] /\ \A k \in Items : push[k] = "sent" => push'[k] = "sent"
      BY <1>1, <2>2 DEF IInv, TypeOK
    <3> QED BY <3>1 DEF IInv, LimitedBySent
  <2> QED BY <2>1, <2>2
<1> QED BY <1>1, <1>3, <1>4, <1>5, QueueKept DEF IInv

LEMMA SendFailedIInv ==
    ASSUME IInv, NEW i \in Items, SendFailed(i)
    PROVE  IInv'
<1>1. /\ push[i] = "sending"
      /\ push' = [push EXCEPT ![i] = "failed"]
      /\ sinceGate' = [sinceGate EXCEPT ![i] = 0]
      /\ owed' = IF state[i] = "approved" THEN owed \cup {i} ELSE owed
      /\ UNCHANGED <<emitter, state, age, order, sinceEmit, manual, audit>>
  BY DEF SendFailed, OweIfApproved, queue
<1>2. i \notin owed \cup audit /\ state[i] \in {"approved", "auto"}
  BY <1>1 DEF IInv, ItemState
<1>3. TypeOK'
  BY <1>1, Constants DEF IInv, TypeOK
<1>4. \A k \in Items : ItemState(k)'
  BY <1>1, <1>2 DEF IInv, TypeOK, ItemState, Terminal
<1>5. LimitedBySent'
  <2>1. \A k \in Items : push[k] = "sent" => push'[k] = "sent" /\ sinceGate'[k] = sinceGate[k]
    BY <1>1 DEF IInv, TypeOK
  <2> QED BY <1>1, <2>1 DEF IInv, LimitedBySent
<1> QED BY <1>1, <1>3, <1>4, <1>5, QueueKept DEF IInv

LEMMA RecordIInv ==
    ASSUME IInv, NEW i \in Items, RecordTerminal(i)
    PROVE  IInv'
<1>1. /\ i \in owed /\ owed' = owed \ {i} /\ audit' = audit \cup {i}
      /\ UNCHANGED <<emitter, state, age, order, push, sinceGate, sinceEmit, manual>>
  BY DEF RecordTerminal, queue, emits
<1>2. TypeOK'
  BY <1>1 DEF IInv, TypeOK
<1>3. \A k \in Items : ItemState(k)'
  BY <1>1 DEF IInv, ItemState
<1>4. LimitedBySent'
  BY <1>1 DEF IInv, LimitedBySent
<1> QED BY <1>1, <1>2, <1>3, <1>4, QueueKept DEF IInv

LEMMA TickIInv ==
    ASSUME IInv, Tick
    PROVE  IInv'
<1>1. /\ age' = [i \in Items |-> IF Pending(i) THEN Older(age[i], Expiry + 1) ELSE age[i]]
      /\ sinceGate' = [i \in Items |-> IF Pushed(i) THEN Older(sinceGate[i], MinInterval)
                                       ELSE sinceGate[i]]
      /\ sinceEmit' = [e \in Emitters |-> Older(sinceEmit[e], MinInterval)]
      /\ UNCHANGED <<emitter, state, order, push, manual, owed, audit>>
  BY DEF Tick, records
<1>2. TypeOK'
  <2>1. age' \in [Items -> 0 .. Expiry + 1]
    BY <1>1, Constants DEF IInv, TypeOK, Older
  <2>2. sinceGate' \in [Items -> 0 .. MinInterval] /\ sinceEmit' \in [Emitters -> 0 .. MinInterval]
    BY <1>1, Constants DEF IInv, TypeOK, Older
  <2> QED BY <1>1, <2>1, <2>2 DEF IInv, TypeOK
<1>3. \A k \in Items : ItemState(k)'
  BY <1>1 DEF IInv, ItemState
<1>4. LimitedBySent'
  <2> SUFFICES ASSUME NEW e \in Emitters, sinceEmit'[e] < MinInterval
               PROVE  \E k \in Items : emitter[k] = e /\ push[k] = "sent"
                                      /\ sinceGate'[k] = sinceEmit'[e]
    BY <1>1 DEF LimitedBySent
  <2>1. sinceEmit[e] < MinInterval
    BY <1>1, Constants DEF IInv, TypeOK, Older
  <2>2. PICK k \in Items : emitter[k] = e /\ push[k] = "sent" /\ sinceGate[k] = sinceEmit[e]
    BY <2>1 DEF IInv, LimitedBySent
  <2>3. sinceGate'[k] = sinceEmit'[e]
    BY <1>1, <2>2 DEF Pushed
  <2> QED BY <2>2, <2>3
<1> QED BY <1>1, <1>2, <1>3, <1>4, QueueKept DEF IInv

LEMMA StutterIInv ==
    ASSUME IInv, UNCHANGED vars
    PROVE  IInv'
<1>1. UNCHANGED <<emitter, state, age, order, push, sinceGate, sinceEmit, manual, owed, audit>>
  BY DEF vars, queue, emits, records
<1> QED BY <1>1 DEF IInv, TypeOK, PendingIsQueued, Pending, Arrivals, ItemState, LimitedBySent

LEMMA NextIInv == IInv /\ [Next]_vars => IInv'
<1> SUFFICES ASSUME IInv, [Next]_vars PROVE IInv'
  OBVIOUS
<1>1. ASSUME NEW e \in Emitters, Escalate(e) PROVE IInv'
  BY <1>1, EscalateIInv
<1>2. ASSUME NEW i \in Items, OnLoop(i) PROVE IInv'
  BY <1>2, EnqueueIInv, AutoEmitIInv, RecordIInv DEF OnLoop
<1>3. ASSUME NEW i \in Items, SendDone(i) \/ SendFailed(i) \/ Approve(i) \/ Reject(i) PROVE IInv'
  BY <1>3, SendDoneIInv, SendFailedIInv, ApproveIInv, RejectIInv
<1> QED BY <1>1, <1>2, <1>3, ExpireIInv, TickIInv, StutterIInv DEF Next

-----------------------------------------------------------------------------
(* The theorems *)

\* Through evictions and compactions the queue keeps its limit and holds every
\* undecided item, and with manual approval on no beacon is sent that an
\* operator did not approve, whatever calls race.
THEOREM QueueTheorem == Spec => []QueueSound
<1>1. IInv => QueueSound
  BY DEF IInv, QueueSound, TwoKeys, ItemState
<1> QED BY <1>1, InitIInv, NextIInv, PTL DEF Spec

\* The rate limit holds a beacon back only on account of one that went out.
THEOREM RateLimitTheorem == Spec => []LimitedBySent
<1>1. IInv => LimitedBySent
  BY DEF IInv
<1> QED BY <1>1, InitIInv, NextIInv, PTL DEF Spec

\* Racing approve, reject, expiry and eviction calls cannot change what became
\* of an item, nor push or record it a second time.
THEOREM DecisionTheorem == Spec => DecidedForGood
<1> DEFINE Stands == \A i \in Items : state[i] \in Terminal =>
                       /\ state'[i] = state[i]
                       /\ push[i] # "none" => push'[i] # "sending" \/ push[i] = "sending"
                       /\ i \in audit => i \notin owed'
<1>1. IInv /\ [Next]_vars => [Stands]_vars
  <2> SUFFICES ASSUME IInv, Next, NEW i \in Items, state[i] \in Terminal
               PROVE  /\ state'[i] = state[i]
                      /\ push[i] # "none" => push'[i] # "sending" \/ push[i] = "sending"
                      /\ i \in audit => i \notin owed'
    OBVIOUS
  <2>1. i \in audit => i \notin owed /\ push[i] # "sending"
    BY DEF IInv, ItemState
  <2>2. ASSUME NEW e \in Emitters, Escalate(e)
        PROVE  state'[i] = state[i] /\ UNCHANGED <<push, owed>>
    BY <2>2, EscalateIsNew DEF IInv, TypeOK, Terminal
  <2>3. ASSUME NEW k \in Items, Enqueue(k)
        PROVE  state'[i] = state[i] /\ push' = push /\ (i \in owed' => i \in owed)
    <3>1. state[k] = "spawned" /\ i # k
      BY <2>3 DEF Enqueue, NextToStart, Terminal
    <3>2. state'[i] = state[i]
      BY <2>3, <3>1, EnqueueKeepsSuffix DEF IInv, Terminal, Pending
    <3> QED BY <2>3, <3>1, <3>2, EnqueueKeepsSuffix DEF IInv, Enqueue, emits
  <2>4. CASE \E k \in Items : AutoEmit(k)
    BY <2>1, <2>4 DEF IInv, TypeOK, AutoEmit, NextToStart, Gate, records, Terminal
  <2>5. CASE \E k \in Items : RecordTerminal(k)
    BY <2>1, <2>5 DEF RecordTerminal, queue, emits
  <2>6. CASE \E k \in Items : SendDone(k) \/ SendFailed(k)
    BY <2>1, <2>6 DEF IInv, TypeOK, SendDone, SendFailed, OweIfApproved, queue
  <2>7. CASE \E k \in Items : Approve(k) \/ Reject(k)
    BY <2>1, <2>7 DEF IInv, TypeOK, Approve, Reject, MayDecide, Pending, Gate, emits, Terminal
  <2>8. CASE ExpireStale
    BY <2>1, <2>8 DEF ExpireStale, Overdue, Pending, emits, Terminal
  <2>9. CASE Tick
    BY <2>1, <2>9 DEF Tick, records
  <2> QED BY <2>1, <2>2, <2>3, <2>4, <2>5, <2>6, <2>7, <2>8, <2>9 DEF Next, OnLoop
<1> QED BY <1>1, InitIInv, NextIInv, PTL DEF Spec, DecidedForGood

=============================================================================
