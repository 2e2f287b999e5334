--------------------------- MODULE AutoTaskerProofs ---------------------------
(***************************************************************************)
(* AutoTasker for every fleet, budget, interval and number of tunes: the   *)
(* budget, the spacing of a node's tunes, and what the radio ends up on.   *)
(*                                                                         *)
(* The budget holds because a slot in the window is held exactly by the    *)
(* tunes under way or acknowledged, so that what the check counts is what  *)
(* the promise is about.  The spacing holds although a release may forget  *)
(* a node's last tune: the tunes before it were an interval old already    *)
(* when it was posted (Spaced).                                            *)
(***************************************************************************)
EXTENDS AutoTasker, FiniteSetTheorems, TLAPS

\* Tasks are numbered without gaps, and start in that order.
TasksInOrder ==
    /\ \E u \in 0 .. MaxTunes : \A j \in Tunes : phase[j] # "none" <=> j <= u
    /\ \A j, k \in Tunes :
           phase[j] = "spawned" /\ phase[k] \notin {"none", "spawned"} => k < j

\* What a task's phase says about its node, its command and its age.
TaskState(j) ==
    /\ phase[j] # "none" => node[j] \in Nodes /\ emitter[j] \in Emitters
    /\ wire[j] # "unsent" <=> phase[j] \in {"posting", "issued", "failed"}
    /\ phase[j] = "issued" => wire[j] = "accepted"
    /\ phase[j] \in {"none", "spawned"} => age[j] = 0
    /\ phase[j] = "posting" => age[j] <= PostTimeout

\* Of the tunes of a node, only the last one can be younger than the interval.
Spaced == \A j \in Tunes : Holds(j) => lastTune[node[j]] = j \/ age[j] >= MinInterval

\* A queue holds commands that arrived for its node.
QueuesHold ==
    \A n \in Nodes : \A i \in DOMAIN accepted[n] :
        wire[accepted[n][i]] = "accepted" /\ node[accepted[n][i]] = n

IInv ==
    /\ TypeOK
    /\ SlotsAccountedFor
    /\ Cardinality(Recent) <= Budget
    /\ TasksInOrder
    /\ \A j \in Tunes : TaskState(j)
    /\ Spaced
    /\ QueuesHold

-----------------------------------------------------------------------------
(* The constants and the budget *)

LEMMA Constants ==
    /\ IsFiniteSet(Nodes) /\ None \notin Nodes /\ None \notin Emitters /\ None \notin Tunes
    /\ MinInterval \in Nat \ {0} /\ Window \in Nat \ {0} /\ Budget \in Nat \ {0}
    /\ PostTimeout \in Nat \ {0} /\ MaxTunes \in Nat \ {0}
    /\ MinInterval <= Window /\ PostTimeout <= Window
    /\ Tunes \subseteq Nat
<1>1. /\ IsFiniteSet(Nodes) /\ None \notin Nodes /\ None \notin Emitters /\ None \notin Nat
      /\ MinInterval <= Window /\ PostTimeout <= Window
  BY TaskerAssumption
<1>2. /\ MinInterval \in Nat \ {0} /\ Window \in Nat \ {0} /\ Budget \in Nat \ {0}
      /\ PostTimeout \in Nat \ {0} /\ MaxTunes \in Nat \ {0}
  BY TaskerAssumption
<1>3. Tunes \subseteq Nat
  BY <1>2 DEF Tunes
<1>4. None \notin Tunes
  BY <1>1, <1>3
<1> HIDE DEF Tunes
<1> QED BY <1>1, <1>2, <1>3, <1>4

LEMMA TunesFinite ==
    ASSUME NEW S \in SUBSET Tunes
    PROVE  IsFiniteSet(S) /\ Cardinality(S) \in Nat
<1>1. IsFiniteSet(1 .. MaxTunes)
  <2>1. 1 \in Int /\ MaxTunes \in Int
    BY Constants
  <2> QED BY <2>1, FS_Interval
<1>2. IsFiniteSet(S)
  BY <1>1, FS_Subset DEF Tunes
<1> QED BY <1>2, FS_CardinalityType

LEMMA FewerTunes ==
    ASSUME NEW S \in SUBSET Tunes, NEW T \in SUBSET S
    PROVE  Cardinality(T) <= Cardinality(S)
  BY TunesFinite, FS_Subset

LEMMA OneMoreTune ==
    ASSUME NEW S \in SUBSET Tunes, NEW j \in Tunes
    PROVE  Cardinality(S \cup {j}) <= Cardinality(S) + 1
<1>1. IsFiniteSet(S) /\ Cardinality(S) \in Nat
  BY TunesFinite
<1> QED BY <1>1, FS_AddElement

\* The window of the check holds the tunes the promise counts, and no other.
LEMMA RecentIsHeld ==
    ASSUME TypeOK, SlotsAccountedFor
    PROVE  {j \in Tunes : Holds(j) /\ age[j] <= Window} = Recent
  BY DEF TypeOK, SlotsAccountedFor, Recent

\* A tune that was counted or starts anew is of the tasks of its node's clock.
LEMMA BudgetFromSlots ==
    ASSUME IInv
    PROVE  BudgetKept
  BY RecentIsHeld DEF IInv, BudgetKept

-----------------------------------------------------------------------------
(* Lists of nodes, and how many tasks there are *)

LEMMA ListOfNodes ==
    ASSUME NEW l \in NodeLists
    PROVE  /\ Len(l) \in Nat
           /\ \A i \in 1 .. Len(l) : l[i] \in Nodes
<1>1. PICK k \in 1 .. Cardinality(Nodes) : l \in [1 .. k -> Nodes]
  BY DEF NodeLists
<1>2. k \in Nat
  BY <1>1, Constants, FS_CardinalityType
<1>3. l \in Seq(Nodes) /\ Len(l) = k
  BY <1>1, <1>2
<1> QED BY <1>1, <1>2, <1>3

LEMMA TasksCounted ==
    ASSUME TasksInOrder, TypeOK
    PROVE  LET used == Cardinality({j \in Tunes : phase[j] # "none"})
           IN  used \in 0 .. MaxTunes /\ \A j \in Tunes : phase[j] # "none" <=> j <= used
<1>1. PICK u \in 0 .. MaxTunes : \A j \in Tunes : phase[j] # "none" <=> j <= u
  BY DEF TasksInOrder
<1>2. {j \in Tunes : phase[j] # "none"} = 1 .. u
  BY <1>1, Constants DEF Tunes
<1>3. Cardinality(1 .. u) = u
  BY FS_Interval, Constants
<1> QED BY <1>1, <1>2, <1>3

-----------------------------------------------------------------------------
(* The invariant is inductive *)

LEMMA InitIInv == Init => IInv
<1> SUFFICES ASSUME Init PROVE IInv
  OBVIOUS
<1>1. \A j \in Tunes : ~Holds(j)
  BY DEF Init, Holds
<1>2. TypeOK
  BY Constants DEF Init, TypeOK, Phases, IsInjective
<1>3. SlotsAccountedFor
  BY <1>1 DEF Init, SlotsAccountedFor
<1>4. Cardinality(Recent) <= Budget
  <2>1. Recent = {}
    BY DEF Init, Recent
  <2> QED BY <2>1, FS_EmptySet, Constants
<1>5. TasksInOrder
  <2>1. 0 \in 0 .. MaxTunes /\ \A j \in Tunes : ~(j <= 0)
    BY Constants DEF Tunes
  <2> QED BY <2>1 DEF Init, TasksInOrder
<1>6. \A j \in Tunes : TaskState(j)
  BY DEF Init, TaskState
<1>7. Spaced
  BY <1>1 DEF Spaced
<1>8. QueuesHold
  BY DEF Init, QueuesHold
<1> QED BY <1>2, <1>3, <1>4, <1>5, <1>6, <1>7, <1>8 DEF IInv

LEMMA AssessmentIInv ==
    ASSUME IInv, NEW e \in Emitters, NEW l \in NodeLists, HandleAssessment(e, l)
    PROVE  IInv'
<1> DEFINE used == Cardinality({j \in Tunes : phase[j] # "none"})
           new  == used + 1 .. used + Len(l)
<1>1. /\ new \subseteq Tunes
      /\ node' = [j \in Tunes |-> IF j \in new THEN l[j - used] ELSE node[j]]
      /\ emitter' = [j \in Tunes |-> IF j \in new THEN e ELSE emitter[j]]
      /\ phase' = [j \in Tunes |-> IF j \in new THEN "spawned" ELSE phase[j]]
      /\ UNCHANGED <<wire, age, lastTune, counted, clients, accepted, tunedTo>>
  BY DEF HandleAssessment, limits, device
<1>2. used \in 0 .. MaxTunes /\ \A j \in Tunes : phase[j] # "none" <=> j <= used
  BY TasksCounted DEF IInv
<1>3. Len(l) \in Nat /\ \A i \in 1 .. Len(l) : l[i] \in Nodes
  BY ListOfNodes
<1> HIDE DEF used
<1>4. ASSUME NEW j \in new
      PROVE  phase[j] = "none" /\ l[j - used] \in Nodes
  <2>1. j \in Tunes /\ ~(j <= used) /\ j - used \in 1 .. Len(l)
    BY <1>1, <1>2, <1>3, Constants
  <2> QED BY <2>1, <1>2, <1>3
<1>5. used + Len(l) \in 0 .. MaxTunes
  BY <1>1, <1>2, <1>3, Constants DEF Tunes
<1>6. \A j \in Tunes : j \in new <=> used < j /\ j <= used + Len(l)
  BY <1>2, <1>3, Constants
<1> HIDE DEF new
<1>7. \A j \in Tunes : Holds(j)' <=> Holds(j)
  BY <1>1, <1>4 DEF Holds
<1>8. TypeOK'
  BY <1>1, <1>4 DEF IInv, TypeOK, Phases
<1>9. SlotsAccountedFor'
  <2>1. \A j \in Tunes : Holds(j) => node'[j] = node[j]
    BY <1>1, <1>4 DEF Holds
  <2> QED BY <1>1, <1>7, <2>1 DEF IInv, SlotsAccountedFor, TypeOK
<1>10. Cardinality(Recent)' <= Budget
  BY <1>1 DEF IInv, Recent
<1>11. TasksInOrder'
  <2>1. \A j \in Tunes : phase'[j] # "none" <=> j <= used + Len(l)
    BY <1>1, <1>2, <1>3, <1>6, Constants DEF Tunes
  <2>2. ASSUME NEW j \in Tunes, NEW k \in Tunes,
               phase'[j] = "spawned", phase'[k] \notin {"none", "spawned"}
        PROVE  k < j
    <3>1. k \notin new /\ phase[k] \notin {"none", "spawned"}
      BY <1>1, <2>2
    <3>2. CASE j \in new
      BY <3>1, <3>2, <1>2, <1>6, Constants
    <3>3. CASE j \notin new
      BY <3>1, <3>3, <2>2, <1>1 DEF IInv, TasksInOrder
    <3> QED BY <3>2, <3>3
  <2> QED BY <1>5, <2>1, <2>2 DEF TasksInOrder
<1>12. \A j \in Tunes : TaskState(j)'
  BY <1>1, <1>4 DEF IInv, TaskState
<1>13. Spaced'
  BY <1>1, <1>4, <1>7 DEF IInv, Spaced, Holds
<1>14. QueuesHold'
  <2>1. \A j \in Tunes : wire[j] = "accepted" => node'[j] = node[j]
    BY <1>1, <1>4 DEF IInv, TaskState
  <2>2. \A n \in Nodes : \A i \in DOMAIN accepted[n] : accepted[n][i] \in Tunes
    BY DEF IInv, TypeOK
  <2> QED BY <1>1, <2>1, <2>2 DEF IInv, QueuesHold
<1> QED BY <1>8, <1>9, <1>10, <1>11, <1>12, <1>13, <1>14 DEF IInv

\* The first spawned task moves on to any later phase, or a started one does.
LEMMA StartedInOrder ==
    ASSUME TypeOK, TasksInOrder,
           NEW j \in Tunes, NEW p \in Phases \ {"none", "spawned"},
           phase[j] # "none", \A k \in Tunes : phase[k] = "spawned" => j <= k,
           phase' = [phase EXCEPT ![j] = p]
    PROVE  TasksInOrder'
<1>1. PICK u \in 0 .. MaxTunes : \A k \in Tunes : phase[k] # "none" <=> k <= u
  BY DEF TasksInOrder
<1>2. \A k \in Tunes : phase'[k] # "none" <=> k <= u
  BY <1>1 DEF TypeOK
<1>3. ASSUME NEW i \in Tunes, NEW k \in Tunes,
             phase'[i] = "spawned", phase'[k] \notin {"none", "spawned"}
      PROVE  k < i
  <2>1. i # j /\ phase[i] = "spawned"
    BY <1>3 DEF TypeOK
  <2>2. CASE k = j
    BY <2>1, <2>2, Constants
  <2>3. CASE k # j
    BY <1>3, <2>1, <2>3 DEF TasksInOrder, TypeOK
  <2> QED BY <2>2, <2>3
<1> QED BY <1>1, <1>2, <1>3 DEF TasksInOrder

\* A started task moves on.
LEMMA MovedOn ==
    ASSUME TypeOK, TasksInOrder,
           NEW j \in Tunes, NEW p \in Phases \ {"none", "spawned"},
           phase[j] \notin {"none", "spawned"}, phase' = [phase EXCEPT ![j] = p]
    PROVE  TasksInOrder'
<1>1. \A k \in Tunes : /\ phase'[k] = "none" <=> phase[k] = "none"
                       /\ phase'[k] = "spawned" <=> phase[k] = "spawned"
  BY DEF TypeOK
<1>2. PICK u \in 0 .. MaxTunes : \A k \in Tunes : phase[k] # "none" <=> k <= u
  BY DEF TasksInOrder
<1>3. \A k \in Tunes : phase'[k] # "none" <=> k <= u
  BY <1>1, <1>2
<1>4. \A i, k \in Tunes :
         phase'[i] = "spawned" /\ phase'[k] \notin {"none", "spawned"} => k < i
  BY <1>1 DEF TasksInOrder
<1> QED BY <1>3, <1>4 DEF TasksInOrder

LEMMA SkipIInv ==
    ASSUME IInv, NEW j \in Tunes, Skip(j)
    PROVE  IInv'
<1>1. /\ phase[j] = "spawned" /\ \A k \in Tunes : phase[k] = "spawned" => j <= k
      /\ phase' = [phase EXCEPT ![j] = "skipped"]
      /\ counted' = counted \/ counted' = Recent
      /\ UNCHANGED <<node, emitter, wire, age, lastTune, clients, accepted, tunedTo>>
  BY DEF Skip, NextToStart, device
<1>2. \A k \in Tunes : Holds(k)' <=> Holds(k)
  BY <1>1 DEF IInv, TypeOK, Holds
<1>3. TypeOK'
  BY <1>1 DEF IInv, TypeOK, Phases, Recent
<1>4. SlotsAccountedFor'
  BY <1>1, <1>2 DEF IInv, SlotsAccountedFor, TypeOK, Recent
<1>5. Cardinality(Recent)' <= Budget
  <2>1. Recent' = Recent
    BY <1>1 DEF Recent
  <2> QED BY <2>1 DEF IInv
<1>6. TasksInOrder'
  BY <1>1, StartedInOrder DEF IInv, Phases
<1>7. \A k \in Tunes : TaskState(k)'
  BY <1>1 DEF IInv, TaskState, TypeOK
<1>8. Spaced'
  BY <1>1, <1>2 DEF IInv, Spaced
<1>9. QueuesHold'
  BY <1>1 DEF IInv, QueuesHold
<1> QED BY <1>3, <1>4, <1>5, <1>6, <1>7, <1>8, <1>9 DEF IInv

\* A tune that the limits let through finds the others of its node old enough.
LEMMA OthersOld ==
    ASSUME IInv, NEW j \in Tunes, MayReserve(j)
    PROVE  \A k \in Tunes : Holds(k) /\ node[k] = node[j] => age[k] >= MinInterval
<1> SUFFICES ASSUME NEW k \in Tunes, Holds(k), node[k] = node[j],
                    lastTune[node[j]] = k
             PROVE  age[k] >= MinInterval
  BY DEF IInv, Spaced
<1>1. k # None /\ age[k] \in Nat /\ MinInterval \in Nat
  BY Constants DEF IInv, TypeOK
<1> QED BY <1>1 DEF MayReserve, RateLimited

LEMMA PostIInv ==
    ASSUME IInv, NEW j \in Tunes, Post(j)
    PROVE  IInv'
<1>1. /\ phase[j] = "spawned" /\ \A k \in Tunes : phase[k] = "spawned" => j <= k
      /\ phase' = [phase EXCEPT ![j] = "posting"]
      /\ wire' = [wire EXCEPT ![j] = "underway"]
      /\ lastTune' = [lastTune EXCEPT ![node[j]] = j]
      /\ counted' = Recent \cup {j}
      /\ UNCHANGED <<node, emitter, age, clients, accepted, tunedTo>>
  BY DEF Post, MayReserve, NextToStart, device
<1>2. node[j] \in Nodes /\ age[j] = 0 /\ wire[j] = "unsent"
  BY <1>1 DEF IInv, TaskState, TypeOK
<1>3. \A k \in Tunes : Holds(k)' <=> Holds(k) \/ k = j
  BY <1>1 DEF IInv, TypeOK, Holds
<1>4. TypeOK'
  BY <1>1 DEF IInv, TypeOK, Phases, Recent
<1>5. SlotsAccountedFor'
  BY <1>1, <1>2, <1>3 DEF IInv, SlotsAccountedFor, TypeOK, Recent
<1>6. Cardinality(Recent)' <= Budget
  <2>1. Recent' = Recent \cup {j}
    BY <1>1, <1>2, Constants DEF Recent
  <2>2. Recent \in SUBSET Tunes
    BY DEF IInv, TypeOK, Recent
  <2>3. Cardinality(Recent) < Budget
    BY DEF Post, MayReserve, InBudget
  <2>4. Cardinality(Recent) \in Nat /\ Cardinality(Recent \cup {j}) \in Nat
    BY <2>2, TunesFinite
  <2>5. Cardinality(Recent \cup {j}) <= Cardinality(Recent) + 1
    BY <2>2, OneMoreTune
  <2> QED BY <2>1, <2>3, <2>4, <2>5, Constants
<1>7. TasksInOrder'
  BY <1>1, StartedInOrder DEF IInv, Phases
<1>8. \A k \in Tunes : TaskState(k)'
  BY <1>1, <1>2, Constants DEF IInv, TaskState, TypeOK
<1>9. Spaced'
  <2>1. \A k \in Tunes : Holds(k) /\ node[k] = node[j] => age[k] >= MinInterval
    BY OthersOld DEF Post
  <2> QED BY <1>1, <1>2, <1>3, <2>1 DEF IInv, Spaced, TypeOK
<1>10. QueuesHold'
  <2>1. \A n \in Nodes : \A i \in DOMAIN accepted[n] : accepted[n][i] \in Tunes
    BY DEF IInv, TypeOK
  <2> QED BY <1>1, <1>2, <2>1 DEF IInv, QueuesHold, TypeOK
<1> QED BY <1>4, <1>5, <1>6, <1>7, <1>8, <1>9, <1>10 DEF IInv

LEMMA WithdrawIInv ==
    ASSUME IInv, NEW j \in Tunes, Withdraw(j)
    PROVE  IInv'
<1>1. /\ phase[j] = "spawned" /\ \A k \in Tunes : phase[k] = "spawned" => j <= k
      /\ phase' = [phase EXCEPT ![j] = "skipped"]
      /\ lastTune' = [lastTune EXCEPT ![node[j]] = None]
      /\ counted' = Recent
      /\ UNCHANGED <<node, emitter, wire, age, clients, accepted, tunedTo>>
  BY DEF Withdraw, MayReserve, NextToStart, device
<1>2. node[j] \in Nodes
  BY <1>1 DEF IInv, TaskState
<1>3. \A k \in Tunes : Holds(k)' <=> Holds(k)
  BY <1>1 DEF IInv, TypeOK, Holds
<1>4. TypeOK'
  BY <1>1 DEF IInv, TypeOK, Phases, Recent
<1>5. SlotsAccountedFor'
  BY <1>1, <1>2, <1>3 DEF IInv, SlotsAccountedFor, TypeOK, Recent
<1>6. Cardinality(Recent)' <= Budget
  <2>1. Recent' = Recent
    BY <1>1 DEF Recent
  <2> QED BY <2>1 DEF IInv
<1>7. TasksInOrder'
  BY <1>1, StartedInOrder DEF IInv, Phases
<1>8. \A k \in Tunes : TaskState(k)'
  BY <1>1 DEF IInv, TaskState, TypeOK
<1>9. Spaced'
  <2>1. \A k \in Tunes : Holds(k) /\ node[k] = node[j] => age[k] >= MinInterval
    BY OthersOld DEF Withdraw
  <2> QED BY <1>1, <1>2, <1>3, <2>1 DEF IInv, Spaced, TypeOK
<1>10. QueuesHold'
  BY <1>1 DEF IInv, QueuesHold
<1> QED BY <1>4, <1>5, <1>6, <1>7, <1>8, <1>9, <1>10 DEF IInv

LEMMA IssuedIInv ==
    ASSUME IInv, NEW j \in Tunes, Issued(j)
    PROVE  IInv'
<1>1. /\ phase[j] = "posting" /\ wire[j] = "accepted"
      /\ phase' = [phase EXCEPT ![j] = "issued"]
      /\ UNCHANGED <<node, emitter, wire, age, lastTune, counted, clients, accepted, tunedTo>>
  BY DEF Issued, limits, device
<1>2. \A k \in Tunes : Holds(k)' <=> Holds(k)
  BY <1>1 DEF IInv, TypeOK, Holds
<1>3. TypeOK'
  BY <1>1 DEF IInv, TypeOK, Phases
<1>4. SlotsAccountedFor'
  BY <1>1, <1>2 DEF IInv, SlotsAccountedFor, TypeOK
<1>5. Cardinality(Recent)' <= Budget
  BY <1>1 DEF IInv, Recent
<1>6. TasksInOrder'
  BY <1>1, MovedOn DEF IInv, Phases
<1>7. \A k \in Tunes : TaskState(k)'
  BY <1>1 DEF IInv, TaskState, TypeOK
<1>8. Spaced'
  BY <1>1, <1>2 DEF IInv, Spaced
<1>9. QueuesHold'
  BY <1>1 DEF IInv, QueuesHold
<1> QED BY <1>3, <1>4, <1>5, <1>6, <1>7, <1>8, <1>9 DEF IInv

LEMMA FailedIInv ==
    ASSUME IInv, NEW j \in Tunes, Failed(j)
    PROVE  IInv'
<1>1. /\ phase[j] = "posting"
      /\ phase' = [phase EXCEPT ![j] = "failed"]
      /\ lastTune' = [lastTune EXCEPT ![node[j]] = IF @ = j THEN None ELSE @]
      /\ counted' = counted \ {j}
      /\ UNCHANGED <<node, emitter, wire, age, clients, accepted, tunedTo>>
  BY DEF Failed, Release, device
<1>2. node[j] \in Nodes
  BY <1>1 DEF IInv, TaskState
<1>3. \A k \in Tunes : Holds(k)' <=> Holds(k) /\ k # j
  BY <1>1 DEF IInv, TypeOK, Holds
<1>4. TypeOK'
  BY <1>1 DEF IInv, TypeOK, Phases
<1>5. SlotsAccountedFor'
  BY <1>1, <1>2, <1>3 DEF IInv, SlotsAccountedFor, TypeOK
<1>6. Cardinality(Recent)' <= Budget
  <2>1. Recent \in SUBSET Tunes /\ Recent' \in SUBSET Recent
    BY <1>1 DEF IInv, TypeOK, Recent
  <2>2. Cardinality(Recent') <= Cardinality(Recent)
    BY <2>1, FewerTunes
  <2>3. Cardinality(Recent') \in Nat /\ Cardinality(Recent) \in Nat
    BY <2>1, TunesFinite
  <2> QED BY <2>2, <2>3, Constants DEF IInv
<1>7. TasksInOrder'
  BY <1>1, MovedOn DEF IInv, Phases
<1>8. \A k \in Tunes : TaskState(k)'
  BY <1>1 DEF IInv, TaskState, TypeOK
<1>9. Spaced'
  <2>1. \A k \in Tunes : lastTune[node[k]] = k /\ k # j /\ node[k] \in Nodes
                       => lastTune'[node[k]] = k
    BY <1>1, <1>2 DEF IInv, TypeOK
  <2>2. \A k \in Tunes : Holds(k) => node[k] \in Nodes
    BY DEF IInv, TaskState, Holds
  <2> QED BY <1>1, <1>3, <2>1, <2>2 DEF IInv, Spaced
<1>10. QueuesHold'
  BY <1>1 DEF IInv, QueuesHold
<1> QED BY <1>4, <1>5, <1>6, <1>7, <1>8, <1>9, <1>10 DEF IInv

\* Nothing but the fleet's clients changes.
LEMMA ClientsIInv ==
    ASSUME IInv, NEW n \in Nodes, AddNode(n) \/ RemoveNode(n)
    PROVE  IInv'
<1>1. /\ clients' \subseteq Nodes
      /\ UNCHANGED <<node, emitter, phase, wire, age, lastTune, counted, accepted, tunedTo>>
  BY DEF AddNode, RemoveNode, limits, device, IInv, TypeOK
<1>2. TypeOK'
  BY <1>1 DEF IInv, TypeOK
<1>3. \A k \in Tunes : (Holds(k)' <=> Holds(k)) /\ TaskState(k)'
  BY <1>1 DEF IInv, Holds, TaskState
<1>4. SlotsAccountedFor' /\ Spaced'
  BY <1>1, <1>3 DEF IInv, SlotsAccountedFor, Spaced, TypeOK
<1>5. Cardinality(Recent)' <= Budget
  BY <1>1 DEF IInv, Recent
<1>6. TasksInOrder' /\ QueuesHold'
  BY <1>1 DEF IInv, TasksInOrder, QueuesHold
<1> QED BY <1>2, <1>3, <1>4, <1>5, <1>6 DEF IInv

LEMMA AcceptIInv ==
    ASSUME IInv, NEW j \in Tunes, Accept(j)
    PROVE  IInv'
<1>1. /\ wire[j] = "underway"
      /\ wire' = [wire EXCEPT ![j] = "accepted"]
      /\ accepted' = [accepted EXCEPT ![node[j]] = Append(@, j)]
      /\ UNCHANGED <<node, emitter, phase, age, lastTune, counted, clients, tunedTo>>
  BY DEF Accept, limits
<1>2. node[j] \in Nodes /\ accepted[node[j]] \in Seq(Tunes) /\ IsInjective(accepted[node[j]])
  BY <1>1 DEF IInv, TaskState, TypeOK
<1>3. \A i \in DOMAIN accepted[node[j]] : accepted[node[j]][i] # j
  BY <1>1, <1>2 DEF IInv, QueuesHold
<1>4. TypeOK'
  <2>1. IsInjective(Append(accepted[node[j]], j))
    BY <1>2, <1>3 DEF IsInjective
  <2> QED BY <1>1, <1>2, <2>1 DEF IInv, TypeOK
<1>5. \A k \in Tunes : (Holds(k)' <=> Holds(k)) /\ TaskState(k)'
  BY <1>1 DEF IInv, Holds, TaskState, TypeOK
<1>6. SlotsAccountedFor' /\ Spaced'
  BY <1>1, <1>5 DEF IInv, SlotsAccountedFor, Spaced, TypeOK
<1>7. Cardinality(Recent)' <= Budget
  BY <1>1 DEF IInv, Recent
<1>8. TasksInOrder'
  BY <1>1 DEF IInv, TasksInOrder
<1>9. QueuesHold'
  <2>1. \A i \in DOMAIN accepted'[node[j]] :
           accepted'[node[j]][i] = j \/ \E h \in DOMAIN accepted[node[j]] :
                                           accepted'[node[j]][i] = accepted[node[j]][h]
    BY <1>1, <1>2 DEF IInv, TypeOK
  <2>2. \A n \in Nodes \ {node[j]} : accepted'[n] = accepted[n]
    BY <1>1 DEF IInv, TypeOK
  <2>3. \A k \in Tunes : wire[k] = "accepted" => wire'[k] = "accepted"
    BY <1>1 DEF IInv, TypeOK
  <2>4. \A n \in Nodes : \A i \in DOMAIN accepted[n] : accepted[n][i] \in Tunes
    BY DEF IInv, TypeOK
  <2>5. wire'[j] = "accepted" /\ node' = node
    BY <1>1 DEF IInv, TypeOK
  <2> HIDE DEF IInv
  <2> QED BY <2>1, <2>2, <2>3, <2>4, <2>5 DEF IInv, QueuesHold
<1> QED BY <1>4, <1>5, <1>6, <1>7, <1>8, <1>9 DEF IInv

LEMMA LoseIInv ==
    ASSUME IInv, NEW j \in Tunes, Lose(j)
    PROVE  IInv'
<1>1. /\ wire[j] = "underway"
      /\ wire' = [wire EXCEPT ![j] = "lost"]
      /\ UNCHANGED <<node, emitter, phase, age, lastTune, counted, clients, accepted, tunedTo>>
  BY DEF Lose, limits, device
<1>2. TypeOK'
  BY <1>1 DEF IInv, TypeOK
<1>3. \A k \in Tunes : (Holds(k)' <=> Holds(k)) /\ TaskState(k)'
  BY <1>1 DEF IInv, Holds, TaskState, TypeOK
<1>4. SlotsAccountedFor' /\ Spaced'
  BY <1>1, <1>3 DEF IInv, SlotsAccountedFor, Spaced, TypeOK
<1>5. Cardinality(Recent)' <= Budget
  BY <1>1 DEF IInv, Recent
<1>6. TasksInOrder'
  BY <1>1 DEF IInv, TasksInOrder
<1>7. QueuesHold'
  <2>1. \A n \in Nodes : \A i \in DOMAIN accepted[n] : accepted[n][i] \in Tunes
    BY DEF IInv, TypeOK
  <2> QED BY <1>1, <2>1 DEF IInv, QueuesHold, TypeOK
<1> QED BY <1>2, <1>3, <1>4, <1>5, <1>6, <1>7 DEF IInv

LEMMA FrameIInv ==
    ASSUME IInv, NEW n \in Nodes, Frame(n)
    PROVE  IInv'
<1>1. /\ accepted[n] # <<>>
      /\ tunedTo' = [tunedTo EXCEPT ![n] = emitter[Last(accepted[n])]]
      /\ accepted' = [accepted EXCEPT ![n] = <<>>]
      /\ UNCHANGED <<node, emitter, phase, wire, age, lastTune, counted, clients>>
  BY DEF Frame, limits
<1>2. TypeOK'
  <2>1. Last(accepted[n]) \in Tunes
    BY <1>1 DEF IInv, TypeOK, Last
  <2>2. <<>> \in Seq(Tunes) /\ IsInjective(<<>>)
    BY DEF IsInjective
  <2> QED BY <1>1, <2>1, <2>2 DEF IInv, TypeOK
<1>3. \A k \in Tunes : (Holds(k)' <=> Holds(k)) /\ TaskState(k)'
  BY <1>1 DEF IInv, Holds, TaskState
<1>4. SlotsAccountedFor' /\ Spaced'
  BY <1>1, <1>3 DEF IInv, SlotsAccountedFor, Spaced, TypeOK
<1>5. Cardinality(Recent)' <= Budget
  BY <1>1 DEF IInv, Recent
<1>6. TasksInOrder'
  BY <1>1 DEF IInv, TasksInOrder
<1>7. QueuesHold'
  BY <1>1 DEF IInv, QueuesHold, TypeOK
<1> QED BY <1>2, <1>3, <1>4, <1>5, <1>6, <1>7 DEF IInv

LEMMA TickIInv ==
    ASSUME IInv, Tick
    PROVE  IInv'
<1>1. /\ \A j \in Tunes : phase[j] = "posting" => age[j] < PostTimeout
      /\ age' = [j \in Tunes |-> IF phase[j] \in {"posting", "issued", "failed"}
                                 THEN Older(age[j]) ELSE age[j]]
      /\ UNCHANGED <<node, emitter, phase, wire, lastTune, counted, clients, accepted, tunedTo>>
  BY DEF Tick, limits, device
<1>2. \A j \in Tunes : /\ age[j] \in Nat /\ age'[j] \in 0 .. Window + 1 /\ age[j] <= age'[j]
                       /\ age'[j] <= age[j] + 1
                       /\ age'[j] <= Window => age[j] <= Window
                       /\ phase[j] \in {"none", "spawned"} => age'[j] = age[j]
  BY <1>1, Constants DEF IInv, TypeOK, Older
<1>3. TypeOK'
  <2>1. age' \in [Tunes -> 0 .. Window + 1]
    BY <1>1, <1>2
  <2> QED BY <1>1, <2>1 DEF IInv, TypeOK
<1>4. \A j \in Tunes : Holds(j)' <=> Holds(j)
  BY <1>1 DEF Holds
<1>5. SlotsAccountedFor'
  BY <1>1, <1>2, <1>4 DEF IInv, SlotsAccountedFor, TypeOK
<1>6. Cardinality(Recent)' <= Budget
  <2>1. Recent \in SUBSET Tunes /\ Recent' \in SUBSET Recent
    BY <1>1, <1>2 DEF IInv, TypeOK, Recent
  <2>2. Cardinality(Recent') <= Cardinality(Recent)
    BY <2>1, FewerTunes
  <2>3. Cardinality(Recent') \in Nat /\ Cardinality(Recent) \in Nat
    BY <2>1, TunesFinite
  <2> QED BY <2>2, <2>3, Constants DEF IInv
<1>7. TasksInOrder'
  BY <1>1 DEF IInv, TasksInOrder
<1>8. \A j \in Tunes : TaskState(j)'
  BY <1>1, <1>2, Constants DEF IInv, TaskState
<1>9. Spaced'
  BY <1>1, <1>2, <1>4, Constants DEF IInv, Spaced
<1>10. QueuesHold'
  BY <1>1 DEF IInv, QueuesHold
<1> QED BY <1>3, <1>5, <1>6, <1>7, <1>8, <1>9, <1>10 DEF IInv

LEMMA StutterIInv ==
    ASSUME IInv, UNCHANGED vars
    PROVE  IInv'
<1>1. UNCHANGED <<node, emitter, phase, wire, age, lastTune, counted, clients, accepted, tunedTo>>
  BY DEF vars, limits, device
<1> QED BY <1>1 DEF IInv, TypeOK, SlotsAccountedFor, Recent, TasksInOrder, TaskState, Spaced,
                    QueuesHold, Holds

LEMMA NextIInv == IInv /\ [Next]_vars => IInv'
<1> SUFFICES ASSUME IInv, [Next]_vars PROVE IInv'
  OBVIOUS
<1>1. ASSUME NEW e \in Emitters, NEW l \in NodeLists, HandleAssessment(e, l) PROVE IInv'
  BY <1>1, AssessmentIInv
<1>2. ASSUME NEW j \in Tunes, Start(j) PROVE IInv'
  BY <1>2, SkipIInv, PostIInv, WithdrawIInv DEF Start
<1>3. ASSUME NEW j \in Tunes, Issued(j) \/ Failed(j) \/ Accept(j) \/ Lose(j) PROVE IInv'
  BY <1>3, IssuedIInv, FailedIInv, AcceptIInv, LoseIInv
<1>4. ASSUME NEW n \in Nodes, AddNode(n) \/ RemoveNode(n) \/ Frame(n) PROVE IInv'
  BY <1>4, ClientsIInv, FrameIInv
<1> QED BY <1>1, <1>2, <1>3, <1>4, TickIInv, StutterIInv DEF Next

-----------------------------------------------------------------------------
(* What a step may change *)

LEMMA OldTasksKept ==
    ASSUME IInv, [Next]_vars, NEW j \in Tunes,
           phase'[j] \in {"posting", "issued"} \/ wire'[j] # "unsent"
    PROVE  phase[j] # "none" /\ node'[j] = node[j] /\ emitter'[j] = emitter[j]
<1>1. phase[j] = "none" => wire[j] = "unsent"
  BY DEF IInv, TaskState
<1>2. CASE \E e \in Emitters, l \in NodeLists : HandleAssessment(e, l)
  <2>1. PICK e \in Emitters, l \in NodeLists : HandleAssessment(e, l)
    BY <1>2
  <2>2. CASE phase[j] # "none"
    <3> DEFINE used == Cardinality({i \in Tunes : phase[i] # "none"})
    <3>1. used \in 0 .. MaxTunes /\ j <= used /\ Len(l) \in Nat
      BY <2>2, TasksCounted, ListOfNodes DEF IInv
    <3> HIDE DEF used
    <3>2. j \notin used + 1 .. used + Len(l)
      BY <3>1, Constants
    <3> USE DEF used
    <3> QED BY <2>1, <2>2, <3>2 DEF HandleAssessment
  <2>3. CASE phase[j] = "none"
    BY <1>1, <2>1, <2>3 DEF HandleAssessment
  <2> QED BY <2>2, <2>3
<1>3. CASE \E i \in Tunes : Start(i) \/ Issued(i) \/ Failed(i) \/ Accept(i) \/ Lose(i)
  BY <1>1, <1>3 DEF IInv, TypeOK, TaskState, Start, Skip, Post, Withdraw, Issued, Failed,
                    Accept, Lose, MayReserve, NextToStart
<1>4. CASE (\E n \in Nodes : AddNode(n) \/ RemoveNode(n) \/ Frame(n)) \/ Tick \/ UNCHANGED vars
  BY <1>1, <1>4 DEF AddNode, RemoveNode, Frame, Tick, vars
<1> QED BY <1>2, <1>3, <1>4 DEF Next

LEMMA OnlyPostPosts ==
    ASSUME IInv, [Next]_vars, NEW j \in Tunes,
           phase[j] # "posting", phase'[j] # phase[j], phase'[j] \in {"posting", "issued"}
    PROVE  Post(j) /\ phase[j] = "spawned" /\ phase'[j] = "posting"
<1>1. phase \in [Tunes -> Phases]
  BY DEF IInv, TypeOK
<1>2. ~ \E e \in Emitters, l \in NodeLists : HandleAssessment(e, l)
  BY DEF HandleAssessment
<1>3. ASSUME NEW i \in Tunes, Start(i) \/ Issued(i) \/ Failed(i) \/ Accept(i) \/ Lose(i)
      PROVE  Post(j) /\ phase[j] = "spawned" /\ phase'[j] = "posting"
  BY <1>1, <1>3 DEF Start, Skip, Post, Withdraw, Issued, Failed, Accept, Lose, MayReserve, NextToStart
<1>4. ~((\E n \in Nodes : AddNode(n) \/ RemoveNode(n) \/ Frame(n)) \/ Tick \/ UNCHANGED vars)
  BY DEF AddNode, RemoveNode, Frame, Tick, vars
<1> QED BY <1>2, <1>3, <1>4 DEF Next

LEMMA OnlyAcceptAccepts ==
    ASSUME IInv, [Next]_vars, NEW j \in Tunes, wire'[j] = "accepted", ~Accept(j)
    PROVE  wire[j] = "accepted"
  BY DEF IInv, TypeOK, Next, HandleAssessment, Start, Skip, Post, Withdraw, Issued, Failed,
         Accept, Lose, AddNode, RemoveNode, Frame, Tick, vars

LEMMA ArrivedStay ==
    ASSUME IInv, [Next]_vars, NEW j \in Tunes, wire[j] = "accepted"
    PROVE  wire'[j] = "accepted"
<1>1. phase[j] # "spawned"
  BY DEF IInv, TaskState
<1> QED BY <1>1 DEF IInv, TypeOK, Next, HandleAssessment, Start, Skip, Post, Withdraw, Issued,
           Failed, Accept, Lose, MayReserve, NextToStart, AddNode, RemoveNode, Frame, Tick, vars

LEMMA FailuresStay ==
    ASSUME IInv, [Next]_vars, NEW j \in Tunes, phase[j] = "failed"
    PROVE  phase'[j] = "failed" /\ node'[j] = node[j]
<1>1. wire'[j] # "unsent"
  <2>1. wire[j] # "unsent"
    BY DEF IInv, TaskState
  <2> QED BY <2>1 DEF IInv, TypeOK, Next, HandleAssessment, Start, Skip, Post, Withdraw, Issued,
             Failed, Accept, Lose, AddNode, RemoveNode, Frame, Tick, vars
<1>2. node'[j] = node[j]
  BY <1>1, OldTasksKept
<1>3. CASE \E e \in Emitters, l \in NodeLists : HandleAssessment(e, l)
  <2>1. PICK e \in Emitters, l \in NodeLists : HandleAssessment(e, l)
    BY <1>3
  <2> DEFINE used == Cardinality({i \in Tunes : phase[i] # "none"})
  <2>2. used \in 0 .. MaxTunes /\ j <= used /\ Len(l) \in Nat
    BY TasksCounted, ListOfNodes DEF IInv
  <2> HIDE DEF used
  <2>3. j \notin used + 1 .. used + Len(l)
    BY <2>2, Constants
  <2> USE DEF used
  <2> QED BY <1>2, <2>1, <2>3 DEF HandleAssessment
<1>4. CASE ~\E e \in Emitters, l \in NodeLists : HandleAssessment(e, l)
  BY <1>2, <1>4 DEF IInv, TypeOK, Next, Start, Skip, Post, Withdraw, Issued, Failed,
         Accept, Lose, MayReserve, NextToStart, AddNode, RemoveNode, Frame, Tick, vars
<1> QED BY <1>3, <1>4

LEMMA QueueChanges ==
    ASSUME IInv, [Next]_vars, NEW n \in Nodes, ~Frame(n),
           \A k \in Tunes : ~(Accept(k) /\ node[k] = n)
    PROVE  accepted'[n] = accepted[n] /\ tunedTo'[n] = tunedTo[n]
  BY DEF IInv, TypeOK, Next, HandleAssessment, Start, Skip, Post, Withdraw, Issued, Failed,
         Accept, Lose, AddNode, RemoveNode, Frame, Tick, vars, device

-----------------------------------------------------------------------------
(* The limits *)

\* The tunes under way or acknowledged stay within the fleet-wide budget in
\* every window, and a slot is held exactly for each of them, for every fleet
\* and however tasks, answers, timeouts and the clock interleave.
THEOREM LimitsTheorem == Spec => []LimitsHold
<1>1. IInv => LimitsHold
  BY BudgetFromSlots DEF IInv, LimitsHold
<1> QED BY <1>1, InitIInv, NextIInv, PTL DEF Spec

\* No tune is posted to a node sooner than the interval after the latest one
\* under way or acknowledged there, whatever a failed post released meanwhile.
THEOREM SpacingTheorem == Spec => AcknowledgedTunesSpaced
<1> DEFINE Posted == \A j, k \in Tunes :
                       phase[j] = "spawned" /\ phase'[j] = "posting" /\ Holds(k)
                       /\ node[k] = node[j] => age[k] >= MinInterval
<1>1. IInv /\ [Next]_vars => [Posted]_vars
  <2> SUFFICES ASSUME IInv, Next, NEW j \in Tunes, NEW k \in Tunes,
                      phase[j] = "spawned", phase'[j] = "posting", Holds(k), node[k] = node[j]
               PROVE  age[k] >= MinInterval
    OBVIOUS
  <2>1. Post(j)
    BY OnlyPostPosts
  <2> QED BY <2>1, OthersOld DEF Post
<1> QED BY <1>1, InitIInv, NextIInv, PTL DEF Spec, AcknowledgedTunesSpaced

-----------------------------------------------------------------------------
(* What the radio ends up on.  A post gives up within PostTimeout; when that *)
(* is shorter than the interval, a node has one post under way at a time,    *)
(* and its commands arrive in the order of their tasks.                      *)

\* A tune under way is the last one of its node.
Serial ==
    \A j, k \in Tunes :
        phase[j] = "posting" /\ Holds(k) /\ node[k] = node[j] => k <= j

NoneFailed(n) == \A k \in Tunes : node[k] = n => phase[k] # "failed"

Newest(n, j) ==
    /\ node[j] = n /\ wire[j] = "accepted"
    /\ \A k \in Tunes : node[k] = n /\ wire[k] = "accepted" => k <= j

\* The newest command that arrived is the last in the queue, or has run last.
QueueTail ==
    \A n \in Nodes, j \in Tunes :
        NoneFailed(n) /\ Newest(n, j) =>
            IF accepted[n] = <<>> THEN tunedTo[n] = emitter[j] ELSE Last(accepted[n]) = j

LEMMA InitSerial == Init => Serial /\ QueueTail
  BY DEF Init, Serial, QueueTail, Newest

LEMMA SerialStep ==
    ASSUME PostTimeout < MinInterval, IInv, Serial, [Next]_vars
    PROVE  Serial'
<1> SUFFICES ASSUME NEW j \in Tunes, NEW k \in Tunes,
                    phase'[j] = "posting", Holds(k)', node'[k] = node'[j]
             PROVE  k <= j
  BY DEF Serial
<1>1. phase[j] # "none" /\ phase[k] # "none" /\ node[k] = node[j]
  BY OldTasksKept DEF Holds
<1>2. CASE phase[j] = "posting" /\ Holds(k)
  BY <1>1, <1>2 DEF Serial
<1>3. CASE phase[j] # "posting"
  <2>1. Post(j) /\ phase[j] = "spawned"
    BY <1>3, OnlyPostPosts
  <2>2. k = j \/ Holds(k)
    BY <2>1 DEF Post, Holds, IInv, TypeOK
  <2>3. k = j \/ k < j
    BY <2>1, <2>2 DEF IInv, TasksInOrder, Holds
  <2> QED BY <2>3, Constants
<1>4. CASE phase[j] = "posting" /\ ~Holds(k)
  <2>1. Post(k)
    BY <1>4, OnlyPostPosts DEF Holds
  <2>2. age[j] >= MinInterval
    BY <1>1, <1>4, <2>1, OthersOld DEF Post, Holds
  <2>3. age[j] <= PostTimeout /\ age[j] \in Nat
    BY <1>4 DEF IInv, TaskState, TypeOK
  <2> QED BY <2>2, <2>3, Constants
<1> QED BY <1>2, <1>3, <1>4

LEMMA QueueTailStep ==
    ASSUME IInv, Serial, QueueTail, [Next]_vars
    PROVE  QueueTail'
<1> SUFFICES ASSUME NEW n \in Nodes, NEW j \in Tunes, NoneFailed(n)', Newest(n, j)'
             PROVE  IF accepted'[n] = <<>> THEN tunedTo'[n] = emitter'[j]
                    ELSE Last(accepted'[n]) = j
  BY DEF QueueTail
<1>1. phase[j] # "none" /\ node[j] = n /\ emitter'[j] = emitter[j]
  BY OldTasksKept DEF Newest
<1>2. NoneFailed(n)
  BY FailuresStay DEF NoneFailed
<1>3. CASE Accept(j)
  <2>1. accepted'[n] = Append(accepted[n], j) /\ accepted[n] \in Seq(Tunes)
    BY <1>1, <1>3 DEF Accept, IInv, TypeOK
  <2> QED BY <2>1 DEF Last
<1>4. CASE ~Accept(j)
  <2>1. wire[j] = "accepted"
    BY <1>4, OnlyAcceptAccepts DEF Newest
  <2>2. Newest(n, j)
    BY <1>1, <2>1, OldTasksKept, ArrivedStay DEF Newest
  <2>3. ASSUME NEW k \in Tunes, Accept(k), node[k] = n
        PROVE  FALSE
    <3>1. phase[k] = "posting" /\ wire'[k] = "accepted" /\ node'[k] = n /\ k # j
      BY <1>2, <1>4, <2>3 DEF Accept, IInv, TypeOK, TaskState, NoneFailed
    <3>2. Holds(j)
      BY <1>1, <1>2, <2>1 DEF IInv, TaskState, Holds, NoneFailed
    <3> QED BY <1>1, <3>1, <3>2, <2>3, Constants DEF Serial, Newest
  <2>4. CASE Frame(n)
    BY <1>1, <1>2, <2>2, <2>4 DEF Frame, QueueTail, IInv, TypeOK
  <2>5. CASE ~Frame(n)
    <3>1. accepted'[n] = accepted[n] /\ tunedTo'[n] = tunedTo[n]
      BY <2>3, <2>5, QueueChanges
    <3> QED BY <3>1, <1>1, <1>2, <2>2 DEF QueueTail
  <2> QED BY <2>4, <2>5
<1> QED BY <1>3, <1>4

LEMMA RunsFromTail ==
    ASSUME IInv, QueueTail
    PROVE  LatestTuneRuns
<1> SUFFICES ASSUME NEW n \in Nodes, NEW j \in Tunes,
                    accepted[n] = <<>>, AllAcknowledged(n), LatestOf(n, j)
             PROVE  tunedTo[n] = emitter[j]
  BY DEF LatestTuneRuns
<1>1. \A k \in Tunes : node[k] = n /\ wire[k] # "unsent" => phase[k] = "issued"
  BY DEF AllAcknowledged
<1>2. NoneFailed(n)
  BY <1>1 DEF NoneFailed, IInv, TaskState
<1>3. Newest(n, j)
  BY <1>1 DEF Newest, LatestOf, IInv, TaskState
<1> QED BY <1>2, <1>3 DEF QueueTail

\* With a post timeout shorter than the interval, a node that acknowledged
\* every post and ran its queue listens to the emitter of its latest task.
THEOREM LatestRunsTheorem ==
    ASSUME PostTimeout < MinInterval
    PROVE  Spec => []LatestTuneRuns
<1>1. IInv /\ Serial /\ QueueTail /\ [Next]_vars => (Serial /\ QueueTail)'
  BY SerialStep, QueueTailStep
<1>2. IInv /\ QueueTail => LatestTuneRuns
  BY RunsFromTail
<1> QED BY <1>1, <1>2, InitIInv, InitSerial, NextIInv, PTL DEF Spec

=============================================================================
