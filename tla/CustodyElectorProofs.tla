------------------------ MODULE CustodyElectorProofs ------------------------
(***************************************************************************)
(* CustodyElector for every fleet, set of tracks, scoring and window: the  *)
(* type invariant, the bound on custody, and the overlap window.  The      *)
(* bound rests on the election's order being strict: two backups have a    *)
(* different number of nodes ahead of them, so there are at most K - 1.    *)
(***************************************************************************)
EXTENDS CustodyElector, FiniteSetTheorems, TLAPS

\* A node that hands over is one the elector still knows; nodes never leave it.
OutgoingRegistered ==
    \A t \in Tracks : decision[t].outgoing # NoNode => decision[t].outgoing \in registered

IInv == TypeOK /\ CustodyBounded /\ OutgoingRegistered

Loads == [Nodes -> Nat]

-----------------------------------------------------------------------------
(* The order of an election. *)

LEMMA ScoreIsNat ==
    ASSUME TypeOK, NEW load \in Loads, NEW n \in Nodes
    PROVE  Score(n, load) \in Nat
<1>1. merit[n] \in Nat /\ load[n] \in Nat
  BY CustodyAssumption DEF TypeOK, Loads
<1>2. LoadWeight \in Nat /\ 1 + load[n] \in Nat \ {0}
  BY <1>1, CustodyAssumption
<1>3. \A a \in Nat, b \in Nat \ {0} : a \div b \in Nat
  OBVIOUS
<1>4. LoadWeight \div (1 + load[n]) \in Nat
  BY <1>2, <1>3
<1> QED BY <1>1, <1>4 DEF Score

LEMMA AheadIsStrictOrder ==
    ASSUME TypeOK, NEW load \in Loads
    PROVE  /\ \A m, n \in Nodes : m # n => Ahead(m, n, load) \/ Ahead(n, m, load)
           /\ \A n \in Nodes : ~ Ahead(n, n, load)
           /\ \A k, m, n \in Nodes :
                  Ahead(k, m, load) /\ Ahead(m, n, load) => Ahead(k, n, load)
<1> DEFINE score(n) == Score(n, load)
<1>1. \A n \in Nodes : score(n) \in Nat /\ n \in Nat
  BY ScoreIsNat, CustodyAssumption
<1>2. \A m, n \in Nodes : Ahead(m, n, load) <=> score(m) > score(n) \/ (score(m) = score(n) /\ m < n)
  BY DEF Ahead
<1> HIDE DEF score
<1> QED BY <1>1, <1>2

LEMMA BettersDiffer ==
    ASSUME TypeOK, NEW load \in Loads, NEW eligible \in SUBSET Nodes,
           NEW m \in eligible, NEW n \in eligible, Ahead(m, n, load)
    PROVE  Cardinality(Betters(m, eligible, load)) < Cardinality(Betters(n, eligible, load))
<1> DEFINE A == Betters(m, eligible, load)
<1> DEFINE B == Betters(n, eligible, load)
<1>1. m # n
  BY AheadIsStrictOrder
<1>2. A \subseteq B
  BY AheadIsStrictOrder DEF Betters
<1>3. m \in B /\ m \notin A
  BY <1>1 DEF Betters
<1>4. IsFiniteSet(Nodes) /\ B \in SUBSET Nodes
  BY CustodyAssumption DEF Betters
<1>5. IsFiniteSet(B)
  BY <1>4, FS_Subset
<1> HIDE DEF A, B
<1>6. IsFiniteSet(A) /\ Cardinality(A) <= Cardinality(B) /\ Cardinality(A) # Cardinality(B)
  BY <1>2, <1>3, <1>5, FS_Subset
<1>7. Cardinality(A) \in Nat /\ Cardinality(B) \in Nat
  BY <1>5, <1>6, FS_CardinalityType
<1> QED BY <1>6, <1>7 DEF A, B

LEMMA BackupsBounded ==
    ASSUME TypeOK, NEW load \in Loads, NEW eligible \in SUBSET Nodes
    PROVE  /\ IsFiniteSet(Backups(eligible, load))
           /\ Cardinality(Backups(eligible, load)) <= K - 1
<1> DEFINE B == Backups(eligible, load)
<1> DEFINE rank(n) == Cardinality(Betters(n, eligible, load))
<1>1. B \in SUBSET Nodes
  BY DEF Backups
<1>2. IsFiniteSet(B)
  BY <1>1, CustodyAssumption, FS_Subset
<1>3. \A n \in B : rank(n) \in 1 .. K - 1
  BY DEF Backups
<1>4. \A m, n \in B : m # n => rank(m) # rank(n)
  <2> SUFFICES ASSUME NEW m \in B, NEW n \in B, m # n
               PROVE  rank(m) # rank(n)
    OBVIOUS
  <2>1. m \in eligible /\ n \in eligible /\ rank(m) \in Int /\ rank(n) \in Int
    BY <1>3 DEF Backups
  <2>2. Ahead(m, n, load) \/ Ahead(n, m, load)
    BY <2>1, AheadIsStrictOrder
  <2>3. rank(m) < rank(n) \/ rank(n) < rank(m)
    BY <2>1, <2>2, BettersDiffer
  <2> QED BY <2>1, <2>3
<1> HIDE DEF B, rank
<1>5. IsFiniteSet(1 .. K - 1) /\ Cardinality(1 .. K - 1) = K - 1
  <2>1. K - 1 \in Int /\ 1 \in Int /\ K \in Nat \ {0}
    BY CustodyAssumption
  <2> DEFINE k == K - 1
  <2>2. k \in Int
    BY <2>1
  <2> HIDE DEF k
  <2>3. IsFiniteSet(1 .. k) /\ Cardinality(1 .. k) = IF 1 > k THEN 0 ELSE k - 1 + 1
    BY <2>2, FS_Interval
  <2>4. 1 > k => k = 0
    BY <2>1 DEF k
  <2>5. Cardinality(1 .. k) = k
    BY <2>2, <2>3, <2>4
  <2> QED BY <2>3, <2>5 DEF k
<1>6. Cardinality(B) <= K - 1
  <2> SUFFICES ASSUME Cardinality(B) > K - 1 PROVE FALSE
    BY <1>2, FS_CardinalityType, CustodyAssumption
  <2> DEFINE f == [n \in B |-> rank(n)]
  <2>1. f \in [B -> 1 .. K - 1]
    BY <1>3
  <2>2. Cardinality(1 .. K - 1) < Cardinality(B)
    BY <1>5, <1>2, FS_CardinalityType, CustodyAssumption
  <2>3. \A x \in B : f[x] = rank(x)
    OBVIOUS
  <2> DEFINE ranks == 1 .. K - 1
  <2>4. f \in [B -> ranks] /\ IsFiniteSet(ranks) /\ Cardinality(ranks) < Cardinality(B)
    BY <1>5, <2>1, <2>2
  <2> HIDE DEF f, ranks
  <2>5. PICK x \in B, y \in B : x # y /\ f[x] = f[y]
    BY <1>2, <2>4, FS_PigeonHole
  <2> QED BY <2>3, <2>5, <1>4
<1> QED BY <1>2, <1>6 DEF B

-----------------------------------------------------------------------------
(* One election. *)

\* What an election makes of a track's previous decision.
Sound(d) ==
    /\ Cardinality(d.tasked \ {d.outgoing}) <= K
    /\ d.outgoing # NoNode => /\ d.outgoing \in d.tasked
                              /\ d.outgoing # d.primary
                              /\ d.outgoing \in registered
    /\ d.outgoing = NoNode => d.left = 0

LEMMA ElectSound ==
    ASSUME IInv, NEW t \in Tracks, NEW dangerous, NEW load \in Loads,
           Elect(t, dangerous, load)
    PROVE  \E e \in Decision :
              /\ decision' = [decision EXCEPT ![t] = e]
              /\ Sound(e)
              /\ (decision[t].outgoing # NoNode /\ decision[t].left > 0
                     /\ e.primary = decision[t].primary)
                 => e.outgoing = decision[t].outgoing /\ e.left = decision[t].left
<1> DEFINE eligible == Eligible(t, dangerous)
<1> DEFINE b == Backups(eligible, load)
<1> DEFINE h(p) == Handover(decision[t], p)
<1> DEFINE new(p) == [primary |-> p, backups |-> b,
                      tasked |-> (b \cup {p, h(p).outgoing}) \ {NoNode},
                      outgoing |-> h(p).outgoing, left |-> h(p).left]
<1>1. PICK p \in Leader(eligible, load) : decision' = [decision EXCEPT ![t] = new(p)]
  BY DEF Elect
<1>2. eligible \in SUBSET Nodes /\ registered \in SUBSET Nodes
  BY DEF Eligible, IInv, TypeOK
<1>3. p \in Nodes \cup {NoNode}
  BY <1>1, <1>2 DEF Leader
<1>4. decision[t] \in Decision /\ (decision[t].outgoing # NoNode
         => decision[t].outgoing \in registered /\ decision[t].outgoing # decision[t].primary)
  BY DEF IInv, TypeOK, CustodyBounded, OutgoingRegistered
<1>5. /\ h(p).outgoing \in registered \cup {NoNode}
      /\ h(p).left \in 0 .. Overlap
      /\ h(p).outgoing # NoNode => h(p).outgoing # p
      /\ h(p).outgoing = NoNode => h(p).left = 0
  BY <1>4, CustodyAssumption DEF Handover, StartsHandover, InheritsHandover, Decision
<1>6. (decision[t].outgoing # NoNode /\ decision[t].left > 0 /\ p = decision[t].primary)
      => h(p).outgoing = decision[t].outgoing /\ h(p).left = decision[t].left
  BY <1>4 DEF Handover, StartsHandover, InheritsHandover
<1>7. b \in SUBSET Nodes /\ IsFiniteSet(b) /\ Cardinality(b) <= K - 1
  BY <1>2, BackupsBounded DEF IInv, Backups
<1>8. NoNode \notin Nodes /\ K \in Nat
  BY CustodyAssumption
<1> HIDE DEF b, h
<1>9. new(p) \in Decision
  BY <1>2, <1>3, <1>5, <1>7 DEF Decision
<1>10. Cardinality(new(p).tasked \ {new(p).outgoing}) <= K
  <2> DEFINE c == b \cup {p}
  <2> DEFINE kept == new(p).tasked \ {new(p).outgoing}
  <2>1. /\ IsFiniteSet(c)
        /\ Cardinality(c) = IF p \in b THEN Cardinality(b) ELSE Cardinality(b) + 1
    BY <1>7, FS_AddElement
  <2>2. kept \subseteq c
    OBVIOUS
  <2> HIDE DEF c, kept
  <2>3. Cardinality(b) \in Nat /\ Cardinality(c) \in Nat
    BY <1>7, <2>1, FS_CardinalityType
  <2>4. Cardinality(c) <= K
    BY <1>7, <1>8, <2>1, <2>3
  <2>5. IsFiniteSet(kept) /\ Cardinality(kept) <= Cardinality(c)
    BY <2>1, <2>2, FS_Subset
  <2>6. Cardinality(kept) \in Nat
    BY <2>5, FS_CardinalityType
  <2>7. Cardinality(kept) <= K
    BY <1>8, <2>3, <2>4, <2>5, <2>6
  <2> QED BY <2>7 DEF kept
<1>11. Sound(new(p))
  BY <1>2, <1>5, <1>8, <1>10 DEF Sound
<1> QED BY <1>1, <1>6, <1>9, <1>11

LEMMA LoadIsNat ==
    ASSUME NEW active \in SUBSET Tracks
    PROVE  Load(active) \in Loads
<1> SUFFICES ASSUME NEW n \in Nodes
             PROVE  Cardinality({u \in active : n \in decision[u].tasked}) \in Nat
  BY DEF Load, Loads
<1>1. {u \in active : n \in decision[u].tasked} \in SUBSET Tracks
  OBVIOUS
<1> QED BY <1>1, FS_Subset, FS_CardinalityType, CustodyAssumption

-----------------------------------------------------------------------------
(* Every step keeps the invariant, and the window of a primary that stays. *)

\* What KeptThroughOverlap says of one step.
KeepsWindow ==
    \A t \in Tracks :
        (decision[t].outgoing # NoNode /\ decision[t].left > 0
            /\ decision'[t].primary = decision[t].primary /\ status'[t] # "archived")
        => /\ decision'[t].outgoing = decision[t].outgoing
           /\ decision'[t].left \in {decision[t].left - 1, decision[t].left}

LEMMA InitIInv == Init => IInv
<1> SUFFICES ASSUME Init PROVE IInv
  OBVIOUS
<1>1. NoDecision \in Decision /\ Cardinality(NoDecision.tasked \ {NoDecision.outgoing}) = 0
  BY CustodyAssumption, FS_EmptySet DEF NoDecision, Decision
<1>2. TypeOK
  BY <1>1, CustodyAssumption DEF Init, TypeOK, Ages, Never
<1>3. CustodyBounded
  <2>1. \A t \in Tracks : decision[t] = NoDecision
    BY DEF Init
  <2>2. 0 <= K
    BY CustodyAssumption
  <2>3. NoDecision.outgoing = NoNode /\ NoDecision.left = 0
    BY DEF NoDecision
  <2> QED BY <1>1, <2>1, <2>2, <2>3 DEF CustodyBounded
<1>4. OutgoingRegistered
  BY DEF Init, OutgoingRegistered, NoDecision
<1> QED BY <1>2, <1>3, <1>4 DEF IInv

\* Nobody but the clock touches more than one decision, and the rest is bookkeeping.
LEMMA OneDecision ==
    ASSUME IInv, NEW t \in Tracks, NEW e \in Decision, Sound(e),
           decision' = [decision EXCEPT ![t] = e],
           UNCHANGED nodeVars,
           status' \in [Tracks -> {"absent", "active", "quiet", "archived"}]
    PROVE  IInv'
<1>1. decision' \in [Tracks -> Decision] /\ decision'[t] = e
      /\ \A u \in Tracks \ {t} : decision'[u] = decision[u]
  BY DEF IInv, TypeOK
<1>2. TypeOK'
  BY <1>1 DEF IInv, TypeOK, nodeVars
<1>3. CustodyBounded'
  BY <1>1 DEF IInv, CustodyBounded, Sound
<1>4. OutgoingRegistered'
  BY <1>1 DEF IInv, OutgoingRegistered, Sound, nodeVars
<1> QED BY <1>2, <1>3, <1>4 DEF IInv

LEMMA ElectionStep ==
    ASSUME IInv, NEW t \in Tracks, NEW dangerous, NEW load \in Loads,
           Elect(t, dangerous, load), UNCHANGED nodeVars,
           status' \in [Tracks -> {"absent", "active", "quiet", "archived"}]
    PROVE  IInv' /\ KeepsWindow
<1>1. PICK e \in Decision :
         /\ decision' = [decision EXCEPT ![t] = e]
         /\ Sound(e)
         /\ (decision[t].outgoing # NoNode /\ decision[t].left > 0
                /\ e.primary = decision[t].primary)
            => e.outgoing = decision[t].outgoing /\ e.left = decision[t].left
  BY ElectSound
<1>2. IInv'
  BY <1>1, OneDecision
<1>3. decision'[t] = e /\ \A u \in Tracks \ {t} : decision'[u] = decision[u]
  BY <1>1 DEF IInv, TypeOK
<1>4. KeepsWindow
  BY <1>1, <1>3 DEF KeepsWindow
<1> QED BY <1>2, <1>4

LEMMA EventStep ==
    ASSUME IInv, NEW t \in Tracks, NEW dangerous \in BOOLEAN, Event(t, dangerous)
    PROVE  IInv' /\ KeepsWindow
<1>1. status' \in [Tracks -> {"absent", "active", "quiet", "archived"}] /\ UNCHANGED nodeVars
  BY DEF Event, IInv, TypeOK
<1>2. CASE registered = {}
  <2>1. UNCHANGED decision
    BY <1>2 DEF Event
  <2>2. IInv'
    BY <1>1, <2>1 DEF IInv, TypeOK, CustodyBounded, OutgoingRegistered, nodeVars
  <2>3. KeepsWindow
    BY <2>1 DEF KeepsWindow
  <2> QED BY <2>2, <2>3
<1>3. CASE registered # {}
  <2> DEFINE load == Load(ActiveAfter(t))
  <2>1. load \in Loads
    BY LoadIsNat DEF ActiveAfter
  <2>2. Elect(t, dangerous, load)
    BY <1>3 DEF Event
  <2> HIDE DEF load
  <2> QED BY <1>1, <2>1, <2>2, ElectionStep
<1> QED BY <1>2, <1>3

LEMMA ViewStep ==
    ASSUME IInv, NEW t \in Tracks, NEW dangerous \in BOOLEAN, ViewAssessment(t, dangerous)
    PROVE  IInv' /\ KeepsWindow
<1>1. NoLoad \in Loads
  BY DEF NoLoad, Loads
<1>2. /\ Elect(t, dangerous, NoLoad)
      /\ UNCHANGED nodeVars
      /\ status' \in [Tracks -> {"absent", "active", "quiet", "archived"}]
  BY DEF ViewAssessment, IInv, TypeOK
<1> QED BY <1>1, <1>2, ElectionStep

LEMMA ArchiveStep ==
    ASSUME IInv, NEW t \in Tracks, Archive(t)
    PROVE  IInv' /\ KeepsWindow
<1>1. NoDecision \in Decision /\ Sound(NoDecision)
  <2>1. NoDecision.tasked \ {NoDecision.outgoing} = {} /\ Cardinality({}) = 0
    BY FS_EmptySet DEF NoDecision
  <2> QED BY <2>1, CustodyAssumption DEF NoDecision, Decision, Sound
<1>2. /\ decision' = [decision EXCEPT ![t] = NoDecision]
      /\ UNCHANGED nodeVars
      /\ status' \in [Tracks -> {"absent", "active", "quiet", "archived"}]
      /\ status'[t] = "archived"
  BY DEF Archive, IInv, TypeOK
<1>3. \A u \in Tracks \ {t} : decision'[u] = decision[u]
  BY <1>2 DEF IInv, TypeOK
<1>4. KeepsWindow
  BY <1>2, <1>3 DEF KeepsWindow
<1> QED BY <1>1, <1>2, <1>4, OneDecision

LEMMA OtherStep ==
    ASSUME IInv,
           \/ \E t \in Tracks : Age(t)
           \/ \E n \in Nodes : Report(n) \/ RemoveNode(n)
           \/ UNCHANGED vars
    PROVE  IInv' /\ KeepsWindow
<1>1. UNCHANGED <<decision, registered>>
  BY DEF Age, Report, RemoveNode, vars, nodeVars
<1>2. TypeOK'
  <2>1. CASE \E t \in Tracks : Age(t)
    BY <2>1 DEF IInv, TypeOK, Age, nodeVars
  <2>2. ASSUME NEW n \in Nodes, Report(n) PROVE TypeOK'
    <3>1. n \in registered /\ 0 \in Ages
      BY <2>2, CustodyAssumption DEF Report, Ages, Never
    <3> QED BY <2>2, <3>1 DEF IInv, TypeOK, Report
  <2>3. ASSUME NEW n \in Nodes, RemoveNode(n) PROVE TypeOK'
    BY <2>3 DEF IInv, TypeOK, RemoveNode
  <2>4. CASE UNCHANGED vars
    BY <2>4 DEF IInv, TypeOK, vars, nodeVars
  <2> QED BY <2>1, <2>2, <2>3, <2>4
<1>3. CustodyBounded' /\ OutgoingRegistered'
  BY <1>1 DEF IInv, CustodyBounded, OutgoingRegistered
<1>4. KeepsWindow
  BY <1>1 DEF KeepsWindow
<1> QED BY <1>2, <1>3, <1>4 DEF IInv

LEMMA TickStep ==
    ASSUME IInv, Tick
    PROVE  IInv' /\ KeepsWindow
<1>1. \A t \in Tracks : decision[t] \in Decision
  BY DEF IInv, TypeOK
<1>2. ASSUME NEW t \in Tracks
      PROVE  LET d == decision[t]
                 e == decision'[t]
             IN /\ e \in Decision
                /\ e.primary = d.primary /\ e.tasked = d.tasked /\ e.outgoing = d.outgoing
                /\ d.left > 0 => e.left = d.left - 1
                /\ d.left = 0 => e.left = 0
  <2>1. decision'[t] = [decision[t] EXCEPT !.left = IF @ > 0 THEN @ - 1 ELSE 0]
    BY DEF Tick
  <2>2. decision[t].left \in 0 .. Overlap
    BY <1>1 DEF Decision
  <2>3. (IF decision[t].left > 0 THEN decision[t].left - 1 ELSE 0) \in 0 .. Overlap
    BY <2>2, CustodyAssumption
  <2> QED BY <1>1, <2>1, <2>2, <2>3 DEF Decision
<1>3. decision' \in [Tracks -> Decision]
  <2>1. decision' = [t \in Tracks |-> [decision[t] EXCEPT !.left = IF @ > 0 THEN @ - 1 ELSE 0]]
    BY DEF Tick
  <2>2. decision' = [t \in Tracks |-> decision'[t]]
    BY <2>1
  <2> QED BY <1>2, <2>2
<1>4. fixAge' \in [Nodes -> Ages]
  <2>1. \A n \in Nodes : fixAge[n] \in Ages
    BY DEF IInv, TypeOK
  <2>2. \A n \in Nodes :
           (IF fixAge[n] \in 0 .. StaleAfter THEN fixAge[n] + 1 ELSE fixAge[n]) \in Ages
    BY <2>1, CustodyAssumption DEF Ages, Never
  <2> QED BY <2>2 DEF Tick
<1>5. TypeOK'
  BY <1>3, <1>4 DEF IInv, TypeOK, Tick
<1>6. CustodyBounded'
  <2> SUFFICES ASSUME NEW t \in Tracks
               PROVE  LET d == decision'[t] IN
                      /\ Cardinality(d.tasked \ {d.outgoing}) <= K
                      /\ d.outgoing # NoNode => d.outgoing \in d.tasked /\ d.outgoing # d.primary
                      /\ d.outgoing = NoNode => d.left = 0
    BY DEF CustodyBounded
  <2>1. LET d == decision[t] IN
           /\ Cardinality(d.tasked \ {d.outgoing}) <= K
           /\ d.outgoing # NoNode => d.outgoing \in d.tasked /\ d.outgoing # d.primary
           /\ d.outgoing = NoNode => d.left = 0
    BY DEF IInv, CustodyBounded
  <2> QED BY <1>2, <2>1
<1>7. OutgoingRegistered'
  BY <1>2 DEF IInv, OutgoingRegistered, Tick
<1>8. KeepsWindow
  BY <1>2 DEF KeepsWindow
<1> QED BY <1>5, <1>6, <1>7, <1>8 DEF IInv

LEMMA NextStep == IInv /\ [Next]_vars => IInv' /\ KeepsWindow
<1> SUFFICES ASSUME IInv, [Next]_vars
             PROVE  IInv' /\ KeepsWindow
  OBVIOUS
<1>1. ASSUME NEW t \in Tracks, NEW dangerous \in BOOLEAN, Event(t, dangerous)
      PROVE  IInv' /\ KeepsWindow
  BY <1>1, EventStep
<1>2. ASSUME NEW t \in Tracks, NEW dangerous \in BOOLEAN, ViewAssessment(t, dangerous)
      PROVE  IInv' /\ KeepsWindow
  BY <1>2, ViewStep
<1>3. ASSUME NEW t \in Tracks, Archive(t)
      PROVE  IInv' /\ KeepsWindow
  BY <1>3, ArchiveStep
<1>4. CASE \/ \E t \in Tracks : Age(t)
           \/ \E n \in Nodes : Report(n) \/ RemoveNode(n)
           \/ UNCHANGED vars
  BY <1>4, OtherStep
<1>5. CASE Tick
  BY <1>5, TickStep
<1> QED BY <1>1, <1>2, <1>3, <1>4, <1>5 DEF Next

-----------------------------------------------------------------------------
(***************************************************************************)
(* Every state of every run has the types of TypeOK.                       *)
(***************************************************************************)
THEOREM TypeCorrect == Spec => []TypeOK
<1>1. IInv => TypeOK
  BY DEF IInv
<1> QED BY <1>1, InitIInv, NextStep, PTL DEF Spec

(***************************************************************************)
(* Custody of an emitter never exceeds K nodes and one outgoing primary.   *)
(***************************************************************************)
THEOREM CustodyIsBounded == Spec => []CustodyBounded
<1>1. IInv => CustodyBounded
  BY DEF IInv
<1> QED BY <1>1, InitIInv, NextStep, PTL DEF Spec

(***************************************************************************)
(* A handover whose new primary stays is kept to its first deadline.       *)
(***************************************************************************)
THEOREM WindowIsKept == Spec => KeptThroughOverlap
<1> DEFINE Keeps == \A t \in Tracks :
          LET d == decision[t]
              e == decision'[t]
          IN (d.outgoing # NoNode /\ d.left > 0 /\ e.primary = d.primary /\ status'[t] # "archived")
             => e.outgoing = d.outgoing /\ e.left \in {d.left - 1, d.left}
<1>1. KeepsWindow => Keeps
  BY DEF KeepsWindow
<1>2. IInv /\ [Next]_vars => [Keeps]_vars
  BY <1>1, NextStep
<1> QED BY <1>2, InitIInv, NextStep, PTL DEF Spec, KeptThroughOverlap

(***************************************************************************)
(* Whatever synchronisation was lost and fixes aged since the last one, an *)
(* election for a threat that needs a fix tasks nodes that can give one.   *)
(***************************************************************************)
THEOREM GateReadsNow == Spec => DangerousNeedsGps
<1> DEFINE Gates == \A t \in Tracks : Event(t, TRUE) =>
          \A n \in decision'[t].tasked \ {decision'[t].outgoing} :
              registered = {} \/ (n \in synced /\ fixAge[n] <= StaleAfter)
<1>1. IInv => Gates
  <2> SUFFICES ASSUME IInv, NEW t \in Tracks, Event(t, TRUE), registered # {},
                      NEW n \in decision'[t].tasked \ {decision'[t].outgoing}
               PROVE  n \in synced /\ fixAge[n] <= StaleAfter
    OBVIOUS
  <2> DEFINE load == Load(ActiveAfter(t))
             eligible == Eligible(t, TRUE)
             b == Backups(eligible, load)
  <2>1. PICK primary \in Leader(eligible, load) :
           decision' = [decision EXCEPT ![t] =
              [primary  |-> primary,
               backups  |-> b,
               tasked   |-> (b \cup {primary, Handover(decision[t], primary).outgoing}) \ {NoNode},
               outgoing |-> Handover(decision[t], primary).outgoing,
               left     |-> Handover(decision[t], primary).left]]
    BY DEF Event, Elect
  <2>2. n \in b \cup {primary} /\ n # NoNode
    <3> HIDE DEF b
    <3> QED BY <2>1 DEF IInv, TypeOK
  <2>3. n \in eligible
    <3> HIDE DEF eligible, load
    <3> QED BY <2>1, <2>2 DEF Leader, Backups
  <2>4. n \in Nodes /\ fixAge[n] \in Int /\ StaleAfter \in Int
    BY <2>3, CustodyAssumption DEF Eligible, IInv, TypeOK, Ages, Never
  <2> QED BY <2>3, <2>4 DEF Eligible, Gated
<1> QED BY <1>1, InitIInv, NextStep, PTL DEF Spec, DangerousNeedsGps

=============================================================================
