---------------------------- MODULE SightingProofs ----------------------------
(***************************************************************************)
(* The way of a sighting at the backend.  In the track table, for any      *)
(* number of tracks: the index still leads to every track, observations    *)
(* are neither lost nor counted twice, one pass finishes, and stations'    *)
(* tracks are united in pairs and never in chains.  On the way there, for  *)
(* any length of a node's event log (EventFeed, at the end): no row is     *)
(* passed by, and none comes twice.                                        *)
(*                                                                         *)
(* A pass is a loop in a loop, and a sum is a loop, each a recursive       *)
(* function.  Induction over them is over a set of positions (Climb), for  *)
(* a set of positions that misses one misses a first one.                  *)
(***************************************************************************)
EXTENDS TrackTable, EventFeed, FiniteSetTheorems, FunctionTheorems, WellFoundedInduction, TLAPS

-----------------------------------------------------------------------------
(* Positions *)

\* A nonempty set of positions has a first one: of the sets of positions before
\* a member, one is minimal.
LEMMA FirstPosition ==
    ASSUME NEW n \in Nat, NEW S \in SUBSET (0 .. n), S # {}
    PROVE  \E k \in S : \A l \in S : k <= l
<1> DEFINE Below(k) == {l \in S : l < k}
           T == {Below(k) : k \in S}
           R == StrictSubsetOrdering(S)
<1>1. IsFiniteSet(S)
  <2>1. IsFiniteSet(0 .. n)
    BY FS_Interval
  <2> QED BY <2>1, FS_Subset
<1>2. IsWellFoundedOn(R, SUBSET S)
  BY <1>1, FS_StrictSubsetOrderingWellFounded, FS_FiniteSubsetsOfFinite
<1>3. T \subseteq SUBSET S /\ T # {}
  OBVIOUS
<1>4. PICK x \in T : \A y \in T : ~(<<y, x>> \in R)
  <2> HIDE DEF R, T
  <2> QED BY <1>2, <1>3, WFMin
<1>5. PICK k \in S : x = Below(k)
  BY <1>4
<1>6. ASSUME NEW l \in S, l < k
      PROVE  FALSE
  <2>0. l \in Nat /\ k \in Nat /\ S \subseteq Nat
    OBVIOUS
  <2>1. l \in Below(k) /\ l \notin Below(l)
    BY <1>6, <2>0
  <2>2. Below(l) \subseteq Below(k)
    <3>1. \A a \in S : a < l => a < k
      BY <1>6, <2>0
    <3> QED BY <3>1, Zenon
  <2>3. Below(l) \in SUBSET S /\ Below(k) \in SUBSET S
    OBVIOUS
  <2>4. <<Below(l), Below(k)>> \in R
    <3> HIDE DEF Below
    <3> QED BY <2>1, <2>2, <2>3 DEF StrictSubsetOrdering
  <2> QED BY <1>4, <1>5, <2>4
<1> QED BY <1>6

\* Induction up to n over a set, since the library's rule over a formula takes
\* an operator.
LEMMA Climb ==
    ASSUME NEW n \in Nat, NEW G, 0 \in G,
           \A m \in 1 .. n : m - 1 \in G => m \in G
    PROVE  0 .. n \subseteq G
<1> SUFFICES ASSUME 0 .. n \ G # {}
             PROVE  FALSE
  OBVIOUS
<1> DEFINE S == (0 .. n) \ G
<1>1. PICK k \in S : \A l \in S : k <= l
  <2>1. S \in SUBSET (0 .. n) /\ S # {}
    OBVIOUS
  <2> HIDE DEF S
  <2> QED BY <2>1, FirstPosition
<1>2. k # 0
  OBVIOUS
<1>3. k - 1 \in 0 .. n /\ k - 1 \notin S
  BY <1>1, <1>2
<1> QED BY <1>2, <1>3

-----------------------------------------------------------------------------
(* Loops *)

\* What a loop of n rounds does to a state in each round, and its runs from s0.
Steps(n, St) == [(1 .. n) \X St -> St]

Runs(n, St, s0, f) ==
    {w \in [0 .. n -> St] : w[0] = s0 /\ \A m \in 1 .. n : w[m] = f[<<m, w[m - 1]>>]}

\* A loop whose step is a function on states has a run.
LEMMA LoopRuns ==
    ASSUME NEW n \in Nat, NEW St, NEW s0 \in St, NEW f \in Steps(n, St)
    PROVE  \E w : w \in Runs(n, St, s0, f)
<1> USE DEF Steps
<1> DEFINE Run(w, m) == /\ w \in [0 .. m -> St]
                        /\ w[0] = s0
                        /\ \A l \in 1 .. m : w[l] = f[<<l, w[l - 1]>>]
           G == {m \in 0 .. n : \E w : Run(w, m)}
<1>1. 0 \in G
  <2> DEFINE v == [l \in 0 .. 0 |-> s0]
  <2>1. v \in [0 .. 0 -> St] /\ v[0] = s0 /\ 1 .. 0 = {}
    OBVIOUS
  <2>2. Run(v, 0)
    <3> HIDE DEF v
    <3> QED BY <2>1
  <2> HIDE DEF Run
  <2> QED BY <2>2
<1>2. ASSUME NEW m \in 1 .. n, m - 1 \in G
      PROVE  m \in G
  <2>1. PICK w : Run(w, m - 1)
    BY <1>2
  <2> DEFINE v == [l \in 0 .. m |-> IF l = m THEN f[<<m, w[m - 1]>>] ELSE w[l]]
  <2>2. w \in [0 .. m - 1 -> St] /\ m - 1 \in 0 .. m - 1
    BY <2>1
  <2>3. f[<<m, w[m - 1]>>] \in St
    BY <2>2
  <2>4. v \in [0 .. m -> St]
    BY <2>2, <2>3
  <2>5. v[0] = s0
    BY <2>1
  <2>6. ASSUME NEW l \in 1 .. m
        PROVE  v[l] = f[<<l, v[l - 1]>>]
    <3>1. CASE l = m
      <4>1. m \in 0 .. m /\ m - 1 \in 0 .. m /\ m - 1 # m
        OBVIOUS
      <4>2. v[m] = f[<<m, w[m - 1]>>] /\ v[m - 1] = w[m - 1]
        BY <4>1
      <4> HIDE DEF v
      <4> QED BY <3>1, <4>2
    <3>2. CASE l # m
      <4>1. l \in 1 .. m - 1 /\ l - 1 \in 0 .. m /\ l - 1 # m
        <5>1. m \in Nat /\ l \in Nat /\ 1 <= l /\ l <= m
          OBVIOUS
        <5> QED BY <3>2, <5>1
      <4>2. v[l] = w[l] /\ v[l - 1] = w[l - 1]
        BY <3>2, <4>1
      <4> QED BY <2>1, <4>1, <4>2
    <3> QED BY <3>1, <3>2
  <2>7. Run(v, m)
    <3> HIDE DEF v
    <3> QED BY <2>4, <2>5, <2>6
  <2> HIDE DEF Run
  <2> QED BY <2>7
<1>3. 0 .. n \subseteq G
  <2> HIDE DEF G
  <2> QED BY <1>1, <1>2, Climb
<1>4. PICK w : Run(w, n)
  BY <1>3
<1> QED BY <1>4 DEF Runs

\* The state a pass starts in, and a round of the outer loop of either pass.
Untouched == [obj |-> tracks, gone |-> {}]

MergedRow(seq, k, pass) == Row(seq, k, pass, CompareDuplicates)

DedupRow(alike, seq, k, pass) ==
    Row(seq, k, pass, LAMBDA s, i, j : CompareStations(alike, s, i, j))

\* What the comparisons of a row, and the rows of a pass, must keep, and the
\* states they go through then.
MergeRowKeeps(seq, k, St) ==
    \A s \in St, l \in k + 1 .. Len(seq) : CompareDuplicates(s, seq[k], seq[l]) \in St

MergeRowRun(w, seq, k, pass, St) ==
    /\ w \in [0 .. Len(seq) -> St]
    /\ \A l \in 0 .. k : w[l] = pass
    /\ \A l \in k + 1 .. Len(seq) : w[l] = CompareDuplicates(w[l - 1], seq[k], seq[l])
    /\ MergedRow(seq, k, pass) = w[Len(seq)]

MergePassKeeps(seq, St) ==
    \A s \in St, k \in 1 .. Len(seq) : seq[k] \notin s.gone => MergedRow(seq, k, s) \in St

MergePassRun(p, seq, St) ==
    /\ p \in [0 .. Len(seq) -> St]
    /\ p[0] = Untouched
    /\ \A k \in 1 .. Len(seq) :
          p[k] = IF seq[k] \in p[k - 1].gone THEN p[k - 1] ELSE MergedRow(seq, k, p[k - 1])
    /\ Pairwise(seq, CompareDuplicates) = p[Len(seq)]

\* The inner loop of merge_duplicates, comparison by comparison; St is any set
\* of pass states that the comparisons do not leave.
LEMMA MergeRowRuns ==
    ASSUME NEW seq \in Seq(Ids), NEW k \in 1 .. Len(seq), NEW St, NEW pass \in St,
           MergeRowKeeps(seq, k, St)
    PROVE  \E w : MergeRowRun(w, seq, k, pass, St)
<1> USE DEF MergeRowKeeps, MergeRowRun
<1> DEFINE n == Len(seq)
           Next1(l, s) == IF l <= k THEN pass ELSE CompareDuplicates(s, seq[k], seq[l])
           f == [x \in (1 .. n) \X St |-> Next1(x[1], x[2])]
           IsRun(g) == g = [l \in 0 .. n |-> IF l <= k THEN pass
                                             ELSE CompareDuplicates(g[l - 1], seq[k], seq[l])]
           w == CHOOSE g : IsRun(g)
<1>0. n \in Nat /\ k \in Nat /\ 1 <= k /\ k <= n
  OBVIOUS
<1>1. \A l \in 1 .. n, s \in St : Next1(l, s) \in St
  <2> SUFFICES ASSUME NEW l \in 1 .. n, NEW s \in St
               PROVE  Next1(l, s) \in St
    OBVIOUS
  <2>1. CASE l <= k
    BY <2>1
  <2>2. CASE ~(l <= k)
    <3>1. l \in k + 1 .. Len(seq)
      BY <1>0, <2>2
    <3> QED BY <2>2, <3>1
  <2> QED BY <2>1, <2>2
<1>2. f \in Steps(n, St)
  <2> HIDE DEF Next1, n
  <2> QED BY <1>1 DEF Steps
<1>3. \A l \in 1 .. n, s \in St : f[<<l, s>>] = Next1(l, s)
  <2> HIDE DEF Next1, n
  <2> QED OBVIOUS
<1>4. PICK g : g \in [0 .. n -> St] /\ g[0] = pass /\ \A l \in 1 .. n : g[l] = f[<<l, g[l - 1]>>]
  <2> HIDE DEF f, n
  <2>1. \E g : g \in Runs(n, St, pass, f)
    BY <1>0, <1>2, LoopRuns
  <2> QED BY <2>1 DEF Runs
<1>5. \A l \in 1 .. n : g[l] = Next1(l, g[l - 1])
  <2> SUFFICES ASSUME NEW l \in 1 .. n
               PROVE  g[l] = Next1(l, g[l - 1])
    OBVIOUS
  <2>1. l - 1 \in 0 .. n
    BY <1>0
  <2>2. g[l - 1] \in St
    BY <1>4, <2>1
  <2> HIDE DEF Next1, f, n
  <2> QED BY <1>3, <1>4, <2>2
<1>6. IsRun(g)
  <2>1. \A l \in 0 .. n : g[l] = IF l <= k THEN pass ELSE CompareDuplicates(g[l - 1], seq[k], seq[l])
    <3> SUFFICES ASSUME NEW l \in 0 .. n
                 PROVE  g[l] = IF l <= k THEN pass ELSE CompareDuplicates(g[l - 1], seq[k], seq[l])
      OBVIOUS
    <3>1. CASE l = 0
      BY <1>0, <1>4, <3>1
    <3>2. CASE l # 0
      <4>1. l \in 1 .. n
        BY <1>0, <3>2
      <4> QED BY <1>5, <4>1
    <3> QED BY <3>1, <3>2
  <2> HIDE DEF n
  <2> QED BY <1>4, <2>1
<1>7. IsRun(w)
  <2> HIDE DEF IsRun
  <2> QED BY <1>6
<1>8. \A l \in 0 .. n : w[l] = IF l <= k THEN pass ELSE CompareDuplicates(w[l - 1], seq[k], seq[l])
  <2> HIDE DEF n, w
  <2> QED BY <1>7
<1>9. MergedRow(seq, k, pass) = w[n]
  BY DEF MergedRow, Row
<1>10. \A l \in 0 .. n : w[l] \in St
  <2> DEFINE G == {l \in 0 .. n : w[l] \in St}
  <2> HIDE DEF w
  <2>1. 0 \in G
    BY <1>0, <1>8
  <2>2. ASSUME NEW m \in 1 .. n, m - 1 \in G
        PROVE  m \in G
    <3>1. w[m] = Next1(m, w[m - 1]) /\ m \in 0 .. n
      BY <1>0, <1>8
    <3> HIDE DEF Next1
    <3> QED BY <1>1, <2>2, <3>1
  <2>3. 0 .. n \subseteq G
    <3> HIDE DEF G, n
    <3> QED BY <1>0, <2>1, <2>2, Climb
  <2> QED BY <2>3
<1>11. w \in [0 .. n -> St]
  <2>1. w = [l \in 0 .. n |-> w[l]]
    <3> HIDE DEF w, n
    <3> QED BY <1>7
  <2> HIDE DEF w, n
  <2> QED BY <1>10, <2>1
<1> HIDE DEF w
<1>12. /\ \A l \in 0 .. k : w[l] = pass
       /\ \A l \in k + 1 .. n : w[l] = CompareDuplicates(w[l - 1], seq[k], seq[l])
  BY <1>0, <1>8
<1> QED BY <1>9, <1>11, <1>12


\* The outer loop of merge_duplicates; St is any set of pass states that its
\* rounds do not leave.
LEMMA MergePassRuns ==
    ASSUME NEW seq \in Seq(Ids), NEW St, Untouched \in St, MergePassKeeps(seq, St)
    PROVE  \E p : MergePassRun(p, seq, St)
<1> USE DEF MergePassKeeps, MergePassRun
<1> DEFINE n == Len(seq)
           Next1(k, s) == IF seq[k] \in s.gone THEN s ELSE MergedRow(seq, k, s)
           f == [x \in (1 .. n) \X St |-> Next1(x[1], x[2])]
           IsRun(g) == g = [k \in 0 .. n |-> IF k = 0 THEN Untouched
                                             ELSE IF seq[k] \in g[k - 1].gone THEN g[k - 1]
                                                  ELSE MergedRow(seq, k, g[k - 1])]
           w == CHOOSE g : IsRun(g)
<1>0. n \in Nat
  OBVIOUS
<1>1. \A k \in 1 .. n, s \in St : Next1(k, s) \in St
  OBVIOUS
<1>2. f \in Steps(n, St)
  <2> HIDE DEF Next1, n
  <2> QED BY <1>1 DEF Steps
<1>3. \A k \in 1 .. n, s \in St : f[<<k, s>>] = Next1(k, s)
  <2> HIDE DEF Next1, n
  <2> QED OBVIOUS
<1>4. PICK g : g \in [0 .. n -> St] /\ g[0] = Untouched /\ \A k \in 1 .. n : g[k] = f[<<k, g[k - 1]>>]
  <2> HIDE DEF f, n
  <2>1. \E g : g \in Runs(n, St, Untouched, f)
    BY <1>0, <1>2, LoopRuns
  <2> QED BY <2>1 DEF Runs
<1>5. \A k \in 1 .. n : g[k] = Next1(k, g[k - 1])
  <2> SUFFICES ASSUME NEW k \in 1 .. n
               PROVE  g[k] = Next1(k, g[k - 1])
    OBVIOUS
  <2>1. k - 1 \in 0 .. n
    BY <1>0
  <2>2. g[k - 1] \in St
    BY <1>4, <2>1
  <2> HIDE DEF Next1, f, n
  <2> QED BY <1>3, <1>4, <2>2
<1>6. IsRun(g)
  <2>1. \A k \in 0 .. n : g[k] = IF k = 0 THEN Untouched ELSE Next1(k, g[k - 1])
    <3> SUFFICES ASSUME NEW k \in 0 .. n
                 PROVE  g[k] = IF k = 0 THEN Untouched ELSE Next1(k, g[k - 1])
      OBVIOUS
    <3>1. CASE k = 0
      BY <1>4, <3>1
    <3>2. CASE k # 0
      <4>1. k \in 1 .. n
        BY <1>0, <3>2
      <4> HIDE DEF Next1
      <4> QED BY <1>5, <3>2, <4>1
    <3> QED BY <3>1, <3>2
  <2> HIDE DEF n
  <2> QED BY <1>4, <2>1
<1>7. IsRun(w)
  <2> HIDE DEF IsRun
  <2> QED BY <1>6
<1>8. \A k \in 0 .. n : w[k] = IF k = 0 THEN Untouched ELSE Next1(k, w[k - 1])
  <2> HIDE DEF n, w
  <2> QED BY <1>7
<1>9. Pairwise(seq, CompareDuplicates) = w[n]
  BY DEF Pairwise, MergedRow, Untouched
<1>10. \A k \in 0 .. n : w[k] \in St
  <2> DEFINE G == {k \in 0 .. n : w[k] \in St}
  <2> HIDE DEF w
  <2>1. 0 \in G
    BY <1>0, <1>8
  <2>2. ASSUME NEW m \in 1 .. n, m - 1 \in G
        PROVE  m \in G
    <3>1. w[m] = Next1(m, w[m - 1]) /\ m \in 0 .. n
      BY <1>0, <1>8
    <3> HIDE DEF Next1
    <3> QED BY <1>1, <2>2, <3>1
  <2>3. 0 .. n \subseteq G
    <3> HIDE DEF G, n
    <3> QED BY <1>0, <2>1, <2>2, Climb
  <2> QED BY <2>3
<1>11. w \in [0 .. n -> St]
  <2>1. w = [k \in 0 .. n |-> w[k]]
    <3> HIDE DEF w, n
    <3> QED BY <1>7
  <2> HIDE DEF w, n
  <2> QED BY <1>10, <2>1
<1> HIDE DEF w
<1>12. \A k \in 1 .. n : w[k] = Next1(k, w[k - 1])
  BY <1>0, <1>8
<1> QED BY <1>8, <1>9, <1>11, <1>12

\* What the comparisons of a row, and the rows of a pass, must keep, and the
\* states they go through then.
DedupRowKeeps(alike, seq, k, St) ==
    \A s \in St, l \in k + 1 .. Len(seq) : CompareStations(alike, s, seq[k], seq[l]) \in St

DedupRowRun(w, alike, seq, k, pass, St) ==
    /\ w \in [0 .. Len(seq) -> St]
    /\ \A l \in 0 .. k : w[l] = pass
    /\ \A l \in k + 1 .. Len(seq) : w[l] = CompareStations(alike, w[l - 1], seq[k], seq[l])
    /\ DedupRow(alike, seq, k, pass) = w[Len(seq)]

DedupPassKeeps(alike, seq, St) ==
    \A s \in St, k \in 1 .. Len(seq) : seq[k] \notin s.gone => DedupRow(alike, seq, k, s) \in St

DedupPassRun(p, alike, seq, St) ==
    /\ p \in [0 .. Len(seq) -> St]
    /\ p[0] = Untouched
    /\ \A k \in 1 .. Len(seq) :
          p[k] = IF seq[k] \in p[k - 1].gone THEN p[k - 1] ELSE DedupRow(alike, seq, k, p[k - 1])
    /\ Deduplicated(alike, seq) = p[Len(seq)]

\* The inner loop of the deduplication, comparison by comparison; St is any set
\* of pass states that the comparisons do not leave.
LEMMA DedupRowRuns ==
    ASSUME NEW alike, NEW seq \in Seq(Ids), NEW k \in 1 .. Len(seq), NEW St, NEW pass \in St,
           DedupRowKeeps(alike, seq, k, St)
    PROVE  \E w : DedupRowRun(w, alike, seq, k, pass, St)
<1> USE DEF DedupRowKeeps, DedupRowRun
<1> DEFINE n == Len(seq)
           Next1(l, s) == IF l <= k THEN pass ELSE CompareStations(alike, s, seq[k], seq[l])
           f == [x \in (1 .. n) \X St |-> Next1(x[1], x[2])]
           IsRun(g) == g = [l \in 0 .. n |-> IF l <= k THEN pass
                                             ELSE CompareStations(alike, g[l - 1], seq[k], seq[l])]
           w == CHOOSE g : IsRun(g)
<1>0. n \in Nat /\ k \in Nat /\ 1 <= k /\ k <= n
  OBVIOUS
<1>1. \A l \in 1 .. n, s \in St : Next1(l, s) \in St
  <2> SUFFICES ASSUME NEW l \in 1 .. n, NEW s \in St
               PROVE  Next1(l, s) \in St
    OBVIOUS
  <2>1. CASE l <= k
    BY <2>1
  <2>2. CASE ~(l <= k)
    <3>1. l \in k + 1 .. Len(seq)
      BY <1>0, <2>2
    <3> QED BY <2>2, <3>1
  <2> QED BY <2>1, <2>2
<1>2. f \in Steps(n, St)
  <2> HIDE DEF Next1, n
  <2> QED BY <1>1 DEF Steps
<1>3. \A l \in 1 .. n, s \in St : f[<<l, s>>] = Next1(l, s)
  <2> HIDE DEF Next1, n
  <2> QED OBVIOUS
<1>4. PICK g : g \in [0 .. n -> St] /\ g[0] = pass /\ \A l \in 1 .. n : g[l] = f[<<l, g[l - 1]>>]
  <2> HIDE DEF f, n
  <2>1. \E g : g \in Runs(n, St, pass, f)
    BY <1>0, <1>2, LoopRuns
  <2> QED BY <2>1 DEF Runs
<1>5. \A l \in 1 .. n : g[l] = Next1(l, g[l - 1])
  <2> SUFFICES ASSUME NEW l \in 1 .. n
               PROVE  g[l] = Next1(l, g[l - 1])
    OBVIOUS
  <2>1. l - 1 \in 0 .. n
    BY <1>0
  <2>2. g[l - 1] \in St
    BY <1>4, <2>1
  <2> HIDE DEF Next1, f, n
  <2> QED BY <1>3, <1>4, <2>2
<1>6. IsRun(g)
  <2>1. \A l \in 0 .. n : g[l] = IF l <= k THEN pass ELSE CompareStations(alike, g[l - 1], seq[k], seq[l])
    <3> SUFFICES ASSUME NEW l \in 0 .. n
                 PROVE  g[l] = IF l <= k THEN pass ELSE CompareStations(alike, g[l - 1], seq[k], seq[l])
      OBVIOUS
    <3>1. CASE l = 0
      BY <1>0, <1>4, <3>1
    <3>2. CASE l # 0
      <4>1. l \in 1 .. n
        BY <1>0, <3>2
      <4> QED BY <1>5, <4>1
    <3> QED BY <3>1, <3>2
  <2> HIDE DEF n
  <2> QED BY <1>4, <2>1
<1>7. IsRun(w)
  <2> HIDE DEF IsRun
  <2> QED BY <1>6
<1>8. \A l \in 0 .. n : w[l] = IF l <= k THEN pass ELSE CompareStations(alike, w[l - 1], seq[k], seq[l])
  <2> HIDE DEF n, w
  <2> QED BY <1>7
<1>9. DedupRow(alike, seq, k, pass) = w[n]
  BY DEF DedupRow, Row
<1>10. \A l \in 0 .. n : w[l] \in St
  <2> DEFINE G == {l \in 0 .. n : w[l] \in St}
  <2> HIDE DEF w
  <2>1. 0 \in G
    BY <1>0, <1>8
  <2>2. ASSUME NEW m \in 1 .. n, m - 1 \in G
        PROVE  m \in G
    <3>1. w[m] = Next1(m, w[m - 1]) /\ m \in 0 .. n
      BY <1>0, <1>8
    <3> HIDE DEF Next1
    <3> QED BY <1>1, <2>2, <3>1
  <2>3. 0 .. n \subseteq G
    <3> HIDE DEF G, n
    <3> QED BY <1>0, <2>1, <2>2, Climb
  <2> QED BY <2>3
<1>11. w \in [0 .. n -> St]
  <2>1. w = [l \in 0 .. n |-> w[l]]
    <3> HIDE DEF w, n
    <3> QED BY <1>7
  <2> HIDE DEF w, n
  <2> QED BY <1>10, <2>1
<1> HIDE DEF w
<1>12. /\ \A l \in 0 .. k : w[l] = pass
       /\ \A l \in k + 1 .. n : w[l] = CompareStations(alike, w[l - 1], seq[k], seq[l])
  BY <1>0, <1>8
<1> QED BY <1>9, <1>11, <1>12


\* The outer loop of the deduplication; St is any set of pass states that its
\* rounds do not leave.
LEMMA DedupPassRuns ==
    ASSUME NEW alike, NEW seq \in Seq(Ids), NEW St, Untouched \in St, DedupPassKeeps(alike, seq, St)
    PROVE  \E p : DedupPassRun(p, alike, seq, St)
<1> USE DEF DedupPassKeeps, DedupPassRun
<1> DEFINE n == Len(seq)
           Next1(k, s) == IF seq[k] \in s.gone THEN s ELSE DedupRow(alike, seq, k, s)
           f == [x \in (1 .. n) \X St |-> Next1(x[1], x[2])]
           IsRun(g) == g = [k \in 0 .. n |-> IF k = 0 THEN Untouched
                                             ELSE IF seq[k] \in g[k - 1].gone THEN g[k - 1]
                                                  ELSE DedupRow(alike, seq, k, g[k - 1])]
           w == CHOOSE g : IsRun(g)
<1>0. n \in Nat
  OBVIOUS
<1>1. \A k \in 1 .. n, s \in St : Next1(k, s) \in St
  OBVIOUS
<1>2. f \in Steps(n, St)
  <2> HIDE DEF Next1, n
  <2> QED BY <1>1 DEF Steps
<1>3. \A k \in 1 .. n, s \in St : f[<<k, s>>] = Next1(k, s)
  <2> HIDE DEF Next1, n
  <2> QED OBVIOUS
<1>4. PICK g : g \in [0 .. n -> St] /\ g[0] = Untouched /\ \A k \in 1 .. n : g[k] = f[<<k, g[k - 1]>>]
  <2> HIDE DEF f, n
  <2>1. \E g : g \in Runs(n, St, Untouched, f)
    BY <1>0, <1>2, LoopRuns
  <2> QED BY <2>1 DEF Runs
<1>5. \A k \in 1 .. n : g[k] = Next1(k, g[k - 1])
  <2> SUFFICES ASSUME NEW k \in 1 .. n
               PROVE  g[k] = Next1(k, g[k - 1])
    OBVIOUS
  <2>1. k - 1 \in 0 .. n
    BY <1>0
  <2>2. g[k - 1] \in St
    BY <1>4, <2>1
  <2> HIDE DEF Next1, f, n
  <2> QED BY <1>3, <1>4, <2>2
<1>6. IsRun(g)
  <2>1. \A k \in 0 .. n : g[k] = IF k = 0 THEN Untouched ELSE Next1(k, g[k - 1])
    <3> SUFFICES ASSUME NEW k \in 0 .. n
                 PROVE  g[k] = IF k = 0 THEN Untouched ELSE Next1(k, g[k - 1])
      OBVIOUS
    <3>1. CASE k = 0
      BY <1>4, <3>1
    <3>2. CASE k # 0
      <4>1. k \in 1 .. n
        BY <1>0, <3>2
      <4> HIDE DEF Next1
      <4> QED BY <1>5, <3>2, <4>1
    <3> QED BY <3>1, <3>2
  <2> HIDE DEF n
  <2> QED BY <1>4, <2>1
<1>7. IsRun(w)
  <2> HIDE DEF IsRun
  <2> QED BY <1>6
<1>8. \A k \in 0 .. n : w[k] = IF k = 0 THEN Untouched ELSE Next1(k, w[k - 1])
  <2> HIDE DEF n, w
  <2> QED BY <1>7
<1>9. Deduplicated(alike, seq) = w[n]
  BY DEF Deduplicated, Pairwise, DedupRow, Row, Untouched
<1>10. \A k \in 0 .. n : w[k] \in St
  <2> DEFINE G == {k \in 0 .. n : w[k] \in St}
  <2> HIDE DEF w
  <2>1. 0 \in G
    BY <1>0, <1>8
  <2>2. ASSUME NEW m \in 1 .. n, m - 1 \in G
        PROVE  m \in G
    <3>1. w[m] = Next1(m, w[m - 1]) /\ m \in 0 .. n
      BY <1>0, <1>8
    <3> HIDE DEF Next1
    <3> QED BY <1>1, <2>2, <3>1
  <2>3. 0 .. n \subseteq G
    <3> HIDE DEF G, n
    <3> QED BY <1>0, <2>1, <2>2, Climb
  <2> QED BY <2>3
<1>11. w \in [0 .. n -> St]
  <2>1. w = [k \in 0 .. n |-> w[k]]
    <3> HIDE DEF w, n
    <3> QED BY <1>7
  <2> HIDE DEF w, n
  <2> QED BY <1>10, <2>1
<1> HIDE DEF w
<1>12. \A k \in 1 .. n : w[k] = Next1(k, w[k - 1])
  BY <1>0, <1>8
<1> QED BY <1>8, <1>9, <1>11, <1>12

-----------------------------------------------------------------------------
(* Sums *)

Counts == [Ids -> Nat]

LEMMA SumRun ==
    ASSUME NEW c \in Counts
    PROVE  \E s \in [0 .. MaxTracks -> Nat] :
              /\ s[0] = 0
              /\ \A n \in 1 .. MaxTracks : s[n] = s[n - 1] + c[n]
              /\ SumOfIds(c) = s[MaxTracks]
<1> DEFINE N == MaxTracks
           f == [x \in (1 .. N) \X Nat |-> x[2] + c[x[1]]]
           IsRun(g) == g = [n \in 0 .. N |-> IF n = 0 THEN 0 ELSE g[n - 1] + c[n]]
           s == CHOOSE g : IsRun(g)
<1>0. N \in Nat /\ \A n \in 1 .. N : c[n] \in Nat
  BY TrackAssumption DEF Ids, Counts
<1>1. f \in Steps(N, Nat)
  <2> HIDE DEF N
  <2> QED BY <1>0 DEF Steps
<1>2. \A n \in 1 .. N, x \in Nat : f[<<n, x>>] = x + c[n]
  <2> HIDE DEF N
  <2> QED OBVIOUS
<1>3. PICK g : g \in [0 .. N -> Nat] /\ g[0] = 0 /\ \A n \in 1 .. N : g[n] = f[<<n, g[n - 1]>>]
  <2> HIDE DEF f, N
  <2>1. \E g : g \in Runs(N, Nat, 0, f)
    BY <1>0, <1>1, LoopRuns
  <2> QED BY <2>1 DEF Runs
<1>4. \A n \in 1 .. N : g[n] = g[n - 1] + c[n]
  <2> SUFFICES ASSUME NEW n \in 1 .. N
               PROVE  g[n] = g[n - 1] + c[n]
    OBVIOUS
  <2>1. n - 1 \in 0 .. N
    BY <1>0
  <2>2. g[n - 1] \in Nat
    BY <1>3, <2>1
  <2> HIDE DEF f, N
  <2> QED BY <1>2, <1>3, <2>2
<1>5. IsRun(g)
  <2> HIDE DEF N
  <2>1. \A n \in 0 .. N : g[n] = IF n = 0 THEN 0 ELSE g[n - 1] + c[n]
    BY <1>0, <1>3, <1>4
  <2> QED BY <1>3, <2>1
<1>6. IsRun(s)
  <2> HIDE DEF IsRun
  <2> QED BY <1>5
<1>7. \A n \in 0 .. N : s[n] = IF n = 0 THEN 0 ELSE s[n - 1] + c[n]
  <2> HIDE DEF N, s
  <2> QED BY <1>6
<1>8. SumOfIds(c) = s[N]
  BY DEF SumOfIds
<1>9. \A n \in 0 .. N : s[n] \in Nat
  <2> DEFINE G == {n \in 0 .. N : s[n] \in Nat}
  <2> HIDE DEF s
  <2>1. 0 \in G
    BY <1>0, <1>7
  <2>2. ASSUME NEW m \in 1 .. N, m - 1 \in G
        PROVE  m \in G
    BY <1>0, <1>7, <2>2
  <2>3. 0 .. N \subseteq G
    <3> HIDE DEF G, N
    <3> QED BY <1>0, <2>1, <2>2, Climb
  <2> QED BY <2>3
<1>10. s \in [0 .. N -> Nat]
  <2>1. s = [n \in 0 .. N |-> s[n]]
    <3> HIDE DEF s, N
    <3> QED BY <1>6
  <2> HIDE DEF s, N
  <2> QED BY <1>9, <2>1
<1> HIDE DEF s
<1>11. s[0] = 0 /\ \A n \in 1 .. N : s[n] = s[n - 1] + c[n]
  BY <1>0, <1>7
<1> QED BY <1>8, <1>10, <1>11

LEMMA SumOfSums ==
    ASSUME NEW a \in Counts, NEW b \in Counts, NEW c \in Counts,
           \A t \in Ids : c[t] = a[t] + b[t]
    PROVE  SumOfIds(c) = SumOfIds(a) + SumOfIds(b)
<1> DEFINE N == MaxTracks
<1>0. N \in Nat /\ \A n \in 1 .. N : c[n] = a[n] + b[n] /\ a[n] \in Nat /\ b[n] \in Nat
  BY TrackAssumption DEF Ids, Counts
<1>1. PICK x : /\ x \in [0 .. N -> Nat]
               /\ x[0] = 0
               /\ \A n \in 1 .. N : x[n] = x[n - 1] + a[n]
               /\ SumOfIds(a) = x[N]
  BY SumRun
<1>2. PICK y : /\ y \in [0 .. N -> Nat]
               /\ y[0] = 0
               /\ \A n \in 1 .. N : y[n] = y[n - 1] + b[n]
               /\ SumOfIds(b) = y[N]
  BY SumRun
<1>3. PICK z : /\ z \in [0 .. N -> Nat]
               /\ z[0] = 0
               /\ \A n \in 1 .. N : z[n] = z[n - 1] + c[n]
               /\ SumOfIds(c) = z[N]
  BY SumRun
<1> DEFINE G == {n \in 0 .. N : z[n] = x[n] + y[n]}
<1>4. 0 \in G
  BY <1>0, <1>1, <1>2, <1>3
<1>5. ASSUME NEW m \in 1 .. N, m - 1 \in G
      PROVE  m \in G
  <2>1. m - 1 \in 0 .. N /\ m \in 0 .. N
    BY <1>0
  <2>2. x[m - 1] \in Nat /\ y[m - 1] \in Nat /\ z[m - 1] = x[m - 1] + y[m - 1]
    BY <1>1, <1>2, <1>5, <2>1
  <2>3. c[m] = a[m] + b[m] /\ a[m] \in Nat /\ b[m] \in Nat
    BY <1>0
  <2>4. z[m] = z[m - 1] + c[m] /\ x[m] = x[m - 1] + a[m] /\ y[m] = y[m - 1] + b[m]
    BY <1>1, <1>2, <1>3
  <2> HIDE DEF N
  <2> QED BY <2>1, <2>2, <2>3, <2>4
<1>6. 0 .. N \subseteq G
  <2> HIDE DEF G, N
  <2> QED BY <1>0, <1>4, <1>5, Climb
<1>7. z[N] = x[N] + y[N]
  <2> HIDE DEF N
  <2> QED BY <1>0, <1>6
<1> QED BY <1>1, <1>2, <1>3, <1>7

\* The counts of which only that of t may differ from zero.
Only(t, n) == [u \in Ids |-> IF u = t THEN n ELSE 0]

LEMMA SumOfOne ==
    ASSUME NEW t \in Ids, NEW k \in Nat
    PROVE  Only(t, k) \in Counts /\ SumOfIds(Only(t, k)) = k
<1> DEFINE N == MaxTracks
           c == Only(t, k)
<1>0. N \in Nat /\ t \in 1 .. N /\ \A n \in 1 .. N : c[n] = IF n = t THEN k ELSE 0
  BY TrackAssumption DEF Ids, Only
<1>1. c \in Counts
  BY DEF Only, Counts
<1>2. PICK x : /\ x \in [0 .. N -> Nat]
               /\ x[0] = 0
               /\ \A n \in 1 .. N : x[n] = x[n - 1] + c[n]
               /\ SumOfIds(c) = x[N]
  <2> HIDE DEF c
  <2> QED BY <1>1, SumRun
<1> DEFINE G == {n \in 0 .. N : x[n] = IF t <= n THEN k ELSE 0}
<1>3. 0 \in G
  BY <1>0, <1>2
<1>4. ASSUME NEW m \in 1 .. N, m - 1 \in G
      PROVE  m \in G
  <2>1. m - 1 \in 0 .. N /\ m \in 0 .. N /\ t \in Nat
    BY <1>0
  <2>2. x[m - 1] = IF t <= m - 1 THEN k ELSE 0
    BY <1>4
  <2>3. x[m] = x[m - 1] + c[m] /\ c[m] = IF m = t THEN k ELSE 0
    BY <1>0, <1>2
  <2> HIDE DEF N, c
  <2> QED BY <1>0, <2>1, <2>2, <2>3
<1>5. 0 .. N \subseteq G
  <2> HIDE DEF G, N
  <2> QED BY <1>0, <1>3, <1>4, Climb
<1>6. x[N] = k
  BY <1>0, <1>5
<1> QED BY <1>1, <1>2, <1>6

\* What is taken from one count and added to another changes no sum.
LEMMA SumMoves ==
    ASSUME NEW a \in Counts, NEW b \in Counts, NEW i \in Ids, NEW j \in Ids, i # j,
           b[i] = a[i] + a[j], b[j] = 0,
           \A t \in Ids \ {i, j} : b[t] = a[t]
    PROVE  SumOfIds(b) = SumOfIds(a)
<1> DEFINE rest == [t \in Ids |-> IF t = j THEN 0 ELSE a[t]]
<1>1. rest \in Counts /\ a[j] \in Nat /\ a[i] \in Nat
  BY DEF Counts
<1>2. \A t \in Ids : a[t] = rest[t] + Only(j, a[j])[t]
  BY <1>1 DEF Only, Counts
<1>3. \A t \in Ids : b[t] = rest[t] + Only(i, a[j])[t]
  BY <1>1 DEF Only, Counts
<1>4. SumOfIds(Only(i, a[j])) = SumOfIds(Only(j, a[j])) /\ Only(i, a[j]) \in Counts /\ Only(j, a[j]) \in Counts
  BY <1>1, SumOfOne
<1> HIDE DEF rest
<1>5. SumOfIds(a) = SumOfIds(rest) + SumOfIds(Only(j, a[j]))
  BY <1>1, <1>2, <1>4, SumOfSums
<1>6. SumOfIds(b) = SumOfIds(rest) + SumOfIds(Only(i, a[j]))
  BY <1>1, <1>3, <1>4, SumOfSums
<1> QED BY <1>4, <1>5, <1>6

LEMMA SumIsNatural ==
    ASSUME NEW c \in Counts
    PROVE  SumOfIds(c) \in Nat
<1>1. PICK s \in [0 .. MaxTracks -> Nat] : SumOfIds(c) = s[MaxTracks]
  BY SumRun
<1> QED BY <1>1, TrackAssumption

-----------------------------------------------------------------------------
(* Orders of the table *)

\* The sequences of the members of S have each of them once.
LEMMA Arrangements ==
    ASSUME NEW S \in SUBSET Ids, NEW o \in SetToSeqs(S)
    PROVE  /\ o \in Seq(Ids) /\ o \in Seq(S)
           /\ IsInjective(o)
           /\ Range(o) = S
<1> DEFINE D == 1 .. Cardinality(S)
<1>1. IsFiniteSet(S) /\ Cardinality(S) \in Nat
  <2>1. IsFiniteSet(Ids)
    BY FS_Interval, TrackAssumption DEF Ids
  <2> QED BY <2>1, FS_Subset, FS_CardinalityType
<1>2. IsFiniteSet(D) /\ Cardinality(D) = Cardinality(S)
  BY <1>1, FS_Interval
<1>3. o \in [D -> S] /\ \A i, j \in D : i # j => o[i] # o[j]
  BY DEF SetToSeqs
<1>4. o \in Injection(D, S)
  BY <1>3 DEF Injection, IsInjective
<1>5. o \in Surjection(D, S)
  <2> HIDE DEF D
  <2> QED BY <1>1, <1>2, <1>4, FS_Injection
<1>6. Range(o) = S
  BY <1>3, <1>5 DEF Surjection, Range
<1>7. o \in Seq(S)
  BY <1>1, <1>3
<1>8. o \in Seq(Ids)
  BY <1>1, <1>3
<1> QED BY <1>4, <1>6, <1>7, <1>8 DEF Injection

-----------------------------------------------------------------------------
(* Passes *)

Pass == [obj : [Live -> Track], gone : SUBSET Live]

\* What neither pass changes in an object: where and since when it is heard,
\* and from where.
Same(pass) ==
    \A t \in Live : /\ pass.obj[t].freq = tracks[t].freq
                    /\ pass.obj[t].first = tracks[t].first
                    /\ pass.obj[t].lost = tracks[t].lost
                    /\ pass.obj[t].origin = tracks[t].origin

\* The observations of the tracks that a pass leaves.
Left(pass) == [t \in Ids |-> IF t \in Live \ pass.gone THEN pass.obj[t].count ELSE 0]

LEMMA UniteKeeps ==
    ASSUME TypeOK, NEW pass \in Pass, NEW i \in Live, NEW j \in Live
    PROVE  LET u == Unite(pass, i, j)
           IN  /\ u \in Pass
               /\ u.gone = pass.gone \cup {j}
               /\ \A t \in Live \ {i} : u.obj[t] = pass.obj[t]
               /\ u.obj[i].count = pass.obj[i].count + pass.obj[j].count
               /\ u.obj[i].freq = pass.obj[i].freq /\ u.obj[i].first = pass.obj[i].first
               /\ u.obj[i].last = pass.obj[i].last /\ u.obj[i].lost = pass.obj[i].lost
               /\ u.obj[i].origin = pass.obj[i].origin
<1> DEFINE u == Unite(pass, i, j)
           a == pass.obj[i]
           b == pass.obj[j]
           r == [freq |-> a.freq, first |-> a.first, last |-> a.last, count |-> a.count + b.count,
                 lost |-> a.lost, origin |-> a.origin]
<1>1. pass.obj \in [Live -> Track] /\ pass.gone \subseteq Live
  BY DEF Pass
<1>2. a \in Track /\ b \in Track
  BY <1>1
<1>3. r \in Track
  BY <1>2 DEF Track
<1>4. u.gone = pass.gone \cup {j}
  BY DEF Unite
<1>5. u.obj = [pass.obj EXCEPT ![i].count = @ + b.count]
  BY DEF Unite
<1>6. u = [obj |-> u.obj, gone |-> u.gone]
  BY DEF Unite
<1>7. u.obj = [pass.obj EXCEPT ![i] = r]
  <2>1. [a EXCEPT !.count = @ + b.count] = r
    <3>1. a \in Track
      BY <1>2
    <3> HIDE DEF a, b
    <3> QED BY <3>1 DEF Track
  <2> HIDE DEF u, b, r
  <2>2. u.obj = [pass.obj EXCEPT ![i] = [a EXCEPT !.count = @ + b.count]]
    BY <1>5
  <2> QED BY <2>1, <2>2
<1> HIDE DEF u, r
<1>8. u.obj \in [Live -> Track]
  BY <1>1, <1>3, <1>7
<1>9. u \in Pass
  BY <1>1, <1>4, <1>6, <1>8 DEF Pass
<1>10. u.obj[i] = r /\ \A t \in Live \ {i} : u.obj[t] = pass.obj[t]
  BY <1>1, <1>7
<1> QED BY <1>4, <1>9, <1>10 DEF u, r

\* The tracks of the table have numbers of ids.
LEMMA LiveInIds ==
    ASSUME TypeOK
    PROVE  Live \subseteq Ids /\ 1 .. born \subseteq Ids
<1>1. Live \subseteq 1 .. born /\ born \in 0 .. MaxTracks
  BY DEF TypeOK
<1>2. MaxTracks \in Nat
  BY TrackAssumption
<1>3. 1 .. born \subseteq 1 .. MaxTracks
  BY <1>1, <1>2
<1> QED BY <1>1, <1>3 DEF Ids

\* What a removed track had goes to another one.
LEMMA UniteBalances ==
    ASSUME TypeOK, NEW pass \in Pass, NEW i \in Live \ pass.gone, NEW j \in Live \ pass.gone, i # j
    PROVE  /\ Left(pass) \in Counts
           /\ SumOfIds(Left(Unite(pass, i, j))) = SumOfIds(Left(pass))
<1> DEFINE u == Unite(pass, i, j)
<1>1. Live \subseteq Ids
  BY LiveInIds
<1>2. \A t \in Live : pass.obj[t].count \in Nat
  BY DEF Pass, Track
<1>3. Left(pass) \in Counts
  BY <1>2 DEF Left, Counts
<1>4. /\ u \in Pass
      /\ u.gone = pass.gone \cup {j}
      /\ \A t \in Live \ {i} : u.obj[t] = pass.obj[t]
      /\ u.obj[i].count = pass.obj[i].count + pass.obj[j].count
  BY UniteKeeps
<1> HIDE DEF u
<1>5. \A t \in Live : u.obj[t].count \in Nat
  BY <1>4 DEF Pass, Track
<1>6. Left(u) \in Counts
  BY <1>5 DEF Left, Counts
<1>7. Left(u)[i] = Left(pass)[i] + Left(pass)[j]
  BY <1>1, <1>4 DEF Left
<1>8. Left(u)[j] = 0
  BY <1>1, <1>4 DEF Left
<1>9. \A t \in Ids \ {i, j} : Left(u)[t] = Left(pass)[t]
  BY <1>4 DEF Left
<1>10. SumOfIds(Left(u)) = SumOfIds(Left(pass))
  BY <1>1, <1>3, <1>6, <1>7, <1>8, <1>9, SumMoves
<1> QED BY <1>3, <1>10 DEF u

\* A pass starts with the tracks as they are.
LEMMA FreshPass ==
    ASSUME TypeOK
    PROVE  /\ Untouched \in Pass /\ Same(Untouched)
           /\ Untouched.gone = {} /\ Untouched.obj = tracks
           /\ Left(Untouched) = CountsOf(Live)
<1>1. Untouched \in Pass /\ Untouched.gone = {} /\ Untouched.obj = tracks
  BY DEF Untouched, Pass, TypeOK
<1> QED BY <1>1 DEF Same, Left, CountsOf

-----------------------------------------------------------------------------
(* merge_duplicates *)

\* The states of its passes: it does not change when a track was last heard.
Merging == {pass \in Pass : Same(pass) /\ \A t \in Live : pass.obj[t].last = tracks[t].last}

LEMMA UniteMerges ==
    ASSUME TypeOK, NEW pass \in Merging, NEW i \in Live, NEW j \in Live
    PROVE  /\ Unite(pass, i, j) \in Merging
           /\ Unite(pass, i, j).gone = pass.gone \cup {j}
<1> DEFINE u == Unite(pass, i, j)
<1>1. pass \in Pass /\ Same(pass) /\ \A t \in Live : pass.obj[t].last = tracks[t].last
  BY DEF Merging
<1>2. /\ u \in Pass
      /\ u.gone = pass.gone \cup {j}
      /\ \A t \in Live \ {i} : u.obj[t] = pass.obj[t]
      /\ u.obj[i].freq = pass.obj[i].freq /\ u.obj[i].first = pass.obj[i].first
      /\ u.obj[i].last = pass.obj[i].last /\ u.obj[i].lost = pass.obj[i].lost
      /\ u.obj[i].origin = pass.obj[i].origin
  BY <1>1, UniteKeeps
<1> HIDE DEF u
<1>3. Same(u)
  <2> SUFFICES ASSUME NEW t \in Live
               PROVE  /\ u.obj[t].freq = tracks[t].freq
                      /\ u.obj[t].first = tracks[t].first
                      /\ u.obj[t].lost = tracks[t].lost
                      /\ u.obj[t].origin = tracks[t].origin
    BY DEF Same
  <2>1. CASE t = i
    BY <1>1, <1>2, <2>1 DEF Same
  <2>2. CASE t # i
    BY <1>1, <1>2, <2>2 DEF Same
  <2> QED BY <2>1, <2>2
<1>4. \A t \in Live : u.obj[t].last = tracks[t].last
  BY <1>1, <1>2
<1>5. u \in Merging
  BY <1>2, <1>3, <1>4 DEF Merging
<1> QED BY <1>2, <1>5 DEF u

\* A comparison removes nothing it does not unite, and does not leave both of a
\* pair of duplicates.
LEMMA DuplicatesCompared ==
    ASSUME TypeOK, NEW pass \in Merging, NEW i \in Live, NEW j \in Live
    PROVE  /\ CompareDuplicates(pass, i, j) \in Merging
           /\ pass.gone \subseteq CompareDuplicates(pass, i, j).gone
           /\ Duplicates(tracks[i], tracks[j]) =>
                  \/ i \in CompareDuplicates(pass, i, j).gone
                  \/ j \in CompareDuplicates(pass, i, j).gone
<1> DEFINE c == CompareDuplicates(pass, i, j)
<1>1. Duplicates(pass.obj[i], pass.obj[j]) = Duplicates(tracks[i], tracks[j])
  BY DEF Merging, Same, Duplicates
<1>2. CASE j \in pass.gone \/ ~Duplicates(pass.obj[i], pass.obj[j])
  <2>1. c = pass
    BY <1>2 DEF CompareDuplicates
  <2> QED BY <1>1, <1>2, <2>1
<1>3. CASE ~(j \in pass.gone \/ ~Duplicates(pass.obj[i], pass.obj[j]))
  <2>1. c = Unite(pass, i, j) \/ c = Unite(pass, j, i)
    BY <1>3 DEF CompareDuplicates, UniteDuplicates
  <2> HIDE DEF c
  <2>2. /\ c \in Merging
        /\ c.gone = pass.gone \cup {j} \/ c.gone = pass.gone \cup {i}
    BY <2>1, UniteMerges
  <2>3. pass.gone \subseteq c.gone /\ (i \in c.gone \/ j \in c.gone)
    BY <2>2
  <2> QED BY <2>2, <2>3 DEF c
<1> QED BY <1>2, <1>3

\* A row removes nothing that it does not unite, and leaves no duplicate of its
\* track behind it.
LEMMA DuplicatesRow ==
    ASSUME TypeOK, NEW k \in 1 .. Len(order), NEW pass \in Merging
    PROVE  /\ MergedRow(order, k, pass) \in Merging
           /\ pass.gone \subseteq MergedRow(order, k, pass).gone
           /\ \A l \in k + 1 .. Len(order) :
                  Duplicates(tracks[order[k]], tracks[order[l]]) =>
                      \/ order[k] \in MergedRow(order, k, pass).gone
                      \/ order[l] \in MergedRow(order, k, pass).gone
<1> DEFINE n == Len(order)
           St == Merging
<1>0. n \in Nat /\ k \in Nat /\ 1 <= k /\ k <= n
  BY DEF TypeOK
<1>1. order \in Seq(Ids) /\ \A l \in 1 .. n : order[l] \in Live
  BY DEF TypeOK, Range
<1>2. \A s \in St, l \in k + 1 .. n : CompareDuplicates(s, order[k], order[l]) \in St
  <2>1. order[k] \in Live /\ \A l \in k + 1 .. n : order[l] \in Live
    BY <1>0, <1>1
  <2> QED BY <2>1, DuplicatesCompared
<1>3. PICK w : /\ w \in [0 .. n -> St]
               /\ \A l \in 0 .. k : w[l] = pass
               /\ \A l \in k + 1 .. n : w[l] = CompareDuplicates(w[l - 1], order[k], order[l])
               /\ MergedRow(order, k, pass) = w[n]
  <2>1. \E w : MergeRowRun(w, order, k, pass, Merging)
    BY <1>1, <1>2, MergeRowRuns DEF MergeRowKeeps
  <2> QED BY <2>1 DEF MergeRowRun
<1>4. \A l \in 0 .. n : w[l] \in Merging
  BY <1>3
<1>5. \A l \in k + 1 .. n : /\ w[l - 1].gone \subseteq w[l].gone
                            /\ Duplicates(tracks[order[k]], tracks[order[l]]) =>
                                   order[k] \in w[l].gone \/ order[l] \in w[l].gone
  <2> SUFFICES ASSUME NEW l \in k + 1 .. n
               PROVE  /\ w[l - 1].gone \subseteq w[l].gone
                      /\ Duplicates(tracks[order[k]], tracks[order[l]]) =>
                             order[k] \in w[l].gone \/ order[l] \in w[l].gone
    OBVIOUS
  <2>1. l - 1 \in 0 .. n /\ l \in 1 .. n /\ k \in 1 .. n
    BY <1>0
  <2>2. w[l - 1] \in Merging /\ order[k] \in Live /\ order[l] \in Live
    BY <1>1, <1>4, <2>1
  <2>3. w[l] = CompareDuplicates(w[l - 1], order[k], order[l])
    BY <1>3
  <2> QED BY <2>2, <2>3, DuplicatesCompared
<1>6. \A a, b \in 0 .. n : a <= b => w[a].gone \subseteq w[b].gone
  <2> SUFFICES ASSUME NEW a \in 0 .. n
               PROVE  \A b \in 0 .. n : a <= b => w[a].gone \subseteq w[b].gone
    OBVIOUS
  <2> DEFINE G == {b \in 0 .. n : a <= b => w[a].gone \subseteq w[b].gone}
  <2>1. 0 \in G
    BY <1>0
  <2>2. ASSUME NEW m \in 1 .. n, m - 1 \in G
        PROVE  m \in G
    <3>1. m \in 0 .. n /\ m - 1 \in 0 .. n
      BY <1>0
    <3>2. CASE m <= k
      <4>1. w[m] = pass /\ w[m - 1] = pass
        BY <1>0, <1>3, <3>1, <3>2
      <4>2. a <= m => a = m \/ a <= m - 1
        BY <3>1
      <4> QED BY <2>2, <3>1, <4>1, <4>2
    <3>3. CASE ~(m <= k)
      <4>1. m \in k + 1 .. n
        BY <1>0, <3>3
      <4>2. w[m - 1].gone \subseteq w[m].gone
        BY <1>5, <4>1
      <4>3. a <= m => a = m \/ a <= m - 1
        BY <3>1
      <4> QED BY <2>2, <3>1, <4>2, <4>3
    <3> QED BY <3>2, <3>3
  <2>3. 0 .. n \subseteq G
    <3> HIDE DEF G, n
    <3> QED BY <1>0, <2>1, <2>2, Climb
  <2> QED BY <2>3
<1>7. w[k] = pass /\ k \in 0 .. n /\ n \in 0 .. n
  BY <1>0, <1>3
<1>8. pass.gone \subseteq w[n].gone
  BY <1>0, <1>6, <1>7
<1>9. ASSUME NEW l \in k + 1 .. n, Duplicates(tracks[order[k]], tracks[order[l]])
      PROVE  order[k] \in w[n].gone \/ order[l] \in w[n].gone
  <2>1. l \in 0 .. n /\ l <= n
    BY <1>0
  <2>2. w[l].gone \subseteq w[n].gone
    BY <1>6, <1>7, <2>1
  <2> QED BY <1>5, <1>9, <2>2
<1> QED BY <1>3, <1>4, <1>7, <1>8, <1>9

LEMMA MergedDuplicates ==
    ASSUME TypeOK
    PROVE  /\ Merged \in Merging
           /\ \A t, u \in Live \ Merged.gone : t # u => ~Duplicates(tracks[t], tracks[u])
<1> DEFINE n == Len(order)
<1>0. n \in Nat /\ order \in Seq(Ids) /\ IsInjective(order)
      /\ (\A l \in 1 .. n : order[l] \in Live)
      /\ \A t \in Live : \E k \in 1 .. n : order[k] = t
  <2>1. order \in Seq(Ids) /\ IsInjective(order) /\ Range(order) = Live
    BY DEF TypeOK
  <2>2. n \in Nat /\ DOMAIN order = 1 .. n
    BY <2>1
  <2> QED BY <2>1, <2>2 DEF Range
<1>1. PICK p : /\ p \in [0 .. n -> Merging]
               /\ \A k \in 1 .. n :
                     p[k] = IF order[k] \in p[k - 1].gone THEN p[k - 1] ELSE MergedRow(order, k, p[k - 1])
               /\ Merged = p[n]
  <2>1. Untouched \in Merging
    BY FreshPass DEF Merging
  <2>2. MergePassKeeps(order, Merging)
    BY DuplicatesRow DEF MergePassKeeps
  <2>3. \E p : MergePassRun(p, order, Merging)
    BY <1>0, <2>1, <2>2, MergePassRuns
  <2> QED BY <2>3 DEF MergePassRun, Merged
<1>2. \A k \in 0 .. n : p[k] \in Merging
  BY <1>1
<1>3. \A k \in 1 .. n :
        /\ p[k - 1].gone \subseteq p[k].gone
        /\ \A l \in k + 1 .. n : Duplicates(tracks[order[k]], tracks[order[l]]) =>
               order[k] \in p[k].gone \/ order[l] \in p[k].gone
  <2> SUFFICES ASSUME NEW k \in 1 .. n
               PROVE  /\ p[k - 1].gone \subseteq p[k].gone
                      /\ \A l \in k + 1 .. n : Duplicates(tracks[order[k]], tracks[order[l]]) =>
                             order[k] \in p[k].gone \/ order[l] \in p[k].gone
    OBVIOUS
  <2>1. k - 1 \in 0 .. n
    BY <1>0
  <2>2. p[k - 1] \in Merging
    BY <1>2, <2>1
  <2>3. CASE order[k] \in p[k - 1].gone
    <3>1. p[k] = p[k - 1]
      BY <1>1, <2>3
    <3> QED BY <2>3, <3>1
  <2>4. CASE order[k] \notin p[k - 1].gone
    <3>1. p[k] = MergedRow(order, k, p[k - 1])
      BY <1>1, <2>4
    <3> QED BY <2>2, <3>1, DuplicatesRow
  <2> QED BY <2>3, <2>4
<1>4. \A a \in 0 .. n : p[a].gone \subseteq p[n].gone
  <2> SUFFICES ASSUME NEW a \in 0 .. n
               PROVE  p[a].gone \subseteq p[n].gone
    OBVIOUS
  <2> DEFINE G == {b \in 0 .. n : a <= b => p[a].gone \subseteq p[b].gone}
  <2>1. 0 \in G
    BY <1>0
  <2>2. ASSUME NEW m \in 1 .. n, m - 1 \in G
        PROVE  m \in G
    <3>1. m \in 0 .. n /\ m - 1 \in 0 .. n
      BY <1>0
    <3>2. p[m - 1].gone \subseteq p[m].gone
      BY <1>3
    <3>3. a <= m => a = m \/ a <= m - 1
      BY <3>1
    <3> QED BY <2>2, <3>1, <3>2, <3>3
  <2>3. 0 .. n \subseteq G
    <3> HIDE DEF G, n
    <3> QED BY <1>0, <2>1, <2>2, Climb
  <2> QED BY <1>0, <2>3
<1>5. ASSUME NEW k \in 1 .. n, NEW l \in k + 1 .. n,
             order[k] \notin Merged.gone, order[l] \notin Merged.gone
      PROVE  ~Duplicates(tracks[order[k]], tracks[order[l]])
  <2>1. p[k].gone \subseteq Merged.gone
    BY <1>0, <1>1, <1>4
  <2> QED BY <1>3, <1>5, <2>1
<1>6. ASSUME NEW t \in Live \ Merged.gone, NEW u \in Live \ Merged.gone, t # u
      PROVE  ~Duplicates(tracks[t], tracks[u])
  <2>1. PICK k \in 1 .. n : order[k] = t
    BY <1>0
  <2>2. PICK l \in 1 .. n : order[l] = u
    BY <1>0
  <2>3. CASE k < l
    <3>1. l \in k + 1 .. n
      BY <2>3
    <3> QED BY <1>5, <2>1, <2>2, <3>1
  <2>4. CASE l < k
    <3>1. k \in l + 1 .. n
      BY <2>4
    <3>2. ~Duplicates(tracks[u], tracks[t])
      BY <1>5, <2>1, <2>2, <3>1
    <3>3. /\ tracks[t].freq \in Int /\ tracks[u].freq \in Int
          /\ tracks[t].last \in Int /\ tracks[u].last \in Int
      <4>1. tracks[t] \in Track /\ tracks[u] \in Track
        BY DEF TypeOK
      <4>2. Freqs \subseteq Int
        BY TrackAssumption
      <4> QED BY <4>1, <4>2 DEF Track
    <3>4. /\ Apart(tracks[t].freq, tracks[u].freq) = Apart(tracks[u].freq, tracks[t].freq)
          /\ Apart(tracks[t].last, tracks[u].last) = Apart(tracks[u].last, tracks[t].last)
      BY <3>3 DEF Apart
    <3> QED BY <3>2, <3>4 DEF Duplicates
  <2>5. k # l
    BY <1>6, <2>1, <2>2
  <2> QED BY <2>3, <2>4, <2>5
<1>7. Merged \in Merging
  BY <1>0, <1>1, <1>2
<1> QED BY <1>6, <1>7

\* The tracks are united oldest first, so the track of a row stays and takes
\* the observations of those it removes.
Balanced == {pass \in Pass : SumOfIds(Left(pass)) = Observations(Live)}

LEMMA DuplicatesBalance ==
    ASSUME TypeOK, OldestFirst, NEW k \in 1 .. Len(order),
           NEW pass \in Merging \cap Balanced, order[k] \notin pass.gone
    PROVE  MergedRow(order, k, pass) \in Merging \cap Balanced
<1> DEFINE n == Len(order)
           i == order[k]
           St == {s \in Merging \cap Balanced : i \notin s.gone}
<1>0. n \in Nat /\ k \in Nat /\ 1 <= k /\ k <= n
      /\ order \in Seq(Ids) /\ IsInjective(order) /\ \A l \in 1 .. n : order[l] \in Live
  BY DEF TypeOK, Range
<1>1. ASSUME NEW s \in St, NEW l \in k + 1 .. n
      PROVE  CompareDuplicates(s, i, order[l]) \in St
  <2> DEFINE j == order[l]
  <2>1. l \in 1 .. n /\ k \in 1 .. n /\ k < l /\ k # l
    BY <1>0
  <2>2. i \in Live /\ j \in Live
    BY <1>0, <2>1
  <2>3. i # j
    BY <1>0, <2>1 DEF IsInjective
  <2>4. s \in Merging /\ s \in Pass /\ i \notin s.gone /\ SumOfIds(Left(s)) = Observations(Live)
    BY DEF Merging, Balanced
  <2>5. CASE j \in s.gone \/ ~Duplicates(s.obj[i], s.obj[j])
    BY <2>5 DEF CompareDuplicates
  <2>6. CASE ~(j \in s.gone \/ ~Duplicates(s.obj[i], s.obj[j]))
    <3>1. s.obj[i].first <= s.obj[j].first
      <4>1. tracks[i].first <= tracks[j].first
        BY <1>0, <2>1 DEF OldestFirst
      <4>2. s.obj[i].first = tracks[i].first /\ s.obj[j].first = tracks[j].first
        BY <2>2, <2>4 DEF Merging, Same
      <4> QED BY <4>1, <4>2
    <3>2. CompareDuplicates(s, i, j) = Unite(s, i, j)
      BY <2>6, <3>1 DEF CompareDuplicates, UniteDuplicates
    <3>3. Unite(s, i, j) \in Merging /\ Unite(s, i, j).gone = s.gone \cup {j}
      BY <2>2, <2>4, UniteMerges
    <3>4. SumOfIds(Left(Unite(s, i, j))) = SumOfIds(Left(s))
      BY <2>2, <2>3, <2>4, <2>6, UniteBalances
    <3> QED BY <2>3, <2>4, <3>2, <3>3, <3>4 DEF Balanced, Merging
  <2> QED BY <2>5, <2>6
<1>2. \E w : MergeRowRun(w, order, k, pass, St)
  <2>1. pass \in St
    OBVIOUS
  <2>2. MergeRowKeeps(order, k, St)
    BY <1>1 DEF MergeRowKeeps
  <2> HIDE DEF St
  <2> QED BY <1>0, <2>1, <2>2, MergeRowRuns
<1>3. MergedRow(order, k, pass) \in St
  <2> HIDE DEF St
  <2> QED BY <1>0, <1>2 DEF MergeRowRun
<1> QED BY <1>3

LEMMA MergedBalances ==
    ASSUME TypeOK, OldestFirst
    PROVE  Merged \in Balanced
<1> DEFINE St == Merging \cap Balanced
<1>1. Untouched \in St
  BY FreshPass DEF Merging, Balanced, Observations
<1>2. MergePassKeeps(order, St)
  BY DuplicatesBalance DEF MergePassKeeps
<1>3. order \in Seq(Ids) /\ Len(order) \in Nat
  BY DEF TypeOK
<1>4. \E p : MergePassRun(p, order, St)
  <2> HIDE DEF St
  <2> QED BY <1>1, <1>2, <1>3, MergePassRuns
<1>5. Merged \in St
  <2> HIDE DEF St
  <2> QED BY <1>3, <1>4 DEF MergePassRun, Merged
<1> QED BY <1>5

-----------------------------------------------------------------------------
(* CrossStationDedup *)

\* The states of its passes.
Deduping == {pass \in Balanced : Same(pass)}

LEMMA UniteStationsKeeps ==
    ASSUME TypeOK, NEW pass \in Pass, NEW i \in Live \ pass.gone, NEW j \in Live \ pass.gone, i # j
    PROVE  LET u == UniteStations(pass, i, j)
           IN  /\ u \in Pass
               /\ u.gone = pass.gone \cup {j}
               /\ \A t \in Live \ {i} : u.obj[t] = pass.obj[t]
               /\ u.obj[i].count = pass.obj[i].count + pass.obj[j].count
               /\ u.obj[i].freq = pass.obj[i].freq /\ u.obj[i].first = pass.obj[i].first
               /\ u.obj[i].lost = pass.obj[i].lost /\ u.obj[i].origin = pass.obj[i].origin
               /\ SumOfIds(Left(u)) = SumOfIds(Left(pass))
<1> DEFINE v == Unite(pass, i, j)
           u == UniteStations(pass, i, j)
           latest == IF pass.obj[i].last < pass.obj[j].last THEN pass.obj[j].last
                                                            ELSE pass.obj[i].last
           r == [v.obj[i] EXCEPT !.last = latest]
<1>1. /\ v \in Pass
      /\ v.gone = pass.gone \cup {j}
      /\ \A t \in Live \ {i} : v.obj[t] = pass.obj[t]
      /\ v.obj[i].count = pass.obj[i].count + pass.obj[j].count
      /\ v.obj[i].freq = pass.obj[i].freq /\ v.obj[i].first = pass.obj[i].first
      /\ v.obj[i].lost = pass.obj[i].lost /\ v.obj[i].origin = pass.obj[i].origin
  BY UniteKeeps
<1>2. SumOfIds(Left(v)) = SumOfIds(Left(pass))
  BY UniteBalances
<1>3. u = [v EXCEPT !.obj[i].last = latest]
  BY DEF UniteStations
<1>4. latest \in Int
  <2>1. pass.obj[i] \in Track /\ pass.obj[j] \in Track
    BY DEF Pass
  <2> QED BY <2>1 DEF Track
<1> HIDE DEF u, v, latest
<1>5. v.obj \in [Live -> Track] /\ v.gone \subseteq Live /\ v.obj[i] \in Track
  BY <1>1 DEF Pass
<1>6. /\ r \in Track
      /\ r.freq = v.obj[i].freq /\ r.first = v.obj[i].first /\ r.count = v.obj[i].count
      /\ r.lost = v.obj[i].lost /\ r.origin = v.obj[i].origin
  <2> DEFINE a == v.obj[i]
  <2>1. a \in Track
    BY <1>5
  <2> HIDE DEF a
  <2>2. LET q == [a EXCEPT !.last = latest]
        IN  /\ q \in Track
            /\ q.freq = a.freq /\ q.first = a.first /\ q.count = a.count
            /\ q.lost = a.lost /\ q.origin = a.origin
    BY <1>4, <2>1 DEF Track
  <2> QED BY <2>2 DEF a
<1>7. v = [obj |-> v.obj, gone |-> v.gone]
  BY <1>1 DEF Pass
<1>8. u = [obj |-> [v.obj EXCEPT ![i] = r], gone |-> v.gone]
  BY <1>3, <1>5, <1>7
<1> HIDE DEF r
<1>9. u.gone = v.gone /\ u.obj = [v.obj EXCEPT ![i] = r]
  BY <1>8
<1>10. u.obj \in [Live -> Track] /\ u.obj[i] = r /\ \A t \in Live \ {i} : u.obj[t] = v.obj[t]
  BY <1>5, <1>6, <1>9
<1>11. u \in Pass
  BY <1>5, <1>8, <1>9, <1>10 DEF Pass
<1>12. \A t \in Live : u.obj[t].count = v.obj[t].count
  BY <1>6, <1>10
<1>13. Left(u) = Left(v)
  BY <1>9, <1>12 DEF Left
<1> QED BY <1>1, <1>2, <1>6, <1>9, <1>10, <1>11, <1>13 DEF u

LEMMA StationsCompared ==
    ASSUME TypeOK, NEW alike, NEW pass \in Deduping,
           NEW i \in Live \ pass.gone, NEW j \in Live, i # j
    PROVE  LET c == CompareStations(alike, pass, i, j)
           IN  c \in Deduping /\ i \notin c.gone
<1> DEFINE c == CompareStations(alike, pass, i, j)
           u == UniteStations(pass, i, j)
<1>1. CASE c = pass
  BY <1>1
<1>2. CASE c # pass
  <2>1. j \notin pass.gone /\ pass.obj[i].origin # pass.obj[j].origin /\ c = u
    BY <1>2 DEF CompareStations, CrossStation
  <2>2. pass \in Pass /\ Same(pass) /\ SumOfIds(Left(pass)) = Observations(Live)
    BY DEF Deduping, Balanced
  <2>3. /\ u \in Pass
        /\ u.gone = pass.gone \cup {j}
        /\ \A t \in Live \ {i} : u.obj[t] = pass.obj[t]
        /\ u.obj[i].freq = pass.obj[i].freq /\ u.obj[i].first = pass.obj[i].first
        /\ u.obj[i].lost = pass.obj[i].lost /\ u.obj[i].origin = pass.obj[i].origin
        /\ SumOfIds(Left(u)) = SumOfIds(Left(pass))
    BY <2>1, <2>2, UniteStationsKeeps
  <2> HIDE DEF u
  <2>4. Same(u)
    <3> SUFFICES ASSUME NEW t \in Live
                 PROVE  /\ u.obj[t].freq = tracks[t].freq
                        /\ u.obj[t].first = tracks[t].first
                        /\ u.obj[t].lost = tracks[t].lost
                        /\ u.obj[t].origin = tracks[t].origin
      BY DEF Same
    <3>1. CASE t = i
      BY <2>2, <2>3, <3>1 DEF Same
    <3>2. CASE t # i
      BY <2>2, <2>3, <3>2 DEF Same
    <3> QED BY <3>1, <3>2
  <2>5. u \in Deduping
    BY <2>2, <2>3, <2>4 DEF Deduping, Balanced
  <2> QED BY <2>1, <2>3, <2>5
<1> QED BY <1>1, <1>2

\* Observations of disjoint sets of tracks add up.
LEMMA ObservationsAdd ==
    ASSUME TypeOK, NEW S \in SUBSET Live, NEW T \in SUBSET Live, S \cap T = {}
    PROVE  Observations(S \cup T) = Observations(S) + Observations(T)
<1>1. \A t \in Live : tracks[t].count \in Nat
  BY DEF TypeOK, Track
<1>2. CountsOf(S) \in Counts /\ CountsOf(T) \in Counts /\ CountsOf(S \cup T) \in Counts
  BY <1>1 DEF CountsOf, Counts
<1>3. \A t \in Ids : CountsOf(S \cup T)[t] = CountsOf(S)[t] + CountsOf(T)[t]
  BY <1>1 DEF CountsOf
<1> QED BY <1>2, <1>3, SumOfSums DEF Observations

LEMMA ObservationsOfOne ==
    ASSUME TypeOK, NEW t \in Live
    PROVE  Observations({t}) = tracks[t].count
<1>1. tracks[t].count \in Nat /\ t \in Ids
  <2>1. tracks[t].count \in Nat
    BY DEF TypeOK, Track
  <2> QED BY <2>1, LiveInIds
<1>2. CountsOf({t}) = Only(t, tracks[t].count)
  BY DEF CountsOf, Only
<1> QED BY <1>1, <1>2, SumOfOne DEF Observations

\* Round k of a pass over o: into says in which track each one is by then.  A
\* track that was removed took none with it, for those whose row is to come
\* have nothing but their own observations.
Folding(alike, o, k, pass, into) ==
    /\ into \in [Live -> Live]
    /\ \A t \in Live : into[t] \notin pass.gone
    /\ \A t \in Live \ pass.gone :
          into[t] = t /\ pass.obj[t].count = Observations({u \in Live : into[u] = t})
    /\ \A t \in pass.gone : FoldsInto(t, into[t], alike)
    /\ \A l \in k + 1 .. Len(o), u \in Live : into[u] = o[l] => u = o[l]

Folded(alike, o, k) == {pass \in Deduping : \E into : Folding(alike, o, k, pass, into)}

LEMMA FoldingStarts ==
    ASSUME TypeOK, NEW alike, NEW o
    PROVE  Untouched \in Folded(alike, o, 0)
<1> DEFINE into == [t \in Live |-> t]
<1>1. Untouched \in Pass /\ Same(Untouched) /\ Untouched.gone = {} /\ Untouched.obj = tracks
      /\ Untouched \in Deduping
  BY FreshPass DEF Deduping, Balanced, Observations
<1>2. into \in [Live -> Live] /\ \A t \in Live : into[t] = t
  OBVIOUS
<1> HIDE DEF into
<1>3. \A t \in Live : {u \in Live : into[u] = t} = {t}
  BY <1>2
<1>4. \A t \in Live : tracks[t].count = Observations({u \in Live : into[u] = t})
  BY <1>3, ObservationsOfOne
<1>5. Folding(alike, o, 0, Untouched, into)
  BY <1>1, <1>2, <1>4 DEF Folding
<1> QED BY <1>1, <1>5 DEF Folded

\* A track of a later row goes into that of row k.
LEMMA OneMoreFolded ==
    ASSUME TypeOK, NEW alike, NEW o \in SetToSeqs(Live), Sorted(o),
           NEW k \in 1 .. Len(o), NEW l \in k + 1 .. Len(o),
           NEW pass \in Folded(alike, o, k), o[k] \notin pass.gone
    PROVE  LET c == CompareStations(alike, pass, o[k], o[l])
           IN  c \in Folded(alike, o, k) /\ o[k] \notin c.gone
<1> DEFINE i == o[k]
           j == o[l]
           c == CompareStations(alike, pass, i, j)
<1>1. /\ Len(o) \in Nat /\ k \in Nat /\ l \in 1 .. Len(o) /\ k < l
      /\ o \in Seq(Ids) /\ IsInjective(o) /\ \A m \in 1 .. Len(o) : o[m] \in Live
  <2>1. Live \subseteq Ids
    BY LiveInIds
  <2>2. o \in Seq(Ids) /\ IsInjective(o) /\ o \in Seq(Live)
    BY <2>1, Arrangements
  <2> QED BY <2>2
<1>2. i \in Live /\ j \in Live /\ i # j
  BY <1>1 DEF IsInjective
<1>3. pass \in Deduping /\ pass \in Pass /\ Same(pass)
  BY DEF Folded, Deduping, Balanced
<1>4. c \in Deduping /\ i \notin c.gone
  BY <1>2, <1>3, StationsCompared
<1>5. CASE c = pass
  BY <1>5
<1>6. CASE c # pass
  <2> DEFINE u == UniteStations(pass, i, j)
  <2>1. /\ j \notin pass.gone /\ {i, j} \in alike /\ c = u
        /\ pass.obj[i].origin # pass.obj[j].origin
        /\ Apart(pass.obj[i].freq, pass.obj[j].freq) <= Tolerance
    BY <1>6 DEF CompareStations, CrossStation, Similar
  <2>2. /\ u.gone = pass.gone \cup {j}
        /\ \A t \in Live \ {i} : u.obj[t] = pass.obj[t]
        /\ u.obj[i].count = pass.obj[i].count + pass.obj[j].count
    BY <1>2, <1>3, <2>1, UniteStationsKeeps
  <2> HIDE DEF c, u, i, j
  <2>3. FoldsInto(j, i, alike)
    <3>1. tracks[i].first <= tracks[j].first
      <4>1. tracks[i].first \in Int /\ tracks[j].first \in Int
        BY <1>2 DEF TypeOK, Track
      <4>2. \/ tracks[i].first < tracks[j].first
            \/ tracks[i].first = tracks[j].first
        BY <1>1 DEF Sorted, i, j
      <4> QED BY <4>1, <4>2
    <3>2. /\ tracks[i].origin # tracks[j].origin
          /\ Apart(tracks[i].freq, tracks[j].freq) <= Tolerance
      BY <1>2, <1>3, <2>1 DEF Same
    <3>3. {j, i} \in alike
      BY <2>1
    <3> QED BY <3>1, <3>2, <3>3 DEF FoldsInto
  <2>4. PICK was : Folding(alike, o, k, pass, was)
    BY DEF Folded
  <2> DEFINE into == [was EXCEPT ![j] = i]
  <2>5. /\ was \in [Live -> Live]
        /\ \A t \in Live : was[t] \notin pass.gone
        /\ \A t \in Live \ pass.gone :
              was[t] = t /\ pass.obj[t].count = Observations({v \in Live : was[v] = t})
        /\ \A t \in pass.gone : FoldsInto(t, was[t], alike)
        /\ \A m \in k + 1 .. Len(o), v \in Live : was[v] = o[m] => v = o[m]
    BY <2>4 DEF Folding
  <2>6. \A v \in Live : was[v] = j => v = j
    BY <2>5 DEF j
  <2>7. /\ into \in [Live -> Live] /\ into[j] = i
        /\ \A v \in Live \ {j} : into[v] = was[v]
    BY <1>2, <2>5
  <2> HIDE DEF into
  <2>8. i \notin pass.gone /\ was[i] = i /\ was[j] = j
    BY <1>2, <2>1, <2>5 DEF i
  <2>9. \A t \in Live : into[t] \notin u.gone
    BY <1>2, <2>2, <2>5, <2>6, <2>7, <2>8
  <2>10. ASSUME NEW t \in Live \ u.gone
         PROVE  into[t] = t /\ u.obj[t].count = Observations({v \in Live : into[v] = t})
    <3>1. t \in Live \ pass.gone /\ t # j /\ into[t] = t
      BY <2>2, <2>5, <2>7
    <3>2. CASE t = i
      <4> DEFINE A == {v \in Live : was[v] = i}
                 B == {v \in Live : was[v] = j}
      <4>1. A \in SUBSET Live /\ B \in SUBSET Live /\ A \cap B = {}
        BY <1>2
      <4>2. {v \in Live : into[v] = i} = A \cup B
        BY <1>2, <2>6, <2>7, <2>8
      <4>3. pass.obj[i].count = Observations(A) /\ pass.obj[j].count = Observations(B)
        BY <1>2, <2>1, <2>5, <2>8
      <4> HIDE DEF A, B
      <4>4. u.obj[i].count = Observations(A \cup B)
        BY <2>2, <4>1, <4>3, ObservationsAdd
      <4> QED BY <3>1, <3>2, <4>2, <4>4
    <3>3. CASE t # i
      <4>1. {v \in Live : into[v] = t} = {v \in Live : was[v] = t}
        BY <2>7, <2>8, <3>1, <3>3
      <4>2. u.obj[t].count = pass.obj[t].count
        BY <2>2, <3>3
      <4> QED BY <2>5, <3>1, <4>1, <4>2
    <3> QED BY <3>2, <3>3
  <2>11. \A t \in u.gone : FoldsInto(t, into[t], alike)
    <3> SUFFICES ASSUME NEW t \in u.gone
                 PROVE  FoldsInto(t, into[t], alike)
      OBVIOUS
    <3>1. CASE t = j
      BY <2>3, <2>7, <3>1
    <3>2. CASE t # j
      <4>1. t \in pass.gone /\ t \in Live
        BY <1>3, <2>2, <3>2 DEF Pass
      <4> QED BY <2>5, <2>7, <3>2, <4>1
    <3> QED BY <3>1, <3>2
  <2>12. ASSUME NEW m \in k + 1 .. Len(o), NEW v \in Live, into[v] = o[m]
         PROVE  v = o[m]
    <3>1. o[m] # i
      <4>1. m \in 1 .. Len(o) /\ m # k
        BY <1>1
      <4> QED BY <1>1, <4>1 DEF IsInjective, i
    <3>2. v # j
      BY <2>7, <2>12, <3>1
    <3> QED BY <2>5, <2>7, <2>12, <3>2
  <2>13. Folding(alike, o, k, u, into)
    BY <2>7, <2>9, <2>10, <2>11, <2>12 DEF Folding
  <2>14. u \in Folded(alike, o, k)
    BY <1>4, <2>1, <2>13 DEF Folded
  <2> QED BY <1>4, <2>1, <2>14 DEF c, i, j
<1> QED BY <1>4, <1>5, <1>6

\* The rows of a deduplication stay in its states, those it is in by then.
LEMMA StationsRow ==
    ASSUME TypeOK, NEW alike, NEW o \in SetToSeqs(Live), Sorted(o), NEW k \in 1 .. Len(o),
           NEW pass \in Folded(alike, o, k), o[k] \notin pass.gone
    PROVE  DedupRow(alike, o, k, pass) \in Folded(alike, o, k)
<1> DEFINE St == {s \in Folded(alike, o, k) : o[k] \notin s.gone}
<1>1. pass \in St
  OBVIOUS
<1>2. DedupRowKeeps(alike, o, k, St)
  BY OneMoreFolded DEF DedupRowKeeps
<1>3. o \in Seq(Ids) /\ Len(o) \in Nat
  BY LiveInIds, Arrangements
<1> HIDE DEF St
<1>4. \E w : DedupRowRun(w, alike, o, k, pass, St)
  BY <1>1, <1>2, <1>3, DedupRowRuns
<1>5. DedupRow(alike, o, k, pass) \in St
  BY <1>3, <1>4 DEF DedupRowRun
<1> QED BY <1>5 DEF St

\* The pass of a deduplication, whose rows keep the books in any order of the
\* tracks, folds pairs when it goes from the oldest to the youngest.
LEMMA StationsDeduplicated ==
    ASSUME TypeOK, NEW alike, NEW o \in SetToSeqs(Live), Sorted(o)
    PROVE  Deduplicated(alike, o) \in Folded(alike, o, Len(o))
<1> DEFINE n == Len(o)
<1>0. o \in Seq(Ids) /\ n \in Nat /\ IsInjective(o) /\ \A l \in 1 .. n : o[l] \in Live
  <2>1. Live \subseteq Ids
    BY LiveInIds
  <2>2. o \in Seq(Ids) /\ IsInjective(o) /\ o \in Seq(Live)
    BY <2>1, Arrangements
  <2> QED BY <2>2
<1>1. Untouched \in Deduping /\ Untouched \in Folded(alike, o, 0)
  BY FoldingStarts DEF Folded
<1>2. ASSUME NEW pass \in Deduping, NEW k \in 1 .. n, o[k] \notin pass.gone
      PROVE  DedupRow(alike, o, k, pass) \in Deduping
  <2> DEFINE St == {s \in Deduping : o[k] \notin s.gone}
  <2>1. pass \in St
    BY <1>2
  <2>2. ASSUME NEW s \in St, NEW l \in k + 1 .. n
        PROVE  CompareStations(alike, s, o[k], o[l]) \in St
    <3>1. l \in 1 .. n /\ k # l
      BY <1>0
    <3>2. o[k] \in Live \ s.gone /\ o[l] \in Live /\ o[k] # o[l]
      BY <1>0, <3>1 DEF IsInjective
    <3> QED BY <3>2, StationsCompared
  <2>3. DedupRowKeeps(alike, o, k, St)
    BY <2>2 DEF DedupRowKeeps
  <2> HIDE DEF St
  <2>4. \E w : DedupRowRun(w, alike, o, k, pass, St)
    BY <1>0, <2>1, <2>3, DedupRowRuns
  <2>5. DedupRow(alike, o, k, pass) \in St
    BY <1>0, <2>4 DEF DedupRowRun
  <2> QED BY <2>5 DEF St
<1>3. DedupPassKeeps(alike, o, Deduping)
  BY <1>2 DEF DedupPassKeeps
<1>4. PICK p : DedupPassRun(p, alike, o, Deduping)
  BY <1>0, <1>1, <1>3, DedupPassRuns
<1>5. /\ p[0] = Untouched /\ Deduplicated(alike, o) = p[n]
      /\ \A k \in 1 .. n :
            p[k] = IF o[k] \in p[k - 1].gone THEN p[k - 1] ELSE DedupRow(alike, o, k, p[k - 1])
  BY <1>4 DEF DedupPassRun
<1> DEFINE G == {k \in 0 .. n : p[k] \in Folded(alike, o, k)}
<1>6. 0 \in G
  BY <1>0, <1>1, <1>5
<1>7. ASSUME NEW k \in 1 .. n, k - 1 \in G
      PROVE  k \in G
  <2>1. p[k - 1] \in Folded(alike, o, k)
    <3>1. p[k - 1] \in Deduping
      BY <1>7 DEF Folded
    <3>2. PICK into : Folding(alike, o, k - 1, p[k - 1], into)
      BY <1>7 DEF Folded
    <3>3. k + 1 .. Len(o) \subseteq (k - 1) + 1 .. Len(o)
      BY <1>0
    <3>4. Folding(alike, o, k, p[k - 1], into)
      BY <3>2, <3>3 DEF Folding
    <3> QED BY <3>1, <3>4 DEF Folded
  <2>2. p[k] \in Folded(alike, o, k)
    BY <1>5, <2>1, StationsRow
  <2> QED BY <1>0, <2>2
<1>8. 0 .. n \subseteq G
  <2> HIDE DEF G, n
  <2> QED BY <1>0, <1>6, <1>7, Climb
<1> QED BY <1>0, <1>5, <1>8

-----------------------------------------------------------------------------
(* The invariant *)

LEMMA Bucketed ==
    ASSUME NEW f \in Freqs
    PROVE  f \in Nat /\ Bucket(f) \in Nat /\ Bucket(f) \in Bucket(f) - 1 .. Bucket(f) + 1
<1>1. f \in Nat /\ BucketWidth \in Nat \ {0}
  BY TrackAssumption
<1> QED BY <1>1 DEF Bucket

\* What is left in the table has an order again.
LEMMA OrderLeft ==
    ASSUME TypeOK, NEW gone \in SUBSET Live, order' \in Without(gone), DOMAIN tracks' = Live \ gone
    PROVE  order' \in Seq(Ids) /\ IsInjective(order') /\ Range(order') = Live'
<1>1. order' \in SetToSeqs(Live \ gone)
  BY DEF Without
<1>2. Live \ gone \in SUBSET Ids
  BY LiveInIds
<1>3. Live' = Live \ gone
  BY DEF Live
<1>4. order' \in Seq(Ids) /\ IsInjective(order') /\ Range(order') = Live \ gone
  BY <1>1, <1>2, Arrangements
<1> QED BY <1>3, <1>4

\* Either pass leaves a table in which every track is found, in the bucket it
\* was found in.
LEMMA PassKeeps ==
    ASSUME FoundWhereHeard, NEW pass \in Pass, Same(pass),
           tracks' = Restrict(pass.obj, Live \ pass.gone),
           order' \in Without(pass.gone),
           index' = index \/ index' = index \ {EntryOf(t) : t \in pass.gone},
           UNCHANGED <<now, archived, born, rows, heard>>
    PROVE  FoundWhereHeard'
<1>1. TypeOK /\ pass.obj \in [Live -> Track] /\ pass.gone \in SUBSET Live
  BY DEF FoundWhereHeard, Pass
<1>2. /\ Live' = Live \ pass.gone
      /\ tracks' \in [Live' -> Track]
      /\ \A t \in Live' : tracks'[t] = pass.obj[t]
  BY <1>1 DEF Restrict, Live
<1>3. order' \in Seq(Ids) /\ IsInjective(order') /\ Range(order') = Live'
  BY <1>1, <1>2, OrderLeft
<1>4. index' \subseteq index
  OBVIOUS
<1>5. TypeOK'
  BY <1>1, <1>2, <1>3, <1>4 DEF TypeOK
<1>6. ASSUME NEW t \in Live'
      PROVE  (t \in Candidates(tracks[t].freq))'
  <2>1. t \in Live \ pass.gone /\ tracks'[t].freq = tracks[t].freq
    BY <1>2 DEF Same
  <2>2. PICK b \in Bucket(tracks[t].freq) - 1 .. Bucket(tracks[t].freq) + 1 : <<b, t>> \in index
    BY <2>1 DEF FoundWhereHeard, Candidates
  <2>3. <<b, t>> \in index'
    BY <2>1, <2>2 DEF EntryOf
  <2> QED BY <2>1, <2>2, <2>3 DEF Candidates, Bucket
<1> QED BY <1>5, <1>6 DEF FoundWhereHeard

\* ... and the observations it leaves are those of the pass.
LEMMA PassCounts ==
    ASSUME TypeOK, NEW pass \in Pass, tracks' = Restrict(pass.obj, Live \ pass.gone)
    PROVE  Observations(Live)' = SumOfIds(Left(pass))
<1>1. DOMAIN tracks' = Live \ pass.gone /\ \A t \in Live \ pass.gone : tracks'[t] = pass.obj[t]
  BY DEF Restrict
<1>2. CountsOf(Live)' = Left(pass)
  BY <1>1 DEF CountsOf, Left, Live
<1> QED BY <1>2 DEF Observations, SumOfIds

LEMMA AssociateKeeps ==
    ASSUME FoundWhereHeard, NEW f \in Freqs, NEW ts \in now - Lateness .. now, NEW from \in Origins,
           NEW t \in Live, Associate(t, f, ts, from)
    PROVE  /\ FoundWhereHeard'
           /\ Observations(Live)' = Observations(Live) + 1
<1> DEFINE r == Updated(t, f, ts, from)
<1>1. TypeOK /\ t \in Candidates(f) /\ tracks' = [tracks EXCEPT ![t] = r] /\ Saved(t, r)
      /\ heard' = heard + 1 /\ UNCHANGED <<now, order, index, archived, born>>
  <2>1. tracks' = [tracks EXCEPT ![t] = r] /\ tracks \in [Live -> Track]
    BY DEF Associate, FoundWhereHeard, TypeOK
  <2>2. tracks'[t] = r
    BY <2>1
  <2> QED BY <2>1, <2>2 DEF Associate, FoundWhereHeard
<1>2. ts \in Int
  BY <1>1, TrackAssumption DEF TypeOK
<1>3. /\ r \in Track /\ r.freq = f /\ r.count = tracks[t].count + 1
      /\ r.origin = OriginAfter(t, from)
  <2> DEFINE a == tracks[t]
             o == OriginAfter(t, from)
  <2>1. a \in Track /\ o \in Origins
    BY <1>1 DEF TypeOK, OriginAfter, Track, Origins
  <2>2. r = [a EXCEPT !.freq = f, !.last = ts, !.count = @ + 1, !.origin = o]
    BY DEF Updated
  <2> HIDE DEF a, o, r
  <2>3. r = [freq |-> f, first |-> a.first, last |-> ts, count |-> a.count + 1,
             lost |-> a.lost, origin |-> o]
    BY <2>1, <2>2 DEF Track
  <2>4. r \in Track
    BY <1>2, <2>1, <2>3 DEF Track
  <2> QED BY <2>3, <2>4 DEF a, o
<1> HIDE DEF r
<1>4. /\ tracks' \in [Live -> Track] /\ Live' = Live /\ tracks'[t] = r
      /\ \A u \in Live \ {t} : tracks'[u] = tracks[u]
  BY <1>1, <1>3 DEF TypeOK, Live
<1>5. DOMAIN rows' = DOMAIN rows \cup {t} /\ rows' \in [DOMAIN rows' -> Track]
  BY <1>1, <1>3 DEF Saved, TypeOK
<1>6. TypeOK'
  BY <1>1, <1>4, <1>5 DEF TypeOK
<1>7. ASSUME NEW u \in Live'
      PROVE  (u \in Candidates(tracks[u].freq))'
  <2>1. CASE u = t
    <3>1. PICK b \in Bucket(f) - 1 .. Bucket(f) + 1 : <<b, t>> \in index
      BY <1>1 DEF Candidates
    <3> QED BY <1>1, <1>3, <1>4, <2>1, <3>1 DEF Candidates, Bucket
  <2>2. CASE u # t
    <3>1. u \in Live /\ tracks'[u] = tracks[u]
      BY <1>4, <2>2
    <3>2. PICK b \in Bucket(tracks[u].freq) - 1 .. Bucket(tracks[u].freq) + 1 : <<b, u>> \in index
      BY <3>1 DEF FoundWhereHeard, Candidates
    <3> QED BY <1>1, <3>1, <3>2 DEF Candidates, Bucket
  <2> QED BY <2>1, <2>2
<1>8. Observations(Live)' = Observations(Live) + 1
  <2> DEFINE c == [u \in Ids |-> IF u \in DOMAIN tracks' THEN tracks'[u].count ELSE 0]
  <2>1. t \in Ids /\ \A u \in Live : tracks[u].count \in Nat
    <3>1. t \in Ids
      BY <1>1, LiveInIds
    <3>2. \A u \in Live : tracks[u].count \in Nat
      BY <1>1 DEF TypeOK, Track
    <3> QED BY <3>1, <3>2
  <2>2. CountsOf(Live) \in Counts
    BY <2>1 DEF CountsOf, Counts
  <2>3. \A u \in Live : tracks'[u].count \in Nat
    BY <1>4 DEF Track
  <2>4. c \in Counts
    BY <1>4, <2>3 DEF Counts
  <2>5. \A u \in Ids : c[u] = CountsOf(Live)[u] + Only(t, 1)[u]
    <3> SUFFICES ASSUME NEW u \in Ids
                 PROVE  c[u] = CountsOf(Live)[u] + Only(t, 1)[u]
      OBVIOUS
    <3>1. CASE u = t
      BY <1>3, <1>4, <2>1, <3>1 DEF CountsOf, Only
    <3>2. CASE u # t
      BY <1>4, <2>1, <3>2 DEF CountsOf, Only
    <3> QED BY <3>1, <3>2
  <2>6. Only(t, 1) \in Counts /\ SumOfIds(Only(t, 1)) = 1
    BY <2>1, SumOfOne
  <2>7. SumOfIds(c) = SumOfIds(CountsOf(Live)) + 1
    <3> HIDE DEF c
    <3> QED BY <2>2, <2>4, <2>5, <2>6, SumOfSums
  <2>8. CountsOf(Live)' = c
    BY DEF CountsOf, Live
  <2> HIDE DEF c
  <2> QED BY <2>7, <2>8 DEF Observations, SumOfIds
<1> QED BY <1>6, <1>7, <1>8 DEF FoundWhereHeard

LEMMA CreateKeeps ==
    ASSUME FoundWhereHeard, NEW f \in Freqs, NEW ts \in now - Lateness .. now, NEW from \in Origins,
           Create(f, ts, from)
    PROVE  /\ FoundWhereHeard'
           /\ Observations(Live)' = Observations(Live) + 1
<1> DEFINE t == born + 1
           r == NewTrack(f, ts, from)
<1>1. /\ TypeOK /\ t \in Ids /\ born' = t /\ heard' = heard + 1
      /\ tracks' = [i \in Live \cup {t} |-> IF i = t THEN r ELSE tracks[i]]
      /\ order' = Append(order, t)
      /\ index' = index \cup {<<Bucket(f), t>>}
      /\ Saved(t, tracks'[t])
      /\ UNCHANGED <<now, archived>>
  BY DEF Create, FoundWhereHeard
<1>2. ts \in Int
  BY <1>1, TrackAssumption DEF TypeOK
<1>3. r \in Track /\ r.freq = f /\ r.count = 1 /\ r.origin = from
  BY <1>2 DEF NewTrack, Track
<1> HIDE DEF r
<1>4. /\ born \in Nat /\ born + 1 \in 1 .. MaxTracks /\ t \notin Live /\ MaxTracks \in Nat
      /\ Live \subseteq 1 .. born /\ Live \subseteq Ids
  <2>1. born \in Nat /\ Live \subseteq 1 .. born
    BY <1>1 DEF TypeOK
  <2>2. MaxTracks \in Nat
    BY TrackAssumption
  <2>3. born + 1 \in 1 .. MaxTracks
    BY <1>1 DEF Ids
  <2> QED BY <2>1, <2>2, <2>3 DEF Ids
<1>5. /\ tracks' \in [Live' -> Track] /\ Live' = Live \cup {t} /\ tracks'[t] = r
      /\ \A u \in Live : tracks'[u] = tracks[u]
  <2>1. tracks \in [Live -> Track]
    BY <1>1 DEF TypeOK
  <2>2. Live' = Live \cup {t}
    BY <1>1 DEF Live
  <2> HIDE DEF t
  <2>3. tracks' \in [Live \cup {t} -> Track]
    BY <1>1, <1>3, <2>1
  <2>4. tracks'[t] = r /\ \A u \in Live : tracks'[u] = tracks[u]
    BY <1>1, <1>4
  <2> QED BY <2>2, <2>3, <2>4
<1>6. order' \in Seq(Ids) /\ IsInjective(order') /\ Range(order') = Live'
  <2>1. order \in Seq(Ids) /\ IsInjective(order) /\ Range(order) = Live /\ t \in Ids
    BY <1>1 DEF TypeOK
  <2> HIDE DEF t
  <2>2. order' \in Seq(Ids) /\ DOMAIN order' = 1 .. Len(order) + 1 /\ DOMAIN order = 1 .. Len(order)
        /\ Len(order) \in Nat
    BY <1>1, <2>1
  <2>3. order'[Len(order) + 1] = t /\ \A k \in 1 .. Len(order) : order'[k] = order[k]
    BY <1>1, <2>1
  <2>4. \A k \in 1 .. Len(order) : order[k] \in Live
    BY <2>1, <2>2 DEF Range
  <2>5. IsInjective(order')
    <3> SUFFICES ASSUME NEW k \in 1 .. Len(order) + 1, NEW l \in 1 .. Len(order) + 1,
                        order'[k] = order'[l]
                 PROVE  k = l
      BY <2>2 DEF IsInjective
    <3>1. CASE k \in 1 .. Len(order) /\ l \in 1 .. Len(order)
      BY <2>1, <2>2, <2>3, <3>1 DEF IsInjective
    <3>2. CASE k = Len(order) + 1 /\ l \in 1 .. Len(order)
      BY <1>4, <2>3, <2>4, <3>2
    <3>3. CASE k \in 1 .. Len(order) /\ l = Len(order) + 1
      BY <1>4, <2>3, <2>4, <3>3
    <3>4. CASE k = Len(order) + 1 /\ l = Len(order) + 1
      BY <3>4
    <3> QED BY <2>2, <3>1, <3>2, <3>3, <3>4
  <2>6. Range(order') = Live \cup {t}
    <3>1. Range(order') \subseteq Live \cup {t}
      <4> SUFFICES ASSUME NEW k \in 1 .. Len(order) + 1
                   PROVE  order'[k] \in Live \cup {t}
        BY <2>2 DEF Range
      <4> QED BY <2>2, <2>3, <2>4
    <3>2. ASSUME NEW u \in Live
          PROVE  u \in Range(order')
      <4>1. PICK k \in 1 .. Len(order) : order[k] = u
        BY <2>1, <2>2 DEF Range
      <4>2. k \in DOMAIN order' /\ order'[k] = u
        BY <2>2, <2>3, <4>1
      <4> QED BY <4>2 DEF Range
    <3>3. t \in Range(order')
      <4>1. Len(order) + 1 \in DOMAIN order'
        BY <2>2
      <4> QED BY <2>3, <4>1 DEF Range
    <3> QED BY <3>1, <3>2, <3>3
  <2> QED BY <1>5, <2>2, <2>5, <2>6
<1>7. index' \subseteq Nat \X (1 .. t)
  <2>1. index \subseteq Nat \X (1 .. born) /\ born \in Nat
    BY <1>1 DEF TypeOK
  <2>2. index \subseteq Nat \X (1 .. t) /\ t \in 1 .. t
    BY <1>4, <2>1
  <2> QED BY <1>1, <1>3, <2>2, Bucketed
<1>8. DOMAIN rows' = DOMAIN rows \cup {t} /\ rows' \in [DOMAIN rows' -> Track]
  BY <1>1, <1>3, <1>5 DEF Saved, TypeOK
<1>9. TypeOK'
  <2>1. Live' \subseteq 1 .. born' /\ born' \in 0 .. MaxTracks
    BY <1>1, <1>4, <1>5
  <2>2. DOMAIN rows' \subseteq 1 .. born'
    BY <1>1, <1>4, <1>8 DEF TypeOK
  <2>3. now' \in 0 .. MaxTime /\ archived' \in Nat /\ heard' \in Nat
    BY <1>1 DEF TypeOK
  <2>4. index' \subseteq Nat \X (1 .. born')
    BY <1>1, <1>7
  <2> QED BY <1>5, <1>6, <1>8, <2>1, <2>2, <2>3, <2>4 DEF TypeOK
<1>10. ASSUME NEW u \in Live'
       PROVE  (u \in Candidates(tracks[u].freq))'
  <2>1. CASE u = t
    <3>1. <<Bucket(f), t>> \in index' /\ tracks'[t].freq = f
      BY <1>1, <1>3, <1>5
    <3> QED BY <2>1, <3>1, Bucketed DEF Candidates, Bucket
  <2>2. CASE u # t
    <3>1. u \in Live /\ tracks'[u] = tracks[u]
      BY <1>5, <2>2
    <3>2. PICK b \in Bucket(tracks[u].freq) - 1 .. Bucket(tracks[u].freq) + 1 : <<b, u>> \in index
      BY <3>1 DEF FoundWhereHeard, Candidates
    <3> QED BY <1>1, <3>1, <3>2 DEF Candidates, Bucket
  <2> QED BY <2>1, <2>2
<1>11. Observations(Live)' = Observations(Live) + 1
  <2> DEFINE c == [u \in Ids |-> IF u \in DOMAIN tracks' THEN tracks'[u].count ELSE 0]
  <2>1. \A u \in Live : tracks[u].count \in Nat
    BY <1>1 DEF TypeOK, Track
  <2>2. CountsOf(Live) \in Counts
    BY <2>1 DEF CountsOf, Counts
  <2>3. \A u \in Live' : tracks'[u].count \in Nat
    BY <1>5 DEF Track
  <2>4. c \in Counts
    BY <2>3 DEF Counts, Live
  <2>5. \A u \in Ids : c[u] = CountsOf(Live)[u] + Only(t, 1)[u]
    <3> SUFFICES ASSUME NEW u \in Ids
                 PROVE  c[u] = CountsOf(Live)[u] + Only(t, 1)[u]
      OBVIOUS
    <3>1. DOMAIN tracks' = Live \cup {t}
      BY <1>5 DEF Live
    <3> HIDE DEF t
    <3>2. CASE u = t
      BY <1>3, <1>4, <1>5, <3>1, <3>2 DEF CountsOf, Only
    <3>3. CASE u # t
      BY <1>5, <2>1, <3>1, <3>3 DEF CountsOf, Only
    <3> QED BY <3>2, <3>3
  <2>6. Only(t, 1) \in Counts /\ SumOfIds(Only(t, 1)) = 1
    BY <1>1, SumOfOne
  <2>7. SumOfIds(c) = SumOfIds(CountsOf(Live)) + 1
    <3> HIDE DEF c, t
    <3> QED BY <2>2, <2>4, <2>5, <2>6, SumOfSums
  <2>8. CountsOf(Live)' = c
    BY DEF CountsOf, Live
  <2> HIDE DEF c
  <2> QED BY <2>7, <2>8 DEF Observations, SumOfIds
<1> QED BY <1>9, <1>10, <1>11 DEF FoundWhereHeard

LEMMA AgeTracksKeeps ==
    ASSUME FoundWhereHeard, AgeTracks
    PROVE  /\ FoundWhereHeard'
           /\ archived' + Observations(Live)' = archived + Observations(Live)
           /\ heard' = heard
<1> DEFINE gone == {t \in Live : Retired(t)}
<1>1. /\ TypeOK
      /\ tracks' = [t \in Live \ gone |-> [tracks[t] EXCEPT !.lost = LostByAge(t)]]
      /\ order' \in Without(gone)
      /\ index' = index \ {EntryOf(t) : t \in gone}
      /\ archived' = archived + Observations(gone)
      /\ UNCHANGED <<now, born, rows, heard>>
  BY DEF AgeTracks, FoundWhereHeard
<1>0. gone \in SUBSET Live
  OBVIOUS
<1> HIDE DEF gone
<1>2. ASSUME NEW t \in Live
      PROVE  LET r == [tracks[t] EXCEPT !.lost = LostByAge(t)]
             IN  /\ r \in Track /\ r.freq = tracks[t].freq /\ r.count = tracks[t].count
                 /\ r.origin = tracks[t].origin
  <2> DEFINE a == tracks[t]
             l == LostByAge(t)
  <2>1. a \in Track /\ l \in BOOLEAN
    <3>1. tracks[t] \in Track /\ now \in Int
      BY <1>1 DEF TypeOK
    <3> QED BY <3>1, TrackAssumption DEF LostByAge, Age, Track
  <2> HIDE DEF a, l
  <2>2. LET r == [a EXCEPT !.lost = l]
        IN  /\ r \in Track /\ r.freq = a.freq /\ r.count = a.count
            /\ r.origin = a.origin
    BY <2>1 DEF Track
  <2> QED BY <2>2 DEF a, l
<1>3. /\ Live' = Live \ gone
      /\ tracks' \in [Live' -> Track]
      /\ \A t \in Live' : /\ tracks'[t].freq = tracks[t].freq /\ tracks'[t].count = tracks[t].count
                          /\ tracks'[t].origin = tracks[t].origin
  <2>1. Live' = Live \ gone
    BY <1>1 DEF Live
  <2>2. \A t \in Live' : tracks'[t] = [tracks[t] EXCEPT !.lost = LostByAge(t)]
    BY <1>1, <2>1
  <2>3. DOMAIN tracks' = Live' /\ tracks' = [t \in Live' |-> tracks'[t]]
    BY <1>1, <2>1
  <2>4. \A t \in Live' : /\ tracks'[t] \in Track
                         /\ tracks'[t].freq = tracks[t].freq /\ tracks'[t].count = tracks[t].count
                         /\ tracks'[t].origin = tracks[t].origin
    BY <1>2, <2>1, <2>2
  <2> QED BY <2>1, <2>3, <2>4
<1>4. order' \in Seq(Ids) /\ IsInjective(order') /\ Range(order') = Live'
  <2>1. DOMAIN tracks' = Live \ gone
    BY <1>1
  <2> QED BY <1>0, <1>1, <2>1, OrderLeft
<1>5. /\ CountsOf(Live) \in Counts /\ CountsOf(gone) \in Counts /\ CountsOf(Live \ gone) \in Counts
      /\ \A t \in Ids : CountsOf(Live)[t] = CountsOf(gone)[t] + CountsOf(Live \ gone)[t]
  <2>1. \A t \in Live : tracks[t].count \in Nat
    BY <1>1 DEF TypeOK, Track
  <2> QED BY <1>0, <2>1 DEF CountsOf, Counts
<1>6. Observations(Live) = Observations(gone) + SumOfIds(CountsOf(Live \ gone))
  BY <1>5, SumOfSums DEF Observations
<1>7. Observations(Live)' = SumOfIds(CountsOf(Live \ gone))
  <2>1. CountsOf(Live)' = CountsOf(Live \ gone)
    BY <1>3 DEF CountsOf, Live
  <2> QED BY <2>1 DEF Observations, SumOfIds
<1>8. /\ Observations(gone) \in Nat /\ Observations(Live)' \in Nat /\ Observations(Live) \in Nat
      /\ archived \in Nat
  BY <1>1, <1>5, <1>7, SumIsNatural DEF Observations, TypeOK
<1>9. archived' \in Nat /\ archived' + Observations(Live)' = archived + Observations(Live)
  BY <1>1, <1>6, <1>7, <1>8
<1>10. TypeOK'
  BY <1>0, <1>1, <1>3, <1>4, <1>9 DEF TypeOK
<1>11. ASSUME NEW t \in Live'
       PROVE  (t \in Candidates(tracks[t].freq))'
  <2>1. t \in Live \ gone /\ tracks'[t].freq = tracks[t].freq
    BY <1>3
  <2>2. PICK b \in Bucket(tracks[t].freq) - 1 .. Bucket(tracks[t].freq) + 1 : <<b, t>> \in index
    BY <2>1 DEF FoundWhereHeard, Candidates
  <2>3. <<b, t>> \in index'
    BY <1>1, <2>1, <2>2 DEF EntryOf
  <2> QED BY <2>1, <2>2, <2>3 DEF Candidates, Bucket
<1> QED BY <1>1, <1>9, <1>10, <1>11 DEF FoundWhereHeard

LEMMA MergeKeeps ==
    ASSUME FoundWhereHeard, MergeDuplicates
    PROVE  /\ FoundWhereHeard'
           /\ OldestFirst => Observations(Live)' = Observations(Live)
           /\ \A t, u \in Live' : t # u => ~Duplicates(tracks'[t], tracks'[u])
<1>1. /\ TypeOK
      /\ tracks' = Restrict(Merged.obj, Live \ Merged.gone)
      /\ order' \in Without(Merged.gone)
      /\ index' = index \ {EntryOf(t) : t \in Merged.gone}
      /\ UNCHANGED <<now, archived, born, rows, heard>>
  BY DEF MergeDuplicates, FoundWhereHeard
<1>2. /\ Merged \in Merging
      /\ \A t, u \in Live \ Merged.gone : t # u => ~Duplicates(tracks[t], tracks[u])
  BY <1>1, MergedDuplicates
<1>3. Merged \in Pass /\ Same(Merged) /\ \A t \in Live : Merged.obj[t].last = tracks[t].last
  BY <1>2 DEF Merging
<1>4. FoundWhereHeard'
  BY <1>1, <1>3, PassKeeps
<1>5. ASSUME OldestFirst
      PROVE  Observations(Live)' = Observations(Live)
  BY <1>1, <1>3, <1>5, MergedBalances, PassCounts DEF Balanced
<1>6. ASSUME NEW t \in Live', NEW u \in Live', t # u
      PROVE  ~Duplicates(tracks'[t], tracks'[u])
  <2>1. /\ t \in Live \ Merged.gone /\ u \in Live \ Merged.gone
        /\ tracks'[t] = Merged.obj[t] /\ tracks'[u] = Merged.obj[u]
    BY <1>1 DEF Restrict, Live
  <2>2. ~Duplicates(tracks[t], tracks[u])
    BY <1>2, <1>6, <2>1
  <2>3. /\ tracks'[t].freq = tracks[t].freq /\ tracks'[t].last = tracks[t].last
        /\ tracks'[u].freq = tracks[u].freq /\ tracks'[u].last = tracks[u].last
    BY <1>3, <2>1 DEF Same
  <2> QED BY <2>2, <2>3 DEF Duplicates
<1> QED BY <1>4, <1>5, <1>6

LEMMA DeduplicateKeeps ==
    ASSUME FoundWhereHeard, NEW alike, Deduplicate(alike)
    PROVE  /\ FoundWhereHeard'
           /\ Observations(Live)' = Observations(Live)
           /\ \E into \in [Live -> Live'] :
                 /\ \A k \in Live' :
                       /\ into[k] = k
                       /\ tracks'[k].count = Observations({t \in Live : into[t] = k})
                 /\ \A t \in Live \ Live' : FoldsInto(t, into[t], alike)
           /\ UNCHANGED <<archived, heard>>
<1>1. PICK o \in SetToSeqs(Live) :
         /\ Sorted(o)
         /\ tracks' = Restrict(Deduplicated(alike, o).obj, Live \ Deduplicated(alike, o).gone)
         /\ order' \in Without(Deduplicated(alike, o).gone)
         /\ UNCHANGED <<now, index, archived, born, rows, heard>>
  BY DEF Deduplicate
<1> DEFINE pass == Deduplicated(alike, o)
<1>2. TypeOK /\ pass \in Folded(alike, o, Len(o))
  BY <1>1, StationsDeduplicated DEF FoundWhereHeard
<1> HIDE DEF pass
<1>3. pass \in Pass /\ Same(pass) /\ SumOfIds(Left(pass)) = Observations(Live)
  BY <1>2 DEF Folded, Deduping, Balanced
<1>4. /\ tracks' = Restrict(pass.obj, Live \ pass.gone)
      /\ order' \in Without(pass.gone)
      /\ UNCHANGED <<now, index, archived, born, rows, heard>>
  BY <1>1 DEF pass
<1>5. FoundWhereHeard'
  BY <1>3, <1>4, PassKeeps
<1>6. Observations(Live)' = Observations(Live)
  BY <1>2, <1>3, <1>4, PassCounts
<1>7. Live' = Live \ pass.gone /\ \A t \in Live' : tracks'[t] = pass.obj[t]
  BY <1>4 DEF Restrict, Live
<1>8. PICK into : Folding(alike, o, Len(o), pass, into)
  BY <1>2 DEF Folded
<1>9. into \in [Live -> Live']
  BY <1>7, <1>8 DEF Folding
<1>10. \A k \in Live' : into[k] = k /\ tracks'[k].count = Observations({t \in Live : into[t] = k})
  BY <1>7, <1>8 DEF Folding
<1>11. \A t \in Live \ Live' : FoldsInto(t, into[t], alike)
  <2>1. \A t \in Live \ Live' : t \in pass.gone
    BY <1>7
  <2> QED BY <1>8, <2>1 DEF Folding
<1> QED BY <1>4, <1>5, <1>6, <1>9, <1>10, <1>11

LEMMA RestartKeeps ==
    ASSUME FoundWhereHeard, Restart
    PROVE  FoundWhereHeard'
<1>1. /\ TypeOK
      /\ order' \in SetToSeqs(Replayed)
      /\ tracks' = [t \in Replayed |-> [rows[t] EXCEPT !.origin = Local]]
      /\ index' = {<<Bucket(rows[t].freq), t>> : t \in Replayed}
      /\ archived' = 0
      /\ UNCHANGED <<now, born, rows, heard>>
  BY DEF Restart, Reindexed, FoundWhereHeard
<1>2. Replayed \subseteq DOMAIN rows /\ DOMAIN rows \subseteq 1 .. born /\ Replayed \subseteq Ids
  <2>1. Replayed \subseteq DOMAIN rows
    BY DEF Replayed
  <2>2. DOMAIN rows \subseteq 1 .. born
    BY <1>1 DEF TypeOK
  <2> QED BY <1>1, <2>1, <2>2, LiveInIds
<1>3. ASSUME NEW t \in Replayed
      PROVE  LET r == [rows[t] EXCEPT !.origin = Local]
             IN  r \in Track /\ r.freq = rows[t].freq /\ r.origin = Local
  <2> DEFINE a == rows[t]
  <2>1. a \in Track
    BY <1>1, <1>2 DEF TypeOK
  <2> HIDE DEF a
  <2>2. LET r == [a EXCEPT !.origin = Local]
        IN  r \in Track /\ r.freq = a.freq /\ r.origin = Local
    BY <2>1 DEF Track, Origins
  <2> QED BY <2>2 DEF a
<1>4. /\ Live' = Replayed /\ tracks' \in [Replayed -> Track]
      /\ \A t \in Replayed : tracks'[t].freq = rows[t].freq /\ tracks'[t].origin = Local
                             /\ rows[t].freq \in Freqs
  <2>1. Live' = Replayed
    BY <1>1 DEF Live
  <2>2. \A t \in Replayed : tracks'[t] = [rows[t] EXCEPT !.origin = Local]
    BY <1>1
  <2>3. tracks' = [t \in Replayed |-> tracks'[t]]
    BY <1>1
  <2>4. \A t \in Replayed : rows[t].freq \in Freqs
    BY <1>1, <1>2 DEF TypeOK, Track
  <2> QED BY <1>3, <2>1, <2>2, <2>3, <2>4
<1>5. order' \in Seq(Ids) /\ IsInjective(order') /\ Range(order') = Replayed
  BY <1>1, <1>2, Arrangements
<1>6. index' \subseteq Nat \X (1 .. born)
  BY <1>1, <1>2, <1>4, Bucketed
<1>7. TypeOK'
  BY <1>1, <1>2, <1>4, <1>5, <1>6 DEF TypeOK
<1>8. ASSUME NEW t \in Live'
      PROVE  (t \in Candidates(tracks[t].freq))'
  <2>1. t \in Replayed /\ tracks'[t].freq = rows[t].freq /\ rows[t].freq \in Freqs
    BY <1>4
  <2>2. <<Bucket(rows[t].freq), t>> \in index'
    BY <1>1, <2>1
  <2> QED BY <2>1, <2>2, Bucketed DEF Candidates, Bucket
<1> QED BY <1>7, <1>8 DEF FoundWhereHeard

LEMMA InitFound == Init => FoundWhereHeard
<1> SUFFICES ASSUME Init
             PROVE  FoundWhereHeard
  OBVIOUS
<1>1. Live = {} /\ DOMAIN rows = {} /\ tracks = <<>> /\ rows = <<>>
  BY DEF Init, Live
<1>2. tracks \in [Live -> Track] /\ rows \in [DOMAIN rows -> Track]
  BY <1>1
<1>3. order \in Seq(Ids) /\ IsInjective(order) /\ Range(order) = Live
  BY <1>1 DEF Init, IsInjective, Range
<1>4. TypeOK
  BY <1>1, <1>2, <1>3, TrackAssumption DEF Init, TypeOK
<1> QED BY <1>1, <1>4 DEF FoundWhereHeard

LEMMA TickKeeps ==
    ASSUME FoundWhereHeard, Tick \/ UNCHANGED vars
    PROVE  /\ FoundWhereHeard'
           /\ Observations(Live)' = Observations(Live) /\ UNCHANGED <<archived, heard>>
<1>1. UNCHANGED <<tracks, order, index, archived, born, rows, heard>>
  BY DEF Tick, vars
<1>2. TypeOK /\ now' \in 0 .. MaxTime
  <2>1. TypeOK /\ now \in 0 .. MaxTime /\ MaxTime \in Nat
    BY TrackAssumption DEF FoundWhereHeard, TypeOK
  <2>2. CASE Tick
    BY <2>1, <2>2 DEF Tick
  <2>3. CASE UNCHANGED vars
    BY <2>1, <2>3 DEF vars
  <2> QED BY <2>1, <2>2, <2>3
<1>3. Live' = Live /\ TypeOK'
  BY <1>1, <1>2 DEF FoundWhereHeard, Live, TypeOK
<1>4. \A t \in Live' : (t \in Candidates(tracks[t].freq))'
  BY <1>1, <1>3 DEF FoundWhereHeard, Candidates, Bucket
<1>5. Observations(Live)' = Observations(Live)
  BY <1>1 DEF Observations, SumOfIds, CountsOf, Live
<1> QED BY <1>1, <1>3, <1>4, <1>5 DEF FoundWhereHeard

\* Each step keeps the invariant, and all but the two that cannot the books.
LEMMA NextKeeps ==
    ASSUME FoundWhereHeard, Next \/ UNCHANGED vars
    PROVE  /\ FoundWhereHeard'
           /\ \/ Total' - Total = heard' - heard
              \/ MergeDuplicates /\ ~OldestFirst
              \/ Restart
<1>0. Observations(Live) \in Nat /\ archived \in Nat /\ heard \in Nat
  <2>1. \A t \in Live : tracks[t].count \in Nat
    BY DEF FoundWhereHeard, TypeOK, Track
  <2>2. CountsOf(Live) \in Counts
    BY <2>1 DEF CountsOf, Counts
  <2> QED BY <2>2, SumIsNatural DEF Observations, FoundWhereHeard, TypeOK
<1> DEFINE One == heard' = heard + 1 /\ archived' = archived /\ Observations(Live)' = Observations(Live) + 1
           None == heard' = heard /\ archived' + Observations(Live)' = archived + Observations(Live)
<1>1. ASSUME One \/ None
      PROVE  Total' - Total = heard' - heard
  <2>1. Total = archived + Observations(Live) /\ Total' = archived' + Observations(Live)'
    BY DEF Total
  <2>2. CASE One
    BY <1>0, <2>1, <2>2
  <2>3. CASE None
    BY <1>0, <2>1, <2>3
  <2> QED BY <1>1, <2>2, <2>3
<1>2. CASE Event
  <2>1. PICK f \in Freqs, ts \in now - Lateness .. now, from \in Origins :
           Create(f, ts, from) \/ \E t \in Live : Associate(t, f, ts, from)
    BY <1>2 DEF Event
  <2>2. CASE Create(f, ts, from)
    <3>1. FoundWhereHeard' /\ Observations(Live)' = Observations(Live) + 1
      BY <2>2, CreateKeeps
    <3>2. One
      BY <2>2, <3>1 DEF Create
    <3> QED BY <1>1, <3>1, <3>2
  <2>3. CASE \E t \in Live : Associate(t, f, ts, from)
    <3>1. PICK t \in Live : Associate(t, f, ts, from)
      BY <2>3
    <3>2. FoundWhereHeard' /\ Observations(Live)' = Observations(Live) + 1
      BY <3>1, AssociateKeeps
    <3>3. One
      BY <3>1, <3>2 DEF Associate
    <3> QED BY <1>1, <3>2, <3>3
  <2> QED BY <2>1, <2>2, <2>3
<1>3. CASE AgeTracks
  BY <1>1, <1>3, AgeTracksKeeps
<1>4. CASE MergeDuplicates
  <2>1. FoundWhereHeard' /\ (OldestFirst => Observations(Live)' = Observations(Live))
    BY <1>4, MergeKeeps
  <2>2. UNCHANGED <<archived, heard>>
    BY <1>4 DEF MergeDuplicates
  <2>3. CASE OldestFirst
    BY <1>1, <2>1, <2>2, <2>3
  <2>4. CASE ~OldestFirst
    BY <1>4, <2>1, <2>4
  <2> QED BY <2>3, <2>4
<1>5. CASE \E alike \in SUBSET kSubset(2, Live) : Deduplicate(alike)
  <2>1. PICK alike : Deduplicate(alike)
    BY <1>5
  <2>2. FoundWhereHeard' /\ Observations(Live)' = Observations(Live) /\ UNCHANGED <<archived, heard>>
    BY <2>1, DeduplicateKeeps
  <2> QED BY <1>1, <2>2
<1>6. CASE Tick \/ UNCHANGED vars
  BY <1>1, <1>6, TickKeeps
<1>7. CASE Restart
  BY <1>7, RestartKeeps
<1> QED BY <1>2, <1>3, <1>4, <1>5, <1>6, <1>7 DEF Next

-----------------------------------------------------------------------------
(***************************************************************************)
(* The table stays well formed (part of FoundWhereHeard), and a track is   *)
(* found where it was last heard, also after merges and restarts: no       *)
(* update takes it further than a bucket from where it is indexed.         *)
(***************************************************************************)
THEOREM HeardAgainFound == Spec => []FoundWhereHeard
<1>1. FoundWhereHeard /\ [Next]_vars => FoundWhereHeard'
  BY NextKeeps
<1> QED BY <1>1, InitFound, PTL DEF Spec

(***************************************************************************)
(* Every event adds one observation, and ageing, deduplication in any case *)
(* and a merge pass that meets the tracks oldest first neither add nor     *)
(* lose one.                                                               *)
(***************************************************************************)
THEOREM ObservationsKept == Spec => BooksBalance
<1> DEFINE Kept == \/ Total' - Total = heard' - heard
                   \/ MergeDuplicates /\ ~OldestFirst
                   \/ Restart
<1>1. FoundWhereHeard /\ [Next]_vars => FoundWhereHeard' /\ [Kept]_vars
  BY NextKeeps
<1> QED BY <1>1, InitFound, PTL DEF Spec, BooksBalance

(***************************************************************************)
(* One pass of merge_duplicates leaves no two tracks that it would merge,  *)
(* in whatever order it meets them.                                        *)
(***************************************************************************)
THEOREM OnePassIsEnough == Spec => MergeIsComplete
<1> DEFINE Done == MergeDuplicates => \A s, t \in Live' : s # t => ~Duplicates(tracks'[s], tracks'[t])
<1>1. FoundWhereHeard /\ [Next]_vars => FoundWhereHeard'
  BY NextKeeps
<1>2. FoundWhereHeard /\ [Next]_vars => [Done]_vars
  BY MergeKeeps
<1> QED BY <1>1, <1>2, InitFound, PTL DEF Spec, MergeIsComplete

(***************************************************************************)
(* Deduplication unites pairs, not chains: each track it removes goes      *)
(* whole into one that stays, which is older, was heard by another station *)
(* and itself corroborates it.                                             *)
(***************************************************************************)
THEOREM PairsAreFolded == Spec => FoldedAcross
<1> DEFINE Paired ==
             \A alike \in SUBSET kSubset(2, Live) : Deduplicate(alike) =>
                \E into \in [Live -> Live'] :
                   /\ \A k \in Live' :
                         /\ into[k] = k
                         /\ tracks'[k].count = Observations({t \in Live : into[t] = k})
                   /\ \A t \in Live \ Live' : FoldsInto(t, into[t], alike)
<1>1. FoundWhereHeard /\ [Next]_vars => FoundWhereHeard'
  BY NextKeeps
<1>2. FoundWhereHeard /\ [Next]_vars => [Paired]_vars
  BY DeduplicateKeeps
<1> QED BY <1>1, <1>2, InitFound, PTL DEF Spec, FoldedAcross

-----------------------------------------------------------------------------
(* The feed *)

EventsOf(s) == {s[i].event : i \in DOMAIN s}

\* The rows of a log that a snapshot of it would have.
Top(s) == {s[i].event : i \in DOMAIN s \cap 1 .. TailSize}

Shown == Top(log) \cup Top(conf) \cup EventsOf(snapshot)

\* Rows carry the numbers their events were given.
NumberedBy(s, given) ==
    \A i \in DOMAIN s : s[i].event \in DOMAIN given /\ s[i].serial = given[s[i].event]

\* A save of the last frame is where a frame starts.
SavedAtStart == phase = "decode" => log = conf

CursorGiven == cursor > 0 => \E d \in Events : cursor <= numbers[d]

\* A row older than one in the snapshot, and not in it, is out of the top for
\* good: rows only ever move down, or go.
SnapshotOnTop ==
    \A e \in Top(log) \cup Top(conf), f \in EventsOf(snapshot) :
        e <= f => e \in EventsOf(snapshot)

Passed == \A e \in Shown : Fresh(e) /\ numbers[e] <= cursor => e \in Received

\* What is shown and older than a row received will not be sent any more.
Settled == \A e \in Shown, g \in Received : e <= g => numbers[e] <= cursor

\* An answer has all that the cursor will pass by when it arrives.
AnswerWhole ==
    LET offered == EventsOf(reply.rows)
    IN  /\ NumberedBy(reply.rows, numbers)
        /\ \A r \in offered : cursor < numbers[r] /\ numbers[r] <= reply.last
        /\ reply.last > cursor => \E r \in offered : numbers[r] = reply.last
        /\ \A e \in Shown, r \in offered : e <= r => e \in offered \/ numbers[e] <= cursor
        /\ \A g \in Received, r \in offered : g < r

FeedIInv ==
    /\ FeedTypeOK
    /\ NumberedBy(log, numbers) /\ NumberedBy(conf, numbers) /\ NumberedBy(snapshot, numbers)
    /\ SavedAtStart
    /\ CursorGiven
    /\ SnapshotOnTop
    /\ Passed
    /\ Settled
    /\ reply # NoReply => AnswerWhole

LEMMA FirstOf ==
    ASSUME NEW n \in Nat, NEW S, NEW s \in Seq(S)
    PROVE  /\ First(n, s) \in Seq(S)
           /\ DOMAIN First(n, s) = {i \in DOMAIN s : i <= n}
           /\ \A i \in DOMAIN First(n, s) : First(n, s)[i] = s[i]
<1> DEFINE m == IF n <= Len(s) THEN n ELSE Len(s)
<1>1. Len(s) \in Nat /\ DOMAIN s = 1 .. Len(s) /\ m \in Nat /\ m <= Len(s)
  OBVIOUS
<1>2. Min({n, Len(s)}) = m
  <2>1. m \in {n, Len(s)} /\ \A y \in {n, Len(s)} : m <= y
    BY <1>1
  <2>2. ASSUME NEW x \in {n, Len(s)}, \A y \in {n, Len(s)} : x <= y
        PROVE  x = m
    <3>1. x <= n /\ x <= Len(s)
      BY <2>2
    <3>2. \A k \in Nat : (x = n \/ x = k) /\ x <= n /\ x <= k => x = IF n <= k THEN n ELSE k
      OBVIOUS
    <3> QED BY <1>1, <2>2, <3>1, <3>2
  <2> HIDE DEF m
  <2> QED BY <2>1, <2>2 DEF Min
<1>3. First(n, s) = SubSeq(s, 1, m)
  BY <1>2 DEF First
<1>4. \A i \in 1 .. m : i \in DOMAIN s
  BY <1>1
<1>5. 1 .. m = {i \in DOMAIN s : i <= n}
  BY <1>1
<1> HIDE DEF m
<1>6. SubSeq(s, 1, m) \in Seq(S) /\ DOMAIN SubSeq(s, 1, m) = 1 .. m
      /\ \A i \in 1 .. m : SubSeq(s, 1, m)[i] = s[i]
  BY <1>1
<1> QED BY <1>3, <1>5, <1>6

LEMMA BackOf ==
    ASSUME NEW S, NEW s \in Seq(S)
    PROVE  /\ Reverse(s) \in Seq(S) /\ Len(Reverse(s)) = Len(s)
           /\ \A i \in DOMAIN Reverse(s) : \E k \in DOMAIN s : Reverse(s)[i] = s[k]
           /\ \A k \in DOMAIN s : \E i \in DOMAIN Reverse(s) : Reverse(s)[i] = s[k]
<1>1. Len(s) \in Nat /\ DOMAIN s = 1 .. Len(s)
  OBVIOUS
<1>2. \A i \in 1 .. Len(s) : (Len(s) - i) + 1 \in 1 .. Len(s)
  BY <1>1
<1>3. Reverse(s) \in Seq(S) /\ Len(Reverse(s)) = Len(s) /\ DOMAIN Reverse(s) = 1 .. Len(s)
  BY <1>1, <1>2 DEF Reverse
<1>4. \A i \in 1 .. Len(s) : Reverse(s)[i] = s[(Len(s) - i) + 1]
  BY DEF Reverse
<1>5. ASSUME NEW k \in DOMAIN s
      PROVE  \E i \in DOMAIN Reverse(s) : Reverse(s)[i] = s[k]
  <2>1. (Len(s) - k) + 1 \in 1 .. Len(s) /\ (Len(s) - ((Len(s) - k) + 1)) + 1 = k
    BY <1>1
  <2> QED BY <1>3, <1>4, <2>1
<1> QED BY <1>1, <1>2, <1>3, <1>4, <1>5

\* A snapshot is the top of the log.
LEMMA TailIsTop ==
    ASSUME log \in Seq(Rows), NEW given, NumberedBy(log, given)
    PROVE  /\ TailOfLog \in Seq(Rows) /\ NumberedBy(TailOfLog, given)
           /\ EventsOf(TailOfLog) = Top(log)
<1> DEFINE tail == First(TailSize, log)
<1>1. TailSize \in Nat /\ DOMAIN log = 1 .. Len(log)
  BY FeedAssumption
<1>2. /\ tail \in Seq(Rows) /\ DOMAIN tail = {i \in DOMAIN log : i <= TailSize}
      /\ \A i \in DOMAIN tail : tail[i] = log[i]
  BY <1>1, FirstOf
<1>3. DOMAIN tail = DOMAIN log \cap 1 .. TailSize
  BY <1>1, <1>2
<1> HIDE DEF tail
<1>4. /\ Reverse(tail) \in Seq(Rows)
      /\ \A i \in DOMAIN Reverse(tail) : \E k \in DOMAIN tail : Reverse(tail)[i] = tail[k]
      /\ \A k \in DOMAIN tail : \E i \in DOMAIN Reverse(tail) : Reverse(tail)[i] = tail[k]
  BY <1>2, BackOf
<1>5. TailOfLog = Reverse(tail)
  BY DEF TailOfLog, tail
<1>6. EventsOf(Reverse(tail)) = Top(log)
  <2>1. ASSUME NEW i \in DOMAIN Reverse(tail)
        PROVE  \E k \in DOMAIN log \cap 1 .. TailSize : Reverse(tail)[i] = log[k]
    BY <1>2, <1>3, <1>4
  <2>2. ASSUME NEW k \in DOMAIN log \cap 1 .. TailSize
        PROVE  \E i \in DOMAIN Reverse(tail) : Reverse(tail)[i] = log[k]
    BY <1>2, <1>3, <1>4
  <2>3. ASSUME NEW e \in EventsOf(Reverse(tail))
        PROVE  e \in Top(log)
    BY <2>1 DEF EventsOf, Top
  <2>4. ASSUME NEW e \in Top(log)
        PROVE  e \in EventsOf(Reverse(tail))
    BY <2>2 DEF EventsOf, Top
  <2> QED BY <2>3, <2>4
<1>7. NumberedBy(Reverse(tail), given)
  BY <1>2, <1>3, <1>4 DEF NumberedBy
<1> QED BY <1>4, <1>5, <1>6, <1>7

\* Rows made later, with the numbers given so far kept.
Grows ==
    /\ numbers' \in Seq(Nat \ {0})
    /\ Events \subseteq Events'
    /\ \A d \in Events : numbers'[d] = numbers[d]
    /\ \A e \in Events' \ Events, d \in Events : d < e

\* What appendPredatorEvent does to the log.
LEMMA RowAdded ==
    ASSUME FeedTypeOK, NumberedBy(log, numbers), Add
    PROVE  /\ Grows
           /\ serial' \in Nat
           /\ log' \in Seq(Rows) /\ NumberedBy(log', numbers')
           /\ Top(log') \subseteq Top(log) \cup (Events' \ Events)
<1> DEFINE e == Len(numbers')
           row == [event |-> e, serial |-> serial']
           longer == <<row>> \o log
<1>1. /\ numbers \in Seq(Nat \ {0}) /\ serial \in Nat /\ log \in Seq(Rows)
      /\ serial' = serial + 1 /\ numbers' = Append(numbers, serial')
      /\ log' = First(LogSize, longer)
  BY DEF Add, FeedTypeOK
<1>2. /\ serial' \in Nat \ {0} /\ Len(numbers) \in Nat
      /\ Events = 1 .. Len(numbers)
  BY <1>1 DEF Events
<1>3. /\ numbers' \in Seq(Nat \ {0}) /\ e = Len(numbers) + 1
      /\ \A d \in 1 .. Len(numbers) : numbers'[d] = numbers[d]
      /\ numbers'[e] = serial'
  BY <1>1, <1>2
<1>4. DOMAIN numbers' = 1 .. Len(numbers) + 1 /\ Events' = 1 .. Len(numbers) + 1
  BY <1>3 DEF Events
<1> HIDE DEF e
<1>5. Grows
  BY <1>2, <1>3, <1>4 DEF Grows
<1>6. e \in Events' \ Events /\ e \in Nat \ {0}
  BY <1>2, <1>3, <1>4
<1>7. row \in Rows /\ row.event = e /\ row.serial = serial'
  BY <1>2, <1>6 DEF Rows
<1> HIDE DEF row
<1>8. /\ longer \in Seq(Rows) /\ DOMAIN longer = 1 .. Len(log) + 1
      /\ longer[1] = row /\ \A i \in 2 .. Len(log) + 1 : longer[i] = log[i - 1]
  BY <1>1, <1>7
<1> HIDE DEF longer
<1>9. LogSize \in Nat /\ TailSize \in Nat
  BY FeedAssumption
<1>10. /\ log' \in Seq(Rows) /\ DOMAIN log' \subseteq 1 .. Len(log) + 1
       /\ \A i \in DOMAIN log' : log'[i] = longer[i]
  <2>1. /\ First(LogSize, longer) \in Seq(Rows)
        /\ DOMAIN First(LogSize, longer) = {i \in DOMAIN longer : i <= LogSize}
        /\ \A i \in DOMAIN First(LogSize, longer) : First(LogSize, longer)[i] = longer[i]
    <3>1. longer \in Seq(Rows) /\ LogSize \in Nat
      BY <1>8, <1>9
    <3> QED BY <3>1, FirstOf
  <2> QED BY <1>1, <1>8, <2>1
<1>11. ASSUME NEW i \in DOMAIN log'
       PROVE  \/ log'[i] = row
              \/ i - 1 \in DOMAIN log /\ log'[i] = log[i - 1]
  <2>1. DOMAIN log = 1 .. Len(log) /\ Len(log) \in Nat
    BY <1>1
  <2>2. i \in 1 .. Len(log) + 1
    BY <1>10
  <2>3. CASE i = 1
    BY <1>8, <1>10, <2>3
  <2>4. CASE i # 1
    <3>1. i \in 2 .. Len(log) + 1 /\ i - 1 \in 1 .. Len(log)
      BY <2>1, <2>2, <2>4
    <3> QED BY <1>8, <1>10, <2>1, <3>1
  <2> QED BY <2>3, <2>4
<1>12. NumberedBy(log', numbers')
  <2> SUFFICES ASSUME NEW i \in DOMAIN log'
               PROVE  log'[i].event \in DOMAIN numbers' /\ log'[i].serial = numbers'[log'[i].event]
    BY DEF NumberedBy
  <2>1. CASE log'[i] = row
    BY <1>3, <1>4, <1>6, <1>7, <2>1
  <2>2. CASE i - 1 \in DOMAIN log /\ log'[i] = log[i - 1]
    <3>1. log[i - 1].event \in DOMAIN numbers /\ log[i - 1].serial = numbers[log[i - 1].event]
      BY <2>2 DEF NumberedBy
    <3> QED BY <1>5, <2>2, <3>1 DEF Grows, Events
  <2> QED BY <1>11, <2>1, <2>2
<1>13. Top(log') \subseteq Top(log) \cup (Events' \ Events)
  <2> SUFFICES ASSUME NEW i \in DOMAIN log' \cap 1 .. TailSize
               PROVE  log'[i].event \in Top(log) \cup (Events' \ Events)
    BY DEF Top
  <2>1. CASE log'[i] = row
    BY <1>6, <1>7, <2>1
  <2>2. CASE i - 1 \in DOMAIN log /\ log'[i] = log[i - 1]
    <3>1. i - 1 \in 1 .. TailSize
      <4>1. DOMAIN log = 1 .. Len(log) /\ Len(log) \in Nat
        BY <1>1
      <4> QED BY <1>9, <2>2, <4>1
    <3> QED BY <2>2, <3>1 DEF Top
  <2> QED BY <1>11, <2>1, <2>2
<1> QED BY <1>2, <1>5, <1>10, <1>12, <1>13

\* What is in the log and in the snapshot are events.
LEMMA ShownAreEvents ==
    ASSUME FeedIInv
    PROVE  /\ Shown \subseteq Events /\ Received \subseteq Events /\ Events \subseteq Nat
           /\ numbers \in Seq(Nat \ {0}) /\ \A e \in Events : numbers[e] \in Nat \ {0}
           /\ cursor \in Nat
           /\ reply # NoReply => reply.last \in Nat /\ EventsOf(reply.rows) \subseteq Events
<1>1. Shown \subseteq Events
  BY DEF FeedIInv, NumberedBy, Shown, Top, EventsOf, Events
<1>2. numbers \in Seq(Nat \ {0}) /\ cursor \in Nat /\ got \in Seq(Events)
      /\ (reply = NoReply \/ reply \in [rows : Seq(Rows), last : Nat])
  BY DEF FeedIInv, FeedTypeOK
<1>3. Events \subseteq Nat /\ \A e \in Events : numbers[e] \in Nat \ {0}
  BY <1>2 DEF Events
<1>4. Received \subseteq Events
  BY <1>2 DEF Received
<1>5. ASSUME reply # NoReply
      PROVE  reply.last \in Nat /\ EventsOf(reply.rows) \subseteq Events
  <2>1. reply.last \in Nat
    BY <1>2, <1>5
  <2>2. NumberedBy(reply.rows, numbers)
    BY <1>5 DEF FeedIInv, AnswerWhole
  <2> QED BY <2>1, <2>2 DEF NumberedBy, EventsOf, Events
<1> QED BY <1>1, <1>2, <1>3, <1>4, <1>5

\* A step of the node that shows no older row than before keeps what the
\* client relies on.
LEMMA ShownOnlyGrows ==
    ASSUME FeedIInv, Grows, UNCHANGED client, Shown' \subseteq Shown \cup (Events' \ Events)
    PROVE  got' \in Seq(Events') /\ CursorGiven' /\ Passed' /\ Settled' /\ (reply' # NoReply => AnswerWhole')
<1>1. /\ Shown \subseteq Events /\ Received \subseteq Events /\ Events \subseteq Nat
      /\ \A e \in Events : numbers[e] \in Nat \ {0}
      /\ cursor \in Nat
      /\ reply # NoReply => reply.last \in Nat /\ EventsOf(reply.rows) \subseteq Events
  BY ShownAreEvents
<1>2. /\ Events \subseteq Events' /\ Events' \subseteq Nat
      /\ \A d \in Events : numbers'[d] = numbers[d]
      /\ \A e \in Events' : numbers'[e] \in Nat \ {0}
      /\ \A e \in Events' \ Events, d \in Events : d < e
  BY DEF Grows, Events
<1>3. cursor' = cursor /\ reply' = reply /\ got' = got /\ Received' = Received
  BY DEF client, Received
<1>4. CursorGiven /\ Passed /\ Settled /\ (reply # NoReply => AnswerWhole)
  BY DEF FeedIInv
<1>5. got' \in Seq(Events')
  <2>1. got \in Seq(Events)
    BY DEF FeedIInv, FeedTypeOK
  <2>2. \A S, T : S \subseteq T => (got \in Seq(S) => got \in Seq(T))
    OBVIOUS
  <2>3. got \in Seq(Events')
    BY <1>2, <2>1, <2>2
  <2> QED BY <1>3, <2>3
<1>6. CursorGiven'
  BY <1>2, <1>3, <1>4 DEF CursorGiven
<1>7. \A e \in Shown' \ Shown : e \in Events' /\ e \notin Events
  OBVIOUS
<1>8. Passed'
  <2> SUFFICES ASSUME NEW e \in Shown', Fresh(e)', numbers'[e] <= cursor
               PROVE  e \in Received
    BY <1>3 DEF Passed
  <2>1. CASE e \in Shown
    <3>1. e \in Events /\ numbers'[e] = numbers[e]
      BY <1>1, <1>2, <2>1
    <3>2. Fresh(e)
      BY <1>2, <3>1 DEF Fresh
    <3> QED BY <1>4, <2>1, <3>1, <3>2 DEF Passed
  <2>2. CASE e \notin Shown
    <3>1. e \in Events' \ Events /\ numbers'[e] \in Nat \ {0}
      BY <1>2, <1>7, <2>2
    <3>2. PICK d \in Events : cursor <= numbers[d]
      BY <1>1, <1>4, <3>1 DEF CursorGiven
    <3>3. numbers'[d] < numbers'[e]
      BY <1>2, <3>1, <3>2 DEF Fresh
    <3>4. numbers'[d] = numbers[d] /\ numbers[d] \in Nat
      BY <1>1, <1>2, <3>2
    <3> QED BY <1>1, <3>1, <3>2, <3>3, <3>4
  <2> QED BY <2>1, <2>2
<1>9. ASSUME NEW e \in Shown', NEW g \in Events, e <= g
      PROVE  e \in Shown /\ numbers'[e] = numbers[e]
  <2>1. e \in Shown
    <3> SUFFICES ASSUME e \notin Shown
                 PROVE  FALSE
      OBVIOUS
    <3>1. e \in Events' \ Events
      BY <1>7
    <3>2. g < e /\ g \in Nat /\ e \in Nat
      BY <1>1, <1>2, <3>1
    <3> QED BY <1>9, <3>2
  <2> QED BY <1>1, <1>2, <2>1
<1>10. Settled'
  BY <1>1, <1>3, <1>4, <1>9 DEF Settled
<1>11. ASSUME reply' # NoReply
       PROVE  AnswerWhole'
  <2> DEFINE offered == EventsOf(reply.rows)
  <2>1. /\ reply # NoReply /\ offered \subseteq Events
        /\ NumberedBy(reply.rows, numbers)
        /\ \A r \in offered : cursor < numbers[r] /\ numbers[r] <= reply.last
        /\ reply.last > cursor => \E r \in offered : numbers[r] = reply.last
        /\ \A e \in Shown, r \in offered : e <= r => e \in offered \/ numbers[e] <= cursor
        /\ \A g \in Received, r \in offered : g < r
    BY <1>1, <1>3, <1>4, <1>11 DEF AnswerWhole
  <2>2. NumberedBy(reply.rows, numbers')
    BY <1>2, <2>1 DEF NumberedBy, Events
  <2> HIDE DEF offered
  <2>3. \A r \in offered : numbers'[r] = numbers[r]
    BY <1>2, <2>1
  <2>4. \A e \in Shown', r \in offered : e <= r => e \in offered \/ numbers'[e] <= cursor
    BY <1>9, <2>1
  <2>5. /\ \A r \in offered : cursor < numbers'[r] /\ numbers'[r] <= reply.last
        /\ reply.last > cursor => \E r \in offered : numbers'[r] = reply.last
    BY <2>1, <2>3
  <2> QED BY <1>3, <2>1, <2>2, <2>4, <2>5 DEF AnswerWhole, offered
<1> QED BY <1>5, <1>6, <1>8, <1>10, <1>11

\* The decoders' rows, a peer's, hits and the operator's own events.
LEMMA NewRowKeeps ==
    ASSUME FeedIInv, Add, conf' \in {conf, log'},
           phase' \in {"decode", "mirror", "hits"}, phase' = "decode" => conf' = log'
    PROVE  FeedIInv'
<1>1. FeedTypeOK /\ NumberedBy(log, numbers) /\ NumberedBy(conf, numbers) /\ NumberedBy(snapshot, numbers)
      /\ SnapshotOnTop
  BY DEF FeedIInv
<1>2. /\ Grows /\ serial' \in Nat
      /\ log' \in Seq(Rows) /\ NumberedBy(log', numbers')
      /\ Top(log') \subseteq Top(log) \cup (Events' \ Events)
  BY <1>1, RowAdded
<1>3. UNCHANGED <<snapshot, restarts, client>>
  BY DEF Add
<1>4. Top(conf') \subseteq Top(log) \cup Top(conf) \cup (Events' \ Events)
  BY <1>2
<1>5. Shown' \subseteq Shown \cup (Events' \ Events)
  <2>1. Shown' = Top(log') \cup Top(conf') \cup EventsOf(snapshot')
    BY DEF Shown, Top, EventsOf
  <2> QED BY <1>2, <1>3, <1>4, <2>1 DEF Shown
<1>6. got' \in Seq(Events') /\ CursorGiven' /\ Passed' /\ Settled' /\ (reply' # NoReply => AnswerWhole')
  BY <1>2, <1>3, <1>5, ShownOnlyGrows
<1>7. NumberedBy(conf', numbers') /\ NumberedBy(snapshot', numbers')
  <2>1. NumberedBy(conf, numbers') /\ NumberedBy(snapshot, numbers')
    BY <1>1, <1>2 DEF NumberedBy, Grows, Events
  <2> QED BY <1>2, <1>3, <2>1
<1>8. FeedTypeOK'
  <2>1. conf' \in Seq(Rows) /\ snapshot' \in Seq(Rows)
    BY <1>1, <1>2, <1>3 DEF FeedTypeOK
  <2>2. restarts' \in Nat /\ cursor' \in Nat /\ (reply' = NoReply \/ reply' \in [rows : Seq(Rows), last : Nat])
    BY <1>1, <1>3 DEF FeedTypeOK, client
  <2> QED BY <1>2, <1>6, <2>1, <2>2 DEF FeedTypeOK, Grows
<1>9. SnapshotOnTop'
  <2> SUFFICES ASSUME NEW e \in Top(log') \cup Top(conf'), NEW f \in EventsOf(snapshot), e <= f
               PROVE  e \in EventsOf(snapshot)
    BY <1>3 DEF SnapshotOnTop, Top
  <2>1. f \in Events /\ Events \subseteq Nat
    BY ShownAreEvents DEF Shown
  <2>2. e \notin Events' \ Events
    <3>1. \A d \in Events' \ Events : f < d /\ d \in Nat
      BY <1>2, <2>1 DEF Grows, Events
    <3> QED BY <2>1, <3>1
  <2> QED BY <1>1, <1>2, <1>4, <2>2 DEF SnapshotOnTop
<1> QED BY <1>2, <1>6, <1>7, <1>8, <1>9 DEF FeedIInv, SavedAtStart

\* A step that only takes rows away, or back from the configuration.
LEMMA OldRowsKeep ==
    ASSUME FeedIInv, log' \in {log, conf, <<>>}, conf' \in {conf, <<>>}, snapshot' \in {snapshot, <<>>},
           UNCHANGED <<numbers, client>>, serial' \in Nat, restarts' \in Nat,
           phase' \in {"decode", "mirror", "hits"}, phase' = "decode" => log' = conf'
    PROVE  FeedIInv'
<1>1. FeedTypeOK /\ NumberedBy(log, numbers) /\ NumberedBy(conf, numbers) /\ NumberedBy(snapshot, numbers)
      /\ SnapshotOnTop
  BY DEF FeedIInv
<1>2. Grows /\ Events' = Events
  BY <1>1 DEF FeedTypeOK, Grows, Events
<1>3. <<>> \in Seq(Rows) /\ NumberedBy(<<>>, numbers) /\ Top(<<>>) = {} /\ EventsOf(<<>>) = {}
  BY DEF NumberedBy, Top, EventsOf
<1>4. /\ NumberedBy(log', numbers') /\ NumberedBy(conf', numbers') /\ NumberedBy(snapshot', numbers')
      /\ log' \in Seq(Rows) /\ conf' \in Seq(Rows) /\ snapshot' \in Seq(Rows)
  BY <1>1, <1>3 DEF FeedTypeOK
<1>5. /\ Top(log') \cup Top(conf') \subseteq Top(log) \cup Top(conf)
      /\ EventsOf(snapshot') \in {EventsOf(snapshot), {}}
  BY <1>3
<1>6. Shown' \subseteq Shown
  <2>1. Shown' = Top(log') \cup Top(conf') \cup EventsOf(snapshot')
    BY DEF Shown, Top, EventsOf
  <2> QED BY <1>5, <2>1 DEF Shown
<1>7. got' \in Seq(Events') /\ CursorGiven' /\ Passed' /\ Settled' /\ (reply' # NoReply => AnswerWhole')
  BY <1>2, <1>6, ShownOnlyGrows
<1>8. FeedTypeOK'
  <2>1. cursor' \in Nat /\ (reply' = NoReply \/ reply' \in [rows : Seq(Rows), last : Nat])
    BY <1>1 DEF FeedTypeOK, client
  <2> QED BY <1>2, <1>4, <1>7, <2>1 DEF FeedTypeOK, Grows
<1>9. SnapshotOnTop'
  <2>1. \A e \in Top(log') \cup Top(conf'), f \in EventsOf(snapshot') : e <= f => e \in EventsOf(snapshot')
    BY <1>1, <1>5 DEF SnapshotOnTop
  <2> QED BY <2>1 DEF SnapshotOnTop, Top, EventsOf
<1> QED BY <1>4, <1>7, <1>8, <1>9 DEF FeedIInv, SavedAtStart

LEMMA RefreshKeeps ==
    ASSUME FeedIInv, Refresh
    PROVE  FeedIInv'
<1>1. FeedTypeOK /\ NumberedBy(log, numbers) /\ NumberedBy(conf, numbers) /\ log = conf
  BY DEF FeedIInv, SavedAtStart, Refresh
<1>2. /\ snapshot' = TailOfLog /\ phase' = "mirror"
      /\ UNCHANGED <<log, conf, serial, numbers, restarts, client>>
  BY DEF Refresh, node
<1>3. Grows /\ Events' = Events
  BY <1>1, <1>2 DEF FeedTypeOK, Grows, Events
<1>4. snapshot' \in Seq(Rows) /\ NumberedBy(snapshot', numbers') /\ EventsOf(snapshot') = Top(log)
  <2>1. log \in Seq(Rows)
    BY <1>1 DEF FeedTypeOK
  <2> QED BY <1>1, <1>2, <2>1, TailIsTop
<1>5. Shown' \subseteq Shown
  <2>1. Shown' = Top(log') \cup Top(conf') \cup EventsOf(snapshot')
    BY DEF Shown, Top, EventsOf
  <2> QED BY <1>2, <1>4, <2>1 DEF Shown
<1>6. got' \in Seq(Events') /\ CursorGiven' /\ Passed' /\ Settled' /\ (reply' # NoReply => AnswerWhole')
  BY <1>2, <1>3, <1>5, ShownOnlyGrows
<1>7. FeedTypeOK'
  <2>1. /\ cursor' \in Nat /\ (reply' = NoReply \/ reply' \in [rows : Seq(Rows), last : Nat])
        /\ serial' \in Nat /\ restarts' \in Nat /\ log' \in Seq(Rows) /\ conf' \in Seq(Rows)
    BY <1>1, <1>2 DEF FeedTypeOK, client
  <2> QED BY <1>2, <1>3, <1>4, <1>6, <2>1 DEF FeedTypeOK, Grows
<1>8. SnapshotOnTop'
  <2>1. Top(log') \cup Top(conf') = EventsOf(snapshot')
    BY <1>1, <1>2, <1>4
  <2> QED BY <2>1 DEF SnapshotOnTop, Top, EventsOf
<1> QED BY <1>1, <1>2, <1>4, <1>6, <1>7, <1>8 DEF FeedIInv, SavedAtStart

-----------------------------------------------------------------------------
(* The answer to a poll *)

Answers == [rows : Seq(Rows), last : Nat]

RowsOf(s) == {s[i] : i \in DOMAIN s}

\* An answer that lists the rows of R that are newer than since.
Lists(a, R, since) ==
    /\ RowsOf(a.rows) = {r \in R : r.serial > since}
    /\ \A r \in RowsOf(a.rows) : r.serial <= a.last
    /\ a.last > since => \E r \in RowsOf(a.rows) : r.serial = a.last

LEMMA OneMoreListed ==
    ASSUME NEW a \in Answers, NEW row \in Rows, NEW since \in Nat, NEW R \in SUBSET Rows,
           Lists(a, R, since)
    PROVE  Listed(a, row, since) \in Answers /\ Lists(Listed(a, row, since), R \cup {row}, since)
<1> DEFINE b == Listed(a, row, since)
           s == a.rows
<1>1. /\ s \in Seq(Rows) /\ a.last \in Nat /\ row.serial \in Nat
      /\ \A r \in RowsOf(s) : r.serial \in Nat
  <2>1. s \in Seq(Rows) /\ a.last \in Nat
    BY DEF Answers
  <2>2. \A r \in Rows : r.serial \in Nat
    BY DEF Rows
  <2> HIDE DEF s
  <2>3. RowsOf(s) \subseteq Rows
    BY <2>1 DEF RowsOf
  <2> QED BY <2>1, <2>2, <2>3
<1>2. Append(s, row) \in Seq(Rows) /\ RowsOf(Append(s, row)) = RowsOf(s) \cup {row}
  <2>1. /\ DOMAIN Append(s, row) = 1 .. Len(s) + 1 /\ DOMAIN s = 1 .. Len(s) /\ Len(s) \in Nat
        /\ \A i \in 1 .. Len(s) : Append(s, row)[i] = s[i]
        /\ Append(s, row)[Len(s) + 1] = row
    BY <1>1
  <2>2. DOMAIN Append(s, row) = DOMAIN s \cup {Len(s) + 1}
    BY <2>1
  <2> HIDE DEF s
  <2>3. RowsOf(Append(s, row)) = RowsOf(s) \cup {row}
    BY <2>1, <2>2 DEF RowsOf
  <2> QED BY <1>1, <2>3
<1>3. CASE row.serial > since
  <2>1. b = [rows |-> Append(s, row), last |-> Later(row.serial, a.last)]
    BY <1>3 DEF Listed
  <2>2. /\ Later(row.serial, a.last) \in {row.serial, a.last}
        /\ row.serial <= Later(row.serial, a.last) /\ a.last <= Later(row.serial, a.last)
    BY <1>1 DEF Later
  <2> DEFINE m == Later(row.serial, a.last)
             T == RowsOf(s) \cup {row}
  <2>3. b.rows = Append(s, row) /\ b.last = m /\ RowsOf(b.rows) = T /\ m \in Nat
    BY <1>1, <1>2, <2>1, <2>2
  <2>4. b \in Answers
    BY <1>2, <2>1, <2>3 DEF Answers
  <2> HIDE DEF b, m, s
  <2>5. T = {r \in R \cup {row} : r.serial > since}
    BY <1>3 DEF Lists, s
  <2>6. \A r \in T : r.serial <= m
    <3>1. \A r \in RowsOf(s) : r.serial <= a.last
      BY DEF Lists, s
    <3> QED BY <1>1, <2>2, <2>3, <3>1 DEF m
  <2>7. m > since => \E r \in T : r.serial = m
    <3>1. CASE m = row.serial
      BY <3>1
    <3>2. CASE m = a.last
      BY <3>2 DEF Lists, s
    <3> QED BY <2>2, <3>1, <3>2 DEF m
  <2> HIDE DEF T
  <2>8. Lists(b, R \cup {row}, since)
    BY <2>3, <2>5, <2>6, <2>7 DEF Lists
  <2> QED BY <2>4, <2>8 DEF b
<1>4. CASE ~(row.serial > since)
  <2>1. b = a
    BY <1>4 DEF Listed
  <2>2. {r \in R \cup {row} : r.serial > since} = {r \in R : r.serial > since}
    BY <1>4
  <2> QED BY <2>1, <2>2 DEF Lists
<1> QED BY <1>3, <1>4

LEMMA AnswerLists ==
    ASSUME snapshot \in Seq(Rows), NEW since \in Nat
    PROVE  Answer(since) \in Answers /\ Lists(Answer(since), RowsOf(snapshot), since)
<1> DEFINE n == Len(snapshot)
           back == Reverse(snapshot)
           none == [rows |-> <<>>, last |-> since]
           f == [x \in (1 .. n) \X Answers |-> Listed(x[2], back[x[1]], since)]
           IsRun(g) == g = [i \in 0 .. n |-> IF i = 0 THEN none ELSE Listed(g[i - 1], back[i], since)]
           s == CHOOSE g : IsRun(g)
           R(i) == {back[j] : j \in 1 .. i}
<1>0. /\ n \in Nat /\ DOMAIN back = 1 .. n /\ (\A i \in 1 .. n : back[i] \in Rows)
      /\ R(n) = RowsOf(snapshot)
  <2>1. /\ n \in Nat /\ DOMAIN snapshot = 1 .. n
        /\ back \in Seq(Rows) /\ Len(back) = n
        /\ \A i \in DOMAIN back : \E k \in DOMAIN snapshot : back[i] = snapshot[k]
        /\ \A k \in DOMAIN snapshot : \E i \in DOMAIN back : back[i] = snapshot[k]
    <3> HIDE DEF none, f, IsRun, s, R
    <3>1. Len(snapshot) \in Nat /\ DOMAIN snapshot = 1 .. Len(snapshot)
      OBVIOUS
    <3>2. /\ Reverse(snapshot) \in Seq(Rows) /\ Len(Reverse(snapshot)) = Len(snapshot)
          /\ \A i \in DOMAIN Reverse(snapshot) :
               \E k \in DOMAIN snapshot : Reverse(snapshot)[i] = snapshot[k]
          /\ \A k \in DOMAIN snapshot :
               \E i \in DOMAIN Reverse(snapshot) : Reverse(snapshot)[i] = snapshot[k]
      BY BackOf
    <3> QED BY <3>1, <3>2 DEF n, back
  <2> HIDE DEF back, n
  <2>2. DOMAIN back = 1 .. n /\ \A i \in 1 .. n : back[i] \in Rows
    BY <2>1
  <2>3. R(n) = RowsOf(snapshot)
    BY <2>1, <2>2 DEF RowsOf
  <2> QED BY <2>1, <2>2, <2>3
<1>1. Answer(since) = s[n]
  BY DEF Answer
<1>2. none \in Answers /\ Lists(none, R(0), since)
  BY DEF Answers, Lists, RowsOf
<1> HIDE DEF n, back, none
<1>3. ASSUME NEW a \in Answers, NEW row \in Rows
      PROVE  Listed(a, row, since) \in Answers
  <2>1. a.rows \in Seq(Rows) /\ a.last \in Nat /\ row.serial \in Nat
    BY DEF Answers, Rows
  <2>2. Append(a.rows, row) \in Seq(Rows) /\ Later(row.serial, a.last) \in Nat
    BY <2>1 DEF Later
  <2> QED BY <2>2 DEF Listed, Answers
<1>4. f \in Steps(n, Answers)
  BY <1>0, <1>3 DEF Steps
<1>5. PICK g : g \in [0 .. n -> Answers] /\ g[0] = none /\ \A i \in 1 .. n : g[i] = f[<<i, g[i - 1]>>]
  <2> HIDE DEF f
  <2>1. \E g : g \in Runs(n, Answers, none, f)
    BY <1>0, <1>2, <1>4, LoopRuns
  <2> QED BY <2>1 DEF Runs
<1>6. ASSUME NEW i \in 1 .. n
      PROVE  g[i] = Listed(g[i - 1], back[i], since)
  <2>1. i - 1 \in 0 .. n
    BY <1>0
  <2>2. g[i - 1] \in Answers
    BY <1>5, <2>1
  <2>3. f[<<i, g[i - 1]>>] = Listed(g[i - 1], back[i], since)
    BY <2>2
  <2> HIDE DEF f
  <2> QED BY <1>5, <2>3
<1>7. IsRun(g)
  <2>1. \A i \in 0 .. n : g[i] = IF i = 0 THEN none ELSE Listed(g[i - 1], back[i], since)
    BY <1>0, <1>5, <1>6
  <2> QED BY <1>5, <2>1
<1>8. IsRun(s)
  <2> HIDE DEF IsRun
  <2> QED BY <1>7
<1>9. \A i \in 0 .. n : s[i] = IF i = 0 THEN none ELSE Listed(s[i - 1], back[i], since)
  <2> HIDE DEF s
  <2> QED BY <1>8
<1> HIDE DEF s
<1> DEFINE G == {i \in 0 .. n : s[i] \in Answers /\ Lists(s[i], R(i), since)}
<1>10. 0 \in G
  <2> HIDE DEF R
  <2> QED BY <1>0, <1>2, <1>9
<1>11. ASSUME NEW m \in 1 .. n, m - 1 \in G
       PROVE  m \in G
  <2>1. m - 1 \in 0 .. n /\ m \in 0 .. n /\ m # 0
    BY <1>0
  <2>2. s[m] = Listed(s[m - 1], back[m], since)
    BY <1>9, <2>1
  <2>3. R(m) = R(m - 1) \cup {back[m]}
    <3>1. 1 .. m = (1 .. m - 1) \cup {m}
      BY <1>0
    <3> QED BY <3>1
  <2>4. R(m - 1) \subseteq Rows
    <3>1. 1 .. m - 1 \subseteq 1 .. n
      BY <1>0
    <3> QED BY <1>0, <3>1
  <2>5. s[m - 1] \in Answers /\ Lists(s[m - 1], R(m - 1), since)
    BY <1>11
  <2> HIDE DEF R
  <2>6. s[m] \in Answers /\ Lists(s[m], R(m), since)
    BY <1>0, <2>2, <2>3, <2>4, <2>5, OneMoreListed
  <2> QED BY <2>1, <2>6
<1>12. 0 .. n \subseteq G
  <2> HIDE DEF G
  <2> QED BY <1>0, <1>10, <1>11, Climb
<1>13. n \in G
  <2> HIDE DEF G
  <2> QED BY <1>0, <1>12
<1> HIDE DEF R
<1> QED BY <1>0, <1>1, <1>13

-----------------------------------------------------------------------------
(* The client *)

\* A client's step leaves the node, and so what it shows, alone.
LEMMA NodeStays ==
    ASSUME FeedIInv, UNCHANGED <<frame, node>>
    PROVE  /\ log' = log /\ conf' = conf /\ snapshot' = snapshot /\ numbers' = numbers
           /\ phase' = phase /\ serial' = serial /\ restarts' = restarts
           /\ Events' = Events /\ Shown' = Shown
           /\ NumberedBy(log', numbers') /\ NumberedBy(conf', numbers') /\ NumberedBy(snapshot', numbers')
           /\ SavedAtStart' /\ SnapshotOnTop'
<1>1. /\ log' = log /\ conf' = conf /\ snapshot' = snapshot /\ numbers' = numbers
      /\ phase' = phase /\ serial' = serial /\ restarts' = restarts
  BY DEF frame, node
<1>2. Events' = Events /\ Shown' = Shown
  BY <1>1 DEF Events, Shown, Top, EventsOf
<1>3. SavedAtStart' /\ SnapshotOnTop'
  BY <1>1 DEF FeedIInv, SavedAtStart, SnapshotOnTop, Top, EventsOf
<1> QED BY <1>1, <1>2, <1>3 DEF FeedIInv

\* What a poll is answered.
LEMMA PollKeeps ==
    ASSUME FeedIInv, Poll
    PROVE  FeedIInv'
<1>1. /\ reply' = Answer(cursor) /\ UNCHANGED <<frame, node>> /\ cursor' = cursor /\ got' = got
  BY DEF Poll
<1>2. /\ FeedTypeOK /\ NumberedBy(snapshot, numbers) /\ SnapshotOnTop /\ Settled
      /\ CursorGiven /\ Passed
      /\ snapshot \in Seq(Rows) /\ cursor \in Nat
  BY DEF FeedIInv, FeedTypeOK
<1>3. /\ log' = log /\ conf' = conf /\ snapshot' = snapshot /\ numbers' = numbers
      /\ phase' = phase /\ serial' = serial /\ restarts' = restarts
      /\ Events' = Events /\ Shown' = Shown
      /\ NumberedBy(log', numbers') /\ NumberedBy(conf', numbers') /\ NumberedBy(snapshot', numbers')
      /\ SavedAtStart' /\ SnapshotOnTop'
  BY <1>1, NodeStays
<1>4. reply' \in Answers /\ Lists(reply', RowsOf(snapshot), cursor)
  BY <1>1, <1>2, AnswerLists
<1> DEFINE offered == EventsOf(reply'.rows)
<1>5. ASSUME NEW r \in RowsOf(snapshot)
      PROVE  r.event \in EventsOf(snapshot) /\ r.event \in DOMAIN numbers /\ r.serial = numbers[r.event]
  BY <1>2 DEF RowsOf, EventsOf, NumberedBy
<1>6. offered = {r.event : r \in {q \in RowsOf(snapshot) : q.serial > cursor}}
  <2>1. RowsOf(reply'.rows) = {q \in RowsOf(snapshot) : q.serial > cursor}
    BY <1>4 DEF Lists
  <2>2. offered = {r.event : r \in RowsOf(reply'.rows)}
    BY DEF EventsOf, RowsOf
  <2> QED BY <2>1, <2>2
<1>7. offered = {e \in EventsOf(snapshot) : numbers[e] > cursor}
  <2>1. ASSUME NEW e \in EventsOf(snapshot)
        PROVE  \E r \in RowsOf(snapshot) : r.event = e
    BY DEF EventsOf, RowsOf
  <2> HIDE DEF offered
  <2> QED BY <1>5, <1>6, <2>1
<1>8. NumberedBy(reply'.rows, numbers)
  <2>1. RowsOf(reply'.rows) \subseteq RowsOf(snapshot)
    BY <1>4 DEF Lists
  <2>2. \A i \in DOMAIN reply'.rows : reply'.rows[i] \in RowsOf(reply'.rows)
    BY DEF RowsOf
  <2> QED BY <1>5, <2>1, <2>2 DEF NumberedBy
<1>9. /\ \A r \in offered : numbers[r] <= reply'.last
      /\ reply'.last > cursor => \E r \in offered : numbers[r] = reply'.last
  <2>1. RowsOf(reply'.rows) = {q \in RowsOf(snapshot) : q.serial > cursor}
    BY <1>4 DEF Lists
  <2>2. /\ \A q \in RowsOf(reply'.rows) : q.serial <= reply'.last
        /\ reply'.last > cursor => \E q \in RowsOf(reply'.rows) : q.serial = reply'.last
    BY <1>4 DEF Lists
  <2> HIDE DEF offered
  <2>3. ASSUME NEW r \in offered
        PROVE  numbers[r] <= reply'.last
    <3>1. PICK q \in RowsOf(reply'.rows) : q.event = r
      BY <1>6, <2>1
    <3> QED BY <1>5, <2>1, <2>2, <3>1
  <2>4. ASSUME reply'.last > cursor
        PROVE  \E r \in offered : numbers[r] = reply'.last
    <3>1. PICK q \in RowsOf(reply'.rows) : q.serial = reply'.last
      BY <2>2, <2>4
    <3>2. q.event \in offered /\ numbers[q.event] = reply'.last
      BY <1>5, <1>6, <2>1, <3>1
    <3> QED BY <3>2
  <2> QED BY <2>3, <2>4
<1>10. /\ EventsOf(snapshot) \subseteq Shown /\ Shown \subseteq Events /\ Events \subseteq Nat
       /\ Received \subseteq Events /\ \A e \in Events : numbers[e] \in Nat
  BY ShownAreEvents DEF Shown
<1>11. \A e \in Shown, r \in offered : e <= r => e \in offered \/ numbers[e] <= cursor
  <2> SUFFICES ASSUME NEW e \in Shown, NEW r \in offered, e <= r
               PROVE  e \in offered \/ numbers[e] <= cursor
    OBVIOUS
  <2>1. r \in EventsOf(snapshot)
    BY <1>7
  <2>2. e \in EventsOf(snapshot)
    BY <1>2, <2>1 DEF SnapshotOnTop, Shown
  <2>3. numbers[e] \in Nat
    BY <1>10
  <2> HIDE DEF offered
  <2> QED BY <1>2, <1>7, <2>2, <2>3
<1>12. \A g \in Received, r \in offered : g < r
  <2> SUFFICES ASSUME NEW g \in Received, NEW r \in offered
               PROVE  g < r
    OBVIOUS
  <2>1. r \in Shown /\ r \in Nat /\ g \in Nat /\ numbers[r] \in Nat /\ numbers[r] > cursor
    BY <1>7, <1>10
  <2>2. ~(r <= g)
    BY <1>2, <2>1 DEF Settled
  <2> QED BY <2>1, <2>2
<1>13. AnswerWhole'
  <2>1. \A r \in offered : cursor < numbers[r]
    BY <1>2, <1>7, <1>10
  <2>2. EventsOf(reply.rows)' = offered /\ Received' = Received /\ NumberedBy(reply.rows, numbers)'
    BY <1>1, <1>3, <1>8 DEF EventsOf, Received, NumberedBy
  <2> HIDE DEF offered
  <2> QED BY <1>1, <1>3, <1>9, <1>11, <1>12, <2>1, <2>2 DEF AnswerWhole
<1>14. FeedTypeOK'
  <2>1. got' \in Seq(Events') /\ cursor' \in Nat
    BY <1>1, <1>2, <1>3 DEF FeedTypeOK
  <2>2. reply' \in [rows : Seq(Rows), last : Nat]
    BY <1>4 DEF Answers
  <2> QED BY <1>2, <1>3, <2>1, <2>2 DEF FeedTypeOK
<1>15. CursorGiven' /\ Passed' /\ Settled'
  <2>1. Received' = Received /\ \A e : Fresh(e)' <=> Fresh(e)
    BY <1>1, <1>3 DEF Received, Fresh
  <2> QED BY <1>1, <1>2, <1>3, <2>1 DEF CursorGiven, Passed, Settled
<1> QED BY <1>3, <1>13, <1>14, <1>15 DEF FeedIInv

\* What an answer hands over comes after what came before.
LEMMA HandedOver ==
    ASSUME FeedIInv, Receive
    PROVE  /\ got' \in Seq(Events) /\ Received' = Received \cup EventsOf(reply.rows)
           /\ Len(got) \in Nat
           /\ \A i \in DOMAIN got' : /\ i <= Len(got) => got'[i] \in Received
                                     /\ Len(got) < i => got'[i] \in EventsOf(reply.rows)
<1> DEFINE more == [i \in DOMAIN reply.rows |-> reply.rows[i].event]
<1>1. /\ got \in Seq(Events) /\ reply.rows \in Seq(Rows) /\ EventsOf(reply.rows) \subseteq Events
      /\ got' = got \o more
  <2>1. reply # NoReply
    BY DEF Receive
  <2> QED BY <2>1, ShownAreEvents DEF FeedIInv, FeedTypeOK, Receive
<1>2. more \in Seq(Events) /\ Len(more) = Len(reply.rows) /\ DOMAIN more = DOMAIN reply.rows
      /\ \A i \in DOMAIN more : more[i] \in EventsOf(reply.rows)
  <2>1. \A i \in DOMAIN reply.rows : reply.rows[i].event \in EventsOf(reply.rows)
    BY DEF EventsOf
  <2>2. DOMAIN reply.rows = 1 .. Len(reply.rows) /\ Len(reply.rows) \in Nat
    BY <1>1
  <2> QED BY <1>1, <2>1, <2>2
<1>3. \A e \in EventsOf(reply.rows) : \E i \in DOMAIN more : more[i] = e
  BY DEF EventsOf
<1> HIDE DEF more
<1>4. /\ got \o more \in Seq(Events) /\ Len(got) \in Nat /\ Len(more) \in Nat
      /\ DOMAIN got = 1 .. Len(got) /\ DOMAIN more = 1 .. Len(more)
      /\ DOMAIN (got \o more) = 1 .. Len(got) + Len(more)
      /\ \A i \in 1 .. Len(got) : (got \o more)[i] = got[i]
      /\ \A i \in 1 .. Len(more) : (got \o more)[Len(got) + i] = more[i]
  <2>1. got \in Seq(Events) /\ more \in Seq(Events)
    BY <1>1, <1>2
  <2>2. /\ got \o more \in Seq(Events) /\ Len(got) \in Nat /\ Len(more) \in Nat
        /\ DOMAIN got = 1 .. Len(got) /\ DOMAIN more = 1 .. Len(more)
        /\ Len(got \o more) = Len(got) + Len(more)
    BY <2>1
  <2>3. \A i \in 1 .. Len(got) : (got \o more)[i] = got[i]
    BY <2>1
  <2>4. \A i \in 1 .. Len(more) : (got \o more)[Len(got) + i] = more[i]
    BY <2>1
  <2>5. DOMAIN (got \o more) = 1 .. Len(got) + Len(more)
    BY <2>2
  <2> QED BY <2>2, <2>3, <2>4, <2>5
<1>5. ASSUME NEW i \in DOMAIN got'
      PROVE  /\ i <= Len(got) => got'[i] \in Received
             /\ Len(got) < i => got'[i] \in EventsOf(reply.rows)
  <2>1. i \in 1 .. Len(got) + Len(more)
    BY <1>1, <1>4
  <2>2. ASSUME i <= Len(got)
        PROVE  got'[i] \in Received
    <3>1. i \in 1 .. Len(got)
      BY <1>4, <2>1, <2>2
    <3> QED BY <1>1, <1>4, <3>1 DEF Received
  <2>3. ASSUME Len(got) < i
        PROVE  got'[i] \in EventsOf(reply.rows)
    <3>1. i - Len(got) \in 1 .. Len(more) /\ Len(got) + (i - Len(got)) = i
      BY <1>4, <2>1, <2>3
    <3>2. got'[i] = more[i - Len(got)]
      BY <1>1, <1>4, <3>1
    <3> QED BY <1>2, <1>4, <3>1, <3>2
  <2> QED BY <2>2, <2>3
<1>6. Received' \subseteq Received \cup EventsOf(reply.rows)
  <2> SUFFICES ASSUME NEW i \in DOMAIN got'
               PROVE  got'[i] \in Received \cup EventsOf(reply.rows)
    BY DEF Received
  <2>1. i <= Len(got) \/ Len(got) < i
    BY <1>1, <1>4
  <2> QED BY <1>5, <2>1
<1>7. Received \subseteq Received'
  <2> SUFFICES ASSUME NEW i \in DOMAIN got
               PROVE  got[i] \in Received'
    BY DEF Received
  <2>1. i \in 1 .. Len(got) /\ i \in DOMAIN (got \o more)
    BY <1>4
  <2> QED BY <1>1, <1>4, <2>1 DEF Received
<1>8. EventsOf(reply.rows) \subseteq Received'
  <2> SUFFICES ASSUME NEW i \in DOMAIN more
               PROVE  more[i] \in Received'
    BY <1>3
  <2>1. i \in 1 .. Len(more) /\ Len(got) + i \in DOMAIN (got \o more)
    BY <1>4
  <2> QED BY <1>1, <1>4, <2>1 DEF Received
<1> QED BY <1>1, <1>4, <1>5, <1>6, <1>7, <1>8

LEMMA ReceiveKeeps ==
    ASSUME FeedIInv, Receive
    PROVE  FeedIInv'
<1> DEFINE offered == EventsOf(reply.rows)
<1>1. /\ reply # NoReply /\ reply' = NoReply /\ cursor' = Later(reply.last, cursor)
      /\ UNCHANGED <<frame, node>>
  BY DEF Receive
<1>2. /\ FeedTypeOK /\ AnswerWhole /\ CursorGiven /\ Passed /\ Settled
  BY <1>1 DEF FeedIInv
<1>3. /\ log' = log /\ conf' = conf /\ snapshot' = snapshot /\ numbers' = numbers
      /\ phase' = phase /\ serial' = serial /\ restarts' = restarts
      /\ Events' = Events /\ Shown' = Shown
      /\ NumberedBy(log', numbers') /\ NumberedBy(conf', numbers') /\ NumberedBy(snapshot', numbers')
      /\ SavedAtStart' /\ SnapshotOnTop'
  BY <1>1, NodeStays
<1>4. got' \in Seq(Events) /\ Received' = Received \cup offered
  BY HandedOver
<1>5. /\ Shown \subseteq Events /\ Received \subseteq Events /\ offered \subseteq Events
      /\ Events \subseteq Nat /\ \A e \in Events : numbers[e] \in Nat
      /\ cursor \in Nat /\ reply.last \in Nat
  BY <1>1, ShownAreEvents
<1>6. /\ \A r \in offered : cursor < numbers[r] /\ numbers[r] <= reply.last
      /\ reply.last > cursor => \E r \in offered : numbers[r] = reply.last
      /\ \A e \in Shown, r \in offered : e <= r => e \in offered \/ numbers[e] <= cursor
  BY <1>2 DEF AnswerWhole
<1> HIDE DEF offered
<1>7. /\ cursor' \in Nat /\ cursor <= cursor' /\ reply.last <= cursor'
      /\ cursor' = cursor \/ (reply.last > cursor /\ cursor' = reply.last)
  <2>0. cursor \in Nat /\ reply.last \in Nat
    BY <1>5
  <2>1. CASE reply.last > cursor
    BY <1>1, <2>0, <2>1 DEF Later
  <2>2. CASE ~(reply.last > cursor)
    <3>1. cursor' = cursor
      BY <1>1, <2>2 DEF Later
    <3>2. reply.last <= cursor
      BY <2>0, <2>2
    <3> QED BY <2>0, <3>1, <3>2
  <2> QED BY <2>1, <2>2
<1>8. FeedTypeOK'
  <2>1. got' \in Seq(Events')
    BY <1>3, <1>4
  <2> QED BY <1>1, <1>2, <1>3, <1>7, <2>1 DEF FeedTypeOK
<1>9. CursorGiven'
  <2>1. cursor' > 0 => \E d \in Events : cursor' <= numbers[d]
    <3>1. CASE cursor' = cursor
      BY <1>2, <3>1 DEF CursorGiven
    <3>2. CASE reply.last > cursor /\ cursor' = reply.last
      <4>1. PICK r \in offered : numbers[r] = reply.last
        BY <1>6, <3>2
      <4> QED BY <1>5, <3>2, <4>1
    <3> QED BY <1>7, <3>1, <3>2
  <2> QED BY <1>3, <2>1 DEF CursorGiven
<1>10. ASSUME NEW e \in Shown, Fresh(e), numbers[e] <= cursor'
       PROVE  e \in Received \cup offered
  <2>1. e \in Nat /\ numbers[e] \in Nat
    BY <1>5
  <2>2. CASE numbers[e] <= cursor
    BY <1>2, <1>10, <2>2 DEF Passed
  <2>3. CASE ~(numbers[e] <= cursor)
    <3>1. reply.last > cursor /\ cursor' = reply.last
      BY <1>7, <1>10, <2>3
    <3>2. PICK r \in offered : numbers[r] = reply.last
      BY <1>6, <3>1
    <3>3. r \in Events /\ r \in Nat /\ numbers[e] <= numbers[r] /\ numbers[r] \in Nat
      BY <1>5, <1>10, <3>1, <3>2
    <3>4. ~(r < e)
      BY <1>10, <2>1, <3>3 DEF Fresh
    <3> QED BY <1>6, <2>1, <2>3, <3>3, <3>4
  <2> QED BY <2>2, <2>3
<1>11. Passed'
  <2>1. \A e : Fresh(e)' <=> Fresh(e)
    BY <1>3 DEF Fresh
  <2> QED BY <1>3, <1>4, <1>10, <2>1 DEF Passed
<1>12. ASSUME NEW e \in Shown, NEW g \in Received \cup offered, e <= g
       PROVE  numbers[e] <= cursor'
  <2>1. e \in Nat /\ numbers[e] \in Nat
    BY <1>5
  <2>2. CASE g \in Received
    <3>1. numbers[e] <= cursor
      BY <1>2, <1>12, <2>2 DEF Settled
    <3> QED BY <1>5, <1>7, <2>1, <3>1
  <2>3. CASE g \in offered
    <3>1. e \in offered \/ numbers[e] <= cursor
      BY <1>6, <1>12, <2>3
    <3>2. numbers[e] <= reply.last \/ numbers[e] <= cursor
      BY <1>6, <3>1
    <3> QED BY <1>5, <1>7, <2>1, <3>2
  <2> QED BY <2>2, <2>3
<1>13. Settled'
  BY <1>3, <1>4, <1>12 DEF Settled
<1> QED BY <1>1, <1>3, <1>8, <1>9, <1>11, <1>13 DEF FeedIInv

\* An answer lost, and a client that starts anew.
LEMMA NoAnswerKeeps ==
    ASSUME FeedIInv, ReplyLost \/ RestartClient
    PROVE  FeedIInv'
<1>1. /\ reply' = NoReply /\ UNCHANGED <<frame, node>>
      /\ \/ cursor' = cursor /\ got' = got
         \/ cursor' = 0 /\ got' = <<>>
  BY DEF ReplyLost, RestartClient
<1>2. /\ FeedTypeOK /\ CursorGiven /\ Passed /\ Settled
  BY DEF FeedIInv
<1>3. /\ log' = log /\ conf' = conf /\ snapshot' = snapshot /\ numbers' = numbers
      /\ phase' = phase /\ serial' = serial /\ restarts' = restarts
      /\ Events' = Events /\ Shown' = Shown
      /\ NumberedBy(log', numbers') /\ NumberedBy(conf', numbers') /\ NumberedBy(snapshot', numbers')
      /\ SavedAtStart' /\ SnapshotOnTop'
  BY <1>1, NodeStays
<1>4. Shown \subseteq Events /\ \A e \in Events : numbers[e] \in Nat \ {0}
  BY ShownAreEvents
<1>5. FeedTypeOK'
  <2>1. got' \in Seq(Events') /\ cursor' \in Nat
    <3>1. got \in Seq(Events) /\ cursor \in Nat /\ <<>> \in Seq(Events) /\ 0 \in Nat
      BY <1>2 DEF FeedTypeOK
    <3>2. got' \in Seq(Events) /\ cursor' \in Nat
      BY <1>1, <3>1
    <3> QED BY <1>3, <3>2
  <2> QED BY <1>1, <1>2, <1>3, <2>1 DEF FeedTypeOK
<1>6. CursorGiven' /\ Passed' /\ Settled'
  <2>1. \A e : Fresh(e)' <=> Fresh(e)
    BY <1>3 DEF Fresh
  <2>2. CASE cursor' = cursor /\ got' = got
    BY <1>2, <1>3, <2>1, <2>2 DEF CursorGiven, Passed, Settled, Received
  <2>3. CASE cursor' = 0 /\ got' = <<>>
    <3>1. Received' = {} /\ ~(cursor' > 0) /\ \A e \in Shown : ~(numbers[e] <= cursor')
      BY <1>4, <2>3 DEF Received
    <3> QED BY <1>3, <3>1 DEF CursorGiven, Passed, Settled
  <2> QED BY <1>1, <2>2, <2>3
<1> QED BY <1>1, <1>3, <1>5, <1>6 DEF FeedIInv

LEMMA InitFeed == FeedInit => FeedIInv
<1> SUFFICES ASSUME FeedInit
             PROVE  FeedIInv
  OBVIOUS
<1>1. /\ phase = "decode" /\ conf = <<>> /\ log = <<>> /\ serial = 0 /\ snapshot = <<>>
      /\ numbers = <<>> /\ restarts = 0 /\ cursor = 0 /\ reply = NoReply /\ got = <<>>
  BY DEF FeedInit
<1>2. FeedTypeOK
  BY <1>1 DEF FeedTypeOK
<1>3. Shown = {} /\ Top(log) = {} /\ Top(conf) = {}
  BY <1>1 DEF Shown, Top, EventsOf
<1> QED BY <1>1, <1>2, <1>3
        DEF FeedIInv, NumberedBy, SavedAtStart, CursorGiven, SnapshotOnTop, Passed, Settled

LEMMA NextFeed ==
    ASSUME FeedIInv, [FeedNext]_feedVars
    PROVE  FeedIInv'
<1>0. FeedTypeOK
  BY DEF FeedIInv
<1>1. CASE Decode \/ Mirror \/ Hit \/ Manual
  <2>1. Add /\ conf' \in {conf, log'} /\ phase' \in {"decode", "mirror", "hits"}
        /\ (phase' = "decode" => conf' = log')
    BY <1>1 DEF Decode, Mirror, Hit, Manual, Save
  <2> QED BY <2>1, NewRowKeeps
<1>2. CASE Clear \/ NextFrame \/ RestartNode
  <2>1. /\ log' \in {log, conf, <<>>} /\ conf' \in {conf, <<>>} /\ snapshot' \in {snapshot, <<>>}
        /\ UNCHANGED <<numbers, client>>
        /\ phase' \in {"decode", "mirror", "hits"} /\ (phase' = "decode" => log' = conf')
    <3>1. CASE Clear
      BY <3>1 DEF Clear, Save
    <3>2. CASE NextFrame
      BY <3>2 DEF NextFrame, node
    <3>3. CASE RestartNode
      BY <3>3 DEF RestartNode
    <3> QED BY <1>2, <3>1, <3>2, <3>3
  <2>2. serial' \in Nat /\ restarts' \in Nat
    <3>1. serial \in Nat /\ restarts \in Nat
      BY <1>0 DEF FeedTypeOK
    <3>2. CASE Clear \/ NextFrame
      BY <3>1, <3>2 DEF Clear, NextFrame, node
    <3>3. CASE RestartNode
      BY <3>1, <3>3 DEF RestartNode
    <3> QED BY <1>2, <3>2, <3>3
  <2> QED BY <2>1, <2>2, OldRowsKeep
<1>3. CASE Refresh
  BY <1>3, RefreshKeeps
<1>4. CASE Poll
  BY <1>4, PollKeeps
<1>5. CASE Receive
  BY <1>5, ReceiveKeeps
<1>6. CASE ReplyLost \/ RestartClient
  BY <1>6, NoAnswerKeeps
<1>7. CASE UNCHANGED feedVars
  BY <1>7 DEF feedVars, frame, node, client, FeedIInv, FeedTypeOK, NumberedBy, SavedAtStart, CursorGiven,
              SnapshotOnTop, Passed, Settled, AnswerWhole, Top, EventsOf, Shown, Events, Received, Fresh
<1> QED BY <1>1, <1>2, <1>3, <1>4, <1>5, <1>6, <1>7 DEF FeedNext, FrameGoesOn

(***************************************************************************)
(* The cursor of KujhadClient passes no row by, for every length of the    *)
(* log and the snapshot, and however often node and client restart.        *)
(***************************************************************************)
THEOREM NothingIsSkipped ==
    FeedSpec => []NothingSkipped
<1>1. FeedIInv /\ [FeedNext]_feedVars => FeedIInv'
  BY NextFeed
<1>2. FeedIInv => NothingSkipped
  <2> SUFFICES ASSUME FeedIInv
               PROVE  NothingSkipped
    OBVIOUS
  <2>1. FeedTypeOK /\ Passed
    BY DEF FeedIInv
  <2>2. \A e : Within(e, snapshot) => e \in Shown
    BY DEF Within, Shown, EventsOf
  <2> QED BY <2>1, <2>2 DEF NothingSkipped, Passed
<1> QED BY <1>1, <1>2, InitFeed, PTL DEF FeedSpec

(***************************************************************************)
(* What a reply of the device server brings is newer than all that its     *)
(* reader had: lost replies are asked for again, and no row comes twice.   *)
(***************************************************************************)
THEOREM RepliesGoOn ==
    FeedSpec => RepliesAdvance
<1>1. FeedIInv /\ [FeedNext]_feedVars => FeedIInv'
  BY NextFeed
<1>2. FeedIInv /\ [FeedNext]_feedVars =>
          [Receive => \A i, j \in DOMAIN got' : i <= Len(got) /\ Len(got) < j => got'[i] < got'[j]]_feedVars
  <2> SUFFICES ASSUME FeedIInv, Receive, NEW i \in DOMAIN got', NEW j \in DOMAIN got',
                      i <= Len(got), Len(got) < j
               PROVE  got'[i] < got'[j]
    OBVIOUS
  <2>1. got'[i] \in Received /\ got'[j] \in EventsOf(reply.rows)
    BY HandedOver
  <2>2. \A g \in Received, r \in EventsOf(reply.rows) : g < r
    BY DEF FeedIInv, AnswerWhole, Receive
  <2> QED BY <2>1, <2>2
<1> QED BY <1>1, <1>2, InitFeed, PTL DEF FeedSpec, RepliesAdvance

=============================================================================
