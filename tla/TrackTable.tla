------------------------------ MODULE TrackTable ------------------------------
(***************************************************************************)
(* The fused emitter tracks of a backend: association of events through    *)
(* the frequency index (fusion/track_associator.py), the life of a track   *)
(* and the merge of duplicates (fusion/track_manager.py), deduplication    *)
(* across stations (fusion/cross_station_dedup.py), and what the store     *)
(* gives back after a restart (main.py).                                   *)
(*                                                                         *)
(* Each of these runs without an await on one asyncio loop, so each is an  *)
(* action.  Events carry their node's timestamp: they arrive late and out  *)
(* of order.  Scores are left to choice where power, trust or location     *)
(* decide, and of a track's state only LOST matters here.  The row that    *)
(* follows an event is taken as written at once: rows that are late,       *)
(* overtaken or lost are the subject of OperatorRecords.                   *)
(***************************************************************************)
EXTENDS Integers, Sequences, FiniteSets, SequencesExt, FiniteSetsExt, Functions

CONSTANTS
    Freqs,              \* frequencies an event may have
    BucketWidth,        \* _BUCKET_HZ
    Tolerance,          \* merge_duplicates' freq_tolerance_hz
    MergeWindow,        \* merge_duplicates' time_window_s
    CorrWindow,         \* CrossStationDedup.corr_window_s
    SureWithin,         \* age up to which an equal frequency always matches
    Local, Peers,       \* origins: this station's fleet and upstream stations
    LoseAfter, ArchiveAfter,    \* ages, _age_tracks
    Lateness,           \* bound: how late an event arrives
    MaxTracks,          \* bound: tracks created in a behaviour
    MaxHeard,           \* bound: events in a behaviour
    MaxTime             \* bound: the clock

ASSUME TrackAssumption ==
    /\ Freqs \subseteq Nat
    /\ Local \notin Peers
    /\ {BucketWidth, Tolerance, MergeWindow, MaxTracks, MaxHeard} \subseteq Nat \ {0}
    /\ {CorrWindow, SureWithin, LoseAfter, ArchiveAfter, Lateness, MaxTime} \subseteq Nat

Ids     == 1 .. MaxTracks       \* emitter ids, numbered as tracks are created
Origins == {Local} \cup Peers   \* Local also is upstream_source None of a mixed track

VARIABLES
    now,        \* time.time_ns(), in ticks
    tracks,     \* TrackManager.tracks: id -> record
    order,      \* its keys in insertion order
    index,      \* HardwareAwareAssociator._freq_index: pairs of bucket and id
    archived,   \* observations of the tracks in _archived
    born,       \* tracks created so far
    rows,       \* the store's rows of tracks: id -> record
    heard       \* events ingested so far

vars == <<now, tracks, order, index, archived, born, rows, heard>>

Live      == DOMAIN tracks
Bucket(f) == f \div BucketWidth

Init ==
    /\ now = 0
    /\ tracks = <<>>
    /\ order = <<>>
    /\ index = {}
    /\ archived = 0
    /\ born = 0
    /\ rows = <<>>
    /\ heard = 0

-----------------------------------------------------------------------------
(* Ingest *)

\* Live tracks indexed in the bucket of f or next to it.
Candidates(f) ==
    {t \in Live : \E b \in Bucket(f) - 1 .. Bucket(f) + 1 : <<b, t>> \in index}

\* Frequency and time alone reach MATCH_THRESHOLD.
SureMatch(t, f, ts) == tracks[t].freq = f /\ ts - tracks[t].last <= SureWithin

\* Heard from more than one origin: the track counts as local.
OriginAfter(t, from) == IF tracks[t].origin = from THEN from ELSE Local

Updated(t, f, ts, from) ==
    [tracks[t] EXCEPT !.freq = f, !.last = ts, !.count = @ + 1,
                      !.origin = OriginAfter(t, from)]

NewTrack(f, ts, from) ==
    [freq |-> f, first |-> ts, last |-> ts, count |-> 1, lost |-> FALSE,
     origin |-> from]

\* record_track
Saved(t, r) == rows' = [i \in DOMAIN rows \cup {t} |-> IF i = t THEN r ELSE rows[i]]

Associate(t, f, ts, from) ==
    /\ heard < MaxHeard
    /\ t \in Candidates(f)
    /\ tracks' = [tracks EXCEPT ![t] = Updated(t, f, ts, from)]
    /\ Saved(t, tracks'[t])
    /\ heard' = heard + 1
    /\ UNCHANGED <<now, order, index, archived, born>>

Create(f, ts, from) ==
    LET t == born + 1
    IN  /\ heard < MaxHeard
        /\ t \in Ids
        /\ \A c \in Candidates(f) : ~SureMatch(c, f, ts)
        /\ tracks' = [i \in Live \cup {t} |-> IF i = t THEN NewTrack(f, ts, from) ELSE tracks[i]]
        /\ order' = Append(order, t)
        /\ index' = index \cup {<<Bucket(f), t>>}
        /\ born' = t
        /\ Saved(t, tracks'[t])
        /\ heard' = heard + 1
        /\ UNCHANGED <<now, archived>>

-----------------------------------------------------------------------------
(* Ageing *)

Age(t) == now - tracks[t].last

Retired(t) == Age(t) > ArchiveAfter

\* A lost track stays lost, also when it is heard again.
LostByAge(t) == tracks[t].lost \/ Age(t) > LoseAfter

\* The insertion orders of what is left of the dictionary: one of them.
Place(t)      == CHOOSE k \in DOMAIN order : order[k] = t
Without(gone) == {o \in SetToSeqs(Live \ gone) :
                      \A k, l \in DOMAIN o : k < l => Place(o[k]) < Place(o[l])}

\* A sum over all ids, and the observations of some tracks.
SumOfIds(c) ==
    LET s[n \in 0 .. MaxTracks] == IF n = 0 THEN 0 ELSE s[n - 1] + c[n]
    IN  s[MaxTracks]

CountsOf(ts)       == [t \in Ids |-> IF t \in ts THEN tracks[t].count ELSE 0]
Observations(ts)   == SumOfIds(CountsOf(ts))

\* The entry in the bucket of its present frequency.
EntryOf(t) == <<Bucket(tracks[t].freq), t>>

AgeTracks ==
    LET gone == {t \in Live : Retired(t)}
    IN  /\ tracks' = [t \in Live \ gone |-> [tracks[t] EXCEPT !.lost = LostByAge(t)]]
        /\ order' \in Without(gone)
        /\ index' = index \ {EntryOf(t) : t \in gone}
        /\ archived' = archived + Observations(gone)
        /\ UNCHANGED <<now, born, rows, heard>>

-----------------------------------------------------------------------------
(* Merging.  A pass holds on to the objects of tracks it has removed.      *)

Apart(x, y) == IF x <= y THEN y - x ELSE x - y

Duplicates(a, b) ==
    /\ Apart(a.freq, b.freq) < Tolerance
    /\ Apart(a.last, b.last) < MergeWindow

\* Mutant: only the track removed last is known to be removed.
UniteForgetful(pass, i, j) ==
    [obj |-> [pass.obj EXCEPT ![i].count = @ + pass.obj[j].count],
     gone |-> {j}]

\* Fold the observations of the object of j into the object of i.
Unite(pass, i, j) ==
    [obj |-> [pass.obj EXCEPT ![i].count = @ + pass.obj[j].count],
     gone |-> pass.gone \cup {j}]

\* Mutant: the younger one is kept.
UniteDuplicatesYoung(pass, i, j) ==
    IF pass.obj[i].first >= pass.obj[j].first THEN Unite(pass, i, j) ELSE Unite(pass, j, i)

UniteDuplicates(pass, i, j) ==
    IF pass.obj[i].first <= pass.obj[j].first THEN Unite(pass, i, j) ELSE Unite(pass, j, i)

\* All pairs of seq in order, as two nested loops; the outer one skips removed
\* tracks.
Row(seq, k, pass, Compare(_, _, _)) ==
    LET w[l \in 0 .. Len(seq)] ==
            IF l <= k THEN pass ELSE Compare(w[l - 1], seq[k], seq[l])
    IN  w[Len(seq)]

Pairwise(seq, Compare(_, _, _)) ==
    LET p[k \in 0 .. Len(seq)] ==
            IF k = 0 THEN [obj |-> tracks, gone |-> {}]
            ELSE LET pass == p[k - 1]
                 IN  IF seq[k] \in pass.gone THEN pass ELSE Row(seq, k, pass, Compare)
    IN  p[Len(seq)]

CompareDuplicates(pass, i, j) ==
    IF j \in pass.gone \/ ~Duplicates(pass.obj[i], pass.obj[j]) THEN pass
    ELSE UniteDuplicates(pass, i, j)

Merged == Pairwise(order, CompareDuplicates)

MergeDuplicates ==
    LET pass == Merged
    IN  /\ pass.gone # {}
        /\ tracks' = Restrict(pass.obj, Live \ pass.gone)
        /\ order' \in Without(pass.gone)
        /\ index' = index \ {EntryOf(t) : t \in pass.gone}
        /\ UNCHANGED <<now, archived, born, rows, heard>>

\* Mutant: tracks of one origin count as well.
CrossStationAny(a, b) == TRUE

CrossStation(a, b) == a.origin # b.origin

CoOccur(a, b) ==
    \/ Apart(a.last, b.last) <= CorrWindow
    \/ now - a.last <= CorrWindow
    \/ now - b.last <= CorrWindow

UniteStations(pass, i, j) ==
    LET united == Unite(pass, i, j)
        latest == IF pass.obj[i].last < pass.obj[j].last THEN pass.obj[j].last
                                                         ELSE pass.obj[i].last
    IN  [united EXCEPT !.obj[i].last = latest]

\* Location, modulation or protocol corroborate the pairs in alike.
Similar(a, b) == Apart(a.freq, b.freq) <= Tolerance /\ CoOccur(a, b)

CompareStations(alike, pass, i, j) ==
    IF \/ j \in pass.gone
       \/ {i, j} \notin alike
       \/ ~CrossStation(pass.obj[i], pass.obj[j])
       \/ ~Similar(pass.obj[i], pass.obj[j])
    THEN pass ELSE UniteStations(pass, i, j)

\* Oldest first; equal ages in the order of the table.
Sorted(o) ==
    \A k, l \in DOMAIN o : k < l =>
        \/ tracks[o[k]].first < tracks[o[l]].first
        \/ tracks[o[k]].first = tracks[o[l]].first /\ Place(o[k]) < Place(o[l])

Deduplicated(alike, o) ==
    Pairwise(o, LAMBDA pass, i, j : CompareStations(alike, pass, i, j))

\* The index and the elector are not told.
Deduplicate(alike) ==
    \E o \in SetToSeqs(Live) :
        LET pass == Deduplicated(alike, o)
        IN  /\ Sorted(o)
            /\ pass.gone # {}
            /\ tracks' = Restrict(pass.obj, Live \ pass.gone)
            /\ order' \in Without(pass.gone)
            /\ UNCHANGED <<now, index, archived, born, rows, heard>>

-----------------------------------------------------------------------------
(* Time and restarts *)

Tick ==
    /\ now < MaxTime
    /\ now' = now + 1
    /\ UNCHANGED <<tracks, order, index, archived, born, rows, heard>>

Replayed == {t \in DOMAIN rows : now - rows[t].last <= ArchiveAfter /\ ~rows[t].lost}

\* Mutant: the tracks come back without their index entries.
ReindexedNever(back) == {}

Reindexed(back) == {<<Bucket(rows[t].freq), t>> : t \in back}

\* Rows come back the last seen first, and without their upstream_source.
Restart ==
    /\ \E o \in SetToSeqs(Replayed) :
          /\ \A k, l \in DOMAIN o : k < l => rows[o[k]].last >= rows[o[l]].last
          /\ order' = o
    /\ tracks' = [t \in Replayed |-> [rows[t] EXCEPT !.origin = Local]]
    /\ index' = Reindexed(Replayed)
    /\ archived' = 0
    /\ UNCHANGED <<now, born, rows, heard>>

-----------------------------------------------------------------------------
Event ==
    \E f \in Freqs, ts \in now - Lateness .. now, from \in Origins :
        \/ Create(f, ts, from)
        \/ \E t \in Live : Associate(t, f, ts, from)

Next ==
    \/ Event
    \/ AgeTracks
    \/ MergeDuplicates
    \/ \E alike \in SUBSET kSubset(2, Live) : Deduplicate(alike)
    \/ Tick
    \/ Restart

Spec == Init /\ [][Next]_vars

-----------------------------------------------------------------------------
(* Properties *)

Track == [freq : Freqs, first : Int, last : Int, count : Nat \ {0},
          lost : BOOLEAN, origin : Origins]

TypeOK ==
    /\ now \in 0 .. MaxTime
    /\ Live \subseteq 1 .. born /\ born \in 0 .. MaxTracks
    /\ tracks \in [Live -> Track]
    /\ order \in Seq(Ids) /\ IsInjective(order) /\ Range(order) = Live
    /\ index \subseteq Nat \X (1 .. born)
    /\ archived \in Nat /\ heard \in Nat
    /\ DOMAIN rows \subseteq 1 .. born /\ rows \in [DOMAIN rows -> Track]

(***************************************************************************)
(* An emitter heard again where it was last heard finds its track, though  *)
(* updates move the track's frequency and never the index: a track never   *)
(* strays further than a bucket from where it is indexed, also after       *)
(* merges and a restart ("the very next event for a known emitter          *)
(* associates with the prior track", main.py:745-750).                     *)
(***************************************************************************)
FoundWhereHeard == TypeOK /\ \A t \in Live : t \in Candidates(tracks[t].freq)

Total == archived + Observations(Live)

OldestFirst ==
    \A k, l \in DOMAIN order : k < l => tracks[order[k]].first <= tracks[order[l]].first

(***************************************************************************)
(* Every observation is counted in one track: every event adds one, and    *)
(* ageing, deduplication and a merge pass that meets the tracks oldest     *)
(* first add and lose none.  (A merge pass need not meet them so: events   *)
(* come late, and a restart puts the last seen first.  merge_duplicates    *)
(* then goes on with a track it has removed, and loses or doubles what was *)
(* counted.)                                                               *)
(***************************************************************************)
BooksBalance ==
    [][ \/ Total' - Total = heard' - heard
        \/ MergeDuplicates /\ ~OldestFirst
        \/ Restart ]_vars

(***************************************************************************)
(* One merge pass is enough, in whatever order it meets the tracks: no two *)
(* tracks are left that it would merge.                                    *)
(***************************************************************************)
MergeIsComplete ==
    [][MergeDuplicates => \A s, t \in Live' : s # t => ~Duplicates(tracks'[s], tracks'[t])]_vars

\* A pair that deduplication may unite: t goes into the older k, which another
\* station heard on nearly the same frequency.
FoldsInto(t, k, alike) ==
    /\ {t, k} \in alike
    /\ tracks[k].origin # tracks[t].origin
    /\ tracks[k].first <= tracks[t].first
    /\ Apart(tracks[k].freq, tracks[t].freq) <= Tolerance

(***************************************************************************)
(* Deduplication unites pairs, not chains: whatever a pass removes goes    *)
(* whole into one track that stays, and that one itself corroborates it,   *)
(* is older and was heard by another station; a track that stays counts    *)
(* its own observations and those of the tracks that went into it.         *)
(*                                                                         *)
(* It is a statement on pairs only.  Two tracks that the local fleet alone *)
(* heard may both go into one older track of a peer, whose upstream_source *)
(* the merge leaves as it is (cross_station_dedup.py:92-109, 120-130), and *)
(* share a track then, though "two purely-local tracks" are never compared *)
(* with each other.                                                        *)
(***************************************************************************)
FoldedAcross ==
    [][\A alike \in SUBSET kSubset(2, Live) : Deduplicate(alike) =>
          \E into \in [Live -> Live'] :
             /\ \A k \in Live' :
                   /\ into[k] = k
                   /\ tracks'[k].count = Observations({t \in Live : into[t] = k})
             /\ \A t \in Live \ Live' : FoldsInto(t, into[t], alike)]_vars

=============================================================================
