---------------------------- MODULE OperatorRecords ----------------------------
(***************************************************************************)
(* What operators entrust to a backend: missions (operator/missions.py)    *)
(* and overrides (operator/overrides.py), kept in memory and written       *)
(* through to the store (persistence/store.py), from which a restart       *)
(* brings them back.                                                       *)
(*                                                                         *)
(* A call changes memory on the asyncio loop and then awaits its write,    *)
(* which runs in a thread: writes of several calls reach the store in any  *)
(* order.  A write may fail; the store logs that and the call succeeds all *)
(* the same.  Only the start of a mission awaits a write, the end of its   *)
(* predecessor, while it holds the registry's lock.                        *)
(***************************************************************************)
EXTENDS Integers, FiniteSets

CONSTANTS
    Marks,          \* overrides of an emitter: friendly marks, manual locations
    Labels,         \* what such an override says
    Ranges,         \* blacklisted frequency ranges
    Operators,      \* who starts missions
    NoMission,
    MaxMissions,    \* bound: missions started
    MaxInFlight     \* bound: writes under way at a time

ASSUME RecordsAssumption ==
    /\ {MaxMissions, MaxInFlight} \subseteq Nat \ {0}
    /\ NoMission \notin Nat
    /\ "none" \notin Labels

\* Records, each a row of the store: missions numbered as they are started,
\* overrides by what they are about.
Missions == 1 .. MaxMissions
Mission(m) == <<"mission", m>>
Mark(x)    == <<"mark", x>>
Block(r)   == <<"blacklist", r>>
Records == {Mission(m) : m \in Missions} \cup {Mark(x) : x \in Marks} \cup {Block(r) : r \in Ranges}
Values  == {"none", "active", "ended", "listed"} \cup Labels

VARIABLES
    memory,     \* record -> its value in the registries, "none" if absent
    rows,       \* record -> its value in the store
    active,     \* MissionRegistry._active
    resumed,    \* missions whose rows were active at the last start
    starting,   \* operators whose start ended a mission, with that mission
    writes,     \* writes under way: each the values it will give to some records
    unsure      \* records whose last write overlapped another one or failed

vars == <<memory, rows, active, resumed, starting, writes, unsure>>

None == [r \in Records |-> "none"]

Init ==
    /\ memory = None
    /\ rows = None
    /\ active = NoMission
    /\ resumed = {}
    /\ starting = {}
    /\ writes = {}
    /\ unsure = {}

-----------------------------------------------------------------------------
(* Writing through *)

Pending == UNION {DOMAIN w : w \in writes}

Put(S, v) == [r \in S |-> v]

\* A call hands a write to a thread.
Issue(w) ==
    /\ Cardinality(writes) < MaxInFlight
    /\ writes' = writes \cup {w}
    /\ unsure' = (unsure \ DOMAIN w) \cup (DOMAIN w \cap Pending)

Remember(w) == memory' = [r \in Records |-> IF r \in DOMAIN w THEN w[r] ELSE memory[r]]

\* The thread gets the store's lock and writes; the call resumes and returns.
Written(w) ==
    /\ w \in writes
    /\ rows' = [r \in Records |-> IF r \in DOMAIN w THEN w[r] ELSE rows[r]]
    /\ writes' = writes \ {w}
    /\ UNCHANGED unsure

\* An exception that the store swallows.
WriteFails(w) ==
    /\ w \in writes
    /\ writes' = writes \ {w}
    /\ unsure' = unsure \cup DOMAIN w
    /\ UNCHANGED rows

-----------------------------------------------------------------------------
(* Missions *)

\* Mutant: the lock is released before the predecessor's write.
LockFreeAlways == TRUE

\* A start keeps the lock while it awaits the write of its predecessor.
LockFree == starting = {}

Oldest(m, S) == m \in S /\ \A n \in S : m <= n

NewMissions == {m \in Missions : memory[Mission(m)] = "none" /\ rows[Mission(m)] = "none"}

Create(m) ==
    /\ Oldest(m, NewMissions)
    /\ active' = m
    /\ Remember(Put({Mission(m)}, "active"))
    /\ Issue(Put({Mission(m)}, "active"))

\* start() with no mission active.
Start ==
    /\ LockFree
    /\ active = NoMission
    /\ \E m \in NewMissions : Create(m)
    /\ UNCHANGED <<rows, resumed, starting>>

\* start() while a mission is active ends that one first ...
AutoEnd(o) ==
    /\ LockFree
    /\ active # NoMission
    /\ NewMissions # {}
    /\ Remember(Put({Mission(active)}, "ended"))
    /\ Issue(Put({Mission(active)}, "ended"))
    /\ starting' = starting \cup {<<o, active>>}
    /\ UNCHANGED <<rows, active, resumed>>

\* ... and goes on when that write is done, or has failed: an older one of the
\* same mission may still be under way.
StartNext(o) ==
    /\ \E ended \in Missions : /\ <<o, ended>> \in starting
                               /\ Put({Mission(ended)}, "ended") \notin writes
                               /\ starting' = starting \ {<<o, ended>>}
    /\ \E m \in NewMissions : Create(m)
    /\ UNCHANGED <<rows, resumed>>

\* Mutant: the row is made before the mission is ended.
EndRowEarly(m) == Put({Mission(m)}, memory[Mission(m)])

EndRow(m) == Put({Mission(m)}, "ended")

\* end(), of the active mission or of one that is named.
End(m) ==
    /\ LockFree
    /\ memory[Mission(m)] = "active"
    /\ Remember(Put({Mission(m)}, "ended"))
    /\ active' = IF active = m THEN NoMission ELSE active
    /\ Issue(EndRow(m))
    /\ UNCHANGED <<rows, resumed, starting>>

-----------------------------------------------------------------------------
(* Overrides *)

\* Memory and store get the same.
WriteThrough(w) ==
    /\ Remember(w)
    /\ Issue(w)
    /\ UNCHANGED <<rows, active, resumed, starting>>

\* add_friendly, set_manual_location
SetMark(x, label) == WriteThrough(Put({Mark(x)}, label))

\* remove_friendly, clear_manual_location
RemoveMark(x) == memory[Mark(x)] # "none" /\ WriteThrough(Put({Mark(x)}, "none"))

AddBlacklist(r) == WriteThrough(Put({Block(r)}, "listed"))

ClearBlacklist == WriteThrough(Put({Block(r) : r \in Ranges}, "none"))

-----------------------------------------------------------------------------
(* Restart *)

ActiveRows == {m \in Missions : rows[Mission(m)] = "active"}

\* Mutant: rows of ended missions come back as active.
RehydratedActive(r) == IF rows[r] = "ended" THEN "active" ELSE rows[r]

Rehydrated(r) == rows[r]

\* The newest row is read first, so the oldest active one stays in _active.
\* Writes that were under way are lost.
Restart ==
    /\ memory' = [r \in Records |-> Rehydrated(r)]
    /\ \/ ActiveRows = {} /\ active' = NoMission
       \/ \E m \in Missions : Oldest(m, ActiveRows) /\ active' = m
    /\ resumed' = ActiveRows
    /\ starting' = {}
    /\ writes' = {}
    /\ unsure' = {}
    /\ UNCHANGED rows

-----------------------------------------------------------------------------
Next ==
    \/ \E w \in writes : /\ Written(w) \/ WriteFails(w)
                         /\ UNCHANGED <<memory, active, resumed, starting>>
    \/ Start
    \/ \E o \in Operators : AutoEnd(o) \/ StartNext(o)
    \/ \E m \in Missions : End(m)
    \/ \E x \in Marks : RemoveMark(x) \/ \E label \in Labels : SetMark(x, label)
    \/ \E r \in Ranges : AddBlacklist(r)
    \/ ClearBlacklist
    \/ Restart

Spec == Init /\ [][Next]_vars

-----------------------------------------------------------------------------
(* Properties *)

TypeOK ==
    /\ memory \in [Records -> Values]
    /\ rows \in [Records -> Values]
    /\ active \in Missions \cup {NoMission}
    /\ resumed \subseteq Missions
    /\ starting \subseteq Operators \X Missions
    /\ \A w \in writes : DOMAIN w \subseteq Records /\ \A r \in DOMAIN w : w[r] \in Values
    /\ unsure \subseteq Records

(***************************************************************************)
(* When no call is under way the store agrees with memory, but for records *)
(* whose last two writes overlapped (they reach the store in any order) or *)
(* whose last one failed; the next call about a record mends that.         *)
(***************************************************************************)
StoreAgrees == TypeOK /\ \A r \in Records \ (Pending \cup unsure) : rows[r] = memory[r]

(***************************************************************************)
(* One mission runs at a time, also when several operators start and end   *)
(* missions at once and each start awaits the end of its predecessor.      *)
(* Only a restart may leave a second one, from rows of calls that it cut   *)
(* short.                                                                  *)
(***************************************************************************)
OneActive ==
    \A m \in Missions : memory[Mission(m)] = "active" => m = active \/ m \in resumed

(***************************************************************************)
(* What a call that returned has done survives a restart (missions.py:56,  *)
(* overrides.py:19-21), for each record whose writes did not overlap or    *)
(* fail, whatever else was cut short.                                      *)
(***************************************************************************)
ReturnedSurvives ==
    [][Restart => \A r \in Records \ (Pending \cup unsure) : memory'[r] = memory[r]]_vars

=============================================================================
