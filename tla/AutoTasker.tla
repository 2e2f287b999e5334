------------------------------ MODULE AutoTasker ------------------------------
(***************************************************************************)
(* The action loop: an assessment that asks for a closer look re-tunes the *)
(* recommended nodes.  AutoTasker (coordination/auto_tasker.py) spawns one *)
(* task per node, reserves a slot against a per-node and a fleet-wide      *)
(* limit, posts the command (KujhadClient) and releases the slot if that   *)
(* fails.  On the node the device server accepts the command into a queue  *)
(* and answers; the next UI frame tunes the radio (main_window.cpp).       *)
(*                                                                         *)
(* The backend runs on one asyncio loop and the budget lock is never held  *)
(* over an await that suspends, so taking and releasing a slot are atomic; *)
(* the post is not.  Node and backend only meet through the network.       *)
(***************************************************************************)
EXTENDS Integers, Sequences, FiniteSets, SequencesExt

CONSTANTS
    Nodes,          \* node ids
    Emitters,       \* emitter ids, each heard on a frequency of its own
    None,           \* no node, no emitter, no tune
    MinInterval,    \* min_interval_s, in ticks
    Window,         \* the minute of the fleet-wide budget, in ticks
    Budget,         \* global_max_per_minute
    PostTimeout,    \* timeout of _post_command, in ticks
    MaxTunes        \* bound: tune tasks in a behaviour

ASSUME TaskerAssumption ==
    /\ IsFiniteSet(Nodes)
    /\ None \notin Nodes \cup Emitters
    /\ None \notin Nat
    /\ {MinInterval, Window, Budget, PostTimeout, MaxTunes} \subseteq Nat \ {0}
    /\ MinInterval <= Window /\ PostTimeout <= Window

Tunes == 1 .. MaxTunes      \* _tune_one tasks, numbered as they are spawned

VARIABLES
    node,       \* tune -> the node to re-tune
    emitter,    \* tune -> the emitter to listen to
    phase,      \* tune -> where its task is
    wire,       \* tune -> what became of its command on the way to the node
    age,        \* tune -> time since its `now`, saturating
    lastTune,   \* node -> AutoTasker._last_tune, as the tune whose `now` it is
    counted,    \* the tunes whose `now` is in _global_tune_times
    clients,    \* KujhadFleetManager._clients
    accepted,   \* node -> kujhadPendingCommands
    tunedTo     \* node -> emitter whose frequency the radio is on

limits == <<lastTune, counted>>
device == <<accepted, tunedTo>>
vars   == <<node, emitter, phase, wire, age, limits, clients, device>>

Init ==
    /\ node = [j \in Tunes |-> None]
    /\ emitter = [j \in Tunes |-> None]
    /\ phase = [j \in Tunes |-> "none"]
    /\ wire = [j \in Tunes |-> "unsent"]
    /\ age = [j \in Tunes |-> 0]
    /\ lastTune = [n \in Nodes |-> None]
    /\ counted = {}
    /\ clients = Nodes
    /\ accepted = [n \in Nodes |-> <<>>]
    /\ tunedTo = [n \in Nodes |-> None]

-----------------------------------------------------------------------------
(* The backend *)

\* Lists of distinct nodes.
NodeLists == {l \in UNION {[1 .. k -> Nodes] : k \in 1 .. Cardinality(Nodes)} : IsInjective(l)}

\* An assessment of e with an automatic action recommends the nodes of l.
HandleAssessment(e, l) ==
    LET used == Cardinality({j \in Tunes : phase[j] # "none"})
        new  == used + 1 .. used + Len(l)
    IN  /\ new \subseteq Tunes
        /\ node' = [j \in Tunes |-> IF j \in new THEN l[j - used] ELSE node[j]]
        /\ emitter' = [j \in Tunes |-> IF j \in new THEN e ELSE emitter[j]]
        /\ phase' = [j \in Tunes |-> IF j \in new THEN "spawned" ELSE phase[j]]
        /\ UNCHANGED <<wire, age, limits, clients, device>>

NextToStart(j) ==
    /\ phase[j] = "spawned"
    /\ \A k \in Tunes : phase[k] = "spawned" => j <= k

\* Mutant: the limit is one tick short.
RateLimitedShort(n) == lastTune[n] # None /\ age[lastTune[n]] < MinInterval - 1

RateLimited(n) == lastTune[n] # None /\ age[lastTune[n]] < MinInterval

\* The window as the check trims it.
Recent == {k \in counted : age[k] <= Window}

\* Mutant: one tune more than the budget.
InBudgetLate == Cardinality(Recent) <= Budget

InBudget == Cardinality(Recent) < Budget

\* The client's center_frequencies_monitored, which no poll of a node sets.
Monitored(n) == {}

\* A limit holds the task back.
Skip(j) ==
    /\ NextToStart(j)
    /\ RateLimited(node[j]) \/ ~InBudget
    /\ phase' = [phase EXCEPT ![j] = "skipped"]
    /\ counted' = IF RateLimited(node[j]) THEN counted ELSE Recent
    /\ UNCHANGED <<node, emitter, wire, age, lastTune, clients, device>>

MayReserve(j) ==
    /\ NextToStart(j)
    /\ ~RateLimited(node[j])
    /\ InBudget

CanPost(j) == node[j] \in clients /\ emitter[j] \notin Monitored(node[j])

\* The slot is reserved and the command goes out.
Post(j) ==
    /\ MayReserve(j)
    /\ CanPost(j)
    /\ phase' = [phase EXCEPT ![j] = "posting"]
    /\ wire' = [wire EXCEPT ![j] = "underway"]
    /\ lastTune' = [lastTune EXCEPT ![node[j]] = j]
    /\ counted' = Recent \cup {j}
    /\ UNCHANGED <<node, emitter, age, clients, device>>

\* Reserved and released at once: there is nothing to post to or for.
Withdraw(j) ==
    /\ MayReserve(j)
    /\ ~CanPost(j)
    /\ phase' = [phase EXCEPT ![j] = "skipped"]
    /\ lastTune' = [lastTune EXCEPT ![node[j]] = None]
    /\ counted' = Recent
    /\ UNCHANGED <<node, emitter, wire, age, clients, device>>

\* The node's ok arrives.
Issued(j) ==
    /\ phase[j] = "posting"
    /\ wire[j] = "accepted"
    /\ phase' = [phase EXCEPT ![j] = "issued"]
    /\ UNCHANGED <<node, emitter, wire, age, limits, clients, device>>

Release(j) ==
    /\ lastTune' = [lastTune EXCEPT ![node[j]] = IF @ = j THEN None ELSE @]
    /\ counted' = counted \ {j}

\* Refused, timed out, or the connection broke before the answer came.
Failed(j) ==
    /\ phase[j] = "posting"
    /\ phase' = [phase EXCEPT ![j] = "failed"]
    /\ Release(j)
    /\ UNCHANGED <<node, emitter, wire, age, clients, device>>

AddNode(n) ==
    /\ n \notin clients
    /\ clients' = clients \cup {n}
    /\ UNCHANGED <<node, emitter, phase, wire, age, limits, device>>

RemoveNode(n) ==
    /\ n \in clients
    /\ clients' = clients \ {n}
    /\ UNCHANGED <<node, emitter, phase, wire, age, limits, device>>

-----------------------------------------------------------------------------
(* The network and the node *)

\* The device server takes the command, perhaps after the client gave up.
Accept(j) ==
    /\ wire[j] = "underway"
    /\ wire' = [wire EXCEPT ![j] = "accepted"]
    /\ accepted' = [accepted EXCEPT ![node[j]] = Append(@, j)]
    /\ UNCHANGED <<node, emitter, phase, age, limits, clients, tunedTo>>

\* The command is lost on the way or refused by the device server.
Lose(j) ==
    /\ wire[j] = "underway"
    /\ wire' = [wire EXCEPT ![j] = "lost"]
    /\ UNCHANGED <<node, emitter, phase, age, limits, clients, device>>

\* Mutant: a frame runs the first pending command and forgets the others.
FrameFirst(n) ==
    /\ accepted[n] # <<>>
    /\ tunedTo' = [tunedTo EXCEPT ![n] = emitter[Head(accepted[n])]]
    /\ accepted' = [accepted EXCEPT ![n] = <<>>]
    /\ UNCHANGED <<node, emitter, phase, wire, age, limits, clients>>

\* A UI frame runs every pending command; the last one decides.
Frame(n) ==
    /\ accepted[n] # <<>>
    /\ tunedTo' = [tunedTo EXCEPT ![n] = emitter[Last(accepted[n])]]
    /\ accepted' = [accepted EXCEPT ![n] = <<>>]
    /\ UNCHANGED <<node, emitter, phase, wire, age, limits, clients>>

Older(x) == IF x <= Window THEN x + 1 ELSE x

\* Time passes, but no post outlives its timeout.
Tick ==
    /\ \A j \in Tunes : phase[j] = "posting" => age[j] < PostTimeout
    /\ age' = [j \in Tunes |-> IF phase[j] \in {"posting", "issued", "failed"}
                               THEN Older(age[j]) ELSE age[j]]
    /\ UNCHANGED <<node, emitter, phase, wire, limits, clients, device>>

-----------------------------------------------------------------------------
Start(j) == \/ Skip(j)
            \/ Post(j)
            \/ Withdraw(j)

Next ==
    \/ \E e \in Emitters, l \in NodeLists : HandleAssessment(e, l)
    \/ \E j \in Tunes : \/ Start(j)
                        \/ Issued(j)
                        \/ Failed(j)
                        \/ Accept(j)
                        \/ Lose(j)
    \/ \E n \in Nodes : \/ AddNode(n)
                        \/ RemoveNode(n)
                        \/ Frame(n)
    \/ Tick

Spec == Init /\ [][Next]_vars

-----------------------------------------------------------------------------
(* Properties *)

Phases == {"none", "spawned", "skipped", "posting", "issued", "failed"}

\* Types; a node never holds a command twice.
TypeOK ==
    /\ node \in [Tunes -> Nodes \cup {None}]
    /\ emitter \in [Tunes -> Emitters \cup {None}]
    /\ phase \in [Tunes -> Phases]
    /\ wire \in [Tunes -> {"unsent", "underway", "accepted", "lost"}]
    /\ age \in [Tunes -> 0 .. Window + 1]
    /\ lastTune \in [Nodes -> Tunes \cup {None}]
    /\ counted \subseteq Tunes
    /\ clients \subseteq Nodes
    /\ accepted \in [Nodes -> Seq(Tunes)] /\ \A n \in Nodes : IsInjective(accepted[n])
    /\ tunedTo \in [Nodes -> Emitters \cup {None}]

Holds(j) == phase[j] \in {"posting", "issued"}

\* Tunes under way or acknowledged stay within the budget in any window.
BudgetKept == Cardinality({j \in Tunes : Holds(j) /\ age[j] <= Window}) <= Budget

\* What failed or was withdrawn gave back both its slots, and nobody else's.
SlotsAccountedFor ==
    /\ \A j \in counted : Holds(j)
    /\ \A n \in Nodes : lastTune[n] # None => Holds(lastTune[n]) /\ node[lastTune[n]] = n
    /\ \A j \in Tunes : Holds(j) /\ age[j] <= Window => j \in counted

\* However many assessments arrive at once, posts fail or answers come late,
\* the tunes under way or acknowledged never exceed the fleet-wide budget
\* within any window (the lock's promise, auto_tasker.py 81-84), and a slot
\* is held exactly for each of them.
LimitsHold == TypeOK /\ BudgetKept /\ SlotsAccountedFor

\* A node's next tune is posted only when its latest one under way or
\* acknowledged is an interval old.
AcknowledgedTunesSpaced ==
    [][\A j, k \in Tunes :
          phase[j] = "spawned" /\ phase'[j] = "posting" /\ Holds(k) /\ node[k] = node[j]
          => age[k] >= MinInterval]_vars

AllAcknowledged(n) == \A j \in Tunes : node[j] = n /\ wire[j] # "unsent" => phase[j] = "issued"

LatestOf(n, j) ==
    /\ node[j] = n /\ phase[j] = "issued"
    /\ \A k \in Tunes : node[k] = n /\ phase[k] = "issued" => k <= j

\* A node that acknowledged every post and ran its queue listens to the
\* emitter it was tasked with last, although server and frames run apart.
LatestTuneRuns ==
    \A n \in Nodes, j \in Tunes :
        accepted[n] = <<>> /\ AllAcknowledged(n) /\ LatestOf(n, j) => tunedTo[n] = emitter[j]

=============================================================================
