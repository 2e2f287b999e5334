---------------------------- MODULE CustodyElector ----------------------------
(***************************************************************************)
(* Sensor custody: which nodes keep watching which emitter.  Every event   *)
(* of a track re-elects its primary and backups among the registered       *)
(* nodes, from scores that count how many active tracks each node already  *)
(* serves, and an outgoing primary stays tasked for an overlap window.     *)
(* The elector (custody_election.py, and the same algorithm in             *)
(* custody_election.h) is driven by _on_rf_event of main.py and by the     *)
(* assessments route; tracks age and are archived by TrackManager; nodes   *)
(* are polled by KujhadClient.                                             *)
(*                                                                         *)
(* All of it runs on one asyncio loop without an await inside, so a        *)
(* handler is one action.  A deadline is kept as the time left to it and a *)
(* GPS fix as its age, so that time can pass for ever.                     *)
(***************************************************************************)
EXTENDS Integers, FiniteSets

CONSTANTS
    Nodes,          \* node ids; their order is the election's tie break
    Tracks,         \* emitter ids; an archived one is never used again
    NoNode,         \* no primary, no outgoing node
    Incapable,      \* <<node, track>>: the node lacks the track's decoder
    Merits,         \* values of the soft score without its load component
    LoadWeight,     \* weight of the load component, in the same unit
    K,              \* k_total
    Overlap,        \* handover_overlap_s, in ticks
    StaleAfter,     \* stale_gps_after_s, in ticks
    Reports,        \* bound: kinds of poll results that may change a node
    Removable       \* bound: nodes that may be removed from the fleet

ASSUME CustodyAssumption ==
    /\ Nodes \subseteq Nat
    /\ IsFiniteSet(Nodes)
    /\ IsFiniteSet(Tracks)
    /\ NoNode \notin Nodes
    /\ Incapable \subseteq Nodes \X Tracks
    /\ Merits \subseteq Nat \ {0}
    /\ LoadWeight \in Nat
    /\ K \in Nat \ {0}
    /\ Overlap \in Nat
    /\ StaleAfter \in Nat
    /\ Reports \subseteq {"fix", "timing", "merit"}
    /\ Removable \subseteq Nodes

Never == -1         \* age of a GPS fix that was never had
Ages  == Never .. StaleAfter + 1

Decision == [primary: Nodes \cup {NoNode}, backups: SUBSET Nodes, tasked: SUBSET Nodes,
             outgoing: Nodes \cup {NoNode}, left: 0 .. Overlap]

\* No previous decision is as good as one that tasks nobody.
NoDecision == [primary |-> NoNode, backups |-> {}, tasked |-> {},
               outgoing |-> NoNode, left |-> 0]

VARIABLES
    fleet,          \* KujhadFleetManager's clients: nodes that can be reached
    registered,     \* TrackManager.sensor_nodes: the nodes elections consider
    synced,         \* nodes with gps_synchronized
    fixAge,         \* node -> age of location_gps_updated_ns, saturating
    merit,          \* node -> soft score without load
    status,         \* track -> "absent", "active", "quiet" or "archived"
    decision        \* track -> CustodyElector._last_decisions

nodeVars == <<fleet, registered, synced, fixAge, merit>>
vars == <<nodeVars, status, decision>>

-----------------------------------------------------------------------------
(* Scoring *)

\* Mutant: the stale check is off by one.
GatedLate(n, t, dangerous) ==
    \/ dangerous /\ n \notin synced
    \/ dangerous /\ fixAge[n] > StaleAfter + 1
    \/ <<n, t>> \in Incapable

\* _hard_gate: GPS sync and a fresh fix for threats that need TDOA, and the
\* decoder of the track's protocol.
Gated(n, t, dangerous) ==
    \/ dangerous /\ n \notin synced
    \/ dangerous /\ fixAge[n] > StaleAfter
    \/ <<n, t>> \in Incapable

\* node_loads: how many active tracks task the node, this one included.
Load(active) ==
    [n \in Nodes |-> Cardinality({u \in active : n \in decision[u].tasked})]

NoLoad == [n \in Nodes |-> 0]

Score(n, load) == merit[n] + LoadWeight \div (1 + load[n])

\* The election's order: higher score first, then the smaller id.
Ahead(m, n, load) ==
    \/ Score(m, load) > Score(n, load)
    \/ Score(m, load) = Score(n, load) /\ m < n

Eligible(t, dangerous) == {n \in registered : ~ Gated(n, t, dangerous)}

Betters(n, eligible, load) == {m \in eligible : m # n /\ Ahead(m, n, load)}

\* The node nobody is ahead of, if anybody is eligible.
Leader(eligible, load) ==
    IF eligible = {} THEN {NoNode}
    ELSE {n \in eligible : Betters(n, eligible, load) = {}}

\* Mutant: one backup too many.
BackupsOverK(eligible, load) ==
    {n \in eligible : Cardinality(Betters(n, eligible, load)) \in 1 .. K}

\* The next K - 1.
Backups(eligible, load) ==
    {n \in eligible : Cardinality(Betters(n, eligible, load)) \in 1 .. K - 1}

-----------------------------------------------------------------------------
(* Handover *)

\* A new window: the primary changed and the old one is still there.
StartsHandover(prev, primary) ==
    prev.primary \notin {NoNode, primary} /\ prev.primary \in registered

\* Mutant: the window outlives its deadline.
InheritsHandoverLate(prev, primary) ==
    prev.outgoing \notin {NoNode, primary} /\ prev.outgoing \in registered

\* A window of an earlier election that is still open.
InheritsHandover(prev, primary) ==
    /\ prev.outgoing \notin {NoNode, primary}
    /\ prev.outgoing \in registered
    /\ prev.left > 0

\* Mutant: the window is forgotten by the next election.
HandoverDropped(prev, primary) ==
    IF StartsHandover(prev, primary)
    THEN [outgoing |-> prev.primary, left |-> Overlap]
    ELSE [outgoing |-> NoNode, left |-> 0]

\* handover_from and handover_until_ns of the new decision.
Handover(prev, primary) ==
    IF StartsHandover(prev, primary)
    THEN [outgoing |-> prev.primary, left |-> Overlap]
    ELSE IF InheritsHandover(prev, primary)
         THEN [outgoing |-> prev.outgoing, left |-> prev.left]
         ELSE [outgoing |-> NoNode, left |-> 0]

\* elect(): the new decision of a track, cached.
Elect(t, dangerous, load) ==
    LET eligible == Eligible(t, dangerous) IN
    \E primary \in Leader(eligible, load) :
        LET h == Handover(decision[t], primary)
            b == Backups(eligible, load)
        IN decision' = [decision EXCEPT ![t] =
               [primary  |-> primary,
                backups  |-> b,
                tasked   |-> (b \cup {primary, h.outgoing}) \ {NoNode},
                outgoing |-> h.outgoing,
                left     |-> h.left]]

-----------------------------------------------------------------------------
Init ==
    /\ registered \in SUBSET Nodes
    /\ fleet = registered
    /\ synced \in SUBSET registered
    /\ fixAge = [n \in Nodes |-> Never]
    /\ merit \in [Nodes -> Merits]
    /\ status = [t \in Tracks |-> "absent"]
    /\ decision = [t \in Tracks |-> NoDecision]

Alive(t) == status[t] \in {"active", "quiet"}

ActiveAfter(t) == {u \in Tracks : status[u] = "active" \/ (u = t /\ status[u] = "absent")}

\* An event is fused into the track, which is new or known, and assessed;
\* there is an election when any node is registered.  A track that coasts or
\* was lost does not become active again.
Event(t, dangerous) ==
    /\ status[t] # "archived"
    /\ status' = [status EXCEPT ![t] = IF @ = "absent" THEN "active" ELSE @]
    /\ IF registered = {} THEN UNCHANGED decision
       ELSE Elect(t, dangerous, Load(ActiveAfter(t)))
    /\ UNCHANGED nodeVars

\* GET /assessments/{id} assesses the track again, without loads, and the
\* elector takes it for an election.
ViewAssessment(t, dangerous) ==
    /\ Alive(t)
    /\ registered # {}
    /\ Elect(t, dangerous, NoLoad)
    /\ UNCHANGED <<nodeVars, status>>

\* _age_tracks: a stable track coasts, any track is lost.
Age(t) ==
    /\ status[t] = "active"
    /\ status' = [status EXCEPT ![t] = "quiet"]
    /\ UNCHANGED <<nodeVars, decision>>

\* _age_tracks after 24 hours: the track goes and the elector forgets it.
Archive(t) ==
    /\ status[t] = "quiet"
    /\ status' = [status EXCEPT ![t] = "archived"]
    /\ decision' = [decision EXCEPT ![t] = NoDecision]
    /\ UNCHANGED nodeVars

\* A poll of a reachable node: GPS fix or timing, or something else the soft
\* score looks at.
Report(n) ==
    /\ n \in fleet \cap registered
    /\ \/ /\ "fix" \in Reports
          /\ fixAge' = [fixAge EXCEPT ![n] = 0]
          /\ UNCHANGED <<synced, merit>>
       \/ /\ "timing" \in Reports
          /\ synced' \in {synced \cup {n}, synced \ {n}}
          /\ UNCHANGED <<fixAge, merit>>
       \/ /\ "merit" \in Reports
          /\ \E m \in Merits : merit' = [merit EXCEPT ![n] = m]
          /\ UNCHANGED <<fixAge, synced>>
    /\ UNCHANGED <<fleet, registered, status, decision>>

\* DELETE /nodes/{id} stops the node's client; TrackManager keeps the node.
RemoveNode(n) ==
    /\ n \in fleet \cap Removable
    /\ fleet' = fleet \ {n}
    /\ UNCHANGED <<registered, synced, fixAge, merit, status, decision>>

\* Mutant: the time left goes on counting after the deadline.
TickPastDeadline ==
    /\ fixAge' = [n \in Nodes |->
           IF fixAge[n] \in 0 .. StaleAfter THEN fixAge[n] + 1 ELSE fixAge[n]]
    /\ decision' = [t \in Tracks |-> [decision[t] EXCEPT !.left = @ - 1]]
    /\ UNCHANGED <<fleet, registered, synced, merit, status>>

\* One tick of the clock.
Tick ==
    /\ fixAge' = [n \in Nodes |->
           IF fixAge[n] \in 0 .. StaleAfter THEN fixAge[n] + 1 ELSE fixAge[n]]
    /\ decision' = [t \in Tracks |-> [decision[t] EXCEPT !.left = IF @ > 0 THEN @ - 1 ELSE 0]]
    /\ UNCHANGED <<fleet, registered, synced, merit, status>>

Next ==
    \/ \E t \in Tracks, dangerous \in BOOLEAN :
           Event(t, dangerous) \/ ViewAssessment(t, dangerous)
    \/ \E t \in Tracks : Age(t) \/ Archive(t)
    \/ \E n \in Nodes : Report(n) \/ RemoveNode(n)
    \/ Tick

\* Time passes; nobody else owes anything.
Spec == Init /\ [][Next]_vars /\ WF_vars(Tick)

-----------------------------------------------------------------------------
(* Properties *)

TypeOK ==
    /\ fleet \subseteq registered
    /\ registered \subseteq Nodes
    /\ synced \subseteq registered
    /\ fixAge \in [Nodes -> Ages]
    /\ merit \in [Nodes -> Merits]
    /\ status \in [Tracks -> {"absent", "active", "quiet", "archived"}]
    /\ decision \in [Tracks -> Decision]

(***************************************************************************)
(* Custody never holds more than K nodes and one outgoing primary for an   *)
(* emitter, over any sequence of elections, agings and node changes, and   *)
(* an outgoing node is always one that is kept tasked and not the primary. *)
(***************************************************************************)
CustodyBounded ==
    \A t \in Tracks :
        LET d == decision[t] IN
        /\ Cardinality(d.tasked \ {d.outgoing}) <= K
        /\ d.outgoing # NoNode => d.outgoing \in d.tasked /\ d.outgoing # d.primary
        /\ d.outgoing = NoNode => d.left = 0

(***************************************************************************)
(* As long as the primary stays, its predecessor keeps its place until the *)
(* deadline, and the deadline does not move: no re-election, of whatever   *)
(* origin, shortens the window or starts it over.                          *)
(***************************************************************************)
KeptThroughOverlap ==
    [][\A t \in Tracks :
          LET d == decision[t]
              e == decision'[t]
          IN (d.outgoing # NoNode /\ d.left > 0 /\ e.primary = d.primary /\ status'[t] # "archived")
             => e.outgoing = d.outgoing /\ e.left \in {d.left - 1, d.left}]_vars

(***************************************************************************)
(* For a threat that needs a TDOA fix, nodes without GPS sync or with a    *)
(* stale fix are tasked only while they hand over, though clocks lose sync *)
(* and fixes age between elections.                                        *)
(***************************************************************************)
DangerousNeedsGps ==
    [][\A t \in Tracks : Event(t, TRUE) =>
          \A n \in decision'[t].tasked \ {decision'[t].outgoing} :
              registered = {} \/ (n \in synced /\ fixAge[n] <= StaleAfter)]_vars

(***************************************************************************)
(* While events keep coming and the primary no longer changes, a handover  *)
(* comes to an end: the outgoing node is not kept for ever.                *)
(***************************************************************************)
HandoverEnds ==
    \A t \in Tracks :
        /\ WF_decision(\E dangerous \in BOOLEAN : Event(t, dangerous))
        /\ <>[][decision'[t].primary = decision[t].primary]_vars
        => []<>(decision[t].outgoing = NoNode)

\* The only thing that goes on is the clock and ordinary events.
Undisturbed == [][Tick \/ \E t \in Tracks : Event(t, FALSE)]_vars

(***************************************************************************)
(* custody_election.py:13-16: without an election "two equally-good nodes  *)
(* both got tuned to the same emitter".  When nothing but events and the   *)
(* clock goes on, the election settles on a primary.                       *)
(***************************************************************************)
ElectionSettles ==
    <>Undisturbed => \A t \in Tracks : <>[][decision'[t].primary = decision[t].primary]_vars

=============================================================================
