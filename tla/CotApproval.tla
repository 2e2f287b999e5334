------------------------------ MODULE CotApproval ------------------------------
(***************************************************************************)
(* From an escalated assessment to a CoT beacon on the TAK network: the    *)
(* manual approval queue (operator/approvals.py), the emitter with its     *)
(* per-emitter rate limit (output/cot_emitter.py) and their wiring in      *)
(* main.py.  Friendly emitters do not escalate; which those are is left to *)
(* the choice of the emitter that does.                                    *)
(*                                                                         *)
(* One asyncio loop runs it all.  An action is the code between two        *)
(* awaits that really suspend: a task starting, the hop into the thread    *)
(* that writes the datagram and back, the hop into the thread that writes  *)
(* the audit row.  The queue's lock is never held over such an await.      *)
(***************************************************************************)
EXTENDS Integers, Sequences, FiniteSets, SequencesExt

CONSTANTS
    Emitters,           \* emitter ids
    NoEmitter,          \* emitter of an escalation that is still to come
    MaxPending,         \* ApprovalQueue._max
    Expiry,             \* ApprovalQueue._expiry_s, in ticks
    MinInterval,        \* CoTEmitter._min_interval_s, in ticks
    MaxItems            \* bound: escalations in a behaviour

ASSUME ApprovalAssumption ==
    /\ NoEmitter \notin Emitters
    /\ {MaxPending, Expiry, MinInterval, MaxItems} \subseteq Nat \ {0}

Items    == 1 .. MaxItems       \* escalations, numbered as they are spawned
Terminal == {"approved", "rejected", "expired", "dropped"}
States   == {"none", "spawned", "pending", "auto"} \cup Terminal

VARIABLES
    emitter,    \* item -> emitter of its track
    state,      \* item -> PendingApproval.state; "auto" is pushed unasked
    age,        \* item -> time since enqueued_ns while pending, saturating
    order,      \* ApprovalQueue._order
    push,       \* item -> "none", or what became of its emit_track call
    sinceGate,  \* item -> time since emit_track took now_s, saturating
    sinceEmit,  \* emitter -> time since _last_emit, saturating
    manual,     \* config.cot_require_manual_approval, set at the start
    owed,       \* items whose audit row is on its way to the store
    audit       \* items whose audit row is written

queue    == <<state, age, order>>
emits    == <<push, sinceGate, sinceEmit>>
records  == <<owed, audit>>
vars     == <<emitter, queue, emits, manual, records>>

Init ==
    /\ emitter = [i \in Items |-> NoEmitter]
    /\ state = [i \in Items |-> "none"]
    /\ age = [i \in Items |-> 0]
    /\ order = <<>>
    /\ push = [i \in Items |-> "none"]
    /\ sinceGate = [i \in Items |-> 0]
    /\ sinceEmit = [e \in Emitters |-> MinInterval]
    /\ manual \in BOOLEAN
    /\ owed = {}
    /\ audit = {}

-----------------------------------------------------------------------------
(* Escalation *)

StartsPending(i) == manual

\* An event of e raised an assessment that escalates; its task is spawned.
Escalate(e) ==
    LET fresh == {i \in Items : state[i] = "none"}
        i == CHOOSE j \in fresh : \A k \in fresh : j <= k
    IN  /\ fresh # {}
        /\ emitter' = [emitter EXCEPT ![i] = e]
        /\ state' = [state EXCEPT ![i] = "spawned"]
        /\ UNCHANGED <<age, order, emits, manual, records>>

\* The loop starts tasks in the order they were spawned.
NextToStart(i) ==
    /\ state[i] = "spawned"
    /\ \A j \in Items : state[j] = "spawned" => i <= j

-----------------------------------------------------------------------------
(* The emitter *)

GateOpen(i) == sinceEmit[emitter[i]] >= MinInterval

\* Mutant: a beacon takes the rate limit before it is known to be sent.
GateStamped(i) ==
    /\ push' = [push EXCEPT ![i] = IF GateOpen(i) THEN "sending" ELSE "suppressed"]
    /\ sinceEmit' = IF GateOpen(i) THEN [sinceEmit EXCEPT ![emitter[i]] = 0] ELSE sinceEmit
    /\ UNCHANGED sinceGate

\* emit_track up to its await: the rate limit is checked, not yet taken.
Gate(i) ==
    /\ push' = [push EXCEPT ![i] = IF GateOpen(i) THEN "sending" ELSE "suppressed"]
    /\ UNCHANGED <<sinceGate, sinceEmit>>

\* The approved callback is over: approve goes on to _emit_terminal.
OweIfApproved(i) == owed' = IF state[i] = "approved" THEN owed \cup {i} ELSE owed

\* The thread wrote the datagram and emit_track resumes.
SendDone(i) ==
    /\ push[i] = "sending"
    /\ push' = [push EXCEPT ![i] = "sent"]
    /\ sinceEmit' = [sinceEmit EXCEPT ![emitter[i]] = sinceGate[i]]
    /\ OweIfApproved(i)
    /\ UNCHANGED <<emitter, queue, sinceGate, manual, audit>>

SendFailed(i) ==
    /\ push[i] = "sending"
    /\ push' = [push EXCEPT ![i] = "failed"]
    /\ sinceGate' = [sinceGate EXCEPT ![i] = 0]
    /\ OweIfApproved(i)
    /\ UNCHANGED <<emitter, queue, sinceEmit, manual, audit>>

\* Without manual approval the spawned task is emit_track itself.
AutoEmit(i) ==
    /\ ~StartsPending(i)
    /\ NextToStart(i)
    /\ state' = [state EXCEPT ![i] = "auto"]
    /\ Gate(i)
    /\ UNCHANGED <<emitter, age, order, manual, records>>

-----------------------------------------------------------------------------
(* The queue *)

Pending(i) == state[i] = "pending"

\* Mutant: the item the compaction stops at is popped as well.
CompactedOneMore ==
    LET live == {k \in DOMAIN order : Pending(order[k])}
    IN  IF live = {} THEN <<>>
        ELSE SubSeq(order, 1 + CHOOSE k \in live : \A l \in live : k <= l, Len(order))

\* The order without the decided items at its head.
Compacted ==
    LET live == {k \in DOMAIN order : Pending(order[k])}
    IN  IF live = {} THEN <<>>
        ELSE SubSeq(order, CHOOSE k \in live : \A l \in live : k <= l, Len(order))

\* Items evicted so that one more fits.
Surplus(q) == IF Len(q) < MaxPending THEN 0 ELSE Len(q) - MaxPending + 1

Evicted(q) == {q[k] : k \in 1 .. Surplus(q)}

Enqueue(i) ==
    LET q == Compacted
        dropped == {j \in Evicted(q) : Pending(j)}
    IN  /\ StartsPending(i)
        /\ NextToStart(i)
        /\ state' = [j \in Items |-> IF j = i THEN "pending"
                                     ELSE IF j \in dropped THEN "dropped" ELSE state[j]]
        /\ age' = [j \in Items |-> IF j \in dropped THEN 0 ELSE age[j]]
        /\ order' = Append(SubSeq(q, Surplus(q) + 1, Len(q)), i)
        /\ owed' = owed \cup dropped
        /\ UNCHANGED <<emitter, emits, manual, audit>>

\* Mutant: whatever was decided before can be approved.
MayDecideAgain(i) == state[i] \in {"pending", "expired"}

MayDecide(i) == Pending(i)

\* POST /approvals/{id}/approve; the callback runs emit_track up to its await.
Approve(i) ==
    /\ MayDecide(i)
    /\ state' = [state EXCEPT ![i] = "approved"]
    /\ age' = [age EXCEPT ![i] = 0]
    /\ Gate(i)
    /\ owed' = IF GateOpen(i) THEN owed ELSE owed \cup {i}
    /\ UNCHANGED <<emitter, order, manual, audit>>

\* POST /approvals/{id}/reject
Reject(i) ==
    /\ MayDecide(i)
    /\ state' = [state EXCEPT ![i] = "rejected"]
    /\ age' = [age EXCEPT ![i] = 0]
    /\ owed' = owed \cup {i}
    /\ UNCHANGED <<emitter, order, emits, manual, audit>>

Overdue == {i \in Items : i \in Range(order) /\ Pending(i) /\ age[i] > Expiry}

\* Mutant: _emit_terminal is not called for expired items.
ExpireStaleUnrecorded ==
    /\ Overdue # {}
    /\ state' = [i \in Items |-> IF i \in Overdue THEN "expired" ELSE state[i]]
    /\ age' = [i \in Items |-> IF i \in Overdue THEN 0 ELSE age[i]]
    /\ UNCHANGED <<emitter, order, emits, manual, records>>

\* The pass of _approval_expiry_loop.
ExpireStale ==
    /\ Overdue # {}
    /\ state' = [i \in Items |-> IF i \in Overdue THEN "expired" ELSE state[i]]
    /\ age' = [i \in Items |-> IF i \in Overdue THEN 0 ELSE age[i]]
    /\ owed' = owed \cup Overdue
    /\ UNCHANGED <<emitter, order, emits, manual, audit>>

\* The store wrote the row of a terminal state.
RecordTerminal(i) ==
    /\ i \in owed
    /\ owed' = owed \ {i}
    /\ audit' = audit \cup {i}
    /\ UNCHANGED <<emitter, queue, emits, manual>>

-----------------------------------------------------------------------------
(* Time *)

Older(x, limit) == IF x < limit THEN x + 1 ELSE limit

Pushed(i) == push[i] \in {"sending", "sent"}

Tick ==
    /\ age' = [i \in Items |-> IF Pending(i) THEN Older(age[i], Expiry + 1) ELSE age[i]]
    /\ sinceGate' = [i \in Items |-> IF Pushed(i) THEN Older(sinceGate[i], MinInterval)
                                     ELSE sinceGate[i]]
    /\ sinceEmit' = [e \in Emitters |-> Older(sinceEmit[e], MinInterval)]
    /\ UNCHANGED <<emitter, state, order, push, manual, records>>

-----------------------------------------------------------------------------
OnLoop(i) == \/ Enqueue(i)
             \/ AutoEmit(i)
             \/ RecordTerminal(i)

Next ==
    \/ \E e \in Emitters : Escalate(e)
    \/ \E i \in Items : \/ OnLoop(i)
                        \/ SendDone(i)
                        \/ SendFailed(i)
                        \/ Approve(i)
                        \/ Reject(i)
    \/ ExpireStale
    \/ Tick

Spec == Init /\ [][Next]_vars

\* The loop and its threads get on with what was started, time passes and the
\* expiry loop wakes every minute.  Nothing is asked of the operator.
Fairness ==
    /\ \A i \in Items : /\ WF_vars(OnLoop(i))
                        /\ WF_vars(SendDone(i) \/ SendFailed(i))
    /\ WF_vars(ExpireStale)
    /\ WF_vars(Tick)

FairSpec == Spec /\ Fairness

-----------------------------------------------------------------------------
(* Properties *)

\* Types, and the limit of the queue.
TypeOK ==
    /\ emitter \in [Items -> Emitters \cup {NoEmitter}]
    /\ state \in [Items -> States]
    /\ age \in [Items -> 0 .. Expiry + 1]
    /\ order \in Seq(Items) /\ Len(order) <= MaxPending
    /\ push \in [Items -> {"none", "sending", "sent", "failed", "suppressed"}]
    /\ sinceGate \in [Items -> 0 .. MinInterval]
    /\ sinceEmit \in [Emitters -> 0 .. MinInterval]
    /\ manual \in BOOLEAN
    /\ owed \subseteq Items
    /\ audit \subseteq Items

\* A beacon was approved by an operator unless manual approval is off.
TwoKeys == manual => \A i \in Items : push[i] # "none" => state[i] = "approved"

\* A decision stands: racing approve, reject, expiry and eviction calls cannot
\* change what became of an item, nor push or record it a second time.
DecidedForGood ==
    [][\A i \in Items : state[i] \in Terminal =>
           /\ state'[i] = state[i]
           /\ push[i] # "none" => push'[i] # "sending" \/ push[i] = "sending"
           /\ i \in audit => i \notin owed']_vars

\* The queue holds every undecided item, in the order they came.
PendingIsQueued ==
    /\ \A i \in Items : Pending(i) => i \in Range(order)
    /\ \A k, l \in DOMAIN order : k < l => order[k] < order[l]

\* Through evictions and compactions the queue keeps its limit and holds every
\* undecided item, so that the sweep and the operator's list reach it; with
\* manual approval on, emit_track is only ever reached by an item that an
\* operator approved (approvals.py 4-8).
QueueSound == TypeOK /\ TwoKeys /\ PendingIsQueued

\* The rate limit holds a beacon back only on account of one that went out.
LimitedBySent ==
    \A e \in Emitters : sinceEmit[e] < MinInterval =>
        \E i \in Items : emitter[i] = e /\ push[i] = "sent" /\ sinceGate[i] = sinceEmit[e]

\* No escalation waits for ever, and each reaches the audit log: the operator,
\* the expiry sweep or back-pressure decides it, and whichever call made the
\* terminal transition records it (on_terminal, approvals.py 97-101).
DecisionsAudited == \A i \in Items : (state[i] \in Terminal \/ Pending(i)) ~> i \in audit

=============================================================================
