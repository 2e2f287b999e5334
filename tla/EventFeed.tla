------------------------------- MODULE EventFeed -------------------------------
(***************************************************************************)
(* The event log of a node and its way to a controller                     *)
(* (core/src/gui/main_window.cpp, backend/coordination/kujhad_client.py).  *)
(*                                                                         *)
(* A frame of the user interface loads the log from the configuration,     *)
(* adds the rows of its decoders, takes the snapshot that the device       *)
(* server answers from, and then adds the rows mirrored from peers, the    *)
(* hits and the operator's own events.  What no save of the same frame     *)
(* put back into the configuration is gone in the next one.  Rows are      *)
(* numbered by a counter that starts anew with the program, while the rows *)
(* in the configuration keep their numbers.                                *)
(*                                                                         *)
(* The controller is a backend's KujhadClient; the poller of another       *)
(* node's kujhad_fleet.h keeps its cursor alike.  The request of a poll    *)
(* and its answer are one step, since nothing moves the cursor in between; *)
(* the answer then travels, or is lost.                                    *)
(***************************************************************************)
EXTENDS Integers, Sequences, FiniteSets, SequencesExt, FiniteSetsExt

CONSTANTS
    TailSize,       \* rows in the snapshot (32)
    LogSize,        \* rows in the log (200)
    NoReply,
    MaxEvents,      \* bound: rows made
    MaxRestarts     \* bound: restarts of the node

ASSUME FeedAssumption ==
    /\ {TailSize, LogSize, MaxEvents, MaxRestarts} \subseteq Nat
    /\ 0 < TailSize /\ TailSize <= LogSize

VARIABLES
    phase,      \* of the frame: "decode", then "mirror", then "hits"
    conf,       \* configManager.conf["predatorEvents"], newest row first
    log,        \* the frame's events
    serial,     \* predatorEventSerial
    snapshot,   \* kujhadEventsSnapshot
    numbers,    \* the number given to each row ever made, in the order they were made
    restarts,   \* of the node
    cursor,     \* _last_event_id
    reply,      \* an answer on its way: rows and lastId
    got         \* rows handed to on_event since the client started

frame == <<phase, log, snapshot>>
node == <<conf, serial, numbers, restarts>>
client == <<cursor, reply, got>>
feedVars == <<frame, node, client>>

Events == DOMAIN numbers

FeedInit ==
    /\ phase = "decode"
    /\ conf = <<>>
    /\ log = <<>>
    /\ serial = 0
    /\ snapshot = <<>>
    /\ numbers = <<>>
    /\ restarts = 0
    /\ cursor = 0
    /\ reply = NoReply
    /\ got = <<>>

-----------------------------------------------------------------------------
(* The log.  A row is the event and its serial. *)

First(n, s) == SubSeq(s, 1, Min({n, Len(s)}))

Add ==
    /\ Len(numbers) < MaxEvents
    /\ serial' = serial + 1
    /\ numbers' = Append(numbers, serial')
    /\ log' = First(LogSize, <<[event |-> Len(numbers'), serial |-> serial']>> \o log)
    /\ UNCHANGED <<snapshot, restarts, client>>

Save == conf' = log'

\* A decoder's message, from a bridge, a native module or a pool.
Decode ==
    /\ phase = "decode"
    /\ Add
    /\ Save
    /\ UNCHANGED phase

\* Mutant: the log is taken to be oldest first.
TailOldest == First(TailSize, Reverse(log))

\* The newest rows, pushed in the order from old to new.
TailOfLog == Reverse(First(TailSize, log))

Refresh ==
    /\ phase = "decode"
    /\ snapshot' = TailOfLog
    /\ phase' = "mirror"
    /\ UNCHANGED <<log, node, client>>

\* A peer's row, drained from its client: renumbered, not saved.
Mirror ==
    /\ phase = "mirror"
    /\ Add
    /\ UNCHANGED <<conf, phase>>

\* scheduleEventSave saves if it has not done so for half a second.
Hit ==
    /\ phase \in {"mirror", "hits"}
    /\ Add
    /\ Save \/ UNCHANGED conf
    /\ phase' = "hits"

\* A target found by the scan, or the operator's own event.
Manual ==
    /\ phase \in {"mirror", "hits"}
    /\ Add
    /\ Save
    /\ phase' = "hits"

Clear ==
    /\ phase \in {"mirror", "hits"}
    /\ log' = <<>>
    /\ Save
    /\ phase' = "hits"
    /\ UNCHANGED <<snapshot, serial, numbers, restarts, client>>

\* The end of a frame, and the start of the next.
NextFrame ==
    /\ phase \in {"mirror", "hits"}
    /\ phase' = "decode"
    /\ log' = conf
    /\ UNCHANGED <<snapshot, node, client>>

\* The configuration has been written; a crash may lose its last second.
RestartNode ==
    /\ restarts < MaxRestarts
    /\ restarts' = restarts + 1
    /\ phase' = "decode"
    /\ log' = conf
    /\ snapshot' = <<>>
    /\ serial' = 0
    /\ UNCHANGED <<conf, numbers, client>>

-----------------------------------------------------------------------------
(* The cursor *)

Later(n, m) == IF n > m THEN n ELSE m

\* Mutant: the row at the cursor counts as new.
ListedFrom(answer, row, since) ==
    IF row.serial >= since
    THEN [rows |-> Append(answer.rows, row), last |-> Later(row.serial, answer.last)]
    ELSE answer

\* Mutant: the number given last, in the snapshot or not.
ListedGiven(answer, row, since) ==
    IF row.serial > since
    THEN [rows |-> Append(answer.rows, row), last |-> Later(serial, answer.last)]
    ELSE answer

\* A row of the snapshot, as the server comes to it.
Listed(answer, row, since) ==
    IF row.serial > since
    THEN [rows |-> Append(answer.rows, row), last |-> Later(row.serial, answer.last)]
    ELSE answer

\* The server goes through its snapshot from the last row to the first.
Answer(since) ==
    LET back == Reverse(snapshot)
        listed[i \in 0 .. Len(snapshot)] ==
            IF i = 0 THEN [rows |-> <<>>, last |-> since]
                     ELSE Listed(listed[i - 1], back[i], since)
    IN  listed[Len(snapshot)]

Poll ==
    /\ reply = NoReply
    /\ reply' = Answer(cursor)
    /\ UNCHANGED <<frame, node, cursor, got>>

\* Every row goes to on_event, whatever that raises.
Receive ==
    /\ reply # NoReply
    /\ got' = got \o [i \in DOMAIN reply.rows |-> reply.rows[i].event]
    /\ cursor' = Later(reply.last, cursor)
    /\ reply' = NoReply
    /\ UNCHANGED <<frame, node>>

\* A timeout, a broken connection, a status other than 200.
ReplyLost ==
    /\ reply # NoReply
    /\ reply' = NoReply
    /\ UNCHANGED <<frame, node, cursor, got>>

RestartClient ==
    /\ got # <<>>
    /\ cursor' = 0
    /\ reply' = NoReply
    /\ got' = <<>>
    /\ UNCHANGED <<frame, node>>

-----------------------------------------------------------------------------
FrameGoesOn == Refresh \/ NextFrame

FeedNext ==
    \/ Decode \/ Mirror \/ Hit \/ Manual \/ Clear
    \/ FrameGoesOn
    \/ RestartNode
    \/ Poll \/ Receive \/ ReplyLost
    \/ RestartClient

\* Frames go on, the client keeps polling, and not every reply is lost.
Fairness ==
    /\ WF_feedVars(FrameGoesOn)
    /\ WF_feedVars(Poll)
    /\ SF_feedVars(Receive)

FeedSpec == FeedInit /\ [][FeedNext]_feedVars /\ Fairness

-----------------------------------------------------------------------------
(* Properties *)

Rows == [event : Nat \ {0}, serial : Nat \ {0}]

FeedTypeOK ==
    /\ phase \in {"decode", "mirror", "hits"}
    /\ {conf, log, snapshot} \subseteq Seq(Rows)
    /\ numbers \in Seq(Nat \ {0})
    /\ {serial, restarts, cursor} \subseteq Nat
    /\ reply = NoReply \/ reply \in [rows : Seq(Rows), last : Nat]
    /\ got \in Seq(Events)

\* No earlier event, of this program run or one before, had such a number.
Fresh(e) == \A d \in Events : d < e => numbers[d] < numbers[e]

Received == {got[i] : i \in DOMAIN got}

Within(e, rows) == \E i \in DOMAIN rows : rows[i].event = e

(***************************************************************************)
(* The cursor passes no row by: a row in the snapshot that the server will *)
(* not send any more has been received.  Only a restart of the node, which *)
(* gives numbers again, can take a row from the controller (Fresh).        *)
(***************************************************************************)
NothingSkipped ==
    /\ FeedTypeOK
    /\ \A e \in Events :
           Within(e, snapshot) /\ Fresh(e) /\ numbers[e] <= cursor => e \in Received

(***************************************************************************)
(* main_window.cpp:1965-1968, "never receives the same row twice", and     *)
(* more: what a reply brings is newer than all that was received before,   *)
(* also when replies are lost and the node restarts in between.            *)
(***************************************************************************)
RepliesAdvance ==
    [][Receive => \A i, j \in DOMAIN got' : i <= Len(got) /\ Len(got) < j => got'[i] < got'[j]]_feedVars

(***************************************************************************)
(* A row that a save kept reaches the controller, unless newer rows push   *)
(* it out of the tail or the operator clears the log before.               *)
(***************************************************************************)
SavedArrives ==
    \A e \in 1 .. MaxEvents :
        (e \in Events /\ Within(e, First(TailSize, conf)) /\ Fresh(e))
            ~> (e \in Received \/ ~Within(e, First(TailSize, conf)))

=============================================================================
