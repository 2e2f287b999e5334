# Verification of Predator RF

TLA+ models of the parts of Predator RF where threads, callbacks, messages and
operators meet, TLC runs over small instances, and TLAPS proofs for all
instances. Everything is translated from the source under `src/`; `PROJECT.json`
maps each definition to its lines.

Run a check with `tlc -config X.cfg M` (the pairs are in the tables below) and a
proof with `tlapm M.tla`.

- [The system](#the-system)
- [What is modelled](#what-is-modelled)
- [Runs](#runs), [bounds](#bounds), [fairness](#fairness)
- [Proofs](#proofs)
- [Disagreements found](#disagreements-found)
- [Not modelled, and the plan](#not-modelled-and-the-plan)

## The system

Predator RF is a fork of SDR++ (C++), a backend in Python and an Android shell.
A node runs the C++ program: a source feeds IQ samples through a splitter into
an FFT and into VFO channels, each of which feeds a demodulator or a decoder. A
backend polls a fleet of nodes over HTTP (the "Kujhad" protocol), fuses their
events into emitter tracks, assesses them, and acts: it gives nodes custody of
emitters, re-tunes nodes, and sends beacons to a TAK network.

| Component | State | Operations | Meets | Correct when |
|---|---|---|---|---|
| Hold list (`hold_manager.h`) | entries, runtime records | add, remove, enable, tick | VFO manager, binder, config | `vfo_active` is the truth; VFOs sit on their frequency; removed entries are released |
| Decoder binder (`hold_decoder_binder.h`) | active bindings | preTick, postTick | module manager, binding registry | no handler outlives its VFO; no binding outlives its instance |
| Custody election (`custody_election.py`, `.h`) | last decision per track | elect, forget | tracks, fleet, assessments API | custody is bounded, handovers overlap and end, gates hold |
| DSP stream and block (`stream.h`, `block.h`) | two buffers, two flags with a condition each, a thread per block | swap, read, flush, start, stop | each other | no shared buffer, no lost wakeup, no lost or doubled block, stop returns |
| IQ front end (`iq_frontend.cpp`, `chain.h`, `splitter.h`, `rx_vfo.h`) | preprocessors in use, bound streams, channels | add, remove, reconfigure a VFO; switch a preprocessor; change the rate | user interface, decoders | no thread on freed streams; blocks stay in order; everybody is fed |
| Input and audio buffers (`frame_buffer.h`, `ring_buffer.h`) | a ring of blocks, stop flags | write, read, stop, flush | source, sinks | stop returns; blocks leave in order |
| CoT approval (`approvals.py`) | items, order | enqueue, approve, reject, expire | escalation, emitter, store | one decision per item, recorded; nothing unapproved goes out |
| CoT emitter (`cot_emitter.py`) | last emission per emitter | emit_track | approvals, events | per-emitter rate limit |
| AutoTasker (`auto_tasker.py`) | last tune per node, tune times | handle_assessment, tune | fleet client, node | two limits hold, failed tunes give back their slots |
| Device server (`main_window.cpp`) | pending commands | accept, run in a frame | HTTP clients, radio | what is acknowledged is run, in order |
| Event log and feed (`main_window.cpp`, `kujhad_client.py`) | log, snapshot, serial, cursor | frame, save, poll, receive | decoders, peers, fusion | no row is passed by, none comes twice |
| Tracks (`track_manager.py`, `track_associator.py`, `cross_station_dedup.py`) | tracks, frequency index | ingest, age, merge, dedup, replay | everything downstream | a track is found where it was heard; no observation is lost |
| Missions, overrides (`missions.py`, `overrides.py`) | active mission, lists | start, end, add, remove, rehydrate | store | one mission runs; what a call did survives a crash |
| TDOA, stationarity, sweep | measurements, fix history, phase | record, solve, evaluate, plan | tracks, fleet | stale input is not used, coverage is complete |
| Reticulum transport (`backend/rns`) | links, nonces | command, acknowledge | radios, backend | a command runs at most once |

The hard behaviours are: DSP threads against the user interface that starts and
stops them; one frame of the user interface that mutates three registries in an
order that must match; asyncio tasks that read state before an await and write
it after; operators whose decisions race timers; answers that are lost after
the work was done; and restarts that bring back what another part persisted.
`PROJECT.json` lists each one under `hazards` at its line, with the properties
that would catch it, or the reason why none does yet.

## What is modelled

### HoldLifecycle (implements StreamCustody)

One node's hold list, binder, binding registry, decoder instances and VFOs. The
user interface thread runs everything, but a frame has three points between
which the world can change, kept in `pc`: `ui` (operator edits, module menu,
retunes, restart), `tick` (after `PreTick`) and `post` (after `Tick`). `snap` is
the window the frame took at its start, `tuned` the source's current one:
`main_window.cpp:3010-3012` takes the snapshot precisely because they may
differ. Frequencies are small integers, `WantsVfo` is `HoldManager`'s in-band
test with the decoder's passband. `Restart` writes and re-reads the configuration, with the
instances the module menu persisted. `StreamCustody` is the promise: a stream is
never closed under a reader.

### CustodyElector

`decision[t]` is the elector's cached decision. `Event` is the synchronous part
of `_on_rf_event`: it counts loads over active tracks and elects; `ViewAssessment`
is the API's election without loads. A deadline is kept as the time left and a
fix as its age, so that `Tick` can go on for ever with finitely many states. The
soft score is a bounded `merit` that reports may change, plus the load
component, which shrinks with every track the node serves; the hard gates are modelled as written.

### DspStream (implements BlockChannel) and IqFrontEnd

`DspStream` takes one `dsp::stream` apart to its critical sections: the writer's
swap (test, sleep, exchange, publish, notify), the reader's read and flush, and
the control thread's stop (raise the flag, notify, join, clear). A condition
variable may wake spuriously. Buffers hold a block, or `Torn` while the writer
works. `BlockChannel` is the promise: a channel with room for one block, which
the reader takes whole, once, in order.

`IqFrontEnd` uses that result: a stream there is a place that is full or empty,
`at` says where each worker waits and `stops` which workers were told to stop.
It adds what one stream cannot show: a chain of preprocessors that are switched
while it runs, the splitter that writes several streams in turn, channels in
series, and user interface operations that are programs of connect, bind,
unbind, stop, join, start and delete steps (`ui` is what is left of the current
one), interleaved with all workers. `input` is the stream a block of the chain
reads; two blocks may come to share one, and then a stop of one reaches the
other's read, since the flag belongs to the stream. The source always has
samples; that it may be slow adds no behaviour, as no worker has to move. The
decimator is on or off from the start, since the menu offers decimation only
while no samples come.

`registered` is the input list of a decoder's handler block. Each `init()` adds the
present stream and nothing takes one off, and a stop raises and clears the read flag
of every stream on the list; removing the VFO makes its stream there a freed one, and
a stop that finds one is what `OnlyLiveStreams` forbids. `AttachHandler` is the decoder's start with its `init()`, `DeleteDecoder` the
deletion of the instance with its list. The decoders modelled are those bound to a
hold, which the binder deletes before their VFO; a decoder with a VFO of its own is
left out (see [below](#not-modelled-and-the-plan)).

### CotApproval

Escalations are numbered in the order they are spawned. An action is the code
between two awaits that suspend. `Escalate` is an event that escalates and spawns
its task, of any emitter: which emitters are friendly or cause an escalation is
not part of the state. `Enqueue` is the task with compaction and eviction; `Approve` runs the callback
up to the hop into the sending thread, so it includes the rate limit check;
`SendDone` and `SendFailed` are the resumption and the start of `_emit_terminal`;
`RecordTerminal` is the row. `manual` is the configuration flag, read once at
start; without it the spawned task is the emission itself (`AutoEmit`). `sinceGate` keeps the stamp a send took at its
gate, which becomes `_last_emit` when the send is over.

### AutoTasker

One numbered task per recommended node. `Skip`, `Post` and `Withdraw` are
`_tune_one` up to its network await, by what stops it; `Issued` and `Failed`
are its end. The network carries a command, loses it, or delivers it after the
client gave up. `Accept` is the device server's handler, `Frame` the next frame
of the node's user interface. `_last_tune` holds the tune whose `now` it is, so
that the comparison `== now` of the release is a comparison of tunes. The
window, 60 seconds in the code, is at least the interval and the timeout; this
is only so that ages can saturate.

`Monitored` is empty because no line of the backend fills
`center_frequencies_monitored` of a client's node.

### TrackTable

The tracks of a backend, as records of frequency, first and last time, count,
origin, and whether lost. `Associate` and `Create` are the two
outcomes of `ingest` with the row that follows; the candidates come from the
frequency index as the code finds them, and what scores decide is left to
choice, except where frequency and time alone suffice. `order` is the insertion
order of the dictionary, because both merge passes are nested loops over it.
They are `Pairwise`, a recursive function over the rows of pairs and one over the
pairs of a `Row`, and hold on to the objects of removed tracks, as Python does.
What is left of the table after a pass or an ageing is any sequence of the
remaining tracks in the old order (`Without`), of which there is one. `Restart`
replays the rows. `count` is what the properties balance.

### OperatorRecords

Missions and overrides as one map from records to values, once in memory and once
in the store, with the writes that threads still carry. `Issue` is the hop into a
thread; `Written` and `WriteFails` end it. `starting` holds the starts that await
their own write of the end of their predecessor, with the lock; older writes of that
mission may still be under way when they go on. `unsure` is the set of records whose
last write overlapped another or failed: the store may hold anything the calls
wrote, and the properties are about all other records. `Restart` may happen
anywhere and resumes the oldest active row, as `_rehydrate` does.

### EventFeed

One node's log of events and one client of it. A frame has three points at
which it differs: decoders add and save, then the snapshot is taken, then peers'
rows, hits and the operator's own rows are added (`phase`). `conf` is the log in
the configuration, which is what the next frame starts from, so rows that no save
kept are gone. `numbers` remembers the serial of each row ever made, because
serials start again with the program. A poll and the reply's making are one step;
the reply then arrives or is lost.

### MC modules

`MCHoldLifecycle`, `MCCustodyElector`, `MCDspStream`, `MCIqFrontEnd`,
`MCCotApproval`, `MCAutoTasker`, `MCTrackTable` and `MCOperatorRecords` name model
values and the small sets the configurations use. `EventFeed` has numbers for
constants only and is run as it is; its specification is `FeedSpec`, because
`SightingProofs` extends it beside `TrackTable`.

## Runs

| Run | Module, configuration | Shows |
|---|---|---|
| hold | `MCHoldLifecycle`, `Hold.cfg` | the list agrees with the VFOs, every decoder is wanted and bound, the refinement of `StreamCustody`; with retunes inside a frame, menu edits, failed constructions and restarts, what is removed is released and what is wanted is served |
| custody | `MCCustodyElector`, `Custody.cfg` | bounded custody, windows that keep their deadline, dangerous tracks only for nodes with clock and fix; two tracks compete through the load score and handovers end |
| custody_settles | `MCCustodyElector`, `CustodySettles.cfg` | violation: custody alternates for ever |
| dsp_stream | `MCDspStream`, `DspStream.cfg` | no torn read, no lost wakeup, workers match blocks, refinement of `BlockChannel`; a stop returns, running blocks keep passing blocks on |
| front_end | `MCIqFrontEnd`, `FrontEnd.cfg` | nobody works on freed streams, nor does a stop reach one through a handler's list of inputs; two preprocessors stay in order; operations end; everybody is fed when the VFO is read |
| frontend_stall | `MCIqFrontEnd`, `FrontEndStall.cfg` | violation: an unread VFO stops the others |
| frontend_chain | `MCIqFrontEnd`, `FrontEndChain.cfg` | violation: three preprocessors do not stay in order |
| approval | `MCCotApproval`, `Approval.cfg` | two keys, one decision, order and eviction, the limiter backed by sent beacons, every escalation decided and recorded |
| tasker | `MCAutoTasker`, `Tasker.cfg` | both limits in every window, slots accounted for, the last acknowledged tune decides |
| tracks | `MCTrackTable`, `Tracks.cfg` | a track is found where it was heard last; observations are counted once, but by a merge pass that does not meet the tracks oldest first; one merge pass is enough; deduplication folds each track it removes into one older track of another station, never in a chain |
| records | `MCOperatorRecords`, `Records.cfg` | store and memory agree but for overlapping and failed writes; one mission runs; what a call did survives a restart |
| event_feed | `EventFeed`, `Feed.cfg` | no row is passed by, replies only go forward, saved rows arrive |

Every property of a passing run has a mutant: a definition with a plausible
mistake, kept next to the original and marked "Mutant", under which TLC finds
the property violated. Mutant definitions are used by nothing else.

### Bounds

- Hold: two ids (`MaxId`), both of which may be on the list (`MaxEntries`), two
  frequencies and two windows chosen so that one frequency fits both windows but
  the decoder's wider passband only one. Two ids let an entry be removed and another
  take its place in one frame, and two entries live side by side.
- Custody: two nodes, two tracks and one place each: the smallest instance in
  which primary, outgoing node and the competition for load all occur; a window of
  two ticks is entered, partly used, and left. With one place there are no backups:
  the run shows that none is tasked beyond it, and `CustodyIsBounded` that for every K.
- Stream: two blocks of data tell which one arrives; the stream has two buffers
  by construction. No counter is bounded.
- Front end: one VFO next to the FFT branch, one to change and one to suffer, and
  two preprocessors in a row, so that each has the other before or behind it. The
  stall needs two VFOs and no preprocessor, the chain's disorder three
  preprocessors and no VFO. No counter is bounded.
- Approval: a queue of two and three escalations of two emitters, so that
  eviction, compaction of a head, and a decided item in the middle all occur;
  ages saturate one tick past the expiry. `MaxItems` is the only bound that
  truncates behaviours; an item that is spent is never used again, so the
  liveness properties are about items that exist.
- Tasker: two nodes, two emitters and a budget of two for three tasks, so that
  the budget binds while nodes are free; the interval is longer than the post
  timeout, as in the code's defaults (30 s and 5 s). `MaxTunes` truncates
  behaviours. Nodes and emitters are interchangeable, which the symmetry uses.

- Tracks: three tracks and three events over frequencies 2, 4 and 6 with buckets
  of 3 and a tolerance of 3, so that a track drifts a bucket away, two of three
  are duplicates of a middle one, and a chain of merges occurs; the clock ticks
  once, events come one tick late. `MaxTracks`, `MaxHeard` and `MaxTime` truncate
  behaviours, so the run does not check deadlock.
- Records: three missions, two operators, one mark with two labels, two ranges,
  two writes in flight: a start may await its predecessor while another call
  overlaps. Operators are interchangeable.
- Feed: a tail of two rows, a log of three, five rows made, two restarts: rows are
  pushed out of both, and numbers are given twice.

### Fairness

- Stream and front end: a thread that can go on does (weak fairness per worker
  and for a stop under way). Nothing is assumed of the user's actions or of the
  input, except in the premise of a property.
- Hold: frames keep coming and run through. The operator owes nothing.
- Custody: no fairness in the specification except for the clock; the event
  stream appears as a premise of the property that needs it.
- Approval: tasks that were spawned run, a hop into a thread comes back (a UDP
  send and a database write end, well or badly), time passes, the expiry loop
  wakes. Nothing is asked of the operator.
- Feed: frames go on, the client polls, and not every reply is lost (strong
  fairness of `Receive`): the client polls for ever every few seconds, and nothing
  is assumed of the nodes' and the operators' own doing.
- Tasker, tracks and records: safety only.

## Proofs

TLAPS checks these for all values of the constants that satisfy the modules'
assumptions.

| Module | Theorem | States |
|---|---|---|
| `HoldLifecycleProofs` | `TypeCorrect`, `ListTruthful`, `DecodersAreWanted`, `BindingsExact`, `Refinement` | types; list and VFOs agree; who decodes is wanted and bound to a living VFO; after a frame the bindings are exact; `StreamCustody` is implemented |
| `CustodyElectorProofs` | `TypeCorrect`, `CustodyIsBounded`, `WindowIsKept`, `GateReadsNow` | types; at most K nodes and one outgoing tasked; a window keeps its node and deadline; the gate of dangerous tracks reads current reports |
| `DspStreamProofs` | `TypeCorrect`, `ReadsWhole`, `WakeupsArrive`, `WorkersLive`, `Refinement` | types; no torn read; no lost wakeup; workers match blocks; `BlockChannel` is implemented |
| `IqFrontEndProofs` | `OnlyLiveTheorem`, `PathTheorem` | nobody works on the streams of a deleted VFO, and no stop reaches one through a handler's list of inputs; two preprocessors stay in order |
| `SightingProofs` (tracks) | `HeardAgainFound`, `ObservationsKept`, `OnePassIsEnough`, `PairsAreFolded` | a track is found where it was heard last; every step but a restart, and a merge pass that does not meet the tracks oldest first, counts each observation once; one merge pass is enough; deduplication folds pairs of two stations, not chains |
| `SightingProofs` (feed) | `NothingIsSkipped`, `RepliesGoOn` | the cursor passes no row by; an answer brings only what is newer than all before it |
| `OperatorRecordsProofs` | `StoreAgreement`, `MissionsAlone`, `Durability` | store and memory agree where the order of writes cannot matter; one mission runs; what returned survives a restart |
| `CotApprovalProofs` | `QueueTheorem`, `RateLimitTheorem`, `DecisionTheorem` | the queue holds what is undecided and nothing goes out unapproved; only what was sent limits the rate; decisions are final |
| `AutoTaskerProofs` | `LimitsTheorem`, `SpacingTheorem`, `LatestRunsTheorem` | the budget counts what it promises to; tunes of a node are spaced; the last acknowledged tune decides |

The arguments, briefly:

- **Hold.** The invariant says between the points of a frame who may still be
  attached to what. After `PreTick` an attached instance's entry exists and is
  wanted under the snapshot, which is the very condition under which `Tick`
  keeps its VFO; that is why the snapshot has to be the same, and the reason the
  invariant has a clause for `pc = "tick"`. A runtime record that says active
  has its VFO at every point, which makes `Tick`'s deletions complete.
- **Custody.** `Ahead`, the order of the ranking, is a strict total order on
  eligible nodes (score, then id). A backup is a node that fewer than K others
  are ahead of; ranks are distinct, so there are at most K such nodes (a
  pigeonhole over the map from node to number of betters). `ElectSound` states
  what one election returns; each action either keeps a decision, replaces it by
  an election's, or lets its window run.
- **Stream.** The invariant ties where each worker is to the two flags and the
  index of the front buffer: while the reader handles, `canSwap` is false, so the
  writer cannot exchange the buffers; a sleeping worker whose condition holds is
  paired with the step that is about to notify it. The refinement maps the
  channel's slot to the front buffer while a block is in transit; `WriterPublish`
  is not the step that puts, the exchange is.
- **Front end.** The invariant follows what is left of the operation of the user
  interface: each remainder of `AddVfo` and `RemoveVfo` comes with what has been
  done (the VFO exists and is unbound, its worker is joined, the splitter is
  joined), and every other operation is a sequence of `Harmless` steps, which
  create, bind, unbind and delete nothing and start only what belongs to a living
  VFO. A joined worker is "off" until an operation starts it, so nothing of a
  deleted VFO can fill or read a stream.
  The streams on a handler's list (`registered`) are living ones because only
  `AttachHandler` adds one, of the VFO it is bound to, and the VFO cannot be deleted
  before `DeleteDecoder` has emptied the list.
- **Path.** `PathInOrder` speaks of the moments between operations, so it is not
  inductive: during an operation the path is torn. The invariant `PathKept` says
  where the rest of the operation leads: which preprocessors run and what each
  block reads once it is done (`RunsAfter`, `ReadsAfter`: the last start, stop or
  connect of a block that is left, or the present state if none is). No step of
  the user interface changes that outcome (`StepKeepsPath`), since it does what
  it says and leaves the list; and every operation that begins with the path in
  order leads to one (`EnableOrder`, `DisableOrder`). These two are where
  `Len(Chain) <= 2` is needed, and where it would fail for three:
  `blockBefore` finds the first enabled block, which is the nearest one only
  while there is no other.
- **Records.** A write under way carries what memory holds, for every record that
  is not `unsure` (`WritesCurrent`); when the last write of such a record ends, the
  store agrees. For the missions, at most one start is between its two halves,
  and the mission it ended is still the active one (`StartsAlone`), so nothing
  else can become active before it goes on.

- **Approval.** Items enter the queue in the order their tasks start, so it is
  increasing, and an enqueue takes a prefix off it: compaction pops decided items,
  eviction decides what it pops. That both are prefixes is why nothing undecided
  gets lost (`EnqueueKeepsSuffix`); the number of items popped is the least
  position of one that stays, which `FirstPosition` finds by the well-foundedness
  of the strict subset order. An item that is being sent has no terminal row yet,
  which excludes a second decision while the send runs.
- **Tasker.** Slots and `_last_tune` are held exactly by the tunes under way or
  acknowledged, so what the checks count is what the promise is about; a release
  finds its own tune's slot or none. For the last theorem the posts to one node
  must not overlap: `PostTimeout < MinInterval` (5 s at `kujhad_client.py:521`, 30 s
  at `auto_tasker.py:55`) makes them serial, and then a node's queue ends with the
  newest command.

- **Tracks.** `FoundWhereHeard` is inductive as it stands. A merge pass is a loop in
  a loop, so its theorems are about every state such a loop can reach: a set of pass
  states that holds the fresh pass and is closed under comparing a pair contains the
  outcome
  (`MergePassRuns`, `DedupPassRuns`). Induction along a loop is by hand, since the
  library's rule takes an operator: a set of positions that has 0 and with each
  position the next has all (`Climb`), because a set of positions that misses one
  misses a first one (`FirstPosition`), and that follows from the
  well-foundedness of the strict subset order. For `OnePassIsEnough` the set says
  that of the pairs compared so far none with both tracks left are duplicates: a
  pair's frequencies and times do not change in a pass, and removed tracks stay
  removed. For `ObservationsKept` it says that the tracks left carry the whole
  sum (`Balanced`); oldest first, the track kept is always the outer loop's, which
  is what a pass that goes on with a removed track would break. Sums over all
  tracks are treated the same way (`SumMoves`). For `PairsAreFolded` the set depends
  on the round (`Folding`): a map says into which track each one has gone by then,
  every track left counts what went into it, and a track whose round is still to
  come has taken none. That last part is why a track that is removed, always one of
  a later round, takes no other with it.

- **Feed.** A cursor is one number, so all depends on which rows can still come
  into view below it. Rows of the log and of the configuration only ever move down
  or go, and a snapshot is taken when the two are the same; so a row older than one
  in the snapshot, and not in it, is below the first `TailSize` places of both for
  good (`SnapshotOnTop`; with the snapshot taken after the unsaved rows it would be
  false). An answer therefore has every row in view that is older than one of its
  rows, unless the cursor is past it (`AnswerWhole`), and that survives whatever the
  node does while the answer travels. From it follow what the theorems need when
  the answer arrives: what the cursor passes was received (`Passed`), and what is
  in view and older than something received lies behind the cursor and will not be
  sent (`Settled`). A new row of the same run has a number above the cursor because
  the cursor never exceeds the numbers given (`CursorGiven`); after a restart of the
  node it may not, which is why `NothingSkipped` speaks of `Fresh` rows. The loop of
  the server over its snapshot is handled like those of the tracks (`AnswerLists`),
  which is why the proofs share a module: the feed brings what the table associates.

Model-checked only: all liveness, which is outside the prover's reach, and
`PathInOrder` for a chain of three, where it is violated (below).

## Disagreements found

Three are violation runs, entries of `findings` that quote the sentence the code
contradicts:

- Front end: a held VFO whose decoder is not rtl433 has no reader; it fills and
  stops the spectrum and all other VFOs (frontend_stall).
- Custody: custody alternates between equal nodes because a track's own load
  counts against its primary (custody_settles).
- Front end: enabling a preprocessor behind two others connects it to the first
  of them: two workers read one stream and the second preprocessor is cut off
  (frontend_chain). With decimation and I/Q correction on, "Invert IQ" does it.

Others the models contain as the code has them, without a run of their own:

- Hold: an instance adopted after a restart is tracked but not bound, so the two
  counts of `docs/predator_hold.md` differ until its entry is released.
- Front end: a preprocessor that is switched off keeps its last block, and delivers
  it when it is switched on again.
- Custody: a second change of primary inside a window drops the first outgoing
  node early; removed nodes stay registered and are still elected.
- Front end: a decoder with a VFO of its own (rtl433) registers its input again at
  each start and deletes the VFO when it is disabled, so a later stop works on a freed
  stream (`main.cpp:226`, `block.h:77-79`, `89-91`). Undefined behaviour; not in
  the model.
- Approval: expired items can be approved until the sweep; two emissions of one
  emitter pass the rate limit together, because it is stamped after the send;
  decided items in the middle of the queue count as back-pressure (`approvals.py:141`
  against 129-133), so an undecided one is dropped from a queue that is not full. (Not
  in the model: a row that cannot be written is given up, `main.py:496-500`.)
- Tasker: a lost answer releases the slot of an executed tune; the already-tuned
  check never fires; friendly emitters are tasked.
- Tracks: when the table is not oldest first, `merge_duplicates` goes on with a
  track it has just removed and observations are lost or counted twice (the case
  that `BooksBalance` names and leaves out); two tracks that only the local fleet heard
  may both be folded into one older track of a peer, whose `upstream_source` stays
  (`cross_station_dedup.py:92-109, 120-130`), though lines 20-21 say that local
  emitters never get merged there; the rows of tracks merged away stay, so a restart brings them
  back and counts them again; a lost track that is heard again stays lost,
  though `OPERATOR_GUIDE.md:417` has it return; merges keep the `upstream_source`
  of one side only, against `track_manager.py:73-75`; deduplication tells neither
  the index nor the elector.
- Missions: a restart between the two writes of a start finds two active rows,
  resumes the older, and the newer stays active beside it (`resumed`); overlapping calls about
  one record may leave the older value in the store.
- Event feed: a restarted node numbers its events from one again, while the rows
  from before keep their numbers, so a client skips new events until the old
  number is reached; rows mirrored from peers, and hits within half a second of
  the last save, are lost with the next frame; a reply lists its rows newest
  first (`main_window.cpp:2145`, against the comment at 1968-1971).

## Not modelled, and the plan

Order of the work, most important first; the first nine are done.

1. Hold subsystem: modelled, checked, proved.
2. Custody election: modelled, checked, proved.
3. DSP stream with its refinement: modelled, checked, proved.
4. IQ front end with its chain: modelled, checked, proved.
5. CoT approval: modelled, checked, proved.
6. AutoTasker: modelled, checked, proved.
7. Tracks: modelled, checked, proved.
8. Missions and overrides with the store: modelled, checked, proved.
9. Event feed: modelled, checked, proved.
10. The event pipeline: who owns TDOA measurements while a solve awaits its
    thread, the track that is fetched again after it, and the shutdown drain.
11. Input buffer and ring buffer, as further refinements of a bounded channel;
    both set a stop flag outside the mutex of the wait.
12. The rtl433 worker with a VFO of its own, whose list of inputs outlives that VFO,
    and the native decoder registry; decimation while paused.
13. Reticulum commands: replay window, acknowledgement, retry.
14. Pure algorithms over bounded inputs: sweep coverage against its revisit
    estimate, stationarity acceptance, TDOA pruning.

Most of the repository's lines are third-party or generated code (`json.hpp`, Dear
ImGui, stb, dsd-fme, rtl_433, mbelib), inherited device drivers, drawing, and
signal processing. The modules are about the part that keeps shared state, which
is small beside it.

Left out for good: signal processing and the numeric parts of intelligence and
TDOA (real arithmetic), drawing, sockets and formatting, device drivers and
vendored libraries. They appear as nondeterministic inputs where the modelled
code reacts to them.
