# Verification of sorotte

Sorotte keeps the media players of a group of people in step. Its server
(`src/crates/sorotte-server`) speaks the Syncplay protocol plus three extensions of its own:
a *playback barrier* that starts a room together, a *readiness coordinator* that decides when
it may start and who owns its pause, and persistent rooms. Its client drives an mpv process,
keeps the lines it owes the server across reconnects, and replaces its own files when it
updates itself. This directory models the parts whose correctness depends on the order of
events, checks them with TLC on small instances and proves the most important statements
about the server and the updater with TLAPS for every instance.

All paths below are relative to `src/crates/sorotte-server/src` unless they start with `src/`.

## 1. Inventory

| Component | State | Operations | Hard behaviour | What makes it correct |
|---|---|---|---|---|
| Playback barrier (`runtime_playback_barrier.rs`) | one lifecycle per room: generation, request, participants' phases, commit revision; tombstones of displaced requests | prepare, recover, ready, started, prepare and started deadline, departure, retirement by a user pause or a selection | delayed and repeated prepares, reconnects, timeouts racing the last confirmation | a start commits once, only when its policy is met; displaced requests never return; every start resolves |
| Readiness coordinator (`runtime_readiness.rs`) | members with intent, role, technical evidence and cached verdicts; gate phase; pause owner; staged transport evidence | attach, detach, cohort reconciliation, intent, legacy ready, technical report, staged user transport | cached verdicts and phases recomputed by hand in every handler; observation and user action in either order | the caches are fresh, no handler forgets to commit, the pause owner tells the truth |
| Session handlers (`runtime_handlers.rs`) | sessions, capabilities, tokens | Hello, Set.*, State, Chat, List | one message runs several subsystems in a fixed order | the subsystems agree on who is in the room |
| Session maintenance (`runtime_maintenance.rs`) | join sequence, timeouts, rooms | disconnect, cleanup, tick, persistence requests | three departure paths with different orders | every path leaves the same cohort |
| Server actor (`actor.rs`, `runtime_api.rs`) | command channel | one command at a time, flush, shutdown | shutdown during a barrier | a handler is atomic |
| Outbound queue (`network.rs`, `backpressure.rs`) | per connection: bounded channel, replaceable periodic state, overload flag; shared depth gauge | dispatch, receive, overload, close | two tasks on two threads, a wait while a lock is held | the client sees dispatch order; nobody waits for ever |
| Network sessions (`network.rs`) | sockets, TLS state | accept, read, write, upgrade | timeouts, half-closed sockets | every session ends |
| Connection admission (`resources.rs`) | counters and their limits | admit, authenticate, release | an early and a final release of the same share | counters are the permits alive |
| Byte budgets (`resources.rs`) | two lock-free counters and a peak | reserve, grow, shrink, roll back, drop | partial reservations seen by others | no byte leaks or is refunded twice |
| Room persistence (`persistence_actor.rs`, `persistence.rs`) | desired effects, wake flag, command queue, SQLite rows | enqueue, wake, scan, transaction, mark, barrier, shutdown, restart | effects superseded during a transaction, failures, deadlines, crashes | what counts as written is written |
| Statistics persistence | append-only snapshots | record | bounded queue | none beyond the queue |
| Frame limits, inbound framing (`frame_limits.rs`, `inbound.rs`) | buffer | read a line | partial frames | a frame is bounded |
| Roster, messages, auth, TLS, compatibility, clock, CLI | - | pure functions, configuration | - | - |
| Client outbox (`src/crates/sorotte-client-core/src/outbox.rs`, `control.rs`) | pending lines with their delivery class, a lease on the front, connection generations | push, supersede, merge, cancel, lease, acknowledge, release, begin a generation | the front is being written by another thread while it is cancelled or superseded | no line is lost, none goes to the wrong connection, what was withdrawn is not retried |
| GUI session transport (`src/crates/sorotte-gui/src/app/runtime_stack`, `runtime_owner`) | the pending Hello, the staged delivery, a slot shared with the TCP worker, worker generations | stage, write, publish, fail, notice a failure, reconnect | replaced workers that still run, receipts that come late | one delivery at a time, and every failure frees it |
| mpv driver (`src/crates/sorotte-player-mpv/src`) | load attempts with owner, state, deadlines and commands; the adapter's projection of what plays | submit, accept, refuse, bind, start, load, end, time out, retire, reconcile, compact, attach | mpv's events, answers and property reads arrive in an order of their own | one owner per entry, one outcome per load, no revoked load plays again |
| Updater (`src/crates/sorotte-gui/src/bin/sorotte-gui-updater.rs`) | journal, prepared files, backups | prepare, replace, commit, roll back, clean up, recover | death or power loss between any two storage calls, calls that fail | the installed files can always be brought back to one release |
| Client synchronisation, GUI views, CLI, media matching, Plex, simulation | - | - | - | not modelled, see section 5 |

How they interact: every connection has a session task that sends lines to the *server
actor*. The actor owns `ServerRuntime` and runs one command to completion, so a handler is one
atomic step over all rooms; it returns the messages and transport actions to dispatch, which
the calling task puts into the *outbound queues* of the recipients under one dispatch-order
mutex. A periodic task asks the actor for the tick, which fires deadlines and timeouts. The
runtime hands room effects to the *persistence worker*, another thread. Admission and byte
budgets are shared by all session tasks without the actor. A client's owner thread stages one
line of its outbox at a time in a slot from which the TCP worker's thread takes it. The mpv
driver talks to mpv over JSON IPC. The updater is a process of its own that runs while the
client does not.

`PROJECT.json` lists every component with its status and, under `hazards`, every place where
the code is exposed to an order of events that tests hardly reach.

## 2. Modules

| Module | Models |
|---|---|
| `RoomRuntime` | the record of the runtime's state for one room: constants, assumptions, value sets, queries |
| `ReadinessGate` | gate phase, pause owner, verdicts, generation of `runtime_readiness.rs` |
| `PlaybackBarrier` | the methods of `runtime_playback_barrier.rs` |
| `RoomReadiness` | cohort, attach and detach, intents, reports, staged transport of `runtime_readiness.rs` |
| `StartGate` | the handlers and the tick as actions over the four modules above; the properties |
| `MCStartGate` | instances of it |
| `StartGateProofs`, `StartCohortProofs`, `StartEarnedProofs` | types and pause authority; lifecycle, cohort and gate; a user's pause and the earned start |
| `OutboundQueue` | one connection's queue, its two tasks and the gauge |
| `ByteBudget` | reservations over the two atomic counters |
| `ConnectionAdmission` | admission under its mutex |
| `SessionDelivery` | the client's outbox, staged delivery, slot and TCP workers |
| `MCTraffic` | one instance of each of the four modules above |
| `TrafficProofs` | admission, budgets, the order of the queue, the delivery of lines |
| `RoomPersistence`, `MCRoomPersistence`, `RoomPersistenceProofs` | the actor, the room worker, the database and crashes |
| `AtomicInstall` | what the updater promises: an atomic replacement |
| `UpdateTransaction`, `MCUpdateTransaction`, `UpdateTransactionProofs` | the journaled replacement that implements it |
| `PlayerLoads` | the load attempts of the mpv driver, with mpv as environment |
| `PlayerReducerProofs`, `PlayerLoadsProofs` | what the reducer's inputs keep; the loads, with adapter and mpv |
| `MCClient` | an instance of `PlayerLoads` and a larger one of `SessionDelivery` |

`MCTraffic` and `MCClient` hold components that share no variable: the initial state chooses
which one a behaviour exercises, and the others stay in their initial states.

### The start gate

A handler of the server calls several methods on `&mut self`, each of which may in turn
commit the start. The methods are operators from a runtime record to the record they leave,
and a handler is their composition in the code's order: `DepartSession`, for instance, is
`timeout_disconnect_messages`, which marks the barrier before it detaches the membership,
whereas `ReplaceSession` (a second Hello on a connection) and `SwitchAway` detach first. The
single variable `rt` is the record. Each action of `StartGate` is one whole handler.

Clients are free. Any member may send any request it knows, any acknowledgement of any
generation or revision published so far, any intent and any report, at any time and as often
as it likes. Lost, late, repeated and reordered messages therefore need no message variable.

What the state leaves out, and why that is faithful:

- *Names.* A user name is identified with its connection. A reconnecting process is another
  connection that presents the first one's token; a restored membership renames the user in
  the pause owner, as the code does. A Hello without a usable token forgets what the old
  token named, because the code issues a new one.
- *Fences of intents.* Epochs, nonces, operation ids and expected revisions of an intent are
  not state. An intent they reject has the effect of `IntentFenced`; one they accept is
  `Intent`. A delayed intent is thus always possible.
- *Ignored input.* A State whose transport revision is stale or that a pending server update
  fences, and a prepare that the new-identity limiter refuses, change nothing of the modelled
  state and are not steps.
- *Seeds.* The legacy readiness that seeds an upgraded membership is nondeterministic.
- *Positions, playlists, files.* Selections are events (`SelectionReset`, `SelectionNoted`);
  seeks are a Boolean.
- *Batches.* A Set message may carry several commands. Each is an action of its own, and
  their free interleaving includes the batch.
- *Quorums* are given normalised to the cohort's size as the code normalises them.
- *The room buffering policy* of the barrier file is not modelled yet.
- *Bounds.* `MaxGeneration`, `MaxSequence` and `MaxTombstones` bound prepares, joins and
  remembered requests in guards; the last is a limit of the code itself.

### The outbound queue

One connection, because queues share nothing but the dispatch-order mutex and the gauge. The
dispatcher's stretch between two awaits, mutex operations or accesses to the channel or gauge
is one action, and so is the session's. A periodic state is a marker in the channel whose
content may be replaced as long as it is the tail; a reliable line seals it. Whether a byte
reservation succeeds is nondeterministic (`ByteBudget` models the counters). The biased
`select!` of the session appears as guards that give an overload priority. The two exits of a
session are modelled: the ordinary close under the mutex, and the drop after an actor error
without it. Telemetry other than the depth gauge is left out, and so is a server shutdown that
cancels a dispatch in the middle of a send.

### Admission and budgets

`ConnectionAdmission` is one action per critical section; a refused connection only counts
telemetry. In `ByteBudget` a reservation first charges the total, then the peer, and rolls the
total back when the peer refuses; each compare-and-swap and each subtraction is one action, so
that others see the intermediate sums.

### Room persistence

`intent` is a history variable: the last effect the runtime asked for. `seen`, `desired` and
`failure` are the arbitration map, `wake` and `queue` the signal, `todo` and `room` the
worker's scan and transaction, `db` the version of each row (0: no row). The step structure is
that of the locks: recording an effect, the swap of the wake flag and the send are three steps
of the actor; receiving, clearing the flag, scanning, the first arbitration, the statement,
the second arbitration, the commit and the mark are steps of the worker, and an effect of the
same room may be recorded between any two. Opening a transaction, a statement and a commit may
fail. Deadlines pass at any time once armed. `Crash` loses all but `db` and restarts as
`replace_persisted_rooms_snapshot` does. Rows have no content but their version, the effects of
a scan are processed in any order (the code uses the order of names), and the statistics worker
and schema migration are not modelled.

### Session delivery

The owner thread, and one thread per connection. `core` is `ProtocolOutbox` with the connection
phase, `gui` the pending Hello and the staged delivery, `slot` the tracked delivery under its
mutex, `workers` where each TCP worker is, `driver` the current worker. An owner action is one
whole pass of the owner over a method; a worker's step ends at each access to the slot, because
other threads act in between. The generation check of a publication and of a failing pump is
taken together with the lock that follows it; the drop of a worker is not: the check and the
failing of the slot are two steps (`DropCheck`, `DropFail`), because this is where another
worker may have started in between. A worker is only replaced after it has reported its error,
so it takes and publishes nothing after that.

What a line says is left out: a line is the numbers of the queued values it carries. A State
carries at most one participant status and one barrier observation (`ready`), which is what
merging and stripping tell apart; the other fields that are merged the same way, and the seek
and playstate rules, are not modelled. Barrier requests and readiness intents supersede in the
same way, so an instance needs only one of the two kinds (`Superseding`). Tokens and leases are
wrapping counters; the model picks a number that is not in use. Pushing a scoped line activates
the generation, as every caller of those methods does, and may happen at any time. A new Hello
with other settings is queued at most once per connection. TLS negotiation, liveness pings,
inbound parsing, terminal failures and giving up after too many retries are not modelled. A
line that was written may still be lost in the network: the protocol has no acknowledgement,
and neither has the model.

### Player loads

`life` is the part of `PlayerLifecycleState` about loads, `adapter` the part of `MpvAdapter`,
`mpv` and `events` the player, which is external: it starts, loads and ends entries and is told
to load and stop by somebody else, at its own pace. Each reducer input of `lifecycle.rs` is an
operator on `life`, and an action of the adapter applies the inputs the code applies, in its
order. A reconciliation reads the playlist in one step and applies it in another; either may
fail. Clocks are countdowns that only `Tick` advances; polling backs off in the code and may be
due at any tick here. Every load replaces mpv's playlist, so it holds at most one entry.

`HandleEvent` handles start-file, file-loaded, playback-restart and end-file, the events that
change loads or the physical projection. mpv restarts playback at the first frame of a file and
after every seek in it, so `MpvRestart` may follow a file-loaded any number of times. `MaxWaiting`
bounds the events that wait when it does; the run lets a restart in when none waits and other
events follow it, the proofs hold for every bound.

Not modelled: seeks and who owns them (but for the playback-restart that ends a seek), provisional and retained end of file, stream recovery,
delivery sequences of batches beyond one batch in flight, playlists of several entries, the
fallback of the baseline read.

Seven observations that are not violations of a stated property:

- An attempt that was quiescent may be retired by the very clock step that precedes the
  acceptance of its successor. It is then not superseded, and when it is compacted the
  successor's `replaced` names nothing (`lifecycle.rs:1204`, "attempt predecessor is missing",
  a debug assertion; `src/docs/TEST_COVERAGE_FINDINGS.md:905` describes a similar case).
  `LoadsAgree` leaves this clause of `assert_invariants` out.
- An external load found by a reconciliation is recorded as loaded when the previous file was
  (`adapter.rs:2464` reads the flag of the old projection). It completes no command, so
  `CompletedMeansLoaded` holds.
- After a failed read and a second load of the same file, two entries may match two attempts,
  and neither is bound until a deadline ends the ambiguity.
- A quiescent attempt whose start was seen is still retired as never started.
- A late file-loaded does not clear `logical_terminal` (`lifecycle.rs:2863`). An attempt that is
  quiescent after its logical end and that such an event makes active again therefore contradicts
  the clause of `assert_invariants` at `lifecycle.rs:1106`, another debug assertion. It takes three
  entries; `LoadsAgree` states the clauses that do not speak of the logical end.
- When a superseding attempt is compacted, its predecessor, if it never was bound, may emit again
  (`lifecycle.rs:950`) but has no time left to be reconciled in. It still counts as an unbound load
  (`has_proactive_unbound_load_attempt`), so the adapter asks mpv until one more reconciliation is
  complete. `PollingHasReason` holds because that reconciliation is due.
- A playback-restart shows the active attempt as loaded whatever the reducer has seen
  (`adapter.rs:4446`, `install_physical_projection(.., true)`, while the reducer's input sets no
  flag, `lifecycle.rs:3035`). After the adapter attached to a running mpv, a seek makes it show the
  external attempt as loaded although `file_loaded_observed` is and stays false. mpv has loaded that
  entry, so this is right about mpv. It may also show an attempt as loaded whose entry mpv never
  loaded, when a playlist read before mpv moved on made it the active one and the restart is of the
  entry made after it. The third part of `SettledProjectionAgrees` says what is left: what is shown
  as loaded is so in the reducer, or mpv has loaded its entry or one made after it.

### The updater

A disk state holds the target, the prepared replacement and the backup of each entry of the
plan, and the journal. A storage call succeeds, fails, or the updater dies before it; `survivors`
is the set of disk states a power loss may leave, which is every state since the last directory
sync, because directory metadata is assumed to reach the disk in order. `TargetUpdateLock` makes
one updater at a time, hence one `pc`. `Platforms` chooses between the two builds of
`atomic_replace_with_backup`: two moves, or one `ReplaceFileW`, which may fail after it has moved
the original to the backup (the last branch of `ReplaceTarget`). Only the Windows build starts a
recovery by itself (`LaunchRecovery`; `launch_pending_update_recovery` returns `Ok(false)`
elsewhere); on Unix the next update recovers first. Edits of the files by others are not modelled.

`AtomicInstall` says what this amounts to for whoever starts the client: files change only until
one point of decision, which finds all of them new, and never after it.
`ImplementsAtomicInstall` maps the journal and the targets to that specification. One case is
excepted by name (`unsynced`): when the sync of the commit record fails, the record may be
durable although the apply rolls back; a death during that rollback leaves a committed journal
over files that are partly old, which recovery refuses for good.

## 3. Runs

| Run | Instance | Shows |
|---|---|---|
| `StartGatePair` | two connections that know the same start, so that either may recover the other's, and that may drop the readiness extension and so become legacy members of a governed room, every member required; they are interchangeable (symmetry); three joins, so that a member may leave or switch rooms and come back; direct intents | `TypeOK`, `BarrierFollowsCohort`, `CachesAreFresh`, `StartIsEarned`, `NoMissedStart` |
| `StartGateMixed` | a capable and a legacy member whose extensions come and go, all members required; initial intents and intents of players | `PreparingHoldsPause`, `StagedEvidenceIsCurrent`, `PauseOwnershipIsTrue`, `CohortFollowsSessions`, `UserPauseYieldsOnlyToUsers`, `StartIsEarned` |
| `StartGateRequests` | a capable member and one without readiness, unsupported members excluded, four competing requests under all policies and timeout actions, players that are blocked for a time or for good, a persistent room, three generations, one tombstone | `LifecycleOnlyAdvances`, `DisplacedStartsStayDisplaced`, `StartsResolve` |
| `Traffic` | five sockets, two addresses, three tight limits; three reservations, two peers, sizes 1 to 3, limits 4 and 5; a queue of capacity 2 with five events; two lines of a client, barrier requests among them, over two connections of which the first may break | `TypeOK`, `AdmissionIsExact`, `BudgetIsExact`, `WrittenInOrder`, `DispatchEnds`, `OverloadEndsSession`, `WithdrawnIsNeverResent`, `ReliableIsDelivered` |
| `RoomPersistence` | two interchangeable rooms, three versions, one command slot, one barrier, a shutdown and a crash | `AppliedIsDurable`, `BarrierIsHonest`, `HealthIsHonest` |
| `RoomPersistenceLive` | as before with two versions and no crash | `EffectIsTried`, `ShutdownEnds` |
| `UpdateTransaction` | a release that replaces, adds, removes and keeps a file, both platforms, two recovery attempts per launch, three failing calls, two deaths or power losses | `TypeOK`, `AlwaysRecoverable`, `ImplementsAtomicInstall`, `JournalIsConsumed` |
| `Client` | three loads of two interchangeable files, two playlist entries, one trouble (a failed read, a refusal, a lost connection, somebody else's load or stop), playback restarts when no event waits; three lines of a client without barrier requests over two connections | `TypeOK`, `LoadsAgree`, `LoadsWillBeAnswered`, `CompletedMeansLoaded`, `SettledProjectionAgrees`, `PollingHasReason`, `RevocationIsPermanent`, `NothingIsLost`, `ScopedStaysOnItsConnection` |

Why the bounds are enough to be interesting: two members are the smallest room in which a
departure, a join or a report of one can complete or spoil the start of the other; both join,
replace each other and leave in every order. Later generations, in `StartGateRequests`, let
evidence and requests of an earlier one arrive late; one tombstone makes the table full. A queue
of two slots is full with one marker and one line, and five events allow a replaced, a sealed
and a refused one. Three versions let one room be superseded in each stage of a transaction
while the other is pending. One command slot makes every second signal meet a full queue. Three
failures and two deaths let an apply fail, its rollback fail and the recovery of that be
interrupted. A third load is superseded by nobody while the first is already compacted. With
three lines two States can be merged behind a line that is being written; a second connection
is where late receipts and scoped lines of the first may go wrong.

Deadlock checking is off where the system may legitimately come to rest: every connection may
leave for good, a server may be shut down, an update may be over, and a client may have used up
its loads or lines.

### Where the code and its documentation disagree

Four runs state what the repository says and find it violated.

- `StartGateUnconfirmed` (`src/docs/READINESS.md:12`): the last member's second Hello first
  dissolves the coordinator and then marks its participant disconnected; the barrier, no longer
  governed and without an eligible participant, commits although nobody confirmed the prepare.
  The same order has a second consequence, against `src/docs/READINESS.md:18`, which has no run
  of its own: when the member who paused switches away or is replaced, the ungoverned barrier
  may resume a pause that a user owned.
- `StartGateInherited` (`src/docs/READINESS.md:40`): a connection that recovers a lifecycle
  inherits its predecessor's `Ready` instead of `Pending`.
- `OutboundGauge` (`network.rs:208`): the queue-depth gauge is incremented after the item is
  visible to the session task. When the session dequeues first, the saturating decrement is
  lost and the gauge stays one too high, against the test assertion at `network.rs:1840` and
  the comment at `network.rs:317`.
- `UpdateTorn` (`src/docs/TEST_COVERAGE_FINDINGS.md:2981`, "Incomplete initial journal writes
  remain disposable"): an updater that dies while it writes the journal's header leaves a
  journal that `recover_pending_update` refuses on every later launch and nothing removes.

Three more have no run of their own; the properties name them where they make an exception.

A recovery asks for the barrier extension only (`runtime_playback_barrier.rs:555`), so a
connection without readiness becomes the initiator and a participant of a governed start, against
the comment at `runtime_readiness.rs:874` ("only clients supporting both extensions are technical
participants"). It is not listed as excluded until some other change of the membership reconciles
the cohort. While that lasts, the published gate may be out of date, and a recovery that fences
the blocking member leaves a start due that nothing commits before the fenced transport is
closed. `BarrierFollowsCohort` therefore excepts the initiator, `CachesAreFresh` a room with a
fenced transport in it, and `NoMissedStart` the step of a recovery.

A session that says Hello again while no coordinator exists leaves its participant entry degraded
as disconnected (`runtime_readiness.rs:992` keeps an entry that is there). The same Hello attaches
a new membership under that entry, and the all-eligible policy passes over it: the start commits
without the member's confirmation, against `src/docs/READINESS.md:12`. `StartIsEarned` therefore
accepts such an entry.

The last shows in `SessionDelivery`. The comment on `stop`
in `transport/tcp.rs:1420` says that a stopped worker "can no longer consume, acknowledge, fail,
or publish data belonging to the replacement worker generation". `fail_pending_outbound_protocol_delivery`
(`transport/handle.rs:323`) checks the generation before it takes the lock, so a worker that is
stopped between the two fails the replacement's delivery. The line is then staged again and may
be written twice on one connection, a Hello too. `NothingIsLost`, `ScopedStaysOnItsConnection`
and `ReliableIsDelivered` hold with this behaviour in the model.

One consequence of the persistence code that no document excludes: a worker that consumes a
wake-up, or a flush, after the barrier's deadline scans nothing, and a wake-up into a full queue
leaves the flag set without a command. Both need a barrier that failed, after which an effect
may stay unwritten until the next change or barrier; `EffectIsTried` says so by excluding
failed barriers.

### Fairness

- `StartGate`: weak fairness of the two deadlines. The tick runs as long as the server does and
  fires whatever is due. Clients are owed nothing.
- `OutboundQueue`: weak fairness of both tasks. They are scheduled by the runtime; every wait
  for capacity has a deadline and every write a timeout.
- `RoomPersistence`: weak fairness of the actor, of the shutdown request (the task that makes it
  is retained until it is served) and of the shutdown's deadline. The worker is owed nothing,
  because it may hang in SQLite: `ShutdownEnds` holds without it, and `EffectIsTried` names the
  worker's fairness as its premise.
- `SessionDelivery`: weak fairness of the owner's loop and of each worker's thread. The loop is
  driven by the interface's timer, the reconnect timer fires, and the server answers a Hello.
  Nobody is owed a queued line or an unbroken connection, but connections break a bounded number
  of times: `ReliableIsDelivered` says that a line gets through once one holds.
- `UpdateTransaction`: weak fairness of the updater's steps and of the launch of a recovery,
  which every start of the client on Windows does. Nobody has to start an update, so on Unix a
  journal may stay: `JournalIsConsumed` speaks of Windows. Failures and deaths are bounded and
  owed to nobody.
- `PlayerLoads` has none: its liveness is stated as the safety property that an open load has a
  running deadline (`LoadsWillBeAnswered`) and that polling has a reason (`PollingHasReason`),
  because a liveness check of its state graph is out of TLC's reach.

## 4. Proofs

All constants are arbitrary within the named assumptions of the modules; every invariant below
was first checked by TLC on the runs of its component.

### The start gate

The operators of the model are methods that handlers compose, so the proofs are lemmas about
methods: which part of the invariant a method keeps, as a relation between the runtime before
and after it, and how such relations compose. A theorem about an action follows its code.

- `StartGateProofs!TypeCorrectness`: `Spec => []TypeOK`. It shows that no branch of any handler
  leaves a record outside its variants, for example a gate phase of an absent coordinator.
- `StartGateProofs!PreparingIsHeld` and `!OwnershipIsTrue`: `PreparingHoldsPause` and
  `PauseOwnershipIsTrue` are invariant. The inductive invariant is `Sound`, whose parts are
  the types, `Authority` (both properties), `Present` (a coordinator's member is a session in
  the room) and `Populated` (a coordinator has a member). The last two are needed because the
  cleanup of an empty room forgets the generation that a pause owner names, so an empty room
  must have no coordinator; and because a commit in a room without coordinator leaves the owner
  alone, so there must be none.
- `StartCohortProofs` adds `Whole`: `Enrolled` and `Cohort` (members, roles, participants and
  exclusions follow the sessions) and `Steady` (a lifecycle is numbered, the coordinator's
  generation is that of the active lifecycle, staged evidence is current, verdicts are fresh,
  no fenced transport owns an active lifecycle). `Coherent`, which is `Sound` and `Whole`, is
  inductive. Most methods satisfy `Follows`, a relation that moves no session and changes no
  role, and what follows keeps all of it. A session on its way in or out breaks `Enrolled` for
  itself between two methods; `Transit` is what remains true meanwhile. The theorems are
  `MembershipFollowsSessions`, `StartFollowsCohort`, `EvidenceIsCurrent`, `LifecycleAdvances`
  and `DisplacedStayDisplaced`, the last two from what each step does to the lifecycle
  (`Advance`, `Displaces`).
- `StartCohortProofs!CachesStayFresh` and `!NoStartIsMissed` need more than an invariant of
  states: that each handler evaluates the room after whatever it changed. The relation `Attends`
  says that a method leaves no start due that was not due and no gate out of date that was not.
  A method that ends in `maybe_commit_readiness_gate` has *settled* the room; one that does not
  must have changed nothing that the gate depends on. The delicate places are the departures and
  legacy joins whose cohort reconciliation finds nothing to change and therefore evaluates
  nothing: there the published exclusions, which list every member that blocks a start, show that
  nothing that blocks has come or gone. `GateHolds` weakens freshness of the gate by `Stale`, the
  presence of a fenced transport, because a recovery fences and evaluates nothing.

  An attempt to prove the earlier, unconditional forms of `BarrierFollowsCohort`,
  `CachesAreFresh`, `NoMissedStart` and `StartIsEarned` failed for instances that the runs did not
  have, namely recoveries in rooms of mixed capabilities; the two disagreements about recovery and
  rejoining in section 3 came out of that, and `StartGatePair` now has such rooms. `StartIsEarned`
  also said that the room a commit leaves has no legacy member; a client that had gained its
  extensions, says Hello again and comes back without them in the very step that commits refutes
  it, and is now excepted as a replaced session.
- `StartEarnedProofs!UserPausesStand` and `!StartsAreEarned` state what one step may do. Both need
  `Orderly` beside `Coherent`: no session has a sequence number that was not handed out, which is
  how a replaced session is told from one that stayed, and a participant of a start in preparation
  waits, has confirmed or is lost, never degraded. `Minds` is the relation of a method that hands
  out no number and leaves a user's pause to the user; joins, which do hand out a number, keep
  `Orderly` and the pause (`Guards`), and a Ready or a transport command is the only step that may
  end the pause. For the earned start, `Justified(s, X, Y)` says that the runtime `s`, if its
  start has committed, deserves it of everyone but the sessions `X` that the step replaces or
  loses, and counts no confirmation of `Y`. The commit establishes it and `Retains` is what every
  method after the commit in the same step satisfies, such as the rest of a departure or of a
  second Hello. It is not an invariant: a member of a committed room may well become unready
  later.

### The others

- `TrafficProofs!WritesKeepOrder` and `!QueueStaysBounded`. Order is inductive only with
  what is in flight: the channel is in order (`ChannelInOrder`), the item a task holds is next
  (`HeldIsNext`, `TasksHold`), the replaceable tail is the last (`TailIsLast`), and what is owed
  is still on its way (`OwedIsOnItsWay`).
- `TrafficProofs!AdmissionCountsPermits`: `AdmissionIsExact`, which is inductive
  with the types. The counts are cardinalities, so each action needs a lemma on how the set of
  permits changes by one.
- `TrafficProofs!BudgetsAreExact`: `BudgetIsExact` and the types. A reservation charges or
  refunds the two counters one after the other and records the peak last; the invariant says which
  way a reservation moves at each of these places (`Moving`) and that a total above the peak has
  somebody who has still to record it (`PeakIsComing`).
  The counters are sums over the reservations; that a sum changes by what one reservation changes
  is proved by an induction over the subsets of a finite set, which is derived from the
  well-ordering of the numbers because the library's induction theorems cannot be used.
- `RoomPersistenceProofs!DurableOnceApplied`, `!BarriersAreHonest` and `!DegradedModeIsHonest`.
  `AppliedIsDurable` says nothing of a transaction in flight; `Inv` adds that the map holds the
  newest effect (`MapFollowsIntent`) and that the database is behind it unless it already has it,
  so that the guard of the SQL statement never refuses a wanted effect; that a scan is never
  ahead (`ScanIsNotAhead`); and that the room of a transaction stays wanted until its mark
  (`TransactionIsWanted`), which is what keeps an old save from reviving a deleted room. After
  a restart it rests on versions continuing above the surviving rows. `Honest` adds what the
  actor concluded, `Health` what the worker knows of failures in the middle of a scan.
- `UpdateTransactionProofs!Recoverability` and `!TransactionIsAtomic`, with `!TypeCorrectness`.
  The invariant describes, for every place in the program, which entries are replaced, backed up
  and prepared (`HeaderPlaces`, `PassPlaces`, `EndPlaces`), and says that every disk state that
  may survive is sound (`SurvivorsSound`). The refinement then maps every storage call, death and
  recovery to a step of `AtomicInstall` or to a stutter.

### The delivery of lines

`TrafficProofs!DeliveryIsInductive` shows that `DeliveryInv` is an invariant, and `!NoLineIsLost`,
`!ScopeIsKept`, `!WithdrawnStaysWithdrawn` and `!DeliveryIsTyped` follow from it. None of the
properties is inductive, because a line is at times in four places that different threads change:
it is at the front of the outbox, leased to the staged delivery, tracked by the slot, and in the
frame of a worker that may be superseded. The invariant follows it through them.

- `OutboxOK`: an entry carries lines of its own kind and, if it is scoped, of the current
  generation (`Genuine`); entries are in the order they were queued (`InOrder`), behind everything
  that is in flight (`Before`), which is why only the front can have been written; what was
  withdrawn and is still there is a leased front marked as cancelled (`Marked`); and every line is
  accounted for (`Accounted`).
- `StagedOK`: a staged delivery is the pending Hello or the leased front, up to its cancellation.
- `SlotOK` and `FramesOK`: the slot tracks the staged delivery, a frame with the slot's token is
  the slot's line, and a result of *written* is true. A frame with an older token may be anything
  that was in flight, and cannot answer for the slot.
- `ConnectionOK`: with `k` connections started the generation is `2k - 2` while one lives and
  `2k - 1` after it failed; the session is active only when the living worker has greeted; and
  what the slot offers fits the connection that can take it.

The outbox removes and keeps entries by predicates. `Select` does that as a recursive function, so
that the proofs can unfold it; that it keeps exactly the entries wanted, in their order, is shown
by an induction over the length. `DeliveryInv` was checked by TLC on 3.0 million states of the
delivery first.

### The loads of the player

`PlayerLoadsProofs!PlayerIsInductive` shows that `PlayerInv` is an invariant. From it follow
`!LoadsStayInAgreement`, `!EveryLoadIsAnswered`, `!CompletionIsEarned`,
`!SettledProjectionIsRight`, `!PollingIsJustified` and `!PlayerIsTyped`; `!RevocationStays` is what
every step satisfies beside it.

- `PlayerReducerProofs` is about the reducer alone. `LifeOK` says what `LoadsAgree` asks of its
  state and what makes that inductive: the shape of every attempt (`AttemptOK`), links that only
  point to older attempts (`LinksOK`), owners and entries that name each other (`OwnersOK`), and
  one attempt that has the transport (`ActiveOK`). Each input of the reducer has a lemma; the fold
  over the deferred starts is unfolded by an induction.
- `QueueOK` speaks of mpv and the events the adapter has not handled: they are the rest of what
  mpv did, in its order, so that an event without an entry is about the entry whose start came
  last.
- `OwnOK` says which entries have owners: none before mpv made it, and none younger than one whose
  start or load has still to be handled. So the start of an owned entry takes the transport from
  nobody, the transport is not behind what plays unless that entry's owner may not have it, and an
  observation kept for later is about an entry without an owner.
- `RestOK` adds `LifeOK`, that at most one load is in flight, and that a completed command's entry
  was loaded, which is `CompletedMeansLoaded`. Since a file-loaded names no entry, that needs
  `QueueOK` and `OwnOK` to show that it is credited to the right one.
- `ShownOK` and `FlagsOK` relate what the adapter shows to the reducer's active attempt: they
  agree, or a flag asks for the reconciliation that repairs it; what is shown as loaded was loaded,
  or mpv has got as far as its entry (`Reached`). These give `SettledProjectionAgrees`
  and `PollingHasReason`.

The assumption on mpv is the one the model makes: it numbers entries once and upwards and tells
its events in the order they happen. `PlayerInv` does not fit a complete run; TLC checked it on
11.4 million states of simulated behaviours before it was proved, and the clauses that the
playback-restart needs on all 2.7 million states of a run in which a restart may wait behind other
events.

### Only model-checked

- All liveness (`StartsResolve`, `DispatchEnds`, `OverloadEndsSession`, `ReliableIsDelivered`,
  `EffectIsTried`, `ShutdownEnds`, `JournalIsConsumed`), which the prover does not treat.
- `TypeOK` of `MCTraffic` and `MCClient` is a conjunction of the components' types for the runs
  that hold several of them; each conjunct is proved for its component.

## 5. Not modelled

The repository has some 280,000 lines, of which the modules cover a small part. Most of the rest
is the graphical interface and its state projections, telemetry and its interpretation, smoke
runners and test tools, media matching (string heuristics), Plex (HTTP), translations and
settings: code without interleavings of its own, or whose correctness is what it computes from
one input, which a unit test reaches.

Of the code that has an order of events, these parts are left out: network sessions and TLS of
the server, frame limits, the statistics worker, the server's command channel; the client's own
synchronisation (drift correction, the client side of readiness and barrier); seeks, end of file
and stream recovery of the mpv driver; the updater's bootstrap helper and package checks. The
notes in `PROJECT.json` say for each component what is missing. Encodings are serde's; hashing
and certificates belong to libraries; message construction is pure and has no state.

## 6. Plan

1. Done: the start gate, admission, budgets, outbound queue, room persistence, the updater with
   its refinement, the loads of the mpv driver, the delivery of a client's lines.
2. Done: proofs of all safety properties that the passing runs check, as invariants, action
   properties or, for the updater, a refinement. Left: nothing but liveness.
3. Readiness fences: epochs, nonces, operation ids and expected revisions of
   `apply_readiness_intent` as a module of their own, with the abstract statement that an
   accepted intent is applied once and in order, and the refinement of that statement.
4. The room buffering policy and the new-identity limiter of the barrier file.
5. Network sessions: transport actions of a failed batch, closes of superseded transports,
   the error exit that leaves a runtime session to its timeout, server shutdown.
6. The actor's command channel and shutdown, composed with `RoomPersistence`; an abstract
   durable store that `RoomPersistence` implements.
7. Seeks and end of file in `PlayerLoads`; the client's side of the barrier, composed with
   `SessionDelivery`.
