--------------------------- MODULE RoomPersistence ---------------------------
(***************************************************************************)
(* How persistent rooms reach the database (crates/sorotte-server/src/     *)
(* persistence_actor.rs with its submodules, persistence.rs, and the       *)
(* barrier of actor.rs).  The server actor records the newest effect of    *)
(* each room in a map behind a mutex and wakes a worker thread through a   *)
(* flag and a bounded command queue; the worker scans the map, asks it     *)
(* again before and inside each transaction, commits and marks.            *)
(*                                                                         *)
(* A step is what happens between two points where the other thread can    *)
(* intervene: one critical section, one atomic access, one queue operation *)
(* or one commit.  The process may crash between any two of them.          *)
(***************************************************************************)
EXTENDS Naturals, Sequences, FiniteSets

CONSTANTS
  Rooms,
  QueueCapacity,  \* of the worker's command queue
  MaxVersion,     \* bound on the versions the model hands out
  MaxBarriers,    \* bound on the durability barriers the model asks for
  MaxCrashes      \* bound on the crashes of the process

ASSUME RoomsAssumption == IsFiniteSet(Rooms)

ASSUME PersistenceBounds ==
  /\ QueueCapacity \in Nat \ {0} /\ MaxVersion \in Nat
  /\ MaxBarriers \in Nat /\ MaxCrashes \in Nat

Effects == [kind : {"None", "Save", "Delete"}, version : Nat]
NoEffect == [kind |-> "None", version |-> 0]

Commands == [kind : {"Wake", "Flush", "Shutdown"}, id : Nat]
Wake == [kind |-> "Wake", id |-> 0]
Shutdown == [kind |-> "Shutdown", id |-> 0]

VARIABLES
  names,      \* persisted_room_names of the runtime
  next,       \* next_room_persistence_version of the runtime
  intent,     \* history: the last effect the runtime asked for, or what it loaded
  seen,       \* highest_seen_version of each room, 0 when the map has no state for it
  desired,    \* desired_effect of each room
  failure,    \* unresolved_failure_version of each room, 0 for None
  wake,       \* WorkerControl.wake_pending
  stop,       \* WorkerControl.stop
  deadline,   \* WorkerControl.deadline: "None", "Armed" or "Passed"
  terminal,   \* WorkerControl.shutdown_deadline
  queue,      \* the worker's command queue
  degraded,   \* worker_degraded
  actor,      \* where the server actor is
  closing,    \* whether its barrier is the one of the shutdown
  barrier,    \* number of the actor's last durability barrier
  settled,    \* what the barrier's flush concluded
  result,     \* what the last barrier returned
  acked,      \* the last barrier that the worker acknowledged
  worker,     \* where the worker is
  command,    \* the command it executes
  todo,       \* the rest of its scan: effects by room
  room,       \* the room of its transaction
  applied,    \* applied_any
  db,         \* version of each room's row, 0 for no row
  crashes

runtime == <<names, next, intent>>
map == <<seen, desired, failure>>
control == <<stop, deadline, terminal>>
caller == <<actor, closing, barrier, settled, result>>
scan == <<todo, room, applied>>
vars == <<runtime, map, wake, control, queue, degraded, caller, acked, worker, command,
          scan, db, crashes>>

Nothing == [r \in Rooms |-> NoEffect]
Zero == [r \in Rooms |-> 0]

\* The row that an effect leaves behind.
RowOf(effect) == IF effect.kind = "Save" THEN effect.version ELSE 0

Init ==
  /\ names = {} /\ next = 0 /\ intent = Nothing
  /\ seen = Zero /\ desired = Nothing /\ failure = Zero
  /\ wake = FALSE /\ stop = FALSE /\ deadline = "None" /\ terminal = "None"
  /\ queue = <<>> /\ degraded = FALSE
  /\ actor = "Idle" /\ closing = FALSE /\ barrier = 0 /\ settled = FALSE /\ result = "None"
  /\ acked = 0 /\ worker = "Start" /\ command = Wake
  /\ todo = Nothing /\ room \in Rooms /\ applied = FALSE
  /\ db = Zero /\ crashes = 0

-----------------------------------------------------------------------------
(* The server actor: recording an effect.                                  *)

\* `RoomPersistenceArbitration::enqueue`.
Arbitrate(r, effect) ==
  IF effect.version <= seen[r]
  THEN UNCHANGED map /\ actor' = actor
  ELSE /\ seen' = [seen EXCEPT ![r] = effect.version]
       /\ desired' = [desired EXCEPT ![r] = effect]
       /\ failure' = [failure EXCEPT ![r] = 0]
       /\ actor' = "Waking"

\* `RoomPersistenceService::enqueue` with a version of its own.
Enqueue(r, kind) ==
  LET effect == [kind |-> kind, version |-> next + 1]
  IN /\ actor = "Idle" /\ next < MaxVersion
     /\ next' = next + 1
     /\ intent' = [intent EXCEPT ![r] = effect]
     /\ Arbitrate(r, effect)
     /\ UNCHANGED <<wake, control, queue, degraded, closing, barrier, settled, result, acked,
                    worker, command, scan, db, crashes>>

\* `persist_room_at_if_needed`.
SaveRoom(r) == names' = names \cup {r} /\ Enqueue(r, "Save")

\* `delete_persisted_room_if_needed`.
DeleteRoom(r) == r \in names /\ names' = names \ {r} /\ Enqueue(r, "Delete")

\* `wake`: the flag is swapped first, and only its first setter signals.
SwapWake ==
  /\ actor = "Waking"
  /\ wake' = TRUE
  /\ actor' = IF wake THEN "Idle" ELSE "Signalling"
  /\ UNCHANGED <<runtime, map, control, queue, degraded, closing, barrier, settled, result,
                 acked, worker, command, scan, db, crashes>>

\* Fault: the signal is sent without regard to the queue's capacity.
UnboundedSignalWake ==
  /\ actor = "Signalling"
  /\ actor' = "Idle"
  /\ queue' = Append(queue, Wake)
  /\ UNCHANGED <<runtime, map, wake, control, degraded, closing, barrier, settled, result,
                 acked, worker, command, scan, db, crashes>>

\* A full queue counts as a signal; a worker that is gone is a failure.
SignalWake ==
  /\ actor = "Signalling"
  /\ actor' = "Idle"
  /\ queue' = IF worker # "Exited" /\ Len(queue) < QueueCapacity
              THEN Append(queue, Wake) ELSE queue
  /\ degraded' = (degraded \/ worker = "Exited")
  /\ UNCHANGED <<runtime, map, wake, control, closing, barrier, settled, result, acked,
                 worker, command, scan, db, crashes>>

-----------------------------------------------------------------------------
(* The server actor: durability barriers.                                  *)

Late == deadline = "Passed" \/ terminal = "Passed"

\* FlushPersistence, or Shutdown once `begin_shutdown` has set the terminal deadline.
StartBarrier(last) ==
  /\ actor = "Idle"
  /\ IF last THEN terminal # "None" ELSE barrier < MaxBarriers
  /\ actor' = "Sending" /\ closing' = last
  /\ barrier' = barrier + 1
  /\ deadline' = "Armed"
  /\ UNCHANGED <<runtime, map, wake, stop, terminal, queue, degraded, settled, result, acked,
                 worker, command, scan, db, crashes>>

\* `flush_until` has its answer.
Conclude(answer) == settled' = answer /\ actor' = "Concluding"

\* `send_until` retries a full queue until the deadline.
SendFlush ==
  /\ actor = "Sending"
  /\ \/ /\ worker # "Exited" /\ Len(queue) < QueueCapacity
        /\ queue' = Append(queue, [kind |-> "Flush", id |-> barrier])
        /\ actor' = "Waiting" /\ UNCHANGED settled
     \/ /\ worker = "Exited" \/ (Len(queue) = QueueCapacity /\ Late)
        /\ Conclude(FALSE) /\ UNCHANGED queue
  /\ UNCHANGED <<runtime, map, wake, control, degraded, closing, barrier, result, acked,
                 worker, command, scan, db, crashes>>

\* `is_settled`, asked after the acknowledgement.
IsSettled == \A r \in Rooms : desired[r] = NoEffect /\ failure[r] = 0

\* Fault: the acknowledgement alone is taken for durability.
TrustingAwaitFlush ==
  /\ actor = "Waiting"
  /\ \/ acked = barrier /\ Conclude(TRUE)
     \/ acked # barrier /\ (worker = "Exited" \/ Late) /\ Conclude(FALSE)
  /\ UNCHANGED <<runtime, map, wake, control, queue, degraded, closing, barrier, result, acked,
                 worker, command, scan, db, crashes>>

\* Fault: the barrier waits for the worker without a deadline.
PatientAwaitFlush ==
  /\ actor = "Waiting"
  /\ \/ acked = barrier /\ Conclude(IsSettled)
     \/ acked # barrier /\ worker = "Exited" /\ Conclude(FALSE)
  /\ UNCHANGED <<runtime, map, wake, control, queue, degraded, closing, barrier, result, acked,
                 worker, command, scan, db, crashes>>

\* The acknowledgement, a worker that dropped it, or the deadline.
AwaitFlush ==
  /\ actor = "Waiting"
  /\ \/ acked = barrier /\ Conclude(IsSettled)
     \/ acked # barrier /\ (worker = "Exited" \/ Late) /\ Conclude(FALSE)
  /\ UNCHANGED <<runtime, map, wake, control, queue, degraded, closing, barrier, result, acked,
                 worker, command, scan, db, crashes>>

Verdict(good) == IF good THEN "Durable" ELSE "Failed"

\* An ordinary barrier clears its deadline and hands the service back.
EndBarrier ==
  /\ actor = "Concluding" /\ ~closing
  /\ deadline' = "None"
  /\ result' = Verdict(settled) /\ settled' = FALSE
  /\ actor' = "Idle"
  /\ UNCHANGED <<runtime, map, wake, stop, terminal, queue, degraded, closing, barrier, acked,
                 worker, command, scan, db, crashes>>

\* `finish_until`: the flag, then a signal that a full queue drops.
StopWorker ==
  /\ actor = "Concluding" /\ closing
  /\ stop' = TRUE /\ actor' = "Stopping"
  /\ UNCHANGED <<runtime, map, wake, deadline, terminal, queue, degraded, closing, barrier,
                 settled, result, acked, worker, command, scan, db, crashes>>

SignalStop ==
  /\ actor = "Stopping"
  /\ actor' = "Joining"
  /\ queue' = IF worker # "Exited" /\ Len(queue) < QueueCapacity
              THEN Append(queue, Shutdown) ELSE queue
  /\ UNCHANGED <<runtime, map, wake, control, degraded, closing, barrier, settled, result,
                 acked, worker, command, scan, db, crashes>>

\* The worker is joined, or retained unjoined after the last deadline.
JoinWorker ==
  /\ actor = "Joining"
  /\ \/ worker = "Exited" /\ result' = Verdict(settled)
     \/ worker # "Exited" /\ terminal = "Passed" /\ result' = "Failed"
  /\ actor' = "Stopped"
  /\ UNCHANGED <<runtime, map, wake, control, queue, degraded, closing, barrier, settled, acked,
                 worker, command, scan, db, crashes>>

\* `shutdown_with_timeout` installs the terminal deadline at any time, also during an
\* earlier barrier.
BeginShutdown ==
  /\ terminal = "None"
  /\ terminal' = "Armed"
  /\ UNCHANGED <<runtime, map, wake, stop, deadline, queue, degraded, caller, acked, worker,
                 command, scan, db, crashes>>

DeadlinePasses ==
  /\ deadline = "Armed" /\ deadline' = "Passed"
  /\ UNCHANGED <<runtime, map, wake, stop, terminal, queue, degraded, caller, acked, worker,
                 command, scan, db, crashes>>

TerminalPasses ==
  /\ terminal = "Armed" /\ terminal' = "Passed"
  /\ UNCHANGED <<runtime, map, wake, stop, deadline, queue, degraded, caller, acked, worker,
                 command, scan, db, crashes>>

-----------------------------------------------------------------------------
(* The worker thread.                                                      *)

Expired == stop \/ Late

\* The worker gives up at once when it cannot install its busy handler.
StartWorker ==
  /\ worker = "Start"
  /\ worker' \in {"Receiving", "Exited"}
  /\ UNCHANGED <<runtime, map, wake, control, queue, degraded, caller, acked, command, scan,
                 db, crashes>>

\* `recv`, and the stop flag; the channel closes when the stopped actor drops it.
Receive ==
  /\ worker = "Receiving"
  /\ \/ /\ queue # <<>>
        /\ queue' = Tail(queue) /\ command' = Head(queue)
        /\ worker' = IF stop THEN "Exited" ELSE "Received"
     \/ /\ queue = <<>> /\ actor = "Stopped"
        /\ worker' = "Exited" /\ UNCHANGED <<queue, command>>
  /\ UNCHANGED <<runtime, map, wake, control, degraded, caller, acked, scan, db, crashes>>

\* Fault: the flag is never cleared.
StuckClearWake ==
  /\ worker = "Received"
  /\ worker' = "Scanning"
  /\ UNCHANGED <<runtime, map, wake, control, queue, degraded, caller, acked, command, scan, db,
                 crashes>>

\* A Wake clears the flag before the scan, so that a later effect signals again.
ClearWake ==
  /\ worker = "Received"
  /\ wake' = (wake /\ command.kind # "Wake")
  /\ worker' = "Scanning"
  /\ UNCHANGED <<runtime, map, control, queue, degraded, caller, acked, command, scan, db,
                 crashes>>

\* `apply_desired_room_effects`: nothing after a deadline, else the effects of the map.
Scan ==
  /\ worker = "Scanning"
  /\ todo' = IF Expired THEN Nothing ELSE desired
  /\ worker' = "Choosing"
  /\ UNCHANGED <<runtime, map, wake, control, queue, degraded, caller, acked, command, room,
                 applied, db, crashes>>

\* `is_effect_current`.
IsEffectCurrent(r) == seen[r] = todo[r].version /\ desired[r].version = todo[r].version

\* The next effect of the scan is dropped when a newer one replaced it.
Choose(r) ==
  /\ worker = "Choosing" /\ todo[r] # NoEffect /\ ~Expired
  /\ IF IsEffectCurrent(r)
     THEN worker' = "Writing" /\ room' = r /\ UNCHANGED todo
     ELSE todo' = [todo EXCEPT ![r] = NoEffect] /\ UNCHANGED <<worker, room>>
  /\ UNCHANGED <<runtime, map, wake, control, queue, degraded, caller, acked, command, applied,
                 db, crashes>>

\* The transaction does not open, or the statement is executed or refused by SQLite.
Write ==
  /\ worker = "Writing"
  /\ \/ /\ worker' = "Choosing" /\ degraded' = TRUE
        /\ todo' = [todo EXCEPT ![room] = NoEffect]
     \/ worker' \in {"Checking", "Failing"} /\ UNCHANGED <<todo, degraded>>
  /\ UNCHANGED <<runtime, map, wake, control, queue, caller, acked, command, room, applied, db,
                 crashes>>

\* `is_version_current`.
IsVersionCurrent == seen[room] = todo[room].version

\* The second arbitration, inside the transaction: a superseded effect is rolled back.
Recheck ==
  /\ worker = "Checking"
  /\ IF IsVersionCurrent
     THEN worker' = "Committing" /\ UNCHANGED todo
     ELSE worker' = "Choosing" /\ todo' = [todo EXCEPT ![room] = NoEffect]
  /\ UNCHANGED <<runtime, map, wake, control, queue, degraded, caller, acked, command, room,
                 applied, db, crashes>>

\* `save_room` and `delete_room`: only a newer effect touches the row.
RowAfter(row, effect) == IF effect.version > row THEN RowOf(effect) ELSE row

\* The commit makes the statement's effect durable, or fails.
Commit ==
  /\ worker = "Committing"
  /\ \/ /\ db' = [db EXCEPT ![room] = RowAfter(@, todo[room])]
        /\ worker' = "Marking"
     \/ worker' = "Failing" /\ UNCHANGED db
  /\ UNCHANGED <<runtime, map, wake, control, queue, degraded, caller, acked, command, scan,
                 crashes>>

\* Fault: the mark does not ask whether its version is still the wanted one.
BlindMarkApplied ==
  /\ worker = "Marking"
  /\ seen' = [seen EXCEPT ![room] = IF todo[room].kind = "Delete" THEN 0 ELSE @]
  /\ desired' = [desired EXCEPT ![room] = NoEffect]
  /\ failure' = [failure EXCEPT ![room] = 0]
  /\ todo' = [todo EXCEPT ![room] = NoEffect]
  /\ applied' = TRUE
  /\ worker' = "Choosing"
  /\ UNCHANGED <<runtime, wake, control, queue, degraded, caller, acked, command, room, db,
                 crashes>>

\* `mark_applied`: a delete forgets the room's state altogether.
MarkApplied ==
  /\ worker = "Marking"
  /\ IF IsVersionCurrent
     THEN /\ seen' = [seen EXCEPT ![room] = IF todo[room].kind = "Delete" THEN 0 ELSE @]
          /\ desired' = [desired EXCEPT ![room] = NoEffect]
          /\ failure' = [failure EXCEPT ![room] = 0]
     ELSE UNCHANGED map
  /\ todo' = [todo EXCEPT ![room] = NoEffect]
  /\ applied' = TRUE
  /\ worker' = "Choosing"
  /\ UNCHANGED <<runtime, wake, control, queue, degraded, caller, acked, command, room, db,
                 crashes>>

\* `mark_failed`; the effect stays desired.
MarkFailed ==
  /\ worker = "Failing"
  /\ failure' = IF IsVersionCurrent
                THEN [failure EXCEPT ![room] = todo[room].version] ELSE failure
  /\ todo' = [todo EXCEPT ![room] = NoEffect]
  /\ degraded' = TRUE
  /\ worker' = "Choosing"
  /\ UNCHANGED <<runtime, seen, desired, wake, control, queue, caller, acked, command, room,
                 applied, db, crashes>>

\* Fault: one written effect is taken for a recovery.
HopefulFinishScan ==
  /\ worker = "Choosing" /\ (todo = Nothing \/ Expired)
  /\ degraded' = (degraded /\ ~applied)
  /\ todo' = Nothing /\ applied' = FALSE
  /\ worker' = "Acknowledging"
  /\ UNCHANGED <<runtime, map, wake, control, queue, caller, acked, command, room, db, crashes>>

\* The scan is done or cut short; the worker recovers when nothing is left to write.
FinishScan ==
  /\ worker = "Choosing" /\ (todo = Nothing \/ Expired)
  /\ degraded' = (degraded /\ ~(applied /\ IsSettled))
  /\ todo' = Nothing /\ applied' = FALSE
  /\ worker' = "Acknowledging"
  /\ UNCHANGED <<runtime, map, wake, control, queue, caller, acked, command, room, db, crashes>>

Acknowledge ==
  /\ worker = "Acknowledging"
  /\ acked' = IF command.kind = "Flush" THEN command.id ELSE acked
  /\ worker' = IF command.kind = "Shutdown" THEN "Exited" ELSE "Receiving"
  /\ UNCHANGED <<runtime, map, wake, control, queue, degraded, caller, command, scan, db,
                 crashes>>

-----------------------------------------------------------------------------
\* The process dies and is started again: the runtime loads the rows, and its versions
\* continue after the newest of them (`replace_persisted_rooms_snapshot`).
Crash ==
  /\ crashes < MaxCrashes
  /\ crashes' = crashes + 1
  /\ names' = {r \in Rooms : db[r] # 0}
  /\ next' \in {0} \cup {db[r] : r \in Rooms} /\ \A r \in Rooms : db[r] <= next'
  /\ intent' = [r \in Rooms |-> IF db[r] = 0 THEN NoEffect
                                ELSE [kind |-> "Save", version |-> db[r]]]
  /\ seen' = Zero /\ desired' = Nothing /\ failure' = Zero
  /\ wake' = FALSE /\ stop' = FALSE /\ deadline' = "None" /\ terminal' = "None"
  /\ queue' = <<>> /\ degraded' = FALSE
  /\ actor' = "Idle" /\ closing' = FALSE /\ settled' = FALSE /\ result' = "None"
  /\ worker' = "Start" /\ command' = Wake /\ todo' = Nothing /\ applied' = FALSE
  /\ UNCHANGED <<barrier, acked, room, db>>

BarrierStep ==
  \/ SendFlush \/ AwaitFlush \/ EndBarrier \/ StopWorker \/ SignalStop \/ JoinWorker

ActorStep == SwapWake \/ SignalWake \/ BarrierStep

WorkerStep ==
  \/ StartWorker \/ Receive \/ ClearWake \/ Scan
  \/ \E r \in Rooms : Choose(r)
  \/ Write \/ Recheck \/ Commit \/ MarkApplied \/ MarkFailed
  \/ FinishScan \/ Acknowledge

Next ==
  \/ \E r \in Rooms : SaveRoom(r) \/ DeleteRoom(r)
  \/ \E last \in BOOLEAN : StartBarrier(last)
  \/ ActorStep
  \/ BeginShutdown \/ DeadlinePasses \/ TerminalPasses
  \/ WorkerStep
  \/ Crash

\* The actor is scheduled, time passes, and the task that asks for the shutdown is retained
\* until the actor has served it.  The worker is owed nothing: it may hang in a call of the
\* filesystem that nothing interrupts.
Fairness == WF_vars(ActorStep) /\ WF_vars(StartBarrier(TRUE)) /\ WF_vars(TerminalPasses)

Spec == Init /\ [][Next]_vars /\ Fairness

-----------------------------------------------------------------------------
\* The queue stays within its capacity, whatever signals are sent.
TypeOK ==
  /\ names \subseteq Rooms /\ next \in Nat /\ intent \in [Rooms -> Effects]
  /\ seen \in [Rooms -> Nat] /\ desired \in [Rooms -> Effects] /\ failure \in [Rooms -> Nat]
  /\ wake \in BOOLEAN /\ stop \in BOOLEAN /\ degraded \in BOOLEAN
  /\ deadline \in {"None", "Armed", "Passed"} /\ terminal \in {"None", "Armed", "Passed"}
  /\ queue \in Seq(Commands) /\ Len(queue) <= QueueCapacity
  /\ actor \in {"Idle", "Waking", "Signalling", "Sending", "Waiting", "Concluding",
                "Stopping", "Joining", "Stopped"}
  /\ closing \in BOOLEAN /\ barrier \in Nat /\ settled \in BOOLEAN
  /\ result \in {"None", "Durable", "Failed"} /\ acked \in Nat
  /\ worker \in {"Start", "Receiving", "Received", "Scanning", "Choosing", "Writing",
                 "Checking", "Committing", "Marking", "Failing", "Acknowledging", "Exited"}
  /\ command \in Commands /\ todo \in [Rooms -> Effects] /\ room \in Rooms
  /\ applied \in BOOLEAN /\ db \in [Rooms -> Nat] /\ crashes \in Nat

\* A room with no effect left to write has in the database exactly what the runtime last
\* asked for: no effect is dropped by arbitration, by a late mark or by the SQL guard
\* (`mark_applied`, `save_room`, `delete_room`).
AppliedIsDurable == \A r \in Rooms : desired[r] = NoEffect => db[r] = RowOf(intent[r])

\* A barrier that reports durability has it, and after a shutdown that does so no worker
\* is left to change it (`persistence_barrier_off_actor`).
BarrierIsHonest ==
  /\ actor = "Concluding" /\ settled => \A r \in Rooms : db[r] = RowOf(intent[r])
  /\ actor = "Stopped" /\ result = "Durable" =>
       worker = "Exited" /\ \A r \in Rooms : db[r] = RowOf(intent[r])

\* Degraded mode tells the truth between two commands: it is entered for an unresolved
\* failure and left once everything was written (`mark_failed`, `should_report_recovery`).
HealthIsHonest ==
  worker = "Receiving" =>
    /\ (\E r \in Rooms : failure[r] # 0) => degraded
    /\ degraded => ~IsSettled

\* No wake-up is lost: an effect that is wanted is written, replaced or tried, unless a
\* durability barrier failed, the worker is gone or the process died.  The worker is
\* scheduled here, and its calls of SQLite return because the busy handler gives up.
EffectIsTried ==
  WF_vars(WorkerStep) =>
    \A r \in Rooms, v \in 1 .. MaxVersion :
      desired[r].version = v ~>
        desired[r].version # v \/ degraded \/ result = "Failed" \/ worker = "Exited"

\* A shutdown ends within its budget even when the worker hangs in a call of SQLite
\* (`send_until`, `flush_until`, `finish_until`).
ShutdownEnds == terminal # "None" ~> actor = "Stopped" \/ terminal = "None"
=============================================================================
