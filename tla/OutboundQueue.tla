---------------------------- MODULE OutboundQueue ----------------------------
(***************************************************************************)
(* The outbound queue of one connection (crates/sorotte-server/src/        *)
(* network.rs): the dispatch task that sends protocol lines, periodic      *)
(* states and transport actions, the session task that receives and        *)
(* writes them, and the depth gauge both update (backpressure.rs).         *)
(*                                                                         *)
(* The two tasks run on different threads.  Each action is one stretch of  *)
(* a task between two points where the other can intervene: an await, the  *)
(* queue's mutex, or an access to the channel or the gauge, which are      *)
(* shared without the mutex.  All dispatches are serialised by the         *)
(* server's dispatch-order mutex, so a connection has one sender at a time.*)
(***************************************************************************)
EXTENDS Naturals, Sequences

CONSTANTS
  Capacity,   \* CLIENT_OUTBOUND_QUEUE_CAPACITY
  MaxEvents   \* bound on the events dispatched to the connection

ASSUME CapacityAssumption == Capacity \in Nat \ {0} /\ MaxEvents \in Nat

VARIABLES
  sent,        \* how many events were dispatched; an event is named by its number
  sender,      \* the dispatch task: what it is doing and the event it sends
  mutex,       \* who holds `protocol_line_queue` across an await
  channel,     \* the bounded channel; a periodic state is a shared marker
  update,      \* the event whose state each periodic marker carries
  tail,        \* `tail_periodic`: the marker that may still be replaced, or 0
  closed,      \* ProtocolLineQueueState::closed
  open,        \* the receiving half of the channel is open
  registered,  \* the connection is in `client_event_senders`
  overload,    \* overload_signalled, and the watch channel it is published on
  session,     \* the session task: what it is doing and the item it holds
  depth,       \* the queue_depth gauge
  last,        \* the last event written to the transport
  owed         \* events other than periodic states that were not written

queueVars == <<sent, sender, mutex, channel, update, tail, closed, open, registered,
               overload, session, depth, last, owed>>

Kinds == {"Line", "Periodic", "StartTls", "Close"}
Events == 1 .. MaxEvents
Items == [kind : Kinds, event : Events]

SenderStates == {"Idle", "Reserving", "Locking", "Waiting", "Accounting"}
SessionStates ==
  {"Serving", "Handling", "Failing", "Received", "Resolving", "Writing", "Leaving",
   "Closing", "Draining", "Discarding", "Gone"}

Nothing == [kind |-> "None", event |-> 0]
SessionAt(state) == [state |-> state, item |-> Nothing, discarded |-> 0]

QueueInit ==
  /\ sent = 0 /\ sender = [state |-> "Idle", item |-> Nothing]
  /\ mutex = "Free" /\ channel = <<>> /\ update = [e \in Events |-> 0] /\ tail = 0
  /\ closed = FALSE /\ open = TRUE /\ registered = TRUE /\ overload = FALSE
  /\ session = SessionAt("Serving") /\ depth = 0 /\ last = 0 /\ owed = {}

-----------------------------------------------------------------------------
(* The dispatch task: `dispatch_client_event` and ClientEventSender::send. *)

SenderAt(state) == sender' = [sender EXCEPT !.state = state]
Done == sender' = [state |-> "Idle", item |-> Nothing]

\* Outcomes Closed and Overloaded unregister the connection.
Unregister == Done /\ registered' = FALSE

\* `send` up to its first await; a signalled overload refuses everything.
Dispatch(kind) ==
  LET event == sent + 1
      refused == overload
  IN /\ sender.state = "Idle" /\ registered /\ sent < MaxEvents
     /\ sent' = event
     /\ owed' = IF kind = "Periodic" THEN owed ELSE owed \cup {event}
     /\ IF refused
        THEN Unregister
        ELSE /\ sender' = [state |-> IF kind = "Line" THEN "Reserving" ELSE "Locking",
                           item |-> [kind |-> kind, event |-> event]]
             /\ UNCHANGED registered
     /\ UNCHANGED <<mutex, channel, update, tail, closed, open, overload, session,
                    depth, last>>

\* `send_reliable_line`: the byte budget may have no room for the line.
ReserveLine ==
  /\ sender.state = "Reserving"
  /\ \/ SenderAt("Locking") /\ UNCHANGED <<registered, overload>>
     \/ Unregister /\ overload' = TRUE
  /\ UNCHANGED <<sent, mutex, channel, update, tail, closed, open, session, depth, last, owed>>

\* Both kinds of send find a closed queue in the same way.
SendToClosed ==
  /\ sender.state = "Locking" /\ mutex = "Free"
  /\ closed \/ ~open
  /\ closed' = TRUE /\ Unregister
  /\ UNCHANGED <<sent, mutex, channel, update, tail, open, overload, session, depth, last, owed>>

Usable == sender.state = "Locking" /\ mutex = "Free" /\ ~closed /\ open

\* `try_send` put the item in the channel; the mutex is held until it is accounted for.
Enqueue ==
  /\ channel' = Append(channel, sender.item)
  /\ mutex' = "Sender"
  /\ SenderAt("Accounting")

\* Fault: the channel accepts one item too many.
OverfullSendReliable ==
  /\ Usable /\ sender.item.kind # "Periodic"
  /\ Len(channel) <= Capacity /\ Enqueue
  /\ UNCHANGED <<sent, update, tail, closed, open, registered, overload, session, depth,
                 last, owed>>

\* `send_reliable_event`.
SendReliable ==
  /\ Usable /\ sender.item.kind # "Periodic"
  /\ \/ Len(channel) < Capacity /\ Enqueue
     \/ /\ Len(channel) = Capacity
        /\ mutex' = "Sender" /\ SenderAt("Waiting") /\ UNCHANGED channel
  /\ UNCHANGED <<sent, update, tail, closed, open, registered, overload, session, depth,
                 last, owed>>

\* The grace period of a full queue, spent with the mutex held.
WaitSucceeds ==
  /\ sender.state = "Waiting" /\ open /\ Len(channel) < Capacity
  /\ Enqueue
  /\ UNCHANGED <<sent, update, tail, closed, open, registered, overload, session, depth,
                 last, owed>>

WaitFindsClosed ==
  /\ sender.state = "Waiting" /\ ~open
  /\ closed' = TRUE /\ mutex' = "Free" /\ Unregister
  /\ UNCHANGED <<sent, channel, update, tail, open, overload, session, depth, last, owed>>

\* Fault: the wait for a full queue has no deadline.
EndlessWait == FALSE /\ UNCHANGED queueVars

\* The deadline; `signal_overload` publishes the overload to the session task.
WaitTimesOut ==
  /\ sender.state = "Waiting"
  /\ overload' = TRUE /\ mutex' = "Free" /\ Unregister
  /\ UNCHANGED <<sent, channel, update, tail, closed, open, session, depth, last, owed>>

\* `send_periodic_state` replaces the state of a marker that is still the tail; without
\* room for the larger line the older state stays.
Coalesce ==
  /\ Usable /\ sender.item.kind = "Periodic" /\ tail # 0
  /\ update' = [update EXCEPT ![tail] = sender.item.event] \/ UNCHANGED update
  /\ Done
  /\ UNCHANGED <<sent, mutex, channel, tail, closed, open, registered, overload, session,
                 depth, last, owed>>

\* Without a tail marker it enters the queue, unless bytes or slots have run out.
SendPeriodic ==
  /\ Usable /\ sender.item.kind = "Periodic" /\ tail = 0
  /\ \/ /\ Len(channel) < Capacity
        /\ Enqueue
        /\ update' = [update EXCEPT ![sender.item.event] = sender.item.event]
     \/ Done /\ UNCHANGED <<mutex, channel, update>>
  /\ UNCHANGED <<sent, tail, closed, open, registered, overload, session, depth, last, owed>>

\* Fault: a reliable line does not seal the periodic state before it.
UnsealedAccount ==
  /\ sender.state = "Accounting"
  /\ tail' = IF sender.item.kind = "Periodic" THEN sender.item.event ELSE tail
  /\ depth' = depth + 1
  /\ mutex' = "Free" /\ Done
  /\ UNCHANGED <<sent, channel, update, closed, open, registered, overload, session, last, owed>>

\* After the channel accepted the item: the new tail, then `metrics.enqueued()`.
Account ==
  /\ sender.state = "Accounting"
  /\ tail' = IF sender.item.kind = "Periodic" THEN sender.item.event ELSE 0
  /\ depth' = depth + 1
  /\ mutex' = "Free" /\ Done
  /\ UNCHANGED <<sent, channel, update, closed, open, registered, overload, session, last, owed>>

-----------------------------------------------------------------------------
(* The session task.  Its select is biased: an overload that is published  *)
(* is seen before anything else.                                           *)

\* Fault: the published overload is read and the loop continues.
DeafSeeOverload ==
  /\ session.state = "Serving" /\ overload
  /\ UNCHANGED queueVars

SeeOverload ==
  /\ session.state = "Serving" /\ overload
  /\ session' = SessionAt("Leaving")
  /\ UNCHANGED <<sent, sender, mutex, channel, update, tail, closed, open, registered,
                 overload, depth, last, owed>>

Receive ==
  /\ session.state = "Serving" /\ ~overload /\ channel # <<>>
  /\ session' = [SessionAt("Received") EXCEPT !.item = Head(channel)]
  /\ channel' = Tail(channel)
  /\ UNCHANGED <<sent, sender, mutex, update, tail, closed, open, registered, overload,
                 depth, last, owed>>

\* `resolve_event` up to its only await; the gauge saturates at zero.
Dequeue ==
  /\ session.state = "Received"
  /\ depth' = IF depth = 0 THEN 0 ELSE depth - 1
  /\ session' = CASE session.item.kind = "Periodic" -> [session EXCEPT !.state = "Resolving"]
                  [] session.item.kind = "Close" -> SessionAt("Leaving")
                  [] OTHER -> [session EXCEPT !.state = "Writing"]
  /\ UNCHANGED <<sent, sender, mutex, channel, update, tail, closed, open, registered,
                 overload, last, owed>>

\* The state is taken out of the marker under the mutex.
Resolve ==
  LET marker == session.item.event
  IN /\ session.state = "Resolving" /\ mutex = "Free"
     /\ tail' = IF tail = marker THEN 0 ELSE tail
     /\ session' = [session EXCEPT !.state = "Writing", !.item.event = update[marker]]
     /\ update' = [update EXCEPT ![marker] = 0]
     /\ UNCHANGED <<sent, sender, mutex, channel, closed, open, registered, overload,
                    depth, last, owed>>

\* The write, or the TLS upgrade, succeeds or fails within its timeout.
Write ==
  /\ session.state = "Writing"
  /\ \/ /\ session' = SessionAt("Serving")
        /\ last' = session.item.event /\ owed' = owed \ {session.item.event}
     \/ session' = SessionAt("Leaving") /\ UNCHANGED <<last, owed>>
  /\ UNCHANGED <<sent, sender, mutex, channel, update, tail, closed, open, registered,
                 overload, depth>>

\* An inbound line is handled, and its replies dispatched, under the dispatch order:
\* until then this task receives nothing.
HandleLine ==
  /\ session.state = "Serving" /\ ~overload
  /\ session' = SessionAt("Handling")
  /\ UNCHANGED <<sent, sender, mutex, channel, update, tail, closed, open, registered,
                 overload, depth, last, owed>>

FinishLine ==
  /\ session.state = "Handling" /\ sender.state = "Idle"
  /\ session' = SessionAt("Serving")
  /\ UNCHANGED <<sent, sender, mutex, channel, update, tail, closed, open, registered,
                 overload, depth, last, owed>>

\* The actor refused the line: the task returns without the cleanup of an ordinary end.
FailLine ==
  /\ session.state = "Handling" /\ sender.state = "Idle"
  /\ session' = SessionAt("Failing")
  /\ UNCHANGED <<sent, sender, mutex, channel, update, tail, closed, open, registered,
                 overload, depth, last, owed>>

\* The drop of the receiver closes the channel without taking the mutex.
DropReceiver ==
  /\ session.state = "Failing"
  /\ session' = SessionAt("Draining") /\ open' = FALSE
  /\ UNCHANGED <<sent, sender, mutex, channel, update, tail, closed, registered,
                 overload, depth, last, owed>>

\* End of input, a read error, the pre-Hello timeout or the server's shutdown between
\* two events.
Leave ==
  /\ session.state = "Serving"
  /\ session' = SessionAt("Leaving")
  /\ UNCHANGED <<sent, sender, mutex, channel, update, tail, closed, open, registered,
                 overload, depth, last, owed>>

RemoveSender ==
  /\ session.state = "Leaving"
  /\ session' = SessionAt("Closing") /\ registered' = FALSE
  /\ UNCHANGED <<sent, sender, mutex, channel, update, tail, closed, open, overload,
                 depth, last, owed>>

\* `close_and_record_discarded`.
CloseQueue ==
  /\ session.state = "Closing" /\ mutex = "Free"
  /\ session' = SessionAt("Draining")
  /\ closed' = TRUE /\ tail' = 0 /\ open' = FALSE
  /\ UNCHANGED <<sent, sender, mutex, channel, update, registered, overload, depth, last,
                 owed>>

\* Discarded markers take their states, and their byte reservations, with them.
Drain ==
  /\ session.state = "Draining"
  /\ session' = [SessionAt("Discarding") EXCEPT !.discarded = Len(channel)]
  /\ channel' = <<>> /\ update' = [e \in Events |-> 0] /\ tail' = 0
  /\ UNCHANGED <<sent, sender, mutex, closed, open, registered, overload, depth, last, owed>>

\* `metrics.discarded`.
Discard ==
  /\ session.state = "Discarding"
  /\ depth' = IF depth > session.discarded THEN depth - session.discarded ELSE 0
  /\ session' = SessionAt("Gone")
  /\ UNCHANGED <<sent, sender, mutex, channel, update, tail, closed, open, registered,
                 overload, last, owed>>

-----------------------------------------------------------------------------
SenderStep ==
  \/ ReserveLine \/ SendToClosed \/ SendReliable \/ WaitSucceeds \/ WaitFindsClosed
  \/ WaitTimesOut \/ Coalesce \/ SendPeriodic \/ Account

SessionStep ==
  \/ SeeOverload \/ Receive \/ Dequeue \/ Resolve \/ Write \/ FinishLine
  \/ DropReceiver \/ RemoveSender \/ CloseQueue \/ Drain \/ Discard

QueueNext ==
  \/ \E kind \in Kinds : Dispatch(kind)
  \/ SenderStep
  \/ SessionStep \/ HandleLine \/ FailLine \/ Leave

\* Both tasks are scheduled, waits have deadlines and writes have timeouts; nothing
\* obliges peers to dispatch or a client to send.
QueueFairness == WF_queueVars(SenderStep) /\ WF_queueVars(SessionStep)

QueueSpec == QueueInit /\ [][QueueNext]_queueVars /\ QueueFairness

-----------------------------------------------------------------------------
\* The two tasks keep their states, and the channel never holds more than its capacity.
QueueTypeOK ==
  /\ sent \in 0 .. MaxEvents
  /\ sender \in [state : SenderStates, item : Items \cup {Nothing}]
  /\ mutex \in {"Free", "Sender"}
  /\ channel \in Seq(Items) /\ Len(channel) <= Capacity
  /\ update \in [Events -> 0 .. MaxEvents] /\ tail \in 0 .. MaxEvents
  /\ closed \in BOOLEAN /\ open \in BOOLEAN /\ registered \in BOOLEAN /\ overload \in BOOLEAN
  /\ session \in [state : SessionStates, item : Items \cup {Nothing}, discarded : Nat]
  /\ depth \in Nat /\ last \in 0 .. MaxEvents /\ owed \subseteq Events

\* What reaches the transport is in dispatch order, and no line or transport action is
\* skipped before a later event is written: "no older state can arrive after that
\* reliable line" (network.rs:100), whether lines are coalesced, dropped or refused.
WrittenInOrder ==
  [][last' # last => last' > last /\ \A event \in owed' : event > last']_queueVars

\* A dispatch always ends, though the session may be waiting for the dispatch order that
\* the dispatch holds while the session's queue is full.
DispatchEnds == sender.state # "Idle" ~> sender.state = "Idle"

\* "If capacity does not recover, the client is explicitly closed and cleaned up"
\* (lib.rs:296): an overloaded connection ends.
OverloadEndsSession == overload ~> session.state = "Gone"

-----------------------------------------------------------------------------
\* A test drains a queue and asserts `assert_eq!(snapshot.queue_depth, 0)`
\* (network.rs:1840): with both tasks at rest and nothing queued the gauge is zero.
DrainedGaugeIsZero ==
  channel = <<>> /\ sender.state = "Idle" /\ session.state \in {"Serving", "Gone"} =>
    depth = 0
=============================================================================
