--------------------------- MODULE SessionDelivery ---------------------------
(***************************************************************************)
(* How the lines of a client reach its server: the ProtocolOutbox of       *)
(* sorotte-client-core, which keeps them until they are written, the       *)
(* staged delivery of the GUI's session, the slot that its threads share,  *)
(* and the TCP workers, one per connection, that write and fail what is in *)
(* the slot.  The owner of the session runs on one thread, each worker on  *)
(* another; a worker that is replaced may still be on its way out.         *)
(***************************************************************************)
EXTENDS Naturals, Sequences, FiniteSets, Functions

CONSTANTS
    Superseding,      \* the kinds of line that replace an older one of their kind:
                      \* "request" of a playback barrier, "intent" of readiness
    MaxLines,         \* bound: lines queued by the client
    MaxConnections    \* bound: connections; the last one does not break

ASSUME DeliveryAssumption ==
    /\ Superseding \subseteq {"request", "intent"}
    /\ MaxLines \in Nat /\ MaxConnections \in Nat \ {0}

VARIABLES
    core,        \* ProtocolOutbox and the connection phase
    gui,         \* the Hello that is not acknowledged, and the staged delivery
    slot,        \* GuiTrackedOutboundProtocolDelivery
    workers,     \* the TCP workers
    driver,      \* the worker whose generation is current, and worker_failed
    lines,       \* history: what the client queued, and in which generation
    withdrawn,   \* history: the lines that were cancelled or superseded
    written      \* history: the lines some connection carried

deliveryVars == <<core, gui, slot, workers, driver, lines, withdrawn, written>>

LineNumbers == 1..MaxLines
WorkerIds == 1..MaxConnections
Scoped == Superseding \cup {"causal"}   \* pushed in order, for one connection

\* A line of the outbox; own, status and ready are the numbers of the queued
\* lines it carries: a command's own, or the parts of a State.
Blank == [kind |-> "none", own |-> 0, status |-> 0, ready |-> 0, gen |-> 0,
          cancelled |-> FALSE]
Hello(v) == [Blank EXCEPT !.kind = "hello", !.own = v]
Carries(line) ==
    IF line.kind = "hello" THEN {} ELSE {line.own, line.status, line.ready} \ {0}

NoStaged == [token |-> 0, line |-> Blank, lease |-> 0]
NoSlot == [token |-> 0, line |-> Blank, queued |-> FALSE, result |-> "none"]
NoFrame == [token |-> 0, line |-> Blank]

\* The counters of tokens and leases only have to avoid the numbers in use.
Unused(numbers) == CHOOSE n \in 1 .. Cardinality(numbers) + 1 : n \notin numbers

-----------------------------------------------------------------------------
(* ProtocolOutbox. *)

Leased(c) == c.lease # 0

\* The elements of s at the positions in keep, in their order.
Select(s, keep) ==
    LET upTo[i \in 0 .. Len(s)] ==
          IF i = 0 THEN << >>
          ELSE IF i \in keep THEN Append(upTo[i - 1], s[i]) ELSE upTo[i - 1]
    IN upTo[Len(s)]

\* retain_deliveries; a front that is leased stays when the caller wants it.
Retain(c, preserve, dropped) ==
    LET Kept(s) == Select(s, {i \in DOMAIN s : s[i].kind \notin dropped})
    IN IF preserve /\ Leased(c) THEN <<Head(c.outbox)>> \o Kept(Tail(c.outbox))
       ELSE Kept(c.outbox)

\* invalidate_connection_scoped_reliable and invalidate_readiness_intents.
CancelKind(c, kind) ==
    LET marked == IF Leased(c) /\ Head(c.outbox).kind = kind
                  THEN [c EXCEPT !.outbox[1].cancelled = TRUE] ELSE c
    IN [marked EXCEPT !.outbox = Retain(marked, TRUE, {kind})]

\* strip_participant_status_at; a State with nothing else in it is removed.
Strip(e) == IF e.kind = "state" THEN [e EXCEPT !.status = 0, !.cancelled = FALSE] ELSE e
Stripped(s) ==
    LET t == [i \in DOMAIN s |-> Strip(s[i])]
    IN Select(t, {i \in DOMAIN t : Carries(t[i]) # {}})

\* cancel_pending_participant_status_reports.
CancelStatus(c) ==
    LET front == Head(c.outbox)
    IN [c EXCEPT !.outbox =
          IF Leased(c)
          THEN <<[front EXCEPT !.cancelled = @ \/ front.kind = "state"]>>
                 \o Stripped(Tail(@))
          ELSE Stripped(@)]

\* insert_reliable.
Insert(c, kind, n) ==
    [c EXCEPT !.outbox = Append(@, [Blank EXCEPT !.kind = kind, !.own = n, !.gen = c.gen])]

\* Fault: the newer State replaces the older one whole.
MergeDropsOlder(older, newer) == newer

\* merge_pending_state_obligations: what the newer State lacks it inherits.
Merge(older, newer) ==
    [newer EXCEPT !.status = IF @ = 0 THEN older.status ELSE @,
                  !.ready = IF @ = 0 THEN older.ready ELSE @]

\* push_connection_scoped_state: only a State at the tail is coalesced.
PushState(c, state) ==
    LET b == IF state.status # 0 THEN CancelStatus(c) ELSE c
        n == Len(b.outbox)
        coalesce == /\ n > 0 /\ ~(n = 1 /\ Leased(b))
                    /\ b.outbox[n].kind = "state" /\ b.outbox[n].gen = b.gen
    IN IF coalesce THEN [b EXCEPT !.outbox[n] = Merge(@, state)]
       ELSE [b EXCEPT !.outbox = Append(@, state)]

\* Fault: causal States outlive their connection.
BeginKeepsCausal(c) ==
    [c EXCEPT !.gen = @ + 1, !.active = FALSE, !.lease = 0,
              !.outbox = Select(@, {i \in DOMAIN @ : @[i].kind \in {"reliable", "causal"}})]

\* begin_connection_generation.
BeginGeneration(c) ==
    LET b == [c EXCEPT !.gen = @ + 1, !.active = FALSE, !.lease = 0]
    IN [b EXCEPT !.outbox = Retain(b, FALSE, Scoped \cup {"state"})]

\* acknowledge_front; a lease that is no longer held acknowledges nothing.
AcknowledgeFront(c) == [c EXCEPT !.outbox = Tail(@), !.lease = 0]

\* Fault: a line that was cancelled while it was leased is tried again.
ReleaseKeepsCancelled(c, lease) == IF c.lease # lease THEN c ELSE [c EXCEPT !.lease = 0]

\* release_front.
ReleaseFront(c, lease) ==
    LET front == Head(c.outbox)
        rest == Tail(c.outbox)
    IN IF c.lease # lease THEN c
       ELSE [c EXCEPT !.lease = 0,
                      !.outbox = IF ~front.cancelled THEN @
                                 ELSE IF front.kind = "state" THEN Stripped(<<front>>) \o rest
                                 ELSE rest]

-----------------------------------------------------------------------------
(* The owner: what the client queues and withdraws. *)

Recorded(kind) == Append(lines, [kind |-> kind, gen |-> core.gen])
Number == Len(lines) + 1

\* What of a kind is pending, the leased front included.
PendingOf(c, kind) ==
    UNION {{e.own, e.status, e.ready} \cap {n \in 1 .. Len(lines) : lines[n].kind = kind} :
             e \in Range(c.outbox)}

\* ClientEffect::SendChat and its like: push_back.
QueueReliable ==
    /\ Number <= MaxLines
    /\ core' = Insert(core, "reliable", Number)
    /\ lines' = Recorded("reliable")
    /\ UNCHANGED <<gui, slot, workers, driver, withdrawn, written>>

\* push_connection_scoped_reliable, push_readiness_intent and
\* push_connection_scoped_causal_state, after the
\* activate_protocol_connection_generation of their callers.  A newer request or
\* intent supersedes the pending one.
QueueScoped(kind) ==
    LET superseded == IF kind = "causal" THEN core ELSE CancelKind(core, kind)
    IN /\ Number <= MaxLines
       /\ core' = [Insert(superseded, kind, Number) EXCEPT !.active = TRUE]
       /\ lines' = Recorded(kind)
       /\ withdrawn' = IF kind = "causal" THEN withdrawn
                       ELSE withdrawn \cup PendingOf(core, kind)
       /\ UNCHANGED <<gui, slot, workers, driver, written>>

\* queue_connection_scoped_state with a participant status or a barrier's ready; without
\* an activated generation it is refused.
QueueState(piece) ==
    LET blank == [Blank EXCEPT !.kind = "state", !.gen = core.gen]
        state == IF piece = "status" THEN [blank EXCEPT !.status = Number]
                 ELSE [blank EXCEPT !.ready = Number]
    IN /\ Number <= MaxLines
       /\ core.active
       /\ core' = PushState(core, state)
       /\ lines' = Recorded(piece)
       /\ withdrawn' = IF piece = "status" THEN withdrawn \cup PendingOf(core, piece)
                       ELSE withdrawn
       /\ UNCHANGED <<gui, slot, workers, driver, written>>

\* cancel_protocol_playback_barrier_requests, cancel_protocol_readiness_intents
\* and cancel_protocol_participant_status_reports.
Withdraw(kind) ==
    /\ PendingOf(core, kind) \ withdrawn # {}
    /\ core' = IF kind = "status" THEN CancelStatus(core) ELSE CancelKind(core, kind)
    /\ withdrawn' = withdrawn \cup PendingOf(core, kind)
    /\ UNCHANGED <<gui, slot, workers, driver, lines, written>>

\* ClientEffect::SetRoom.
ChangeRoom ==
    LET left == CancelStatus(CancelKind(CancelKind(core, "request"), "intent"))
    IN /\ Number <= MaxLines
       /\ core' = Insert(left, "reliable", Number)
       /\ lines' = Recorded("reliable")
       /\ withdrawn' = withdrawn \cup PendingOf(core, "request")
                                 \cup PendingOf(core, "intent") \cup PendingOf(core, "status")
       /\ UNCHANGED <<gui, slot, workers, driver, written>>

\* Fault: the Hello is replaced under a delivery that is staged.
RefreshStagedHello ==
    /\ gui.hello = 1
    /\ gui' = [gui EXCEPT !.hello = 2]
    /\ UNCHANGED <<core, slot, workers, driver, lines, withdrawn, written>>

\* replace_pending_startup_hello_if_unstaged, with other settings; bound: once
\* per connection.
RefreshHello ==
    /\ gui.hello = 1
    /\ gui.staged.line.kind # "hello"
    /\ gui' = [gui EXCEPT !.hello = 2]
    /\ UNCHANGED <<core, slot, workers, driver, lines, withdrawn, written>>

-----------------------------------------------------------------------------
(* The owner: deliveries. *)

\* acknowledge_outbound_protocol_delivery; when the receipt matches nothing the
\* staged delivery stays.
Acknowledge(c, g, token) ==
    LET s == g.staged IN
    IF s.token # token THEN <<c, g>>
    ELSE IF s.line.kind = "hello"
    THEN IF s.line # Hello(g.hello) THEN <<c, g>>
         ELSE <<c, [g EXCEPT !.hello = 0, !.staged = NoStaged]>>
    ELSE IF c.lease # s.lease THEN <<c, g>>
    ELSE <<AcknowledgeFront(c), [g EXCEPT !.staged = NoStaged]>>

\* fail_outbound_protocol_delivery.
Fail(c, g, token) ==
    IF g.staged.token # token \/ token = 0 THEN <<c, g>>
    ELSE <<IF g.staged.lease = 0 THEN c ELSE ReleaseFront(c, g.staged.lease),
           [g EXCEPT !.staged = NoStaged]>>

\* apply_session_transport_outbound_delivery_results.
ApplyResult(c, g, s) ==
    CASE s.result = "none" -> <<c, g, s>>
      [] s.result = "written" -> Append(Acknowledge(c, g, s.token), NoSlot)
      [] s.result = "failed" -> Append(Fail(c, g, s.token), NoSlot)

\* begin_outbound_protocol_delivery: the Hello first, and nothing else before
\* the server has answered it.
Begin(c, g) ==
    LET token == Unused({slot.token} \cup {workers[w].frame.token : w \in WorkerIds})
        lease == IF Leased(c) THEN c.lease ELSE Unused({c.lease})
    IN IF g.staged # NoStaged THEN <<c, g>>
       ELSE IF g.hello # 0
       THEN <<[c EXCEPT !.phase = IF @ = "Active" THEN @ ELSE "AwaitingHello"],
              [g EXCEPT !.staged = [token |-> token, line |-> Hello(g.hello), lease |-> 0]]>>
       ELSE IF c.phase # "Active" \/ c.outbox = << >> THEN <<c, g>>
       ELSE <<[c EXCEPT !.lease = lease],
              [g EXCEPT !.staged = [token |-> token, line |-> Head(c.outbox),
                                    lease |-> lease]]>>

\* flush_session_transport_outbound, with try_push_outbound_protocol_delivery.
Flush ==
    LET applied == ApplyResult(core, gui, slot)
        begun == Begin(applied[1], applied[2])
        staged == begun[2].staged
        pushed == staged # applied[2].staged
    IN /\ pushed \/ slot.result # "none"
       /\ IF pushed /\ applied[3] # NoSlot
          THEN LET failed == Fail(begun[1], begun[2], staged.token)
               IN core' = failed[1] /\ gui' = failed[2] /\ slot' = applied[3]
          ELSE /\ core' = begun[1] /\ gui' = begun[2]
               /\ slot' = IF pushed
                          THEN [token |-> staged.token, line |-> staged.line,
                                queued |-> TRUE, result |-> "none"]
                          ELSE applied[3]
       /\ UNCHANGED <<workers, driver, lines, withdrawn, written>>

\* fail_pending_outbound_protocol_delivery.
FailSlot(s) ==
    IF s = NoSlot \/ s.result # "none" THEN s
    ELSE [s EXCEPT !.queued = FALSE, !.result = "failed"]

NoWorker == [at |-> "none", frame |-> NoFrame, greeted |-> FALSE, gen |-> 0]
Started == {w \in WorkerIds : workers[w].at # "none"}

\* start_worker, with begin_worker_generation.
Start(gen) ==
    LET w == Cardinality(Started) + 1
    IN /\ w \in WorkerIds
       /\ workers' = [workers EXCEPT ![w].at = "connecting", ![w].gen = gen]
       /\ driver' = [live |-> w, failed |-> FALSE]

\* The first pump starts the first worker.
StartWorker ==
    /\ driver.live = 0 /\ ~driver.failed
    /\ Start(core.gen)
    /\ UNCHANGED <<core, gui, slot, lines, withdrawn, written>>

\* pump_session_transport_driver finds the worker's error: it is stopped, what
\* is in the slot fails, and handle_session_transport_failure begins a
\* generation and schedules a reconnect.
NoticeFailure ==
    /\ driver.live # 0
    /\ workers[driver.live].at \in {"dropping", "dropFail", "gone"}
    /\ LET after == ApplyResult(core, gui, FailSlot(slot))
       IN /\ core' = [BeginGeneration(after[1]) EXCEPT !.phase = "Reconnecting"]
          /\ gui' = after[2]
          /\ slot' = after[3]
    /\ driver' = [live |-> 0, failed |-> TRUE]
    /\ UNCHANGED <<workers, lines, withdrawn, written>>

\* pump_due_session_transport_reconnect: prepare_transport_reconnect, then the
\* driver's reconnect.
Reconnect ==
    /\ driver.failed
    /\ core' = [BeginGeneration(core) EXCEPT !.phase = "Reconnecting"]
    /\ gui' = [hello |-> 1, staged |-> NoStaged]
    /\ slot' = FailSlot(slot)
    /\ Start(core'.gen)
    /\ UNCHANGED <<lines, withdrawn, written>>

\* The server's Hello is applied: activate_protocol_connection_generation.
ReceiveHello ==
    /\ driver.live # 0
    /\ workers[driver.live].greeted
    /\ core.phase = "AwaitingHello"
    /\ core' = [core EXCEPT !.phase = "Active", !.active = TRUE]
    /\ UNCHANGED <<gui, slot, workers, driver, lines, withdrawn, written>>

-----------------------------------------------------------------------------
(* The worker. *)

Move(w, at) == workers' = [workers EXCEPT ![w].at = at]

Connect(w) ==
    /\ workers[w].at = "connecting"
    /\ Move(w, "up")
    /\ UNCHANGED <<core, gui, slot, driver, lines, withdrawn, written>>

\* The error is sent; there is no driver to drop.
ConnectFails(w) ==
    /\ workers[w].at = "connecting"
    /\ w < MaxConnections
    /\ Move(w, "gone")
    /\ UNCHANGED <<core, gui, slot, driver, lines, withdrawn, written>>

\* queue_outbound_lines: take_outbound_protocol_delivery_for_driver.
TakeFrame(w) ==
    /\ workers[w].at = "up" /\ workers[w].frame = NoFrame
    /\ driver.live = w
    /\ slot.queued
    /\ workers' = [workers EXCEPT ![w].frame = [token |-> slot.token, line |-> slot.line]]
    /\ slot' = [slot EXCEPT !.queued = FALSE]
    /\ UNCHANGED <<core, gui, driver, lines, withdrawn, written>>

\* flush_outbound_frame_queue: the last byte is written.
WriteFrame(w) ==
    /\ workers[w].at = "up" /\ workers[w].frame # NoFrame
    /\ workers' = [workers EXCEPT ![w].at = "publish",
                                  ![w].greeted = @ \/ workers[w].frame.line.kind = "hello"]
    /\ written' = written \cup Carries(workers[w].frame.line)
    /\ UNCHANGED <<core, gui, slot, driver, lines, withdrawn>>

\* publish_outbound_protocol_delivery_result.
Published(w, result) ==
    IF driver.live # w \/ slot.token # workers[w].frame.token \/ slot.result # "none"
       \/ workers[w].frame = NoFrame
    THEN slot ELSE [slot EXCEPT !.queued = FALSE, !.result = result]

PublishWritten(w) ==
    /\ workers[w].at = "publish"
    /\ slot' = Published(w, "written")
    /\ workers' = [workers EXCEPT ![w].at = "up", ![w].frame = NoFrame]
    /\ UNCHANGED <<core, gui, driver, lines, withdrawn, written>>

\* disconnect_with_error, on any error of a pump: the frame's failure, then
\* whatever is in the slot by then; flush_outbound_lines and pump both call it.
\* The error is sent to the owner last.
Break(w) ==
    /\ workers[w].at = "up"
    /\ w < MaxConnections
    /\ slot' = Published(w, "failed")
    /\ workers' = [workers EXCEPT ![w].at = "failing", ![w].frame = NoFrame]
    /\ UNCHANGED <<core, gui, driver, lines, withdrawn, written>>

FailPending(w) ==
    /\ workers[w].at \in {"failing", "failingAgain"}
    /\ slot' = IF driver.live = w THEN FailSlot(slot) ELSE slot
    /\ Move(w, IF workers[w].at = "failing" THEN "failingAgain" ELSE "dropping")
    /\ UNCHANGED <<core, gui, driver, lines, withdrawn, written>>

\* The drop of the driver fails what is in the slot: it checks the generation,
\* then takes the lock, and may be stopped in between.
DropCheck(w) ==
    /\ workers[w].at = "dropping"
    /\ Move(w, IF driver.live = w THEN "dropFail" ELSE "gone")
    /\ UNCHANGED <<core, gui, slot, driver, lines, withdrawn, written>>

DropFail(w) ==
    /\ workers[w].at = "dropFail"
    /\ slot' = FailSlot(slot)
    /\ Move(w, "gone")
    /\ UNCHANGED <<core, gui, driver, lines, withdrawn, written>>

-----------------------------------------------------------------------------

DeliveryInit ==
    /\ core = [outbox |-> << >>, lease |-> 0, gen |-> 0, active |-> FALSE,
               phase |-> "Connecting"]
    /\ gui = [hello |-> 1, staged |-> NoStaged]
    /\ slot = NoSlot
    /\ workers = [w \in WorkerIds |-> NoWorker]
    /\ driver = [live |-> 0, failed |-> FALSE]
    /\ lines = << >>
    /\ withdrawn = {}
    /\ written = {}

Queue == \/ QueueReliable \/ ChangeRoom
         \/ \E kind \in Scoped : QueueScoped(kind)
         \/ \E piece \in {"status", "ready"} : QueueState(piece)
         \/ \E kind \in Superseding \cup {"status"} : Withdraw(kind)

Owner == Flush \/ StartWorker \/ NoticeFailure \/ Reconnect \/ ReceiveHello

Working(w) == \/ Connect(w) \/ TakeFrame(w) \/ WriteFrame(w) \/ PublishWritten(w)
              \/ FailPending(w) \/ DropCheck(w) \/ DropFail(w)

DeliveryNext ==
    \/ Queue \/ RefreshHello \/ Owner
    \/ \E w \in WorkerIds : Working(w) \/ ConnectFails(w) \/ Break(w)

\* The owner's loop and the workers' threads run, the reconnect timer fires and the
\* server answers a Hello; nobody is owed a queued line or an unbroken connection, but
\* connections break MaxConnections - 1 times at most.
DeliveryFairness ==
    /\ WF_deliveryVars(Owner)
    /\ \A w \in WorkerIds : WF_deliveryVars(Working(w))

DeliverySpec == DeliveryInit /\ [][DeliveryNext]_deliveryVars /\ DeliveryFairness

-----------------------------------------------------------------------------
(* Properties. *)

\* The types, and what the lock-free owner relies on: a leased front exists, the lease is
\* the staged delivery's, and a staged delivery is the one the slot tracks.
DeliveryTypeOK ==
    /\ core.phase \in {"Connecting", "Reconnecting", "AwaitingHello", "Active"}
    /\ core.active \in BOOLEAN /\ core.gen \in 0 .. 2 * MaxConnections
    /\ Leased(core) => core.outbox # << >> /\ core.lease = gui.staged.lease
    /\ \A i \in DOMAIN core.outbox : core.outbox[i].cancelled => i = 1 /\ Leased(core)
    /\ gui.hello \in 0..2
    /\ gui.staged # NoStaged => gui.staged.token = slot.token
    /\ slot.queued \in BOOLEAN /\ slot.result \in {"none", "written", "failed"}
    /\ driver.live \in WorkerIds \cup {0} /\ driver.failed \in BOOLEAN
    /\ withdrawn \subseteq LineNumbers /\ written \subseteq LineNumbers

Pending == UNION {Carries(e) : e \in Range(core.outbox)}

\* However deliveries fail and connections are replaced, a queued line is pending, was
\* written or was withdrawn; a scoped line may also have gone with its connection and an
\* observation may have been replaced by a newer one.  The pending lines are in the order
\* they were queued, and only the first may have been written already.
NothingIsLost ==
    /\ \A n \in 1 .. Len(lines) :
          \/ n \in Pending \cup written \cup withdrawn
          \/ lines[n].kind # "reliable" /\ lines[n].gen # core.gen
          \/ /\ lines[n].kind = "ready"
             /\ \E m \in (Pending \cup written) : m > n /\ lines[m].kind = "ready"
    /\ \A j \in DOMAIN core.outbox : \A i \in 1 .. j - 1 :
          \A m \in Carries(core.outbox[i]), n \in Carries(core.outbox[j]) :
             m < n /\ n \notin written

\* A connection's first line is its Hello, and what was queued for one connection is
\* never carried by another, though outbox, slot and workers learn of a reconnect at
\* different times.
ScopedStaysOnItsConnection ==
    \A w \in WorkerIds : workers[w].frame.line.kind \notin {"none", "hello"} =>
        /\ workers[w].greeted
        /\ \A n \in Carries(workers[w].frame.line) :
              lines[n].kind = "reliable" \/ lines[n].gen = workers[w].gen

\* A line that was withdrawn while a delivery of it was in flight is not staged again
\* when that delivery fails (outbox.rs:514, "strips it before any failed write can be
\* retried").
WithdrawnIsNeverResent ==
    [][gui'.staged # gui.staged => Carries(gui'.staged.line) \cap withdrawn = {}]_deliveryVars

\* A reliable line reaches a connection, whatever fails before it, once a connection holds.
ReliableIsDelivered ==
    \A n \in LineNumbers :
        (n \in DOMAIN lines /\ lines[n].kind = "reliable") ~> (n \in written)
=============================================================================
