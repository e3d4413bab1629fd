----------------------------- MODULE PlayerLoads -----------------------------
(***************************************************************************)
(* Load attempts of the mpv driver: the reducer of                         *)
(* sorotte-player-mpv/src/lifecycle.rs that says which load owns which     *)
(* entry of mpv's playlist, and the adapter around it that submits loads,  *)
(* handles mpv's events and reconciles with what mpv says its playlist is. *)
(*                                                                         *)
(* mpv runs beside the adapter.  Its events arrive in order, but a         *)
(* reconciliation reads properties of mpv's present, in several requests,  *)
(* and applies them later.  mpv's playlist holds at most one entry: every  *)
(* load replaces it.                                                       *)
(***************************************************************************)
EXTENDS Integers, Sequences, FiniteSets, SequencesExt

CONSTANTS
    Targets,         \* what a load may ask for
    MaxAttempts,     \* bound: load attempts, owned and external
    MaxEntries,      \* bound: playlist entries mpv makes
    LoadTicks,       \* ACCEPTED_LOAD_COMPLETION_TICKS, in steps of the clock
    RetentionTicks,  \* QUIESCENT_LOAD_ATTEMPT_RETENTION_TICKS, likewise
    MaxTrouble,      \* bound: failed reads, refused loads, lost connections, and
                     \* loads and stops that somebody else asks mpv for
    MaxWaiting       \* bound: events that wait when mpv restarts playback

ASSUME LoadAssumption ==
    /\ MaxAttempts \in Nat \ {0} /\ MaxEntries \in Nat \ {0}
    /\ LoadTicks \in Nat \ {0} /\ RetentionTicks \in Nat \ {0}
    /\ MaxTrouble \in Nat /\ MaxWaiting \in Nat

VARIABLES
    mpv,       \* external: mpv's playlist entry, what it plays, what it made
    events,    \* external: mpv's events the adapter has not handled yet
    life,      \* PlayerLifecycleState, the part about loads
    adapter,   \* MpvAdapter, the part about loads
    trouble,   \* how much of MaxTrouble has happened
    played     \* history: the entries whose file mpv has loaded

playerVars == <<mpv, events, life, adapter, trouble, played>>

Attempts == 1..MaxAttempts
Entries == 1..MaxEntries
None == 0
Never == -1      \* a deadline that is not set

-----------------------------------------------------------------------------
(* mpv (external). *)

\* list: the entry in the playlist; current: the entry mpv wants to play;
\* playing: the entry between its start-file and its end-file; loaded: after its
\* file-loaded; target: the file name of each entry made so far.
IdleMpv == [list |-> None, current |-> None, playing |-> None, loaded |-> FALSE,
            target |-> << >>]

\* loadfile with "replace".
Loadfile(m, t) ==
    LET e == Len(m.target) + 1
    IN [m EXCEPT !.list = e, !.current = e, !.target = Append(@, t)]

-----------------------------------------------------------------------------
(* PlayerLifecycleState. *)

NoAttempt ==
    [state |-> "none", entry |-> None, target |-> "none", baseline |-> {},
     replaced |-> None, successor |-> None, revoked |-> FALSE, result |-> "none",
     started |-> FALSE, loaded |-> FALSE, reconcile |-> Never, deadline |-> Never,
     retire |-> Never, command |-> "none"]

\* attempts: load_attempts; owner: playlist_entry_attempts; active:
\* active_load_attempt; ended: logical_terminal is set; deferred:
\* deferred_start_files; required: reconciliation_required; troubled: the last
\* reconciliation was incomplete or failed; tombs: the entries of
\* terminal_attempt_tombstones; due: the adapter's lifecycle_reconciliation_due,
\* which the reducer's effects set.
FreshLife(next) ==
    [attempts |-> [a \in Attempts |-> NoAttempt], owner |-> [e \in Entries |-> None],
     active |-> None, ended |-> FALSE, deferred |-> << >>, required |-> TRUE,
     troubled |-> FALSE, tombs |-> {}, next |-> next, due |-> TRUE]

Present(l) == {a \in Attempts : l.attempts[a].state # "none"}
Live(l) == {a \in Present(l) : l.attempts[a].state # "terminal"}
Unbound(l) == {a \in Live(l) : l.attempts[a].entry = None}

CommandOpen(a) == a.command \in {"submitted", "accepted"}
Largest(S) == IF S = {} THEN None ELSE CHOOSE a \in S : \A b \in S : b <= a

\* command_terminal and emit_load_outcome: the first outcome stays.
Answered(a, command, result) ==
    [a EXCEPT !.command = IF CommandOpen(a) THEN command ELSE @,
              !.result = IF @ = "none" THEN result ELSE @]

\* schedule_reconciliation with RequestLifecycleReconciliation.
Schedule(l) == [l EXCEPT !.required = TRUE, !.due = TRUE]

\* has_proactive_unbound_load_attempt and
\* stop_reconciliation_without_proactive_work.
Proactive(l) ==
    \E a \in Unbound(l) : l.attempts[a].state \in {"submitting", "accepted", "mayEmit"}
StopReconciliation(l) ==
    IF Proactive(l) \/ l.deferred # << >> \/ l.troubled THEN l
    ELSE [l EXCEPT !.required = FALSE]

\* commit_physical_attempt_terminal of each live attempt of S.  What one commit changes
\* no other one reads, so their order does not matter.
Finished(x, outcome) ==
    [Answered(x, "failed",
              IF outcome \in {"ended", "stopped"} THEN "indeterminate" ELSE outcome) EXCEPT
        !.state = "terminal", !.reconcile = Never, !.deadline = Never, !.retire = Never]
CommitAll(l, S, outcome) ==
    LET x == l.attempts
        over == S \cap Live(l)
    IN [l EXCEPT
          !.attempts = [a \in Attempts |-> IF a \in over THEN Finished(x[a], outcome) ELSE x[a]],
          !.owner = [e \in Entries |-> IF \E a \in over : x[a].entry = e THEN None ELSE @[e]],
          !.active = IF @ \in over THEN None ELSE @,
          !.ended = @ \/ (l.active \in over /\ x[l.active].successor = None
                                            /\ ~x[l.active].revoked)]
Commit(l, a, outcome) == CommitAll(l, {a}, outcome)

\* The predecessor of a selected successor a.
Superseded(x, a) ==
    [Answered(x, "superseded", "superseded") EXCEPT
        !.successor = a, !.revoked = TRUE, !.state = "superseded",
        !.reconcile = Never, !.deadline = Never, !.retire = Never]

\* Fault: other attempts keep their claim to the predecessor.
SupersedeKeepsClaims(l, p, a) ==
    IF p \notin Live(l) THEN l
    ELSE [l EXCEPT !.attempts[p] = Superseded(@, a)]

\* The part that LoadAttemptAccepted and ExternalLoadObserved share:
\* retain_only_selected_successor_claim and the revocation of the predecessor.
Disclaimed(x) == [x EXCEPT !.replaced = None]
Supersede(l, p, a) ==
    LET x == l.attempts
    IN IF p \notin Live(l) THEN l
       ELSE [l EXCEPT !.attempts = [b \in Attempts |->
               IF b = p THEN Superseded(x[b], a)
               ELSE IF b # a /\ x[b].replaced = p THEN Disclaimed(x[b]) ELSE x[b]]]

BoundTo(x, e) ==
    [x EXCEPT !.entry = e, !.reconcile = Never,
              !.state = IF @ \in {"accepted", "mayEmit"} THEN "bound" ELSE @]

\* Fault: a bound load has no deadline any more.
BindForgetsDeadline(l, a, e) ==
    LET x == l.attempts[a] IN
    IF l.owner[e] \notin {None, a} THEN Schedule(l)
    ELSE IF a \notin Live(l) \/ x.entry \notin {None, e} THEN l
    ELSE [l EXCEPT !.owner[e] = a,
                   !.attempts[a] = [BoundTo(@, e) EXCEPT !.deadline = Never]]

\* bind_attempt; it has succeeded when owner says so.
Bind(l, a, e) ==
    LET x == l.attempts[a] IN
    IF l.owner[e] \notin {None, a} THEN Schedule(l)
    ELSE IF a \notin Live(l) \/ x.entry \notin {None, e} THEN l
    ELSE [l EXCEPT !.owner[e] = a, !.attempts[a] = BoundTo(@, e)]

\* The attempt that loses the transport to another one.
Demoted(x) == [x EXCEPT !.state = IF x.successor = None THEN "mayEmit" ELSE "superseded"]
Seen(x, observed) == [x EXCEPT !.started = @ \/ observed]
Starting(x) == [x EXCEPT !.state = "starting"]

\* Fault: a start-file revives an attempt whose ownership was revoked.
StartRevoked(b, a, e, observed) ==
    LET s == [b EXCEPT !.attempts[a] = Seen(@, observed)]
        p == s.active
        d == IF p \notin {None, a} /\ s.attempts[p].state \in {"starting", "active"}
             THEN [s EXCEPT !.attempts[p] = Demoted(@)] ELSE s
    IN IF b.owner[e] # a THEN b
       ELSE IF s.attempts[a].state = "quiescent" THEN d
       ELSE [d EXCEPT !.attempts[a] = Starting(@), !.active = a, !.ended = FALSE]

\* start_attempt, after its bind_attempt has left b.
StartBound(b, a, e, observed) ==
    LET s == [b EXCEPT !.attempts[a] = Seen(@, observed)]
        x == s.attempts[a]
        p == s.active
        d == IF p \notin {None, a} /\ s.attempts[p].state \in {"starting", "active"}
             THEN [s EXCEPT !.attempts[p] = Demoted(@)] ELSE s
    IN IF b.owner[e] # a THEN b
       ELSE IF x.revoked THEN s
       ELSE IF x.state \in {"starting", "active"}
       THEN [s EXCEPT !.active = a, !.ended = FALSE]
       ELSE IF x.state = "quiescent" THEN d
       ELSE [d EXCEPT !.attempts[a] = Starting(@), !.active = a, !.ended = FALSE]

StartAttempt(l, a, e, observed) == StartBound(Bind(l, a, e), a, e, observed)

StartOwner(l, e, observed) ==
    IF l.owner[e] = None THEN l ELSE StartAttempt(l, l.owner[e], e, observed)

\* try_deferred_starts: in their order, those that have an owner by now are started and
\* the others are kept.
StartOrKeep(l, e) ==
    IF l.owner[e] = None THEN [l EXCEPT !.deferred = Append(@, e)] ELSE StartOwner(l, e, TRUE)
Tried(l) == FoldLeft(StartOrKeep, [l EXCEPT !.deferred = << >>], l.deferred)
TryDeferred(l) ==
    IF Tried(l).deferred # << >> /\ Proactive(Tried(l)) THEN Schedule(Tried(l)) ELSE Tried(l)

-----------------------------------------------------------------------------
(* Inputs of the reducer. *)

\* LoadAttemptSubmitted.
Submitted(l, t, baseline) ==
    LET open == {a \in Live(l) : l.attempts[a].successor = None}
    IN [l EXCEPT !.next = @ + 1,
                 !.attempts[l.next] = [NoAttempt EXCEPT
                    !.state = "submitting", !.target = t, !.baseline = baseline,
                    !.replaced = Largest(open), !.command = "submitted"]]

\* LoadAttemptAccepted.
Taken(x) == [x EXCEPT !.state = "accepted", !.command = "accepted",
                      !.reconcile = LoadTicks, !.deadline = LoadTicks]
Accepted(l, a) ==
    LET x == [l EXCEPT !.attempts[a] = Taken(@)]
        p == l.attempts[a].replaced
        y == IF p = None THEN x ELSE Supersede(x, p, a)
    IN Schedule(TryDeferred([y EXCEPT !.ended = FALSE]))

\* LoadAttemptRejected, whose answer to the command is that of the commit.
Rejected(l, a) == Commit(l, a, "neverStarted")

\* ExternalLoadObserved; past the bound only next moves, and the callers' guards refuse
\* the step.
External(l, e, t, loaded) ==
    LET p == l.active
        x == [l EXCEPT !.next = @ + 1,
                !.attempts[l.next] = [NoAttempt EXCEPT
                   !.state = IF loaded THEN "active" ELSE "starting",
                   !.entry = e, !.target = t,
                   !.baseline = {f \in Entries : l.owner[f] # None},
                   !.replaced = p, !.started = TRUE, !.loaded = loaded,
                   !.deadline = IF loaded THEN Never ELSE LoadTicks,
                   !.result = IF loaded THEN "loaded" ELSE "none"]]
        y == IF p = None THEN x ELSE Supersede(x, p, l.next)
    IN IF l.owner[e] # None \/ e \in l.tombs THEN l
       ELSE IF l.next > MaxAttempts THEN [l EXCEPT !.next = @ + 1]
       ELSE [y EXCEPT !.owner[e] = l.next, !.active = l.next, !.ended = FALSE]

\* StartFile.
StartFile(l, e) ==
    IF e \in l.tombs THEN l
    ELSE IF l.owner[e] # None THEN StartOwner(l, e, TRUE)
    ELSE Schedule([l EXCEPT !.deferred = IF Contains(@, e) THEN @ ELSE Append(@, e)])

\* FileLoaded of an entry that has an owner.
First(l, a) == a \in Live(l) /\ ~l.attempts[a].loaded
Owns(l, a) == First(l, a) /\ ~l.attempts[a].revoked
Loaded(x) == [x EXCEPT !.loaded = TRUE, !.deadline = Never]
Playing(x) == [Answered(x, "completed", "loaded") EXCEPT !.state = "active", !.retire = Never]
FileLoaded(l, e) ==
    LET a == l.owner[e]
        seen == [l EXCEPT !.attempts[a] = Loaded(@)]
        p == l.active
        d == IF p \notin {None, a} /\ l.attempts[p].state = "active"
             THEN [seen EXCEPT !.attempts[p] = Demoted(@)] ELSE seen
    IN IF ~First(l, a) THEN l
       ELSE IF ~Owns(l, a) THEN seen
       ELSE [d EXCEPT !.active = a,
                      !.attempts[a] = Playing(@)]

\* PlaylistSnapshot: reconcile_playlist with no entry, and with entry e, which
\* authoritative_playlist_entries makes current because it is the only one.
SnapshotIdle(l, path) ==
    LET awaiting == \E a \in Unbound(l) :
            \/ l.attempts[a].state = "submitting"
            \/ l.attempts[a].state \in {"accepted", "mayEmit"} /\ l.attempts[a].reconcile > 0
        over == CommitAll(l, {a \in Live(l) :
                    l.attempts[a].state \notin {"submitting", "accepted"}}, "stopped")
    IN IF path THEN [Schedule(l) EXCEPT !.troubled = TRUE]
       ELSE IF awaiting THEN [Schedule(l) EXCEPT !.troubled = FALSE]
       ELSE [over EXCEPT !.deferred = << >>, !.required = FALSE, !.troubled = FALSE]

\* The active attempt is not in the playlist any more.
DropOther(l, e) ==
    IF l.active # None /\ l.attempts[l.active].entry \notin {None, e}
    THEN Commit(l, l.active, "stopped") ELSE l

\* The entry is bound to the one load that can have made it.
Claims(l, e, t) ==
    {a \in Unbound(l) : /\ l.attempts[a].state # "submitting"
                        /\ l.owner[e] = None
                        /\ e \notin l.attempts[a].baseline
                        /\ l.attempts[a].target = t}
BindClaim(l, e, t) ==
    LET claims == Claims(l, e, t)
    IN IF Cardinality(claims) = 1 THEN Bind(l, Largest(claims), e) ELSE l

Reconciled(l) ==
    LET unresolved == \E a \in Unbound(l) :
                        /\ l.attempts[a].state \in {"accepted", "mayEmit"}
                        /\ l.attempts[a].reconcile > 0
    IN IF unresolved THEN [Schedule(l) EXCEPT !.troubled = FALSE]
       ELSE [l EXCEPT !.deferred = << >>, !.required = FALSE, !.troubled = FALSE]

SnapshotEntry(l, e, t) ==
    Reconciled(TryDeferred(StartOwner(BindClaim(DropOther(l, e), e, t), e, FALSE)))

\* LifecycleReconciliationFailed.
ReconciliationFailed(l) == [l EXCEPT !.required = TRUE, !.troubled = TRUE]

\* Fault: the countdown goes on after its end.
SoonerAlways(n) == n - 1

\* The clock moves a step and TimerAdvanced follows, with the time-out of the
\* load commands, which is as long as the load's own.
Sooner(n) == IF n > 0 THEN n - 1 ELSE n
Elapsed(x) == [x EXCEPT !.reconcile = Sooner(@), !.deadline = Sooner(@),
                        !.retire = Sooner(@)]

Overdue(l) ==
    {a \in Live(l) : /\ ~l.attempts[a].revoked
                     /\ l.attempts[a].result = "none"
                     /\ l.attempts[a].deadline = 0}

\* An attempt that was never seen to start may still emit, but owns nothing.
Holds(l, a) == l.active = a /\ l.attempts[a].started
Unanswered(x) == [Answered(x, "notObserved", "indeterminate") EXCEPT !.deadline = Never]
Quiet(x) == [Unanswered(x) EXCEPT !.state = "quiescent", !.retire = RetentionTicks,
                                  !.reconcile = Never]
ExpireAll(l) ==
    LET x == l.attempts
        late == Overdue(l)
        idle == {a \in late : ~Holds(l, a)}
    IN [l EXCEPT
          !.attempts = [a \in Attempts |-> IF a \in idle THEN Quiet(x[a])
                                           ELSE IF a \in late THEN Unanswered(x[a]) ELSE x[a]],
          !.active = IF @ \in idle THEN None ELSE @,
          !.due = @ \/ idle # {}]

Elapse(l) == [l EXCEPT !.attempts = [a \in Attempts |-> Elapsed(@[a])]]
RetireAll(l) ==
    CommitAll(l, {a \in Live(l) : l.attempts[a].state = "quiescent" /\ l.attempts[a].retire = 0},
              "neverStarted")
Polled(l) == IF l.required THEN [l EXCEPT !.due = TRUE] ELSE l

\* Fault: quiescent loads go, the reconciliation on their behalf stays.
TimerKeepsPolling(l) == RetireAll(ExpireAll(Elapse(l)))

TimerAdvanced(l) == Polled(StopReconciliation(RetireAll(ExpireAll(Elapse(l)))))

\* compact_acknowledged_lifecycle of the finished attempts S: what is left no longer names
\* them where they name it.
Unlinked(x, back, forward) ==
    [x EXCEPT !.replaced = IF back THEN None ELSE @,
              !.successor = IF forward THEN None ELSE @,
              !.state = IF forward /\ @ = "superseded" THEN "mayEmit" ELSE @]
CompactAll(l, S) ==
    LET x == l.attempts
    IN [l EXCEPT
          !.attempts = [b \in Attempts |->
             IF b \in S THEN NoAttempt
             ELSE Unlinked(x[b], x[b].replaced \in S /\ x[x[b].replaced].successor = b,
                           x[b].successor \in S /\ x[x[b].successor].replaced = b)],
          !.tombs = @ \cup ({x[a].entry : a \in S} \ {None})]

-----------------------------------------------------------------------------
(* MpvAdapter. *)

\* pc: "idle"; "sent", between loadfile and its answer; "accepted", before the
\* reconciliation that follows the answer; "read", between the playlist and the
\* path of a reconciliation; "publish", before its end; "lost", without mpv.
\* entry: the playlist as it was read; latest: the entry of
\* latest_start_file_observation; lateStart and lateLoaded: its deferred
\* start-file and file-loaded; lateRestart: a playback-restart came after the
\* deferred start-file; shown and shownLoaded: the physical projection,
\* active_load_attempt_id and active_file_loaded; batch: the finished attempts
\* of the batch the consumer holds.
FreshAdapter(pc) ==
    [pc |-> pc, entry |-> None, latest |-> None, lateStart |-> FALSE,
     lateLoaded |-> FALSE, lateRestart |-> FALSE, shown |-> None, shownLoaded |-> FALSE,
     batch |-> {}]

Troubled == trouble < MaxTrouble /\ trouble' = trouble + 1

Hidden(d) == [d EXCEPT !.shown = None, !.shownLoaded = FALSE]
Show(d, a, loaded) == [d EXCEPT !.shown = a, !.shownLoaded = loaded]

\* lifecycle_attempt_owns_loading_projection.
OwnsProjection(l, a) ==
    l.active = a /\ ~l.attempts[a].revoked /\ l.attempts[a].state # "quiescent"

\* replay_deferred_start_file_if_bound, with the playback-restart that was kept for it.  A
\* restart that was applied to the same attempt since the start-file would be repeated too,
\* but none is applied to an attempt that does not own the deferred entry yet.
Replayed(d) == [d EXCEPT !.lateStart = FALSE, !.lateRestart = FALSE]
ReplayStart(l, d) ==
    LET a == l.owner[d.latest] IN
    IF ~d.lateStart \/ a = None THEN d
    ELSE IF OwnsProjection(l, a) THEN Replayed(Show(d, a, d.lateRestart))
    ELSE Replayed(d)

\* handle_start_file_observation.
Unexplained(l, e) == l.owner[e] = None /\ Unbound(l) = {}
StartOrExternal(l, e) == IF Unexplained(l, e) THEN External(l, e, "none", FALSE) ELSE l
HandleStart(e) ==
    LET d == [adapter EXCEPT !.latest = e,
                             !.lateStart = @ /\ adapter.latest = e,
                             !.lateLoaded = @ /\ adapter.latest = e,
                             !.lateRestart = FALSE]
    IN \E l \in {StartOrExternal(StartFile(life, e), e)} :
       LET a == l.owner[e] IN
       /\ l.next <= MaxAttempts + 1
       /\ IF a = None
          THEN /\ life' = [l EXCEPT !.due = TRUE]
               /\ adapter' = [d EXCEPT !.lateStart = TRUE]
          ELSE /\ life' = l
               /\ adapter' = IF OwnsProjection(l, a)
                             THEN [Show(d, a, FALSE) EXCEPT !.lateStart = FALSE]
                             ELSE [d EXCEPT !.lateStart = FALSE]

\* Fault: the event is taken to be about what the adapter shows.
LoadedOfShown(l, d) ==
    LET known == IF d.shown # None THEN l.attempts[d.shown].entry ELSE d.latest
        r == IF d.latest = None THEN d ELSE ReplayStart(l, d)
        a == l.owner[known]
    IN IF known = None THEN <<[l EXCEPT !.due = TRUE], r>>
       ELSE IF a = None
       THEN <<[l EXCEPT !.due = TRUE], [r EXCEPT !.lateLoaded = (known = d.latest)]>>
       ELSE LET n == [r EXCEPT !.lateLoaded = FALSE] IN
            IF Owns(l, a)
            THEN <<[FileLoaded(l, known) EXCEPT !.due = TRUE], Show(n, a, TRUE)>>
            ELSE <<FileLoaded(l, known), n>>

\* handle_file_loaded_observation; mpv's event does not name the entry.
AfterLoaded(l, d) ==
    LET known == IF d.latest # None THEN d.latest
                 ELSE IF d.shown # None THEN l.attempts[d.shown].entry ELSE None
        r == IF d.latest = None THEN d ELSE ReplayStart(l, d)
        a == l.owner[known]
    IN IF known = None THEN <<[l EXCEPT !.due = TRUE], r>>
       ELSE IF a = None
       THEN <<[l EXCEPT !.due = TRUE], [r EXCEPT !.lateLoaded = (known = d.latest)]>>
       ELSE LET n == [r EXCEPT !.lateLoaded = FALSE] IN
            IF Owns(l, a)
            THEN <<[FileLoaded(l, known) EXCEPT !.due = TRUE], Show(n, a, TRUE)>>
            ELSE <<FileLoaded(l, known), n>>

HandleLoaded ==
    \E after \in {AfterLoaded(life, adapter)} : life' = after[1] /\ adapter' = after[2]

\* handle_playback_restart_event: the active attempt is shown as loaded, whether or not
\* its file-loaded was seen, unless the restart may be another entry's.
AfterRestart(l, d) ==
    IF d.lateStart /\ l.owner[d.latest] \in {None} \cup (Attempts \ {l.active})
    THEN <<[l EXCEPT !.due = TRUE], [d EXCEPT !.lateRestart = TRUE]>>
    ELSE IF \/ l.active = None
            \/ d.shown # None /\ l.attempts[d.shown].entry # l.attempts[l.active].entry
    THEN <<[l EXCEPT !.due = TRUE], d>>
    ELSE <<l, Show(d, l.active, TRUE)>>

HandleRestart ==
    \E after \in {AfterRestart(life, adapter)} : life' = after[1] /\ adapter' = after[2]

\* Fault: the projection of a finished load stays.
EndKeepsProjection(e, outcome) ==
    LET d == IF adapter.latest = e
             THEN [adapter EXCEPT !.latest = None, !.lateStart = FALSE, !.lateLoaded = FALSE,
                                  !.lateRestart = FALSE]
             ELSE adapter
        a == life.owner[e]
        over == e \in life.tombs \/ \E b \in Present(life) \ Live(life) :
                                       life.attempts[b].entry = e
    IN /\ adapter' = d
       /\ life' = IF a = None THEN [life EXCEPT !.due = @ \/ ~over]
                  ELSE Commit(life, a, outcome)

\* handle_end_file_event.
HandleEnd(e, outcome) ==
    LET d == IF adapter.latest = e
             THEN [adapter EXCEPT !.latest = None, !.lateStart = FALSE, !.lateLoaded = FALSE,
                                  !.lateRestart = FALSE]
             ELSE adapter
        a == life.owner[e]
        over == e \in life.tombs \/ \E b \in Present(life) \ Live(life) :
                                       life.attempts[b].entry = e
    IN IF a = None
       THEN adapter' = d /\ life' = [life EXCEPT !.due = @ \/ ~over]
       ELSE /\ life' = Commit(life, a, outcome)
            /\ adapter' = IF d.shown = a THEN Hidden(d) ELSE d

HandleEvent ==
    /\ adapter.pc \in {"idle", "read", "publish"}
    /\ events # << >>
    /\ LET event == Head(events) IN
       CASE event.kind = "start" -> HandleStart(event.entry)
         [] event.kind = "loaded" -> HandleLoaded
         [] event.kind = "restart" -> HandleRestart
         [] OTHER -> HandleEnd(event.entry, event.kind)
    /\ events' = Tail(events)
    /\ UNCHANGED <<mpv, trouble, played>>

\* open_file up to the loadfile request, the baseline read included.
OpenFile(t) ==
    /\ adapter.pc = "idle"
    /\ life.next <= MaxAttempts
    /\ Len(mpv.target) < MaxEntries
    /\ life' = Submitted(life, t, {mpv.list} \ {None})
    /\ adapter' = [adapter EXCEPT !.pc = "sent"]
    /\ UNCHANGED <<mpv, events, trouble, played>>

Sent == Largest({a \in Live(life) : life.attempts[a].state = "submitting"})

\* clear_adapter_pending_load_after_quiescence: a load that became quiescent
\* leaves the projection.
AfterTimer(l, d) ==
    IF d.shown # None /\ l.attempts[d.shown].state = "quiescent" THEN Hidden(d) ELSE d

\* mpv answers; apply_lifecycle_input advances the timer to the time of the answer
\* first, and a step of the clock may have passed since.
LoadAccepted ==
    /\ adapter.pc = "sent"
    /\ Len(mpv.target) < MaxEntries
    /\ mpv' = Loadfile(mpv, life.attempts[Sent].target)
    /\ \E l \in {life, TimerAdvanced(life)} :
          /\ life' = Accepted(l, Sent)
          /\ adapter' = [AfterTimer(l, adapter) EXCEPT !.pc = "accepted"]
    /\ UNCHANGED <<events, trouble, played>>

\* mpv refuses, or the answer is lost after mpv has taken the load.
LoadRejected ==
    /\ adapter.pc = "sent"
    /\ Troubled
    /\ \/ UNCHANGED mpv
       \/ Len(mpv.target) < MaxEntries /\ mpv' = Loadfile(mpv, life.attempts[Sent].target)
    /\ life' = Rejected(life, Sent)
    /\ adapter' = [adapter EXCEPT !.pc = "idle"]
    /\ UNCHANGED <<events, played>>

\* reconcile_lifecycle_from_authority, up to the playlist's answer.
ReadPlaylist ==
    /\ \/ adapter.pc = "accepted" /\ UNCHANGED life
       \/ adapter.pc = "idle" /\ life.due /\ life' = [life EXCEPT !.due = FALSE]
    /\ adapter' = [adapter EXCEPT !.pc = "read", !.entry = mpv.list]
    /\ UNCHANGED <<mpv, events, trouble, played>>

\* One of its reads fails.
ReadFails ==
    /\ adapter.pc \in {"read", "publish"}
    /\ Troubled
    /\ life' = ReconciliationFailed(life)
    /\ adapter' = [adapter EXCEPT !.pc = "idle"]
    /\ UNCHANGED <<mpv, events, played>>

\* observe_external_current_from_authority.
ObserveCurrent(l, e, t) ==
    IF l.owner[e] # None \/ \E a \in Unbound(l) : l.attempts[a].target = t THEN l
    ELSE External(l, e, t, adapter.shownLoaded)

Snapshot(l, e) ==
    IF e = None THEN SnapshotIdle(l, mpv.playing # None)
    ELSE ObserveCurrent(SnapshotEntry(l, e, mpv.target[e]), e, mpv.target[e])

\* The path's answer, with every event before it handled: the snapshot is
\* reduced and the deferred observations are replayed.
ApplySnapshot ==
    /\ adapter.pc = "read"
    /\ events = << >>
    /\ \E l \in {Snapshot(life, adapter.entry)} :
       \E r \in {IF adapter.latest = None THEN adapter ELSE ReplayStart(l, adapter)} :
       \E after \in {IF r.lateLoaded /\ l.owner[r.latest] # None
                    THEN AfterLoaded(l, r) ELSE <<l, r>>} :
          /\ l.next <= MaxAttempts + 1
          /\ life' = after[1]
          /\ adapter' = [after[2] EXCEPT !.pc = "publish"]
    /\ UNCHANGED <<mpv, events, trouble, played>>

\* The rest of the reads, publish_reconciled_transport_state, and the end.
Publish ==
    /\ adapter.pc = "publish"
    /\ events = << >>
    /\ LET a == life.active
           d == IF a = None THEN Hidden(adapter)
                ELSE IF life.attempts[a].entry # adapter.entry \/ adapter.shown = a THEN adapter
                ELSE Show(adapter, a, life.attempts[a].state = "active")
       IN adapter' = [d EXCEPT !.pc = "idle", !.entry = None]
    /\ life' = [life EXCEPT !.due = FALSE]
    /\ UNCHANGED <<mpv, events, trouble, played>>

\* maintain_runtime_integrations, after a step of the clock.
Tick ==
    /\ adapter.pc = "idle"
    /\ life' = TimerAdvanced(life)
    /\ life' # life
    /\ adapter' = AfterTimer(life', adapter)
    /\ UNCHANGED <<mpv, events, trouble, played>>

\* peek_event_batch, and acknowledge_event_batch.
PeekBatch ==
    /\ adapter.pc = "idle"
    /\ adapter.batch = {}
    /\ Present(life) # Live(life)
    /\ adapter' = [adapter EXCEPT !.batch = Present(life) \ Live(life)]
    /\ UNCHANGED <<mpv, events, life, trouble, played>>

AcknowledgeBatch ==
    /\ adapter.pc = "idle"
    /\ adapter.batch # {}
    /\ life' = CompactAll(life, adapter.batch)
    /\ adapter' = [adapter EXCEPT !.batch = {}]
    /\ UNCHANGED <<mpv, events, trouble, played>>

\* observe_unhealthy_ipc_transport: TransportDisconnected, unless the transport's phase
\* says that nothing plays.
Disconnect ==
    /\ adapter.pc = "idle"
    /\ Troubled
    /\ \/ life' = CommitAll(life, Live(life), "disconnected")
       \/ life.active = None /\ UNCHANGED life
    /\ adapter' = [FreshAdapter("lost") EXCEPT !.batch = adapter.batch]
    /\ events' = << >>
    /\ UNCHANGED <<mpv, played>>

\* attach with AttachmentReplaced, to an mpv that is still running.
Attach ==
    /\ adapter.pc = "lost"
    /\ life' = FreshLife(life.next)
    /\ adapter' = FreshAdapter("accepted")
    /\ events' = << >>
    /\ UNCHANGED <<mpv, trouble, played>>

-----------------------------------------------------------------------------
(* What mpv does by itself (external). *)

Emit(kind, e) == events' = IF adapter.pc = "lost" THEN events
                           ELSE Append(events, [kind |-> kind, entry |-> e])

\* Somebody loads a file in mpv, or stops it.
MpvExternalLoad(t) ==
    /\ Len(mpv.target) < MaxEntries
    /\ Troubled
    /\ mpv' = Loadfile(mpv, t)
    /\ UNCHANGED <<events, life, adapter, played>>

MpvStop ==
    /\ mpv.list # None
    /\ Troubled
    /\ mpv' = [mpv EXCEPT !.list = None, !.current = None]
    /\ UNCHANGED <<events, life, adapter, played>>

MpvUnload ==
    /\ mpv.playing \notin {None, mpv.current}
    /\ mpv' = [mpv EXCEPT !.playing = None, !.loaded = FALSE]
    /\ Emit("stopped", mpv.playing)
    /\ UNCHANGED <<life, adapter, trouble, played>>

MpvStart ==
    /\ mpv.playing = None /\ mpv.current # None
    /\ mpv' = [mpv EXCEPT !.playing = mpv.current]
    /\ Emit("start", mpv.current)
    /\ UNCHANGED <<life, adapter, trouble, played>>

MpvLoaded ==
    /\ mpv.playing = mpv.current /\ mpv.playing # None /\ ~mpv.loaded
    /\ mpv' = [mpv EXCEPT !.loaded = TRUE]
    /\ Emit("loaded", mpv.playing)
    /\ played' = played \cup {mpv.playing}
    /\ UNCHANGED <<life, adapter, trouble>>

\* The first frame of a file, or of what follows a seek in it, is played.
MpvRestart ==
    /\ mpv.playing = mpv.current /\ mpv.loaded
    /\ Len(events) <= MaxWaiting
    /\ Emit("restart", mpv.playing)
    /\ UNCHANGED <<mpv, life, adapter, trouble, played>>

\* The file cannot be opened, or it has ended.
MpvEnd ==
    /\ mpv.playing = mpv.current /\ mpv.playing # None
    /\ mpv' = [mpv EXCEPT !.playing = None, !.current = None, !.loaded = FALSE]
    /\ Emit(IF mpv.loaded THEN "ended" ELSE "failed", mpv.playing)
    /\ UNCHANGED <<life, adapter, trouble, played>>

-----------------------------------------------------------------------------

PlayerInit ==
    /\ mpv = IdleMpv
    /\ events = << >>
    /\ life = [FreshLife(1) EXCEPT !.due = FALSE, !.required = FALSE]
    /\ adapter = FreshAdapter("idle")
    /\ trouble = 0
    /\ played = {}

Reconcile == ReadPlaylist \/ ReadFails \/ ApplySnapshot \/ Publish
Load == (\E t \in Targets : OpenFile(t)) \/ LoadAccepted \/ LoadRejected
Consume == PeekBatch \/ AcknowledgeBatch
Mpv == \/ \E t \in Targets : MpvExternalLoad(t)
       \/ MpvStop \/ MpvUnload \/ MpvStart \/ MpvLoaded \/ MpvRestart \/ MpvEnd

PlayerNext == Load \/ HandleEvent \/ Reconcile \/ Tick \/ Consume \/ Disconnect \/ Attach \/ Mpv

PlayerSpec == PlayerInit /\ [][PlayerNext]_playerVars

-----------------------------------------------------------------------------
(* Properties. *)

AttemptStates == {"none", "submitting", "accepted", "mayEmit", "bound", "starting",
                  "active", "quiescent", "superseded", "terminal"}
Commands == {"none", "submitted", "accepted", "completed", "superseded", "failed",
             "notObserved"}
Results == {"none", "loaded", "superseded", "indeterminate", "failed", "neverStarted",
            "disconnected"}
LoadAttempt ==
    [state : AttemptStates, entry : Entries \cup {None}, target : Targets \cup {"none"},
     baseline : SUBSET Entries, replaced : Attempts \cup {None},
     successor : Attempts \cup {None}, revoked : BOOLEAN, result : Results,
     started : BOOLEAN, loaded : BOOLEAN, reconcile : Never .. LoadTicks,
     deadline : Never .. LoadTicks, retire : Never .. RetentionTicks, command : Commands]

Lives ==
    [attempts : [Attempts -> LoadAttempt], owner : [Entries -> Attempts \cup {None}],
     active : Attempts \cup {None}, ended : BOOLEAN, deferred : Seq(Entries),
     required : BOOLEAN, troubled : BOOLEAN, tombs : SUBSET Entries, next : Nat \ {0},
     due : BOOLEAN]
Adapters ==
    [pc : {"idle", "sent", "accepted", "read", "publish", "lost"}, entry : Entries \cup {None},
     latest : Entries \cup {None}, lateStart : BOOLEAN, lateLoaded : BOOLEAN,
     lateRestart : BOOLEAN, shown : Attempts \cup {None}, shownLoaded : BOOLEAN,
     batch : SUBSET Attempts]
Mpvs ==
    [list : Entries \cup {None}, current : Entries \cup {None},
     playing : Entries \cup {None}, loaded : BOOLEAN, target : Seq(Targets)]
Events == [kind : {"start", "loaded", "restart", "stopped", "ended", "failed"}, entry : Entries]

\* The types; countdowns end, and no more entries are deferred than mpv has made.
PlayerTypeOK ==
    /\ mpv \in Mpvs /\ Len(mpv.target) <= MaxEntries /\ events \in Seq(Events)
    /\ life \in Lives /\ life.next <= MaxAttempts + 1
    /\ Len(life.deferred) <= Len(mpv.target)
    /\ adapter \in Adapters /\ trouble \in 0 .. MaxTrouble /\ played \subseteq Entries

\* What assert_invariants (lifecycle.rs:1075) says of loads, whatever the order of
\* answers, events and snapshots: one live owner per entry and one entry per owner, at
\* most one attempt that plays, selected successors and their predecessors that name each
\* other, deadlines only of loads that are open, and after the logical end no attempt that
\* plays but one whose file-loaded came late.  For that one, and for a predecessor that was
\* compacted, assert_invariants asks for more than the code keeps (see README).
LoadsAgree ==
    LET x == life.attempts
        here == Present(life)
        live == Live(life)
    IN
    /\ life.active # None => life.active \in live /\ x[life.active].state # "quiescent"
    /\ life.ended => life.active = None \/ x[life.active].loaded
    /\ \A a \in live : x[a].state = "active" => life.active = a
    /\ \A e \in Entries : life.owner[e] # None =>
          life.owner[e] \in live /\ x[life.owner[e]].entry = e
    /\ \A a \in live : x[a].entry # None => life.owner[x[a].entry] = a
    /\ \A a \in here :
          /\ x[a].state = "accepted" => x[a].entry = None /\ x[a].deadline # Never
          /\ x[a].deadline # Never => x[a].result = "none" /\ ~x[a].revoked /\ ~x[a].loaded
          /\ x[a].state = "active" => x[a].loaded
          /\ x[a].successor # None =>
               x[a].successor \in here /\ x[x[a].successor].replaced = a /\ x[a].revoked
          /\ x[a].state = "superseded" => x[a].successor # None
          /\ x[a].replaced \in here => x[x[a].replaced].successor \in {None, a}

\* "Every submitted tracked command has exactly one terminal semantic outcome"
\* (player-lifecycle-stabilization.md:243): a load without an outcome is in flight, or a
\* deadline runs that will give it one.
LoadsWillBeAnswered ==
    \A a \in Live(life) :
        life.attempts[a].result = "none" =>
            \/ life.attempts[a].state = "submitting" /\ adapter.pc = "sent"
            \/ life.attempts[a].deadline > 0

\* A load command is only reported complete when mpv has loaded the very entry the load
\* is bound to, though file-loaded does not name its entry and may be replayed late.
CompletedMeansLoaded ==
    \A a \in Present(life) :
        life.attempts[a].command = "completed" => life.attempts[a].entry \in played

\* When no reconciliation is due or wanted, the adapter's physical projection is the
\* reducer's active attempt, if there is one, is no finished attempt, and is not shown as
\* loaded before mpv has loaded its entry or one made after it: a playback-restart names no
\* entry and shows the active attempt as loaded, whether or not the reducer saw it load.
Settled == adapter.pc = "idle" /\ ~life.required /\ ~life.due
SettledProjectionAgrees ==
    Settled =>
        /\ life.active # None => adapter.shown = life.active
        /\ adapter.shown # None => adapter.shown \in Live(life)
        /\ adapter.shownLoaded =>
             \/ life.attempts[adapter.shown].loaded
             \/ \E e \in played : life.attempts[adapter.shown].entry \in 1..e

\* Loads "cannot poll forever either" (player-lifecycle-stabilization.md:259): the adapter
\* only keeps asking mpv while a read has failed or contradicts itself, a start is
\* unexplained, the time of an unbound load runs, or a reconciliation is due that will end
\* the asking on behalf of a load whose successor was compacted.
PollingHasReason ==
    adapter.pc = "idle" /\ life.required =>
        \/ life.troubled \/ life.deferred # << >>
        \/ \E a \in Unbound(life) : life.attempts[a].reconcile > 0
        \/ life.due /\ Proactive(life)

\* Acceptance of a successor "permanently revokes that attempt's logical ownership"
\* (player-lifecycle-stabilization.md:191): late events, snapshots, rejected successors
\* and the compaction of its successor never make a revoked attempt the active one again.
RevocationIsPermanent ==
    [][\A a \in Attempts :
          life.attempts[a].revoked /\ life'.active = a => life.active = a]_playerVars
=============================================================================
