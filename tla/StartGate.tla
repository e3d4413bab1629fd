------------------------------ MODULE StartGate ------------------------------
(***************************************************************************)
(* The start and pause authority of one room as a state machine.  Every    *)
(* action is one whole handler of the server actor (crates/sorotte-server/ *)
(* src/runtime_handlers.rs and runtime_maintenance.rs) or one expiry of    *)
(* its periodic tick, applied to the runtime record `rt`.                  *)
(*                                                                         *)
(* Clients are free: they send any request, acknowledgement, intent or     *)
(* report they know of at any time, repeatedly, late and in any order, so  *)
(* delayed and duplicated messages need no message variable.               *)
(***************************************************************************)
EXTENDS RoomReadiness

VARIABLE rt

vars == <<rt>>

Init == rt = InitialRuntime

\* A fenced transport's input is rejected before any handler sees it.
Speaks(c) == rt.place[c] = "Room" /\ c \notin rt.fenced

-----------------------------------------------------------------------------
(* Sessions.                                                               *)

\* The session enters the room and receives the next room-join sequence number.
JoinRoom(s, c, caps) ==
  LET sequence == s.nextSeq + 1
  IN [s EXCEPT !.place[c] = "Room", !.caps[c] = caps,
               !.nextSeq = sequence, !.seq[c] = sequence]

\* `remove_session_tracking`, for a connection that goes to `place`.
RemoveSession(s, c, place) ==
  [s EXCEPT !.place[c] = place, !.caps[c] = {}, !.seq[c] = 0, !.nonce[c] = 0,
            !.pending[c] = NoPending, !.fenced = @ \ {c}]

\* `cleanup_room_if_empty`.
CleanupRoom(s) ==
  IF Persistent \/ ClientsInRoom(s) # {}
  THEN s
  ELSE [ClearGate(s) EXCEPT !.barrier = NoBarrier, !.paused = TRUE, !.tombstones = {}]

\* The departure of a session that is replaced by a new Hello on its connection.
ReplaceSession(s, c) ==
  CleanupRoom(RefreshMixedCohort(RemoveSession(
    MarkParticipantDisconnected(Detach(s, c, TRUE), c), c, "New")))

\* `timeout_disconnect_messages` marks the barrier first and the readiness membership
\* second, the opposite order of a replaced or a switching session.
DepartSession(s, c) ==
  CleanupRoom(RefreshMixedCohort(RemoveSession(
    Detach(MarkParticipantDisconnected(s, c), c, TRUE), c, "Gone")))

\* A reconnect token is useful while its username is free or the presenter's own.
UsableTokens(s, c) == {NoClient, c} \cup {d \in Clients : s.place[d] = "Gone"}

\* `handle_hello_for_peer`.  Without a restored membership the connection receives a
\* new token, and the model forgets what the old one named.
Hello(c, token) ==
  /\ rt.place[c] \in {"New", "Room"} /\ c \notin rt.fenced
  /\ rt.nextSeq < MaxSequence
  /\ token \in UsableTokens(rt, c)
  /\ LET left == IF rt.place[c] = "Room" THEN ReplaceSession(rt, c) ELSE rt
         attaches == "readiness" \in HelloCaps[c]
         restores == attaches /\ token # NoClient /\ left.detached[token].kept
         known == IF restores THEN left ELSE [left EXCEPT !.detached[c] = NoDetached]
         joined == JoinRoom(known, c, HelloCaps[c])
     IN rt' = RefreshMixedCohort(
                IF attaches
                THEN Attach(joined, c, IF restores THEN token ELSE NoClient, FALSE)
                ELSE joined)

\* Disconnect, protocol timeout, or the close of a fenced transport.
Disconnect(c) ==
  \/ rt.place[c] = "Room" /\ rt' = DepartSession(rt, c)
  \/ rt.place[c] = "Elsewhere" /\ rt' = RemoveSession(rt, c, "Gone")

\* Set.room out of this room: the membership is not retained, the connection's nonces
\* and capabilities are.
SwitchAway(c) ==
  /\ Speaks(c) /\ rt.nextSeq < MaxSequence
  /\ LET left == MarkParticipantDisconnected(Detach(rt, c, FALSE), c)
         sequence == left.nextSeq + 1
         moved == [left EXCEPT !.place[c] = "Elsewhere",
                               !.nextSeq = sequence, !.seq[c] = sequence]
     IN rt' = CleanupRoom(RefreshMixedCohort(moved))

\* Set.room into this room.
SwitchIn(c) ==
  /\ rt.place[c] = "Elsewhere" /\ c \notin rt.fenced /\ rt.nextSeq < MaxSequence
  /\ LET joined == JoinRoom(rt, c, rt.caps[c])
     IN rt' = RefreshMixedCohort(
                IF c \in V2(rt) THEN Attach(joined, c, NoClient, FALSE) ELSE joined)

\* Set.features: a session gains or loses an extension while it is in the room.  The
\* upgrade presents the connection's own reconnect identity.
Renegotiate(c, caps, seedReady) ==
  /\ Speaks(c) /\ caps # rt.caps[c]
  /\ LET changed == [rt EXCEPT !.caps[c] = caps]
         had == "readiness" \in rt.caps[c]
         has == "readiness" \in caps
     IN rt' = RefreshMixedCohort(
                IF ~had /\ has THEN Attach(changed, c, c, seedReady)
                ELSE IF had /\ ~has THEN Detach(changed, c, TRUE)
                ELSE changed)

-----------------------------------------------------------------------------
(* Messages of a member.                                                   *)

Prepare(c, q) ==
  /\ Speaks(c) /\ c \in q.from
  /\ rt.nextGen < MaxGeneration
  /\ rt' = StartPlaybackBarrier(rt, c, q)

Recover(c, q) ==
  /\ Speaks(c) /\ c \in q.from
  /\ rt' = RecoverPlaybackBarrier(rt, c, q)

MediaReady(c, generation, isReady) ==
  /\ Speaks(c)
  /\ rt' = RecordReady(rt, c, generation, isReady)

StartedAck(c, generation, revision) ==
  /\ Speaks(c)
  /\ rt' = RecordStarted(rt, c, generation, revision)

Intent(c, target, ready, source) ==
  /\ Speaks(c)
  /\ rt' = ApplyIntent(rt, c, target, ready, source)

\* An intent with a stale epoch, nonce or expected revision, or a reused operation id.
IntentFenced(c) ==
  /\ Speaks(c)
  /\ rt' = [rt EXCEPT !.pending[c] = NoPending]

SyncplayReady(c, target, ready) ==
  /\ Speaks(c)
  /\ rt' = ApplySyncplayReady(rt, c, target, ready)

TechnicalReport(c, generation, revision, report) ==
  /\ Speaks(c)
  /\ rt' = ApplyTechnicalReport(rt, c, generation, revision, report)

-----------------------------------------------------------------------------
(* `handle_state`: an observed pause or an ordinary transport command.     *)

\* Fault: evidence staged under the previous transport survives.
LaxMoveTransport(s, paused) ==
  LET moved == [s EXCEPT !.paused = paused]
  IN IF s.paused # paused /\ ~paused
     THEN [moved EXCEPT !.readiness.owner = NoOwner] ELSE moved

\* A controller's transport becomes canonical.
MoveTransport(s, paused) ==
  LET moved == RetirePendingTransport([s EXCEPT !.paused = paused])
  IN IF s.paused # paused /\ ~paused THEN SetPauseOwner(moved, NoOwner) ELSE moved

\* A V2 player's pause change is canonical only when an accepted user action or an
\* automatic owner explains it; otherwise it is staged until the action arrives.
V2Transport(s, c, paused) ==
  LET accepted == s.pending[c] = [paused |-> paused, evidence |-> "Accepted"]
      consumed == [s EXCEPT !.pending[c] = NoPending]
      automatic == AutomaticTransportOwner(s, c, paused)
      decided == RetireAwaitingDecision(consumed, c)
  IN IF accepted
     THEN MoveTransport(IF paused THEN ClaimUserPause(decided, c) ELSE decided, paused)
     ELSE IF automatic = NoOwner
     THEN [s EXCEPT !.pending[c] = [paused |-> paused, evidence |-> "Observed"]]
     ELSE MoveTransport(
            IF paused /\ s.readiness.owner \in {NoOwner, automatic}
            THEN SetPauseOwner(consumed, automatic) ELSE consumed, paused)

\* A legacy player's pause change is the user's unless an automatic system already
\* owns the pause.
SyncplayTransport(s, c, paused) ==
  LET automatic == /\ paused /\ s.readiness.live
                   /\ s.readiness.owner.kind \notin {"None", "User"}
      decided == RetireAwaitingDecision(s, c)
  IN MoveTransport(
       IF automatic THEN s
       ELSE IF paused THEN ClaimUserPause(decided, c) ELSE decided, paused)

\* Playstate is ignored while a start is being prepared; one whose transport revision
\* is stale, or that a pending server update fences, changes nothing.
Playstate(c, paused, seek) ==
  /\ Speaks(c) /\ c \in Controllers
  /\ rt.barrier.phase # "Preparing"
  /\ \/ /\ rt.paused # paused
        /\ rt' = IF c \in V2(rt) /\ rt.readiness.live
                 THEN V2Transport(rt, c, paused)
                 ELSE SyncplayTransport(rt, c, paused)
     \/ /\ rt.paused = paused /\ seek
        /\ rt' = MoveTransport(rt, paused)

\* `reset_room_transport_for_canonical_selection_change`: a lifecycle-aware room
\* changed its selection, or a player's guarded natural advance was accepted.
SelectionReset(c) ==
  /\ Speaks(c) /\ c \in Controllers
  /\ LET retired == RetireForSelection(rt)
         owned == IF rt.readiness.owner.kind # "User"
                  THEN SetPauseOwner(retired, AutomaticOwner("EndOfPlaylist"))
                  ELSE retired
         reset == ReplaceReadinessGeneration(owned, 0, FALSE)
     IN rt' = [reset EXCEPT !.paused = TRUE]

\* A room with no barrier-capable member only notes that the playlist moved.
SelectionNoted(c) ==
  /\ Speaks(c) /\ c \in Controllers
  /\ ClientsInRoom(rt) \cap BarrierV1(rt) = {}
  /\ rt.readiness.owner.kind \in {"None", "ReadinessStartGate", "EndOfPlaylist"}
  /\ rt' = SetPauseOwner(rt, AutomaticOwner("EndOfPlaylist"))

-----------------------------------------------------------------------------
(* The periodic tick.                                                      *)

PrepareDeadline ==
  rt.barrier.phase = "Preparing" /\ rt' = PrepareTimeout(rt)

StartedDeadline ==
  rt.barrier.phase = "Committed" /\ rt' = StartedTimeout(rt)

TombstoneExpires ==
  \E id \in rt.tombstones : rt' = [rt EXCEPT !.tombstones = @ \ {id}]

\* The grace period within which observation and action must meet.
PendingExpires(c) ==
  rt.pending[c] # NoPending /\ rt' = [rt EXCEPT !.pending[c] = NoPending]

-----------------------------------------------------------------------------
\* Clients know the generations and revisions that were published so far; an older one
\* is a delayed message.
Generations == 1 .. rt.nextGen
Revisions == 0 .. rt.nextRev

MemberStep(c) ==
  \/ \E token \in Clients \cup {NoClient} : Hello(c, token)
  \/ Disconnect(c)
  \/ SwitchAway(c)
  \/ SwitchIn(c)
  \/ \E caps \in Renegotiations, seedReady \in BOOLEAN : Renegotiate(c, caps, seedReady)

BarrierStep(c) ==
  \/ \E q \in Requests : Prepare(c, q) \/ Recover(c, q)
  \/ \E g \in Generations, isReady \in BOOLEAN : MediaReady(c, g, isReady)
  \/ \E g \in Generations, r \in Revisions : StartedAck(c, g, r)

ReadinessStep(c) ==
  \/ \E target \in Clients, ready \in BOOLEAN, source \in Sources :
       Intent(c, target, ready, source)
  \/ IntentFenced(c)
  \/ \E target \in Clients, ready \in BOOLEAN : SyncplayReady(c, target, ready)
  \/ \E g \in Generations, r \in Revisions, report \in Reports : TechnicalReport(c, g, r, report)

TransportStep(c) ==
  \/ \E paused, seek \in BOOLEAN : Playstate(c, paused, seek)
  \/ SelectionReset(c)
  \/ SelectionNoted(c)

TickStep ==
  \/ PrepareDeadline
  \/ StartedDeadline
  \/ TombstoneExpires
  \/ \E c \in Clients : PendingExpires(c)

Next ==
  \/ \E c \in Clients :
       MemberStep(c) \/ BarrierStep(c) \/ ReadinessStep(c) \/ TransportStep(c)
  \/ TickStep

\* The tick runs for as long as the server does, so a deadline that stays armed fires.
Fairness == WF_vars(PrepareDeadline) /\ WF_vars(StartedDeadline)

Spec == Init /\ [][Next]_vars /\ Fairness

-----------------------------------------------------------------------------
(* Properties of a state.                                                  *)

\* The runtime record stays within its types: no handler leaves an inconsistent variant.
TypeOK == rt \in Runtimes

\* A room whose start is being prepared stays paused until the commit, whatever the
\* players, the legacy clients and the staged transport evidence say (`handle_state`,
\* `apply_readiness_intent`, `apply_staged_user_transport_transition`).
PreparingHoldsPause == rt.barrier.phase = "Preparing" => rt.paused

\* Pause ownership tells the truth: a pause attributed to a user is in force and no
\* committed start coexists with it; a pause owned by the start gate is in force and is
\* that of the current generation; and a room without a coordinator has no owner
\* (`set_readiness_pause_owner` and all its callers).
PauseOwnershipIsTrue ==
  LET owner == rt.readiness.owner
  IN /\ owner.kind = "User" => rt.paused /\ rt.barrier.phase # "Committed"
     /\ owner.kind = "ReadinessStartGate" => rt.paused /\ owner.gen = rt.barrier.gen
     /\ ~rt.readiness.live => owner.kind = "None"

\* The coordinator's membership is exactly the room's V2 sessions, it exists exactly
\* while there is one, and a member's role is the one its session's capabilities and
\* fence give it; only a fenced transport that is being closed may still be listed as
\* required (`attach_`, `detach_readiness_membership`, `reconcile_...cohort_state`).
CohortFollowsSessions ==
  /\ ReadinessMembers(rt) = ClientsInRoom(rt) \cap V2(rt)
  /\ rt.readiness.live <=> ReadinessMembers(rt) # {}
  /\ \A c \in ReadinessMembers(rt) \ rt.fenced :
       rt.readiness.part[c].role = "Required" <=> c \in StartCapable(rt)

\* While a governed start is being prepared, its participants are the unfenced members
\* of the required cohort; only the initiator may be another client, since a recovery
\* admits any controller that speaks the barrier protocol.  A transport that recovery has
\* superseded never owns an active lifecycle.
BarrierFollowsCohort ==
  /\ rt.readiness.live /\ rt.barrier.phase = "Preparing" =>
       LET present == {c \in Clients : rt.barrier.part[c] # "Absent"}
           cohort == RequiredParticipants(rt) \ rt.fenced
       IN cohort \subseteq present /\ present \ {rt.barrier.initiator} \subseteq cohort
  /\ Active(rt.barrier) => rt.barrier.initiator \notin rt.fenced

\* The cached verdicts of every participant are those of its intent, role and evidence,
\* and no evidence of another generation survives (`recompute_participant_readiness`); the
\* published phase of the start gate is the one that the barrier, the cohort and the pause
\* owner determine: no handler forgets `refresh_readiness_gate_phase`, except that a
\* recovery leaves it to the close of the transport it fenced.
CachesAreFresh ==
  /\ \A c \in ReadinessMembers(rt) :
       LET record == rt.readiness.part[c]
       IN /\ record = Recompute(record, rt.readiness.gen)
          /\ record.tech.gen \in {0, rt.readiness.gen}
  /\ /\ rt.readiness.live /\ rt.readiness.gen # 0
     /\ ClientsInRoom(rt) \cap rt.fenced = {}
     => rt.readiness.gate = GateFor(rt)

\* Staged player evidence is about the present: it contradicts the canonical pause bit,
\* belongs to a member, and none is left while a start is being prepared
\* (`advance_transport_authority_revision` retires it).
StagedEvidenceIsCurrent ==
  \A c \in Clients : rt.pending[c].evidence # "None" =>
    /\ rt.pending[c].paused # rt.paused
    /\ c \in ReadinessMembers(rt)
    /\ rt.barrier.phase # "Preparing"

-----------------------------------------------------------------------------
(* Properties of a step.                                                   *)

PhaseRank(b) ==
  CASE b.phase = "Preparing" -> 0
    [] b.phase \in {"Committed", "AwaitingDecision"} -> 1
    [] OTHER -> 2

\* A generation is prepared once, committed at most once and under one revision, and
\* never leaves a terminal phase; generations only grow.
LifecycleOnlyAdvances ==
  [][/\ rt'.nextRev \in {rt.nextRev, rt.nextRev + 1}
     /\ rt'.barrier.gen \in {0, rt.barrier.gen} \/ rt'.barrier.gen = rt.nextGen + 1
     /\ rt'.barrier.gen = rt.barrier.gen =>
          /\ PhaseRank(rt'.barrier) >= PhaseRank(rt.barrier)
          /\ rt.barrier.rev # 0 => rt'.barrier.rev = rt.barrier.rev]_vars

\* A prepare that was displaced, or that is the current one, never opens a generation
\* while it is remembered, however late a copy of it arrives.
DisplacedStartsStayDisplaced ==
  [][rt'.nextGen > rt.nextGen =>
       LET id == rt'.barrier.req.id
       IN /\ id \notin rt.tombstones
          /\ rt.barrier.phase # "None" /\ id # 0 => id # rt.barrier.req.id
          /\ rt'.barrier.gen = rt.nextGen + 1
          /\ rt.barrier.phase # "None" =>
               rt.barrier.req.id \in rt'.tombstones \cup {0}]_vars

Commits == rt.barrier.phase # "Committed" /\ rt'.barrier.phase = "Committed"

\* A session that a new Hello on its own connection replaced within the step.
Replaced(c) == rt.place[c] = "Room" /\ rt'.place[c] = "Room" /\ rt'.seq[c] # rt.seq[c]

\* The coordinator outlives the step: some member neither left nor was replaced.
CoordinatorSurvives ==
  \E c \in ReadinessMembers(rt) \cap ReadinessMembers(rt') : ~Replaced(c)

\* The required participants that a step leaves in place.
StayingRequired == {c \in RequiredParticipants(rt') : ~Replaced(c)}

\* A start that commits for a required cohort finds all of it ready and playable for
\* this generation, confirmed to the extent its policy asks (AllEligible passes over the
\* entry of a session that was lost), and no legacy member under RequireAllMembers; a
\* session that the same Hello replaced may come back as one, after the commit
\* (`commit_playback_barrier` and its five callers).
StartIsEarned ==
  [][Commits /\ StayingRequired # {} =>
       LET b == rt'.barrier
           confirmed == {c \in Clients : b.part[c] = "Ready"}
       IN /\ \A c \in StayingRequired : rt'.readiness.part[c].startEligible
          /\ b.req.policy = "AllEligible" =>
               \A c \in StayingRequired : b.part[c] \in {"Ready", "Disconnected"}
          /\ b.req.policy = "Controller" => b.initiator \in confirmed
          /\ b.req.policy = "Quorum" => Cardinality(confirmed) >= b.req.quorum
          /\ MixedPolicy = "RequireAllMembers" =>
               {c \in ClientsInRoom(rt') : ~Replaced(c)} \ rt'.fenced
                 \subseteq StartCapable(rt')]_vars

\* A governed start that should already have been committed.
StartDue(s) ==
  /\ s.readiness.live /\ s.barrier.phase = "Preparing"
  /\ PolicySatisfied(s) /\ GateOwnsPause(s)

\* A recovery: the active generation passes to another session.
Recovers ==
  /\ rt'.barrier.gen = rt.barrier.gen
  /\ rt'.barrier.initiatorSeq # rt.barrier.initiatorSeq

\* No handler forgets `maybe_commit_readiness_gate`: a step that satisfies the policy of
\* a start whose pause the gate owns also commits it.  Only a recovery, which evaluates
\* nothing, may leave a start due.
NoMissedStart == [][StartDue(rt') => StartDue(rt) \/ Recovers]_vars

UserCommand ==
  \E c \in Clients :
    \/ \E target \in Clients, source \in Sources : Intent(c, target, TRUE, source)
    \/ \E paused, seek \in BOOLEAN : Playstate(c, paused, seek)

\* While the coordinator lives, a user's pause is taken over or released only by an
\* accepted Ready or a transport command, never by a join, a departure, a report, a
\* selection, a new generation or a timeout.
UserPauseYieldsOnlyToUsers ==
  [][rt.readiness.owner.kind = "User" /\ CoordinatorSurvives =>
       rt'.readiness.owner.kind = "User" \/ UserCommand]_vars

-----------------------------------------------------------------------------
(* Statements of the documentation that the code does not keep.            *)

\* docs/READINESS.md: for a governed start "a participant must also confirm that the
\* exact prepare revision, target seek, and logical pause were applied".
GovernedStartIsConfirmed ==
  [][Commits /\ rt.readiness.live => \E c \in Clients : rt'.barrier.part[c] = "Ready"]_vars

\* docs/READINESS.md: on reconnect "barrier readiness always reset[s] to [...] Pending and
\* require[s] fresh player evidence".
RecoveredReadinessIsFresh ==
  [][rt.barrier.phase = "Preparing" /\ rt'.barrier.gen = rt.barrier.gen =>
       LET owner == rt'.barrier.initiator
       IN owner # rt.barrier.initiator /\ rt'.barrier.part[owner] = "Ready" =>
            rt.barrier.part[owner] = "Ready"]_vars

-----------------------------------------------------------------------------
(* Liveness.                                                               *)

\* Every prepared generation leaves Preparing, and every committed one settles.
StartsResolve ==
  \A g \in 1 .. MaxGeneration :
    /\ (rt.barrier.phase = "Preparing" /\ rt.barrier.gen = g)
         ~> ~(rt.barrier.phase = "Preparing" /\ rt.barrier.gen = g)
    /\ (rt.barrier.phase = "Committed" /\ rt.barrier.gen = g)
         ~> ~(rt.barrier.phase = "Committed" /\ rt.barrier.gen = g)
=============================================================================
