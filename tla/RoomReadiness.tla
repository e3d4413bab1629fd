---------------------------- MODULE RoomReadiness ----------------------------
(***************************************************************************)
(* The membership and evidence handlers of the readiness coordinator       *)
(* (crates/sorotte-server/src/runtime_readiness.rs): attach and detach,    *)
(* the mixed-room cohort, user intent, technical reports, and the          *)
(* two-message handshake that tells a user's pause from an automatic one.  *)
(***************************************************************************)
EXTENDS PlaybackBarrier

IntentSources == {"Initialization", "DirectUser", "PlayerPlay", "PlayerPause"}

CONSTANTS
  Reports,   \* the technical reports the players make: a phase and a reason
  Sources    \* the sources of the readiness intents the clients send

ASSUME EvidenceAssumption ==
  /\ Reports \subseteq [phase : TechnicalPhases, reason : Causes]
  /\ Sources \subseteq IntentSources

-----------------------------------------------------------------------------
(* The mixed-room cohort.                                                  *)

\* Fault: the roles are updated, the preparing barrier is not.
RolesOnlyReconcileCohort(s) ==
  LET role(c) == IF c \in (ClientsInRoom(s) \cap StartCapable(s)) \ s.fenced
                 THEN "Required" ELSE "ExcludedUnsupported"
  IN [s EXCEPT !.readiness.part =
        [c \in Clients |->
           IF ~s.readiness.live \/ @[c].role = "Absent" THEN @[c]
           ELSE Recompute([@[c] EXCEPT !.role = role(c)], s.readiness.gen)]]

\* `reconcile_mixed_readiness_cohort_state`: roles follow the sessions' current
\* capabilities and fences, and a preparing barrier follows the roles.
ReconcileCohort(s) ==
  LET role(c) == IF c \in (ClientsInRoom(s) \cap StartCapable(s)) \ s.fenced
                 THEN "Required" ELSE "ExcludedUnsupported"
      record(c) == s.readiness.part[c]
      part == [c \in Clients |->
                 IF record(c).role \in {"Absent", role(c)}
                 THEN record(c)
                 ELSE Recompute([record(c) EXCEPT !.role = role(c)], s.readiness.gen)]
      required == {c \in Clients : part[c].role = "Required"}
      phase(c) == IF c \notin required THEN "Absent"
                  ELSE IF s.barrier.part[c] = "Absent" THEN "Pending" ELSE s.barrier.part[c]
      barrier == IF s.barrier.phase # "Preparing"
                 THEN s.barrier
                 ELSE [s.barrier EXCEPT
                         !.part = [c \in Clients |-> phase(c)],
                         !.excluded = ClientsInRoom(s) \ (required \cup s.fenced)]
  IN IF s.readiness.live
     THEN [s EXCEPT !.readiness.part = part, !.barrier = barrier]
     ELSE s

RefreshMixedCohort(s) ==
  LET reconciled == ReconcileCohort(s)
  IN IF reconciled = s THEN s ELSE MaybeCommit(RefreshGate(reconciled))

-----------------------------------------------------------------------------
(* Membership.                                                             *)

\* The media generation a joining member is told to prepare for.
CurrentGeneration(s) ==
  IF s.readiness.live /\ s.readiness.gen # 0 THEN s.readiness.gen
  ELSE IF Active(s.barrier) THEN s.barrier.gen ELSE 0

JoiningRecord(s, c, kept, seedReady) ==
  Recompute(
    [role |-> IF c \in BarrierV1(s) THEN "Required" ELSE "ExcludedUnsupported",
     intentReady |-> IF kept.kept THEN kept.intentReady ELSE seedReady,
     touched |-> kept.kept /\ kept.touched,
     initializationOpen |-> ~kept.kept,
     tech |-> FreshTechnical(CurrentGeneration(s)),
     blocked |-> FALSE,
     automatic |-> "None",
     roomReady |-> FALSE,
     startEligible |-> FALSE],
    CurrentGeneration(s))

\* `attach_readiness_membership`.  `token` is the connection whose detached membership
\* the presented reconnect token names, or NoClient; a restored membership keeps its
\* intent and takes over its username, a fresh one starts NotReady (or, when a live
\* legacy member upgrades, from its roster flag `seedReady`).  Either may join a start
\* that is already being prepared, whose gate then claims the pause.
Attach(s, c, token, seedReady) ==
  LET kept == IF token = NoClient THEN NoDetached ELSE s.detached[token]
      detached == IF kept.kept THEN [s.detached EXCEPT ![token] = NoDetached] ELSE s.detached
      owner == IF kept.kept /\ s.readiness.owner = UserOwner(token)
               THEN UserOwner(c) ELSE s.readiness.owner
      readiness == [s.readiness EXCEPT
                      !.live = TRUE, !.gen = CurrentGeneration(s), !.owner = owner,
                      !.part[c] = JoiningRecord(s, c, kept, seedReady)]
      joined == [s EXCEPT !.pending[c] = NoPending, !.detached = detached,
                          !.readiness = readiness]
      cohort == ReconcileCohort(joined)
      owned == IF s.barrier.phase = "Preparing" /\ cohort.readiness.owner.kind # "User"
               THEN SetPauseOwner(cohort, GateOwner(s.barrier.gen))
               ELSE cohort
  IN MaybeCommit(RefreshGate(owned))

\* Fault: the coordinator survives its last member.
LingeringDetach(s, c, retain) ==
  IF s.readiness.part[c].role = "Absent" THEN s
  ELSE MaybeCommit(RefreshGate(
         [s EXCEPT !.pending[c] = NoPending, !.readiness.part[c] = NoRecord]))

\* `detach_readiness_membership`: the others are evaluated again before the last
\* member's departure dissolves the coordinator.
Detach(s, c, retain) ==
  LET record == s.readiness.part[c]
      detached == IF retain
                  THEN [kept |-> TRUE, intentReady |-> record.intentReady,
                        touched |-> record.touched]
                  ELSE s.detached[c]
      removed == [s EXCEPT !.pending[c] = NoPending, !.readiness.part[c] = NoRecord,
                           !.detached[c] = detached]
      evaluated == MaybeCommit(RefreshGate(removed))
  IN IF record.role = "Absent" THEN [s EXCEPT !.pending[c] = NoPending]
     ELSE IF ReadinessMembers(evaluated) # {} THEN evaluated
     ELSE [ClearGate(evaluated) EXCEPT !.readiness = NoReadiness]

-----------------------------------------------------------------------------
(* Who caused a pause.                                                     *)

\* Fault: a committed start is not retired when a user pauses.
HastyClaimUserPause(s, c) == RefreshGate(SetPauseOwner(s, UserOwner(c)))

\* `claim_user_pause_ownership`.
ClaimUserPause(s, c) ==
  RefreshGate(SetPauseOwner(RetireCommittedForUserPause(s), UserOwner(c)))

\* `apply_staged_user_transport_transition`: the player's observation arrived first,
\* the user action that explains it second; together they move the room.
ApplyStaged(s, c, desiredPaused) ==
  LET decided == RetireAwaitingDecision(s, c)
      owned == IF desiredPaused THEN ClaimUserPause(decided, c)
               ELSE SetPauseOwner(decided, NoOwner)
  IN IF s.paused = desiredPaused
     THEN owned
     ELSE RetirePendingTransport([owned EXCEPT !.paused = desiredPaused])

\* `automatic_pause_owner_from_readiness`.
ReportedPauseOwner(record) ==
  CASE record.automatic # "None" -> record.automatic
    [] record.automatic = "None" /\ record.tech.cause = "Recovery" -> "Recovery"
    [] record.automatic = "None" /\ record.tech.cause = "EndOfFile" -> "EndOfPlaylist"
    [] OTHER -> "None"

\* `automatic_transport_owner_for_observation`; NoOwner stands for `None`, the option.
AutomaticTransportOwner(s, c, observedPaused) ==
  LET owner == s.readiness.owner
      record == s.readiness.part[c]
  IN IF observedPaused
     THEN CASE owner.kind = "User" -> NoOwner
            [] owner.kind = "None" -> AutomaticOwner(ReportedPauseOwner(record))
            [] OTHER -> owner
     ELSE IF owner.kind = "Recovery" /\ record.tech.phase = "Playable"
       THEN owner ELSE NoOwner

-----------------------------------------------------------------------------
(* User intent.                                                            *)

\* Fault: the cached verdicts keep the previous intent.
StaleMutateIntent(s, target, ready) ==
  [s EXCEPT !.readiness.part[target].intentReady = ready,
            !.readiness.part[target].touched = TRUE]

\* `mutate_readiness_intent`.
MutateIntent(s, target, ready) ==
  [s EXCEPT !.readiness.part[target] =
              Recompute([@ EXCEPT !.intentReady = ready, !.touched = TRUE],
                        s.readiness.gen)]

\* The fences of `apply_readiness_intent` that depend on the room's state.
IntentAccepted(s, c, target, ready, source) ==
  /\ c \in V2(s) /\ target \in ReadinessMembers(s)
  /\ target = c \/ c \in Controllers
  /\ CASE source \in {"Initialization", "PlayerPlay"} -> ready
       [] source = "PlayerPause" -> ~ready
       [] OTHER -> TRUE
  /\ source = "Initialization" =>
       /\ target = c
       /\ s.readiness.part[c].initializationOpen
       /\ ~s.readiness.part[c].intentReady /\ ~s.readiness.part[c].touched

\* Fault: an accepted Play moves the transport of a room whose start is being prepared.
UngatedIndirectTransport(s, c, desiredPaused, staged) ==
  IF s.paused = desiredPaused
  THEN IF desiredPaused THEN ClaimUserPause(s, c) ELSE s
  ELSE ApplyStaged(s, c, desiredPaused)

\* What an accepted player action does to the room's transport.
IndirectTransport(s, c, desiredPaused, staged) ==
  LET gateHoldsPlay == ~desiredPaused /\ s.barrier.phase = "Preparing"
      decided == RetireAwaitingDecision(s, c)
  IN IF staged /\ ~gateHoldsPlay THEN ApplyStaged(s, c, desiredPaused)
     ELSE IF s.paused = desiredPaused
       THEN IF desiredPaused THEN ClaimUserPause(decided, c) ELSE decided
     ELSE IF gateHoldsPlay THEN s
     ELSE [s EXCEPT !.pending[c] = [paused |-> desiredPaused, evidence |-> "Accepted"]]

\* `apply_readiness_intent`; every accepted Ready re-arms the gate of a preparing start.
ApplyIntent(s, c, target, ready, source) ==
  LET desiredPaused == source = "PlayerPause"
      controls == source \in {"PlayerPlay", "PlayerPause"} /\ target = c /\ c \in Controllers
      staged == controls /\ s.pending[c] = [paused |-> desiredPaused, evidence |-> "Observed"]
      consumed == [s EXCEPT !.pending[c] = NoPending]
      mutated == [MutateIntent(consumed, target, ready) EXCEPT
                    !.readiness.part[c].initializationOpen = FALSE]
      moved == IF controls THEN IndirectTransport(mutated, c, desiredPaused, staged)
               ELSE mutated
      armed == IF ready /\ s.barrier.phase = "Preparing"
               THEN SetPauseOwner(moved, GateOwner(s.barrier.gen))
               ELSE moved
  IN IF IntentAccepted(s, c, target, ready, source)
     THEN MaybeCommit(RefreshGate(armed))
     ELSE consumed

\* `apply_syncplay_ready_to_readiness_v2`: a legacy controller overrides a V2 member.
ApplySyncplayReady(s, c, target, ready) ==
  IF c \notin V2(s) /\ target \in ReadinessMembers(s) /\ c \in Controllers
  THEN MaybeCommit(RefreshGate(MutateIntent(s, target, ready)))
  ELSE s

-----------------------------------------------------------------------------
(* Technical reports.                                                      *)

OwnerOfReason(reason) ==
  CASE reason = "Recovery" -> "Recovery"
    [] reason = "EndOfFile" -> "EndOfPlaylist"
    [] OTHER -> "None"

\* `technical_readiness_report_is_current`: the report names the room's generation and
\* the exact revision that the current barrier committed (none before its commit).
ReportIsCurrent(s, c, generation, revision) ==
  /\ c \in V2(s) /\ s.readiness.part[c].role # "Absent"
  /\ generation # 0 /\ generation = s.readiness.gen
  /\ revision = s.barrier.rev

\* A terminal block outlives every later report except a playable one.
ReportedRecord(record, generation, report) ==
  LET isBlock == report.phase \in {"TemporarilyBlocked", "TerminallyBlocked"}
      cause == IF ~isBlock THEN "None"
               ELSE IF report.reason = "None" THEN "Other" ELSE report.reason
      tech == [phase |-> report.phase,
               gen |-> IF report.phase = "Unknown" THEN 0 ELSE generation,
               cause |-> cause]
      reported == OwnerOfReason(report.reason)
      automatic == IF reported # "None" THEN reported
                   ELSE IF report.phase \in {"Unknown", "Playable"} THEN "None"
                   ELSE record.automatic
      blocked == \/ report.phase = "TerminallyBlocked"
                 \/ record.blocked /\ report.phase # "Playable"
  IN Recompute(
       [record EXCEPT !.tech = tech, !.automatic = automatic, !.blocked = blocked],
       generation)

\* Fault: the last technical transition is recorded and never evaluated.
UnevaluatedTechnicalReport(s, c, generation, revision, report) ==
  IF ReportIsCurrent(s, c, generation, revision)
  THEN RefreshGate([s EXCEPT !.readiness.part[c] = ReportedRecord(@, generation, report)])
  ELSE s

\* `apply_technical_readiness_report`.
ApplyTechnicalReport(s, c, generation, revision, report) ==
  LET recorded == [s EXCEPT !.readiness.part[c] = ReportedRecord(@, generation, report)]
      owner == s.readiness.owner
      reported == AutomaticOwner(OwnerOfReason(report.reason))
      owned == IF ~s.paused /\ owner.kind = "Recovery" THEN SetPauseOwner(recorded, NoOwner)
               ELSE IF /\ s.paused /\ reported # NoOwner /\ owner \in {NoOwner, reported}
                 THEN SetPauseOwner(recorded, reported)
               ELSE recorded
  IN IF ReportIsCurrent(s, c, generation, revision)
     THEN MaybeCommit(RefreshGate(owned))
     ELSE s
=============================================================================
