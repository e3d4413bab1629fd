--------------------------- MODULE PlaybackBarrier ---------------------------
(***************************************************************************)
(* The playback barrier of a room (crates/sorotte-server/src/              *)
(* runtime_playback_barrier.rs): prepare, ready, commit, started, the two  *)
(* timeouts, supersession, recovery by a newer connection and departure of *)
(* a participant.                                                          *)
(***************************************************************************)
EXTENDS ReadinessGate

Active(b) == b.phase \in {"Preparing", "Committed"}

\* Max of two naturals, for the nonce a repeated prepare leaves behind.
Larger(m, n) == IF m >= n THEN m ELSE n

-----------------------------------------------------------------------------
(* When a prepared room may start.                                         *)

\* Fault: legacy members are overlooked.
OverlookingCohortStartEligible(s) ==
  s.readiness.live =>
    /\ s.barrier.phase # "None"
    /\ \A c \in RequiredParticipants(s) :
         s.readiness.part[c].startEligible /\ s.barrier.part[c] # "Absent"

\* `readiness_required_cohort_start_eligible`.
CohortStartEligible(s) ==
  s.readiness.live =>
    /\ ~MixedRoomBlocksStart(s)
    /\ s.barrier.phase # "None"
    /\ RequiredParticipants(s) # {}
    /\ \A c \in RequiredParticipants(s) :
         /\ s.readiness.part[c].startEligible
         /\ s.barrier.part[c] # "Absent"
         /\ c \in ClientsInRoom(s) \cap StartCapable(s)

\* A participant counts as ready when it confirmed the prepare and, in a room with a
\* readiness coordinator, is also start eligible.
ParticipantIsReady(s, c) ==
  /\ s.barrier.part[c] = "Ready"
  /\ s.readiness.live =>
       c \in ClientsInRoom(s) \cap StartCapable(s) /\ s.readiness.part[c].startEligible

\* `playback_barrier_policy_satisfied`; a degraded participant holds up nobody.
PolicySatisfied(s) ==
  LET b == s.barrier
      present == {c \in Clients : b.part[c] # "Absent"}
  IN /\ b.phase # "None"
     /\ CohortStartEligible(s)
     /\ CASE b.req.policy = "AllEligible" ->
               \A c \in present :
                 b.part[c] \in {"Degraded", "Disconnected"} \/ ParticipantIsReady(s, c)
          [] b.req.policy = "Controller" ->
               b.initiator \in present /\ ParticipantIsReady(s, b.initiator)
          [] b.req.policy = "Quorum" ->
               Cardinality({c \in present : ParticipantIsReady(s, c)}) >= b.req.quorum

\* Fault: only the ownership of the pause is checked.
OwnershipOnlyCommitBlocked(s) == s.readiness.live /\ ~GateOwnsPause(s)

CommitBlocked(s) ==
  s.readiness.live /\ (~PolicySatisfied(s) \/ ~GateOwnsPause(s))

\* The participant phases a commit leaves: the ready ones start, the disconnected
\* ones stay so, every other one is left behind.
PhaseAtCommit(phase, timedOut) ==
  IF phase \in {"Absent", "Ready", "Disconnected"} THEN phase
  ELSE IF timedOut THEN "PrepareTimedOut" ELSE "Degraded"

\* `commit_playback_barrier`: one server-owned revision, and the room unpauses.
Commit(s, timedOut) ==
  LET revision == s.nextRev + 1
      committed == [s.barrier EXCEPT
                      !.part = [c \in Clients |-> PhaseAtCommit(@[c], timedOut)],
                      !.phase = "Committed",
                      !.rev = revision,
                      !.gated = s.readiness.live]
  IN IF s.barrier.phase # "Preparing" \/ CommitBlocked(s)
     THEN s
     ELSE MarkGateCommitted(RetirePendingTransport(
            [s EXCEPT !.barrier = committed, !.nextRev = revision, !.paused = FALSE]))

\* `maybe_commit_readiness_gate`, called after every readiness change.
MaybeCommit(s) ==
  IF s.barrier.phase = "Preparing" /\ PolicySatisfied(s) THEN Commit(s, FALSE) ELSE s

-----------------------------------------------------------------------------
(* Ownership of the barrier.                                               *)

\* `rebind_playback_barrier_owner_if_newer`: a connection that joined later than the
\* initiator and presents the exact operation inherits the initiator's participant
\* record, and the old transport is fenced.
Rebind(s, c) ==
  LET b == s.barrier
      old == b.initiator
      inherited ==
        IF b.part[old] # "Absent" THEN b.part[old]
        ELSE IF b.part[c] # "Absent" THEN b.part[c] ELSE "Pending"
      restored ==
        IF inherited = "Disconnected" /\ b.phase = "Preparing" THEN "Pending"
        ELSE IF inherited = "Disconnected" /\ b.phase = "Committed" THEN "Ready"
        ELSE inherited
      part == [b.part EXCEPT ![old] = "Absent", ![c] = restored]
      superseded == IF old # c /\ s.place[old] \in {"Room", "Elsewhere"} THEN {old} ELSE {}
  IN IF s.seq[c] <= b.initiatorSeq
     THEN s
     ELSE [s EXCEPT
             !.barrier = [b EXCEPT
                            !.part = part, !.initiator = c, !.initiatorSeq = s.seq[c]],
             !.fenced = s.fenced \cup superseded]

SameOperation(b, q) ==
  /\ b.phase # "None" /\ q.id # 0 /\ b.req.id = q.id
  /\ b.req.nonce = q.nonce /\ b.req.media = q.media

SameOwner(s, c) ==
  s.barrier.initiator = c /\ s.barrier.initiatorSeq = s.seq[c]

\* Which fresh requests may open a generation.  An active lifecycle yields only to
\* its own initiator; a terminal one to an intent consistent with its media, where a
\* different connection's NewPlayback of the same media is read as Replay.
MayReplace(s, c, q) ==
  LET b == s.barrier
      same == b.req.media = q.media
      consistent == \/ q.intent = "NewPlayback" /\ ~same
                    \/ q.intent = "Replay" /\ same
  IN CASE b.phase = "None" -> q.intent # "TransportRefresh"
       [] Active(b) -> SameOwner(s, c) /\ consistent
       [] OTHER -> \/ consistent
                   \/ q.intent = "NewPlayback" /\ same /\ ~SameOwner(s, c)

\* The operation id that a fresh request pushes out of the canonical barrier.
Displaced(s, q) ==
  IF q.intent = "TransportRefresh" \/ s.barrier.phase = "None"
  THEN {} ELSE {s.barrier.req.id} \ {0, q.id}

CanRetain(s, displaced) ==
  Cardinality(s.tombstones \cup displaced) <= MaxTombstones

\* The cohort captured by a prepare: unfenced capable members, which in a room with a
\* readiness coordinator means capable of both extensions.
CaptureCohort(s) ==
  {c \in ClientsInRoom(s) \ s.fenced : c \in BarrierV1(s) /\ (s.readiness.live => c \in V2(s))}

\* Fault: the displaced lifecycle's generation is reused.
RecyclingOpenGeneration(s, c, q) ==
  [s EXCEPT
     !.nextGen = Larger(@, 1),
     !.paused = TRUE,
     !.barrier =
        [phase |-> "Preparing", gen |-> Larger(s.nextGen, 1), req |-> q,
         initiator |-> c, initiatorSeq |-> s.seq[c],
         part |-> [d \in Clients |-> IF d \in CaptureCohort(s) THEN "Pending" ELSE "Absent"],
         excluded |-> {}, rev |-> 0, gated |-> FALSE]]

OpenGeneration(s, c, q) ==
  LET cohort == CaptureCohort(s)
      generation == s.nextGen + 1
      lifecycle ==
        [phase |-> "Preparing", gen |-> generation, req |-> q,
         initiator |-> c, initiatorSeq |-> s.seq[c],
         part |-> [d \in Clients |-> IF d \in cohort THEN "Pending" ELSE "Absent"],
         excluded |-> ClientsInRoom(s) \ (s.fenced \cup cohort),
         rev |-> 0, gated |-> FALSE]
  IN ReplaceReadinessGeneration(
       [s EXCEPT !.nextGen = generation, !.tombstones = s.tombstones \cup Displaced(s, q),
                 !.paused = TRUE, !.barrier = lifecycle],
       generation, TRUE)

\* Fault: a displaced operation is not recognised.
ForgetfulStartPlaybackBarrier(s, c, q) ==
  LET authorized == /\ c \in BarrierV1(s) \cap Controllers
                    /\ s.readiness.live => c \in V2(s)
  IN IF \/ ~authorized
        \/ q.nonce <= s.nonce[c]
        \/ SameOperation(s.barrier, q)
        \/ ~MayReplace(s, c, q)
     THEN s
     ELSE OpenGeneration([s EXCEPT !.nonce[c] = q.nonce], c, q)

\* `start_playback_barrier`: a repeated operation is answered, not restarted; a
\* displaced or outdated one is ignored; a fresh nonce is consumed even when the
\* request loses to the active lifecycle.
StartPlaybackBarrier(s, c, q) ==
  LET authorized == /\ c \in BarrierV1(s) \cap Controllers
                    /\ s.readiness.live => c \in V2(s)
      named == s.barrier.phase # "None" /\ q.id # 0 /\ s.barrier.req.id = q.id
      consumed == [s EXCEPT !.nonce[c] = q.nonce]
  IN IF ~authorized THEN s
     ELSE IF named
       THEN IF SameOperation(s.barrier, q)
            THEN Rebind([s EXCEPT !.nonce[c] = Larger(@, q.nonce)], c)
            ELSE s
     ELSE IF \/ q.id \in s.tombstones
             \/ q.nonce <= s.nonce[c]
             \/ ~CanRetain(s, Displaced(s, q))
       THEN s
     ELSE IF MayReplace(s, c, q) THEN OpenGeneration(consumed, c, q) ELSE consumed

\* `handle_playback_barrier_recovery`: only the exact operation transfers ownership.
RecoverPlaybackBarrier(s, c, q) ==
  IF c \in BarrierV1(s) \cap Controllers /\ SameOperation(s.barrier, q)
  THEN Rebind(s, c)
  ELSE s

-----------------------------------------------------------------------------
(* Acknowledgements, timeouts and retirement.                              *)

RecordReady(s, c, generation, isReady) ==
  LET b == s.barrier
      recorded == [s EXCEPT !.barrier.part[c] = IF isReady THEN "Ready" ELSE "Pending"]
  IN IF \/ c \notin BarrierV1(s)
        \/ b.phase # "Preparing"
        \/ generation # b.gen
        \/ b.part[c] = "Absent"
     THEN s
     ELSE IF PolicySatisfied(recorded) THEN Commit(recorded, FALSE) ELSE recorded

RecordStarted(s, c, generation, revision) ==
  LET b == s.barrier
      recorded == [s EXCEPT !.barrier.part[c] = "Started"]
      complete == \A d \in Clients : recorded.barrier.part[d] \in {"Absent", "Started"}
  IN IF \/ c \notin BarrierV1(s)
        \/ b.phase # "Committed"
        \/ generation # b.gen
        \/ revision # b.rev
        \/ b.part[c] = "Absent"
     THEN s
     ELSE IF complete
       THEN ClearGate([recorded EXCEPT !.barrier.phase = "Complete"])
       ELSE recorded

\* The lifecycle enters `phase` and its participants the phases `part`.
EnterPhase(s, phase, part) ==
  [s EXCEPT !.barrier = [@ EXCEPT !.part = part, !.phase = phase]]

\* Fault: the participants time out but the barrier is left preparing.
UnfinishedPrepareTimeout(s, phase) ==
  [s EXCEPT
     !.barrier.part =
        [c \in Clients |->
           IF @[c] \in {"Absent", "Ready"} THEN @[c] ELSE "PrepareTimedOut"]]

\* `finish_prepare_timeout_without_commit`: the room stays paused.
FinishPrepareTimeout(s, phase) ==
  LET part == s.barrier.part
  IN EnterPhase(s, phase,
       [c \in Clients |->
          IF part[c] \in {"Absent", "Ready"} THEN part[c] ELSE "PrepareTimedOut"])

\* The prepare deadline, for each of the three timeout actions.
PrepareTimeout(s) ==
  LET action == s.barrier.req.timeoutAction
  IN CASE action = "Continue" ->
            IF CommitBlocked(s)
            THEN MarkGateDegraded(FinishPrepareTimeout(s, "Degraded"), "TimedOut")
            ELSE Commit(s, TRUE)
       [] action = "RemainPaused" ->
            MarkGateDegraded(FinishPrepareTimeout(s, "Degraded"), "TimedOut")
       [] action = "AskController" ->
            MarkGateDegraded(FinishPrepareTimeout(s, "AwaitingDecision"), "TimedOut")

\* The deadline for the `started` acknowledgements.
StartedTimeout(s) ==
  LET part == s.barrier.part
  IN ClearGate(EnterPhase(s, "Degraded",
       [c \in Clients |->
          IF part[c] \in {"Pending", "Ready"} THEN "StartedAckTimedOut" ELSE part[c]]))

\* `retire_awaiting_playback_barrier_decision`: an authorised ordinary transition is
\* the decision that the controller was asked for.
RetireAwaitingDecision(s, c) ==
  IF c \in BarrierV1(s) \cap Controllers /\ s.barrier.phase = "AwaitingDecision"
  THEN [s EXCEPT !.barrier.phase = "Degraded"]
  ELSE s

RetireCommittedForUserPause(s) ==
  LET part == s.barrier.part
  IN IF s.barrier.phase # "Committed"
     THEN s
     ELSE ClearGate(EnterPhase(s, "Degraded",
            [c \in Clients |->
               IF part[c] \in {"Absent", "Started"} THEN part[c] ELSE "Degraded"]))

RetireForSelection(s) ==
  LET part == s.barrier.part
  IN IF s.barrier.phase = "None"
     THEN s
     ELSE EnterPhase(s, "Degraded",
            [c \in Clients |-> IF part[c] = "Absent" THEN part[c] ELSE "Degraded"])

\* Fault: the lifecycle forgets an initiator that leaves, and goes on without one.
ForgettingMarkParticipant(s, c) ==
  LET left == [s EXCEPT !.barrier.part[c] = "Disconnected",
                        !.barrier.initiator = IF @ = c THEN NoClient ELSE @]
  IN IF ~Active(s.barrier) \/ s.barrier.part[c] = "Absent" THEN s ELSE MaybeCommit(left)

\* `mark_playback_barrier_participant_disconnected`: a departure may be what the
\* others were waiting for, so the policy is evaluated again.
MarkParticipantDisconnected(s, c) ==
  LET b == s.barrier
      marked == [s EXCEPT !.barrier.part[c] = "Disconnected"]
  IN IF ~Active(b) \/ b.part[c] = "Absent"
     THEN s
     ELSE MaybeCommit(marked)
=============================================================================
