---------------------------- MODULE ReadinessGate ----------------------------
(***************************************************************************)
(* The room's readiness coordinator without its membership handlers        *)
(* (crates/sorotte-server/src/runtime_readiness.rs): who owns the pause,   *)
(* which media generation the evidence is about, and the published phase   *)
(* of the start gate.                                                      *)
(***************************************************************************)
EXTENDS RoomRuntime

\* Every change of canonical transport authority (and every commit or generation
\* change) retires the player evidence that was staged under the previous one.
RetirePendingTransport(s) ==
  [s EXCEPT !.pending = [c \in Clients |-> NoPending]]

SetPauseOwner(s, owner) ==
  IF ~s.readiness.live \/ s.readiness.owner = owner
  THEN s
  ELSE RetirePendingTransport([s EXCEPT !.readiness.owner = owner])

\* `readiness_gate_owns_pause`: vacuously true in a room without a coordinator.
GateOwnsPause(s) ==
  s.readiness.live => s.readiness.owner = GateOwner(s.barrier.gen)

\* `recompute_participant_readiness`: the two cached verdicts of a record.
Recompute(record, generation) ==
  LET ready == record.intentReady /\ ~record.blocked
  IN [record EXCEPT
        !.roomReady = ready,
        !.startEligible = /\ record.role = "Required"
                          /\ ready
                          /\ record.tech.phase = "Playable"
                          /\ record.tech.gen = generation]

\* Under RequireAllMembers one live member outside the cohort blocks the start.
MixedRoomBlocksStart(s) ==
  /\ MixedPolicy = "RequireAllMembers"
  /\ s.readiness.live
  /\ \E c \in ClientsInRoom(s) \ s.fenced : c \notin StartCapable(s)

-----------------------------------------------------------------------------
(* `refresh_readiness_gate_phase`.                                         *)

DegradedGate(s, reason) ==
  [phase |-> "Degraded", gen |-> s.readiness.gen, reason |-> reason]

OpenGate(s, phase) ==
  [phase |-> phase, gen |-> s.readiness.gen, reason |-> "None"]

PreparingGate(s) ==
  LET required == RequiredParticipants(s)
      part == s.readiness.part
  IN IF MixedRoomBlocksStart(s) THEN DegradedGate(s, "UnsupportedParticipant")
     ELSE IF required = {} THEN DegradedGate(s, "NoRequiredParticipants")
     ELSE IF s.readiness.owner.kind = "User" THEN DegradedGate(s, "UserPaused")
     ELSE IF s.readiness.owner # GateOwner(s.readiness.gen)
       THEN DegradedGate(s, "PauseOwnershipLost")
     ELSE IF \E c \in required : part[c].tech.phase = "TerminallyBlocked"
       THEN DegradedGate(s, "TechnicalFailure")
     ELSE IF \E c \in required : ~part[c].roomReady
       THEN OpenGate(s, "WaitingForIntent")
     ELSE IF \E c \in required : ~part[c].startEligible
       THEN OpenGate(s, "WaitingForTechnicalReadiness")
     ELSE OpenGate(s, "ReadyToCommit")

\* A start that ended without a commit keeps the reason it was degraded for.
UncommittedEndGate(s) ==
  LET gate == s.readiness.gate
  IN IF gate.phase = "Degraded" /\ gate.gen = s.readiness.gen
     THEN gate
     ELSE DegradedGate(s, "Cancelled")

GateFor(s) ==
  LET b == s.barrier
  IN CASE b.phase = "Preparing" -> PreparingGate(s)
       [] b.phase = "Committed" ->
            IF b.gated THEN OpenGate(s, "Committed") ELSE InactiveGate
       [] b.phase \in {"AwaitingDecision", "Degraded"} /\ b.rev = 0 ->
            UncommittedEndGate(s)
       [] OTHER -> InactiveGate

RefreshGate(s) ==
  IF s.readiness.live /\ s.readiness.gen # 0
  THEN [s EXCEPT !.readiness.gate = GateFor(s)]
  ELSE s

-----------------------------------------------------------------------------
SetGateAndOwner(s, gate, owner) ==
  [s EXCEPT !.readiness = [@ EXCEPT !.gate = gate, !.owner = owner]]

\* `clear_readiness_gate` releases only a pause that the gate itself owns.
ClearGate(s) ==
  LET owner == s.readiness.owner
      released == IF owner.kind = "ReadinessStartGate" THEN NoOwner ELSE owner
  IN IF ~s.readiness.live \/ s.readiness.gate.phase = "Inactive"
     THEN s
     ELSE SetGateAndOwner(s, InactiveGate, released)

MarkGateCommitted(s) ==
  IF ~s.readiness.live
  THEN s
  ELSE RetirePendingTransport(
         SetGateAndOwner(
           s, [phase |-> "Committed", gen |-> s.barrier.gen, reason |-> "None"], NoOwner))

MarkGateDegraded(s, reason) ==
  IF ~s.readiness.live \/ s.readiness.gen = 0
  THEN s
  ELSE [s EXCEPT !.readiness.gate = DegradedGate(s, reason)]

\* Fault: the new generation's gate takes over whatever pause is in force.
StealingNextPauseOwner(owner, generation, ownsStartPause) ==
  IF ownsStartPause /\ generation # 0 THEN GateOwner(generation) ELSE owner

\* A user's pause is never taken over by the new generation's gate.
NextPauseOwner(owner, generation, ownsStartPause) ==
  IF ownsStartPause /\ generation # 0 /\ owner.kind # "User"
  THEN GateOwner(generation) ELSE owner

\* `replace_readiness_generation`: all technical evidence restarts.
ReplaceReadinessGeneration(s, generation, ownsStartPause) ==
  LET advanced == RetirePendingTransport(s)
      readiness == s.readiness
      reset(record) ==
        Recompute([record EXCEPT !.tech = FreshTechnical(generation),
                                 !.blocked = FALSE,
                                 !.automatic = "None"], generation)
      part == [c \in Clients |->
                 IF readiness.part[c].role = "Absent"
                 THEN readiness.part[c] ELSE reset(readiness.part[c])]
      owner == NextPauseOwner(readiness.owner, generation, ownsStartPause)
      gate == IF generation = 0 THEN InactiveGate ELSE readiness.gate
  IN IF ~readiness.live
     THEN advanced
     ELSE RefreshGate(
            [advanced EXCEPT !.readiness =
               [readiness EXCEPT
                  !.gen = generation, !.owner = owner, !.gate = gate, !.part = part]])
=============================================================================
