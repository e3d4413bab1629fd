--------------------------- MODULE StartGateProofs ---------------------------
(***************************************************************************)
(* StartGate proved for every set of connections, every set of prepare     *)
(* requests and every bound.                                               *)
(*                                                                         *)
(* Its types: each method of the server's room runtime maps a well-formed  *)
(* runtime record to a well-formed one, and every handler is a composition *)
(* of such methods.                                                        *)
(*                                                                         *)
(* Who may hold and release the room's pause: a start that is being        *)
(* prepared holds the pause until it commits, and the recorded pause owner *)
(* tells the truth.  Neither statement is inductive alone.  A commit in a  *)
(* room without a coordinator leaves the owner alone, so such a room must  *)
(* have none; and the cleanup of an empty room forgets the generation that *)
(* a gate's pause names, so an empty room must have no coordinator, hence  *)
(* every member of a coordinator must be a session in the room.            *)
(***************************************************************************)
EXTENDS StartGate, TLAPS

-----------------------------------------------------------------------------
(* The values the runtime is built from.                                   *)

\* The pause owners that the handlers write are owners of the model.
LEMMA OwnerTypes ==
  /\ NoOwner \in Owners
  /\ \A c \in Clients : UserOwner(c) \in Owners
  /\ \A g \in Nat : GateOwner(g) \in Owners
  /\ \A k \in OwnerKinds : AutomaticOwner(k) \in Owners
  BY DEF NoOwner, UserOwner, GateOwner, AutomaticOwner, Owners, OwnerKinds

\* The inactive gate and the empty staged evidence and membership have their types.
LEMMA SimpleTypes ==
  InactiveGate \in Gates /\ NoPending \in Pendings /\ NoDetached \in Detacheds
  BY DEF InactiveGate, NoPending, NoDetached, Gates, Pendings, Detacheds, GatePhases,
         GateReasons

\* A new generation starts from a typed, unknown technical state.
LEMMA FreshTechnicalType ==
  ASSUME NEW g \in Nat
  PROVE  FreshTechnical(g) \in Technicals
  BY DEF FreshTechnical, Technicals, TechnicalPhases, Causes

\* The record of an absent participant is a record.
LEMMA NoRecordType == NoRecord \in Records
<1>1. FreshTechnical(0) \in Technicals
  BY FreshTechnicalType
<1> HIDE DEF FreshTechnical
<1> QED BY <1>1 DEF NoRecord, Records, Roles

\* A room without coordinator has a typed coordinator value.
LEMMA NoReadinessType == NoReadiness \in Readinesses
  BY NoRecordType, OwnerTypes, SimpleTypes DEF NoReadiness, Readinesses

\* A room without start has a typed barrier value.
LEMMA NoBarrierType == NoBarrier \in Barriers
  BY DEF Barriers

\* The server starts in a typed runtime.
LEMMA InitialRuntimeType == InitialRuntime \in Runtimes
  BY NoReadinessType, NoBarrierType, SimpleTypes
     DEF InitialRuntime, Runtimes, Places, Capabilities

-----------------------------------------------------------------------------
(* The components of a runtime, and the replacement of one of them.        *)

\* The fields of a typed runtime are typed.
LEMMA Components ==
  ASSUME NEW s \in Runtimes
  PROVE  /\ s.barrier \in Barriers /\ s.readiness \in Readinesses
         /\ s.pending \in [Clients -> Pendings]
         /\ s.detached \in [Clients -> Detacheds]
         /\ s.paused \in BOOLEAN /\ s.nextGen \in Nat /\ s.nextRev \in Nat
         /\ s.nextSeq \in Nat /\ s.seq \in [Clients -> Nat] /\ s.nonce \in [Clients -> Nat]
         /\ s.fenced \subseteq Clients /\ s.tombstones \subseteq Nat
         /\ s.place \in [Clients -> Places]
         /\ s.caps \in [Clients -> SUBSET Capabilities]
  BY DEF Runtimes

\* The fields of a typed coordinator are typed.
LEMMA ReadinessComponents ==
  ASSUME NEW r \in Readinesses
  PROVE  /\ r.live \in BOOLEAN /\ r.gen \in Nat /\ r.owner \in Owners /\ r.gate \in Gates
         /\ r.part \in [Clients -> Records]
  BY DEF Readinesses

\* The fields of a typed barrier are typed.
LEMMA BarrierComponents ==
  ASSUME NEW b \in Barriers
  PROVE  /\ b.gen \in Nat /\ b.initiatorSeq \in Nat
         /\ b.part \in [Clients -> ParticipantPhases] /\ b.excluded \subseteq Clients
         /\ b.rev \in Nat /\ b.gated \in BOOLEAN
         /\ b.phase # "None" =>
              /\ b \in Lifecycles /\ b.phase \in LifecyclePhases
              /\ b.req \in Requests /\ b.initiator \in Clients
<1>1. CASE b = NoBarrier
  <2>1. /\ b.excluded \subseteq Clients /\ b.rev \in Nat /\ b.gen \in Nat
        /\ b.initiatorSeq \in Nat /\ b.phase = "None"
    BY <1>1 DEF NoBarrier
  <2>2. b.part \in [Clients -> ParticipantPhases]
    BY <1>1 DEF NoBarrier, ParticipantPhases
  <2>3. b.gated \in BOOLEAN
    BY <1>1 DEF NoBarrier
  <2> QED
    BY <2>1, <2>2, <2>3
<1>2. CASE b \in Lifecycles
  BY <1>2 DEF Lifecycles
<1> QED
  BY <1>1, <1>2 DEF Barriers

\* Replacing the barrier by another keeps the runtime typed.
LEMMA BarrierUpdate ==
  ASSUME NEW s \in Runtimes, NEW b \in Barriers
  PROVE  [s EXCEPT !.barrier = b] \in Runtimes
  BY DEF Runtimes

\* Replacing the coordinator by another keeps the runtime typed.
LEMMA ReadinessUpdate ==
  ASSUME NEW s \in Runtimes, NEW r \in Readinesses
  PROVE  [s EXCEPT !.readiness = r] \in Runtimes
  BY DEF Runtimes

\* Writing the canonical pause bit keeps the runtime typed.
LEMMA PausedUpdate ==
  ASSUME NEW s \in Runtimes, NEW p \in BOOLEAN
  PROVE  [s EXCEPT !.paused = p] \in Runtimes
  BY DEF Runtimes

\* Writing the staged evidence of a connection keeps the runtime typed.
LEMMA PendingUpdate ==
  ASSUME NEW s \in Runtimes, NEW c \in Clients, NEW p \in Pendings
  PROVE  [s EXCEPT !.pending[c] = p] \in Runtimes
  BY DEF Runtimes

\* Rewriting every participant's phase along with the phase of the barrier.
LEMMA PhasesUpdate ==
  ASSUME NEW b \in Lifecycles, NEW p \in [Clients -> ParticipantPhases],
         NEW h \in LifecyclePhases
  PROVE  [b EXCEPT !.part = p, !.phase = h] \in Barriers
  BY DEF Barriers, Lifecycles

-----------------------------------------------------------------------------
(* ReadinessGate.                                                          *)

\* `RetirePendingTransport` returns a value of its type, in every branch.
LEMMA RetirePendingTransportType ==
  ASSUME NEW s \in Runtimes
  PROVE  RetirePendingTransport(s) \in Runtimes
  BY SimpleTypes DEF RetirePendingTransport, Runtimes

\* Writing the pause owner keeps the runtime typed.
LEMMA OwnerUpdate ==
  ASSUME NEW s \in Runtimes, NEW o \in Owners
  PROVE  [s EXCEPT !.readiness.owner = o] \in Runtimes
  BY DEF Runtimes, Readinesses

\* Writing the gate phase keeps the runtime typed.
LEMMA GateUpdate ==
  ASSUME NEW s \in Runtimes, NEW g \in Gates
  PROVE  [s EXCEPT !.readiness.gate = g] \in Runtimes
  BY DEF Runtimes, Readinesses

\* `SetPauseOwner` returns a value of its type, in every branch.
LEMMA SetPauseOwnerType ==
  ASSUME NEW s \in Runtimes, NEW o \in Owners
  PROVE  SetPauseOwner(s, o) \in Runtimes
  BY OwnerUpdate, RetirePendingTransportType DEF SetPauseOwner

\* `Recompute` returns a value of its type, in every branch.
LEMMA RecomputeType ==
  ASSUME NEW record \in Records, NEW g \in Nat
  PROVE  Recompute(record, g) \in Records
  BY DEF Recompute, Records

\* `OpenGate` returns a value of its type, in every branch.
LEMMA OpenGateType ==
  ASSUME NEW s \in Runtimes, NEW h \in GatePhases
  PROVE  OpenGate(s, h) \in Gates
  BY DEF OpenGate, Gates, Runtimes, Readinesses, GateReasons

\* `DegradedGate` returns a value of its type, in every branch.
LEMMA DegradedGateType ==
  ASSUME NEW s \in Runtimes, NEW r \in GateReasons
  PROVE  DegradedGate(s, r) \in Gates
  BY DEF DegradedGate, Gates, Runtimes, Readinesses, GatePhases

\* `GateFor` returns a value of its type, in every branch.
LEMMA GateForType ==
  ASSUME NEW s \in Runtimes
  PROVE  GateFor(s) \in Gates
<1>1. /\ \A h \in GatePhases : OpenGate(s, h) \in Gates
      /\ \A r \in GateReasons : DegradedGate(s, r) \in Gates
  BY OpenGateType, DegradedGateType
<1>2. PreparingGate(s) \in Gates
  BY <1>1 DEF PreparingGate, GatePhases, GateReasons
<1>3. UncommittedEndGate(s) \in Gates
  BY <1>1, Components, ReadinessComponents DEF UncommittedEndGate, GateReasons
<1> QED
  BY <1>1, <1>2, <1>3, SimpleTypes DEF GateFor, GatePhases

\* `RefreshGate` returns a value of its type, in every branch.
LEMMA RefreshGateType ==
  ASSUME NEW s \in Runtimes
  PROVE  RefreshGate(s) \in Runtimes
  BY GateForType, GateUpdate DEF RefreshGate

\* `SetGateAndOwner` returns a value of its type, in every branch.
LEMMA SetGateAndOwnerType ==
  ASSUME NEW s \in Runtimes, NEW g \in Gates, NEW o \in Owners
  PROVE  SetGateAndOwner(s, g, o) \in Runtimes
<1> DEFINE r == [s.readiness EXCEPT !.gate = g, !.owner = o]
<1>1. r \in Readinesses
  BY Components DEF Readinesses
<1> HIDE DEF r
<1>2. [s EXCEPT !.readiness = r] \in Runtimes
  BY <1>1, ReadinessUpdate
<1> QED
  BY <1>2 DEF SetGateAndOwner, r

\* `ClearGate` returns a value of its type, in every branch.
LEMMA ClearGateType ==
  ASSUME NEW s \in Runtimes
  PROVE  ClearGate(s) \in Runtimes
  BY SetGateAndOwnerType, SimpleTypes, OwnerTypes, Components, ReadinessComponents
     DEF ClearGate

\* `MarkGateCommitted` returns a value of its type, in every branch.
LEMMA MarkGateCommittedType ==
  ASSUME NEW s \in Runtimes
  PROVE  MarkGateCommitted(s) \in Runtimes
<1>1. [phase |-> "Committed", gen |-> s.barrier.gen, reason |-> "None"] \in Gates
  BY Components, BarrierComponents DEF Gates, GatePhases, GateReasons
<1> QED
  BY <1>1, SetGateAndOwnerType, OwnerTypes, RetirePendingTransportType
     DEF MarkGateCommitted

\* `MarkGateDegraded` returns a value of its type, in every branch.
LEMMA MarkGateDegradedType ==
  ASSUME NEW s \in Runtimes, NEW r \in GateReasons
  PROVE  MarkGateDegraded(s, r) \in Runtimes
  BY DegradedGateType, GateUpdate DEF MarkGateDegraded

\* A runtime whose gate was published last, and one that was evaluated after that.
Published(t) == \E u \in Runtimes : t = RefreshGate(u)
Evaluated(t) == \E u \in Runtimes : t = MaybeCommit(RefreshGate(u))

\* `ResetRecord` returns a value of its type, in every branch.
LEMMA ResetRecordType ==
  ASSUME NEW record \in Records, NEW g \in Nat
  PROVE  Recompute([record EXCEPT !.tech = FreshTechnical(g), !.blocked = FALSE,
                                  !.automatic = "None"], g) \in Records
<1> DEFINE r == [record EXCEPT !.tech = FreshTechnical(g), !.blocked = FALSE,
                               !.automatic = "None"]
<1>1. r \in Records
  BY FreshTechnicalType DEF Records
<1> HIDE DEF r
<1>2. Recompute(r, g) \in Records
  BY <1>1, RecomputeType
<1> QED
  BY <1>2 DEF r

\* Writing the coordinator's generation keeps the runtime typed.
LEMMA GenerationUpdate ==
  ASSUME NEW r \in Readinesses, NEW g \in Nat, NEW o \in Owners, NEW h \in Gates,
         NEW p \in [Clients -> Records]
  PROVE  [r EXCEPT !.gen = g, !.owner = o, !.gate = h, !.part = p] \in Readinesses
  BY DEF Readinesses

\* `ReplaceReadinessGeneration` returns a value of its type, in every branch, and ends by
\* publishing the gate.
LEMMA ReplaceReadinessGenerationType ==
  ASSUME NEW s \in Runtimes, NEW g \in Nat, NEW owns \in BOOLEAN
  PROVE  /\ ReplaceReadinessGeneration(s, g, owns) \in Runtimes
         /\ s.readiness.live => Published(ReplaceReadinessGeneration(s, g, owns))
<1> DEFINE advanced == RetirePendingTransport(s)
           reset(record) == Recompute([record EXCEPT !.tech = FreshTechnical(g),
                                         !.blocked = FALSE, !.automatic = "None"], g)
           part == [c \in Clients |->
                      IF s.readiness.part[c].role = "Absent"
                      THEN s.readiness.part[c] ELSE reset(s.readiness.part[c])]
           owner == NextPauseOwner(s.readiness.owner, g, owns)
           gate == IF g = 0 THEN InactiveGate ELSE s.readiness.gate
           r == [s.readiness EXCEPT !.gen = g, !.owner = owner, !.gate = gate, !.part = part]
<1>1. advanced \in Runtimes
  BY RetirePendingTransportType
<1>2. s.readiness \in Readinesses /\ s.readiness.owner \in Owners
      /\ s.readiness.gate \in Gates /\ s.readiness.part \in [Clients -> Records]
  BY Components, ReadinessComponents
<1>3. part \in [Clients -> Records]
  <2>1. \A c \in Clients : reset(s.readiness.part[c]) \in Records
    BY <1>2, ResetRecordType
  <2> HIDE DEF reset
  <2> QED BY <1>2, <2>1
<1>4. owner \in Owners /\ gate \in Gates
  BY <1>2, OwnerTypes, SimpleTypes DEF NextPauseOwner
<1> HIDE DEF owner, gate, part, advanced
<1>5. r \in Readinesses
  BY <1>2, <1>3, <1>4, GenerationUpdate
<1> HIDE DEF r
<1> DEFINE u == [advanced EXCEPT !.readiness = r]
<1>6. u \in Runtimes
  BY <1>1, <1>5, ReadinessUpdate
<1>7. ReplaceReadinessGeneration(s, g, owns) =
        IF s.readiness.live THEN RefreshGate(u) ELSE advanced
  BY DEF ReplaceReadinessGeneration, advanced, r, owner, gate, part
<1> HIDE DEF u
<1>8. RefreshGate(u) \in Runtimes /\ Published(RefreshGate(u))
  BY <1>6, RefreshGateType DEF Published
<1> QED
  BY <1>1, <1>7, <1>8

-----------------------------------------------------------------------------
(* PlaybackBarrier.                                                        *)

\* A barrier that is not absent is a lifecycle with an initiator and a request.
LEMMA LifecycleOf ==
  ASSUME NEW s \in Runtimes, s.barrier.phase # "None"
  PROVE  /\ s.barrier \in Lifecycles /\ s.barrier.initiator \in Clients
         /\ s.barrier.req \in Requests
         /\ s.barrier.part \in [Clients -> ParticipantPhases]
  BY Components, BarrierComponents

\* `EnterPhase` returns a value of its type, in every branch.
LEMMA EnterPhaseType ==
  ASSUME NEW s \in Runtimes, s.barrier.phase # "None",
         NEW p \in [Clients -> ParticipantPhases], NEW h \in LifecyclePhases
  PROVE  EnterPhase(s, h, p) \in Runtimes
<1> DEFINE b == [s.barrier EXCEPT !.part = p, !.phase = h]
<1>1. b \in Barriers
  BY LifecycleOf, PhasesUpdate
<1> HIDE DEF b
<1>2. [s EXCEPT !.barrier = b] \in Runtimes
  BY <1>1, BarrierUpdate
<1> QED
  BY <1>2 DEF b, EnterPhase

\* Writing a participant's phase keeps the runtime typed.
LEMMA ParticipantRuntime ==
  ASSUME NEW s \in Runtimes, s.barrier.phase # "None", NEW c \in Clients,
         NEW p \in ParticipantPhases
  PROVE  [s EXCEPT !.barrier.part[c] = p] \in Runtimes
<1>1. [s.barrier EXCEPT !.part[c] = p] \in Barriers
  BY LifecycleOf DEF Lifecycles, Barriers
<1> QED
  BY <1>1 DEF Runtimes

\* Writing the lifecycle's phase keeps the runtime typed.
LEMMA PhaseRuntime ==
  ASSUME NEW s \in Runtimes, s.barrier.phase # "None", NEW h \in LifecyclePhases
  PROVE  [s EXCEPT !.barrier.phase = h] \in Runtimes
<1>1. [s.barrier EXCEPT !.phase = h] \in Barriers
  BY LifecycleOf DEF Lifecycles, Barriers
<1> QED
  BY <1>1 DEF Runtimes

\* `Commit` returns a value of its type, in every branch.
LEMMA CommitType ==
  ASSUME NEW s \in Runtimes, NEW timedOut \in BOOLEAN
  PROVE  Commit(s, timedOut) \in Runtimes
<1> DEFINE part == [c \in Clients |-> PhaseAtCommit(s.barrier.part[c], timedOut)]
           b == [s.barrier EXCEPT !.part = part, !.phase = "Committed",
                                  !.rev = s.nextRev + 1, !.gated = s.readiness.live]
           r == [s EXCEPT !.barrier = b, !.nextRev = s.nextRev + 1, !.paused = FALSE]
<1> SUFFICES ASSUME s.barrier.phase = "Preparing"
             PROVE  MarkGateCommitted(RetirePendingTransport(r)) \in Runtimes
  BY DEF Commit
<1>1. s.barrier \in Lifecycles /\ s.barrier.part \in [Clients -> ParticipantPhases]
  BY LifecycleOf
<1>2. s.nextRev + 1 \in Nat /\ s.readiness.live \in BOOLEAN
  BY Components, ReadinessComponents
<1>3. part \in [Clients -> ParticipantPhases]
  BY <1>1 DEF PhaseAtCommit, ParticipantPhases
<1> HIDE DEF part
<1>4. b \in Barriers
  BY <1>1, <1>2, <1>3 DEF Lifecycles, Barriers, LifecyclePhases
<1> HIDE DEF b
<1>5. r \in Runtimes
  BY <1>2, <1>4 DEF Runtimes
<1> HIDE DEF r
<1> QED
  BY <1>5, RetirePendingTransportType, MarkGateCommittedType

\* `MaybeCommit` returns a value of its type, in every branch.
LEMMA MaybeCommitType ==
  ASSUME NEW s \in Runtimes
  PROVE  MaybeCommit(s) \in Runtimes
  BY CommitType DEF MaybeCommit

\* `Rebind` returns a value of its type, in every branch.
LEMMA RebindType ==
  ASSUME NEW s \in Runtimes, s.barrier.phase # "None", NEW c \in Clients
  PROVE  Rebind(s, c) \in Runtimes
<1> DEFINE old == s.barrier.initiator
           inherited ==
             IF s.barrier.part[old] # "Absent" THEN s.barrier.part[old]
             ELSE IF s.barrier.part[c] # "Absent" THEN s.barrier.part[c] ELSE "Pending"
           restored ==
             IF inherited = "Disconnected" /\ s.barrier.phase = "Preparing" THEN "Pending"
             ELSE IF inherited = "Disconnected" /\ s.barrier.phase = "Committed" THEN "Ready"
             ELSE inherited
           part == [s.barrier.part EXCEPT ![old] = "Absent", ![c] = restored]
           b == [s.barrier EXCEPT !.part = part, !.initiator = c, !.initiatorSeq = s.seq[c]]
           superseded == IF old # c /\ s.place[old] \in {"Room", "Elsewhere"}
                         THEN {old} ELSE {}
           fenced == s.fenced \cup superseded
<1>1. /\ s.barrier \in Lifecycles /\ s.barrier.part \in [Clients -> ParticipantPhases]
      /\ old \in Clients
  BY LifecycleOf
<1>2. s.seq[c] \in Nat /\ s.fenced \subseteq Clients
  BY Components
<1>3. restored \in ParticipantPhases
  BY <1>1 DEF ParticipantPhases
<1>4. fenced \subseteq Clients
  BY <1>1, <1>2
<1> HIDE DEF restored, fenced
<1>5. part \in [Clients -> ParticipantPhases]
  BY <1>1, <1>3 DEF ParticipantPhases
<1> HIDE DEF part
<1>6. b \in Barriers
  BY <1>1, <1>2, <1>5 DEF Lifecycles, Barriers
<1> HIDE DEF b
<1>7. [s EXCEPT !.barrier = b, !.fenced = fenced] \in Runtimes
  BY <1>4, <1>6 DEF Runtimes
<1> QED
  BY <1>7 DEF Rebind, b, part, restored, fenced

\* `RecordReady` returns a value of its type, in every branch.
LEMMA RecordReadyType ==
  ASSUME NEW s \in Runtimes, NEW c \in Clients, NEW g \in Nat, NEW isReady \in BOOLEAN
  PROVE  RecordReady(s, c, g, isReady) \in Runtimes
<1> DEFINE p == IF isReady THEN "Ready" ELSE "Pending"
           recorded == [s EXCEPT !.barrier.part[c] = p]
<1> SUFFICES ASSUME s.barrier.phase = "Preparing"
             PROVE  recorded \in Runtimes /\ Commit(recorded, FALSE) \in Runtimes
  BY DEF RecordReady
<1>1. recorded \in Runtimes
  BY ParticipantRuntime DEF ParticipantPhases
<1> HIDE DEF recorded
<1> QED
  BY <1>1, CommitType

\* `RecordStarted` returns a value of its type, in every branch.
LEMMA RecordStartedType ==
  ASSUME NEW s \in Runtimes, NEW c \in Clients, NEW g \in Nat, NEW rev \in Nat
  PROVE  RecordStarted(s, c, g, rev) \in Runtimes
<1> DEFINE recorded == [s EXCEPT !.barrier.part[c] = "Started"]
           complete == [recorded EXCEPT !.barrier.phase = "Complete"]
<1> SUFFICES ASSUME s.barrier.phase = "Committed"
             PROVE  recorded \in Runtimes /\ ClearGate(complete) \in Runtimes
  BY DEF RecordStarted
<1>1. recorded \in Runtimes
  BY ParticipantRuntime DEF ParticipantPhases
<1>2. recorded.barrier.phase = "Committed"
  BY DEF Runtimes, Barriers, Lifecycles, NoBarrier
<1> HIDE DEF recorded
<1>3. complete \in Runtimes
  BY <1>1, <1>2, PhaseRuntime DEF LifecyclePhases
<1> HIDE DEF complete
<1> QED
  BY <1>1, <1>3, ClearGateType

\* `FinishPrepareTimeout` returns a value of its type, in every branch.
LEMMA FinishPrepareTimeoutType ==
  ASSUME NEW s \in Runtimes, s.barrier.phase # "None", NEW h \in LifecyclePhases
  PROVE  FinishPrepareTimeout(s, h) \in Runtimes
<1> DEFINE part == [c \in Clients |->
                      IF s.barrier.part[c] \in {"Absent", "Ready"}
                      THEN s.barrier.part[c] ELSE "PrepareTimedOut"]
<1>1. part \in [Clients -> ParticipantPhases]
  BY LifecycleOf DEF ParticipantPhases
<1> HIDE DEF part
<1>2. EnterPhase(s, h, part) \in Runtimes
  BY <1>1, EnterPhaseType
<1> QED
  BY <1>2 DEF FinishPrepareTimeout, part

\* `PrepareTimeout` returns a value of its type, in every branch.
LEMMA PrepareTimeoutType ==
  ASSUME NEW s \in Runtimes, s.barrier.phase = "Preparing"
  PROVE  PrepareTimeout(s) \in Runtimes
<1>1. s.barrier.req.timeoutAction \in TimeoutActions
  BY LifecycleOf, RequestsAssumption
<1>2. /\ MarkGateDegraded(FinishPrepareTimeout(s, "Degraded"), "TimedOut") \in Runtimes
      /\ MarkGateDegraded(FinishPrepareTimeout(s, "AwaitingDecision"), "TimedOut") \in Runtimes
  BY FinishPrepareTimeoutType, MarkGateDegradedType DEF LifecyclePhases, GateReasons
<1>3. Commit(s, TRUE) \in Runtimes
  BY CommitType
<1> QED
  BY <1>1, <1>2, <1>3 DEF PrepareTimeout, TimeoutActions

\* `StartedTimeout` returns a value of its type, in every branch.
LEMMA StartedTimeoutType ==
  ASSUME NEW s \in Runtimes, s.barrier.phase = "Committed"
  PROVE  StartedTimeout(s) \in Runtimes
<1> DEFINE part == [c \in Clients |->
                      IF s.barrier.part[c] \in {"Pending", "Ready"}
                      THEN "StartedAckTimedOut" ELSE s.barrier.part[c]]
<1>1. part \in [Clients -> ParticipantPhases]
  BY LifecycleOf DEF ParticipantPhases
<1> HIDE DEF part
<1>2. ClearGate(EnterPhase(s, "Degraded", part)) \in Runtimes
  BY <1>1, EnterPhaseType, ClearGateType DEF LifecyclePhases
<1> QED
  BY <1>2 DEF StartedTimeout, part

\* `RetireAwaitingDecision` returns a value of its type, in every branch.
LEMMA RetireAwaitingDecisionType ==
  ASSUME NEW s \in Runtimes, NEW c \in Clients
  PROVE  RetireAwaitingDecision(s, c) \in Runtimes
  BY PhaseRuntime DEF RetireAwaitingDecision, LifecyclePhases

\* `RetireCommittedForUserPause` returns a value of its type, in every branch.
LEMMA RetireCommittedForUserPauseType ==
  ASSUME NEW s \in Runtimes
  PROVE  RetireCommittedForUserPause(s) \in Runtimes
<1> SUFFICES ASSUME s.barrier.phase = "Committed"
             PROVE  RetireCommittedForUserPause(s) \in Runtimes
  BY DEF RetireCommittedForUserPause
<1> DEFINE part == [c \in Clients |->
                      IF s.barrier.part[c] \in {"Absent", "Started"}
                      THEN s.barrier.part[c] ELSE "Degraded"]
<1>1. part \in [Clients -> ParticipantPhases]
  BY LifecycleOf DEF ParticipantPhases
<1> HIDE DEF part
<1>2. ClearGate(EnterPhase(s, "Degraded", part)) \in Runtimes
  BY <1>1, EnterPhaseType, ClearGateType DEF LifecyclePhases
<1> QED
  BY <1>2 DEF RetireCommittedForUserPause, part

\* `RetireForSelection` returns a value of its type, in every branch.
LEMMA RetireForSelectionType ==
  ASSUME NEW s \in Runtimes
  PROVE  RetireForSelection(s) \in Runtimes
<1> SUFFICES ASSUME s.barrier.phase # "None"
             PROVE  RetireForSelection(s) \in Runtimes
  BY DEF RetireForSelection
<1> DEFINE part == [c \in Clients |->
                      IF s.barrier.part[c] = "Absent" THEN s.barrier.part[c] ELSE "Degraded"]
<1>1. part \in [Clients -> ParticipantPhases]
  BY LifecycleOf DEF ParticipantPhases
<1> HIDE DEF part
<1>2. EnterPhase(s, "Degraded", part) \in Runtimes
  BY <1>1, EnterPhaseType DEF LifecyclePhases
<1> QED
  BY <1>2 DEF RetireForSelection, part

\* `MarkParticipantDisconnected` returns a value of its type, in every branch.
LEMMA MarkParticipantDisconnectedType ==
  ASSUME NEW s \in Runtimes, NEW c \in Clients
  PROVE  MarkParticipantDisconnected(s, c) \in Runtimes
<1> DEFINE marked == [s EXCEPT !.barrier.part[c] = "Disconnected"]
<1> SUFFICES ASSUME Active(s.barrier)
             PROVE  MaybeCommit(marked) \in Runtimes
  BY DEF MarkParticipantDisconnected
<1>1. marked \in Runtimes
  BY ParticipantRuntime DEF Active, ParticipantPhases
<1> HIDE DEF marked
<1> QED
  BY <1>1, MaybeCommitType

\* `OpenGeneration` returns a value of its type, in every branch, and ends by publishing the
\* gate.
LEMMA OpenGenerationType ==
  ASSUME NEW s \in Runtimes, NEW c \in Clients, NEW q \in Requests
  PROVE  /\ OpenGeneration(s, c, q) \in Runtimes
         /\ s.readiness.live => Published(OpenGeneration(s, c, q))
<1> DEFINE cohort == CaptureCohort(s)
           part == [d \in Clients |-> IF d \in cohort THEN "Pending" ELSE "Absent"]
           excluded == ClientsInRoom(s) \ (s.fenced \cup cohort)
           lifecycle ==
             [phase |-> "Preparing", gen |-> s.nextGen + 1, req |-> q,
              initiator |-> c, initiatorSeq |-> s.seq[c], part |-> part,
              excluded |-> excluded, rev |-> 0, gated |-> FALSE]
           tombstones == s.tombstones \cup Displaced(s, q)
           opened == [s EXCEPT !.nextGen = s.nextGen + 1, !.tombstones = tombstones,
                               !.paused = TRUE, !.barrier = lifecycle]
<1>1. s.nextGen + 1 \in Nat /\ s.seq[c] \in Nat /\ s.tombstones \subseteq Nat
  BY Components
<1>2. excluded \subseteq Clients
  BY DEF ClientsInRoom
<1>3. tombstones \subseteq Nat
  <2>1. s.barrier.phase # "None" => s.barrier.req.id \in Nat
    BY LifecycleOf, RequestsAssumption
  <2> QED
    BY <1>1, <2>1 DEF Displaced
<1> HIDE DEF excluded, tombstones, cohort
<1>4. part \in [Clients -> ParticipantPhases]
  BY DEF ParticipantPhases
<1> HIDE DEF part
<1>5. lifecycle \in Barriers
  BY <1>1, <1>2, <1>4 DEF Barriers, Lifecycles, LifecyclePhases
<1> HIDE DEF lifecycle
<1>6. opened \in Runtimes /\ opened.readiness = s.readiness
  BY <1>1, <1>3, <1>5 DEF Runtimes
<1> HIDE DEF opened
<1>7. LET t == ReplaceReadinessGeneration(opened, s.nextGen + 1, TRUE)
      IN t \in Runtimes /\ (s.readiness.live => Published(t))
  BY <1>1, <1>6, ReplaceReadinessGenerationType
<1> QED
  BY <1>7 DEF OpenGeneration, opened, lifecycle, part, excluded, tombstones, cohort

\* Remembering the last nonce of a connection keeps the runtime typed.
LEMMA NonceUpdate ==
  ASSUME NEW s \in Runtimes, NEW c \in Clients, NEW n \in Nat
  PROVE  [s EXCEPT !.nonce[c] = n] \in Runtimes
  BY DEF Runtimes

\* `StartPlaybackBarrier` returns a value of its type, in every branch.
LEMMA StartPlaybackBarrierType ==
  ASSUME NEW s \in Runtimes, NEW c \in Clients, NEW q \in Requests
  PROVE  StartPlaybackBarrier(s, c, q) \in Runtimes
<1> DEFINE repeated == [s EXCEPT !.nonce[c] = Larger(s.nonce[c], q.nonce)]
           consumed == [s EXCEPT !.nonce[c] = q.nonce]
<1>1. q.nonce \in Nat /\ Larger(s.nonce[c], q.nonce) \in Nat
  BY RequestsAssumption, Components DEF Larger
<1>2. repeated \in Runtimes /\ consumed \in Runtimes
  BY <1>1, NonceUpdate
<1>3. repeated.barrier = s.barrier
  BY DEF Runtimes
<1>4. s.barrier.phase # "None" => Rebind(repeated, c) \in Runtimes
  <2> HIDE DEF repeated
  <2> QED
    BY <1>2, <1>3, RebindType
<1>5. OpenGeneration(consumed, c, q) \in Runtimes
  <2> HIDE DEF consumed
  <2> QED
    BY <1>2, OpenGenerationType
<1> QED
  BY <1>2, <1>4, <1>5 DEF StartPlaybackBarrier

\* `RecoverPlaybackBarrier` returns a value of its type, in every branch.
LEMMA RecoverPlaybackBarrierType ==
  ASSUME NEW s \in Runtimes, NEW c \in Clients, NEW q \in Requests
  PROVE  RecoverPlaybackBarrier(s, c, q) \in Runtimes
  BY RebindType DEF RecoverPlaybackBarrier, SameOperation

-----------------------------------------------------------------------------
(* RoomReadiness.                                                          *)

\* Replacing all participants' records keeps the runtime typed.
LEMMA RecordsUpdate ==
  ASSUME NEW s \in Runtimes, NEW p \in [Clients -> Records]
  PROVE  [s EXCEPT !.readiness.part = p] \in Runtimes
  BY DEF Runtimes, Readinesses

\* Replacing one participant's record keeps the runtime typed.
LEMMA RecordUpdate ==
  ASSUME NEW s \in Runtimes, NEW c \in Clients, NEW record \in Records
  PROVE  [s EXCEPT !.readiness.part[c] = record] \in Runtimes
  BY DEF Runtimes, Readinesses

\* A participant's record in a typed runtime is a record.
LEMMA RecordOf ==
  ASSUME NEW s \in Runtimes, NEW c \in Clients
  PROVE  s.readiness.part[c] \in Records /\ s.readiness.gen \in Nat
  BY Components, ReadinessComponents

\* A record whose role is reassigned is a record.
LEMMA RoleRecordType ==
  ASSUME NEW record \in Records, NEW role \in Roles, NEW g \in Nat
  PROVE  Recompute([record EXCEPT !.role = role], g) \in Records
<1>1. [record EXCEPT !.role = role] \in Records
  BY DEF Records
<1> QED
  BY <1>1, RecomputeType

\* `ReconcileCohort` returns a value of its type, in every branch.
LEMMA ReconcileCohortType ==
  ASSUME NEW s \in Runtimes
  PROVE  ReconcileCohort(s) \in Runtimes
<1> DEFINE role(c) == IF c \in (ClientsInRoom(s) \cap StartCapable(s)) \ s.fenced
                      THEN "Required" ELSE "ExcludedUnsupported"
           record(c) == s.readiness.part[c]
           part == [c \in Clients |->
                      IF record(c).role \in {"Absent", role(c)}
                      THEN record(c)
                      ELSE Recompute([record(c) EXCEPT !.role = role(c)], s.readiness.gen)]
           required == {c \in Clients : part[c].role = "Required"}
           phase(c) == IF c \notin required THEN "Absent"
                       ELSE IF s.barrier.part[c] = "Absent" THEN "Pending"
                       ELSE s.barrier.part[c]
           phases == [c \in Clients |-> phase(c)]
           excluded == ClientsInRoom(s) \ (required \cup s.fenced)
           barrier == IF s.barrier.phase # "Preparing" THEN s.barrier
                      ELSE [s.barrier EXCEPT !.part = phases, !.excluded = excluded]
<1>1. \A c \in Clients : role(c) \in Roles
  BY DEF Roles
<1> HIDE DEF role
<1>2. part \in [Clients -> Records]
  BY <1>1, RecordOf, RoleRecordType
<1> HIDE DEF part
<1>3. phases \in [Clients -> ParticipantPhases]
  BY Components, BarrierComponents DEF ParticipantPhases
<1>4. excluded \subseteq Clients
  BY DEF ClientsInRoom
<1> HIDE DEF phases, excluded
<1>5. barrier \in Barriers
  BY <1>3, <1>4, LifecycleOf, Components DEF Barriers, Lifecycles
<1> HIDE DEF barrier
<1>6. [s EXCEPT !.readiness.part = part, !.barrier = barrier] \in Runtimes
  BY <1>2, <1>5 DEF Runtimes, Readinesses
<1> QED
  BY <1>6 DEF ReconcileCohort, barrier, phases, excluded, part, role

\* `RefreshMixedCohort` returns a value of its type, in every branch.
LEMMA RefreshMixedCohortType ==
  ASSUME NEW s \in Runtimes
  PROVE  RefreshMixedCohort(s) \in Runtimes
  BY ReconcileCohortType, RefreshGateType, MaybeCommitType DEF RefreshMixedCohort

\* `CurrentGeneration` returns a value of its type, in every branch.
LEMMA CurrentGenerationType ==
  ASSUME NEW s \in Runtimes
  PROVE  CurrentGeneration(s) \in Nat
  BY Components, ReadinessComponents, BarrierComponents DEF CurrentGeneration

\* `JoiningRecord` returns a value of its type, in every branch.
LEMMA JoiningRecordType ==
  ASSUME NEW s \in Runtimes, NEW c \in Clients, NEW kept \in Detacheds,
         NEW seedReady \in BOOLEAN
  PROVE  JoiningRecord(s, c, kept, seedReady) \in Records
<1> DEFINE g == CurrentGeneration(s)
           role == IF c \in BarrierV1(s) THEN "Required" ELSE "ExcludedUnsupported"
           intentReady == IF kept.kept THEN kept.intentReady ELSE seedReady
           touched == kept.kept /\ kept.touched
           initializationOpen == ~kept.kept
           tech == FreshTechnical(g)
           r == [role |-> role, intentReady |-> intentReady, touched |-> touched,
                 initializationOpen |-> initializationOpen, tech |-> tech, blocked |-> FALSE,
                 automatic |-> "None", roomReady |-> FALSE, startEligible |-> FALSE]
<1>1. g \in Nat /\ tech \in Technicals
  BY CurrentGenerationType, FreshTechnicalType
<1>2. role \in Roles
  BY DEF Roles
<1>3. kept.intentReady \in BOOLEAN /\ kept.touched \in BOOLEAN /\ kept.kept \in BOOLEAN
  BY DEF Detacheds
<1>4. intentReady \in BOOLEAN /\ touched \in BOOLEAN /\ initializationOpen \in BOOLEAN
  BY <1>3
<1> HIDE DEF role, intentReady, touched, initializationOpen, tech, g
<1>5. r \in Records
  BY <1>1, <1>2, <1>4 DEF Records
<1> HIDE DEF r
<1>6. Recompute(r, g) \in Records
  BY <1>1, <1>5, RecomputeType
<1> QED
  BY <1>6 DEF JoiningRecord, r, role, intentReady, touched, initializationOpen, tech, g

\* `Attach` returns a value of its type, in every branch, and ends by evaluating the room.
LEMMA AttachType ==
  ASSUME NEW s \in Runtimes, NEW c \in Clients, NEW token \in Clients \cup {NoClient},
         NEW seedReady \in BOOLEAN
  PROVE  /\ Attach(s, c, token, seedReady) \in Runtimes
         /\ Evaluated(Attach(s, c, token, seedReady))
<1> DEFINE kept == IF token = NoClient THEN NoDetached ELSE s.detached[token]
           detached == IF kept.kept THEN [s.detached EXCEPT ![token] = NoDetached]
                       ELSE s.detached
           owner == IF kept.kept /\ s.readiness.owner = UserOwner(token)
                    THEN UserOwner(c) ELSE s.readiness.owner
           record == JoiningRecord(s, c, kept, seedReady)
           g == CurrentGeneration(s)
           readiness == [s.readiness EXCEPT !.live = TRUE, !.gen = g, !.owner = owner,
                                            !.part[c] = record]
           joined == [s EXCEPT !.pending[c] = NoPending, !.detached = detached,
                               !.readiness = readiness]
           cohort == ReconcileCohort(joined)
           owned == IF s.barrier.phase = "Preparing" /\ cohort.readiness.owner.kind # "User"
                    THEN SetPauseOwner(cohort, GateOwner(s.barrier.gen))
                    ELSE cohort
<1>1. kept \in Detacheds
  BY Components, SimpleTypes
<1>2. detached \in [Clients -> Detacheds]
  BY Components, SimpleTypes
<1>3. owner \in Owners
  BY Components, ReadinessComponents, OwnerTypes
<1> HIDE DEF kept
<1>4. record \in Records /\ g \in Nat
  BY <1>1, JoiningRecordType, CurrentGenerationType
<1> HIDE DEF detached, owner, record, g
<1>5. readiness \in Readinesses
  BY <1>3, <1>4, Components DEF Readinesses
<1> HIDE DEF readiness
<1>6. joined \in Runtimes
  BY <1>2, <1>5, SimpleTypes DEF Runtimes
<1> HIDE DEF joined
<1>7. cohort \in Runtimes
  BY <1>6, ReconcileCohortType
<1> HIDE DEF cohort
<1>8. owned \in Runtimes
  BY <1>7, SetPauseOwnerType, OwnerTypes, Components, BarrierComponents
<1> HIDE DEF owned
<1>9. MaybeCommit(RefreshGate(owned)) \in Runtimes /\ Evaluated(MaybeCommit(RefreshGate(owned)))
  BY <1>8, RefreshGateType, MaybeCommitType DEF Evaluated
<1> QED
  BY <1>9 DEF Attach, owned, cohort, joined, readiness, g, record, owner, detached, kept

\* `Detach` returns a value of its type, in every branch, and evaluates the others unless
\* it dissolves the coordinator.
LEMMA DetachType ==
  ASSUME NEW s \in Runtimes, NEW c \in Clients, NEW retain \in BOOLEAN
  PROVE  LET t == Detach(s, c, retain)
         IN /\ t \in Runtimes
            /\ s.readiness.part[c].role = "Absent" => t = [s EXCEPT !.pending[c] = NoPending]
            /\ s.readiness.part[c].role # "Absent" => Evaluated(t) \/ t.readiness = NoReadiness
<1> DEFINE record == s.readiness.part[c]
           detached == IF retain
                       THEN [kept |-> TRUE, intentReady |-> record.intentReady,
                             touched |-> record.touched]
                       ELSE s.detached[c]
           removed == [s EXCEPT !.pending[c] = NoPending, !.readiness.part[c] = NoRecord,
                                !.detached[c] = detached]
           evaluated == MaybeCommit(RefreshGate(removed))
           dissolved == [ClearGate(evaluated) EXCEPT !.readiness = NoReadiness]
<1>1. [s EXCEPT !.pending[c] = NoPending] \in Runtimes
  BY PendingUpdate, SimpleTypes
<1>2. detached \in Detacheds
  <2>1. s.detached[c] \in Detacheds
    BY Components
  <2>2. record.intentReady \in BOOLEAN /\ record.touched \in BOOLEAN
    BY RecordOf DEF Records
  <2> QED
    BY <2>1, <2>2 DEF Detacheds
<1> HIDE DEF detached
<1>3. removed \in Runtimes
  BY <1>2, NoRecordType, SimpleTypes DEF Runtimes, Readinesses
<1> HIDE DEF removed
<1>4. evaluated \in Runtimes /\ Evaluated(evaluated)
  BY <1>3, RefreshGateType, MaybeCommitType DEF Evaluated
<1> HIDE DEF evaluated
<1>5. dissolved \in Runtimes /\ dissolved.readiness = NoReadiness
  <2>1. ClearGate(evaluated) \in Runtimes
    BY <1>4, ClearGateType
  <2> QED
    BY <2>1, ReadinessUpdate, NoReadinessType DEF Runtimes
<1> HIDE DEF dissolved
<1>6. Detach(s, c, retain) = IF record.role = "Absent" THEN [s EXCEPT !.pending[c] = NoPending]
                             ELSE IF ReadinessMembers(evaluated) # {} THEN evaluated
                             ELSE dissolved
  BY DEF Detach, dissolved, evaluated, removed, detached
<1> QED
  BY <1>1, <1>4, <1>5, <1>6

\* `ClaimUserPause` returns a value of its type, in every branch.
LEMMA ClaimUserPauseType ==
  ASSUME NEW s \in Runtimes, NEW c \in Clients
  PROVE  ClaimUserPause(s, c) \in Runtimes
  BY RetireCommittedForUserPauseType, SetPauseOwnerType, OwnerTypes, RefreshGateType
     DEF ClaimUserPause

\* `ApplyStaged` returns a value of its type, in every branch.
LEMMA ApplyStagedType ==
  ASSUME NEW s \in Runtimes, NEW c \in Clients, NEW p \in BOOLEAN
  PROVE  ApplyStaged(s, c, p) \in Runtimes
<1> DEFINE decided == RetireAwaitingDecision(s, c)
           owned == IF p THEN ClaimUserPause(decided, c) ELSE SetPauseOwner(decided, NoOwner)
<1>1. decided \in Runtimes
  BY RetireAwaitingDecisionType
<1> HIDE DEF decided
<1>2. owned \in Runtimes
  BY <1>1, ClaimUserPauseType, SetPauseOwnerType, OwnerTypes
<1> HIDE DEF owned
<1>3. RetirePendingTransport([owned EXCEPT !.paused = p]) \in Runtimes
  BY <1>2, PausedUpdate, RetirePendingTransportType
<1> QED
  BY <1>2, <1>3 DEF ApplyStaged, owned, decided

\* `IntentRecord` returns a value of its type, in every branch.
LEMMA IntentRecordType ==
  ASSUME NEW record \in Records, NEW ready \in BOOLEAN, NEW g \in Nat
  PROVE  Recompute([record EXCEPT !.intentReady = ready, !.touched = TRUE], g) \in Records
<1> DEFINE r == [record EXCEPT !.intentReady = ready, !.touched = TRUE]
<1>1. r \in Records
  BY DEF Records
<1> HIDE DEF r
<1>2. Recompute(r, g) \in Records
  BY <1>1, RecomputeType
<1> QED
  BY <1>2 DEF r

\* `MutateIntent` returns a value of its type, in every branch.
LEMMA MutateIntentType ==
  ASSUME NEW s \in Runtimes, NEW c \in Clients, NEW ready \in BOOLEAN
  PROVE  MutateIntent(s, c, ready) \in Runtimes
<1> DEFINE r == Recompute([s.readiness.part[c] EXCEPT !.intentReady = ready,
                                                     !.touched = TRUE], s.readiness.gen)
<1>1. r \in Records
  BY RecordOf, IntentRecordType
<1> HIDE DEF r
<1>2. [s EXCEPT !.readiness.part[c] = r] \in Runtimes
  BY <1>1, RecordUpdate
<1> QED
  BY <1>2 DEF MutateIntent, r

\* `IndirectTransport` returns a value of its type, in every branch.
LEMMA IndirectTransportType ==
  ASSUME NEW s \in Runtimes, NEW c \in Clients, NEW p \in BOOLEAN, NEW staged \in BOOLEAN
  PROVE  IndirectTransport(s, c, p, staged) \in Runtimes
<1>1. RetireAwaitingDecision(s, c) \in Runtimes
  BY RetireAwaitingDecisionType
<1>2. ClaimUserPause(RetireAwaitingDecision(s, c), c) \in Runtimes
  BY <1>1, ClaimUserPauseType
<1>3. ApplyStaged(s, c, p) \in Runtimes
  BY ApplyStagedType
<1>4. [paused |-> p, evidence |-> "Accepted"] \in Pendings
  BY DEF Pendings
<1>5. [s EXCEPT !.pending[c] = [paused |-> p, evidence |-> "Accepted"]] \in Runtimes
  BY <1>4, PendingUpdate
<1> QED
  BY <1>1, <1>2, <1>3, <1>5 DEF IndirectTransport

\* `ApplyIntent` returns a value of its type, in every branch, and ends by evaluating the
\* room.
LEMMA ApplyIntentType ==
  ASSUME NEW s \in Runtimes, NEW c \in Clients, NEW target \in Clients,
         NEW ready \in BOOLEAN, NEW source \in IntentSources
  PROVE  LET t == ApplyIntent(s, c, target, ready, source)
         IN t \in Runtimes /\ (Evaluated(t) \/ t = [s EXCEPT !.pending[c] = NoPending])
<1> DEFINE p == source = "PlayerPause"
           controls == /\ source \in {"PlayerPlay", "PlayerPause"} /\ target = c
                       /\ c \in Controllers
           staged == controls /\ s.pending[c] = [paused |-> p, evidence |-> "Observed"]
           consumed == [s EXCEPT !.pending[c] = NoPending]
           recorded == MutateIntent(consumed, target, ready)
           mutated == [recorded EXCEPT !.readiness.part[c].initializationOpen = FALSE]
           moved == IF controls THEN IndirectTransport(mutated, c, p, staged) ELSE mutated
           armed == IF ready /\ s.barrier.phase = "Preparing"
                    THEN SetPauseOwner(moved, GateOwner(s.barrier.gen)) ELSE moved
<1>1. consumed \in Runtimes
  BY PendingUpdate, SimpleTypes
<1> HIDE DEF consumed
<1>2. recorded \in Runtimes
  BY <1>1, MutateIntentType
<1> HIDE DEF recorded
<1>3. mutated \in Runtimes
  <2>1. [recorded.readiness.part[c] EXCEPT !.initializationOpen = FALSE] \in Records
    BY <1>2, RecordOf DEF Records
  <2> QED
    BY <1>2, <2>1, RecordUpdate
<1> HIDE DEF mutated
<1>4. p \in BOOLEAN /\ staged \in BOOLEAN
  OBVIOUS
<1> HIDE DEF p, staged
<1>5. moved \in Runtimes
  BY <1>3, <1>4, IndirectTransportType
<1> HIDE DEF moved
<1>6. armed \in Runtimes
  BY <1>5, SetPauseOwnerType, OwnerTypes, Components, BarrierComponents
<1> HIDE DEF armed
<1>7. MaybeCommit(RefreshGate(armed)) \in Runtimes /\ Evaluated(MaybeCommit(RefreshGate(armed)))
  BY <1>6, RefreshGateType, MaybeCommitType DEF Evaluated
<1> QED
  BY <1>1, <1>7 DEF ApplyIntent, armed, moved, mutated, recorded, consumed, staged, p

\* `ApplySyncplayReady` returns a value of its type, in every branch, and ends by
\* evaluating the room.
LEMMA ApplySyncplayReadyType ==
  ASSUME NEW s \in Runtimes, NEW c \in Clients, NEW target \in Clients,
         NEW ready \in BOOLEAN
  PROVE  LET t == ApplySyncplayReady(s, c, target, ready)
         IN t \in Runtimes /\ (Evaluated(t) \/ t = s)
<1> DEFINE u == MutateIntent(s, target, ready)
<1>1. u \in Runtimes
  BY MutateIntentType
<1>2. ApplySyncplayReady(s, c, target, ready) \in {s, MaybeCommit(RefreshGate(u))}
  BY DEF ApplySyncplayReady
<1> HIDE DEF u
<1>3. MaybeCommit(RefreshGate(u)) \in Runtimes /\ Evaluated(MaybeCommit(RefreshGate(u)))
  BY <1>1, RefreshGateType, MaybeCommitType DEF Evaluated
<1> QED
  BY <1>2, <1>3

\* `ReportedRecord` returns a value of its type, in every branch.
LEMMA ReportedRecordType ==
  ASSUME NEW record \in Records, NEW g \in Nat, NEW report \in Reports
  PROVE  ReportedRecord(record, g, report) \in Records
<1> DEFINE isBlock == report.phase \in {"TemporarilyBlocked", "TerminallyBlocked"}
           cause == IF ~isBlock THEN "None"
                    ELSE IF report.reason = "None" THEN "Other" ELSE report.reason
           tech == [phase |-> report.phase,
                    gen |-> IF report.phase = "Unknown" THEN 0 ELSE g,
                    cause |-> cause]
           reported == OwnerOfReason(report.reason)
           automatic == IF reported # "None" THEN reported
                        ELSE IF report.phase \in {"Unknown", "Playable"} THEN "None"
                        ELSE record.automatic
           blocked == \/ report.phase = "TerminallyBlocked"
                      \/ record.blocked /\ report.phase # "Playable"
           r == [record EXCEPT !.tech = tech, !.automatic = automatic, !.blocked = blocked]
<1>1. report.phase \in TechnicalPhases /\ report.reason \in Causes
  BY EvidenceAssumption
<1>2. tech \in Technicals
  BY <1>1 DEF Technicals, Causes
<1>3. automatic \in {"None", "Recovery", "EndOfPlaylist"}
  BY DEF OwnerOfReason, Records
<1>4. blocked \in BOOLEAN
  OBVIOUS
<1> HIDE DEF tech, automatic, blocked
<1>5. r \in Records
  BY <1>2, <1>3, <1>4 DEF Records
<1> HIDE DEF r
<1>6. Recompute(r, g) \in Records
  BY <1>5, RecomputeType
<1> QED
  BY <1>6 DEF ReportedRecord, r, tech, automatic, blocked

\* `ApplyTechnicalReport` returns a value of its type, in every branch, and ends by
\* evaluating the room.
LEMMA ApplyTechnicalReportType ==
  ASSUME NEW s \in Runtimes, NEW c \in Clients, NEW g \in Nat, NEW rev \in Nat,
         NEW report \in Reports
  PROVE  LET t == ApplyTechnicalReport(s, c, g, rev, report)
         IN t \in Runtimes /\ (Evaluated(t) \/ t = s)
<1> DEFINE r == ReportedRecord(s.readiness.part[c], g, report)
           recorded == [s EXCEPT !.readiness.part[c] = r]
           reported == AutomaticOwner(OwnerOfReason(report.reason))
           owned == IF ~s.paused /\ s.readiness.owner.kind = "Recovery"
                    THEN SetPauseOwner(recorded, NoOwner)
                    ELSE IF /\ s.paused /\ reported # NoOwner
                            /\ s.readiness.owner \in {NoOwner, reported}
                    THEN SetPauseOwner(recorded, reported)
                    ELSE recorded
<1>1. r \in Records
  BY RecordOf, ReportedRecordType
<1> HIDE DEF r
<1>2. recorded \in Runtimes
  BY <1>1, RecordUpdate
<1>3. reported \in Owners
  BY OwnerTypes DEF OwnerOfReason, OwnerKinds
<1> HIDE DEF recorded, reported
<1>4. owned \in Runtimes
  BY <1>2, <1>3, SetPauseOwnerType, OwnerTypes
<1> HIDE DEF owned
<1>5. MaybeCommit(RefreshGate(owned)) \in Runtimes /\ Evaluated(MaybeCommit(RefreshGate(owned)))
  BY <1>4, RefreshGateType, MaybeCommitType DEF Evaluated
<1> QED
  BY <1>5 DEF ApplyTechnicalReport, owned, recorded, reported, r

-----------------------------------------------------------------------------
(* StartGate: sessions and transport.                                      *)

\* `JoinRoom` returns a value of its type, in every branch.
LEMMA JoinRoomType ==
  ASSUME NEW s \in Runtimes, NEW c \in Clients, NEW caps \in SUBSET Capabilities
  PROVE  JoinRoom(s, c, caps) \in Runtimes
<1> DEFINE n == s.nextSeq + 1
<1>1. n \in Nat /\ "Room" \in Places
  BY Components DEF Places
<1> HIDE DEF n
<1>2. [s EXCEPT !.place[c] = "Room", !.caps[c] = caps, !.nextSeq = n, !.seq[c] = n] \in Runtimes
  BY <1>1 DEF Runtimes
<1> QED
  BY <1>2 DEF JoinRoom, n

\* `RemoveSession` returns a value of its type, in every branch.
LEMMA RemoveSessionType ==
  ASSUME NEW s \in Runtimes, NEW c \in Clients, NEW place \in Places
  PROVE  RemoveSession(s, c, place) \in Runtimes
  BY SimpleTypes DEF RemoveSession, Runtimes

\* `CleanupRoom` returns a value of its type, in every branch.
LEMMA CleanupRoomType ==
  ASSUME NEW s \in Runtimes
  PROVE  CleanupRoom(s) \in Runtimes
<1> DEFINE cleared == ClearGate(s)
<1>1. cleared \in Runtimes
  BY ClearGateType
<1> HIDE DEF cleared
<1>2. [cleared EXCEPT !.barrier = NoBarrier, !.paused = TRUE, !.tombstones = {}] \in Runtimes
  BY <1>1, NoBarrierType DEF Runtimes
<1> QED
  BY <1>2 DEF CleanupRoom, cleared

\* What both departure paths share, after the two departures: remove, refresh, clean up.
LEMMA DepartureType ==
  ASSUME NEW s \in Runtimes, NEW c \in Clients, NEW place \in Places
  PROVE  CleanupRoom(RefreshMixedCohort(RemoveSession(s, c, place))) \in Runtimes
  BY RemoveSessionType, RefreshMixedCohortType, CleanupRoomType

\* `ReplaceSession` returns a value of its type, in every branch.
LEMMA ReplaceSessionType ==
  ASSUME NEW s \in Runtimes, NEW c \in Clients
  PROVE  ReplaceSession(s, c) \in Runtimes
<1>1. MarkParticipantDisconnected(Detach(s, c, TRUE), c) \in Runtimes
  BY DetachType, MarkParticipantDisconnectedType
<1> QED
  BY <1>1, DepartureType DEF ReplaceSession, Places

\* `DepartSession` returns a value of its type, in every branch.
LEMMA DepartSessionType ==
  ASSUME NEW s \in Runtimes, NEW c \in Clients
  PROVE  DepartSession(s, c) \in Runtimes
<1>1. Detach(MarkParticipantDisconnected(s, c), c, TRUE) \in Runtimes
  BY DetachType, MarkParticipantDisconnectedType
<1> QED
  BY <1>1, DepartureType DEF DepartSession, Places

\* Writing a detached membership keeps the runtime typed.
LEMMA DetachedUpdate ==
  ASSUME NEW s \in Runtimes, NEW c \in Clients, NEW d \in Detacheds
  PROVE  [s EXCEPT !.detached[c] = d] \in Runtimes
  BY DEF Runtimes

\* `MoveTransport` returns a value of its type, in every branch.
LEMMA MoveTransportType ==
  ASSUME NEW s \in Runtimes, NEW p \in BOOLEAN
  PROVE  MoveTransport(s, p) \in Runtimes
  BY PausedUpdate, RetirePendingTransportType, SetPauseOwnerType, OwnerTypes
     DEF MoveTransport

\* `AutomaticTransportOwner` returns a value of its type, in every branch.
LEMMA AutomaticTransportOwnerType ==
  ASSUME NEW s \in Runtimes, NEW c \in Clients, NEW p \in BOOLEAN
  PROVE  AutomaticTransportOwner(s, c, p) \in Owners
<1>1. s.readiness.owner \in Owners /\ s.readiness.part[c] \in Records
  BY Components, ReadinessComponents
<1>2. ReportedPauseOwner(s.readiness.part[c]) \in OwnerKinds
  BY <1>1 DEF ReportedPauseOwner, Records, OwnerKinds
<1> QED
  BY <1>1, <1>2, OwnerTypes DEF AutomaticTransportOwner

\* `V2Transport` returns a value of its type, in every branch.
LEMMA V2TransportType ==
  ASSUME NEW s \in Runtimes, NEW c \in Clients, NEW p \in BOOLEAN
  PROVE  V2Transport(s, c, p) \in Runtimes
<1> DEFINE consumed == [s EXCEPT !.pending[c] = NoPending]
           decided == RetireAwaitingDecision(consumed, c)
           automatic == AutomaticTransportOwner(s, c, p)
           claimed == IF p THEN ClaimUserPause(decided, c) ELSE decided
           owned == IF p /\ s.readiness.owner \in {NoOwner, automatic}
                    THEN SetPauseOwner(consumed, automatic) ELSE consumed
           observed == [paused |-> p, evidence |-> "Observed"]
<1>1. consumed \in Runtimes
  BY PendingUpdate, SimpleTypes
<1> HIDE DEF consumed
<1>2. decided \in Runtimes
  BY <1>1, RetireAwaitingDecisionType
<1> HIDE DEF decided
<1>3. claimed \in Runtimes
  BY <1>2, ClaimUserPauseType
<1>4. automatic \in Owners
  BY AutomaticTransportOwnerType
<1> HIDE DEF automatic
<1>5. owned \in Runtimes
  BY <1>1, <1>4, SetPauseOwnerType
<1>6. [s EXCEPT !.pending[c] = observed] \in Runtimes
  <2>1. observed \in Pendings
    BY DEF Pendings
  <2> HIDE DEF observed
  <2> QED
    BY <2>1, PendingUpdate
<1> HIDE DEF claimed, owned
<1>7. MoveTransport(claimed, p) \in Runtimes /\ MoveTransport(owned, p) \in Runtimes
  BY <1>3, <1>5, MoveTransportType
<1> QED
  BY <1>6, <1>7 DEF V2Transport, claimed, owned, automatic, decided, consumed

\* `SyncplayTransport` returns a value of its type, in every branch.
LEMMA SyncplayTransportType ==
  ASSUME NEW s \in Runtimes, NEW c \in Clients, NEW p \in BOOLEAN
  PROVE  SyncplayTransport(s, c, p) \in Runtimes
<1>1. RetireAwaitingDecision(s, c) \in Runtimes
  BY RetireAwaitingDecisionType
<1>2. ClaimUserPause(RetireAwaitingDecision(s, c), c) \in Runtimes
  BY <1>1, ClaimUserPauseType
<1>3. /\ MoveTransport(s, p) \in Runtimes
      /\ MoveTransport(RetireAwaitingDecision(s, c), p) \in Runtimes
      /\ MoveTransport(ClaimUserPause(RetireAwaitingDecision(s, c), c), p) \in Runtimes
  BY <1>1, <1>2, MoveTransportType
<1> QED
  BY <1>3 DEF SyncplayTransport

-----------------------------------------------------------------------------
(* The actions.                                                            *)

\* A Hello announces a set of capabilities.
LEMMA HelloCapsType ==
  ASSUME NEW c \in Clients
  PROVE  HelloCaps[c] \in SUBSET Capabilities
  BY ClientsAssumption

\* `Hello` returns a value of its type, in every branch.
LEMMA HelloType ==
  ASSUME TypeOK, NEW c \in Clients, NEW token \in Clients \cup {NoClient}, Hello(c, token)
  PROVE  TypeOK'
<1> DEFINE left == IF rt.place[c] = "Room" THEN ReplaceSession(rt, c) ELSE rt
           attaches == "readiness" \in HelloCaps[c]
           restores == attaches /\ token # NoClient /\ left.detached[token].kept
           known == IF restores THEN left ELSE [left EXCEPT !.detached[c] = NoDetached]
           joined == JoinRoom(known, c, HelloCaps[c])
           attached == Attach(joined, c, IF restores THEN token ELSE NoClient, FALSE)
<1>1. left \in Runtimes
  BY ReplaceSessionType DEF TypeOK
<1> HIDE DEF left
<1>2. known \in Runtimes
  BY <1>1, DetachedUpdate, SimpleTypes
<1> HIDE DEF known
<1>3. joined \in Runtimes
  BY <1>2, JoinRoomType, HelloCapsType
<1> HIDE DEF joined
<1>4. attached \in Runtimes
  BY <1>3, AttachType
<1> HIDE DEF attached
<1>5. RefreshMixedCohort(attached) \in Runtimes /\ RefreshMixedCohort(joined) \in Runtimes
  BY <1>3, <1>4, RefreshMixedCohortType
<1> QED
  BY <1>5 DEF Hello, TypeOK, attached, joined, known, left

\* Every session step keeps the runtime typed.
LEMMA MemberStepType ==
  ASSUME TypeOK, NEW c \in Clients, MemberStep(c)
  PROVE  TypeOK'
<1>1. ASSUME NEW token \in Clients \cup {NoClient}, Hello(c, token)
      PROVE  TypeOK'
  BY <1>1, HelloType
<1>2. CASE Disconnect(c)
  BY <1>2, DepartSessionType, RemoveSessionType DEF Disconnect, TypeOK, Places
<1>3. CASE SwitchAway(c)
  <2> DEFINE left == MarkParticipantDisconnected(Detach(rt, c, FALSE), c)
             n == left.nextSeq + 1
             moved == [left EXCEPT !.place[c] = "Elsewhere", !.nextSeq = n, !.seq[c] = n]
  <2>1. left \in Runtimes
    BY DetachType, MarkParticipantDisconnectedType DEF TypeOK
  <2> HIDE DEF left
  <2>2. n \in Nat /\ "Elsewhere" \in Places
    BY <2>1, Components DEF Places
  <2> HIDE DEF n
  <2>3. moved \in Runtimes
    BY <2>1, <2>2 DEF Runtimes
  <2> HIDE DEF moved
  <2>4. CleanupRoom(RefreshMixedCohort(moved)) \in Runtimes
    BY <2>3, RefreshMixedCohortType, CleanupRoomType
  <2> QED
    BY <1>3, <2>4 DEF SwitchAway, TypeOK, moved, n, left
<1>4. CASE SwitchIn(c)
  <2> DEFINE joined == JoinRoom(rt, c, rt.caps[c])
  <2>1. joined \in Runtimes
    BY JoinRoomType, Components DEF TypeOK
  <2> HIDE DEF joined
  <2>2. Attach(joined, c, NoClient, FALSE) \in Runtimes
    BY <2>1, AttachType
  <2>3. /\ RefreshMixedCohort(Attach(joined, c, NoClient, FALSE)) \in Runtimes
        /\ RefreshMixedCohort(joined) \in Runtimes
    BY <2>1, <2>2, RefreshMixedCohortType
  <2> QED
    BY <1>4, <2>3 DEF SwitchIn, TypeOK, joined
<1>5. ASSUME NEW caps \in Renegotiations, NEW seedReady \in BOOLEAN,
             Renegotiate(c, caps, seedReady)
      PROVE  TypeOK'
  <2> DEFINE changed == [rt EXCEPT !.caps[c] = caps]
  <2>1. changed \in Runtimes
    BY ClientsAssumption DEF TypeOK, Runtimes
  <2> HIDE DEF changed
  <2>2. Attach(changed, c, c, seedReady) \in Runtimes /\ Detach(changed, c, TRUE) \in Runtimes
    BY <2>1, AttachType, DetachType
  <2>3. /\ RefreshMixedCohort(Attach(changed, c, c, seedReady)) \in Runtimes
        /\ RefreshMixedCohort(Detach(changed, c, TRUE)) \in Runtimes
        /\ RefreshMixedCohort(changed) \in Runtimes
    BY <2>1, <2>2, RefreshMixedCohortType
  <2> QED
    BY <1>5, <2>3 DEF Renegotiate, TypeOK, changed
<1> QED
  BY <1>1, <1>2, <1>3, <1>4, <1>5 DEF MemberStep

\* The generations and revisions that clients name are numbers.
LEMMA GenerationTypes ==
  ASSUME TypeOK
  PROVE  Generations \subseteq Nat /\ Revisions \subseteq Nat
  BY Components DEF TypeOK, Generations, Revisions

\* Every barrier message keeps the runtime typed.
LEMMA BarrierStepType ==
  ASSUME TypeOK, NEW c \in Clients, BarrierStep(c)
  PROVE  TypeOK'
<1>1. ASSUME NEW q \in Requests, Prepare(c, q) \/ Recover(c, q)
      PROVE  TypeOK'
  BY <1>1, StartPlaybackBarrierType, RecoverPlaybackBarrierType DEF Prepare, Recover, TypeOK
<1>2. ASSUME NEW g \in Generations, NEW isReady \in BOOLEAN, MediaReady(c, g, isReady)
      PROVE  TypeOK'
  BY <1>2, GenerationTypes, RecordReadyType DEF MediaReady, TypeOK
<1>3. ASSUME NEW g \in Generations, NEW r \in Revisions, StartedAck(c, g, r)
      PROVE  TypeOK'
  BY <1>3, GenerationTypes, RecordStartedType DEF StartedAck, TypeOK
<1> QED
  BY <1>1, <1>2, <1>3 DEF BarrierStep

\* Every readiness message keeps the runtime typed.
LEMMA ReadinessStepType ==
  ASSUME TypeOK, NEW c \in Clients, ReadinessStep(c)
  PROVE  TypeOK'
<1>1. ASSUME NEW target \in Clients, NEW ready \in BOOLEAN, NEW source \in Sources,
             Intent(c, target, ready, source)
      PROVE  TypeOK'
  BY <1>1, EvidenceAssumption, ApplyIntentType DEF Intent, TypeOK
<1>2. CASE IntentFenced(c)
  BY <1>2, PendingUpdate, SimpleTypes DEF IntentFenced, TypeOK
<1>3. ASSUME NEW target \in Clients, NEW ready \in BOOLEAN, SyncplayReady(c, target, ready)
      PROVE  TypeOK'
  BY <1>3, ApplySyncplayReadyType DEF SyncplayReady, TypeOK
<1>4. ASSUME NEW g \in Generations, NEW r \in Revisions, NEW report \in Reports,
             TechnicalReport(c, g, r, report)
      PROVE  TypeOK'
  BY <1>4, GenerationTypes, ApplyTechnicalReportType DEF TechnicalReport, TypeOK
<1> QED
  BY <1>1, <1>2, <1>3, <1>4 DEF ReadinessStep

\* Every transport command keeps the runtime typed.
LEMMA TransportStepType ==
  ASSUME TypeOK, NEW c \in Clients, TransportStep(c)
  PROVE  TypeOK'
<1>1. ASSUME NEW paused \in BOOLEAN, NEW seek \in BOOLEAN, Playstate(c, paused, seek)
      PROVE  TypeOK'
  BY <1>1, V2TransportType, SyncplayTransportType, MoveTransportType DEF Playstate, TypeOK
<1>2. CASE SelectionReset(c)
  <2> DEFINE retired == RetireForSelection(rt)
             owned == IF rt.readiness.owner.kind # "User"
                      THEN SetPauseOwner(retired, AutomaticOwner("EndOfPlaylist"))
                      ELSE retired
             reset == ReplaceReadinessGeneration(owned, 0, FALSE)
  <2>1. retired \in Runtimes
    BY RetireForSelectionType DEF TypeOK
  <2> HIDE DEF retired
  <2>2. owned \in Runtimes
    BY <2>1, SetPauseOwnerType, OwnerTypes DEF OwnerKinds
  <2> HIDE DEF owned
  <2>3. reset \in Runtimes
    BY <2>2, ReplaceReadinessGenerationType
  <2> HIDE DEF reset
  <2>4. [reset EXCEPT !.paused = TRUE] \in Runtimes
    BY <2>3, PausedUpdate
  <2> QED
    BY <1>2, <2>4 DEF SelectionReset, TypeOK, reset, owned, retired
<1>3. CASE SelectionNoted(c)
  BY <1>3, SetPauseOwnerType, OwnerTypes DEF SelectionNoted, TypeOK, OwnerKinds
<1> QED
  BY <1>1, <1>2, <1>3 DEF TransportStep

\* Every expiry of the tick keeps the runtime typed.
LEMMA TickStepType ==
  ASSUME TypeOK, TickStep
  PROVE  TypeOK'
<1>1. CASE PrepareDeadline
  BY <1>1, PrepareTimeoutType DEF PrepareDeadline, TypeOK
<1>2. CASE StartedDeadline
  BY <1>2, StartedTimeoutType DEF StartedDeadline, TypeOK
<1>3. CASE TombstoneExpires
  BY <1>3 DEF TombstoneExpires, TypeOK, Runtimes
<1>4. ASSUME NEW c \in Clients, PendingExpires(c)
      PROVE  TypeOK'
  BY <1>4, PendingUpdate, SimpleTypes DEF PendingExpires, TypeOK
<1> QED
  BY <1>1, <1>2, <1>3, <1>4 DEF TickStep

\* Every reachable runtime record is well-formed, whatever the connections do: no handler
\* of the room runtime (`ServerRuntime`), in any order, leaves a lifecycle without its
\* request and initiator, a participant in no phase or a gate without a generation.
THEOREM TypeCorrectness == Spec => []TypeOK
<1>1. Init => TypeOK
  BY InitialRuntimeType DEF Init, TypeOK
<1>2. TypeOK /\ [Next]_vars => TypeOK'
  <2> SUFFICES ASSUME TypeOK, [Next]_vars
               PROVE  TypeOK'
    OBVIOUS
  <2>1. CASE UNCHANGED vars
    BY <2>1 DEF TypeOK, vars
  <2>2. ASSUME NEW c \in Clients,
               MemberStep(c) \/ BarrierStep(c) \/ ReadinessStep(c) \/ TransportStep(c)
        PROVE  TypeOK'
    BY <2>2, MemberStepType, BarrierStepType, ReadinessStepType, TransportStepType
  <2>3. CASE TickStep
    BY <2>3, TickStepType
  <2> QED
    BY <2>1, <2>2, <2>3 DEF Next
<1> QED
  BY <1>1, <1>2, PTL DEF Spec

-----------------------------------------------------------------------------
(* The invariant, as a predicate of a runtime.                             *)

Authority(s) ==
  /\ s.barrier.phase = "Preparing" => s.paused
  /\ s.readiness.owner.kind = "User" => s.paused /\ s.barrier.phase # "Committed"
  /\ s.readiness.owner.kind = "ReadinessStartGate" =>
       s.paused /\ s.readiness.owner.gen = s.barrier.gen
  /\ ~s.readiness.live => s.readiness.owner.kind = "None"

IsMember(s, c) == s.readiness.part[c].role # "Absent"

Present(s) == \A c \in Clients : IsMember(s, c) => s.place[c] = "Room"
Populated(s) == s.readiness.live => \E c \in Clients : IsMember(s, c)

Sound(s) == s \in Runtimes /\ Authority(s) /\ Present(s) /\ Populated(s)

\* The coordinator keeps its members and the sessions stay where they are.
Frame(s, t) ==
  /\ t.place = s.place
  /\ t.readiness.live = s.readiness.live
  /\ \A c \in Clients : IsMember(t, c) <=> IsMember(s, c)

\* Nothing that the authority depends on changes but, perhaps, the owner.
Held(s, t) ==
  /\ Frame(s, t)
  /\ t.paused = s.paused
  /\ t.barrier.phase = s.barrier.phase
  /\ t.barrier.gen = s.barrier.gen

Quiet(s, t) == Held(s, t) /\ t.readiness.owner = s.readiness.owner

\* Two framed changes make a framed change.
LEMMA FrameTransitive ==
  ASSUME NEW s, NEW t, NEW u, Frame(s, t), Frame(t, u)
  PROVE  Frame(s, u)
  BY DEF Frame

\* A change of nothing that the authority mentions keeps it.
LEMMA QuietAuthority ==
  ASSUME NEW s, NEW t, Quiet(s, t), Authority(s)
  PROVE  Authority(t)
  BY DEF Quiet, Held, Frame, Authority

\* A framed change keeps the members present and the coordinator populated.
LEMMA FrameMembers ==
  ASSUME NEW s, NEW t, Frame(s, t)
  PROVE  (Present(s) => Present(t)) /\ (Populated(s) => Populated(t))
  BY DEF Frame, Present, Populated

-----------------------------------------------------------------------------
(* What each method does to the owner, the pause and the membership.       *)

\* What `RetirePending` leaves alone, and what it may do to the owner.
LEMMA RetirePendingEffect ==
  ASSUME NEW s \in Runtimes
  PROVE  Quiet(s, RetirePendingTransport(s))
  BY DEF RetirePendingTransport, Runtimes, Quiet, Held, Frame, IsMember

\* Writing the pause owner changes nothing else that the authority mentions.
LEMMA OwnerEffect ==
  ASSUME NEW s \in Runtimes, NEW o
  PROVE  /\ Held(s, [s EXCEPT !.readiness.owner = o])
         /\ [s EXCEPT !.readiness.owner = o].readiness.owner = o
  BY DEF Runtimes, Readinesses, Held, Frame, IsMember

\* What `SetPauseOwner` leaves alone, and what it may do to the owner.
LEMMA SetPauseOwnerEffect ==
  ASSUME NEW s \in Runtimes, NEW o \in Owners
  PROVE  /\ Held(s, SetPauseOwner(s, o))
         /\ s.readiness.live => SetPauseOwner(s, o).readiness.owner = o
         /\ ~s.readiness.live => SetPauseOwner(s, o) = s
<1> DEFINE t == [s EXCEPT !.readiness.owner = o]
<1>1. t \in Runtimes
  BY OwnerUpdate
<1>2. Held(s, t) /\ t.readiness.owner = o
  BY OwnerEffect
<1>3. Held(s, s)
  BY DEF Held, Frame
<1> HIDE DEF t
<1>4. Quiet(t, RetirePendingTransport(t))
  BY <1>1, RetirePendingEffect
<1>5. /\ Held(s, RetirePendingTransport(t))
      /\ RetirePendingTransport(t).readiness.owner = o
  BY <1>2, <1>4 DEF Quiet, Held, Frame
<1> QED
  BY <1>3, <1>5 DEF SetPauseOwner, t

\* Writing the gate phase changes nothing that the authority mentions.
LEMMA GateEffect ==
  ASSUME NEW s \in Runtimes, NEW g
  PROVE  Quiet(s, [s EXCEPT !.readiness.gate = g])
  BY DEF Runtimes, Readinesses, Quiet, Held, Frame, IsMember

\* No change is a quiet change.
LEMMA QuietReflexive ==
  ASSUME NEW s
  PROVE  Quiet(s, s)
  BY DEF Quiet, Held, Frame

\* Two quiet changes make a quiet change.
LEMMA QuietTransitive ==
  ASSUME NEW s, NEW t, NEW u, Quiet(s, t), Quiet(t, u)
  PROVE  Quiet(s, u)
  BY DEF Quiet, Held, Frame

\* What `RefreshGate` leaves alone, and what it may do to the owner.
LEMMA RefreshGateEffect ==
  ASSUME NEW s \in Runtimes
  PROVE  Quiet(s, RefreshGate(s))
  BY GateEffect, QuietReflexive DEF RefreshGate

\* What `SetGateAndOwner` leaves alone, and what it may do to the owner.
LEMMA SetGateAndOwnerEffect ==
  ASSUME NEW s \in Runtimes, NEW g, NEW o
  PROVE  Held(s, SetGateAndOwner(s, g, o)) /\ SetGateAndOwner(s, g, o).readiness.owner = o
<1> DEFINE r == [s.readiness EXCEPT !.gate = g, !.owner = o]
           t == [s EXCEPT !.readiness = r]
<1>1. r.owner = o /\ r.live = s.readiness.live /\ r.part = s.readiness.part
  BY DEF Runtimes, Readinesses
<1> HIDE DEF r
<1>2. Held(s, t) /\ t.readiness = r
  BY <1>1 DEF Runtimes, Held, Frame, IsMember
<1>3. t = SetGateAndOwner(s, g, o)
  BY DEF SetGateAndOwner, r
<1> HIDE DEF t
<1> QED
  BY <1>1, <1>2, <1>3

\* No change is a held change.
LEMMA HeldReflexive ==
  ASSUME NEW s
  PROVE  Held(s, s)
  BY DEF Held, Frame

\* What `ClearGate` leaves alone, and what it may do to the owner.
LEMMA ClearGateEffect ==
  ASSUME NEW s \in Runtimes
  PROVE  /\ Held(s, ClearGate(s))
         /\ ClearGate(s).readiness.owner \in {s.readiness.owner, NoOwner}
         /\ ~s.readiness.live => ClearGate(s) = s
  BY SetGateAndOwnerEffect, HeldReflexive DEF ClearGate

\* What `MarkGateCommitted` leaves alone, and what it may do to the owner.
LEMMA MarkGateCommittedEffect ==
  ASSUME NEW s \in Runtimes
  PROVE  /\ Held(s, MarkGateCommitted(s))
         /\ s.readiness.live => MarkGateCommitted(s).readiness.owner = NoOwner
         /\ ~s.readiness.live => MarkGateCommitted(s) = s
<1> DEFINE g == [phase |-> "Committed", gen |-> s.barrier.gen, reason |-> "None"]
           t == SetGateAndOwner(s, g, NoOwner)
<1>1. g \in Gates
  BY Components, BarrierComponents DEF Gates, GatePhases, GateReasons
<1> HIDE DEF g
<1>2. t \in Runtimes /\ Held(s, t) /\ t.readiness.owner = NoOwner
  BY <1>1, SetGateAndOwnerType, SetGateAndOwnerEffect, OwnerTypes
<1> HIDE DEF t
<1>3. Quiet(t, RetirePendingTransport(t))
  BY <1>2, RetirePendingEffect
<1>4. Held(s, RetirePendingTransport(t)) /\ RetirePendingTransport(t).readiness.owner = NoOwner
  BY <1>2, <1>3 DEF Quiet, Held, Frame
<1> QED
  BY <1>4, HeldReflexive DEF MarkGateCommitted, t, g

\* What `MarkGateDegraded` leaves alone, and what it may do to the owner.
LEMMA MarkGateDegradedEffect ==
  ASSUME NEW s \in Runtimes, NEW r
  PROVE  Quiet(s, MarkGateDegraded(s, r))
  BY GateEffect, QuietReflexive DEF MarkGateDegraded

-----------------------------------------------------------------------------
(* The commit: the one step that releases the pause of a prepared start.   *)

\* An unowned pause has no owner's kind.
LEMMA NoOwnerKind == NoOwner.kind = "None"
  BY DEF NoOwner

\* `Commit` keeps the pause authority and its membership facts.
LEMMA CommitSafe ==
  ASSUME NEW s \in Runtimes, Authority(s), NEW timedOut \in BOOLEAN
  PROVE  Authority(Commit(s, timedOut)) /\ Frame(s, Commit(s, timedOut))
<1> DEFINE part == [c \in Clients |-> PhaseAtCommit(s.barrier.part[c], timedOut)]
           b == [s.barrier EXCEPT !.part = part, !.phase = "Committed",
                                  !.rev = s.nextRev + 1, !.gated = s.readiness.live]
           r == [s EXCEPT !.barrier = b, !.nextRev = s.nextRev + 1, !.paused = FALSE]
           u == RetirePendingTransport(r)
           t == MarkGateCommitted(u)
<1>1. CASE Commit(s, timedOut) = s
  BY <1>1 DEF Frame
<1>2. CASE s.barrier.phase = "Preparing" /\ Commit(s, timedOut) = t
  <2>1. s.barrier \in Lifecycles /\ s.barrier.part \in [Clients -> ParticipantPhases]
    BY <1>2, LifecycleOf
  <2>2. s.nextRev + 1 \in Nat /\ s.readiness.live \in BOOLEAN
    BY Components, ReadinessComponents
  <2>3. part \in [Clients -> ParticipantPhases]
    BY <2>1 DEF PhaseAtCommit, ParticipantPhases
  <2> HIDE DEF part
  <2>4. b \in Barriers /\ b.phase = "Committed" /\ b.gen = s.barrier.gen
    BY <2>1, <2>2, <2>3 DEF Lifecycles, Barriers, LifecyclePhases
  <2> HIDE DEF b
  <2>5. /\ r \in Runtimes /\ r.barrier = b /\ ~r.paused /\ r.readiness = s.readiness
        /\ r.place = s.place
    BY <2>2, <2>4 DEF Runtimes
  <2>6. Frame(s, r)
    BY <2>5 DEF Frame, IsMember
  <2> HIDE DEF r
  <2>7. u \in Runtimes /\ Quiet(r, u)
    BY <2>5, RetirePendingTransportType, RetirePendingEffect
  <2> HIDE DEF u
  <2>8. /\ Held(u, t)
        /\ u.readiness.live => t.readiness.owner = NoOwner
        /\ ~u.readiness.live => t = u
    BY <2>7, MarkGateCommittedEffect
  <2> HIDE DEF t
  <2>9. t.barrier.phase = "Committed"
    BY <2>4, <2>5, <2>7, <2>8 DEF Quiet, Held
  <2>10. t.readiness.owner.kind = "None"
    BY <2>5, <2>7, <2>8, NoOwnerKind DEF Quiet, Held, Frame, Authority
  <2>11. Authority(t)
    BY <2>9, <2>10 DEF Authority
  <2>12. Frame(s, t)
    BY <2>6, <2>7, <2>8, FrameTransitive DEF Quiet, Held
  <2> QED
    BY <1>2, <2>11, <2>12
<1> QED
  BY <1>1, <1>2 DEF Commit

\* `MaybeCommit` keeps the pause authority and its membership facts.
LEMMA MaybeCommitSafe ==
  ASSUME NEW s \in Runtimes, Authority(s)
  PROVE  /\ MaybeCommit(s) \in Runtimes /\ Authority(MaybeCommit(s))
         /\ Frame(s, MaybeCommit(s))
  BY MaybeCommitType, CommitSafe, HeldReflexive DEF MaybeCommit, Held

\* Most handlers end by publishing the gate and evaluating the start again.
LEMMA EvaluateSafe ==
  ASSUME NEW s \in Runtimes, Authority(s)
  PROVE  LET t == MaybeCommit(RefreshGate(s))
         IN t \in Runtimes /\ Authority(t) /\ Frame(s, t)
<1>1. RefreshGate(s) \in Runtimes /\ Quiet(s, RefreshGate(s))
  BY RefreshGateType, RefreshGateEffect
<1>2. Authority(RefreshGate(s)) /\ Frame(s, RefreshGate(s))
  BY <1>1, QuietAuthority DEF Quiet, Held
<1> QED
  BY <1>1, <1>2, MaybeCommitSafe, FrameTransitive

-----------------------------------------------------------------------------
(* The barrier's other methods.                                            *)

\* Dropping the owner is always sound.
LEMMA ReleaseAuthority ==
  ASSUME NEW s, NEW t, Held(s, t), t.readiness.owner \in {s.readiness.owner, NoOwner},
         Authority(s)
  PROVE  Authority(t)
<1>1. CASE t.readiness.owner = s.readiness.owner
  BY <1>1, QuietAuthority DEF Quiet
<1>2. CASE t.readiness.owner = NoOwner
  BY <1>2, NoOwnerKind DEF Authority, Held, Frame
<1> QED
  BY <1>1, <1>2

\* Writing a participant's barrier phase changes nothing that the authority mentions.
LEMMA ParticipantEffect ==
  ASSUME NEW s \in Runtimes, NEW c \in Clients, NEW p
  PROVE  Quiet(s, [s EXCEPT !.barrier.part[c] = p])
<1>1. [s EXCEPT !.barrier.part[c] = p].readiness = s.readiness
      /\ [s EXCEPT !.barrier.part[c] = p].paused = s.paused
      /\ [s EXCEPT !.barrier.part[c] = p].place = s.place
      /\ [s EXCEPT !.barrier.part[c] = p].barrier = [s.barrier EXCEPT !.part[c] = p]
  BY DEF Runtimes
<1>2. /\ [s.barrier EXCEPT !.part[c] = p].phase = s.barrier.phase
      /\ [s.barrier EXCEPT !.part[c] = p].gen = s.barrier.gen
  BY Components DEF Barriers, Lifecycles, NoBarrier
<1> QED
  BY <1>1, <1>2 DEF Quiet, Held, Frame, IsMember

\* What entering another phase changes: the phase alone.
PhaseOnly(s, t, h) ==
  /\ Frame(s, t) /\ t.paused = s.paused /\ t.readiness.owner = s.readiness.owner
  /\ t.barrier.phase = h /\ t.barrier.gen = s.barrier.gen

\* A change of the lifecycle's phase alone keeps the authority unless it prepares or commits.
LEMMA PhaseOnlyAuthority ==
  ASSUME NEW s, NEW t, NEW h, PhaseOnly(s, t, h), h \notin {"Preparing", "Committed"},
         Authority(s)
  PROVE  Authority(t)
  BY DEF PhaseOnly, Frame, Authority

\* What `EnterPhase` leaves alone, and what it may do to the owner.
LEMMA EnterPhaseEffect ==
  ASSUME NEW s \in Runtimes, NEW p, NEW h
  PROVE  PhaseOnly(s, EnterPhase(s, h, p), h)
<1> DEFINE b == [s.barrier EXCEPT !.part = p, !.phase = h]
<1>1. b.phase = h /\ b.gen = s.barrier.gen
  BY Components DEF Barriers, Lifecycles, NoBarrier
<1> HIDE DEF b
<1>2. PhaseOnly(s, [s EXCEPT !.barrier = b], h)
  BY <1>1 DEF Runtimes, PhaseOnly, Frame, IsMember
<1> QED
  BY <1>2 DEF EnterPhase, b

\* Writing the lifecycle's phase changes nothing else.
LEMMA PhaseEffect ==
  ASSUME NEW s \in Runtimes, NEW h
  PROVE  PhaseOnly(s, [s EXCEPT !.barrier.phase = h], h)
<1>1. [s.barrier EXCEPT !.phase = h].phase = h
      /\ [s.barrier EXCEPT !.phase = h].gen = s.barrier.gen
  BY Components DEF Barriers, Lifecycles, NoBarrier
<1> QED
  BY <1>1 DEF Runtimes, PhaseOnly, Frame, IsMember

\* `RecordReady` keeps the pause authority and its membership facts.
LEMMA RecordReadySafe ==
  ASSUME NEW s \in Runtimes, Authority(s), NEW c \in Clients, NEW g \in Nat,
         NEW isReady \in BOOLEAN
  PROVE  LET t == RecordReady(s, c, g, isReady)
         IN t \in Runtimes /\ Authority(t) /\ Frame(s, t)
<1> DEFINE p == IF isReady THEN "Ready" ELSE "Pending"
           recorded == [s EXCEPT !.barrier.part[c] = p]
<1>1. CASE RecordReady(s, c, g, isReady) = s
  BY <1>1, HeldReflexive DEF Held
<1>2. CASE /\ s.barrier.phase = "Preparing"
           /\ \/ RecordReady(s, c, g, isReady) = recorded
              \/ RecordReady(s, c, g, isReady) = Commit(recorded, FALSE)
  <2>1. recorded \in Runtimes /\ Quiet(s, recorded)
    BY <1>2, ParticipantRuntime, ParticipantEffect DEF ParticipantPhases
  <2> HIDE DEF recorded
  <2>2. Authority(recorded) /\ Frame(s, recorded)
    BY <2>1, QuietAuthority DEF Quiet, Held
  <2>3. /\ Commit(recorded, FALSE) \in Runtimes /\ Authority(Commit(recorded, FALSE))
        /\ Frame(s, Commit(recorded, FALSE))
    BY <2>1, <2>2, CommitType, CommitSafe, FrameTransitive
  <2> QED
    BY <1>2, <2>1, <2>2, <2>3
<1> QED
  BY <1>1, <1>2 DEF RecordReady

\* A lifecycle that is neither preparing nor committed any more, with its gate cleared,
\* keeps the authority.
LEMMA ClearedPhaseSafe ==
  ASSUME NEW s \in Runtimes, Authority(s), NEW t \in Runtimes,
         NEW h \in LifecyclePhases \ {"Preparing", "Committed"}, PhaseOnly(s, t, h)
  PROVE  /\ ClearGate(t) \in Runtimes /\ Authority(ClearGate(t)) /\ Frame(s, ClearGate(t))
         /\ ClearGate(t).barrier.phase = h /\ ClearGate(t).paused = s.paused
         /\ ClearGate(t).barrier.gen = s.barrier.gen
<1>1. Authority(t)
  BY PhaseOnlyAuthority
<1>2. /\ ClearGate(t) \in Runtimes /\ Held(t, ClearGate(t))
      /\ ClearGate(t).readiness.owner \in {t.readiness.owner, NoOwner}
  BY ClearGateType, ClearGateEffect
<1>3. Authority(ClearGate(t))
  BY <1>1, <1>2, ReleaseAuthority
<1> QED
  BY <1>2, <1>3, FrameTransitive DEF PhaseOnly, Held

\* `RecordStarted` keeps the pause authority and its membership facts.
LEMMA RecordStartedSafe ==
  ASSUME NEW s \in Runtimes, Authority(s), NEW c \in Clients, NEW g \in Nat, NEW rev \in Nat
  PROVE  LET t == RecordStarted(s, c, g, rev)
         IN t \in Runtimes /\ Authority(t) /\ Frame(s, t)
<1> DEFINE recorded == [s EXCEPT !.barrier.part[c] = "Started"]
           complete == [recorded EXCEPT !.barrier.phase = "Complete"]
<1>1. CASE RecordStarted(s, c, g, rev) = s
  BY <1>1, HeldReflexive DEF Held
<1>2. CASE /\ s.barrier.phase = "Committed"
           /\ \/ RecordStarted(s, c, g, rev) = recorded
              \/ RecordStarted(s, c, g, rev) = ClearGate(complete)
  <2>1. recorded \in Runtimes /\ Quiet(s, recorded)
    BY <1>2, ParticipantRuntime, ParticipantEffect DEF ParticipantPhases
  <2> HIDE DEF recorded
  <2>2. /\ Authority(recorded) /\ Frame(s, recorded)
        /\ recorded.barrier.phase = "Committed"
    BY <1>2, <2>1, QuietAuthority DEF Quiet, Held
  <2>3. complete \in Runtimes /\ PhaseOnly(recorded, complete, "Complete")
    BY <2>1, <2>2, PhaseRuntime, PhaseEffect DEF LifecyclePhases
  <2> HIDE DEF complete
  <2>4. "Complete" \in LifecyclePhases \ {"Preparing", "Committed"}
    BY DEF LifecyclePhases
  <2>5. /\ ClearGate(complete) \in Runtimes /\ Authority(ClearGate(complete))
        /\ Frame(recorded, ClearGate(complete))
    BY <2>1, <2>2, <2>3, <2>4, ClearedPhaseSafe
  <2> QED
    BY <1>2, <2>1, <2>2, <2>5, FrameTransitive
<1> QED
  BY <1>1, <1>2 DEF RecordStarted

\* `PrepareTimeout` keeps the pause authority and its membership facts.
LEMMA PrepareTimeoutSafe ==
  ASSUME NEW s \in Runtimes, Authority(s), s.barrier.phase = "Preparing"
  PROVE  Authority(PrepareTimeout(s)) /\ Frame(s, PrepareTimeout(s))
<1>1. ASSUME NEW h \in {"Degraded", "AwaitingDecision"}
      PROVE  LET t == MarkGateDegraded(FinishPrepareTimeout(s, h), "TimedOut")
             IN Authority(t) /\ Frame(s, t)
  <2> DEFINE u == FinishPrepareTimeout(s, h)
  <2>1. u \in Runtimes
    BY FinishPrepareTimeoutType DEF LifecyclePhases
  <2>2. PhaseOnly(s, u, h)
    BY EnterPhaseEffect DEF FinishPrepareTimeout
  <2> HIDE DEF u
  <2>3. Authority(u)
    BY <2>2, PhaseOnlyAuthority
  <2>4. Quiet(u, MarkGateDegraded(u, "TimedOut"))
    BY <2>1, MarkGateDegradedEffect
  <2>5. Authority(MarkGateDegraded(u, "TimedOut"))
    BY <2>3, <2>4, QuietAuthority
  <2>6. Frame(s, MarkGateDegraded(u, "TimedOut"))
    BY <2>2, <2>4, FrameTransitive DEF PhaseOnly, Quiet, Held
  <2> QED
    BY <2>5, <2>6 DEF u
<1>2. Authority(Commit(s, TRUE)) /\ Frame(s, Commit(s, TRUE))
  BY CommitSafe
<1>3. s.barrier.req.timeoutAction \in TimeoutActions
  BY LifecycleOf, RequestsAssumption
<1> QED
  BY <1>1, <1>2, <1>3 DEF PrepareTimeout, TimeoutActions

\* A degraded start is neither preparing nor committed.
LEMMA DegradedPhase == "Degraded" \in LifecyclePhases \ {"Preparing", "Committed"}
  BY DEF LifecyclePhases

\* `StartedTimeout` keeps the pause authority and its membership facts.
LEMMA StartedTimeoutSafe ==
  ASSUME NEW s \in Runtimes, Authority(s), s.barrier.phase = "Committed"
  PROVE  Authority(StartedTimeout(s)) /\ Frame(s, StartedTimeout(s))
<1> DEFINE part == [c \in Clients |->
                      IF s.barrier.part[c] \in {"Pending", "Ready"}
                      THEN "StartedAckTimedOut" ELSE s.barrier.part[c]]
           t == EnterPhase(s, "Degraded", part)
<1>1. part \in [Clients -> ParticipantPhases]
  BY LifecycleOf DEF ParticipantPhases
<1> HIDE DEF part
<1>2. t \in Runtimes /\ PhaseOnly(s, t, "Degraded")
  BY <1>1, EnterPhaseType, EnterPhaseEffect, DegradedPhase
<1> HIDE DEF t
<1>3. Authority(ClearGate(t)) /\ Frame(s, ClearGate(t))
  BY <1>2, ClearedPhaseSafe, DegradedPhase
<1> QED
  BY <1>3 DEF StartedTimeout, t, part

\* `RetireAwaitingDecision` keeps the pause authority and its membership facts.
LEMMA RetireAwaitingDecisionSafe ==
  ASSUME NEW s \in Runtimes, Authority(s), NEW c \in Clients
  PROVE  LET t == RetireAwaitingDecision(s, c)
         IN /\ t \in Runtimes /\ Authority(t) /\ Frame(s, t) /\ t.paused = s.paused
            /\ t.readiness = s.readiness /\ t.barrier.gen = s.barrier.gen
            /\ t.barrier.phase = "Preparing" <=> s.barrier.phase = "Preparing"
            /\ t.pending = s.pending
<1>1. CASE RetireAwaitingDecision(s, c) = s
  BY <1>1, HeldReflexive DEF Held
<1>2. CASE /\ s.barrier.phase = "AwaitingDecision"
           /\ RetireAwaitingDecision(s, c) = [s EXCEPT !.barrier.phase = "Degraded"]
  <2> DEFINE t == [s EXCEPT !.barrier.phase = "Degraded"]
  <2>1. t \in Runtimes /\ PhaseOnly(s, t, "Degraded")
    BY <1>2, PhaseRuntime, PhaseEffect, DegradedPhase
  <2>2. t.readiness = s.readiness /\ t.pending = s.pending
    BY DEF Runtimes
  <2> HIDE DEF t
  <2>3. Authority(t)
    BY <2>1, PhaseOnlyAuthority
  <2> QED
    BY <1>2, <2>1, <2>2, <2>3 DEF PhaseOnly, t
<1> QED
  BY <1>1, <1>2 DEF RetireAwaitingDecision

\* `RetireCommitted` keeps the pause authority and its membership facts.
LEMMA RetireCommittedSafe ==
  ASSUME NEW s \in Runtimes, Authority(s)
  PROVE  LET t == RetireCommittedForUserPause(s)
         IN /\ t \in Runtimes /\ Authority(t) /\ Frame(s, t) /\ t.paused = s.paused
            /\ t.barrier.phase # "Committed" /\ t.barrier.gen = s.barrier.gen
            /\ t.barrier.phase = "Preparing" <=> s.barrier.phase = "Preparing"
<1>1. CASE s.barrier.phase # "Committed"
  BY <1>1, HeldReflexive DEF Held, RetireCommittedForUserPause
<1>2. CASE s.barrier.phase = "Committed"
  <2> DEFINE part == [c \in Clients |->
                        IF s.barrier.part[c] \in {"Absent", "Started"}
                        THEN s.barrier.part[c] ELSE "Degraded"]
             t == EnterPhase(s, "Degraded", part)
  <2>1. part \in [Clients -> ParticipantPhases]
    BY <1>2, LifecycleOf DEF ParticipantPhases
  <2> HIDE DEF part
  <2>2. t \in Runtimes /\ PhaseOnly(s, t, "Degraded")
    BY <1>2, <2>1, EnterPhaseType, EnterPhaseEffect, DegradedPhase
  <2> HIDE DEF t
  <2>3. /\ ClearGate(t) \in Runtimes /\ Authority(ClearGate(t)) /\ Frame(s, ClearGate(t))
        /\ ClearGate(t).barrier.phase = "Degraded" /\ ClearGate(t).paused = s.paused
        /\ ClearGate(t).barrier.gen = s.barrier.gen
    BY <2>2, ClearedPhaseSafe, DegradedPhase
  <2> QED
    BY <1>2, <2>3 DEF RetireCommittedForUserPause, t, part
<1> QED
  BY <1>1, <1>2

\* `RetireForSelection` keeps the pause authority and its membership facts.
LEMMA RetireForSelectionSafe ==
  ASSUME NEW s \in Runtimes, Authority(s)
  PROVE  LET t == RetireForSelection(s)
         IN /\ Authority(t) /\ Frame(s, t) /\ t.readiness.owner = s.readiness.owner
            /\ t.barrier.phase \in {"None", "Degraded"} /\ t.barrier.gen = s.barrier.gen
            /\ t.paused = s.paused
<1>1. CASE s.barrier.phase = "None"
  BY <1>1, HeldReflexive DEF Held, RetireForSelection
<1>2. CASE s.barrier.phase # "None"
  <2>1. PhaseOnly(s, RetireForSelection(s), "Degraded")
    BY <1>2, EnterPhaseEffect DEF RetireForSelection
  <2>2. Authority(RetireForSelection(s))
    BY <2>1, PhaseOnlyAuthority
  <2> QED
    BY <2>1, <2>2 DEF PhaseOnly
<1> QED
  BY <1>1, <1>2

\* `MarkParticipantDisconnected` keeps the pause authority and its membership facts.
LEMMA MarkParticipantDisconnectedSafe ==
  ASSUME NEW s \in Runtimes, Authority(s), NEW c \in Clients
  PROVE  LET t == MarkParticipantDisconnected(s, c)
         IN t \in Runtimes /\ Authority(t) /\ Frame(s, t)
<1> DEFINE marked == [s EXCEPT !.barrier.part[c] = "Disconnected"]
<1>1. CASE MarkParticipantDisconnected(s, c) = s
  BY <1>1, HeldReflexive DEF Held
<1>2. CASE Active(s.barrier) /\ MarkParticipantDisconnected(s, c) = MaybeCommit(marked)
  <2>1. marked \in Runtimes /\ Quiet(s, marked)
    BY <1>2, ParticipantRuntime, ParticipantEffect DEF Active, ParticipantPhases
  <2> HIDE DEF marked
  <2>2. Authority(marked) /\ Frame(s, marked)
    BY <2>1, QuietAuthority DEF Quiet, Held
  <2> QED
    BY <1>2, <2>1, <2>2, MaybeCommitSafe, FrameTransitive
<1> QED
  BY <1>1, <1>2 DEF MarkParticipantDisconnected

\* What `Rebind` leaves alone, and what it may do to the owner.
LEMMA RebindEffect ==
  ASSUME NEW s \in Runtimes, NEW c \in Clients
  PROVE  Quiet(s, Rebind(s, c))
<1>1. ASSUME NEW p, NEW n, NEW f
      PROVE  Quiet(s, [s EXCEPT !.barrier = [s.barrier EXCEPT
                                  !.part = p, !.initiator = c, !.initiatorSeq = n],
                                !.fenced = f])
  <2> DEFINE b == [s.barrier EXCEPT !.part = p, !.initiator = c, !.initiatorSeq = n]
  <2>1. b.phase = s.barrier.phase /\ b.gen = s.barrier.gen
    BY Components DEF Barriers, Lifecycles, NoBarrier
  <2> HIDE DEF b
  <2>2. Quiet(s, [s EXCEPT !.barrier = b, !.fenced = f])
    BY <2>1 DEF Runtimes, Quiet, Held, Frame, IsMember
  <2> QED
    BY <2>2 DEF b
<1> QED
  BY <1>1, QuietReflexive DEF Rebind

\* A new generation keeps every participant's role.
LEMMA ResetRecordRole ==
  ASSUME NEW record \in Records, NEW g
  PROVE  Recompute([record EXCEPT !.tech = FreshTechnical(g), !.blocked = FALSE,
                                  !.automatic = "None"], g).role = record.role
<1> DEFINE r == [record EXCEPT !.tech = FreshTechnical(g), !.blocked = FALSE,
                               !.automatic = "None"]
<1>1. r.role = record.role /\ DOMAIN r = DOMAIN record
  BY DEF Records
<1>2. "role" \in DOMAIN record
  BY DEF Records
<1> HIDE DEF r
<1>3. Recompute(r, g).role = r.role
  BY <1>1, <1>2 DEF Recompute
<1> QED
  BY <1>1, <1>3 DEF r

\* What `ReplaceReadinessGeneration` leaves alone, and what it may do to the owner.
LEMMA ReplaceReadinessGenerationEffect ==
  ASSUME NEW s \in Runtimes, NEW g \in Nat, NEW owns \in BOOLEAN
  PROVE  LET t == ReplaceReadinessGeneration(s, g, owns)
         IN /\ Held(s, t)
            /\ s.readiness.live =>
                 t.readiness.owner = NextPauseOwner(s.readiness.owner, g, owns)
            /\ ~s.readiness.live => t.readiness.owner = s.readiness.owner
<1> DEFINE advanced == RetirePendingTransport(s)
           reset(record) == Recompute([record EXCEPT !.tech = FreshTechnical(g),
                                         !.blocked = FALSE, !.automatic = "None"], g)
           part == [c \in Clients |->
                      IF s.readiness.part[c].role = "Absent"
                      THEN s.readiness.part[c] ELSE reset(s.readiness.part[c])]
           owner == NextPauseOwner(s.readiness.owner, g, owns)
           gate == IF g = 0 THEN InactiveGate ELSE s.readiness.gate
           r == [s.readiness EXCEPT !.gen = g, !.owner = owner, !.gate = gate, !.part = part]
           u == [advanced EXCEPT !.readiness = r]
<1>1. advanced \in Runtimes /\ Quiet(s, advanced)
  BY RetirePendingTransportType, RetirePendingEffect
<1>2. s.readiness \in Readinesses /\ s.readiness.owner \in Owners
      /\ s.readiness.gate \in Gates /\ s.readiness.part \in [Clients -> Records]
  BY Components, ReadinessComponents
<1>3. \A c \in Clients : /\ reset(s.readiness.part[c]) \in Records
                         /\ reset(s.readiness.part[c]).role = s.readiness.part[c].role
  BY <1>2, ResetRecordType, ResetRecordRole
<1> HIDE DEF reset
<1>4. part \in [Clients -> Records] /\ \A c \in Clients : part[c].role = s.readiness.part[c].role
  BY <1>2, <1>3
<1>5. owner \in Owners /\ gate \in Gates
  BY <1>2, OwnerTypes, SimpleTypes DEF NextPauseOwner
<1> HIDE DEF owner, gate, part, advanced
<1>6. r \in Readinesses
  BY <1>2, <1>4, <1>5, GenerationUpdate
<1>7. r.live = s.readiness.live /\ r.owner = owner /\ r.part = part
  BY <1>2 DEF Readinesses
<1> HIDE DEF r
<1>8. u \in Runtimes
  BY <1>1, <1>6, ReadinessUpdate
<1>9. /\ u.readiness = r /\ u.place = advanced.place /\ u.paused = advanced.paused
      /\ u.barrier = advanced.barrier
  BY <1>1 DEF Runtimes
<1> HIDE DEF u
<1>10. Held(s, u) /\ u.readiness.owner = owner
  BY <1>1, <1>4, <1>7, <1>9 DEF Quiet, Held, Frame, IsMember
<1>11. Quiet(u, RefreshGate(u))
  BY <1>8, RefreshGateEffect
<1>12. Held(s, RefreshGate(u)) /\ RefreshGate(u).readiness.owner = owner
  BY <1>10, <1>11 DEF Quiet, Held, Frame
<1>13. CASE s.readiness.live
  <2>1. ReplaceReadinessGeneration(s, g, owns) = RefreshGate(u)
    BY <1>13 DEF ReplaceReadinessGeneration, u, r, owner, gate, part, advanced, reset
  <2> QED
    BY <1>12, <1>13, <2>1 DEF owner
<1>14. CASE ~s.readiness.live
  <2>1. ReplaceReadinessGeneration(s, g, owns) = advanced
    BY <1>14 DEF ReplaceReadinessGeneration, advanced
  <2> QED
    BY <1>1, <1>14, <2>1 DEF Quiet
<1> QED
  BY <1>13, <1>14

\* `OpenGeneration` keeps the pause authority and its membership facts.
LEMMA OpenGenerationSafe ==
  ASSUME NEW s \in Runtimes, Authority(s), NEW c \in Clients, NEW q \in Requests
  PROVE  Authority(OpenGeneration(s, c, q)) /\ Frame(s, OpenGeneration(s, c, q))
<1> DEFINE cohort == CaptureCohort(s)
           part == [d \in Clients |-> IF d \in cohort THEN "Pending" ELSE "Absent"]
           excluded == ClientsInRoom(s) \ (s.fenced \cup cohort)
           g == s.nextGen + 1
           lifecycle ==
             [phase |-> "Preparing", gen |-> g, req |-> q,
              initiator |-> c, initiatorSeq |-> s.seq[c], part |-> part,
              excluded |-> excluded, rev |-> 0, gated |-> FALSE]
           tombstones == s.tombstones \cup Displaced(s, q)
           opened == [s EXCEPT !.nextGen = g, !.tombstones = tombstones,
                               !.paused = TRUE, !.barrier = lifecycle]
           t == ReplaceReadinessGeneration(opened, g, TRUE)
<1>1. g \in Nat /\ g # 0 /\ s.seq[c] \in Nat /\ s.tombstones \subseteq Nat
  BY Components
<1>2. excluded \subseteq Clients
  BY DEF ClientsInRoom
<1>3. tombstones \subseteq Nat
  <2>1. s.barrier.phase # "None" => s.barrier.req.id \in Nat
    BY LifecycleOf, RequestsAssumption
  <2> QED
    BY <1>1, <2>1 DEF Displaced
<1> HIDE DEF excluded, tombstones, cohort, g
<1>4. part \in [Clients -> ParticipantPhases]
  BY DEF ParticipantPhases
<1> HIDE DEF part
<1>5. lifecycle \in Barriers /\ lifecycle.phase = "Preparing" /\ lifecycle.gen = g
  BY <1>1, <1>2, <1>4 DEF Barriers, Lifecycles, LifecyclePhases
<1> HIDE DEF lifecycle
<1>6. /\ opened \in Runtimes /\ opened.barrier = lifecycle /\ opened.paused
      /\ opened.readiness = s.readiness /\ opened.place = s.place
  BY <1>1, <1>3, <1>5 DEF Runtimes
<1> HIDE DEF opened
<1>7. /\ Held(opened, t)
      /\ opened.readiness.live =>
           t.readiness.owner = NextPauseOwner(opened.readiness.owner, g, TRUE)
      /\ ~opened.readiness.live => t.readiness.owner = opened.readiness.owner
  BY <1>1, <1>6, ReplaceReadinessGenerationEffect
<1> HIDE DEF t
<1>8. t.paused /\ t.barrier.phase = "Preparing" /\ t.barrier.gen = g
  BY <1>5, <1>6, <1>7 DEF Held
<1>9. Frame(s, t)
  BY <1>6, <1>7 DEF Held, Frame, IsMember
<1>10. ~t.readiness.live => t.readiness.owner.kind = "None"
  BY <1>6, <1>7, <1>9 DEF Authority, Frame
<1>11. t.readiness.owner.kind = "ReadinessStartGate" => t.readiness.owner.gen = g
  <2>1. CASE s.readiness.live
    <3>1. t.readiness.owner = IF s.readiness.owner.kind # "User"
                              THEN GateOwner(g) ELSE s.readiness.owner
      BY <1>1, <1>6, <1>7, <2>1 DEF NextPauseOwner
    <3>2. GateOwner(g).gen = g
      BY DEF GateOwner
    <3> QED
      BY <3>1, <3>2
  <2>2. CASE ~s.readiness.live
    BY <1>9, <1>10, <2>2 DEF Frame
  <2> QED
    BY <2>1, <2>2
<1>12. Authority(t)
  BY <1>8, <1>10, <1>11 DEF Authority
<1> QED
  BY <1>9, <1>12 DEF OpenGeneration, t, opened, lifecycle, part, excluded, tombstones, cohort, g

\* Remembering a nonce changes nothing that the authority mentions.
LEMMA NonceEffect ==
  ASSUME NEW s \in Runtimes, NEW c \in Clients, NEW n
  PROVE  Quiet(s, [s EXCEPT !.nonce[c] = n])
  BY DEF Runtimes, Quiet, Held, Frame, IsMember

\* `StartPlaybackBarrier` keeps the pause authority and its membership facts.
LEMMA StartPlaybackBarrierSafe ==
  ASSUME NEW s \in Runtimes, Authority(s), NEW c \in Clients, NEW q \in Requests
  PROVE  LET t == StartPlaybackBarrier(s, c, q)
         IN Authority(t) /\ Frame(s, t)
<1> DEFINE repeated == [s EXCEPT !.nonce[c] = Larger(s.nonce[c], q.nonce)]
           consumed == [s EXCEPT !.nonce[c] = q.nonce]
<1>1. q.nonce \in Nat /\ Larger(s.nonce[c], q.nonce) \in Nat
  BY RequestsAssumption, Components DEF Larger
<1>2. repeated \in Runtimes /\ consumed \in Runtimes /\ Quiet(s, repeated) /\ Quiet(s, consumed)
  BY <1>1, NonceUpdate, NonceEffect
<1>3. Authority(s) /\ Frame(s, s)
  BY HeldReflexive DEF Held
<1>4. Authority(Rebind(repeated, c)) /\ Frame(s, Rebind(repeated, c))
  <2> HIDE DEF repeated
  <2>1. Quiet(s, Rebind(repeated, c))
    BY <1>2, RebindEffect, QuietTransitive
  <2> QED
    BY <2>1, QuietAuthority DEF Quiet, Held
<1>5. Authority(consumed) /\ Frame(s, consumed)
  BY <1>2, QuietAuthority DEF Quiet, Held
<1>6. Authority(OpenGeneration(consumed, c, q)) /\ Frame(s, OpenGeneration(consumed, c, q))
  <2> HIDE DEF consumed
  <2> QED
    BY <1>2, <1>5, OpenGenerationSafe, FrameTransitive
<1> QED
  BY <1>3, <1>4, <1>5, <1>6 DEF StartPlaybackBarrier

\* `RecoverPlaybackBarrier` keeps the pause authority and its membership facts.
LEMMA RecoverPlaybackBarrierSafe ==
  ASSUME NEW s \in Runtimes, Authority(s), NEW c \in Clients, NEW q \in Requests
  PROVE  LET t == RecoverPlaybackBarrier(s, c, q)
         IN Authority(t) /\ Frame(s, t)
<1>1. Quiet(s, RecoverPlaybackBarrier(s, c, q))
  BY RebindEffect, QuietReflexive DEF RecoverPlaybackBarrier
<1> QED
  BY <1>1, QuietAuthority DEF Quiet, Held

-----------------------------------------------------------------------------
(* Membership.                                                             *)

\* What `ReconcileCohort` leaves alone, and what it may do to the owner.
LEMMA ReconcileCohortEffect ==
  ASSUME NEW s \in Runtimes
  PROVE  Quiet(s, ReconcileCohort(s))
<1> DEFINE role(c) == IF c \in (ClientsInRoom(s) \cap StartCapable(s)) \ s.fenced
                      THEN "Required" ELSE "ExcludedUnsupported"
           record(c) == s.readiness.part[c]
           part == [c \in Clients |->
                      IF record(c).role \in {"Absent", role(c)}
                      THEN record(c)
                      ELSE Recompute([record(c) EXCEPT !.role = role(c)], s.readiness.gen)]
           required == {c \in Clients : part[c].role = "Required"}
           phase(c) == IF c \notin required THEN "Absent"
                       ELSE IF s.barrier.part[c] = "Absent" THEN "Pending"
                       ELSE s.barrier.part[c]
           phases == [c \in Clients |-> phase(c)]
           excluded == ClientsInRoom(s) \ (required \cup s.fenced)
           barrier == IF s.barrier.phase # "Preparing" THEN s.barrier
                      ELSE [s.barrier EXCEPT !.part = phases, !.excluded = excluded]
<1>1. \A c \in Clients : role(c) # "Absent"
  OBVIOUS
<1> HIDE DEF role
<1>2. \A c \in Clients : (part[c].role = "Absent") <=> (s.readiness.part[c].role = "Absent")
  <2> TAKE c \in Clients
  <2> DEFINE r == Recompute([record(c) EXCEPT !.role = role(c)], s.readiness.gen)
  <2>1. r.role = role(c)
    <3>1. /\ [record(c) EXCEPT !.role = role(c)].role = role(c)
          /\ "role" \in DOMAIN [record(c) EXCEPT !.role = role(c)]
      BY RecordOf DEF Records
    <3> QED
      BY <3>1 DEF Recompute
  <2>2. part[c] = IF record(c).role \in {"Absent", role(c)} THEN record(c) ELSE r
    OBVIOUS
  <2> HIDE DEF part, r
  <2> QED
    BY <1>1, <2>1, <2>2
<1> HIDE DEF part, phases, excluded
<1>3. barrier.phase = s.barrier.phase /\ barrier.gen = s.barrier.gen
  BY Components DEF Barriers, Lifecycles, NoBarrier
<1> HIDE DEF barrier
<1>4. Quiet(s, [s EXCEPT !.readiness.part = part, !.barrier = barrier])
  BY <1>2, <1>3 DEF Runtimes, Readinesses, Quiet, Held, Frame, IsMember
<1> QED
  BY <1>4, QuietReflexive DEF ReconcileCohort, barrier, phases, excluded, part, role

\* `RefreshMixedCohort` keeps the pause authority and its membership facts.
LEMMA RefreshMixedCohortSafe ==
  ASSUME NEW s \in Runtimes, Authority(s)
  PROVE  LET t == RefreshMixedCohort(s)
         IN t \in Runtimes /\ Authority(t) /\ Frame(s, t)
<1> DEFINE u == ReconcileCohort(s)
<1>1. u \in Runtimes /\ Quiet(s, u)
  BY ReconcileCohortType, ReconcileCohortEffect
<1> HIDE DEF u
<1>2. Authority(u) /\ Frame(s, u)
  BY <1>1, QuietAuthority DEF Quiet, Held
<1>3. LET t == MaybeCommit(RefreshGate(u)) IN t \in Runtimes /\ Authority(t) /\ Frame(s, t)
  BY <1>1, <1>2, EvaluateSafe, FrameTransitive
<1> QED
  BY <1>3, HeldReflexive DEF RefreshMixedCohort, u, Held

\* A joining member is present in the coordinator.
LEMMA JoiningRecordRole ==
  ASSUME NEW s, NEW c, NEW kept, NEW seedReady
  PROVE  JoiningRecord(s, c, kept, seedReady).role # "Absent"
  BY DEF JoiningRecord, Recompute

\* A gate claims the pause of a start that is being prepared.
LEMMA GateClaimSafe ==
  ASSUME NEW s \in Runtimes, Authority(s), s.barrier.phase = "Preparing"
  PROVE  LET t == SetPauseOwner(s, GateOwner(s.barrier.gen))
         IN t \in Runtimes /\ Authority(t) /\ Frame(s, t)
<1> DEFINE o == GateOwner(s.barrier.gen)
           t == SetPauseOwner(s, o)
<1>1. o \in Owners /\ o.kind = "ReadinessStartGate" /\ o.gen = s.barrier.gen
  BY Components, BarrierComponents, OwnerTypes DEF GateOwner
<1> HIDE DEF o
<1>2. /\ t \in Runtimes /\ Held(s, t)
      /\ s.readiness.live => t.readiness.owner = o
      /\ ~s.readiness.live => t = s
  BY <1>1, SetPauseOwnerType, SetPauseOwnerEffect
<1> HIDE DEF t
<1>3. Authority(t)
  BY <1>1, <1>2 DEF Authority, Held, Frame
<1> QED
  BY <1>2, <1>3 DEF Held, t, o

\* `Attach` keeps the pause authority and its membership facts.
LEMMA AttachSafe ==
  ASSUME NEW s \in Runtimes, Authority(s), Present(s), NEW c \in Clients, s.place[c] = "Room",
         NEW token \in Clients \cup {NoClient}, NEW seedReady \in BOOLEAN
  PROVE  Sound(Attach(s, c, token, seedReady))
<1> DEFINE kept == IF token = NoClient THEN NoDetached ELSE s.detached[token]
           detached == IF kept.kept THEN [s.detached EXCEPT ![token] = NoDetached]
                       ELSE s.detached
           owner == IF kept.kept /\ s.readiness.owner = UserOwner(token)
                    THEN UserOwner(c) ELSE s.readiness.owner
           record == JoiningRecord(s, c, kept, seedReady)
           g == CurrentGeneration(s)
           readiness == [s.readiness EXCEPT !.live = TRUE, !.gen = g, !.owner = owner,
                                            !.part[c] = record]
           joined == [s EXCEPT !.pending[c] = NoPending, !.detached = detached,
                               !.readiness = readiness]
           cohort == ReconcileCohort(joined)
           owned == IF s.barrier.phase = "Preparing" /\ cohort.readiness.owner.kind # "User"
                    THEN SetPauseOwner(cohort, GateOwner(s.barrier.gen))
                    ELSE cohort
<1>1. kept \in Detacheds /\ detached \in [Clients -> Detacheds]
  BY Components, SimpleTypes
<1>2. owner \in Owners /\ owner.kind = s.readiness.owner.kind
      /\ (owner.kind # "User" => owner = s.readiness.owner)
  BY Components, ReadinessComponents, OwnerTypes DEF UserOwner
<1> HIDE DEF kept
<1>3. record \in Records /\ g \in Nat /\ record.role # "Absent"
  BY <1>1, JoiningRecordType, JoiningRecordRole, CurrentGenerationType
<1> HIDE DEF detached, owner, record, g
<1>4. /\ readiness \in Readinesses /\ readiness.live /\ readiness.owner = owner
      /\ \A d \in Clients : readiness.part[d] = IF d = c THEN record ELSE s.readiness.part[d]
  BY <1>2, <1>3, Components DEF Readinesses
<1> HIDE DEF readiness
<1>5. /\ joined \in Runtimes /\ joined.readiness = readiness /\ joined.barrier = s.barrier
      /\ joined.paused = s.paused /\ joined.place = s.place
  BY <1>1, <1>4, SimpleTypes DEF Runtimes
<1> HIDE DEF joined
<1>6. Authority(joined)
  BY <1>2, <1>4, <1>5 DEF Authority
<1>7. Present(joined) /\ Populated(joined)
  BY <1>3, <1>4, <1>5 DEF Present, Populated, IsMember
<1>8. cohort \in Runtimes /\ Quiet(joined, cohort)
  BY <1>5, ReconcileCohortType, ReconcileCohortEffect
<1> HIDE DEF cohort
<1>9. Authority(cohort) /\ Frame(joined, cohort)
  BY <1>6, <1>8, QuietAuthority DEF Quiet, Held
<1>10. cohort.barrier.gen = s.barrier.gen /\ cohort.barrier.phase = s.barrier.phase
  BY <1>5, <1>8 DEF Quiet, Held
<1>11. owned \in Runtimes /\ Authority(owned) /\ Frame(cohort, owned)
  BY <1>8, <1>9, <1>10, GateClaimSafe, HeldReflexive DEF Held
<1> HIDE DEF owned
<1>12. LET t == MaybeCommit(RefreshGate(owned))
       IN t \in Runtimes /\ Authority(t) /\ Frame(joined, t)
  BY <1>9, <1>11, EvaluateSafe, FrameTransitive
<1>13. Sound(MaybeCommit(RefreshGate(owned)))
  BY <1>7, <1>12, FrameMembers DEF Sound
<1> QED
  BY <1>13 DEF Attach, owned, cohort, joined, readiness, g, record, owner, detached, kept

\* Staging evidence changes nothing that the authority mentions.
LEMMA PendingEffect ==
  ASSUME NEW s \in Runtimes, NEW c \in Clients, NEW p
  PROVE  Quiet(s, [s EXCEPT !.pending[c] = p])
  BY DEF Runtimes, Quiet, Held, Frame, IsMember

\* A quiet change between typed runtimes keeps the invariant.
LEMMA QuietSound ==
  ASSUME NEW s, NEW t \in Runtimes, Quiet(s, t), Sound(s)
  PROVE  Sound(t)
  BY QuietAuthority, FrameMembers DEF Sound, Quiet, Held

\* A framed change that keeps types and authority keeps the invariant.
LEMMA FrameSound ==
  ASSUME NEW s, NEW t \in Runtimes, Frame(s, t), Authority(t), Sound(s)
  PROVE  Sound(t)
  BY FrameMembers DEF Sound

\* `Detach` keeps the pause authority and its membership facts.
LEMMA DetachSafe ==
  ASSUME NEW s, Sound(s), NEW c \in Clients, NEW retain \in BOOLEAN
  PROVE  LET t == Detach(s, c, retain)
         IN Sound(t) /\ ~IsMember(t, c) /\ t.place = s.place
<1> DEFINE record == s.readiness.part[c]
           detached == IF retain
                       THEN [kept |-> TRUE, intentReady |-> record.intentReady,
                             touched |-> record.touched]
                       ELSE s.detached[c]
           unstaged == [s EXCEPT !.pending[c] = NoPending]
           removed == [s EXCEPT !.pending[c] = NoPending, !.readiness.part[c] = NoRecord,
                                !.detached[c] = detached]
           evaluated == MaybeCommit(RefreshGate(removed))
           cleared == ClearGate(evaluated)
           dissolved == [cleared EXCEPT !.readiness = NoReadiness]
<1> s \in Runtimes
  BY DEF Sound
<1>1. CASE record.role = "Absent"
  <2>1. Detach(s, c, retain) = unstaged
    BY <1>1 DEF Detach
  <2>2. unstaged \in Runtimes /\ Quiet(s, unstaged)
    BY PendingUpdate, SimpleTypes, PendingEffect
  <2> HIDE DEF unstaged
  <2>3. Sound(unstaged) /\ ~IsMember(unstaged, c) /\ unstaged.place = s.place
    BY <1>1, <2>2, QuietSound DEF Quiet, Held, Frame, IsMember
  <2> QED
    BY <2>1, <2>3
<1>2. CASE record.role # "Absent"
  <2>1. detached \in Detacheds
    <3>1. s.detached[c] \in Detacheds
      BY Components
    <3>2. record.intentReady \in BOOLEAN /\ record.touched \in BOOLEAN
      BY RecordOf DEF Records
    <3> QED
      BY <3>1, <3>2 DEF Detacheds
  <2> HIDE DEF detached
  <2>2. /\ removed \in Runtimes /\ removed.barrier = s.barrier /\ removed.paused = s.paused
        /\ removed.place = s.place /\ removed.readiness.live = s.readiness.live
        /\ removed.readiness.owner = s.readiness.owner
        /\ \A d \in Clients : removed.readiness.part[d] =
                               IF d = c THEN NoRecord ELSE s.readiness.part[d]
    BY <2>1, NoRecordType, SimpleTypes DEF Runtimes, Readinesses
  <2> HIDE DEF removed
  <2>3. Authority(removed)
    BY <2>2 DEF Authority, Sound
  <2>4. NoRecord.role = "Absent"
    BY DEF NoRecord
  <2>5. Present(removed) /\ ~IsMember(removed, c)
    BY <2>2, <2>4 DEF Present, IsMember, Sound
  <2>6. evaluated \in Runtimes /\ Authority(evaluated) /\ Frame(removed, evaluated)
    BY <2>2, <2>3, EvaluateSafe
  <2> HIDE DEF evaluated
  <2>7. Present(evaluated) /\ ~IsMember(evaluated, c) /\ evaluated.place = s.place
    BY <2>2, <2>5, <2>6, FrameMembers DEF Frame
  <2>8. CASE ReadinessMembers(evaluated) # {}
    <3>1. Detach(s, c, retain) = evaluated
      BY <1>2, <2>8 DEF Detach, evaluated, removed, detached
    <3>2. Populated(evaluated)
      BY <2>8 DEF Populated, ReadinessMembers, IsMember
    <3> QED
      BY <2>6, <2>7, <3>1, <3>2 DEF Sound
  <2>9. CASE ReadinessMembers(evaluated) = {}
    <3>1. Detach(s, c, retain) = dissolved
      BY <1>2, <2>9 DEF Detach, evaluated, removed, detached
    <3>2. cleared \in Runtimes /\ Held(evaluated, cleared)
      BY <2>6, ClearGateType, ClearGateEffect
    <3> HIDE DEF cleared
    <3>3. /\ dissolved \in Runtimes /\ dissolved.readiness = NoReadiness
          /\ dissolved.barrier = cleared.barrier /\ dissolved.paused = cleared.paused
          /\ dissolved.place = cleared.place
      BY <3>2, NoReadinessType DEF Runtimes
    <3>4. /\ NoReadiness.owner.kind = "None" /\ ~NoReadiness.live
          /\ \A d \in Clients : NoReadiness.part[d].role = "Absent"
      BY <2>4 DEF NoReadiness, NoOwner
    <3> HIDE DEF dissolved
    <3>5. Authority(dissolved)
      BY <2>6, <3>2, <3>3, <3>4 DEF Authority, Held
    <3>6. Present(dissolved) /\ Populated(dissolved) /\ ~IsMember(dissolved, c)
      BY <3>3, <3>4 DEF Present, Populated, IsMember
    <3>7. dissolved.place = s.place
      BY <2>7, <3>2, <3>3 DEF Held, Frame
    <3> QED
      BY <3>1, <3>3, <3>5, <3>6, <3>7 DEF Sound
  <2> QED
    BY <2>8, <2>9
<1> QED
  BY <1>1, <1>2

-----------------------------------------------------------------------------
(* Transport commands and user intent.                                     *)

\* Everything but the pause itself: what a handler establishes before it pauses.
Consistent(s) ==
  /\ s.readiness.owner.kind = "User" => s.barrier.phase # "Committed"
  /\ s.readiness.owner.kind = "ReadinessStartGate" =>
       s.readiness.owner.gen = s.barrier.gen
  /\ ~s.readiness.live => s.readiness.owner.kind = "None"

\* The authority without the demand that the room is paused, which a pause restores.
LEMMA AuthorityIsConsistent ==
  ASSUME NEW s
  PROVE  /\ Authority(s) => Consistent(s)
         /\ Consistent(s) /\ s.paused => Authority(s)
  BY DEF Authority, Consistent

\* `ClaimUserPause` keeps the pause authority and its membership facts.
LEMMA ClaimUserPauseSafe ==
  ASSUME NEW s \in Runtimes, Authority(s), NEW c \in Clients
  PROVE  LET t == ClaimUserPause(s, c)
         IN /\ t \in Runtimes /\ Consistent(t) /\ Frame(s, t) /\ t.paused = s.paused
            /\ s.paused => Authority(t)
<1> DEFINE u == RetireCommittedForUserPause(s)
           v == SetPauseOwner(u, UserOwner(c))
           t == RefreshGate(v)
<1>1. /\ u \in Runtimes /\ Authority(u) /\ Frame(s, u) /\ u.paused = s.paused
      /\ u.barrier.phase # "Committed"
  BY RetireCommittedSafe
<1> HIDE DEF u
<1>2. UserOwner(c) \in Owners /\ UserOwner(c).kind = "User"
  BY OwnerTypes DEF UserOwner
<1>3. /\ v \in Runtimes /\ Held(u, v)
      /\ u.readiness.live => v.readiness.owner = UserOwner(c)
      /\ ~u.readiness.live => v = u
  BY <1>1, <1>2, SetPauseOwnerType, SetPauseOwnerEffect
<1> HIDE DEF v
<1>4. Consistent(v)
  BY <1>1, <1>2, <1>3 DEF Consistent, Authority, Held, Frame
<1>5. t \in Runtimes /\ Quiet(v, t)
  BY <1>3, RefreshGateType, RefreshGateEffect
<1> HIDE DEF t
<1>6. Consistent(t) /\ t.paused = s.paused
  BY <1>1, <1>3, <1>4, <1>5 DEF Consistent, Quiet, Held, Frame
<1>7. Frame(s, t)
  BY <1>1, <1>3, <1>5, FrameTransitive DEF Quiet, Held
<1> QED
  BY <1>5, <1>6, <1>7, AuthorityIsConsistent DEF ClaimUserPause, t, v, u

\* Writing the pause bit changes nothing else that the authority mentions.
LEMMA PausedEffect ==
  ASSUME NEW s \in Runtimes, NEW p
  PROVE  LET t == [s EXCEPT !.paused = p]
         IN /\ t.paused = p /\ t.readiness = s.readiness /\ t.barrier = s.barrier
            /\ t.place = s.place
  BY DEF Runtimes

\* A transport command: pausing needs consistency, resuming a room with no prepared start.
LEMMA PauseSafe ==
  ASSUME NEW s \in Runtimes, Consistent(s)
  PROVE  LET t == RetirePendingTransport([s EXCEPT !.paused = TRUE])
         IN t \in Runtimes /\ Authority(t) /\ Frame(s, t)
<1> DEFINE u == [s EXCEPT !.paused = TRUE]
<1>1. u \in Runtimes
  BY PausedUpdate
<1>2. u.paused /\ u.readiness = s.readiness /\ u.barrier = s.barrier /\ u.place = s.place
  BY PausedEffect
<1> HIDE DEF u
<1>3. Authority(u) /\ Frame(s, u)
  BY <1>2 DEF Authority, Consistent, Frame, IsMember
<1>4. RetirePendingTransport(u) \in Runtimes /\ Quiet(u, RetirePendingTransport(u))
  BY <1>1, RetirePendingTransportType, RetirePendingEffect
<1>5. Authority(RetirePendingTransport(u)) /\ Frame(s, RetirePendingTransport(u))
  BY <1>3, <1>4, QuietAuthority, FrameTransitive DEF Quiet, Held
<1> QED
  BY <1>4, <1>5 DEF u

\* Releasing the pause is safe once nobody owns it and no start is prepared.
LEMMA ResumeSafe ==
  ASSUME NEW s \in Runtimes, s.readiness.owner.kind = "None", s.barrier.phase # "Preparing"
  PROVE  LET t == RetirePendingTransport([s EXCEPT !.paused = FALSE])
         IN t \in Runtimes /\ Authority(t) /\ Frame(s, t)
<1> DEFINE u == [s EXCEPT !.paused = FALSE]
<1>1. u \in Runtimes
  BY PausedUpdate
<1>2. u.readiness = s.readiness /\ u.barrier = s.barrier /\ u.place = s.place
  BY PausedEffect
<1> HIDE DEF u
<1>3. Authority(u) /\ Frame(s, u)
  BY <1>2 DEF Authority, Frame, IsMember
<1>4. RetirePendingTransport(u) \in Runtimes /\ Quiet(u, RetirePendingTransport(u))
  BY <1>1, RetirePendingTransportType, RetirePendingEffect
<1>5. Authority(RetirePendingTransport(u)) /\ Frame(s, RetirePendingTransport(u))
  BY <1>3, <1>4, QuietAuthority, FrameTransitive DEF Quiet, Held
<1> QED
  BY <1>4, <1>5 DEF u

\* Releasing the pause owner alone is always safe.
LEMMA ReleaseSafe ==
  ASSUME NEW s \in Runtimes, Authority(s)
  PROVE  LET t == SetPauseOwner(s, NoOwner)
         IN /\ t \in Runtimes /\ Authority(t) /\ Frame(s, t) /\ t.readiness.owner.kind = "None"
            /\ t.barrier.phase = s.barrier.phase /\ t.paused = s.paused
<1> DEFINE t == SetPauseOwner(s, NoOwner)
<1>1. /\ t \in Runtimes /\ Held(s, t)
      /\ s.readiness.live => t.readiness.owner = NoOwner
      /\ ~s.readiness.live => t = s
  BY OwnerTypes, SetPauseOwnerType, SetPauseOwnerEffect
<1> HIDE DEF t
<1>2. t.readiness.owner.kind = "None"
  BY <1>1, NoOwnerKind DEF Authority
<1>3. Authority(t)
  BY <1>1, <1>2 DEF Authority, Held
<1> QED
  BY <1>1, <1>2, <1>3 DEF Held, t

\* `ApplyStaged` keeps the pause authority and its membership facts.
LEMMA ApplyStagedSafe ==
  ASSUME NEW s \in Runtimes, Authority(s), NEW c \in Clients, NEW p \in BOOLEAN,
         ~p => s.barrier.phase # "Preparing"
  PROVE  LET t == ApplyStaged(s, c, p)
         IN t \in Runtimes /\ Authority(t) /\ Frame(s, t)
<1> DEFINE decided == RetireAwaitingDecision(s, c)
<1>1. /\ decided \in Runtimes /\ Authority(decided) /\ Frame(s, decided)
      /\ decided.paused = s.paused
      /\ (decided.barrier.phase = "Preparing") <=> (s.barrier.phase = "Preparing")
  BY RetireAwaitingDecisionSafe
<1> HIDE DEF decided
<1>2. CASE p = TRUE
  <2> DEFINE owned == ClaimUserPause(decided, c)
  <2>1. /\ owned \in Runtimes /\ Consistent(owned) /\ Frame(s, owned)
        /\ s.paused => Authority(owned)
    BY <1>1, ClaimUserPauseSafe, FrameTransitive
  <2> HIDE DEF owned
  <2>2. LET t == RetirePendingTransport([owned EXCEPT !.paused = TRUE])
        IN t \in Runtimes /\ Authority(t) /\ Frame(s, t)
    BY <2>1, PauseSafe, FrameTransitive
  <2>3. ApplyStaged(s, c, p) =
          IF s.paused = TRUE THEN owned
          ELSE RetirePendingTransport([owned EXCEPT !.paused = TRUE])
    BY <1>2 DEF ApplyStaged, owned, decided
  <2> QED
    BY <2>1, <2>2, <2>3
<1>3. CASE p = FALSE
  <2> DEFINE owned == SetPauseOwner(decided, NoOwner)
  <2>1. /\ owned \in Runtimes /\ Authority(owned) /\ Frame(s, owned)
        /\ owned.readiness.owner.kind = "None" /\ owned.barrier.phase # "Preparing"
    BY <1>1, <1>3, ReleaseSafe, FrameTransitive
  <2> HIDE DEF owned
  <2>2. LET t == RetirePendingTransport([owned EXCEPT !.paused = FALSE])
        IN t \in Runtimes /\ Authority(t) /\ Frame(s, t)
    BY <2>1, ResumeSafe, FrameTransitive
  <2>3. ApplyStaged(s, c, p) =
          IF s.paused = FALSE THEN owned
          ELSE RetirePendingTransport([owned EXCEPT !.paused = FALSE])
    BY <1>3 DEF ApplyStaged, owned, decided
  <2> QED
    BY <2>1, <2>2, <2>3
<1> QED
  BY <1>2, <1>3

\* Replacing a record that keeps its role changes nothing that the authority mentions.
LEMMA RecordEffect ==
  ASSUME NEW s \in Runtimes, NEW c \in Clients, NEW record,
         record.role = s.readiness.part[c].role
  PROVE  Quiet(s, [s EXCEPT !.readiness.part[c] = record])
  BY DEF Runtimes, Readinesses, Quiet, Held, Frame, IsMember

\* Recomputing the verdicts keeps the role.
LEMMA RecomputeRole ==
  ASSUME NEW record \in Records, NEW g
  PROVE  Recompute(record, g).role = record.role
<1>1. "role" \in DOMAIN record
  BY DEF Records
<1> QED
  BY <1>1 DEF Recompute

\* What `MutateIntent` leaves alone, and what it may do to the owner.
LEMMA MutateIntentEffect ==
  ASSUME NEW s \in Runtimes, NEW c \in Clients, NEW ready \in BOOLEAN
  PROVE  Quiet(s, MutateIntent(s, c, ready))
<1> DEFINE x == [s.readiness.part[c] EXCEPT !.intentReady = ready, !.touched = TRUE]
           r == Recompute(x, s.readiness.gen)
<1>1. x \in Records /\ x.role = s.readiness.part[c].role
  BY RecordOf DEF Records
<1> HIDE DEF x
<1>2. r.role = s.readiness.part[c].role
  BY <1>1, RecomputeRole
<1> HIDE DEF r
<1>3. Quiet(s, [s EXCEPT !.readiness.part[c] = r])
  BY <1>2, RecordEffect
<1> QED
  BY <1>3 DEF MutateIntent, r, x

\* `IndirectTransport` keeps the pause authority and its membership facts.
LEMMA IndirectTransportSafe ==
  ASSUME NEW s \in Runtimes, Authority(s), NEW c \in Clients, NEW p \in BOOLEAN,
         NEW staged \in BOOLEAN
  PROVE  LET t == IndirectTransport(s, c, p, staged)
         IN /\ t \in Runtimes /\ Authority(t) /\ Frame(s, t)
            /\ ~p /\ s.barrier.phase = "Preparing" => t = s
<1> DEFINE holds == ~p /\ s.barrier.phase = "Preparing"
           decided == RetireAwaitingDecision(s, c)
           awaited == [s EXCEPT !.pending[c] = [paused |-> p, evidence |-> "Accepted"]]
           t == IndirectTransport(s, c, p, staged)
<1>1. t \in Runtimes
  BY IndirectTransportType
<1>2. CASE holds
  <2>1. s.paused /\ p = FALSE
    BY <1>2 DEF Authority
  <2>2. t = s
    BY <1>2, <2>1 DEF IndirectTransport
  <2> QED
    BY <1>1, <2>2, HeldReflexive DEF Held
<1>3. CASE ~holds
  <2>1. Authority(ApplyStaged(s, c, p)) /\ Frame(s, ApplyStaged(s, c, p))
    BY <1>3, ApplyStagedSafe
  <2>2. /\ decided \in Runtimes /\ Authority(decided) /\ Frame(s, decided)
        /\ decided.paused = s.paused
    BY RetireAwaitingDecisionSafe
  <2>3. s.paused = p /\ p = TRUE =>
          Authority(ClaimUserPause(decided, c)) /\ Frame(s, ClaimUserPause(decided, c))
    <3> HIDE DEF decided
    <3> QED
      BY <2>2, ClaimUserPauseSafe, FrameTransitive
  <2>4. Quiet(s, awaited)
    BY PendingEffect
  <2>5. Authority(awaited) /\ Frame(s, awaited)
    BY <2>4, QuietAuthority DEF Quiet, Held
  <2>6. \/ t = ApplyStaged(s, c, p)
        \/ s.paused = p /\ p = TRUE /\ t = ClaimUserPause(decided, c)
        \/ t = decided
        \/ t = awaited
    BY <1>3 DEF IndirectTransport
  <2> QED
    BY <1>1, <1>3, <2>1, <2>2, <2>3, <2>5, <2>6
<1> QED
  BY <1>2, <1>3

\* `ApplyIntent` keeps the pause authority and its membership facts.
LEMMA ApplyIntentSafe ==
  ASSUME NEW s \in Runtimes, Authority(s), NEW c \in Clients, NEW target \in Clients,
         NEW ready \in BOOLEAN, NEW source \in IntentSources
  PROVE  LET t == ApplyIntent(s, c, target, ready, source)
         IN Authority(t) /\ Frame(s, t)
<1> DEFINE p == source = "PlayerPause"
           controls == /\ source \in {"PlayerPlay", "PlayerPause"} /\ target = c
                       /\ c \in Controllers
           staged == controls /\ s.pending[c] = [paused |-> p, evidence |-> "Observed"]
           consumed == [s EXCEPT !.pending[c] = NoPending]
           recorded == MutateIntent(consumed, target, ready)
           mutated == [recorded EXCEPT !.readiness.part[c].initializationOpen = FALSE]
           moved == IF controls THEN IndirectTransport(mutated, c, p, staged) ELSE mutated
           armed == IF ready /\ s.barrier.phase = "Preparing"
                    THEN SetPauseOwner(moved, GateOwner(s.barrier.gen)) ELSE moved
<1>1. consumed \in Runtimes /\ Quiet(s, consumed)
  BY PendingUpdate, PendingEffect, SimpleTypes
<1> HIDE DEF consumed
<1>2. recorded \in Runtimes /\ Quiet(s, recorded)
  BY <1>1, MutateIntentType, MutateIntentEffect, QuietTransitive
<1> HIDE DEF recorded
<1>3. mutated \in Runtimes /\ Quiet(recorded, mutated)
  <2> DEFINE x == [recorded.readiness.part[c] EXCEPT !.initializationOpen = FALSE]
  <2>1. x \in Records /\ x.role = recorded.readiness.part[c].role
    <3>1. recorded.readiness.part[c] \in Records
      BY <1>2, RecordOf
    <3> QED
      BY <3>1 DEF Records
  <2> HIDE DEF x
  <2>2. LET t == [recorded EXCEPT !.readiness.part[c] = x]
        IN t \in Runtimes /\ Quiet(recorded, t)
    BY <1>2, <2>1, RecordUpdate, RecordEffect
  <2> QED
    BY <2>2 DEF x
<1> HIDE DEF mutated
<1>4. Quiet(s, mutated)
  BY <1>2, <1>3, QuietTransitive
<1>5. /\ Authority(mutated) /\ Frame(s, mutated)
      /\ mutated.barrier.phase = s.barrier.phase /\ mutated.barrier.gen = s.barrier.gen
  BY <1>4, QuietAuthority DEF Quiet, Held
<1>6. p \in BOOLEAN /\ staged \in BOOLEAN
  OBVIOUS
<1>7. IntentAccepted(s, c, target, ready, source) /\ ready => ~p
  BY DEF IntentAccepted
<1> HIDE DEF p, staged, controls
<1>8. /\ moved \in Runtimes /\ Authority(moved) /\ Frame(s, moved)
      /\ ~p /\ s.barrier.phase = "Preparing" => moved = mutated
  <2> DEFINE u == IndirectTransport(mutated, c, p, staged)
  <2>1. /\ u \in Runtimes /\ Authority(u) /\ Frame(mutated, u)
        /\ ~p /\ mutated.barrier.phase = "Preparing" => u = mutated
    BY <1>3, <1>5, <1>6, IndirectTransportSafe
  <2> HIDE DEF u
  <2>2. Frame(s, u)
    BY <1>5, <2>1, FrameTransitive
  <2>3. moved = IF controls THEN u ELSE mutated
    BY DEF u
  <2> HIDE DEF moved
  <2> QED
    BY <1>3, <1>5, <2>1, <2>2, <2>3
<1> HIDE DEF moved
<1>9. IntentAccepted(s, c, target, ready, source) =>
        armed \in Runtimes /\ Authority(armed) /\ Frame(s, armed)
  <2> SUFFICES ASSUME IntentAccepted(s, c, target, ready, source)
               PROVE  armed \in Runtimes /\ Authority(armed) /\ Frame(s, armed)
    OBVIOUS
  <2>1. CASE ready /\ s.barrier.phase = "Preparing"
    <3>1. moved = mutated /\ armed = SetPauseOwner(mutated, GateOwner(mutated.barrier.gen))
      BY <1>5, <1>7, <1>8, <2>1
    <3> QED
      BY <1>3, <1>5, <2>1, <3>1, GateClaimSafe, FrameTransitive
  <2>2. CASE ~(ready /\ s.barrier.phase = "Preparing")
    BY <1>8, <2>2
  <2> QED
    BY <2>1, <2>2
<1> HIDE DEF armed
<1>10. IntentAccepted(s, c, target, ready, source) =>
         LET t == MaybeCommit(RefreshGate(armed)) IN Authority(t) /\ Frame(s, t)
  BY <1>9, EvaluateSafe, FrameTransitive
<1>11. Authority(consumed) /\ Frame(s, consumed)
  BY <1>1, QuietAuthority DEF Quiet, Held
<1>12. ApplyIntent(s, c, target, ready, source) =
         IF IntentAccepted(s, c, target, ready, source)
         THEN MaybeCommit(RefreshGate(armed)) ELSE consumed
  BY DEF ApplyIntent, armed, moved, mutated, recorded, consumed, staged, p, controls
<1> QED
  BY <1>10, <1>11, <1>12

\* `ApplySyncplayReady` keeps the pause authority and its membership facts.
LEMMA ApplySyncplayReadySafe ==
  ASSUME NEW s \in Runtimes, Authority(s), NEW c \in Clients, NEW target \in Clients,
         NEW ready \in BOOLEAN
  PROVE  LET t == ApplySyncplayReady(s, c, target, ready)
         IN Authority(t) /\ Frame(s, t)
<1> DEFINE u == MutateIntent(s, target, ready)
<1>1. u \in Runtimes /\ Quiet(s, u)
  BY MutateIntentType, MutateIntentEffect
<1> HIDE DEF u
<1>2. Authority(u) /\ Frame(s, u)
  BY <1>1, QuietAuthority DEF Quiet, Held
<1>3. LET t == MaybeCommit(RefreshGate(u)) IN Authority(t) /\ Frame(s, t)
  BY <1>1, <1>2, EvaluateSafe, FrameTransitive
<1> QED
  BY <1>3, HeldReflexive DEF ApplySyncplayReady, u, Held

\* A technical report keeps the role.
LEMMA ReportedRecordRole ==
  ASSUME NEW record \in Records, NEW g \in Nat, NEW report \in Reports
  PROVE  ReportedRecord(record, g, report).role = record.role
<1>1. \A x, y, z : /\ [record EXCEPT !.tech = x, !.automatic = y, !.blocked = z].role = record.role
                   /\ "role" \in DOMAIN [record EXCEPT !.tech = x, !.automatic = y, !.blocked = z]
  BY DEF Records
<1> QED
  BY <1>1 DEF ReportedRecord, Recompute

\* An automatic owner: neither a user nor a gate.
LEMMA AutomaticClaimSafe ==
  ASSUME NEW s \in Runtimes, Authority(s), NEW o \in Owners,
         o.kind \notin {"User", "ReadinessStartGate"}
  PROVE  LET t == SetPauseOwner(s, o)
         IN t \in Runtimes /\ Authority(t) /\ Frame(s, t)
<1> DEFINE t == SetPauseOwner(s, o)
<1>1. /\ t \in Runtimes /\ Held(s, t)
      /\ s.readiness.live => t.readiness.owner = o
      /\ ~s.readiness.live => t = s
  BY SetPauseOwnerType, SetPauseOwnerEffect
<1> HIDE DEF t
<1>2. Authority(t)
  BY <1>1 DEF Authority, Held, Frame
<1> QED
  BY <1>1, <1>2 DEF Held, t

\* The owner that a report installs is automatic.
LEMMA ReportOwnerKind ==
  ASSUME NEW reason
  PROVE  /\ OwnerOfReason(reason) \in OwnerKinds
         /\ AutomaticOwner(OwnerOfReason(reason)).kind \notin {"User", "ReadinessStartGate"}
  BY DEF OwnerOfReason, AutomaticOwner, OwnerKinds

\* `ApplyTechnicalReport` keeps the pause authority and its membership facts.
LEMMA ApplyTechnicalReportSafe ==
  ASSUME NEW s \in Runtimes, Authority(s), NEW c \in Clients, NEW g \in Nat, NEW rev \in Nat,
         NEW report \in Reports
  PROVE  LET t == ApplyTechnicalReport(s, c, g, rev, report)
         IN Authority(t) /\ Frame(s, t)
<1> DEFINE r == ReportedRecord(s.readiness.part[c], g, report)
           recorded == [s EXCEPT !.readiness.part[c] = r]
           reported == AutomaticOwner(OwnerOfReason(report.reason))
           owned == IF ~s.paused /\ s.readiness.owner.kind = "Recovery"
                    THEN SetPauseOwner(recorded, NoOwner)
                    ELSE IF /\ s.paused /\ reported # NoOwner
                            /\ s.readiness.owner \in {NoOwner, reported}
                    THEN SetPauseOwner(recorded, reported)
                    ELSE recorded
<1>1. r \in Records /\ r.role = s.readiness.part[c].role
  BY RecordOf, ReportedRecordType, ReportedRecordRole
<1> HIDE DEF r
<1>2. recorded \in Runtimes /\ Quiet(s, recorded)
  BY <1>1, RecordUpdate, RecordEffect
<1> HIDE DEF recorded
<1>3. Authority(recorded) /\ Frame(s, recorded)
  BY <1>2, QuietAuthority DEF Quiet, Held
<1>4. reported \in Owners /\ reported.kind \notin {"User", "ReadinessStartGate"}
  BY ReportOwnerKind, OwnerTypes
<1> HIDE DEF reported
<1>5. LET t == SetPauseOwner(recorded, NoOwner)
      IN t \in Runtimes /\ Authority(t) /\ Frame(s, t)
  BY <1>2, <1>3, ReleaseSafe, FrameTransitive
<1>6. LET t == SetPauseOwner(recorded, reported)
      IN t \in Runtimes /\ Authority(t) /\ Frame(s, t)
  BY <1>2, <1>3, <1>4, AutomaticClaimSafe, FrameTransitive
<1>7. owned \in Runtimes /\ Authority(owned) /\ Frame(s, owned)
  BY <1>2, <1>3, <1>5, <1>6
<1> HIDE DEF owned
<1>8. LET t == MaybeCommit(RefreshGate(owned)) IN Authority(t) /\ Frame(s, t)
  BY <1>7, EvaluateSafe, FrameTransitive
<1> QED
  BY <1>8, HeldReflexive DEF ApplyTechnicalReport, owned, recorded, reported, r, Held

-----------------------------------------------------------------------------
(* `handle_state`.                                                         *)

\* A transport command that pauses keeps the authority.
LEMMA MoveTransportPauses ==
  ASSUME NEW s \in Runtimes, Consistent(s)
  PROVE  LET t == MoveTransport(s, TRUE)
         IN t \in Runtimes /\ Authority(t) /\ Frame(s, t)
  BY PauseSafe DEF MoveTransport

\* A transport command that resumes outside a prepared start keeps the authority.
LEMMA MoveTransportResumes ==
  ASSUME NEW s \in Runtimes, Authority(s), s.paused, s.barrier.phase # "Preparing"
  PROVE  LET t == MoveTransport(s, FALSE)
         IN t \in Runtimes /\ Authority(t) /\ Frame(s, t)
<1> DEFINE u == [s EXCEPT !.paused = FALSE]
           v == RetirePendingTransport(u)
           t == SetPauseOwner(v, NoOwner)
<1>1. u \in Runtimes
  BY PausedUpdate
<1>2. u.readiness = s.readiness /\ u.barrier = s.barrier /\ u.place = s.place
  BY PausedEffect
<1> HIDE DEF u
<1>3. v \in Runtimes /\ Quiet(u, v)
  BY <1>1, RetirePendingTransportType, RetirePendingEffect
<1> HIDE DEF v
<1>4. /\ t \in Runtimes /\ Held(v, t)
      /\ v.readiness.live => t.readiness.owner = NoOwner
      /\ ~v.readiness.live => t = v
  BY <1>3, OwnerTypes, SetPauseOwnerType, SetPauseOwnerEffect
<1> HIDE DEF t
<1>5. t.readiness.owner.kind = "None"
  BY <1>2, <1>3, <1>4, NoOwnerKind DEF Authority, Quiet, Held, Frame
<1>6. t.barrier.phase # "Preparing"
  BY <1>2, <1>3, <1>4 DEF Quiet, Held
<1>7. Authority(t)
  BY <1>5, <1>6 DEF Authority
<1>8. Frame(s, t)
  BY <1>2, <1>3, <1>4 DEF Quiet, Held, Frame, IsMember
<1>9. MoveTransport(s, FALSE) = t
  BY DEF MoveTransport, t, v, u
<1> QED
  BY <1>4, <1>7, <1>8, <1>9

\* A seek changes the position alone.
LEMMA SeekSafe ==
  ASSUME NEW s \in Runtimes, Authority(s)
  PROVE  LET t == MoveTransport(s, s.paused)
         IN t \in Runtimes /\ Authority(t) /\ Frame(s, t)
<1> DEFINE u == [s EXCEPT !.paused = s.paused]
<1>1. u = s
  BY DEF Runtimes
<1>2. MoveTransport(s, s.paused) = RetirePendingTransport(u)
  BY DEF MoveTransport
<1>3. RetirePendingTransport(s) \in Runtimes /\ Quiet(s, RetirePendingTransport(s))
  BY RetirePendingTransportType, RetirePendingEffect
<1> HIDE DEF u
<1> QED
  BY <1>1, <1>2, <1>3, QuietAuthority DEF Quiet, Held

\* The automatic explanation of a player's pause is the present owner, or neither a user
\* nor the start gate.
LEMMA AutomaticTransportOwnerKind ==
  ASSUME NEW s \in Runtimes, NEW c \in Clients, NEW p \in BOOLEAN
  PROVE  LET o == AutomaticTransportOwner(s, c, p)
         IN o = s.readiness.owner \/ o.kind \notin {"User", "ReadinessStartGate"}
<1>1. s.readiness.part[c] \in Records
  BY RecordOf
<1>2. ReportedPauseOwner(s.readiness.part[c]) \in {"None", "Recovery", "EndOfPlaylist"}
  BY <1>1 DEF ReportedPauseOwner, Records
<1>3. \A k : AutomaticOwner(k).kind = k
  BY DEF AutomaticOwner
<1> QED
  BY <1>2, <1>3, NoOwnerKind DEF AutomaticTransportOwner

\* `V2Transport` keeps the pause authority and its membership facts.
LEMMA V2TransportSafe ==
  ASSUME NEW s \in Runtimes, Authority(s), NEW c \in Clients, NEW p \in BOOLEAN,
         s.paused # p, s.barrier.phase # "Preparing"
  PROVE  LET t == V2Transport(s, c, p) IN Authority(t) /\ Frame(s, t)
<1> DEFINE accepted == s.pending[c] = [paused |-> p, evidence |-> "Accepted"]
           consumed == [s EXCEPT !.pending[c] = NoPending]
           decided == RetireAwaitingDecision(consumed, c)
           automatic == AutomaticTransportOwner(s, c, p)
           claimed == IF p THEN ClaimUserPause(decided, c) ELSE decided
           owned == IF p /\ s.readiness.owner \in {NoOwner, automatic}
                    THEN SetPauseOwner(consumed, automatic) ELSE consumed
           observed == [s EXCEPT !.pending[c] = [paused |-> p, evidence |-> "Observed"]]
<1>1. consumed \in Runtimes /\ Quiet(s, consumed)
  BY PendingUpdate, PendingEffect, SimpleTypes
<1> HIDE DEF consumed
<1>2. /\ Authority(consumed) /\ Frame(s, consumed) /\ consumed.paused = s.paused
      /\ consumed.barrier.phase # "Preparing"
      /\ consumed.readiness.owner = s.readiness.owner
  BY <1>1, QuietAuthority DEF Quiet, Held
<1>3. /\ decided \in Runtimes /\ Authority(decided) /\ Frame(s, decided)
      /\ decided.paused = s.paused /\ decided.barrier.phase # "Preparing"
  BY <1>1, <1>2, RetireAwaitingDecisionSafe, FrameTransitive
<1> HIDE DEF decided
<1>4. automatic \in Owners
      /\ (automatic = s.readiness.owner \/ automatic.kind \notin {"User", "ReadinessStartGate"})
  BY AutomaticTransportOwnerType, AutomaticTransportOwnerKind
<1> HIDE DEF automatic
<1>9. Quiet(s, observed)
  BY PendingEffect
<1> HIDE DEF observed
<1>5. Authority(observed) /\ Frame(s, observed)
  BY <1>9, QuietAuthority DEF Quiet, Held
<1>6. LET t == MoveTransport(claimed, p) IN Authority(t) /\ Frame(s, t)
  <2>1. CASE p = TRUE
    <3>1. /\ claimed = ClaimUserPause(decided, c) /\ claimed \in Runtimes
          /\ Consistent(claimed) /\ Frame(decided, claimed)
      BY <1>3, <2>1, ClaimUserPauseSafe
    <3> HIDE DEF claimed
    <3> QED
      BY <1>3, <2>1, <3>1, MoveTransportPauses, FrameTransitive
  <2>2. CASE p = FALSE
    <3>1. claimed = decided /\ s.paused = TRUE
      BY <2>2, Components
    <3> HIDE DEF claimed
    <3> QED
      BY <1>3, <2>2, <3>1, MoveTransportResumes, FrameTransitive
  <2> QED
    BY <2>1, <2>2
<1>7. LET t == MoveTransport(owned, p) IN Authority(t) /\ Frame(s, t)
  <2>1. CASE p = TRUE
    <3>1. /\ SetPauseOwner(consumed, automatic) \in Runtimes
          /\ Held(consumed, SetPauseOwner(consumed, automatic))
          /\ consumed.readiness.live =>
               SetPauseOwner(consumed, automatic).readiness.owner = automatic
          /\ ~consumed.readiness.live => SetPauseOwner(consumed, automatic) = consumed
      BY <1>1, <1>4, SetPauseOwnerType, SetPauseOwnerEffect
    <3>2. Consistent(SetPauseOwner(consumed, automatic))
      BY <1>2, <1>4, <3>1 DEF Consistent, Authority, Held, Frame
    <3>3. owned \in Runtimes /\ Consistent(owned) /\ Frame(s, owned)
      BY <1>1, <1>2, <3>1, <3>2, AuthorityIsConsistent, FrameTransitive DEF Held
    <3> HIDE DEF owned
    <3> QED
      BY <2>1, <3>3, MoveTransportPauses, FrameTransitive
  <2>2. CASE p = FALSE
    <3>1. owned = consumed /\ s.paused = TRUE
      BY <2>2, Components
    <3> HIDE DEF owned
    <3> QED
      BY <1>1, <1>2, <2>2, <3>1, MoveTransportResumes, FrameTransitive
  <2> QED
    BY <2>1, <2>2
<1> HIDE DEF claimed, owned, accepted
<1>8. \/ V2Transport(s, c, p) = MoveTransport(claimed, p)
      \/ V2Transport(s, c, p) = observed
      \/ V2Transport(s, c, p) = MoveTransport(owned, p)
  BY DEF V2Transport, claimed, owned, observed, automatic, decided, consumed, accepted
<1> QED
  BY <1>5, <1>6, <1>7, <1>8

\* `SyncplayTransport` keeps the pause authority and its membership facts.
LEMMA SyncplayTransportSafe ==
  ASSUME NEW s \in Runtimes, Authority(s), NEW c \in Clients, NEW p \in BOOLEAN,
         s.paused # p, s.barrier.phase # "Preparing"
  PROVE  LET t == SyncplayTransport(s, c, p) IN Authority(t) /\ Frame(s, t)
<1> DEFINE decided == RetireAwaitingDecision(s, c)
           claimed == ClaimUserPause(decided, c)
<1>1. /\ decided \in Runtimes /\ Authority(decided) /\ Frame(s, decided)
      /\ decided.paused = s.paused /\ decided.barrier.phase # "Preparing"
  BY RetireAwaitingDecisionSafe
<1> HIDE DEF decided
<1>2. claimed \in Runtimes /\ Consistent(claimed) /\ Frame(s, claimed)
  BY <1>1, ClaimUserPauseSafe, FrameTransitive
<1> HIDE DEF claimed
<1>3. CASE p = TRUE
  <2>1. /\ Authority(MoveTransport(s, TRUE)) /\ Frame(s, MoveTransport(s, TRUE))
        /\ Authority(MoveTransport(claimed, TRUE)) /\ Frame(s, MoveTransport(claimed, TRUE))
    BY <1>2, MoveTransportPauses, AuthorityIsConsistent, FrameTransitive
  <2>2. \/ SyncplayTransport(s, c, p) = MoveTransport(s, TRUE)
        \/ SyncplayTransport(s, c, p) = MoveTransport(claimed, TRUE)
    BY <1>3 DEF SyncplayTransport, claimed, decided
  <2> QED
    BY <2>1, <2>2
<1>4. CASE p = FALSE
  <2>1. SyncplayTransport(s, c, p) = MoveTransport(decided, FALSE) /\ s.paused = TRUE
    BY <1>4, Components DEF SyncplayTransport, decided
  <2> QED
    BY <1>1, <2>1, MoveTransportResumes, FrameTransitive
<1> QED
  BY <1>3, <1>4

-----------------------------------------------------------------------------
(* Sessions.                                                               *)

\* A session that is no member may go anywhere.
LEMMA MoveSound ==
  ASSUME NEW s, Sound(s), NEW t \in Runtimes, NEW c \in Clients, ~IsMember(s, c),
         t.readiness = s.readiness, t.barrier = s.barrier, t.paused = s.paused,
         \A d \in Clients \ {c} : t.place[d] = s.place[d]
  PROVE  Sound(t)
<1>1. Authority(t)
  BY DEF Sound, Authority
<1>2. Present(t) /\ Populated(t)
  BY DEF Sound, Present, Populated, IsMember
<1> QED
  BY <1>1, <1>2 DEF Sound

\* `RemoveSession` keeps the pause authority and its membership facts.
LEMMA RemoveSessionSafe ==
  ASSUME NEW s, Sound(s), NEW c \in Clients, ~IsMember(s, c), NEW place \in Places
  PROVE  Sound(RemoveSession(s, c, place))
<1> DEFINE t == RemoveSession(s, c, place)
<1>1. t \in Runtimes
  BY RemoveSessionType DEF Sound
<1>2. /\ t.readiness = s.readiness /\ t.barrier = s.barrier /\ t.paused = s.paused
      /\ \A d \in Clients \ {c} : t.place[d] = s.place[d]
  BY DEF RemoveSession, Sound, Runtimes
<1> HIDE DEF t
<1>3. Sound(t)
  BY <1>1, <1>2, MoveSound
<1> QED
  BY <1>3 DEF t

\* Refreshing the mixed cohort keeps the invariant.
LEMMA RefreshSound ==
  ASSUME NEW s, Sound(s)
  PROVE  Sound(RefreshMixedCohort(s))
  BY RefreshMixedCohortSafe, FrameSound DEF Sound

\* A disconnected barrier participant keeps the invariant.
LEMMA MarkSound ==
  ASSUME NEW s, Sound(s), NEW c \in Clients
  PROVE  LET t == MarkParticipantDisconnected(s, c)
         IN Sound(t) /\ \A d \in Clients : IsMember(t, d) <=> IsMember(s, d)
<1> DEFINE t == MarkParticipantDisconnected(s, c)
<1>1. t \in Runtimes /\ Authority(t) /\ Frame(s, t)
  BY MarkParticipantDisconnectedSafe DEF Sound
<1> HIDE DEF t
<1>2. Sound(t) /\ \A d \in Clients : IsMember(t, d) <=> IsMember(s, d)
  BY <1>1, FrameSound DEF Frame
<1> QED
  BY <1>2 DEF t

\* An empty room has no coordinator, so nothing is left that owned its pause.
LEMMA CleanupRoomSafe ==
  ASSUME NEW s, Sound(s)
  PROVE  Sound(CleanupRoom(s))
<1> DEFINE t == [s EXCEPT !.barrier = NoBarrier, !.paused = TRUE, !.tombstones = {}]
<1>1. CASE Persistent \/ ClientsInRoom(s) # {}
  BY <1>1 DEF CleanupRoom
<1>2. CASE ~(Persistent \/ ClientsInRoom(s) # {})
  <2>1. ~s.readiness.live
    BY <1>2 DEF ClientsInRoom, Sound, Present, Populated
  <2>2. ClearGate(s) = s
    BY <2>1 DEF ClearGate
  <2>3. CleanupRoom(s) = t
    BY <1>2, <2>2 DEF CleanupRoom
  <2>4. t \in Runtimes
    BY <2>3, CleanupRoomType DEF Sound
  <2>5. /\ t.readiness = s.readiness /\ t.place = s.place
        /\ t.barrier.phase = "None" /\ t.paused = TRUE
    BY DEF Sound, Runtimes, NoBarrier
  <2> HIDE DEF t
  <2>6. s.readiness.owner.kind = "None"
    BY <2>1 DEF Sound, Authority
  <2>7. Authority(t)
    BY <2>5, <2>6 DEF Authority
  <2>8. Present(t) /\ Populated(t)
    BY <2>5 DEF Sound, Present, Populated, IsMember
  <2> QED
    BY <2>3, <2>4, <2>7, <2>8 DEF Sound
<1> QED
  BY <1>1, <1>2

\* What both departure paths share keeps the invariant: the cleanup of an empty room finds
\* no coordinator in it.
LEMMA DepartureSafe ==
  ASSUME NEW s, Sound(s), NEW c \in Clients, ~IsMember(s, c), NEW place \in Places
  PROVE  Sound(CleanupRoom(RefreshMixedCohort(RemoveSession(s, c, place))))
  BY RemoveSessionSafe, RefreshSound, CleanupRoomSafe

\* `ReplaceSession` keeps the pause authority and its membership facts.
LEMMA ReplaceSessionSafe ==
  ASSUME NEW s, Sound(s), NEW c \in Clients
  PROVE  Sound(ReplaceSession(s, c))
<1> DEFINE left == Detach(s, c, TRUE)
           marked == MarkParticipantDisconnected(left, c)
<1>1. Sound(left) /\ ~IsMember(left, c)
  BY DetachSafe
<1> HIDE DEF left
<1>2. Sound(marked) /\ ~IsMember(marked, c)
  BY <1>1, MarkSound
<1> HIDE DEF marked
<1>3. Sound(CleanupRoom(RefreshMixedCohort(RemoveSession(marked, c, "New"))))
  BY <1>2, DepartureSafe DEF Places
<1> QED
  BY <1>3 DEF ReplaceSession, marked, left

\* `DepartSession` keeps the pause authority and its membership facts.
LEMMA DepartSessionSafe ==
  ASSUME NEW s, Sound(s), NEW c \in Clients
  PROVE  Sound(DepartSession(s, c))
<1> DEFINE marked == MarkParticipantDisconnected(s, c)
           left == Detach(marked, c, TRUE)
<1>1. Sound(marked)
  BY MarkSound
<1> HIDE DEF marked
<1>2. Sound(left) /\ ~IsMember(left, c)
  BY <1>1, DetachSafe
<1> HIDE DEF left
<1>3. Sound(CleanupRoom(RefreshMixedCohort(RemoveSession(left, c, "Gone"))))
  BY <1>2, DepartureSafe DEF Places
<1> QED
  BY <1>3 DEF DepartSession, left, marked

\* `JoinRoom` keeps the pause authority and its membership facts.
LEMMA JoinRoomSafe ==
  ASSUME NEW s, Sound(s), NEW c \in Clients, NEW caps \in SUBSET Capabilities
  PROVE  LET t == JoinRoom(s, c, caps) IN Sound(t) /\ t.place[c] = "Room"
<1> DEFINE t == JoinRoom(s, c, caps)
<1>1. t \in Runtimes
  BY JoinRoomType DEF Sound
<1>2. /\ t.readiness = s.readiness /\ t.barrier = s.barrier /\ t.paused = s.paused
      /\ \A d \in Clients \ {c} : t.place[d] = s.place[d]
      /\ t.place[c] = "Room"
  BY DEF JoinRoom, Sound, Runtimes
<1> HIDE DEF t
<1>3. Authority(t)
  BY <1>2 DEF Sound, Authority
<1>4. Present(t) /\ Populated(t)
  BY <1>2 DEF Sound, Present, Populated, IsMember
<1>5. Sound(t) /\ t.place[c] = "Room"
  BY <1>1, <1>2, <1>3, <1>4 DEF Sound
<1> QED
  BY <1>5 DEF t

\* Attaching a session of the room keeps the invariant.
LEMMA AttachSound ==
  ASSUME NEW s, Sound(s), NEW c \in Clients, s.place[c] = "Room",
         NEW token \in Clients \cup {NoClient}, NEW seedReady \in BOOLEAN
  PROVE  Sound(Attach(s, c, token, seedReady))
  BY AttachSafe DEF Sound

-----------------------------------------------------------------------------
(* The actions.                                                            *)

\* `Hello` keeps the pause authority and its membership facts.
LEMMA HelloSafe ==
  ASSUME Sound(rt), NEW c \in Clients, NEW token \in Clients \cup {NoClient}, Hello(c, token)
  PROVE  Sound(rt')
<1> DEFINE left == IF rt.place[c] = "Room" THEN ReplaceSession(rt, c) ELSE rt
           attaches == "readiness" \in HelloCaps[c]
           restores == attaches /\ token # NoClient /\ left.detached[token].kept
           forgot == [left EXCEPT !.detached[c] = NoDetached]
           known == IF restores THEN left ELSE forgot
           joined == JoinRoom(known, c, HelloCaps[c])
           attached == Attach(joined, c, IF restores THEN token ELSE NoClient, FALSE)
<1>1. Sound(left)
  BY ReplaceSessionSafe
<1> HIDE DEF left
<1>2. forgot \in Runtimes /\ Quiet(left, forgot)
  BY <1>1, DetachedUpdate, SimpleTypes DEF Sound, Runtimes, Quiet, Held, Frame, IsMember
<1> HIDE DEF forgot
<1>3. Sound(known)
  BY <1>1, <1>2, QuietSound
<1> HIDE DEF known
<1>4. Sound(joined) /\ joined.place[c] = "Room"
  BY <1>3, JoinRoomSafe, HelloCapsType
<1> HIDE DEF joined
<1>5. Sound(attached)
  BY <1>4, AttachSound
<1> HIDE DEF attached
<1>6. Sound(RefreshMixedCohort(attached)) /\ Sound(RefreshMixedCohort(joined))
  BY <1>4, <1>5, RefreshSound
<1> QED
  BY <1>6 DEF Hello, attached, joined, known, forgot, left

\* `SwitchAway` keeps the pause authority and its membership facts.
LEMMA SwitchAwaySafe ==
  ASSUME Sound(rt), NEW c \in Clients, SwitchAway(c)
  PROVE  Sound(rt')
<1> DEFINE detached == Detach(rt, c, FALSE)
           left == MarkParticipantDisconnected(detached, c)
           n == left.nextSeq + 1
           moved == [left EXCEPT !.place[c] = "Elsewhere", !.nextSeq = n, !.seq[c] = n]
<1>1. Sound(detached) /\ ~IsMember(detached, c)
  BY DetachSafe
<1> HIDE DEF detached
<1>2. Sound(left) /\ ~IsMember(left, c)
  BY <1>1, MarkSound
<1> HIDE DEF left
<1>3. left \in Runtimes /\ n \in Nat /\ "Elsewhere" \in Places
  BY <1>2, Components DEF Sound, Places
<1> HIDE DEF n
<1>4. moved \in Runtimes
  BY <1>3 DEF Runtimes
<1>5. /\ moved.readiness = left.readiness /\ moved.barrier = left.barrier
      /\ moved.paused = left.paused
      /\ \A d \in Clients \ {c} : moved.place[d] = left.place[d]
  BY <1>3 DEF Runtimes
<1> HIDE DEF moved
<1>6. Sound(moved)
  BY <1>2, <1>4, <1>5, MoveSound
<1>7. Sound(CleanupRoom(RefreshMixedCohort(moved)))
  BY <1>6, RefreshSound, CleanupRoomSafe
<1> QED
  BY <1>7 DEF SwitchAway, moved, n, left, detached

\* `SwitchIn` keeps the pause authority and its membership facts.
LEMMA SwitchInSafe ==
  ASSUME Sound(rt), NEW c \in Clients, SwitchIn(c)
  PROVE  Sound(rt')
<1> DEFINE joined == JoinRoom(rt, c, rt.caps[c])
<1>1. Sound(joined) /\ joined.place[c] = "Room"
  BY JoinRoomSafe, Components DEF Sound
<1> HIDE DEF joined
<1>2. Sound(Attach(joined, c, NoClient, FALSE))
  BY <1>1, AttachSound
<1>3. /\ Sound(RefreshMixedCohort(Attach(joined, c, NoClient, FALSE)))
      /\ Sound(RefreshMixedCohort(joined))
  BY <1>1, <1>2, RefreshSound
<1> QED
  BY <1>3 DEF SwitchIn, joined

\* `Renegotiate` keeps the pause authority and its membership facts.
LEMMA RenegotiateSafe ==
  ASSUME Sound(rt), NEW c \in Clients, NEW caps \in Renegotiations, NEW seedReady \in BOOLEAN,
         Renegotiate(c, caps, seedReady)
  PROVE  Sound(rt')
<1> DEFINE changed == [rt EXCEPT !.caps[c] = caps]
<1>1. changed \in Runtimes /\ Quiet(rt, changed) /\ changed.place = rt.place
  BY ClientsAssumption DEF Sound, Runtimes, Quiet, Held, Frame, IsMember
<1>2. rt.place[c] = "Room"
  BY DEF Renegotiate, Speaks
<1> HIDE DEF changed
<1>3. Sound(changed) /\ changed.place[c] = "Room"
  BY <1>1, <1>2, QuietSound
<1>4. Sound(Attach(changed, c, c, seedReady)) /\ Sound(Detach(changed, c, TRUE))
  BY <1>3, AttachSound, DetachSafe
<1>5. /\ Sound(RefreshMixedCohort(Attach(changed, c, c, seedReady)))
      /\ Sound(RefreshMixedCohort(Detach(changed, c, TRUE)))
      /\ Sound(RefreshMixedCohort(changed))
  BY <1>3, <1>4, RefreshSound
<1> QED
  BY <1>5 DEF Renegotiate, changed

\* Every session step keeps the invariant.
LEMMA MemberStepSafe ==
  ASSUME Sound(rt), NEW c \in Clients, MemberStep(c)
  PROVE  Sound(rt')
<1>1. ASSUME NEW token \in Clients \cup {NoClient}, Hello(c, token)
      PROVE  Sound(rt')
  BY <1>1, HelloSafe
<1>2. CASE rt.place[c] = "Room" /\ rt' = DepartSession(rt, c)
  BY <1>2, DepartSessionSafe
<1>3. CASE rt.place[c] = "Elsewhere" /\ rt' = RemoveSession(rt, c, "Gone")
  <2>1. ~IsMember(rt, c)
    BY <1>3 DEF Sound, Present
  <2> QED
    BY <1>3, <2>1, RemoveSessionSafe DEF Places
<1>4. CASE SwitchAway(c)
  BY <1>4, SwitchAwaySafe
<1>5. CASE SwitchIn(c)
  BY <1>5, SwitchInSafe
<1>6. ASSUME NEW caps \in Renegotiations, NEW seedReady \in BOOLEAN,
             Renegotiate(c, caps, seedReady)
      PROVE  Sound(rt')
  BY <1>6, RenegotiateSafe
<1> QED
  BY <1>1, <1>2, <1>3, <1>4, <1>5, <1>6 DEF MemberStep, Disconnect

\* A step that keeps the members in place has only the authority to answer for.
LEMMA FrameStep ==
  ASSUME Sound(rt), TypeOK', Authority(rt'), Frame(rt, rt')
  PROVE  Sound(rt')
  BY FrameSound DEF TypeOK

\* Every barrier message keeps the invariant.
LEMMA BarrierStepSafe ==
  ASSUME Sound(rt), NEW c \in Clients, BarrierStep(c)
  PROVE  Sound(rt')
<1>1. TypeOK /\ rt \in Runtimes /\ Authority(rt)
  BY DEF Sound, TypeOK
<1>2. TypeOK'
  BY <1>1, BarrierStepType
<1>3. Generations \subseteq Nat /\ Revisions \subseteq Nat
  BY <1>1, GenerationTypes
<1>4. ASSUME NEW q \in Requests, Prepare(c, q) \/ Recover(c, q)
      PROVE  Authority(rt') /\ Frame(rt, rt')
  BY <1>1, <1>4, StartPlaybackBarrierSafe, RecoverPlaybackBarrierSafe DEF Prepare, Recover
<1>5. ASSUME NEW g \in Generations, NEW isReady \in BOOLEAN, MediaReady(c, g, isReady)
      PROVE  Authority(rt') /\ Frame(rt, rt')
  BY <1>1, <1>3, <1>5, RecordReadySafe DEF MediaReady
<1>6. ASSUME NEW g \in Generations, NEW r \in Revisions, StartedAck(c, g, r)
      PROVE  Authority(rt') /\ Frame(rt, rt')
  BY <1>1, <1>3, <1>6, RecordStartedSafe DEF StartedAck
<1>7. Authority(rt') /\ Frame(rt, rt')
  BY <1>4, <1>5, <1>6 DEF BarrierStep
<1> QED
  BY <1>2, <1>7, FrameStep

\* Every readiness message keeps the invariant.
LEMMA ReadinessStepSafe ==
  ASSUME Sound(rt), NEW c \in Clients, ReadinessStep(c)
  PROVE  Sound(rt')
<1>1. TypeOK /\ rt \in Runtimes /\ Authority(rt)
  BY DEF Sound, TypeOK
<1>2. TypeOK'
  BY <1>1, ReadinessStepType
<1>3. Generations \subseteq Nat /\ Revisions \subseteq Nat
  BY <1>1, GenerationTypes
<1>4. ASSUME NEW target \in Clients, NEW ready \in BOOLEAN, NEW source \in Sources,
             Intent(c, target, ready, source)
      PROVE  Authority(rt') /\ Frame(rt, rt')
  BY <1>1, <1>4, EvidenceAssumption, ApplyIntentSafe DEF Intent
<1>5. ASSUME IntentFenced(c)
      PROVE  Authority(rt') /\ Frame(rt, rt')
  <2>1. Quiet(rt, rt')
    BY <1>1, <1>5, PendingEffect DEF IntentFenced
  <2> QED
    BY <1>1, <2>1, QuietAuthority DEF Quiet, Held
<1>6. ASSUME NEW target \in Clients, NEW ready \in BOOLEAN, SyncplayReady(c, target, ready)
      PROVE  Authority(rt') /\ Frame(rt, rt')
  BY <1>1, <1>6, ApplySyncplayReadySafe DEF SyncplayReady
<1>7. ASSUME NEW g \in Generations, NEW r \in Revisions, NEW report \in Reports,
             TechnicalReport(c, g, r, report)
      PROVE  Authority(rt') /\ Frame(rt, rt')
  BY <1>1, <1>3, <1>7, ApplyTechnicalReportSafe DEF TechnicalReport
<1>8. Authority(rt') /\ Frame(rt, rt')
  BY <1>4, <1>5, <1>6, <1>7 DEF ReadinessStep
<1> QED
  BY <1>2, <1>8, FrameStep

\* `Playstate` keeps the pause authority and its membership facts.
LEMMA PlaystateSafe ==
  ASSUME Sound(rt), NEW c \in Clients, NEW paused \in BOOLEAN, NEW seek \in BOOLEAN,
         Playstate(c, paused, seek)
  PROVE  Authority(rt') /\ Frame(rt, rt')
<1>1. rt \in Runtimes /\ Authority(rt) /\ rt.barrier.phase # "Preparing"
  BY DEF Sound, Playstate
<1>2. CASE rt.paused # paused
  <2>1. rt' = V2Transport(rt, c, paused) \/ rt' = SyncplayTransport(rt, c, paused)
    BY <1>2 DEF Playstate
  <2> QED
    BY <1>1, <1>2, <2>1, V2TransportSafe, SyncplayTransportSafe
<1>3. CASE rt.paused = paused
  <2>1. rt' = MoveTransport(rt, rt.paused)
    BY <1>3 DEF Playstate
  <2> QED
    BY <1>1, <2>1, SeekSafe
<1> QED
  BY <1>2, <1>3

\* The end of a playlist is an automatic owner.
LEMMA EndOfPlaylistOwner ==
  LET o == AutomaticOwner("EndOfPlaylist")
  IN o \in Owners /\ o.kind \notin {"User", "ReadinessStartGate"}
<1>1. AutomaticOwner("EndOfPlaylist").kind = "EndOfPlaylist"
  BY DEF AutomaticOwner
<1> QED
  BY <1>1, OwnerTypes DEF OwnerKinds

\* `SelectionReset` keeps the pause authority and its membership facts.
LEMMA SelectionResetSafe ==
  ASSUME Sound(rt), NEW c \in Clients, SelectionReset(c)
  PROVE  Authority(rt') /\ Frame(rt, rt')
<1> DEFINE retired == RetireForSelection(rt)
           claimed == SetPauseOwner(retired, AutomaticOwner("EndOfPlaylist"))
           owned == IF rt.readiness.owner.kind # "User" THEN claimed ELSE retired
           reset == ReplaceReadinessGeneration(owned, 0, FALSE)
           t == [reset EXCEPT !.paused = TRUE]
<1>1. rt \in Runtimes /\ Authority(rt)
  BY DEF Sound
<1>2. /\ retired \in Runtimes /\ Authority(retired) /\ Frame(rt, retired)
      /\ retired.barrier.phase \in {"None", "Degraded"}
  BY <1>1, RetireForSelectionType, RetireForSelectionSafe
<1> HIDE DEF retired
<1>3. /\ claimed \in Runtimes /\ Authority(claimed) /\ Frame(retired, claimed)
      /\ Held(retired, claimed)
  BY <1>2, EndOfPlaylistOwner, AutomaticClaimSafe, SetPauseOwnerEffect
<1> HIDE DEF claimed
<1>4. /\ owned \in Runtimes /\ Authority(owned) /\ Frame(rt, owned)
      /\ owned.barrier.phase \in {"None", "Degraded"}
  BY <1>2, <1>3, FrameTransitive DEF Held
<1> HIDE DEF owned
<1>5. /\ reset \in Runtimes /\ Held(owned, reset)
      /\ owned.readiness.live =>
           reset.readiness.owner = NextPauseOwner(owned.readiness.owner, 0, FALSE)
      /\ ~owned.readiness.live => reset.readiness.owner = owned.readiness.owner
  BY <1>4, ReplaceReadinessGenerationType, ReplaceReadinessGenerationEffect
<1>6. NextPauseOwner(owned.readiness.owner, 0, FALSE) = owned.readiness.owner
  BY DEF NextPauseOwner
<1> HIDE DEF reset
<1>7. Quiet(owned, reset)
  BY <1>5, <1>6 DEF Quiet
<1>8. Authority(reset) /\ Frame(rt, reset) /\ reset.barrier.phase \in {"None", "Degraded"}
  BY <1>4, <1>7, QuietAuthority, FrameTransitive DEF Quiet, Held
<1>9. /\ t.paused = TRUE /\ t.readiness = reset.readiness /\ t.barrier = reset.barrier
      /\ t.place = reset.place
  BY <1>5, PausedEffect
<1> HIDE DEF t
<1>10. Authority(t) /\ Frame(rt, t)
  BY <1>8, <1>9 DEF Authority, Frame, IsMember
<1>11. rt' = t
  BY DEF SelectionReset, t, reset, owned, claimed, retired
<1> QED
  BY <1>10, <1>11

\* Every transport command keeps the invariant.
LEMMA TransportStepSafe ==
  ASSUME Sound(rt), NEW c \in Clients, TransportStep(c)
  PROVE  Sound(rt')
<1>1. TypeOK /\ rt \in Runtimes /\ Authority(rt)
  BY DEF Sound, TypeOK
<1>2. TypeOK'
  BY <1>1, TransportStepType
<1>3. ASSUME NEW paused \in BOOLEAN, NEW seek \in BOOLEAN, Playstate(c, paused, seek)
      PROVE  Authority(rt') /\ Frame(rt, rt')
  BY <1>3, PlaystateSafe
<1>4. ASSUME SelectionReset(c)
      PROVE  Authority(rt') /\ Frame(rt, rt')
  BY <1>4, SelectionResetSafe
<1>5. ASSUME SelectionNoted(c)
      PROVE  Authority(rt') /\ Frame(rt, rt')
  BY <1>1, <1>5, EndOfPlaylistOwner, AutomaticClaimSafe DEF SelectionNoted
<1>6. Authority(rt') /\ Frame(rt, rt')
  BY <1>3, <1>4, <1>5 DEF TransportStep
<1> QED
  BY <1>2, <1>6, FrameStep

\* Every expiry of the tick keeps the invariant.
LEMMA TickStepSafe ==
  ASSUME Sound(rt), TickStep
  PROVE  Sound(rt')
<1>1. TypeOK /\ rt \in Runtimes /\ Authority(rt)
  BY DEF Sound, TypeOK
<1>2. TypeOK'
  BY <1>1, TickStepType
<1>3. ASSUME PrepareDeadline
      PROVE  Authority(rt') /\ Frame(rt, rt')
  BY <1>1, <1>3, PrepareTimeoutSafe DEF PrepareDeadline
<1>4. ASSUME StartedDeadline
      PROVE  Authority(rt') /\ Frame(rt, rt')
  BY <1>1, <1>4, StartedTimeoutSafe DEF StartedDeadline
<1>5. ASSUME TombstoneExpires
      PROVE  Authority(rt') /\ Frame(rt, rt')
  <2>1. PICK id \in rt.tombstones : rt' = [rt EXCEPT !.tombstones = rt.tombstones \ {id}]
    BY <1>5 DEF TombstoneExpires
  <2>2. Quiet(rt, rt')
    BY <1>1, <2>1 DEF Runtimes, Quiet, Held, Frame, IsMember
  <2> QED
    BY <1>1, <2>2, QuietAuthority DEF Quiet, Held
<1>6. ASSUME NEW c \in Clients, PendingExpires(c)
      PROVE  Authority(rt') /\ Frame(rt, rt')
  <2>1. Quiet(rt, rt')
    BY <1>1, <1>6, PendingEffect DEF PendingExpires
  <2> QED
    BY <1>1, <2>1, QuietAuthority DEF Quiet, Held
<1>7. Authority(rt') /\ Frame(rt, rt')
  BY <1>3, <1>4, <1>5, <1>6 DEF TickStep
<1> QED
  BY <1>2, <1>7, FrameStep

\* The initial runtime satisfies the invariant.
LEMMA InitSound ==
  ASSUME Init
  PROVE  Sound(rt)
<1>1. rt \in Runtimes
  BY InitialRuntimeType DEF Init
<1>2. /\ rt.paused = TRUE /\ rt.barrier.phase = "None" /\ rt.readiness.owner.kind = "None"
      /\ rt.readiness.live = FALSE /\ \A c \in Clients : ~IsMember(rt, c)
  BY DEF Init, InitialRuntime, NoBarrier, NoReadiness, NoOwner, IsMember, NoRecord
<1> QED
  BY <1>1, <1>2 DEF Sound, Authority, Present, Populated

\* The inductive invariant: authority over the pause, members who are in the room, and a
\* coordinator that has members.
LEMMA SoundAlways == Spec => []Sound(rt)
<1>1. Init => Sound(rt)
  BY InitSound
<1>2. Sound(rt) /\ [Next]_vars => Sound(rt)'
  <2> SUFFICES ASSUME Sound(rt), [Next]_vars
               PROVE  Sound(rt')
    OBVIOUS
  <2>1. CASE UNCHANGED vars
    BY <2>1 DEF vars
  <2>2. ASSUME NEW c \in Clients,
               MemberStep(c) \/ BarrierStep(c) \/ ReadinessStep(c) \/ TransportStep(c)
        PROVE  Sound(rt')
    BY <2>2, MemberStepSafe, BarrierStepSafe, ReadinessStepSafe, TransportStepSafe
  <2>3. CASE TickStep
    BY <2>3, TickStepSafe
  <2> QED
    BY <2>1, <2>2, <2>3 DEF Next
<1> QED
  BY <1>1, <1>2, PTL DEF Spec

\* Whatever the players, the legacy clients, the staged evidence and the timeouts do, a
\* room whose start is being prepared is paused until that start commits, for any number
\* of connections and either kind of room (`handle_state`, `apply_readiness_intent`).
THEOREM PreparingIsHeld == Spec => []PreparingHoldsPause
<1>1. Sound(rt) => PreparingHoldsPause
  BY DEF Sound, Authority, PreparingHoldsPause
<1> QED
  BY <1>1, SoundAlways, PTL

\* The recorded pause owner never lies: a pause of a user, or of the start gate, is in
\* force, the gate's is that of the current generation, a user's pause never coexists
\* with a committed start, and a room without a coordinator records no owner
\* (`set_readiness_pause_owner` and all its callers).
THEOREM OwnershipIsTrue == Spec => []PauseOwnershipIsTrue
<1>1. Sound(rt) => PauseOwnershipIsTrue
  BY DEF Sound, Authority, PauseOwnershipIsTrue
<1> QED
  BY <1>1, SoundAlways, PTL
=============================================================================
