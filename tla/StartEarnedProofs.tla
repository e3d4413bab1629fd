-------------------------- MODULE StartEarnedProofs --------------------------
(***************************************************************************)
(* Two properties of a step of StartGate, proved for every instance: a     *)
(* user's pause yields only to users, and a start that commits is earned.  *)
(*                                                                         *)
(* The first follows the pause owner through every method with the         *)
(* relation Minds.  The second sets aside the sessions X that the step     *)
(* replaces or loses, and the participants Y whose confirmation no longer  *)
(* counts: Justified(s, X, Y) says that the runtime s, if its start has    *)
(* committed, deserves it of everybody else.  Each method keeps it, and    *)
(* the commit itself establishes it.  Both need that sequence numbers only *)
(* grow and that no participant of a start in preparation is degraded      *)
(* (Orderly), in addition to the invariant Coherent of the cohort.         *)
(***************************************************************************)
EXTENDS StartCohortProofs

-----------------------------------------------------------------------------
(* Sequence numbers, the phases of a start in preparation, a user's pause. *)

\* No session has a sequence number that was not handed out.
Sequenced(s) == \A c \in Clients : s.seq[c] <= s.nextSeq

\* While a start is prepared its participants wait, have confirmed, or are lost.
Readying(s) ==
  s.barrier.phase = "Preparing" =>
    \A c \in Clients : s.barrier.part[c] \in {"Absent", "Pending", "Ready", "Disconnected"}

\* The room is paused by a user.
UserPaused(s) == s.readiness.live /\ s.readiness.owner.kind = "User"

\* A method that hands out no sequence number and leaves a start in preparation orderly.
Orders(s, t) ==
  t.seq = s.seq /\ t.nextSeq = s.nextSeq /\ (Readying(s) => Readying(t))

\* A method that leaves a user's pause to the user.
Spares(s, t) == UserPaused(s) => UserPaused(t)

Minds(s, t) == Orders(s, t) /\ Spares(s, t)

\* Nothing happens.
LEMMA MindsReflexive ==
  ASSUME NEW s
  PROVE  Minds(s, s)
  BY DEF Minds, Orders, Spares

\* Methods that run one after the other.
LEMMA OrdersTransitive ==
  ASSUME NEW s, NEW t, NEW u, Orders(s, t), Orders(t, u)
  PROVE  Orders(s, u)
  BY DEF Orders

\* Methods that run one after the other.
LEMMA MindsTransitive ==
  ASSUME NEW s, NEW t, NEW u, Minds(s, t), Minds(t, u)
  PROVE  Minds(s, u)
  BY DEF Minds, Orders, Spares

\* A method that prepares no start.
LEMMA OrdersIf ==
  ASSUME NEW s, NEW t, t.seq = s.seq, t.nextSeq = s.nextSeq,
         t.barrier = s.barrier \/ t.barrier.phase # "Preparing"
  PROVE  Orders(s, t)
  BY DEF Orders, Readying

\* A method that prepares no start and keeps the owner.
LEMMA MindsIf ==
  ASSUME NEW s, NEW t, t.seq = s.seq, t.nextSeq = s.nextSeq,
         t.barrier = s.barrier \/ t.barrier.phase # "Preparing",
         t.readiness.live = s.readiness.live, t.readiness.owner = s.readiness.owner
  PROVE  Minds(s, t)
  BY OrdersIf DEF Minds, Spares, UserPaused

\* Retiring staged evidence.
LEMMA RetirePendingMinds ==
  ASSUME NEW s \in Runtimes
  PROVE  LET t == RetirePendingTransport(s)
         IN Minds(s, t) /\ t.barrier = s.barrier /\ t.readiness = s.readiness
  BY MindsIf DEF RetirePendingTransport, Runtimes

\* Writing an owner.
LEMMA OwnerMinds ==
  ASSUME NEW s \in Runtimes, NEW o \in Owners
  PROVE  LET t == SetPauseOwner(s, o)
         IN /\ Orders(s, t) /\ t.barrier = s.barrier
            /\ o.kind = "User" \/ s.readiness.owner.kind # "User" => Spares(s, t)
<1> DEFINE u == [s EXCEPT !.readiness.owner = o]
<1>1. /\ u \in Runtimes /\ u.seq = s.seq /\ u.nextSeq = s.nextSeq /\ u.barrier = s.barrier
      /\ u.readiness.live = s.readiness.live /\ u.readiness.owner = o
  BY OwnerUpdate, Components DEF Runtimes, Readinesses
<1> HIDE DEF u
<1>2. Minds(u, RetirePendingTransport(u)) /\ RetirePendingTransport(u).barrier = u.barrier
      /\ RetirePendingTransport(u).readiness = u.readiness
  BY <1>1, RetirePendingMinds
<1>3. Orders(s, u)
  BY <1>1, OrdersIf
<1>4. Orders(s, RetirePendingTransport(u))
  BY <1>2, <1>3, OrdersTransitive DEF Minds
<1>5. SetPauseOwner(s, o) = s \/ SetPauseOwner(s, o) = RetirePendingTransport(u)
  BY DEF SetPauseOwner, u
<1> QED
  BY <1>1, <1>2, <1>4, <1>5, MindsReflexive DEF Spares, UserPaused, Minds

\* Publishing the gate, closing it, giving the start up.
LEMMA GateMinds ==
  ASSUME NEW s \in Runtimes, NEW reason
  PROVE  /\ Minds(s, RefreshGate(s)) /\ RefreshGate(s).barrier = s.barrier
         /\ Minds(s, ClearGate(s)) /\ ClearGate(s).barrier = s.barrier
         /\ Minds(s, MarkGateDegraded(s, reason))
         /\ MarkGateDegraded(s, reason).barrier = s.barrier
<1>1. ASSUME NEW g
      PROVE  LET t == [s EXCEPT !.readiness.gate = g]
             IN Minds(s, t) /\ t.barrier = s.barrier
  <2>1. LET t == [s EXCEPT !.readiness.gate = g]
        IN /\ t.seq = s.seq /\ t.nextSeq = s.nextSeq /\ t.barrier = s.barrier
           /\ t.readiness.live = s.readiness.live /\ t.readiness.owner = s.readiness.owner
    BY Components DEF Runtimes, Readinesses
  <2> QED
    BY <2>1, MindsIf
<1>2. ASSUME NEW g, NEW o, s.readiness.owner.kind # "User" \/ o = s.readiness.owner
      PROVE  LET t == SetGateAndOwner(s, g, o)
             IN Minds(s, t) /\ t.barrier = s.barrier
  <2> DEFINE r == [s.readiness EXCEPT !.gate = g, !.owner = o]
             t == [s EXCEPT !.readiness = r]
  <2>1. r.live = s.readiness.live /\ r.owner = o
    BY Components DEF Readinesses
  <2> HIDE DEF r
  <2>2. /\ t.seq = s.seq /\ t.nextSeq = s.nextSeq /\ t.barrier = s.barrier
        /\ t.readiness = r
    BY DEF Runtimes
  <2>3. SetGateAndOwner(s, g, o) = t
    BY DEF SetGateAndOwner, r
  <2> HIDE DEF t
  <2>4. Orders(s, t)
    BY <2>2, OrdersIf
  <2>5. Spares(s, t)
    BY <1>2, <2>1, <2>2 DEF Spares, UserPaused
  <2> QED
    BY <2>2, <2>3, <2>4, <2>5 DEF Minds
<1>3. Minds(s, RefreshGate(s)) /\ RefreshGate(s).barrier = s.barrier
  BY <1>1, MindsReflexive DEF RefreshGate
<1>4. Minds(s, MarkGateDegraded(s, reason)) /\ MarkGateDegraded(s, reason).barrier = s.barrier
  BY <1>1, MindsReflexive DEF MarkGateDegraded
<1>5. Minds(s, ClearGate(s)) /\ ClearGate(s).barrier = s.barrier
  <2>1. CASE s.readiness.owner.kind = "ReadinessStartGate"
    BY <2>1, <1>2, MindsReflexive DEF ClearGate
  <2>2. CASE s.readiness.owner.kind # "ReadinessStartGate"
    BY <2>2, <1>2, MindsReflexive DEF ClearGate
  <2> QED
    BY <2>1, <2>2
<1> QED
  BY <1>3, <1>4, <1>5

\* What a commit writes.
Committed(s, t, timedOut) ==
  /\ t.barrier.phase = "Committed" /\ t.barrier.req = s.barrier.req
  /\ t.barrier.initiator = s.barrier.initiator
  /\ \A c \in Clients : t.barrier.part[c] = PhaseAtCommit(s.barrier.part[c], timedOut)
  /\ t.place = s.place /\ t.caps = s.caps /\ t.fenced = s.fenced
  /\ t.seq = s.seq /\ t.nextSeq = s.nextSeq
  /\ t.readiness.part = s.readiness.part /\ t.readiness.live = s.readiness.live

\* `commit_playback_barrier`.
LEMMA CommitWrites ==
  ASSUME NEW s \in Runtimes, NEW timedOut \in BOOLEAN
  PROVE  LET t == Commit(s, timedOut)
         IN \/ t = s /\ (s.barrier.phase # "Preparing" \/ CommitBlocked(s))
            \/ /\ s.barrier.phase = "Preparing" /\ ~CommitBlocked(s)
               /\ Committed(s, t, timedOut)
<1> DEFINE part == [c \in Clients |-> PhaseAtCommit(s.barrier.part[c], timedOut)]
           b == [s.barrier EXCEPT !.part = part, !.phase = "Committed",
                                  !.rev = s.nextRev + 1, !.gated = s.readiness.live]
           r == [s EXCEPT !.barrier = b, !.nextRev = s.nextRev + 1, !.paused = FALSE]
           u == RetirePendingTransport(r)
           t == MarkGateCommitted(u)
<1>1. CASE s.barrier.phase # "Preparing" \/ CommitBlocked(s)
  BY <1>1 DEF Commit
<1>2. CASE s.barrier.phase = "Preparing" /\ ~CommitBlocked(s)
  <2>0. Commit(s, timedOut) = t
    BY <1>2 DEF Commit
  <2>1. s.barrier \in Lifecycles /\ s.barrier.part \in [Clients -> ParticipantPhases]
    BY <1>2, LifecycleOf
  <2>2. s.nextRev + 1 \in Nat /\ s.readiness.live \in BOOLEAN
    BY Components, ReadinessComponents
  <2>3. /\ part \in [Clients -> ParticipantPhases]
        /\ \A c \in Clients : part[c] = PhaseAtCommit(s.barrier.part[c], timedOut)
    BY <2>1 DEF PhaseAtCommit, ParticipantPhases
  <2> HIDE DEF part
  <2>4. /\ b \in Barriers /\ b.phase = "Committed" /\ b.req = s.barrier.req
        /\ b.part = part /\ b.initiator = s.barrier.initiator
    BY <2>1, <2>2, <2>3 DEF Lifecycles, Barriers, LifecyclePhases
  <2> HIDE DEF b
  <2>5. /\ r \in Runtimes /\ r.barrier = b /\ r.readiness = s.readiness
        /\ r.seq = s.seq /\ r.nextSeq = s.nextSeq
        /\ r.place = s.place /\ r.caps = s.caps /\ r.fenced = s.fenced
    BY <2>2, <2>4 DEF Runtimes
  <2> HIDE DEF r
  <2>6. /\ u \in Runtimes /\ u.barrier = b /\ u.readiness = s.readiness
        /\ u.seq = s.seq /\ u.nextSeq = s.nextSeq
        /\ u.place = s.place /\ u.caps = s.caps /\ u.fenced = s.fenced
    BY <2>5, RetirePendingTransportType DEF RetirePendingTransport, Runtimes
  <2> HIDE DEF u
  <2>7. ASSUME NEW g, NEW o
        PROVE  LET x == RetirePendingTransport(SetGateAndOwner(u, g, o))
               IN /\ x.barrier = b /\ x.seq = s.seq /\ x.nextSeq = s.nextSeq
                  /\ x.place = s.place /\ x.caps = s.caps /\ x.fenced = s.fenced
                  /\ x.readiness.part = s.readiness.part
                  /\ x.readiness.live = s.readiness.live
    <3> DEFINE h == [u.readiness EXCEPT !.gate = g, !.owner = o]
               y == [u EXCEPT !.readiness = h]
    <3>1. h.part = s.readiness.part /\ h.live = s.readiness.live
      BY <2>6, Components DEF Readinesses
    <3> HIDE DEF h
    <3>2. /\ y.barrier = b /\ y.seq = s.seq /\ y.nextSeq = s.nextSeq /\ y.readiness = h
          /\ y.place = s.place /\ y.caps = s.caps /\ y.fenced = s.fenced
          /\ DOMAIN y = DOMAIN u
      BY <2>6 DEF Runtimes
    <3> HIDE DEF y
    <3>3. LET x == RetirePendingTransport(y)
          IN /\ x.barrier = b /\ x.seq = s.seq /\ x.nextSeq = s.nextSeq /\ x.readiness = h
             /\ x.place = s.place /\ x.caps = s.caps /\ x.fenced = s.fenced
      BY <2>6, <3>2 DEF RetirePendingTransport, Runtimes
    <3> QED
      BY <3>1, <3>3 DEF SetGateAndOwner, y, h
  <2>8. /\ t.barrier = b /\ t.seq = s.seq /\ t.nextSeq = s.nextSeq
        /\ t.place = s.place /\ t.caps = s.caps /\ t.fenced = s.fenced
        /\ t.readiness.part = s.readiness.part /\ t.readiness.live = s.readiness.live
    BY <2>6, <2>7 DEF MarkGateCommitted
  <2> HIDE DEF t
  <2>9. Committed(s, t, timedOut)
    BY <2>3, <2>4, <2>8 DEF Committed
  <2> QED
    BY <1>2, <2>0, <2>9
<1> QED
  BY <1>1, <1>2

\* No commit takes a pause from a user.
LEMMA CommitMinds ==
  ASSUME NEW s \in Runtimes, NEW timedOut \in BOOLEAN
  PROVE  Minds(s, Commit(s, timedOut))
<1> DEFINE t == Commit(s, timedOut)
<1>1. CASE t = s
  BY <1>1, MindsReflexive
<1>2. CASE ~CommitBlocked(s) /\ Committed(s, t, timedOut)
  <2>1. Orders(s, t)
    BY <1>2, OrdersIf DEF Committed
  <2>2. ~UserPaused(s)
    BY <1>2 DEF CommitBlocked, GateOwnsPause, GateOwner, UserPaused
  <2> QED
    BY <2>1, <2>2 DEF Minds, Spares
<1> QED
  BY <1>1, <1>2, CommitWrites

\* `maybe_commit_readiness_gate`, alone and after the gate is published.
LEMMA MaybeCommitMinds ==
  ASSUME NEW s \in Runtimes
  PROVE  Minds(s, MaybeCommit(s)) /\ Minds(s, MaybeCommit(RefreshGate(s)))
<1>1. ASSUME NEW x \in Runtimes
      PROVE  Minds(x, MaybeCommit(x))
  BY CommitMinds, MindsReflexive DEF MaybeCommit
<1>2. RefreshGate(s) \in Runtimes /\ Minds(s, RefreshGate(s))
  BY RefreshGateType, GateMinds
<1> QED
  BY <1>1, <1>2, MindsTransitive

\* Entering a phase that is not a preparation.
LEMMA EnterPhaseMinds ==
  ASSUME NEW s \in Runtimes, NEW h, NEW part, h # "Preparing"
  PROVE  LET t == EnterPhase(s, h, part) IN Minds(s, t) /\ t.barrier.phase = h
<1> DEFINE b == [s.barrier EXCEPT !.part = part, !.phase = h]
           t == [s EXCEPT !.barrier = b]
<1>1. b.phase = h
  BY Components DEF Barriers, Lifecycles, NoBarrier
<1> HIDE DEF b
<1>2. /\ t.seq = s.seq /\ t.nextSeq = s.nextSeq /\ t.barrier = b
      /\ t.readiness = s.readiness
  BY DEF Runtimes
<1>3. EnterPhase(s, h, part) = t
  BY DEF EnterPhase, b
<1> HIDE DEF t
<1> QED
  BY <1>1, <1>2, <1>3, MindsIf

\* Writing a participant's phase.
LEMMA ParticipantMinds ==
  ASSUME NEW s \in Runtimes, NEW c \in Clients, NEW p,
         s.barrier.phase = "Preparing" => p \in {"Pending", "Ready", "Disconnected"}
  PROVE  Minds(s, [s EXCEPT !.barrier.part[c] = p])
<1> DEFINE b == [s.barrier EXCEPT !.part[c] = p]
           t == [s EXCEPT !.barrier.part[c] = p]
<1>1. b.phase = s.barrier.phase /\ b.part = [s.barrier.part EXCEPT ![c] = p]
  BY Components DEF Barriers, Lifecycles, NoBarrier
<1>2. s.barrier.part \in [Clients -> ParticipantPhases]
  BY Components, BarrierComponents
<1>3. \A d \in Clients : b.part[d] = IF d = c THEN p ELSE s.barrier.part[d]
  BY <1>1, <1>2
<1> HIDE DEF b
<1>4. /\ t.seq = s.seq /\ t.nextSeq = s.nextSeq /\ t.barrier = b
      /\ t.readiness = s.readiness
  BY DEF Runtimes, b
<1> HIDE DEF t
<1>5. Readying(s) => Readying(t)
  BY <1>1, <1>3, <1>4 DEF Readying
<1>6. Minds(s, t)
  BY <1>4, <1>5 DEF Minds, Orders, Spares, UserPaused
<1> QED
  BY <1>6 DEF t

\* A participant's confirmation.
LEMMA RecordReadyMinds ==
  ASSUME NEW s \in Runtimes, NEW c \in Clients, NEW g \in Nat, NEW isReady \in BOOLEAN
  PROVE  Minds(s, RecordReady(s, c, g, isReady))
<1> DEFINE p == IF isReady THEN "Ready" ELSE "Pending"
           recorded == [s EXCEPT !.barrier.part[c] = p]
           t == RecordReady(s, c, g, isReady)
<1>1. CASE t = s
  BY <1>1, MindsReflexive
<1>2. CASE /\ s.barrier.phase = "Preparing"
           /\ t = IF PolicySatisfied(recorded) THEN Commit(recorded, FALSE) ELSE recorded
  <2>1. recorded \in Runtimes /\ Minds(s, recorded)
    BY <1>2, ParticipantRuntime, ParticipantMinds DEF ParticipantPhases
  <2> HIDE DEF recorded
  <2>2. Minds(recorded, Commit(recorded, FALSE))
    BY <2>1, CommitMinds
  <2> QED
    BY <1>2, <2>1, <2>2, MindsTransitive
<1> QED
  BY <1>1, <1>2 DEF RecordReady

\* A participant's start.
LEMMA RecordStartedMinds ==
  ASSUME NEW s \in Runtimes, NEW c \in Clients, NEW g \in Nat, NEW rev \in Nat
  PROVE  Minds(s, RecordStarted(s, c, g, rev))
<1> DEFINE recorded == [s EXCEPT !.barrier.part[c] = "Started"]
           completed == [recorded EXCEPT !.barrier.phase = "Complete"]
           t == RecordStarted(s, c, g, rev)
<1>1. CASE t = s
  BY <1>1, MindsReflexive
<1>2. CASE s.barrier.phase = "Committed" /\ t \in {recorded, ClearGate(completed)}
  <2>1. recorded \in Runtimes /\ Minds(s, recorded)
    BY <1>2, ParticipantRuntime, ParticipantMinds DEF ParticipantPhases
  <2>2. recorded.barrier.phase = "Committed"
    BY <1>2, ParticipantEffect DEF Quiet, Held
  <2> HIDE DEF recorded
  <2>3. /\ completed \in Runtimes /\ completed.seq = recorded.seq
        /\ completed.nextSeq = recorded.nextSeq /\ completed.readiness = recorded.readiness
        /\ completed.barrier.phase = "Complete"
    <3>1. completed \in Runtimes
      BY <2>1, <2>2, PhaseRuntime DEF LifecyclePhases
    <3>2. completed.barrier.phase = "Complete"
      BY <2>1, PhaseEffect DEF PhaseOnly
    <3>3. /\ completed.seq = recorded.seq /\ completed.nextSeq = recorded.nextSeq
          /\ completed.readiness = recorded.readiness
      BY <2>1 DEF Runtimes
    <3> QED
      BY <3>1, <3>2, <3>3
  <2> HIDE DEF completed
  <2>4. Minds(recorded, completed)
    BY <2>3, MindsIf
  <2>5. Minds(completed, ClearGate(completed))
    BY <2>3, GateMinds
  <2> QED
    BY <1>2, <2>1, <2>4, <2>5, MindsTransitive
<1> QED
  BY <1>1, <1>2 DEF RecordStarted

\* The two deadlines.
LEMMA TimeoutMinds ==
  ASSUME NEW s \in Runtimes
  PROVE  /\ s.barrier.phase = "Preparing" => Minds(s, PrepareTimeout(s))
         /\ s.barrier.phase = "Committed" => Minds(s, StartedTimeout(s))
<1>1. ASSUME s.barrier.phase # "None", NEW h \in LifecyclePhases \ {"Preparing"}
      PROVE  LET x == FinishPrepareTimeout(s, h)
             IN Minds(s, MarkGateDegraded(x, "TimedOut"))
  <2>1. FinishPrepareTimeout(s, h) \in Runtimes
    BY <1>1, FinishPrepareTimeoutType
  <2>2. Minds(s, FinishPrepareTimeout(s, h))
    BY <1>1, EnterPhaseMinds DEF FinishPrepareTimeout
  <2> QED
    BY <2>1, <2>2, GateMinds, MindsTransitive
<1>2. ASSUME s.barrier.phase = "Preparing"
      PROVE  Minds(s, PrepareTimeout(s))
  <2>1. s.barrier.req.timeoutAction \in TimeoutActions
    BY <1>2, LifecycleOf, RequestsAssumption
  <2>2. /\ Minds(s, MarkGateDegraded(FinishPrepareTimeout(s, "Degraded"), "TimedOut"))
        /\ Minds(s, MarkGateDegraded(FinishPrepareTimeout(s, "AwaitingDecision"), "TimedOut"))
    BY <1>1, <1>2 DEF LifecyclePhases
  <2>3. Minds(s, Commit(s, TRUE))
    BY CommitMinds
  <2> QED
    BY <2>1, <2>2, <2>3 DEF PrepareTimeout, TimeoutActions
<1>3. ASSUME s.barrier.phase = "Committed"
      PROVE  Minds(s, StartedTimeout(s))
  <2> DEFINE part == [c \in Clients |->
                        IF s.barrier.part[c] \in {"Pending", "Ready"}
                        THEN "StartedAckTimedOut" ELSE s.barrier.part[c]]
             x == EnterPhase(s, "Degraded", part)
  <2>1. part \in [Clients -> ParticipantPhases]
    BY <1>3, LifecycleOf DEF ParticipantPhases
  <2> HIDE DEF part
  <2>2. x \in Runtimes /\ Minds(s, x)
    BY <1>3, <2>1, EnterPhaseType, EnterPhaseMinds DEF LifecyclePhases
  <2>3. StartedTimeout(s) = ClearGate(x)
    BY DEF StartedTimeout, part
  <2> HIDE DEF x
  <2> QED
    BY <2>2, <2>3, GateMinds, MindsTransitive
<1> QED
  BY <1>2, <1>3

\* Retiring a lifecycle: by a decision, a user's pause or a selection.
LEMMA RetireMinds ==
  ASSUME NEW s \in Runtimes, NEW c \in Clients
  PROVE  /\ Minds(s, RetireAwaitingDecision(s, c))
         /\ Minds(s, RetireCommittedForUserPause(s))
         /\ Minds(s, RetireForSelection(s))
<1>1. Minds(s, RetireAwaitingDecision(s, c))
  <2> DEFINE t == [s EXCEPT !.barrier.phase = "Degraded"]
  <2>1. t.barrier.phase = "Degraded" /\ t.seq = s.seq /\ t.nextSeq = s.nextSeq
        /\ t.readiness = s.readiness
    BY PhaseEffect DEF PhaseOnly, Runtimes
  <2> HIDE DEF t
  <2>2. Minds(s, t)
    BY <2>1, MindsIf
  <2> QED
    BY <2>2, MindsReflexive DEF RetireAwaitingDecision, t
<1>2. Minds(s, RetireCommittedForUserPause(s))
  <2>1. CASE s.barrier.phase # "Committed"
    BY <2>1, MindsReflexive DEF RetireCommittedForUserPause
  <2>2. CASE s.barrier.phase = "Committed"
    <3> DEFINE part == [d \in Clients |->
                          IF s.barrier.part[d] \in {"Absent", "Started"}
                          THEN s.barrier.part[d] ELSE "Degraded"]
               x == EnterPhase(s, "Degraded", part)
    <3>1. part \in [Clients -> ParticipantPhases]
      BY <2>2, LifecycleOf DEF ParticipantPhases
    <3> HIDE DEF part
    <3>2. x \in Runtimes /\ Minds(s, x)
      BY <2>2, <3>1, EnterPhaseType, EnterPhaseMinds DEF LifecyclePhases
    <3>3. RetireCommittedForUserPause(s) = ClearGate(x)
      BY <2>2 DEF RetireCommittedForUserPause, part
    <3> HIDE DEF x
    <3> QED
      BY <3>2, <3>3, GateMinds, MindsTransitive
  <2> QED
    BY <2>1, <2>2
<1>3. Minds(s, RetireForSelection(s))
  BY EnterPhaseMinds, MindsReflexive DEF RetireForSelection
<1> QED
  BY <1>1, <1>2, <1>3

\* A participant that leaves.
LEMMA MarkMinds ==
  ASSUME NEW s \in Runtimes, NEW c \in Clients
  PROVE  Minds(s, MarkParticipantDisconnected(s, c))
<1> DEFINE marked == [s EXCEPT !.barrier.part[c] = "Disconnected"]
<1>1. CASE ~Active(s.barrier) \/ s.barrier.part[c] = "Absent"
  BY <1>1, MindsReflexive DEF MarkParticipantDisconnected
<1>2. CASE ~(~Active(s.barrier) \/ s.barrier.part[c] = "Absent")
  <2>1. marked \in Runtimes /\ Minds(s, marked)
    BY <1>2, ParticipantRuntime, ParticipantMinds DEF ParticipantPhases, Active
  <2>2. MarkParticipantDisconnected(s, c) = MaybeCommit(marked)
    BY <1>2 DEF MarkParticipantDisconnected
  <2> HIDE DEF marked
  <2> QED
    BY <2>1, <2>2, MaybeCommitMinds, MindsTransitive
<1> QED
  BY <1>1, <1>2

\* A start that changes hands.
LEMMA RebindMinds ==
  ASSUME NEW s \in Runtimes, s.barrier.phase # "None", NEW c \in Clients
  PROVE  Minds(s, Rebind(s, c))
<1> DEFINE b == s.barrier
           old == b.initiator
           inherited == IF b.part[old] # "Absent" THEN b.part[old]
                        ELSE IF b.part[c] # "Absent" THEN b.part[c] ELSE "Pending"
           restored == IF inherited = "Disconnected" /\ b.phase = "Preparing" THEN "Pending"
                       ELSE IF inherited = "Disconnected" /\ b.phase = "Committed"
                       THEN "Ready" ELSE inherited
           part == [b.part EXCEPT ![old] = "Absent", ![c] = restored]
           superseded == IF old # c /\ s.place[old] \in {"Room", "Elsewhere"}
                         THEN {old} ELSE {}
           rebound == [b EXCEPT !.part = part, !.initiator = c, !.initiatorSeq = s.seq[c]]
           t == [s EXCEPT !.barrier = rebound, !.fenced = s.fenced \cup superseded]
<1>1. b \in Lifecycles /\ b.part \in [Clients -> ParticipantPhases] /\ old \in Clients
  BY LifecycleOf DEF Lifecycles
<1>2. Readying(s) /\ b.phase = "Preparing" =>
        restored \in {"Absent", "Pending", "Ready", "Disconnected"}
  BY <1>1 DEF Readying
<1> HIDE DEF restored
<1>3. \A d \in Clients : part[d] \in {"Absent", restored, b.part[d]}
  BY <1>1
<1> HIDE DEF part
<1>4. rebound.phase = b.phase /\ rebound.part = part
  BY <1>1 DEF Lifecycles
<1> HIDE DEF rebound, superseded
<1>5. t.seq = s.seq /\ t.nextSeq = s.nextSeq /\ t.readiness = s.readiness /\ t.barrier = rebound
  BY DEF Runtimes
<1>6. Rebind(s, c) \in {s, t}
  BY DEF Rebind, rebound, part, restored, superseded
<1> HIDE DEF t
<1>7. Readying(s) => Readying(t)
  BY <1>2, <1>3, <1>4, <1>5 DEF Readying
<1>8. Minds(s, t)
  BY <1>5, <1>7 DEF Minds, Orders, Spares, UserPaused
<1> QED
  BY <1>6, <1>8, MindsReflexive

\* `replace_readiness_generation`.
LEMMA RenewMinds ==
  ASSUME NEW s \in Runtimes, NEW g \in Nat, NEW owns \in BOOLEAN
  PROVE  Minds(s, ReplaceReadinessGeneration(s, g, owns))
<1> DEFINE advanced == RetirePendingTransport(s)
           t == ReplaceReadinessGeneration(s, g, owns)
<1>1. /\ advanced \in Runtimes /\ advanced.seq = s.seq /\ advanced.nextSeq = s.nextSeq
  BY RetirePendingTransportType DEF RetirePendingTransport, Runtimes
<1>2. ASSUME NEW r
      PROVE  LET u == [advanced EXCEPT !.readiness = r]
             IN RefreshGate(u).seq = s.seq /\ RefreshGate(u).nextSeq = s.nextSeq
  <2> DEFINE u == [advanced EXCEPT !.readiness = r]
  <2>1. u.seq = s.seq /\ u.nextSeq = s.nextSeq /\ DOMAIN u = DOMAIN advanced
    BY <1>1 DEF Runtimes
  <2> HIDE DEF u
  <2>2. \A h : LET v == [u EXCEPT !.readiness.gate = h]
               IN v.seq = s.seq /\ v.nextSeq = s.nextSeq
    BY <1>1, <2>1 DEF Runtimes
  <2>3. RefreshGate(u).seq = s.seq /\ RefreshGate(u).nextSeq = s.nextSeq
    BY <2>1, <2>2 DEF RefreshGate
  <2> QED
    BY <2>3 DEF u
<1> HIDE DEF advanced
<1>3. t.seq = s.seq /\ t.nextSeq = s.nextSeq
  BY <1>1, <1>2 DEF ReplaceReadinessGeneration, advanced
<1>4. Renews(s, t, g)
  BY RenewEffect
<1>5. /\ Held(s, t)
      /\ s.readiness.live => t.readiness.owner = NextPauseOwner(s.readiness.owner, g, owns)
  BY ReplaceReadinessGenerationEffect
<1> HIDE DEF t
<1>6. Orders(s, t)
  BY <1>3, <1>4, OrdersIf DEF Renews
<1>7. Spares(s, t)
  BY <1>5 DEF Spares, UserPaused, Held, Frame, NextPauseOwner
<1> QED
  BY <1>6, <1>7 DEF Minds, t

\* A new generation.
LEMMA OpenGenerationMinds ==
  ASSUME NEW s \in Runtimes, NEW c \in Clients, NEW q \in Requests
  PROVE  Minds(s, OpenGeneration(s, c, q))
<1> DEFINE cohort == CaptureCohort(s)
           part == [d \in Clients |-> IF d \in cohort THEN "Pending" ELSE "Absent"]
           excluded == ClientsInRoom(s) \ (s.fenced \cup cohort)
           g == s.nextGen + 1
           lifecycle ==
             [phase |-> "Preparing", gen |-> g, req |-> q,
              initiator |-> c, initiatorSeq |-> s.seq[c], part |-> part,
              excluded |-> excluded, rev |-> 0, gated |-> FALSE]
           tombstones == s.tombstones \cup Displaced(s, q)
           u == [s EXCEPT !.nextGen = g, !.tombstones = tombstones,
                          !.paused = TRUE, !.barrier = lifecycle]
           t == OpenGeneration(s, c, q)
<1>1. g \in Nat /\ s.seq[c] \in Nat
  BY Components
<1>2. part \in [Clients -> ParticipantPhases] /\ excluded \subseteq Clients
  BY DEF ParticipantPhases, ClientsInRoom
<1>3. tombstones \subseteq Nat
  <2>1. CASE s.barrier.phase = "None"
    BY <2>1, Components DEF Displaced
  <2>2. CASE s.barrier.phase # "None"
    BY <2>2, Components, LifecycleOf, RequestsAssumption DEF Displaced
  <2> QED
    BY <2>1, <2>2
<1> HIDE DEF part, excluded, tombstones, g
<1>4. lifecycle \in Barriers
  BY <1>1, <1>2 DEF Barriers, Lifecycles, LifecyclePhases
<1> HIDE DEF lifecycle
<1>5. /\ u \in Runtimes /\ u.seq = s.seq /\ u.nextSeq = s.nextSeq
      /\ u.readiness = s.readiness
  BY <1>1, <1>3, <1>4 DEF Runtimes
<1>6. t = ReplaceReadinessGeneration(u, g, TRUE)
  BY DEF OpenGeneration, lifecycle, part, excluded, cohort, tombstones, g
<1> HIDE DEF u
<1>7. Minds(u, t)
  BY <1>1, <1>5, <1>6, RenewMinds
<1>8. Readying(t)
  <2>1. Opens(s, t, c, q)
    BY OpenGenerationEffect
  <2> HIDE DEF t
  <2>2. \A d \in Clients : t.barrier.part[d] \in {"Absent", "Pending"}
    BY <2>1 DEF Opens
  <2> QED
    BY <2>2 DEF Readying
<1> HIDE DEF t
<1>9. Minds(s, t)
  BY <1>5, <1>7, <1>8 DEF Minds, Orders, Spares, UserPaused
<1> QED
  BY <1>9 DEF t

\* `start_playback_barrier` and `handle_playback_barrier_recovery`.
LEMMA StartPlaybackBarrierMinds ==
  ASSUME NEW s \in Runtimes, NEW c \in Clients, NEW q \in Requests
  PROVE  /\ Minds(s, StartPlaybackBarrier(s, c, q))
         /\ Minds(s, RecoverPlaybackBarrier(s, c, q))
<1>1. ASSUME NEW n \in Nat
      PROVE  LET x == [s EXCEPT !.nonce[c] = n]
             IN x \in Runtimes /\ Minds(s, x) /\ x.barrier = s.barrier
  <2> DEFINE x == [s EXCEPT !.nonce[c] = n]
  <2>1. /\ x.seq = s.seq /\ x.nextSeq = s.nextSeq /\ x.barrier = s.barrier
        /\ x.readiness = s.readiness
    BY DEF Runtimes
  <2>2. x \in Runtimes
    BY NonceUpdate
  <2> HIDE DEF x
  <2>3. x \in Runtimes /\ Minds(s, x) /\ x.barrier = s.barrier
    BY <2>1, <2>2, MindsIf
  <2> QED
    BY <2>3 DEF x
<1>2. Larger(s.nonce[c], q.nonce) \in Nat /\ q.nonce \in Nat
  BY Components, RequestsAssumption DEF Larger
<1> DEFINE again == [s EXCEPT !.nonce[c] = Larger(s.nonce[c], q.nonce)]
           consumed == [s EXCEPT !.nonce[c] = q.nonce]
<1>3. again \in Runtimes /\ Minds(s, again) /\ again.barrier = s.barrier
  BY <1>1, <1>2
<1>4. consumed \in Runtimes /\ Minds(s, consumed)
  BY <1>1, <1>2
<1>5. StartPlaybackBarrier(s, c, q) \in {s, consumed, OpenGeneration(consumed, c, q)}
      \/ (s.barrier.phase # "None" /\ StartPlaybackBarrier(s, c, q) = Rebind(again, c))
  BY DEF StartPlaybackBarrier
<1> HIDE DEF again, consumed
<1>6. Minds(s, OpenGeneration(consumed, c, q))
  BY <1>4, OpenGenerationMinds, MindsTransitive
<1>7. s.barrier.phase # "None" => Minds(s, Rebind(again, c)) /\ Minds(s, Rebind(s, c))
  BY <1>3, RebindMinds, MindsTransitive
<1>8. \/ RecoverPlaybackBarrier(s, c, q) = s
      \/ s.barrier.phase # "None" /\ RecoverPlaybackBarrier(s, c, q) = Rebind(s, c)
  BY DEF RecoverPlaybackBarrier, SameOperation
<1> QED
  BY <1>4, <1>5, <1>6, <1>7, <1>8, MindsReflexive

\* `reconcile_mixed_readiness_cohort_state`, alone and with what follows it.
LEMMA CohortMinds ==
  ASSUME NEW s \in Runtimes
  PROVE  Minds(s, ReconcileCohort(s)) /\ Minds(s, RefreshMixedCohort(s))
<1> DEFINE t == ReconcileCohort(s)
<1>1. Minds(s, t)
  <2>1. CASE ~s.readiness.live
    BY <2>1, MindsReflexive DEF ReconcileCohort
  <2>2. CASE s.readiness.live
    <3>1. ASSUME NEW part, NEW b
          PROVE  LET x == [s EXCEPT !.readiness.part = part, !.barrier = b]
                 IN x.seq = s.seq /\ x.nextSeq = s.nextSeq /\ x.barrier = b
      BY DEF Runtimes
    <3>2. t.seq = s.seq /\ t.nextSeq = s.nextSeq
      BY <2>2, <3>1 DEF ReconcileCohort
    <3>3. ASSUME s.barrier.phase # "Preparing"
          PROVE  t.barrier = s.barrier
      BY <2>2, <3>1, <3>3 DEF ReconcileCohort
    <3>4. ASSUME s.barrier.phase = "Preparing"
          PROVE  \A c \in Clients : t.barrier.part[c] \in {"Absent", "Pending", s.barrier.part[c]}
      <4> DEFINE role(c) == IF c \in (ClientsInRoom(s) \cap StartCapable(s)) \ s.fenced
                            THEN "Required" ELSE "ExcludedUnsupported"
                 record(c) == s.readiness.part[c]
                 part == [c \in Clients |->
                            IF record(c).role \in {"Absent", role(c)} THEN record(c)
                            ELSE Recompute([record(c) EXCEPT !.role = role(c)], s.readiness.gen)]
                 required == {c \in Clients : part[c].role = "Required"}
                 phase(c) == IF c \notin required THEN "Absent"
                             ELSE IF s.barrier.part[c] = "Absent" THEN "Pending"
                             ELSE s.barrier.part[c]
                 phases == [c \in Clients |-> phase(c)]
                 excluded == ClientsInRoom(s) \ (required \cup s.fenced)
                 b == [s.barrier EXCEPT !.part = phases, !.excluded = excluded]
      <4>1. t = [s EXCEPT !.readiness.part = part, !.barrier = b]
        BY <2>2, <3>4 DEF ReconcileCohort
      <4>2. \A c \in Clients : phases[c] \in {"Absent", "Pending", s.barrier.part[c]}
        OBVIOUS
      <4> HIDE DEF phases, excluded, part
      <4>3. b.part = phases
        BY Components DEF Barriers, Lifecycles, NoBarrier
      <4> HIDE DEF b
      <4>4. t.barrier = b
        BY <3>1, <4>1
      <4> HIDE DEF t
      <4> QED
        BY <4>2, <4>3, <4>4
    <3>5. Quiet(s, t)
      BY ReconcileCohortEffect
    <3> HIDE DEF t
    <3>6. Readying(s) => Readying(t)
      BY <3>3, <3>4, <3>5 DEF Readying, Quiet, Held
    <3> QED
      BY <3>2, <3>5, <3>6 DEF Minds, Orders, Spares, UserPaused, Quiet, Held, Frame
  <2> QED
    BY <2>1, <2>2
<1>2. t \in Runtimes
  BY ReconcileCohortType
<1>3. Minds(s, MaybeCommit(RefreshGate(t)))
  BY <1>1, <1>2, MaybeCommitMinds, MindsTransitive
<1> QED
  BY <1>1, <1>3, MindsReflexive DEF RefreshMixedCohort

\* `attach_readiness_membership` claims the pause only from another gate or from nobody.
LEMMA AttachMinds ==
  ASSUME NEW s \in Runtimes, NEW c \in Clients, NEW token \in Clients \cup {NoClient},
         NEW seedReady \in BOOLEAN
  PROVE  Minds(s, Attach(s, c, token, seedReady))
<1> DEFINE kept == IF token = NoClient THEN NoDetached ELSE s.detached[token]
           detached == IF kept.kept THEN [s.detached EXCEPT ![token] = NoDetached]
                       ELSE s.detached
           owner == IF kept.kept /\ s.readiness.owner = UserOwner(token)
                    THEN UserOwner(c) ELSE s.readiness.owner
           record == JoiningRecord(s, c, kept, seedReady)
           g == CurrentGeneration(s)
           readiness == [s.readiness EXCEPT !.live = TRUE, !.gen = g, !.owner = owner,
                                            !.part[c] = record]
           joined == [s EXCEPT !.pending[c] = NoPending, !.detached = detached,
                               !.readiness = readiness]
           cohort == ReconcileCohort(joined)
           owned == IF s.barrier.phase = "Preparing" /\ cohort.readiness.owner.kind # "User"
                    THEN SetPauseOwner(cohort, GateOwner(s.barrier.gen))
                    ELSE cohort
<1>1. kept \in Detacheds /\ detached \in [Clients -> Detacheds]
  BY Components, SimpleTypes
<1>2. owner \in Owners /\ owner.kind = s.readiness.owner.kind
  BY Components, ReadinessComponents, OwnerTypes DEF UserOwner
<1> HIDE DEF kept
<1>3. record \in Records /\ g \in Nat
  BY <1>1, JoiningRecordType, CurrentGenerationType
<1> HIDE DEF detached, owner, record, g
<1>4. readiness \in Readinesses /\ readiness.live = TRUE /\ readiness.owner = owner
  BY <1>2, <1>3, Components DEF Readinesses
<1> HIDE DEF readiness
<1>5. /\ joined \in Runtimes /\ joined.readiness = readiness /\ joined.barrier = s.barrier
      /\ joined.seq = s.seq /\ joined.nextSeq = s.nextSeq
  BY <1>1, <1>4, SimpleTypes DEF Runtimes
<1> HIDE DEF joined
<1>6. Minds(s, joined)
  BY <1>2, <1>4, <1>5, OrdersIf DEF Minds, Spares, UserPaused
<1>7. cohort \in Runtimes /\ Minds(joined, cohort)
  BY <1>5, ReconcileCohortType, CohortMinds
<1> HIDE DEF cohort
<1>8. GateOwner(s.barrier.gen) \in Owners
  BY Components, BarrierComponents, OwnerTypes
<1>9. owned \in Runtimes /\ Minds(cohort, owned)
  BY <1>7, <1>8, SetPauseOwnerType, OwnerMinds, MindsReflexive DEF Minds
<1> HIDE DEF owned
<1>10. Minds(owned, MaybeCommit(RefreshGate(owned)))
  BY <1>9, MaybeCommitMinds
<1>11. Minds(s, MaybeCommit(RefreshGate(owned)))
  BY <1>6, <1>7, <1>9, <1>10, MindsTransitive
<1> QED
  BY <1>11 DEF Attach, owned, cohort, joined, readiness, g, record, owner, detached, kept

\* `detach_readiness_membership`, of the last member or of another.
LEMMA DetachMinds ==
  ASSUME NEW s \in Runtimes, NEW c \in Clients, NEW retain \in BOOLEAN
  PROVE  LET t == Detach(s, c, retain)
         IN /\ Orders(s, t)
            /\ (\E d \in Clients \ {c} : IsMember(s, d)) => Spares(s, t)
<1> DEFINE record == s.readiness.part[c]
           detached == IF retain
                       THEN [kept |-> TRUE, intentReady |-> record.intentReady,
                             touched |-> record.touched]
                       ELSE s.detached[c]
           unstaged == [s EXCEPT !.pending[c] = NoPending]
           removed == [s EXCEPT !.pending[c] = NoPending, !.readiness.part[c] = NoRecord,
                                !.detached[c] = detached]
           evaluated == MaybeCommit(RefreshGate(removed))
           cleared == ClearGate(evaluated)
           dissolved == [cleared EXCEPT !.readiness = NoReadiness]
           t == Detach(s, c, retain)
<1>1. \/ t = unstaged
      \/ t = evaluated
      \/ t = dissolved /\ ReadinessMembers(evaluated) = {}
  BY DEF Detach
<1>2. Minds(s, unstaged)
  <2>1. /\ unstaged.seq = s.seq /\ unstaged.nextSeq = s.nextSeq
        /\ unstaged.barrier = s.barrier /\ unstaged.readiness = s.readiness
    BY DEF Runtimes
  <2> HIDE DEF unstaged
  <2> QED
    BY <2>1, MindsIf
<1>3. detached \in Detacheds
  <2>1. s.detached[c] \in Detacheds
    BY Components
  <2>2. record.intentReady \in BOOLEAN /\ record.touched \in BOOLEAN
    BY RecordOf DEF Records
  <2> QED
    BY <2>1, <2>2 DEF Detacheds
<1> HIDE DEF detached
<1>4. /\ removed \in Runtimes /\ removed.barrier = s.barrier
      /\ removed.seq = s.seq /\ removed.nextSeq = s.nextSeq
      /\ removed.readiness.live = s.readiness.live
      /\ removed.readiness.owner = s.readiness.owner
      /\ \A d \in Clients : removed.readiness.part[d] =
                             IF d = c THEN NoRecord ELSE s.readiness.part[d]
  BY <1>3, NoRecordType, SimpleTypes DEF Runtimes, Readinesses
<1> HIDE DEF removed
<1>5. Minds(s, removed)
  BY <1>4, MindsIf
<1>6. evaluated \in Runtimes /\ Minds(removed, evaluated) /\ Follows(removed, evaluated)
  BY <1>4, RefreshGateType, MaybeCommitType, MaybeCommitMinds, MaybeCommitFollows
<1> HIDE DEF evaluated
<1>7. Minds(s, evaluated)
  BY <1>5, <1>6, MindsTransitive
<1>8. cleared \in Runtimes /\ Minds(evaluated, cleared)
  BY <1>6, ClearGateType, GateMinds
<1> HIDE DEF cleared
<1>9. Orders(s, dissolved)
  <2>1. /\ dissolved.seq = cleared.seq /\ dissolved.nextSeq = cleared.nextSeq
        /\ dissolved.barrier = cleared.barrier
    BY <1>8 DEF Runtimes
  <2> HIDE DEF dissolved
  <2> QED
    BY <1>7, <1>8, <2>1, OrdersIf, OrdersTransitive DEF Minds
<1>10. ASSUME NEW d \in Clients \ {c}, IsMember(s, d)
       PROVE  ReadinessMembers(evaluated) # {}
  <2>1. d \in Clients
    OBVIOUS
  <2>2. evaluated.readiness.part[d].role = s.readiness.part[d].role
    BY <1>4, <1>6, <2>1 DEF Follows, Tracks, SameRoom
  <2> QED
    BY <1>10, <2>2 DEF IsMember, ReadinessMembers
<1> HIDE DEF dissolved, unstaged, t
<1>11. Orders(s, t)
  BY <1>1, <1>2, <1>7, <1>9 DEF Minds
<1>12. (\E d \in Clients \ {c} : IsMember(s, d)) => Spares(s, t)
  BY <1>1, <1>2, <1>7, <1>10 DEF Minds
<1> QED
  BY <1>11, <1>12 DEF t

\* `apply_syncplay_ready_to_readiness_v2` and the intent it writes.
LEMMA MutateMinds ==
  ASSUME NEW s \in Runtimes, NEW c \in Clients, NEW target \in Clients, NEW ready \in BOOLEAN
  PROVE  /\ Minds(s, MutateIntent(s, target, ready))
         /\ Minds(s, ApplySyncplayReady(s, c, target, ready))
<1>1. ASSUME NEW r
      PROVE  Minds(s, [s EXCEPT !.readiness.part[target] = r])
  <2> DEFINE u == [s EXCEPT !.readiness.part[target] = r]
  <2>1. u.seq = s.seq /\ u.nextSeq = s.nextSeq /\ u.barrier = s.barrier
        /\ u.readiness.live = s.readiness.live /\ u.readiness.owner = s.readiness.owner
    BY DEF Runtimes, Readinesses
  <2> HIDE DEF u
  <2>2. Minds(s, u)
    BY <2>1, MindsIf
  <2> QED
    BY <2>2 DEF u
<1> DEFINE t == MutateIntent(s, target, ready)
<1>2. Minds(s, t)
  BY <1>1 DEF MutateIntent
<1>3. t \in Runtimes
  BY MutateIntentType
<1> HIDE DEF t
<1>4. Minds(s, MaybeCommit(RefreshGate(t)))
  BY <1>2, <1>3, MaybeCommitMinds, MindsTransitive
<1> QED
  BY <1>2, <1>4, MindsReflexive DEF t, ApplySyncplayReady

\* `apply_technical_readiness_report` claims a pause that nobody owns.
LEMMA ReportMinds ==
  ASSUME NEW s \in Runtimes, NEW c \in Clients, NEW g \in Nat, NEW rev \in Nat,
         NEW report \in Reports
  PROVE  Minds(s, ApplyTechnicalReport(s, c, g, rev, report))
<1> DEFINE r == ReportedRecord(s.readiness.part[c], g, report)
           recorded == [s EXCEPT !.readiness.part[c] = r]
           o == AutomaticOwner(OwnerOfReason(report.reason))
           owned == IF ~s.paused /\ s.readiness.owner.kind = "Recovery"
                    THEN SetPauseOwner(recorded, NoOwner)
                    ELSE IF s.paused /\ o # NoOwner /\ s.readiness.owner \in {NoOwner, o}
                    THEN SetPauseOwner(recorded, o)
                    ELSE recorded
           t == ApplyTechnicalReport(s, c, g, rev, report)
<1>1. r \in Records
  BY RecordOf, ReportedRecordType
<1>2. o \in Owners /\ NoOwner \in Owners /\ o.kind # "User" /\ NoOwner.kind = "None"
  BY ReportOwnerKind, OwnerTypes, NoOwnerKind
<1> HIDE DEF r, o
<1>3. /\ recorded \in Runtimes /\ recorded.seq = s.seq /\ recorded.nextSeq = s.nextSeq
      /\ recorded.barrier = s.barrier /\ recorded.readiness.live = s.readiness.live
      /\ recorded.readiness.owner = s.readiness.owner
  BY <1>1 DEF Runtimes, Readinesses
<1> HIDE DEF recorded
<1>4. Minds(s, recorded)
  BY <1>3, MindsIf
<1>5. owned \in Runtimes /\ Minds(recorded, owned)
  BY <1>2, <1>3, SetPauseOwnerType, OwnerMinds, MindsReflexive DEF Minds
<1> HIDE DEF owned
<1>6. Minds(s, MaybeCommit(RefreshGate(owned)))
  BY <1>4, <1>5, MaybeCommitMinds, MindsTransitive
<1>7. t \in {s, MaybeCommit(RefreshGate(owned))}
  BY DEF ApplyTechnicalReport, owned, recorded, o, r
<1> QED
  BY <1>6, <1>7, MindsReflexive

\* Staged evidence and the transport itself.
LEMMA StageMinds ==
  ASSUME NEW s \in Runtimes, NEW c \in Clients, NEW p \in Pendings, NEW paused \in BOOLEAN
  PROVE  /\ Minds(s, [s EXCEPT !.pending[c] = p])
         /\ LET t == [s EXCEPT !.paused = paused]
            IN t \in Runtimes /\ Minds(s, t) /\ Minds(s, RetirePendingTransport(t))
<1> DEFINE x == [s EXCEPT !.pending[c] = p]
           t == [s EXCEPT !.paused = paused]
<1>1. /\ x.seq = s.seq /\ x.nextSeq = s.nextSeq
      /\ x.barrier = s.barrier /\ x.readiness = s.readiness
  BY DEF Runtimes
<1>2. /\ t \in Runtimes /\ t.seq = s.seq /\ t.nextSeq = s.nextSeq
      /\ t.barrier = s.barrier /\ t.readiness = s.readiness
  BY DEF Runtimes
<1> HIDE DEF x, t
<1>3. Minds(s, x) /\ Minds(s, t)
  BY <1>1, <1>2, MindsIf
<1>4. Minds(s, RetirePendingTransport(t))
  BY <1>2, <1>3, RetirePendingMinds, MindsTransitive
<1> QED
  BY <1>2, <1>3, <1>4 DEF x, t

\* `claim_user_pause_ownership`.
LEMMA ClaimMinds ==
  ASSUME NEW s \in Runtimes, NEW c \in Clients
  PROVE  Minds(s, ClaimUserPause(s, c))
<1> DEFINE u == RetireCommittedForUserPause(s)
           v == SetPauseOwner(u, UserOwner(c))
<1>1. u \in Runtimes /\ Minds(s, u)
  BY RetireCommittedForUserPauseType, RetireMinds
<1> HIDE DEF u
<1>2. UserOwner(c) \in Owners /\ UserOwner(c).kind = "User"
  BY OwnerTypes DEF UserOwner
<1>3. v \in Runtimes /\ Minds(u, v)
  BY <1>1, <1>2, SetPauseOwnerType, OwnerMinds DEF Minds
<1> HIDE DEF v
<1>4. Minds(s, RefreshGate(v))
  BY <1>1, <1>3, GateMinds, MindsTransitive
<1> QED
  BY <1>4 DEF ClaimUserPause, v, u

\* A transport that becomes canonical.
LEMMA MoveMinds ==
  ASSUME NEW s \in Runtimes, NEW paused \in BOOLEAN
  PROVE  Orders(s, MoveTransport(s, paused))
<1> DEFINE u == [s EXCEPT !.paused = paused]
           v == RetirePendingTransport(u)
<1>1. /\ u \in Runtimes /\ u.seq = s.seq /\ u.nextSeq = s.nextSeq
      /\ u.barrier = s.barrier /\ u.readiness = s.readiness
  BY DEF Runtimes
<1> HIDE DEF u
<1>2. v \in Runtimes /\ Minds(s, v)
  BY <1>1, RetirePendingTransportType, RetirePendingMinds, MindsIf, MindsTransitive
<1> HIDE DEF v
<1>3. Orders(s, SetPauseOwner(v, NoOwner))
  BY <1>2, OwnerTypes, OwnerMinds, OrdersTransitive DEF Minds
<1> QED
  BY <1>2, <1>3 DEF MoveTransport, Minds, v, u

\* `apply_staged_user_transport_transition`.
LEMMA ApplyStagedMinds ==
  ASSUME NEW s \in Runtimes, NEW c \in Clients, NEW p \in BOOLEAN
  PROVE  LET t == ApplyStaged(s, c, p)
         IN Orders(s, t) /\ (p => Minds(s, t))
<1> DEFINE decided == RetireAwaitingDecision(s, c)
           owned == IF p THEN ClaimUserPause(decided, c) ELSE SetPauseOwner(decided, NoOwner)
           moved == RetirePendingTransport([owned EXCEPT !.paused = p])
           t == ApplyStaged(s, c, p)
<1>1. decided \in Runtimes /\ Minds(s, decided)
  BY RetireAwaitingDecisionType, RetireMinds
<1> HIDE DEF decided
<1>2. owned \in Runtimes /\ Orders(decided, owned) /\ (p => Minds(decided, owned))
  BY <1>1, ClaimUserPauseType, SetPauseOwnerType, OwnerTypes, ClaimMinds, OwnerMinds DEF Minds
<1> HIDE DEF owned
<1>3. Minds(owned, moved)
  BY <1>2, SimpleTypes, StageMinds
<1>4. t \in {owned, moved}
  BY DEF ApplyStaged, moved, owned, decided
<1> HIDE DEF moved, t
<1>5. Orders(s, t)
  BY <1>1, <1>2, <1>3, <1>4, OrdersTransitive DEF Minds
<1>6. p => Minds(s, t)
  BY <1>1, <1>2, <1>3, <1>4, MindsTransitive
<1> QED
  BY <1>5, <1>6 DEF t

\* What an accepted player action does to the room's transport.
LEMMA IndirectMinds ==
  ASSUME NEW s \in Runtimes, NEW c \in Clients, NEW p \in BOOLEAN, NEW staged \in BOOLEAN
  PROVE  LET t == IndirectTransport(s, c, p, staged)
         IN Orders(s, t) /\ (p => Minds(s, t))
<1> DEFINE decided == RetireAwaitingDecision(s, c)
           claimed == ClaimUserPause(decided, c)
           noted == [s EXCEPT !.pending[c] = [paused |-> p, evidence |-> "Accepted"]]
           applied == ApplyStaged(s, c, p)
           t == IndirectTransport(s, c, p, staged)
<1>1. decided \in Runtimes /\ Minds(s, decided)
  BY RetireAwaitingDecisionType, RetireMinds
<1> HIDE DEF decided
<1>2. Minds(s, claimed)
  BY <1>1, ClaimMinds, MindsTransitive
<1>3. Minds(s, noted)
  <2>1. [paused |-> p, evidence |-> "Accepted"] \in Pendings
    BY DEF Pendings
  <2> QED
    BY <2>1, StageMinds
<1>4. Orders(s, applied) /\ (p => Minds(s, applied))
  BY ApplyStagedMinds
<1>5. t \in {applied, claimed, decided, s, noted}
  BY DEF IndirectTransport, decided
<1> HIDE DEF t, applied, claimed, noted
<1>6. Orders(s, t) /\ (p => Minds(s, t))
  BY <1>1, <1>2, <1>3, <1>4, <1>5, MindsReflexive DEF Minds
<1> QED
  BY <1>6 DEF t

\* `apply_readiness_intent`: only an accepted Ready takes a pause over.
LEMMA ApplyIntentMinds ==
  ASSUME NEW s \in Runtimes, NEW c \in Clients, NEW target \in Clients,
         NEW ready \in BOOLEAN, NEW source \in IntentSources
  PROVE  LET t == ApplyIntent(s, c, target, ready, source)
         IN Orders(s, t) /\ (~ready => Minds(s, t))
<1> DEFINE p == source = "PlayerPause"
           controls == source \in {"PlayerPlay", "PlayerPause"} /\ target = c /\ c \in Controllers
           staged == controls /\ s.pending[c] = [paused |-> p, evidence |-> "Observed"]
           consumed == [s EXCEPT !.pending[c] = NoPending]
           changed == MutateIntent(consumed, target, ready)
           mutated == [changed EXCEPT !.readiness.part[c].initializationOpen = FALSE]
           moved == IF controls THEN IndirectTransport(mutated, c, p, staged) ELSE mutated
           armed == IF ready /\ s.barrier.phase = "Preparing"
                    THEN SetPauseOwner(moved, GateOwner(s.barrier.gen)) ELSE moved
           t == ApplyIntent(s, c, target, ready, source)
<1>1. consumed \in Runtimes /\ Minds(s, consumed)
  BY PendingUpdate, SimpleTypes, StageMinds
<1> HIDE DEF consumed
<1>2. changed \in Runtimes /\ Minds(consumed, changed)
  BY <1>1, MutateIntentType, MutateMinds
<1> HIDE DEF changed
<1>3. mutated \in Runtimes /\ Minds(changed, mutated)
  <2>1. mutated \in Runtimes
    BY <1>2, InitializationFollows
  <2>2. /\ mutated.seq = changed.seq /\ mutated.nextSeq = changed.nextSeq
        /\ mutated.barrier = changed.barrier
        /\ mutated.readiness.live = changed.readiness.live
        /\ mutated.readiness.owner = changed.readiness.owner
    BY <1>2 DEF Runtimes, Readinesses
  <2> HIDE DEF mutated
  <2> QED
    BY <2>1, <2>2, MindsIf
<1> HIDE DEF mutated
<1>4. Minds(s, mutated)
  BY <1>1, <1>2, <1>3, MindsTransitive
<1>5. /\ moved \in Runtimes /\ Orders(mutated, moved)
      /\ IntentAccepted(s, c, target, ready, source) /\ ~ready => Minds(mutated, moved)
  <2>1. CASE ~controls
    BY <1>3, <2>1, MindsReflexive DEF Minds
  <2>2. CASE controls
    <3>1. IntentAccepted(s, c, target, ready, source) /\ ~ready => p
      BY <2>2 DEF IntentAccepted
    <3>2. p \in BOOLEAN /\ staged \in BOOLEAN
      OBVIOUS
    <3> HIDE DEF p, staged
    <3> QED
      BY <1>3, <2>2, <3>1, <3>2, IndirectTransportType, IndirectMinds
  <2> QED
    BY <2>1, <2>2
<1> HIDE DEF moved
<1>6. GateOwner(s.barrier.gen) \in Owners
  BY Components, BarrierComponents, OwnerTypes
<1>7. armed \in Runtimes /\ Orders(moved, armed) /\ (~ready => armed = moved)
  BY <1>5, <1>6, SetPauseOwnerType, OwnerMinds, MindsReflexive DEF Minds
<1> HIDE DEF armed
<1> DEFINE done == MaybeCommit(RefreshGate(armed))
<1>8. Minds(armed, done)
  BY <1>7, MaybeCommitMinds
<1>9. \/ t = done /\ IntentAccepted(s, c, target, ready, source)
      \/ t = consumed
  BY DEF ApplyIntent, armed, moved, mutated, changed, consumed
<1> HIDE DEF t, done
<1>10. Orders(s, done)
  BY <1>4, <1>5, <1>7, <1>8, OrdersTransitive DEF Minds
<1>11. IntentAccepted(s, c, target, ready, source) /\ ~ready => Minds(s, done)
  BY <1>4, <1>5, <1>7, <1>8, MindsTransitive
<1>12. Orders(s, t) /\ (~ready => Minds(s, t))
  BY <1>1, <1>9, <1>10, <1>11 DEF Minds
<1> QED
  BY <1>12 DEF t

\* `handle_state`, for either kind of player.
LEMMA TransportMinds ==
  ASSUME NEW s \in Runtimes, NEW c \in Clients, NEW paused \in BOOLEAN
  PROVE  Orders(s, V2Transport(s, c, paused)) /\ Orders(s, SyncplayTransport(s, c, paused))
<1> DEFINE consumed == [s EXCEPT !.pending[c] = NoPending]
           automatic == AutomaticTransportOwner(s, c, paused)
           decided == RetireAwaitingDecision(consumed, c)
           settled == RetireAwaitingDecision(s, c)
           noted == [s EXCEPT !.pending[c] = [paused |-> paused, evidence |-> "Observed"]]
<1>1. consumed \in Runtimes /\ Minds(s, consumed)
  BY PendingUpdate, SimpleTypes, StageMinds
<1>2. Minds(s, noted)
  <2>1. [paused |-> paused, evidence |-> "Observed"] \in Pendings
    BY DEF Pendings
  <2> QED
    BY <2>1, StageMinds
<1> HIDE DEF consumed, noted
<1>3. automatic \in Owners
  BY AutomaticTransportOwnerType
<1> HIDE DEF automatic
<1>4. decided \in Runtimes /\ Minds(s, decided) /\ settled \in Runtimes /\ Minds(s, settled)
  BY <1>1, RetireAwaitingDecisionType, RetireMinds, MindsTransitive
<1> HIDE DEF decided, settled
<1>5. ASSUME NEW x \in {s, consumed, decided, settled, ClaimUserPause(decided, c),
                        ClaimUserPause(settled, c), SetPauseOwner(consumed, automatic)}
      PROVE  Orders(s, MoveTransport(x, paused))
  <2>1. x \in Runtimes /\ Orders(s, x)
    BY <1>1, <1>3, <1>4, MindsReflexive, ClaimUserPauseType, ClaimMinds, SetPauseOwnerType,
       OwnerMinds, OrdersTransitive DEF Minds
  <2> QED
    BY <2>1, MoveMinds, OrdersTransitive
<1>6. Orders(s, V2Transport(s, c, paused))
  BY <1>2, <1>5 DEF V2Transport, Minds, automatic, decided, consumed, noted
<1>7. Orders(s, SyncplayTransport(s, c, paused))
  BY <1>5 DEF SyncplayTransport, settled
<1> QED
  BY <1>6, <1>7

\* What every state satisfies of the two.
Orderly(s) == Sequenced(s) /\ Readying(s)

\* A step of one session `c` that hands out at most the next sequence number, to `c`.
Seats(s, t, c) ==
  /\ t.nextSeq \in {s.nextSeq, s.nextSeq + 1}
  /\ t.seq[c] \in {s.seq[c], 0, t.nextSeq}
  /\ \A d \in Clients \ {c} : t.seq[d] = s.seq[d]
  /\ Readying(s) => Readying(t)

\* Such a step keeps the numbers in order.
LEMMA SeatsOrderly ==
  ASSUME NEW s \in Runtimes, NEW t, NEW c \in Clients, Orderly(s), Seats(s, t, c)
  PROVE  Orderly(t)
<1>1. s.nextSeq \in Nat /\ s.seq \in [Clients -> Nat]
  BY Components
<1>2. ASSUME NEW d \in Clients
      PROVE  t.seq[d] <= t.nextSeq
  <2>1. s.seq[d] <= s.nextSeq /\ s.seq[d] \in Nat
    BY <1>1 DEF Orderly, Sequenced
  <2>2. CASE d = c
    BY <1>1, <2>1, <2>2 DEF Seats
  <2>3. CASE d # c
    BY <1>1, <2>1, <2>3 DEF Seats
  <2> QED
    BY <2>2, <2>3
<1> QED
  BY <1>2 DEF Orderly, Sequenced, Seats

\* A method that hands out no number keeps them in order.
LEMMA OrdersOrderly ==
  ASSUME NEW s, NEW t, Orderly(s), Orders(s, t)
  PROVE  Orderly(t)
  BY DEF Orderly, Orders, Sequenced

\* What the session records write.
LEMMA SessionMinds ==
  ASSUME NEW s \in Runtimes, NEW c \in Clients, NEW place \in Places,
         NEW caps \in SUBSET Capabilities
  PROVE  /\ LET t == RemoveSession(s, c, place)
            IN /\ t.seq = [s.seq EXCEPT ![c] = 0] /\ t.nextSeq = s.nextSeq
               /\ t.barrier = s.barrier /\ t.readiness = s.readiness
         /\ LET t == JoinRoom(s, c, caps)
            IN /\ t.seq = [s.seq EXCEPT ![c] = s.nextSeq + 1] /\ t.nextSeq = s.nextSeq + 1
               /\ t.barrier = s.barrier /\ t.readiness = s.readiness
         /\ LET n == s.nextSeq + 1
                t == [s EXCEPT !.place[c] = place, !.nextSeq = n, !.seq[c] = n]
            IN /\ t.seq = [s.seq EXCEPT ![c] = s.nextSeq + 1] /\ t.nextSeq = s.nextSeq + 1
               /\ t.barrier = s.barrier /\ t.readiness = s.readiness
         /\ LET t == [s EXCEPT !.caps[c] = caps]
            IN /\ t.seq = s.seq /\ t.nextSeq = s.nextSeq
               /\ t.barrier = s.barrier /\ t.readiness = s.readiness
         /\ LET t == [s EXCEPT !.detached[c] = NoDetached]
            IN /\ t.seq = s.seq /\ t.nextSeq = s.nextSeq
               /\ t.barrier = s.barrier /\ t.readiness = s.readiness
  BY DEF RemoveSession, JoinRoom, Runtimes

\* `cleanup_room_if_empty`.
LEMMA CleanupMinds ==
  ASSUME NEW s \in Runtimes
  PROVE  Minds(s, CleanupRoom(s))
<1> DEFINE cleared == ClearGate(s)
           t == [cleared EXCEPT !.barrier = NoBarrier, !.paused = TRUE, !.tombstones = {}]
<1>1. cleared \in Runtimes /\ Minds(s, cleared)
  BY ClearGateType, GateMinds
<1> HIDE DEF cleared
<1>2. /\ t.seq = cleared.seq /\ t.nextSeq = cleared.nextSeq
      /\ t.barrier = NoBarrier /\ t.readiness = cleared.readiness
  BY <1>1 DEF Runtimes
<1>3. NoBarrier.phase = "None"
  BY DEF NoBarrier
<1> HIDE DEF t
<1>4. Minds(cleared, t)
  BY <1>2, <1>3, MindsIf
<1>5. Minds(s, t)
  BY <1>1, <1>4, MindsTransitive
<1> QED
  BY <1>5, MindsReflexive DEF CleanupRoom, t, cleared

\* The end of a departure.
LEMMA DepartureMinds ==
  ASSUME NEW s \in Runtimes
  PROVE  Minds(s, CleanupRoom(RefreshMixedCohort(s)))
<1>1. RefreshMixedCohort(s) \in Runtimes
  BY RefreshMixedCohortType
<1> QED
  BY <1>1, CohortMinds, CleanupMinds, MindsTransitive

\* The membership and the barrier entry of a departing session, in either order.
LEMMA LeaveMinds ==
  ASSUME NEW s \in Runtimes, NEW c \in Clients, NEW retain \in BOOLEAN
  PROVE  LET t == MarkParticipantDisconnected(Detach(s, c, retain), c)
             u == Detach(MarkParticipantDisconnected(s, c), c, retain)
             others == \E d \in Clients \ {c} : IsMember(s, d)
         IN /\ t \in Runtimes /\ Orders(s, t) /\ (others => Spares(s, t))
            /\ u \in Runtimes /\ Orders(s, u) /\ (others => Spares(s, u))
<1> DEFINE left == Detach(s, c, retain)
           t == MarkParticipantDisconnected(left, c)
           marked == MarkParticipantDisconnected(s, c)
           u == Detach(marked, c, retain)
           others == \E d \in Clients \ {c} : IsMember(s, d)
<1>1. left \in Runtimes /\ Orders(s, left) /\ (others => Spares(s, left))
  BY DetachType, DetachMinds
<1>2. marked \in Runtimes /\ Minds(s, marked) /\ Follows(s, marked)
  BY MarkParticipantDisconnectedType, MarkMinds, MarkDisconnectedFollows
<1>3. others => \E d \in Clients \ {c} : IsMember(marked, d)
  BY <1>2 DEF Follows, Tracks, SameRoom, IsMember
<1> HIDE DEF left, marked
<1>4. t \in Runtimes /\ Minds(left, t)
  BY <1>1, MarkParticipantDisconnectedType, MarkMinds
<1>5. u \in Runtimes /\ Orders(marked, u) /\ (others => Spares(marked, u))
  BY <1>2, <1>3, DetachType, DetachMinds
<1> HIDE DEF t, u, others
<1>6. Orders(s, t) /\ Orders(s, u)
  BY <1>1, <1>2, <1>4, <1>5, OrdersTransitive DEF Minds
<1>7. others => Spares(s, t) /\ Spares(s, u)
  BY <1>1, <1>2, <1>4, <1>5 DEF Minds, Spares
<1> QED
  BY <1>4, <1>5, <1>6, <1>7 DEF t, u, left, marked, others

\* The departure of a session that a new Hello replaces, and a disconnect.
LEMMA DepartMinds ==
  ASSUME NEW s \in Runtimes, NEW c \in Clients
  PROVE  LET t == ReplaceSession(s, c)
             u == DepartSession(s, c)
             others == \E d \in Clients \ {c} : IsMember(s, d)
         IN /\ t.nextSeq = s.nextSeq /\ Seats(s, t, c) /\ (others => Spares(s, t))
            /\ Seats(s, u, c) /\ (others => Spares(s, u))
<1> DEFINE t == MarkParticipantDisconnected(Detach(s, c, TRUE), c)
           u == Detach(MarkParticipantDisconnected(s, c), c, TRUE)
           others == \E d \in Clients \ {c} : IsMember(s, d)
<1>1. /\ t \in Runtimes /\ Orders(s, t) /\ (others => Spares(s, t))
      /\ u \in Runtimes /\ Orders(s, u) /\ (others => Spares(s, u))
  BY LeaveMinds
<1>2. ReplaceSession(s, c) = CleanupRoom(RefreshMixedCohort(RemoveSession(t, c, "New")))
      /\ DepartSession(s, c) = CleanupRoom(RefreshMixedCohort(RemoveSession(u, c, "Gone")))
  BY DEF ReplaceSession, DepartSession
<1> HIDE DEF t, u, others
<1>3. ASSUME NEW x \in {t, u}, NEW place \in {"New", "Gone"}
      PROVE  LET y == CleanupRoom(RefreshMixedCohort(RemoveSession(x, c, place)))
             IN y.nextSeq = s.nextSeq /\ Seats(s, y, c) /\ (others => Spares(s, y))
  <2> DEFINE removed == RemoveSession(x, c, place)
             y == CleanupRoom(RefreshMixedCohort(removed))
  <2>1. x \in Runtimes /\ Orders(s, x) /\ (others => Spares(s, x)) /\ place \in Places
    BY <1>1 DEF Places
  <2>2. removed \in Runtimes
    BY <2>1, RemoveSessionType
  <2>3. /\ removed.seq = [x.seq EXCEPT ![c] = 0] /\ removed.nextSeq = x.nextSeq
        /\ removed.barrier = x.barrier /\ removed.readiness = x.readiness
    BY <2>1 DEF RemoveSession, Runtimes
  <2> HIDE DEF removed
  <2>4. Minds(removed, y)
    BY <2>2, DepartureMinds
  <2> HIDE DEF y
  <2>5. y.nextSeq = s.nextSeq /\ y.seq = [s.seq EXCEPT ![c] = 0] /\ (Readying(s) => Readying(y))
    BY <2>1, <2>3, <2>4 DEF Minds, Orders, Readying
  <2>6. Seats(s, y, c)
    BY <2>5, Components DEF Seats
  <2>7. others => Spares(s, y)
    BY <2>1, <2>3, <2>4 DEF Minds, Spares, UserPaused
  <2> QED
    BY <2>5, <2>6, <2>7 DEF y, removed
<1> QED
  BY <1>2, <1>3 DEF others

\* Nobody moves, nobody's capabilities change.
Stays(s, t) == t.place = s.place /\ t.caps = s.caps /\ t.fenced = s.fenced

\* `reconcile_mixed_readiness_cohort_state` and `cleanup_room_if_empty` move nobody.
LEMMA DepartureStays ==
  ASSUME NEW s \in Runtimes
  PROVE  Stays(s, RefreshMixedCohort(s)) /\ Stays(s, CleanupRoom(RefreshMixedCohort(s)))
<1> DEFINE reconciled == ReconcileCohort(s)
           evaluated == MaybeCommit(RefreshGate(reconciled))
           t == RefreshMixedCohort(s)
           cleared == ClearGate(t)
           emptied == [cleared EXCEPT !.barrier = NoBarrier, !.paused = TRUE, !.tombstones = {}]
<1>1. reconciled \in Runtimes /\ Stays(s, reconciled)
  <2>1. reconciled \in Runtimes
    BY ReconcileCohortType
  <2>2. ASSUME NEW part, NEW b
        PROVE  Stays(s, [s EXCEPT !.readiness.part = part, !.barrier = b])
    BY DEF Stays, Runtimes
  <2>3. Stays(s, s)
    BY DEF Stays
  <2> QED
    BY <2>1, <2>2, <2>3 DEF ReconcileCohort
<1>2. t = IF reconciled = s THEN s ELSE evaluated
  BY DEF RefreshMixedCohort
<1> HIDE DEF reconciled
<1>3. evaluated \in Runtimes /\ Follows(reconciled, evaluated)
  BY <1>1, RefreshGateType, MaybeCommitType, MaybeCommitFollows
<1> HIDE DEF evaluated, t
<1>4. t \in Runtimes /\ Stays(s, t)
  BY <1>1, <1>2, <1>3 DEF Stays, Follows, Tracks, SameRoom
<1>5. cleared \in Runtimes /\ Follows(t, cleared)
  BY <1>4, ClearGateType, GateFollows
<1> HIDE DEF cleared
<1>6. emptied.place = cleared.place /\ emptied.caps = cleared.caps /\ emptied.fenced = cleared.fenced
  BY <1>5 DEF Runtimes
<1>7. CleanupRoom(t) \in {t, emptied}
  BY DEF CleanupRoom, emptied, cleared
<1> HIDE DEF emptied
<1>8. Stays(s, CleanupRoom(t))
  BY <1>4, <1>5, <1>6, <1>7 DEF Stays, Follows, Tracks, SameRoom
<1> QED
  BY <1>4, <1>8 DEF t

\* A user's pause outlives a step that the coordinator survives.
Guards == UserPaused(rt) /\ CoordinatorSurvives => UserPaused(rt')

\* A step that spares every user's pause.
LEMMA SparesGuards ==
  ASSUME Spares(rt, rt')
  PROVE  Guards
  BY DEF Guards, Spares

\* The survivor of a step that takes `c` out of the room or replaces its session is
\* another member.
LEMMA SurvivorIsAnother ==
  ASSUME NEW c \in Clients, ~IsMember(rt', c) \/ Replaced(c), CoordinatorSurvives
  PROVE  \E d \in Clients \ {c} : IsMember(rt, d)
  BY DEF CoordinatorSurvives, ReadinessMembers, IsMember

\* `handle_hello_for_peer`.
LEMMA HelloMinds ==
  ASSUME Sound(rt), Whole(rt), Whole(rt'), Orderly(rt), NEW c \in Clients,
         NEW token \in Clients \cup {NoClient}, Hello(c, token)
  PROVE  Orderly(rt') /\ Guards
<1> DEFINE left == IF rt.place[c] = "Room" THEN ReplaceSession(rt, c) ELSE rt
           attaches == "readiness" \in HelloCaps[c]
           restores == attaches /\ token # NoClient /\ left.detached[token].kept
           forgot == [left EXCEPT !.detached[c] = NoDetached]
           known == IF restores THEN left ELSE forgot
           joined == JoinRoom(known, c, HelloCaps[c])
           presented == IF restores THEN token ELSE NoClient
           attached == Attach(joined, c, presented, FALSE)
           others == \E d \in Clients \ {c} : IsMember(rt, d)
<1>1. rt \in Runtimes /\ left \in Runtimes
  BY ReplaceSessionSafe DEF Sound
<1>2. rt.nextSeq \in Nat /\ rt.seq \in [Clients -> Nat]
  BY <1>1, Components
<1>3. /\ left.nextSeq = rt.nextSeq /\ Seats(rt, left, c)
      /\ rt.place[c] # "Room" \/ others => Spares(rt, left)
  BY <1>1, <1>2, DepartMinds DEF Seats, Spares
<1> HIDE DEF left
<1>4. /\ forgot \in Runtimes /\ forgot.seq = left.seq /\ forgot.nextSeq = left.nextSeq
      /\ forgot.barrier = left.barrier /\ forgot.readiness = left.readiness
  BY <1>1, SimpleTypes DEF Runtimes
<1> HIDE DEF forgot
<1>5. /\ known \in Runtimes /\ known.seq = left.seq /\ known.nextSeq = left.nextSeq
      /\ known.barrier = left.barrier /\ known.readiness = left.readiness
      /\ presented \in Clients \cup {NoClient}
  BY <1>1, <1>4
<1> HIDE DEF known, presented
<1>6. /\ joined \in Runtimes
      /\ joined.seq = [known.seq EXCEPT ![c] = known.nextSeq + 1]
      /\ joined.nextSeq = known.nextSeq + 1
      /\ joined.barrier = known.barrier /\ joined.readiness = known.readiness
  <2>1. joined \in Runtimes
    BY <1>5, HelloCapsType, JoinRoomType
  <2> QED
    BY <1>5, <2>1 DEF JoinRoom, Runtimes
<1> HIDE DEF joined
<1>7. attached \in Runtimes /\ Minds(joined, attached)
  BY <1>5, <1>6, AttachType, AttachMinds
<1> HIDE DEF attached
<1>8. rt' = RefreshMixedCohort(IF attaches THEN attached ELSE joined)
  BY DEF Hello, attached, presented, joined, known, forgot, left
<1> HIDE DEF attaches
<1>9. Minds(joined, rt')
  BY <1>6, <1>7, <1>8, CohortMinds, MindsTransitive
<1>10. /\ rt'.nextSeq = rt.nextSeq + 1
       /\ rt'.seq = [left.seq EXCEPT ![c] = rt.nextSeq + 1]
       /\ Readying(left) => Readying(rt')
       /\ Spares(left, rt')
  BY <1>3, <1>5, <1>6, <1>9 DEF Minds, Orders, Spares, Readying, UserPaused
<1>11. Seats(rt, rt', c) /\ rt'.seq[c] = rt.nextSeq + 1
  BY <1>1, <1>3, <1>10, Components DEF Seats
<1>12. Orderly(rt')
  BY <1>1, <1>11, SeatsOrderly
<1>13. Guards
  <2> SUFFICES ASSUME UserPaused(rt), CoordinatorSurvives
               PROVE  UserPaused(rt')
    BY DEF Guards
  <2>1. rt.place[c] = "Room" /\ IsMember(rt', c) => Replaced(c)
    <3>1. IsMember(rt', c) => rt'.place[c] = "Room"
      BY DEF Whole, Enrolled, InCohortRoom
    <3>2. rt.seq[c] <= rt.nextSeq /\ rt.seq[c] \in Nat
      BY <1>2 DEF Orderly, Sequenced
    <3>3. rt'.seq[c] # rt.seq[c]
      BY <1>2, <1>11, <3>2
    <3> QED
      BY <3>1, <3>3 DEF Replaced
  <2>2. rt.place[c] # "Room" \/ others
    BY <2>1, SurvivorIsAnother
  <2> QED
    BY <1>3, <1>10, <2>2 DEF Spares
<1> QED
  BY <1>12, <1>13

\* Disconnect, and the close of a connection that is in another room.
LEMMA DisconnectMinds ==
  ASSUME Sound(rt), Whole(rt), Sound(rt'), Whole(rt'), Orderly(rt), NEW c \in Clients, Disconnect(c)
  PROVE  Orderly(rt') /\ Guards
<1>1. rt \in Runtimes
  BY DEF Sound
<1>2. CASE rt.place[c] = "Room" /\ rt' = DepartSession(rt, c)
  <2> DEFINE others == \E d \in Clients \ {c} : IsMember(rt, d)
  <2>1. Seats(rt, rt', c) /\ (others => Spares(rt, rt'))
    BY <1>1, <1>2, DepartMinds
  <2>2. ~IsMember(rt', c)
    <3> DEFINE gone == Detach(MarkParticipantDisconnected(rt, c), c, TRUE)
               removed == RemoveSession(gone, c, "Gone")
    <3>1. gone \in Runtimes
      BY <1>1, MarkParticipantDisconnectedType, DetachType
    <3> HIDE DEF gone
    <3>2. removed \in Runtimes /\ removed.place[c] = "Gone"
      <4>1. removed \in Runtimes
        BY <3>1, RemoveSessionType DEF Places
      <4> QED
        BY <3>1, <4>1 DEF RemoveSession, Runtimes
    <3>3. rt' = CleanupRoom(RefreshMixedCohort(removed))
      BY <1>2 DEF DepartSession, removed, gone
    <3> HIDE DEF removed
    <3> QED
      BY <3>2, <3>3, DepartureStays DEF Stays, Whole, Enrolled, InCohortRoom
  <2>3. CoordinatorSurvives => others
    BY <2>2, SurvivorIsAnother
  <2> HIDE DEF others
  <2> QED
    BY <1>1, <2>1, <2>3, SeatsOrderly DEF Guards, Spares
<1>3. CASE rt.place[c] = "Elsewhere" /\ rt' = RemoveSession(rt, c, "Gone")
  <2>1. /\ rt'.seq = [rt.seq EXCEPT ![c] = 0] /\ rt'.nextSeq = rt.nextSeq
        /\ rt'.barrier = rt.barrier /\ rt'.readiness = rt.readiness
    BY <1>1, <1>3 DEF RemoveSession, Runtimes
  <2>2. Seats(rt, rt', c) /\ Spares(rt, rt')
    BY <1>1, <2>1, Components DEF Seats, Readying, Spares, UserPaused
  <2> QED
    BY <1>1, <2>2, SeatsOrderly, SparesGuards
<1> QED
  BY <1>2, <1>3 DEF Disconnect

\* Set.room out of this room.
LEMMA SwitchAwayMinds ==
  ASSUME Sound(rt), Whole(rt), Whole(rt'), Orderly(rt), NEW c \in Clients, SwitchAway(c)
  PROVE  Orderly(rt') /\ Guards
<1> DEFINE left == MarkParticipantDisconnected(Detach(rt, c, FALSE), c)
           n == left.nextSeq + 1
           moved == [left EXCEPT !.place[c] = "Elsewhere", !.nextSeq = n, !.seq[c] = n]
           others == \E d \in Clients \ {c} : IsMember(rt, d)
<1>1. rt \in Runtimes
  BY DEF Sound
<1>2. left \in Runtimes /\ Orders(rt, left) /\ (others => Spares(rt, left))
  BY <1>1, LeaveMinds
<1> HIDE DEF left
<1>3. n \in Nat
  BY <1>2, Components
<1>4. /\ moved \in Runtimes /\ moved.seq = [left.seq EXCEPT ![c] = left.nextSeq + 1]
      /\ moved.nextSeq = left.nextSeq + 1
      /\ moved.barrier = left.barrier /\ moved.readiness = left.readiness
      /\ moved.place[c] = "Elsewhere"
  BY <1>2, <1>3 DEF Runtimes, Places
<1>5. rt' = CleanupRoom(RefreshMixedCohort(moved))
  BY DEF SwitchAway, moved, n, left
<1> HIDE DEF moved
<1>6. Minds(moved, rt')
  BY <1>4, <1>5, DepartureMinds
<1>7. Seats(rt, rt', c)
  BY <1>1, <1>2, <1>4, <1>6, Components DEF Minds, Orders, Seats, Readying
<1>8. others => Spares(rt, rt')
  BY <1>2, <1>4, <1>6 DEF Minds, Spares, UserPaused
<1>9. ~IsMember(rt', c)
  <2>1. rt'.place = moved.place
    BY <1>4, <1>5, DepartureStays DEF Stays
  <2> QED
    BY <1>4, <2>1 DEF Whole, Enrolled, InCohortRoom
<1>10. CoordinatorSurvives => others
  BY <1>9, SurvivorIsAnother
<1> HIDE DEF others
<1> QED
  BY <1>1, <1>7, <1>8, <1>10, SeatsOrderly DEF Guards, Spares

\* Set.room into this room.
LEMMA SwitchInMinds ==
  ASSUME Sound(rt), Orderly(rt), NEW c \in Clients, SwitchIn(c)
  PROVE  Orderly(rt') /\ Guards
<1> DEFINE joined == JoinRoom(rt, c, rt.caps[c])
           attached == Attach(joined, c, NoClient, FALSE)
<1>1. rt \in Runtimes /\ rt.caps[c] \in SUBSET Capabilities
  BY DEF Sound, Runtimes
<1>2. /\ joined \in Runtimes
      /\ joined.seq = [rt.seq EXCEPT ![c] = rt.nextSeq + 1] /\ joined.nextSeq = rt.nextSeq + 1
      /\ joined.barrier = rt.barrier /\ joined.readiness = rt.readiness
  <2>1. joined \in Runtimes
    BY <1>1, JoinRoomType
  <2> QED
    BY <1>1, <2>1 DEF JoinRoom, Runtimes
<1>3. rt' = RefreshMixedCohort(IF c \in V2(rt) THEN attached ELSE joined)
  BY DEF SwitchIn
<1> HIDE DEF joined
<1>4. attached \in Runtimes /\ Minds(joined, attached)
  BY <1>2, AttachType, AttachMinds
<1> HIDE DEF attached
<1>5. Minds(joined, rt')
  BY <1>2, <1>3, <1>4, CohortMinds, MindsTransitive
<1>6. Seats(rt, rt', c) /\ Spares(rt, rt')
  BY <1>1, <1>2, <1>5, Components DEF Minds, Orders, Seats, Readying, Spares, UserPaused
<1> QED
  BY <1>1, <1>6, SeatsOrderly, SparesGuards

\* Set.features.
LEMMA RenegotiateMinds ==
  ASSUME Sound(rt), Whole(rt), Whole(rt'), Orderly(rt), NEW c \in Clients,
         NEW caps \in Renegotiations, NEW seedReady \in BOOLEAN, Renegotiate(c, caps, seedReady)
  PROVE  Orderly(rt') /\ Guards
<1> DEFINE changed == [rt EXCEPT !.caps[c] = caps]
           attached == Attach(changed, c, c, seedReady)
           left == Detach(changed, c, TRUE)
           had == "readiness" \in rt.caps[c]
           has == "readiness" \in caps
           others == \E d \in Clients \ {c} : IsMember(rt, d)
<1>1. rt \in Runtimes /\ caps \in SUBSET Capabilities
  BY ClientsAssumption DEF Sound
<1>2. /\ changed \in Runtimes /\ changed.seq = rt.seq /\ changed.nextSeq = rt.nextSeq
      /\ changed.barrier = rt.barrier /\ changed.readiness = rt.readiness
      /\ changed.caps[c] = caps
  BY <1>1 DEF Runtimes
<1>3. rt' = RefreshMixedCohort(IF ~had /\ has THEN attached
                               ELSE IF had /\ ~has THEN left ELSE changed)
  BY DEF Renegotiate
<1> HIDE DEF changed
<1>4. Minds(rt, changed)
  BY <1>2, MindsIf
<1>5. attached \in Runtimes /\ Minds(rt, attached)
  BY <1>2, <1>4, AttachType, AttachMinds, MindsTransitive
<1>6. /\ left \in Runtimes /\ Orders(rt, left) /\ (others => Spares(rt, left))
      /\ left.caps = changed.caps
  <2>1. others => \E d \in Clients \ {c} : IsMember(changed, d)
    BY <1>2 DEF IsMember
  <2>2. left \in Runtimes /\ Orders(changed, left) /\ (others => Spares(changed, left))
    BY <1>2, <2>1, DetachType, DetachMinds
  <2>3. left.caps = changed.caps
    <3>1. Transit(rt, c) /\ Relocates(rt, changed, c)
      BY <1>1, TransitEnds, SessionWrites DEF Whole, changed
    <3>2. Transit(changed, c)
      BY <1>1, <1>2, <3>1, RelocateKeeps
    <3> QED
      BY <1>2, <3>2, DetachCoheres
  <2> HIDE DEF left, others
  <2> QED
    BY <1>4, <2>2, <2>3, OrdersTransitive DEF Minds, Spares
<1>7. CASE had /\ ~has
  <2>1. rt' = RefreshMixedCohort(left)
    BY <1>3, <1>7
  <2> HIDE DEF left
  <2>2. Minds(left, rt')
    BY <1>6, <2>1, CohortMinds
  <2>3. ~IsMember(rt', c)
    <3>1. rt'.caps = left.caps
      BY <1>6, <2>1, DepartureStays DEF Stays
    <3> QED
      BY <1>2, <1>6, <1>7, <3>1 DEF Whole, Enrolled, InCohortRoom, V2
  <2>4. CoordinatorSurvives => others
    BY <2>3, SurvivorIsAnother
  <2> HIDE DEF others
  <2> QED
    BY <1>6, <2>2, <2>4, OrdersTransitive, OrdersOrderly DEF Minds, Guards, Spares
<1>8. CASE ~(had /\ ~has)
  <2> HIDE DEF attached, left
  <2>1. rt' \in {RefreshMixedCohort(attached), RefreshMixedCohort(changed)}
    BY <1>3, <1>8
  <2>2. Minds(rt, rt')
    BY <1>2, <1>4, <1>5, <2>1, CohortMinds, MindsTransitive
  <2> QED
    BY <2>2, OrdersOrderly, SparesGuards DEF Minds
<1> QED
  BY <1>7, <1>8

\* Every session step.
LEMMA MemberStepMinds ==
  ASSUME Sound(rt), Whole(rt), Sound(rt'), Whole(rt'), Orderly(rt), NEW c \in Clients,
         MemberStep(c)
  PROVE  Orderly(rt') /\ Guards
<1>1. ASSUME NEW token \in Clients \cup {NoClient}, Hello(c, token)
      PROVE  Orderly(rt') /\ Guards
  BY <1>1, HelloMinds
<1>2. ASSUME NEW caps \in Renegotiations, NEW seedReady \in BOOLEAN,
             Renegotiate(c, caps, seedReady)
      PROVE  Orderly(rt') /\ Guards
  BY <1>2, RenegotiateMinds
<1> QED
  BY <1>1, <1>2, DisconnectMinds, SwitchAwayMinds, SwitchInMinds DEF MemberStep

\* Every barrier message.
LEMMA BarrierStepMinds ==
  ASSUME rt \in Runtimes, NEW c \in Clients, BarrierStep(c)
  PROVE  Minds(rt, rt')
<1>1. ASSUME NEW q \in Requests, Prepare(c, q) \/ Recover(c, q)
      PROVE  Minds(rt, rt')
  BY <1>1, StartPlaybackBarrierMinds DEF Prepare, Recover
<1>2. ASSUME NEW g \in Generations, NEW isReady \in BOOLEAN, MediaReady(c, g, isReady)
      PROVE  Minds(rt, rt')
  BY <1>2, Components, RecordReadyMinds DEF MediaReady, Generations
<1>3. ASSUME NEW g \in Generations, NEW r \in Revisions, StartedAck(c, g, r)
      PROVE  Minds(rt, rt')
  BY <1>3, Components, RecordStartedMinds DEF StartedAck, Generations, Revisions
<1> QED
  BY <1>1, <1>2, <1>3 DEF BarrierStep

\* Every readiness message, an accepted Ready apart.
LEMMA ReadinessStepMinds ==
  ASSUME rt \in Runtimes, NEW c \in Clients, ReadinessStep(c)
  PROVE  Orders(rt, rt') /\ (UserCommand \/ Spares(rt, rt'))
<1>1. ASSUME NEW target \in Clients, NEW ready \in BOOLEAN, NEW source \in Sources,
             Intent(c, target, ready, source)
      PROVE  Orders(rt, rt') /\ (UserCommand \/ Spares(rt, rt'))
  <2>1. source \in IntentSources
    BY EvidenceAssumption
  <2>2. Orders(rt, rt') /\ (~ready => Minds(rt, rt'))
    BY <1>1, <2>1, ApplyIntentMinds DEF Intent
  <2>3. ready => UserCommand
    BY <1>1 DEF UserCommand
  <2> QED
    BY <2>2, <2>3 DEF Minds
<1>2. CASE IntentFenced(c)
  BY <1>2, StageMinds, SimpleTypes DEF IntentFenced, Minds
<1>3. ASSUME NEW target \in Clients, NEW ready \in BOOLEAN, SyncplayReady(c, target, ready)
      PROVE  Minds(rt, rt')
  BY <1>3, MutateMinds DEF SyncplayReady
<1>4. ASSUME NEW g \in Generations, NEW r \in Revisions, NEW report \in Reports,
             TechnicalReport(c, g, r, report)
      PROVE  Minds(rt, rt')
  BY <1>4, Components, ReportMinds DEF TechnicalReport, Generations, Revisions
<1> QED
  BY <1>1, <1>2, <1>3, <1>4 DEF ReadinessStep, Minds

\* `reset_room_transport_for_canonical_selection_change`.
LEMMA SelectionMinds ==
  ASSUME rt \in Runtimes, NEW c \in Clients, SelectionReset(c) \/ SelectionNoted(c)
  PROVE  Minds(rt, rt')
<1> DEFINE retired == RetireForSelection(rt)
           owner == AutomaticOwner("EndOfPlaylist")
           owned == IF rt.readiness.owner.kind # "User"
                    THEN SetPauseOwner(retired, owner) ELSE retired
           reset == ReplaceReadinessGeneration(owned, 0, FALSE)
<1>1. owner \in Owners
  BY EndOfPlaylistOwner
<1> HIDE DEF owner
<1>2. retired \in Runtimes /\ Minds(rt, retired) /\ retired.readiness = rt.readiness
  <2>1. retired \in Runtimes /\ Minds(rt, retired)
    BY RetireForSelectionType, RetireMinds
  <2>2. ASSUME NEW h, NEW part
        PROVE  EnterPhase(rt, h, part).readiness = rt.readiness
    BY DEF EnterPhase, Runtimes
  <2>3. retired.readiness = rt.readiness
    BY <2>2 DEF RetireForSelection
  <2> QED
    BY <2>1, <2>3
<1> HIDE DEF retired
<1>3. owned \in Runtimes /\ Minds(retired, owned)
  BY <1>1, <1>2, SetPauseOwnerType, OwnerMinds, MindsReflexive DEF Minds
<1> HIDE DEF owned
<1>4. reset \in Runtimes /\ Minds(owned, reset)
  BY <1>3, ReplaceReadinessGenerationType, RenewMinds
<1> HIDE DEF reset
<1>5. CASE SelectionReset(c)
  <2>1. rt' = [reset EXCEPT !.paused = TRUE]
    BY <1>5 DEF SelectionReset, reset, owned, retired, owner
  <2>2. Minds(reset, rt')
    BY <1>4, <2>1, StageMinds, SimpleTypes
  <2> QED
    BY <1>2, <1>3, <1>4, <2>2, MindsTransitive
<1>6. CASE SelectionNoted(c)
  BY <1>1, <1>6, OwnerMinds DEF SelectionNoted, owner, Minds
<1> QED
  BY <1>5, <1>6

\* Every transport command; a Playstate is the user's.
LEMMA TransportStepMinds ==
  ASSUME rt \in Runtimes, NEW c \in Clients, TransportStep(c)
  PROVE  Orders(rt, rt') /\ (UserCommand \/ Spares(rt, rt'))
<1>1. ASSUME NEW paused \in BOOLEAN, NEW seek \in BOOLEAN, Playstate(c, paused, seek)
      PROVE  Orders(rt, rt') /\ UserCommand
  <2>1. UserCommand
    BY <1>1 DEF UserCommand
  <2>2. Orders(rt, rt')
    BY <1>1, TransportMinds, MoveMinds DEF Playstate
  <2> QED
    BY <2>1, <2>2
<1> QED
  BY <1>1, SelectionMinds DEF TransportStep, Minds

\* Every expiry of the tick.
LEMMA TickStepMinds ==
  ASSUME rt \in Runtimes, TickStep
  PROVE  Minds(rt, rt')
<1>1. CASE TombstoneExpires
  <2>1. ASSUME NEW id \in rt.tombstones, rt' = [rt EXCEPT !.tombstones = @ \ {id}]
        PROVE  Minds(rt, rt')
    <3>1. /\ rt'.seq = rt.seq /\ rt'.nextSeq = rt.nextSeq
          /\ rt'.barrier = rt.barrier /\ rt'.readiness = rt.readiness
      BY <2>1 DEF Runtimes
    <3> QED
      BY <3>1, MindsIf
  <2> QED
    BY <1>1, <2>1 DEF TombstoneExpires
<1>2. ASSUME NEW c \in Clients, PendingExpires(c)
      PROVE  Minds(rt, rt')
  BY <1>2, StageMinds, SimpleTypes DEF PendingExpires
<1> QED
  BY <1>1, <1>2, TimeoutMinds DEF TickStep, PrepareDeadline, StartedDeadline

\* Every step keeps the numbers in order and guards a user's pause.
LEMMA StepMinds ==
  ASSUME Coherent, Coherent', Orderly(rt), [Next]_vars
  PROVE  Orderly(rt') /\ (UserCommand \/ Guards)
<1>1. Sound(rt) /\ Whole(rt) /\ Sound(rt') /\ Whole(rt') /\ rt \in Runtimes
  BY DEF Coherent, Sound
<1>2. CASE UNCHANGED vars
  BY <1>2, MindsReflexive, SparesGuards DEF vars, Minds
<1>3. ASSUME NEW c \in Clients, MemberStep(c)
      PROVE  Orderly(rt') /\ Guards
  BY <1>1, <1>3, MemberStepMinds
<1>4. ASSUME NEW c \in Clients, BarrierStep(c) \/ ReadinessStep(c) \/ TransportStep(c)
      PROVE  Orders(rt, rt') /\ (UserCommand \/ Spares(rt, rt'))
  BY <1>1, <1>4, BarrierStepMinds, ReadinessStepMinds, TransportStepMinds DEF Minds
<1>5. CASE TickStep
  BY <1>1, <1>5, TickStepMinds, OrdersOrderly, SparesGuards DEF Minds
<1> QED
  BY <1>2, <1>3, <1>4, <1>5, OrdersOrderly, SparesGuards DEF Next

\* The numbers are always in order, the participants of a start in preparation too.
LEMMA OrderlyAlways == Spec => []Orderly(rt)
<1>1. Init => Orderly(rt)
  BY DEF Init, InitialRuntime, NoBarrier, Orderly, Sequenced, Readying
<1>2. Coherent /\ Coherent' /\ Orderly(rt) /\ [Next]_vars => Orderly(rt)'
  BY StepMinds
<1> QED
  BY <1>1, <1>2, CoherentAlways, PTL DEF Spec

\* A user's pause yields only to users while the coordinator lives: no join, departure,
\* replaced session, report, selection, generation or timeout takes it over or releases it
\* (`set_readiness_pause_owner` and all its callers).
THEOREM UserPausesStand == Spec => UserPauseYieldsOnlyToUsers
<1>1. ASSUME Coherent, Coherent', Orderly(rt), [Next]_vars,
             rt.readiness.owner.kind = "User", CoordinatorSurvives
      PROVE  rt'.readiness.owner.kind = "User" \/ UserCommand
  <2>1. UserPaused(rt)
    BY <1>1 DEF Coherent, Sound, Authority, UserPaused
  <2>2. UserCommand \/ Guards
    BY <1>1, StepMinds
  <2> QED
    BY <1>1, <2>1, <2>2 DEF Guards, UserPaused
<1>2. Coherent /\ Coherent' /\ Orderly(rt) /\ [Next]_vars =>
        [rt.readiness.owner.kind = "User" /\ CoordinatorSurvives =>
           rt'.readiness.owner.kind = "User" \/ UserCommand]_vars
  BY <1>1
<1> QED
  BY <1>2, CoherentAlways, OrderlyAlways, PTL DEF Spec, UserPauseYieldsOnlyToUsers

-----------------------------------------------------------------------------
(* Why a start that commits is earned.                                     *)

\* The participants other than `Y` that have confirmed the prepare.
Confirmed(s, Y) == {c \in Clients \ Y : s.barrier.part[c] = "Ready"}

\* What the commit of a governed start asks for, the sessions of `X` apart.
Deserved(s, X, Y) ==
  LET staying == RequiredParticipants(s) \ X
      b == s.barrier
  IN staying # {} =>
       /\ \A c \in staying : s.readiness.part[c].startEligible
       /\ b.req.policy = "AllEligible" =>
            \A c \in staying : b.part[c] \in {"Ready", "Disconnected"}
       /\ b.req.policy = "Controller" => b.initiator \in Confirmed(s, Y)
       /\ b.req.policy = "Quorum" => Cardinality(Confirmed(s, Y)) >= b.req.quorum
       /\ MixedPolicy = "RequireAllMembers" =>
            \A c \in Clients \ X : s.place[c] = "Room" /\ c \notin s.fenced =>
              c \in StartCapable(s)

Justified(s, X, Y) ==
  s.barrier.phase = "Committed" /\ s.readiness.live => Deserved(s, X, Y)

\* A method that commits nothing and takes nothing away from a committed start.
Retains(s, t, X, Y) ==
  t.barrier.phase = "Committed" /\ t.readiness.live =>
    /\ s.barrier.phase = "Committed" /\ s.readiness.live
    /\ t.barrier.req = s.barrier.req /\ t.barrier.initiator = s.barrier.initiator
    /\ \A c \in Clients \ X : t.readiness.part[c].role = "Required" =>
         /\ t.readiness.part[c] = s.readiness.part[c]
         /\ s.barrier.part[c] \in {"Ready", "Disconnected"} =>
              t.barrier.part[c] \in {"Ready", "Disconnected"}
    /\ \A c \in Clients \ Y : s.barrier.part[c] = "Ready" => t.barrier.part[c] = "Ready"
    /\ \A c \in Clients \ X : t.place[c] = "Room" /\ c \notin t.fenced =>
         /\ s.place[c] = "Room" /\ c \notin s.fenced
         /\ c \in StartCapable(s) => c \in StartCapable(t)

\* The number of confirmations grows with the set.
LEMMA MoreConfirmed ==
  ASSUME NEW S, NEW T \in SUBSET Clients, S \subseteq T, NEW n \in Nat, Cardinality(S) >= n
  PROVE  Cardinality(T) >= n
<1>1. IsFiniteSet(T)
  BY ClientsAssumption, FS_Subset
<1>2. Cardinality(S) <= Cardinality(T) /\ IsFiniteSet(S)
  BY <1>1, FS_Subset
<1>3. Cardinality(S) \in Nat /\ Cardinality(T) \in Nat
  BY <1>1, <1>2, FS_CardinalityType
<1> QED
  BY <1>2, <1>3

\* The quorum of a request is a number.
LEMMA QuorumType ==
  ASSUME NEW s \in Runtimes, s.barrier.phase # "None"
  PROVE  s.barrier.req.quorum \in Nat
  BY LifecycleOf, RequestsAssumption

\* Such a method leaves a start as deserved as it was.
LEMMA RetainsJustified ==
  ASSUME NEW s \in Runtimes, NEW t, NEW X, NEW Y, Retains(s, t, X, Y), Justified(s, X, Y)
  PROVE  Justified(t, X, Y)
<1> SUFFICES ASSUME t.barrier.phase = "Committed", t.readiness.live,
                    RequiredParticipants(t) \ X # {}
             PROVE  Deserved(t, X, Y)
  BY DEF Justified, Deserved
<1>1. /\ s.barrier.phase = "Committed" /\ s.readiness.live
      /\ t.barrier.req = s.barrier.req /\ t.barrier.initiator = s.barrier.initiator
  BY DEF Retains
<1>2. \A c \in Clients \ X : t.readiness.part[c].role = "Required" =>
        /\ t.readiness.part[c] = s.readiness.part[c]
        /\ s.barrier.part[c] \in {"Ready", "Disconnected"} =>
             t.barrier.part[c] \in {"Ready", "Disconnected"}
  BY DEF Retains
<1>3. \A c \in RequiredParticipants(t) \ X :
        /\ c \in RequiredParticipants(s) \ X
        /\ t.readiness.part[c] = s.readiness.part[c]
        /\ s.barrier.part[c] \in {"Ready", "Disconnected"} =>
             t.barrier.part[c] \in {"Ready", "Disconnected"}
  BY <1>2 DEF RequiredParticipants
<1>4. RequiredParticipants(s) \ X # {} /\ Deserved(s, X, Y)
  BY <1>1, <1>3 DEF Justified
<1>5. Confirmed(s, Y) \subseteq Confirmed(t, Y) /\ Confirmed(t, Y) \in SUBSET Clients
  BY DEF Retains, Confirmed
<1>6. \A c \in RequiredParticipants(t) \ X : t.readiness.part[c].startEligible
  BY <1>3, <1>4 DEF Deserved
<1>7. t.barrier.req.policy = "AllEligible" =>
        \A c \in RequiredParticipants(t) \ X : t.barrier.part[c] \in {"Ready", "Disconnected"}
  BY <1>1, <1>3, <1>4 DEF Deserved
<1>8. t.barrier.req.policy = "Controller" => t.barrier.initiator \in Confirmed(t, Y)
  BY <1>1, <1>4, <1>5 DEF Deserved
<1>9. t.barrier.req.policy = "Quorum" => Cardinality(Confirmed(t, Y)) >= t.barrier.req.quorum
  <2>1. s.barrier.req.quorum \in Nat
    BY <1>1, QuorumType
  <2>2. s.barrier.req.policy = "Quorum" => Cardinality(Confirmed(s, Y)) >= s.barrier.req.quorum
    BY <1>4 DEF Deserved
  <2> QED
    BY <1>1, <1>5, <2>1, <2>2, MoreConfirmed
<1>10. MixedPolicy = "RequireAllMembers" =>
         \A c \in Clients \ X : t.place[c] = "Room" /\ c \notin t.fenced => c \in StartCapable(t)
  BY <1>4 DEF Deserved, Retains
<1> QED
  BY <1>6, <1>7, <1>8, <1>9, <1>10 DEF Deserved

\* More sessions set aside, more confirmations counted.
LEMMA JustifiedWeakens ==
  ASSUME NEW s \in Runtimes, NEW X, NEW Y, NEW V, NEW W, X \subseteq V, W \subseteq Y,
         Justified(s, X, Y)
  PROVE  Justified(s, V, W)
<1> SUFFICES ASSUME s.barrier.phase = "Committed", s.readiness.live,
                    RequiredParticipants(s) \ V # {}
             PROVE  Deserved(s, V, W)
  BY DEF Justified, Deserved
<1>1. RequiredParticipants(s) \ V \subseteq RequiredParticipants(s) \ X
  OBVIOUS
<1>2. Deserved(s, X, Y) /\ RequiredParticipants(s) \ X # {}
  BY <1>1 DEF Justified
<1>3. Confirmed(s, Y) \subseteq Confirmed(s, W) /\ Confirmed(s, W) \in SUBSET Clients
  BY DEF Confirmed
<1>4. s.barrier.req.quorum \in Nat
  BY QuorumType
<1>5. s.barrier.req.policy = "Quorum" => Cardinality(Confirmed(s, W)) >= s.barrier.req.quorum
  BY <1>2, <1>3, <1>4, MoreConfirmed DEF Deserved
<1> QED
  BY <1>1, <1>2, <1>3, <1>5 DEF Deserved

\* `commit_playback_barrier` commits only what is deserved.
LEMMA CommitJustified ==
  ASSUME NEW s \in Runtimes, Readying(s), NEW timedOut \in BOOLEAN, NEW X, NEW Y,
         s.readiness.live => \A c \in Clients \cap Y : ~ParticipantIsReady(s, c),
         Justified(s, X, Y)
  PROVE  Justified(Commit(s, timedOut), X, Y)
<1> DEFINE t == Commit(s, timedOut)
<1>1. CASE t = s
  BY <1>1
<1>2. CASE /\ s.barrier.phase = "Preparing" /\ ~CommitBlocked(s)
           /\ Committed(s, t, timedOut)
  <2> HIDE DEF t
  <2> SUFFICES ASSUME t.readiness.live, RequiredParticipants(t) \ X # {}
               PROVE  Deserved(t, X, Y)
    BY DEF Justified, Deserved, t
  <2>1. /\ s.readiness.live /\ PolicySatisfied(s) /\ CohortStartEligible(s)
        /\ ~MixedRoomBlocksStart(s)
    BY <1>2 DEF Committed, CommitBlocked, PolicySatisfied, CohortStartEligible
  <2>2. /\ t.barrier.req = s.barrier.req /\ t.barrier.initiator = s.barrier.initiator
        /\ t.readiness.part = s.readiness.part /\ t.place = s.place /\ t.caps = s.caps
        /\ t.fenced = s.fenced
        /\ \A c \in Clients : s.barrier.part[c] \in {"Ready", "Disconnected"} =>
             t.barrier.part[c] = s.barrier.part[c]
    BY <1>2 DEF Committed, PhaseAtCommit
  <2>3. RequiredParticipants(t) = RequiredParticipants(s)
    BY <2>2 DEF RequiredParticipants
  <2>4. \A c \in RequiredParticipants(s) :
          c \in Clients /\ s.readiness.part[c].startEligible /\ s.barrier.part[c] # "Absent"
    BY <2>1 DEF CohortStartEligible, RequiredParticipants
  <2>5. \A c \in Clients : ParticipantIsReady(s, c) => c \in Confirmed(t, Y)
    BY <2>1, <2>2 DEF ParticipantIsReady, Confirmed
  <2>6. t.barrier.req.policy = "AllEligible" =>
          \A c \in RequiredParticipants(t) : t.barrier.part[c] \in {"Ready", "Disconnected"}
    <3> SUFFICES ASSUME s.barrier.req.policy = "AllEligible",
                        NEW c \in RequiredParticipants(s)
                 PROVE  t.barrier.part[c] \in {"Ready", "Disconnected"}
      BY <2>2, <2>3
    <3>1. s.barrier.part[c] \in {"Degraded", "Disconnected"} \/ ParticipantIsReady(s, c)
      BY <2>1, <2>4 DEF PolicySatisfied
    <3>2. s.barrier.part[c] # "Degraded"
      BY <1>2, <2>4 DEF Readying
    <3>3. s.barrier.part[c] \in {"Ready", "Disconnected"}
      BY <3>1, <3>2 DEF ParticipantIsReady
    <3> QED
      BY <2>2, <2>4, <3>3
  <2>7. t.barrier.req.policy = "Controller" => t.barrier.initiator \in Confirmed(t, Y)
    BY <2>1, <2>2, <2>5 DEF PolicySatisfied
  <2>8. t.barrier.req.policy = "Quorum" =>
          Cardinality(Confirmed(t, Y)) >= t.barrier.req.quorum
    <3> DEFINE ready == {c \in {d \in Clients : s.barrier.part[d] # "Absent"} :
                           ParticipantIsReady(s, c)}
    <3>1. s.barrier.req.policy = "Quorum" => Cardinality(ready) >= s.barrier.req.quorum
      BY <2>1 DEF PolicySatisfied
    <3>2. ready \subseteq Confirmed(t, Y) /\ Confirmed(t, Y) \in SUBSET Clients
      BY <2>5 DEF Confirmed
    <3> HIDE DEF ready
    <3>3. s.barrier.req.quorum \in Nat
      BY <1>2, QuorumType
    <3> QED
      BY <2>2, <3>1, <3>2, <3>3, MoreConfirmed
  <2>9. MixedPolicy = "RequireAllMembers" =>
          \A c \in Clients \ X : t.place[c] = "Room" /\ c \notin t.fenced => c \in StartCapable(t)
    BY <2>1, <2>2 DEF MixedRoomBlocksStart, ClientsInRoom, StartCapable, V2, BarrierV1
  <2> QED
    BY <2>2, <2>3, <2>4, <2>6, <2>7, <2>8, <2>9 DEF Deserved
<1> QED
  BY <1>1, <1>2, CommitWrites

\* Neither the lifecycle nor the records nor the sessions change.
Alike(s, t) ==
  /\ t.barrier = s.barrier /\ t.readiness.part = s.readiness.part
  /\ t.readiness.live = s.readiness.live
  /\ t.place = s.place /\ t.caps = s.caps /\ t.fenced = s.fenced

\* Then the start is as deserved, and the same participants are ready.
LEMMA AlikeRetains ==
  ASSUME NEW s, NEW t, Alike(s, t), NEW X, NEW Y
  PROVE  /\ Retains(s, t, X, Y) /\ (Readying(s) => Readying(t))
         /\ \A c \in Clients : ParticipantIsReady(t, c) <=> ParticipantIsReady(s, c)
<1>1. \A c \in Clients : c \in StartCapable(t) <=> c \in StartCapable(s)
  BY DEF Alike, StartCapable, V2, BarrierV1
<1>2. \A c \in Clients : ParticipantIsReady(t, c) <=> ParticipantIsReady(s, c)
  BY <1>1 DEF Alike, ParticipantIsReady, ClientsInRoom
<1> QED
  BY <1>1, <1>2 DEF Alike, Retains, Readying

\* The published gate and the owner of the pause are beside the point.
LEMMA GateAlike ==
  ASSUME NEW s \in Runtimes, NEW o \in Owners
  PROVE  Alike(s, RefreshGate(s)) /\ Alike(s, SetPauseOwner(s, o))
<1>1. ASSUME NEW g
      PROVE  Alike(s, [s EXCEPT !.readiness.gate = g])
  BY DEF Runtimes, Readinesses, Alike
<1>2. Alike(s, s)
  BY DEF Alike
<1>3. Alike(s, RefreshGate(s))
  BY <1>1, <1>2 DEF RefreshGate
<1> DEFINE u == [s EXCEPT !.readiness.owner = o]
<1>4. u \in Runtimes /\ Alike(s, u)
  BY OwnerUpdate DEF Runtimes, Readinesses, Alike
<1> HIDE DEF u
<1>5. Alike(s, RetirePendingTransport(u))
  <2>1. Alike(u, RetirePendingTransport(u))
    BY <1>4 DEF RetirePendingTransport, Runtimes, Alike
  <2> QED
    BY <1>4, <2>1 DEF Alike
<1> QED
  BY <1>2, <1>3, <1>5 DEF SetPauseOwner, u

\* `maybe_commit_readiness_gate`, alone and after `refresh_readiness_gate_phase`.
LEMMA EvaluateJustified ==
  ASSUME NEW s \in Runtimes, Readying(s), NEW X, NEW Y,
         s.readiness.live => \A c \in Clients \cap Y : ~ParticipantIsReady(s, c),
         Justified(s, X, Y)
  PROVE  Justified(MaybeCommit(s), X, Y) /\ Justified(MaybeCommit(RefreshGate(s)), X, Y)
<1>1. ASSUME NEW x \in Runtimes, Readying(x), Justified(x, X, Y),
             x.readiness.live => \A c \in Clients \cap Y : ~ParticipantIsReady(x, c)
      PROVE  Justified(MaybeCommit(x), X, Y)
  BY <1>1, CommitJustified DEF MaybeCommit
<1> DEFINE t == RefreshGate(s)
<1>2. t \in Runtimes /\ Alike(s, t)
  BY RefreshGateType, GateAlike, OwnerTypes
<1> HIDE DEF t
<1>3. /\ Readying(t) /\ Justified(t, X, Y)
      /\ t.readiness.live => \A c \in Clients \cap Y : ~ParticipantIsReady(t, c)
  BY <1>2, AlikeRetains, RetainsJustified DEF Alike
<1>4. Justified(MaybeCommit(t), X, Y)
  BY <1>1, <1>2, <1>3
<1> QED
  BY <1>1, <1>4 DEF t

\* `detach_readiness_membership`: who leaves is not counted.
LEMMA DetachJustified ==
  ASSUME NEW s \in Runtimes, Readying(s), NEW c \in Clients, NEW retain \in BOOLEAN,
         NEW X, NEW Y \in SUBSET {c}, Justified(s, X, Y)
  PROVE  Justified(Detach(s, c, retain), X, Y)
<1> DEFINE record == s.readiness.part[c]
           detached == IF retain
                       THEN [kept |-> TRUE, intentReady |-> record.intentReady,
                             touched |-> record.touched]
                       ELSE s.detached[c]
           unstaged == [s EXCEPT !.pending[c] = NoPending]
           removed == [s EXCEPT !.pending[c] = NoPending, !.readiness.part[c] = NoRecord,
                                !.detached[c] = detached]
           evaluated == MaybeCommit(RefreshGate(removed))
           cleared == ClearGate(evaluated)
           dissolved == [cleared EXCEPT !.readiness = NoReadiness]
           t == Detach(s, c, retain)
<1>1. t \in {unstaged, evaluated, dissolved}
  BY DEF Detach
<1>2. Justified(unstaged, X, Y)
  <2>1. Alike(s, unstaged)
    BY DEF Alike, Runtimes
  <2> HIDE DEF unstaged
  <2> QED
    BY <2>1, AlikeRetains, RetainsJustified
<1>3. detached \in Detacheds
  <2>1. s.detached[c] \in Detacheds
    BY Components
  <2>2. record.intentReady \in BOOLEAN /\ record.touched \in BOOLEAN
    BY RecordOf DEF Records
  <2> QED
    BY <2>1, <2>2 DEF Detacheds
<1> HIDE DEF detached
<1>4. /\ removed \in Runtimes /\ removed.barrier = s.barrier
      /\ removed.readiness.live = s.readiness.live
      /\ removed.place = s.place /\ removed.caps = s.caps /\ removed.fenced = s.fenced
      /\ \A d \in Clients : removed.readiness.part[d] =
                             IF d = c THEN NoRecord ELSE s.readiness.part[d]
  BY <1>3, NoRecordType, SimpleTypes DEF Runtimes, Readinesses
<1> HIDE DEF removed
<1>5. NoRecord.role = "Absent" /\ NoRecord.startEligible = FALSE
  BY DEF NoRecord
<1>6. Readying(removed)
  BY <1>4 DEF Readying
<1>7. Retains(s, removed, X, Y)
  <2>1. \A d \in Clients : d \in StartCapable(removed) <=> d \in StartCapable(s)
    BY <1>4 DEF StartCapable, V2, BarrierV1
  <2>2. \A d \in Clients : removed.readiness.part[d].role = "Required" =>
          removed.readiness.part[d] = s.readiness.part[d]
    BY <1>4, <1>5
  <2> QED
    BY <1>4, <2>1, <2>2 DEF Retains
<1>8. removed.readiness.live => \A d \in Clients \cap Y : ~ParticipantIsReady(removed, d)
  BY <1>4, <1>5 DEF ParticipantIsReady
<1>9. evaluated \in Runtimes /\ Justified(evaluated, X, Y)
  <2>1. Justified(removed, X, Y)
    BY <1>7, RetainsJustified
  <2> QED
    BY <1>4, <1>6, <1>8, <2>1, EvaluateJustified, RefreshGateType, MaybeCommitType
<1> HIDE DEF evaluated
<1>10. Justified(dissolved, X, Y)
  <2>1. cleared \in Runtimes
    BY <1>9, ClearGateType
  <2> HIDE DEF cleared
  <2>2. dissolved.readiness = NoReadiness
    BY <2>1 DEF Runtimes
  <2>3. NoReadiness.live = FALSE
    BY DEF NoReadiness
  <2> HIDE DEF dissolved
  <2> QED
    BY <2>2, <2>3 DEF Justified
<1> HIDE DEF dissolved, unstaged, t
<1>11. Justified(t, X, Y)
  BY <1>1, <1>2, <1>9, <1>10
<1> QED
  BY <1>11 DEF t

\* `mark_playback_barrier_participant_disconnected`: a lost session confirms nothing.
LEMMA MarkJustified ==
  ASSUME NEW s \in Runtimes, Readying(s), NEW c \in Clients, NEW X, Justified(s, X, {c})
  PROVE  Justified(MarkParticipantDisconnected(s, c), X, {c})
<1> DEFINE marked == [s EXCEPT !.barrier.part[c] = "Disconnected"]
           t == MarkParticipantDisconnected(s, c)
<1>1. CASE t = s
  BY <1>1
<1>2. CASE Active(s.barrier) /\ t = MaybeCommit(marked)
  <2>1. marked \in Runtimes
    BY <1>2, ParticipantRuntime DEF Active, ParticipantPhases
  <2>2. /\ marked.barrier.phase = s.barrier.phase /\ marked.barrier.req = s.barrier.req
        /\ marked.barrier.initiator = s.barrier.initiator
        /\ marked.barrier.part = [s.barrier.part EXCEPT ![c] = "Disconnected"]
        /\ marked.readiness = s.readiness /\ marked.place = s.place
        /\ marked.caps = s.caps /\ marked.fenced = s.fenced
    <3>1. s.barrier \in Lifecycles
      BY <1>2, LifecycleOf DEF Active
    <3> QED
      BY <3>1 DEF Runtimes, Lifecycles
  <2>3. Readying(marked)
    BY <1>2, ParticipantMinds DEF Minds, Orders
  <2> HIDE DEF marked
  <2>4. s.barrier.part \in [Clients -> ParticipantPhases]
    BY <1>2, LifecycleOf DEF Active
  <2>5. marked.barrier.part[c] = "Disconnected"
        /\ \A d \in Clients \ {c} : marked.barrier.part[d] = s.barrier.part[d]
    BY <2>2, <2>4
  <2>6. Retains(s, marked, X, {c})
    <3>1. \A d \in Clients : d \in StartCapable(marked) <=> d \in StartCapable(s)
      BY <2>2 DEF StartCapable, V2, BarrierV1
    <3>2. \A d \in Clients : s.barrier.part[d] \in {"Ready", "Disconnected"} =>
            marked.barrier.part[d] \in {"Ready", "Disconnected"}
      BY <2>5
    <3> QED
      BY <2>2, <2>5, <3>1, <3>2 DEF Retains
  <2>7. \A d \in Clients \cap {c} : ~ParticipantIsReady(marked, d)
    BY <2>5 DEF ParticipantIsReady
  <2>8. Justified(marked, X, {c})
    BY <2>6, RetainsJustified
  <2> QED
    BY <1>2, <2>1, <2>3, <2>7, <2>8, EvaluateJustified
<1> QED
  BY <1>1, <1>2 DEF MarkParticipantDisconnected

\* Only the session of `c` moves.
Moves(s, t, c) ==
  /\ t.barrier = s.barrier /\ t.readiness = s.readiness
  /\ \A d \in Clients \ {c} :
       /\ t.place[d] = s.place[d] /\ t.caps[d] = s.caps[d]
       /\ d \in t.fenced <=> d \in s.fenced

\* A session that is set aside may move.
LEMMA MoveJustified ==
  ASSUME NEW s \in Runtimes, NEW t, NEW c \in Clients, Moves(s, t, c), NEW X, NEW Y,
         c \in X \/ s.barrier.phase # "Committed", Justified(s, X, Y)
  PROVE  Justified(t, X, Y)
<1>1. CASE s.barrier.phase # "Committed"
  BY <1>1 DEF Moves, Justified
<1>2. CASE c \in X
  <2>1. \A d \in Clients \ {c} : d \in StartCapable(t) <=> d \in StartCapable(s)
    BY DEF Moves, StartCapable, V2, BarrierV1
  <2>2. \A d \in Clients \ X : d \in Clients \ {c}
    BY <1>2
  <2>3. Retains(s, t, X, Y)
    BY <2>1, <2>2 DEF Moves, Retains
  <2> QED
    BY <2>3, RetainsJustified
<1> QED
  BY <1>1, <1>2

\* No session outside `X` is about to be promoted to the required cohort.
Unpromoted(s, X) ==
  \A c \in Clients \ X : IsMember(s, c) /\ RoleOf(s, c) = "Required" =>
    s.readiness.part[c].role = "Required"

\* Roles that follow the sessions promote nobody.
LEMMA FollowedIsUnpromoted ==
  ASSUME NEW s, NEW X, RolesFollow(s)
  PROVE  Unpromoted(s, X)
  BY DEF Unpromoted, RolesFollow, RoleOf

\* Nobody is promoted by a method that moves nobody and rewrites no role, except perhaps
\* to remove a member.
LEMMA UnpromotedStays ==
  ASSUME NEW s, NEW t, NEW X, Stays(s, t), Unpromoted(s, X),
         \A c \in Clients : IsMember(t, c) =>
           t.readiness.part[c].role = s.readiness.part[c].role
  PROVE  Unpromoted(t, X)
<1>1. \A c \in Clients : RoleOf(t, c) = RoleOf(s, c)
  BY DEF Stays, RoleOf, ClientsInRoom, StartCapable, V2, BarrierV1
<1>2. \A c \in Clients : IsMember(t, c) => IsMember(s, c)
  BY DEF IsMember
<1> QED
  BY <1>1, <1>2 DEF Unpromoted

\* The methods that follow the cohort promote nobody.
LEMMA FollowsUnpromoted ==
  ASSUME NEW s, NEW t, NEW X, Follows(s, t), Unpromoted(s, X)
  PROVE  Unpromoted(t, X)
<1>1. Stays(s, t) /\ \A c \in Clients : t.readiness.part[c].role = s.readiness.part[c].role
  BY DEF Follows, Tracks, SameRoom, Stays
<1> QED
  BY <1>1, UnpromotedStays

\* Nor does a session that is set aside and moves.
LEMMA MoveUnpromoted ==
  ASSUME NEW s, NEW t, NEW c \in Clients, Moves(s, t, c), NEW X, c \in X, Unpromoted(s, X)
  PROVE  Unpromoted(t, X)
<1>1. \A d \in Clients \ {c} : RoleOf(t, d) = RoleOf(s, d)
  BY DEF Moves, RoleOf, ClientsInRoom, StartCapable, V2, BarrierV1
<1>2. \A d \in Clients : /\ IsMember(t, d) <=> IsMember(s, d)
                         /\ t.readiness.part[d].role = s.readiness.part[d].role
  BY DEF Moves, IsMember
<1> QED
  BY <1>1, <1>2 DEF Unpromoted

\* `detach_readiness_membership` promotes nobody.
LEMMA DetachUnpromoted ==
  ASSUME NEW s \in Runtimes, NEW c \in Clients, NEW retain \in BOOLEAN, NEW X,
         Unpromoted(s, X)
  PROVE  Unpromoted(Detach(s, c, retain), X)
<1> DEFINE record == s.readiness.part[c]
           detached == IF retain
                       THEN [kept |-> TRUE, intentReady |-> record.intentReady,
                             touched |-> record.touched]
                       ELSE s.detached[c]
           unstaged == [s EXCEPT !.pending[c] = NoPending]
           removed == [s EXCEPT !.pending[c] = NoPending, !.readiness.part[c] = NoRecord,
                                !.detached[c] = detached]
           evaluated == MaybeCommit(RefreshGate(removed))
           cleared == ClearGate(evaluated)
           dissolved == [cleared EXCEPT !.readiness = NoReadiness]
           t == Detach(s, c, retain)
<1>1. t \in {unstaged, evaluated, dissolved}
  BY DEF Detach
<1>2. Unpromoted(unstaged, X)
  <2>1. Follows(s, unstaged)
    BY DropPendingFollows
  <2> HIDE DEF unstaged
  <2> QED
    BY <2>1, FollowsUnpromoted
<1>3. detached \in Detacheds
  <2>1. s.detached[c] \in Detacheds
    BY Components
  <2>2. record.intentReady \in BOOLEAN /\ record.touched \in BOOLEAN
    BY RecordOf DEF Records
  <2> QED
    BY <2>1, <2>2 DEF Detacheds
<1> HIDE DEF detached
<1>4. /\ removed \in Runtimes /\ Stays(s, removed)
      /\ \A d \in Clients : removed.readiness.part[d] =
                             IF d = c THEN NoRecord ELSE s.readiness.part[d]
  BY <1>3, NoRecordType, SimpleTypes DEF Runtimes, Readinesses, Stays
<1> HIDE DEF removed
<1>5. NoRecord.role = "Absent"
  BY DEF NoRecord
<1>6. Unpromoted(removed, X)
  BY <1>4, <1>5, UnpromotedStays DEF IsMember
<1>7. evaluated \in Runtimes /\ Unpromoted(evaluated, X)
  <2>1. evaluated \in Runtimes /\ Follows(removed, evaluated)
    BY <1>4, RefreshGateType, MaybeCommitType, MaybeCommitFollows
  <2> HIDE DEF evaluated
  <2> QED
    BY <1>6, <2>1, FollowsUnpromoted
<1> HIDE DEF evaluated
<1>8. Unpromoted(dissolved, X)
  <2>1. cleared \in Runtimes
    BY <1>7, ClearGateType
  <2> HIDE DEF cleared
  <2>2. dissolved.readiness = NoReadiness
    BY <2>1 DEF Runtimes
  <2>3. \A d \in Clients : NoReadiness.part[d].role = "Absent"
    BY <1>5 DEF NoReadiness
  <2> HIDE DEF dissolved
  <2> QED
    BY <2>2, <2>3 DEF Unpromoted, IsMember
<1> HIDE DEF dissolved, unstaged, t
<1>9. Unpromoted(t, X)
  BY <1>1, <1>2, <1>7, <1>8
<1> QED
  BY <1>9 DEF t

\* `reconcile_mixed_readiness_cohort_state` takes nothing away from a committed start that
\* promotes nobody.
LEMMA ReconcileRetains ==
  ASSUME NEW s \in Runtimes, NEW X, NEW Y, s.barrier.phase = "Committed" => Unpromoted(s, X)
  PROVE  LET t == ReconcileCohort(s)
         IN Retains(s, t, X, Y) /\ t.readiness.live = s.readiness.live /\ Stays(s, t)
<1> DEFINE t == ReconcileCohort(s)
<1>1. CASE ~s.readiness.live
  <2>1. t = s
    BY <1>1 DEF ReconcileCohort
  <2> QED
    BY <2>1 DEF Retains, Stays
<1>2. CASE s.readiness.live
  <2>1. Reconciled(s, t)
    BY <1>2, ReconcileWrites
  <2>2. Stays(s, t) /\ t.readiness.live = s.readiness.live /\ t.barrier.phase = s.barrier.phase
    BY <2>1 DEF Reconciled, Stays
  <2>3. s.barrier.phase = "Committed" => t.barrier = s.barrier
    <3> DEFINE part == [c \in Clients |->
                          IF s.readiness.part[c].role \in {"Absent", RoleOf(s, c)}
                          THEN s.readiness.part[c]
                          ELSE Recompute([s.readiness.part[c] EXCEPT !.role = RoleOf(s, c)],
                                         s.readiness.gen)]
    <3>1. s.barrier.phase = "Committed" =>
            t = [s EXCEPT !.readiness.part = part, !.barrier = s.barrier]
      BY <1>2 DEF ReconcileCohort, RoleOf
    <3> HIDE DEF part
    <3>2. [s EXCEPT !.readiness.part = part, !.barrier = s.barrier].barrier = s.barrier
      BY DEF Runtimes
    <3> QED
      BY <3>1, <3>2
  <2>4. \A c \in Clients : s.readiness.part[c].role \in {"Absent", RoleOf(s, c)} =>
          t.readiness.part[c] = s.readiness.part[c]
    <3> DEFINE part == [c \in Clients |->
                          IF s.readiness.part[c].role \in {"Absent", RoleOf(s, c)}
                          THEN s.readiness.part[c]
                          ELSE Recompute([s.readiness.part[c] EXCEPT !.role = RoleOf(s, c)],
                                         s.readiness.gen)]
    <3>1. \A c \in Clients : s.readiness.part[c].role \in {"Absent", RoleOf(s, c)} =>
            part[c] = s.readiness.part[c]
      OBVIOUS
    <3>2. \E b : t = [s EXCEPT !.readiness.part = part, !.barrier = b]
      BY <1>2 DEF ReconcileCohort, RoleOf
    <3> HIDE DEF part, t
    <3>3. ASSUME NEW b, t = [s EXCEPT !.readiness.part = part, !.barrier = b]
          PROVE  t.readiness.part = part
      BY <3>3 DEF Runtimes, Readinesses
    <3> QED
      BY <3>1, <3>2, <3>3
  <2>5. \A c \in Clients : IsMember(s, c) => t.readiness.part[c].role = RoleOf(s, c)
    BY <2>1 DEF Reconciled
  <2>6. \A c \in Clients : ~IsMember(s, c) => t.readiness.part[c].role = "Absent"
    BY <2>1 DEF Reconciled, IsMember
  <2>7. s.barrier.phase = "Committed" =>
          \A c \in Clients \ X : t.readiness.part[c].role = "Required" =>
            t.readiness.part[c] = s.readiness.part[c]
    BY <2>4, <2>5, <2>6 DEF Unpromoted
  <2>8. \A c \in Clients : c \in StartCapable(t) <=> c \in StartCapable(s)
    BY <2>2 DEF Stays, StartCapable, V2, BarrierV1
  <2> HIDE DEF t
  <2>9. Retains(s, t, X, Y)
    BY <1>2, <2>2, <2>3, <2>7, <2>8 DEF Retains, Stays
  <2> QED
    BY <2>2, <2>9 DEF t
<1> QED
  BY <1>1, <1>2

\* `refresh_mixed_readiness_cohort`: the roles first, the evaluation second.
LEMMA RefreshJustified ==
  ASSUME NEW s \in Runtimes, Readying(s), NEW X, NEW Y,
         s.barrier.phase = "Committed" => Unpromoted(s, X),
         \A c \in Clients \cap Y : s.place[c] # "Room", Justified(s, X, Y)
  PROVE  Justified(RefreshMixedCohort(s), X, Y)
<1> DEFINE r == ReconcileCohort(s)
<1>1. /\ r \in Runtimes /\ Readying(r) /\ Retains(s, r, X, Y) /\ Stays(s, r)
  BY ReconcileCohortType, CohortMinds, ReconcileRetains DEF Minds, Orders
<1>2. RefreshMixedCohort(s) \in {s, MaybeCommit(RefreshGate(r))}
  BY DEF RefreshMixedCohort
<1> HIDE DEF r
<1>3. r.readiness.live => \A c \in Clients \cap Y : ~ParticipantIsReady(r, c)
  BY <1>1 DEF Stays, ParticipantIsReady, ClientsInRoom
<1>4. Justified(r, X, Y)
  BY <1>1, RetainsJustified
<1>5. Justified(MaybeCommit(RefreshGate(r)), X, Y)
  BY <1>1, <1>3, <1>4, EvaluateJustified
<1> QED
  BY <1>2, <1>5

\* `cleanup_room_if_empty` keeps the start or forgets it.
LEMMA CleanupJustified ==
  ASSUME NEW s \in Runtimes, NEW X, NEW Y, Justified(s, X, Y)
  PROVE  Justified(CleanupRoom(s), X, Y)
<1> DEFINE cleared == ClearGate(s)
           emptied == [cleared EXCEPT !.barrier = NoBarrier, !.paused = TRUE, !.tombstones = {}]
<1>1. cleared \in Runtimes
  BY ClearGateType
<1>2. CleanupRoom(s) \in {s, emptied}
  BY DEF CleanupRoom
<1> HIDE DEF cleared
<1>3. emptied.barrier = NoBarrier
  BY <1>1 DEF Runtimes
<1>4. NoBarrier.phase # "Committed"
  BY DEF NoBarrier
<1> HIDE DEF emptied
<1>5. Justified(emptied, X, Y)
  BY <1>3, <1>4 DEF Justified
<1> QED
  BY <1>2, <1>5

\* `attach_readiness_membership` of a session that is set aside, or before the commit.
LEMMA AttachJustified ==
  ASSUME NEW s \in Runtimes, Readying(s), MembersLive(s), NEW c \in Clients,
         NEW token \in Clients \cup {NoClient}, NEW seedReady \in BOOLEAN, NEW X,
         s.barrier.phase = "Committed" => c \in X /\ Unpromoted(s, X), Justified(s, X, {})
  PROVE  Justified(Attach(s, c, token, seedReady), X, {})
<1> DEFINE kept == IF token = NoClient THEN NoDetached ELSE s.detached[token]
           detached == IF kept.kept THEN [s.detached EXCEPT ![token] = NoDetached]
                       ELSE s.detached
           owner == IF kept.kept /\ s.readiness.owner = UserOwner(token)
                    THEN UserOwner(c) ELSE s.readiness.owner
           record == JoiningRecord(s, c, kept, seedReady)
           g == CurrentGeneration(s)
           readiness == [s.readiness EXCEPT !.live = TRUE, !.gen = g, !.owner = owner,
                                            !.part[c] = record]
           joined == [s EXCEPT !.pending[c] = NoPending, !.detached = detached,
                               !.readiness = readiness]
           cohort == ReconcileCohort(joined)
           owned == IF s.barrier.phase = "Preparing" /\ cohort.readiness.owner.kind # "User"
                    THEN SetPauseOwner(cohort, GateOwner(s.barrier.gen))
                    ELSE cohort
<1>1. kept \in Detacheds /\ detached \in [Clients -> Detacheds]
  BY Components, SimpleTypes
<1>2. owner \in Owners
  BY Components, ReadinessComponents, OwnerTypes
<1> HIDE DEF kept
<1>3. record \in Records /\ g \in Nat
  BY <1>1, JoiningRecordType, CurrentGenerationType
<1> HIDE DEF detached, owner, record, g
<1>4. /\ readiness \in Readinesses /\ readiness.live = TRUE
      /\ \A d \in Clients \ {c} : readiness.part[d] = s.readiness.part[d]
  BY <1>2, <1>3, Components DEF Readinesses
<1> HIDE DEF readiness
<1>5. /\ joined \in Runtimes /\ joined.readiness = readiness /\ joined.barrier = s.barrier
      /\ joined.place = s.place /\ joined.caps = s.caps /\ joined.fenced = s.fenced
  BY <1>1, <1>4, SimpleTypes DEF Runtimes
<1> HIDE DEF joined
<1>6. Readying(joined)
  BY <1>5 DEF Readying
<1>7. \A d \in Clients : d \in StartCapable(joined) <=> d \in StartCapable(s)
  BY <1>5 DEF StartCapable, V2, BarrierV1
<1>8. joined.barrier.phase = "Committed" => Unpromoted(joined, X)
  <2> SUFFICES ASSUME s.barrier.phase = "Committed", NEW d \in Clients \ X
               PROVE  IsMember(joined, d) /\ RoleOf(joined, d) = "Required" =>
                        joined.readiness.part[d].role = "Required"
    BY <1>5 DEF Unpromoted
  <2>1. joined.readiness.part[d] = s.readiness.part[d]
    BY <1>4, <1>5
  <2>2. RoleOf(joined, d) = RoleOf(s, d)
    BY <1>5, <1>7 DEF RoleOf, ClientsInRoom
  <2> QED
    BY <2>1, <2>2 DEF Unpromoted, IsMember
<1>9. Justified(joined, X, {})
  <2>1. CASE s.barrier.phase # "Committed"
    BY <1>5, <2>1 DEF Justified
  <2>2. CASE s.barrier.phase = "Committed" /\ s.readiness.live
    <3>1. \A d \in Clients \ X : joined.readiness.part[d] = s.readiness.part[d]
      BY <1>4, <1>5, <2>2
    <3>2. Retains(s, joined, X, {})
      BY <1>5, <1>7, <2>2, <3>1 DEF Retains
    <3> QED
      BY <3>2, RetainsJustified
  <2>3. CASE s.barrier.phase = "Committed" /\ ~s.readiness.live
    <3>1. \A d \in Clients \ X : joined.readiness.part[d].role = "Absent"
      BY <1>4, <1>5, <2>3 DEF MembersLive, IsMember
    <3>2. RequiredParticipants(joined) \ X = {}
      BY <3>1 DEF RequiredParticipants
    <3> QED
      BY <3>2 DEF Justified, Deserved
  <2> QED
    BY <2>1, <2>2, <2>3
<1>10. cohort \in Runtimes /\ Readying(cohort) /\ Justified(cohort, X, {})
  <2>1. cohort \in Runtimes /\ Readying(cohort)
    BY <1>5, <1>6, ReconcileCohortType, CohortMinds DEF Minds, Orders
  <2>2. Retains(joined, cohort, X, {})
    BY <1>5, <1>8, ReconcileRetains
  <2> QED
    BY <1>5, <1>9, <2>1, <2>2, RetainsJustified
<1> HIDE DEF cohort
<1>11. GateOwner(s.barrier.gen) \in Owners
  BY Components, BarrierComponents, OwnerTypes
<1>12. owned \in Runtimes /\ Alike(cohort, owned)
  <2>1. Alike(cohort, cohort)
    BY DEF Alike
  <2> QED
    BY <1>10, <1>11, <2>1, SetPauseOwnerType, GateAlike
<1> HIDE DEF owned
<1>13. Readying(owned) /\ Justified(owned, X, {})
  BY <1>10, <1>12, AlikeRetains, RetainsJustified
<1>14. Justified(MaybeCommit(RefreshGate(owned)), X, {})
  BY <1>12, <1>13, EvaluateJustified
<1> QED
  BY <1>14 DEF Attach, owned, cohort, joined, readiness, g, record, owner, detached, kept

\* What a start that commits owes to the sessions that stay, `X` being set aside.
Earns(X) ==
  rt.barrier.phase # "Committed" =>
    Justified(rt', X, {}) /\ \A c \in X : rt'.place[c] = "Room" => Replaced(c)

\* The departure of a session, in either order of its two parts: it is not counted.
LEMMA LeaveJustified ==
  ASSUME NEW s \in Runtimes, Readying(s), RolesFollow(s), NEW c \in Clients,
         NEW retain \in BOOLEAN, Justified(s, {c}, {c})
  PROVE  LET t == MarkParticipantDisconnected(Detach(s, c, retain), c)
             u == Detach(MarkParticipantDisconnected(s, c), c, retain)
         IN /\ Justified(t, {c}, {c}) /\ Unpromoted(t, {c})
            /\ Justified(u, {c}, {c}) /\ Unpromoted(u, {c})
<1> DEFINE left == Detach(s, c, retain)
           t == MarkParticipantDisconnected(left, c)
           marked == MarkParticipantDisconnected(s, c)
           u == Detach(marked, c, retain)
<1>1. Unpromoted(s, {c})
  BY FollowedIsUnpromoted
<1>2. /\ left \in Runtimes /\ Readying(left) /\ Justified(left, {c}, {c})
      /\ Unpromoted(left, {c})
  BY <1>1, DetachType, DetachMinds, DetachJustified, DetachUnpromoted DEF Orders
<1>3. /\ marked \in Runtimes /\ Readying(marked) /\ Justified(marked, {c}, {c})
      /\ Unpromoted(marked, {c})
  BY <1>1, MarkParticipantDisconnectedType, MarkMinds, MarkJustified,
     MarkDisconnectedFollows, FollowsUnpromoted DEF Minds, Orders
<1> HIDE DEF left, marked
<1>4. Justified(t, {c}, {c}) /\ Unpromoted(t, {c})
  BY <1>2, MarkJustified, MarkDisconnectedFollows, FollowsUnpromoted
<1>5. Justified(u, {c}, {c}) /\ Unpromoted(u, {c})
  BY <1>3, DetachJustified, DetachUnpromoted
<1> QED
  BY <1>4, <1>5 DEF t, u, left, marked

\* The session has gone, the others are evaluated again.
LEMMA GoneJustified ==
  ASSUME NEW s \in Runtimes, Readying(s), NEW c \in Clients, NEW t \in Runtimes,
         Moves(s, t, c), t.place[c] # "Room", Justified(s, {c}, {c}), Unpromoted(s, {c})
  PROVE  LET u == CleanupRoom(RefreshMixedCohort(t))
         IN Justified(u, {c}, {}) /\ u.place[c] # "Room"
<1> DEFINE v == RefreshMixedCohort(t)
           u == CleanupRoom(v)
<1>1. Readying(t)
  BY DEF Moves, Readying
<1>2. Justified(t, {c}, {c}) /\ Unpromoted(t, {c})
  BY MoveJustified, MoveUnpromoted
<1>3. v \in Runtimes /\ Justified(v, {c}, {c})
  BY <1>1, <1>2, RefreshJustified, RefreshMixedCohortType
<1>4. Stays(t, u)
  BY DepartureStays
<1> HIDE DEF v
<1>5. u \in Runtimes /\ Justified(u, {c}, {c})
  BY <1>3, CleanupJustified, CleanupRoomType
<1> HIDE DEF u
<1>6. Justified(u, {c}, {})
  BY <1>5, JustifiedWeakens
<1> QED
  BY <1>4, <1>6 DEF Stays, u, v

\* What is written to one session.
LEMMA SessionMoves ==
  ASSUME NEW s \in Runtimes, NEW c \in Clients, NEW place, NEW caps, NEW n, NEW kept
  PROVE  /\ Moves(s, JoinRoom(s, c, caps), c)
         /\ Moves(s, RemoveSession(s, c, place), c)
         /\ Moves(s, [s EXCEPT !.place[c] = place, !.nextSeq = n, !.seq[c] = n], c)
         /\ Moves(s, [s EXCEPT !.caps[c] = caps], c)
         /\ Moves(s, [s EXCEPT !.detached[c] = kept], c)
  BY DEF Runtimes, Moves, JoinRoom, RemoveSession

\* The departure of a session that a new Hello replaces, and a disconnect.
LEMMA DepartJustified ==
  ASSUME NEW s, Sound(s), Whole(s), Orderly(s), NEW c \in Clients, Justified(s, {c}, {c})
  PROVE  /\ Justified(ReplaceSession(s, c), {c}, {})
         /\ LET u == DepartSession(s, c) IN Justified(u, {c}, {}) /\ u.place[c] # "Room"
<1> DEFINE replaced == MarkParticipantDisconnected(Detach(s, c, TRUE), c)
           gone == Detach(MarkParticipantDisconnected(s, c), c, TRUE)
           t == RemoveSession(replaced, c, "New")
           u == RemoveSession(gone, c, "Gone")
<1>1. s \in Runtimes /\ Readying(s) /\ RolesFollow(s)
  BY DEF Sound, Orderly, Whole, Cohort
<1>2. /\ Justified(replaced, {c}, {c}) /\ Unpromoted(replaced, {c})
      /\ Justified(gone, {c}, {c}) /\ Unpromoted(gone, {c})
  BY <1>1, LeaveJustified
<1>3. replaced \in Runtimes /\ Readying(replaced) /\ gone \in Runtimes /\ Readying(gone)
  BY <1>1, LeaveMinds DEF Orders
<1> HIDE DEF replaced, gone
<1>4. t \in Runtimes /\ u \in Runtimes
  BY <1>3, RemoveSessionType DEF Places
<1>5. Moves(replaced, t, c) /\ Moves(gone, u, c)
  BY <1>3, SessionMoves
<1>6. t.place[c] # "Room" /\ u.place[c] # "Room"
  BY <1>3 DEF RemoveSession, Runtimes
<1> HIDE DEF t, u
<1>7. /\ Justified(CleanupRoom(RefreshMixedCohort(t)), {c}, {})
      /\ LET v == CleanupRoom(RefreshMixedCohort(u))
         IN Justified(v, {c}, {}) /\ v.place[c] # "Room"
  BY <1>2, <1>3, <1>4, <1>5, <1>6, GoneJustified
<1> QED
  BY <1>7 DEF ReplaceSession, DepartSession, t, u, replaced, gone

\* A session enters the room, as a member when it speaks V2: it is set aside, or the start
\* has not been committed.
LEMMA EntryJustified ==
  ASSUME NEW s, Sound(s), Readying(s), NEW c \in Clients, ~IsMember(s, c), Transit(s, c),
         s.place[c] = "Room", NEW token \in Clients \cup {NoClient},
         NEW seedReady \in BOOLEAN, NEW X,
         s.barrier.phase = "Committed" => c \in X /\ Unpromoted(s, X), Justified(s, X, {})
  PROVE  /\ c \in V2(s) => Justified(RefreshMixedCohort(Attach(s, c, token, seedReady)), X, {})
         /\ c \notin V2(s) => Justified(RefreshMixedCohort(s), X, {})
<1>1. s \in Runtimes /\ Present(s)
  BY DEF Sound
<1>2. CASE c \in V2(s)
  <2> DEFINE u == Attach(s, c, token, seedReady)
  <2>1. InCohortRoom(s, c) /\ MembersBut(s, c) /\ MembersLive(s) /\ Steady(s)
    BY <1>2 DEF InCohortRoom, Transit
  <2>2. u \in Runtimes /\ Cohort(u)
    BY <1>1, <2>1, AttachCoheres, AttachType
  <2>3. Readying(u)
    BY <1>1, AttachMinds DEF Minds, Orders
  <2>4. Justified(u, X, {})
    BY <1>1, <2>1, AttachJustified
  <2> HIDE DEF u
  <2>5. Unpromoted(u, X)
    BY <2>2, FollowedIsUnpromoted DEF Cohort
  <2>6. Justified(RefreshMixedCohort(u), X, {})
    BY <2>2, <2>3, <2>4, <2>5, RefreshJustified
  <2> QED
    BY <1>2, <2>6 DEF u
<1>3. CASE c \notin V2(s)
  BY <1>1, <1>3, RefreshJustified
<1> QED
  BY <1>2, <1>3

\* `handle_hello_for_peer`: the session that the Hello replaces is set aside.
LEMMA HelloEarns ==
  ASSUME Sound(rt), Whole(rt), Orderly(rt), NEW c \in Clients,
         NEW token \in Clients \cup {NoClient}, Hello(c, token)
  PROVE  \E X \in SUBSET Clients : Earns(X)
<1> DEFINE left == IF rt.place[c] = "Room" THEN ReplaceSession(rt, c) ELSE rt
           attaches == "readiness" \in HelloCaps[c]
           restores == attaches /\ token # NoClient /\ left.detached[token].kept
           forgot == [left EXCEPT !.detached[c] = NoDetached]
           known == IF restores THEN left ELSE forgot
           joined == JoinRoom(known, c, HelloCaps[c])
           presented == IF restores THEN token ELSE NoClient
           attached == Attach(joined, c, presented, FALSE)
           X == IF rt.place[c] = "Room" THEN {c} ELSE {}
<1> SUFFICES ASSUME rt.barrier.phase # "Committed"
             PROVE  Justified(rt', X, {}) /\ \A d \in X : rt'.place[d] = "Room" => Replaced(d)
  <2>1. X \in SUBSET Clients
    OBVIOUS
  <2> HIDE DEF X
  <2> QED
    BY <2>1 DEF Earns
<1>1. Sound(left) /\ Whole(left) /\ left.place[c] # "Room"
  BY ReplaceSessionSafe, DepartWhole
<1>2. rt \in Runtimes /\ left \in Runtimes
  BY <1>1 DEF Sound
<1>3. /\ Readying(left) /\ Justified(left, X, {})
      /\ left.barrier.phase = "Committed" => c \in X
      /\ left.nextSeq = rt.nextSeq
  <2>1. Justified(rt, {c}, {c}) /\ Justified(rt, {}, {})
    BY DEF Justified
  <2>2. CASE rt.place[c] = "Room"
    <3>1. Justified(left, {c}, {})
      BY <2>1, <2>2, DepartJustified
    <3>2. Seats(rt, left, c) /\ left.nextSeq = rt.nextSeq
      BY <1>2, <2>2, DepartMinds
    <3> QED
      BY <2>2, <3>1, <3>2 DEF Seats, Orderly
  <2>3. CASE rt.place[c] # "Room"
    BY <2>1, <2>3 DEF Orderly
  <2> QED
    BY <2>2, <2>3
<1> HIDE DEF left
<1>4. Transit(left, c) /\ ~IsMember(left, c) /\ Unpromoted(left, X)
  BY <1>1, TransitEnds, FollowedIsUnpromoted DEF Whole, Enrolled, InCohortRoom, Cohort
<1>5. /\ forgot \in Runtimes /\ Quiet(left, forgot) /\ Relocates(left, forgot, c)
      /\ Moves(left, forgot, c) /\ forgot.nextSeq = left.nextSeq
  BY <1>2, DetachedUpdate, SimpleTypes, SessionWrites, SessionMoves
     DEF Runtimes, Quiet, Held, Frame, IsMember
<1> HIDE DEF forgot
<1>6. Sound(forgot) /\ Transit(forgot, c) /\ ~IsMember(forgot, c)
  BY <1>1, <1>2, <1>4, <1>5, QuietSound, RelocateTransit
<1>7. /\ Sound(known) /\ Transit(known, c) /\ ~IsMember(known, c) /\ Moves(left, known, c)
      /\ known.nextSeq = left.nextSeq
  <2>1. Moves(left, left, c)
    BY DEF Moves
  <2> QED
    BY <1>1, <1>4, <1>5, <1>6, <2>1
<1>8. presented \in Clients \cup {NoClient}
  OBVIOUS
<1> HIDE DEF known, presented
<1>9. known \in Runtimes
  BY <1>7 DEF Sound
<1>10. /\ Sound(joined) /\ joined.place[c] = "Room" /\ Moves(known, joined, c)
       /\ Transit(joined, c) /\ ~IsMember(joined, c)
  BY <1>7, <1>9, JoinRoomSafe, HelloCapsType, SessionWrites, SessionMoves, RelocateTransit
<1>11. /\ joined.caps[c] = HelloCaps[c] /\ joined.nextSeq = rt.nextSeq + 1
       /\ joined.seq[c] = rt.nextSeq + 1
  BY <1>3, <1>7, <1>9 DEF JoinRoom, Runtimes
<1> HIDE DEF joined
<1>12. Moves(left, joined, c) /\ joined \in Runtimes
  BY <1>7, <1>10 DEF Moves, Sound
<1>13. /\ Readying(joined) /\ Justified(joined, X, {})
       /\ joined.barrier.phase = "Committed" => c \in X /\ Unpromoted(joined, X)
  <2>1. joined.barrier = left.barrier
    BY <1>12 DEF Moves
  <2>2. Justified(joined, X, {})
    BY <1>2, <1>3, <1>12, MoveJustified
  <2>3. c \in X => Unpromoted(joined, X)
    BY <1>4, <1>12, MoveUnpromoted
  <2> HIDE DEF X
  <2> QED
    BY <1>3, <2>1, <2>2, <2>3 DEF Readying
<1>14. attaches <=> c \in V2(joined)
  BY <1>11 DEF V2
<1>15. rt' = IF attaches THEN RefreshMixedCohort(attached) ELSE RefreshMixedCohort(joined)
  BY DEF Hello, attached, presented, joined, known, forgot, left
<1> HIDE DEF attaches
<1>16. Justified(rt', X, {})
  <2> HIDE DEF X
  <2> QED
    BY <1>8, <1>10, <1>13, <1>14, <1>15, EntryJustified
<1>17. rt'.seq = joined.seq
  <2>1. attached \in Runtimes /\ attached.seq = joined.seq
    BY <1>8, <1>12, AttachType, AttachMinds DEF Minds, Orders
  <2> HIDE DEF attached
  <2> QED
    BY <1>12, <1>15, <2>1, CohortMinds DEF Minds, Orders
<1>18. \A d \in X : rt'.place[d] = "Room" => Replaced(d)
  <2>1. rt.nextSeq \in Nat /\ rt.seq[c] \in Nat /\ rt.seq[c] <= rt.nextSeq
    BY <1>2, Components DEF Orderly, Sequenced
  <2>2. rt'.seq[c] # rt.seq[c]
    BY <1>11, <1>17, <2>1
  <2> QED
    BY <2>2 DEF Replaced
<1> QED
  BY <1>16, <1>18

\* Disconnect, and the close of a connection that is in another room.
LEMMA DisconnectEarns ==
  ASSUME Sound(rt), Whole(rt), Orderly(rt), NEW c \in Clients, Disconnect(c)
  PROVE  Earns({c})
<1> SUFFICES ASSUME rt.barrier.phase # "Committed"
             PROVE  Justified(rt', {c}, {}) /\ rt'.place[c] # "Room"
  BY DEF Earns
<1>1. Justified(rt, {c}, {c}) /\ rt \in Runtimes
  BY DEF Justified, Sound
<1>2. CASE rt' = DepartSession(rt, c)
  BY <1>1, <1>2, DepartJustified
<1>3. CASE rt' = RemoveSession(rt, c, "Gone")
  <2>1. rt'.barrier = rt.barrier /\ rt'.place[c] # "Room"
    BY <1>1, <1>3 DEF RemoveSession, Runtimes
  <2> QED
    BY <2>1 DEF Justified
<1> QED
  BY <1>2, <1>3 DEF Disconnect

\* Set.room out of this room.
LEMMA SwitchAwayEarns ==
  ASSUME Sound(rt), Whole(rt), Orderly(rt), NEW c \in Clients, SwitchAway(c)
  PROVE  Earns({c})
<1> SUFFICES ASSUME rt.barrier.phase # "Committed"
             PROVE  Justified(rt', {c}, {}) /\ rt'.place[c] # "Room"
  BY DEF Earns
<1> DEFINE left == MarkParticipantDisconnected(Detach(rt, c, FALSE), c)
           n == left.nextSeq + 1
           moved == [left EXCEPT !.place[c] = "Elsewhere", !.nextSeq = n, !.seq[c] = n]
<1>1. /\ Justified(rt, {c}, {c}) /\ rt \in Runtimes /\ Readying(rt) /\ RolesFollow(rt)
  BY DEF Justified, Sound, Orderly, Whole, Cohort
<1>2. Justified(left, {c}, {c}) /\ Unpromoted(left, {c})
  BY <1>1, LeaveJustified
<1>3. left \in Runtimes /\ Readying(left)
  BY <1>1, LeaveMinds DEF Orders
<1>4. rt' = CleanupRoom(RefreshMixedCohort(moved))
  BY DEF SwitchAway
<1> HIDE DEF left
<1>5. n \in Nat
  BY <1>3, Components
<1>6. Moves(left, moved, c)
  BY <1>3, SessionMoves
<1>7. moved \in Runtimes /\ moved.place[c] # "Room"
  BY <1>3, <1>5 DEF Runtimes, Places
<1> HIDE DEF moved
<1> QED
  BY <1>2, <1>3, <1>4, <1>6, <1>7, GoneJustified

\* Set.room into this room.
LEMMA SwitchInEarns ==
  ASSUME Sound(rt), Whole(rt), Orderly(rt), NEW c \in Clients, SwitchIn(c)
  PROVE  Earns({})
<1> SUFFICES ASSUME rt.barrier.phase # "Committed"
             PROVE  Justified(rt', {}, {})
  BY DEF Earns
<1> DEFINE joined == JoinRoom(rt, c, rt.caps[c])
           attached == Attach(joined, c, NoClient, FALSE)
<1>1. rt \in Runtimes /\ rt.caps[c] \in SUBSET Capabilities /\ rt.place[c] # "Room"
  BY DEF Sound, Runtimes, SwitchIn
<1>2. Transit(rt, c) /\ ~IsMember(rt, c)
  BY <1>1, TransitEnds DEF Whole, Enrolled, InCohortRoom
<1>3. /\ Sound(joined) /\ joined.place[c] = "Room"
      /\ Transit(joined, c) /\ ~IsMember(joined, c) /\ Moves(rt, joined, c)
  BY <1>1, <1>2, JoinRoomSafe, SessionWrites, SessionMoves, RelocateTransit
<1>4. c \in V2(joined) <=> c \in V2(rt)
  BY <1>1 DEF JoinRoom, Runtimes, V2
<1>5. rt' = RefreshMixedCohort(IF c \in V2(rt) THEN attached ELSE joined)
  BY DEF SwitchIn
<1> HIDE DEF joined
<1>6. joined.barrier.phase # "Committed" /\ Readying(joined) /\ Justified(joined, {}, {})
  BY <1>3 DEF Moves, Orderly, Readying, Justified
<1> QED
  BY <1>3, <1>4, <1>5, <1>6, EntryJustified

\* Set.features.
LEMMA RenegotiateEarns ==
  ASSUME Sound(rt), Whole(rt), Orderly(rt), NEW c \in Clients, NEW caps \in Renegotiations,
         NEW seedReady \in BOOLEAN, Renegotiate(c, caps, seedReady)
  PROVE  Earns({})
<1> SUFFICES ASSUME rt.barrier.phase # "Committed"
             PROVE  Justified(rt', {}, {})
  BY DEF Earns
<1> DEFINE changed == [rt EXCEPT !.caps[c] = caps]
           attached == Attach(changed, c, c, seedReady)
           left == Detach(changed, c, TRUE)
           had == "readiness" \in rt.caps[c]
           has == "readiness" \in caps
<1>1. rt \in Runtimes /\ caps \in SUBSET Capabilities /\ rt.place[c] = "Room"
  BY ClientsAssumption DEF Sound, Renegotiate, Speaks
<1>2. /\ changed \in Runtimes /\ changed.barrier = rt.barrier
      /\ changed.readiness = rt.readiness /\ changed.place = rt.place
      /\ changed.fenced = rt.fenced /\ changed.paused = rt.paused
      /\ changed.caps[c] = caps /\ \A d \in Clients \ {c} : changed.caps[d] = rt.caps[d]
  BY <1>1 DEF Runtimes
<1>3. Relocates(rt, changed, c)
  BY <1>1, SessionWrites
<1>4. rt' = RefreshMixedCohort(IF ~had /\ has THEN attached
                               ELSE IF had /\ ~has THEN left ELSE changed)
  BY DEF Renegotiate
<1> HIDE DEF changed
<1>5. /\ Readying(changed) /\ Justified(changed, {}, {})
      /\ changed.barrier.phase # "Committed"
  BY <1>2 DEF Orderly, Readying, Justified
<1>6. Transit(rt, c)
  BY TransitEnds DEF Whole
<1>7. CASE ~had /\ has
  <2>1. ~IsMember(rt, c)
    BY <1>7 DEF Whole, Enrolled, InCohortRoom, V2
  <2>2. Transit(changed, c) /\ ~IsMember(changed, c)
    BY <1>1, <1>3, <1>6, <2>1, RelocateTransit
  <2>3. Sound(changed) /\ changed.place[c] = "Room" /\ c \in V2(changed)
    <3>1. Present(changed) /\ Populated(changed) /\ Authority(changed)
      BY <1>2 DEF Sound, Present, Populated, Authority, IsMember
    <3> QED
      BY <1>1, <1>2, <1>7, <3>1 DEF Sound, V2
  <2>4. Justified(RefreshMixedCohort(attached), {}, {})
    BY <1>5, <2>2, <2>3, EntryJustified
  <2> QED
    BY <1>4, <1>7, <2>4
<1>8. CASE had /\ ~has
  <2>1. Unpromoted(changed, {})
    <3> SUFFICES ASSUME NEW d \in Clients, IsMember(changed, d),
                        RoleOf(changed, d) = "Required"
                 PROVE  changed.readiness.part[d].role = "Required"
      BY DEF Unpromoted
    <3>1. d # c
      BY <1>2, <1>8 DEF RoleOf, StartCapable, V2
    <3>2. RoleOf(rt, d) = "Required" /\ IsMember(rt, d)
      BY <1>2, <3>1 DEF RoleOf, StartCapable, V2, BarrierV1, ClientsInRoom, IsMember
    <3>3. Unpromoted(rt, {})
      BY FollowedIsUnpromoted DEF Whole, Cohort
    <3> QED
      BY <1>2, <3>2, <3>3 DEF Unpromoted
  <2>2. left \in Runtimes /\ Readying(left)
    BY <1>2, <1>5, DetachType, DetachMinds DEF Orders
  <2>3. Justified(left, {}, {}) /\ Unpromoted(left, {})
    BY <1>2, <1>5, <2>1, DetachJustified, DetachUnpromoted
  <2> HIDE DEF left
  <2>4. Justified(RefreshMixedCohort(left), {}, {})
    BY <2>2, <2>3, RefreshJustified
  <2> QED
    BY <1>4, <1>8, <2>4
<1>9. CASE had <=> has
  BY <1>2, <1>4, <1>5, <1>9, RefreshJustified
<1> QED
  BY <1>7, <1>8, <1>9

\* Every step of a session.
LEMMA MemberStepEarns ==
  ASSUME Sound(rt), Whole(rt), Orderly(rt), NEW c \in Clients, MemberStep(c)
  PROVE  \E X \in SUBSET Clients : Earns(X)
<1>1. CASE \E token \in Clients \cup {NoClient} : Hello(c, token)
  BY <1>1, HelloEarns
<1>2. CASE Disconnect(c) \/ SwitchAway(c)
  BY <1>2, DisconnectEarns, SwitchAwayEarns
<1>3. CASE \/ SwitchIn(c)
           \/ \E caps \in Renegotiations, seedReady \in BOOLEAN : Renegotiate(c, caps, seedReady)
  BY <1>3, SwitchInEarns, RenegotiateEarns
<1> QED
  BY <1>1, <1>2, <1>3 DEF MemberStep

-----------------------------------------------------------------------------
(* The other steps commit from a start in preparation only.                *)

\* The user's pause and the transport leave the lifecycle of a start in preparation alone.
LEMMA PreparingClaimKeeps ==
  ASSUME NEW s \in Runtimes, s.barrier.phase = "Preparing", NEW c \in Clients
  PROVE  ClaimUserPause(s, c) \in Runtimes /\ ClaimUserPause(s, c).barrier = s.barrier
<1> DEFINE u == SetPauseOwner(s, UserOwner(c))
<1>1. RetireCommittedForUserPause(s) = s
  BY DEF RetireCommittedForUserPause
<1>2. UserOwner(c) \in Owners
  BY OwnerTypes
<1>3. u \in Runtimes /\ u.barrier = s.barrier
  BY <1>2, SetPauseOwnerType, OwnerMinds
<1>4. ClaimUserPause(s, c) = RefreshGate(u)
  BY <1>1 DEF ClaimUserPause
<1> HIDE DEF u
<1> QED
  BY <1>3, <1>4, RefreshGateType, GateMinds

\* `apply_staged_user_transport_transition`.
LEMMA PreparingStagedKeeps ==
  ASSUME NEW s \in Runtimes, s.barrier.phase = "Preparing", NEW c \in Clients,
         NEW p \in BOOLEAN
  PROVE  ApplyStaged(s, c, p).barrier = s.barrier
<1> DEFINE owned == IF p THEN ClaimUserPause(s, c) ELSE SetPauseOwner(s, NoOwner)
           moved == [owned EXCEPT !.paused = p]
<1>1. RetireAwaitingDecision(s, c) = s
  BY DEF RetireAwaitingDecision
<1>2. NoOwner \in Owners
  BY OwnerTypes
<1>3. owned \in Runtimes /\ owned.barrier = s.barrier
  BY <1>2, SetPauseOwnerType, OwnerMinds, PreparingClaimKeeps
<1>4. ApplyStaged(s, c, p) \in {owned, RetirePendingTransport(moved)}
  BY <1>1 DEF ApplyStaged
<1> HIDE DEF owned
<1>5. moved \in Runtimes /\ moved.barrier = owned.barrier
  BY <1>3 DEF Runtimes
<1> HIDE DEF moved
<1> QED
  BY <1>3, <1>4, <1>5, RetirePendingMinds

\* What an accepted player action does to the transport.
LEMMA PreparingIndirectKeeps ==
  ASSUME NEW s \in Runtimes, s.barrier.phase = "Preparing", NEW c \in Clients,
         NEW p \in BOOLEAN, NEW staged \in BOOLEAN
  PROVE  IndirectTransport(s, c, p, staged).barrier = s.barrier
<1> DEFINE e == [paused |-> p, evidence |-> "Accepted"]
           accepted == [s EXCEPT !.pending[c] = e]
<1>1. RetireAwaitingDecision(s, c) = s
  BY DEF RetireAwaitingDecision
<1>2. accepted.barrier = s.barrier
  BY DEF Runtimes
<1>3. IndirectTransport(s, c, p, staged) \in {ApplyStaged(s, c, p), ClaimUserPause(s, c), s, accepted}
  BY <1>1 DEF IndirectTransport
<1> HIDE DEF accepted
<1> QED
  BY <1>2, <1>3, PreparingStagedKeeps, PreparingClaimKeeps

\* An evaluation that the start in preparation reaches unchanged.
LEMMA PreparingEvaluates ==
  ASSUME NEW s, Readying(s), s.barrier.phase = "Preparing", NEW x \in Runtimes,
         x.barrier = s.barrier
  PROVE  Justified(MaybeCommit(RefreshGate(x)), {}, {})
<1>1. Readying(x) /\ Justified(x, {}, {})
  BY DEF Readying, Justified
<1> QED
  BY <1>1, EvaluateJustified

\* The intents, the legacy override and the technical reports.
LEMMA IntentJustified ==
  ASSUME NEW s \in Runtimes, Readying(s), s.barrier.phase = "Preparing", NEW c \in Clients,
         NEW target \in Clients, NEW ready \in BOOLEAN, NEW source \in IntentSources
  PROVE  Justified(ApplyIntent(s, c, target, ready, source), {}, {})
<1> DEFINE p == source = "PlayerPause"
           controls == source \in {"PlayerPlay", "PlayerPause"} /\ target = c /\ c \in Controllers
           staged == controls /\ s.pending[c] = [paused |-> p, evidence |-> "Observed"]
           consumed == [s EXCEPT !.pending[c] = NoPending]
           changed == MutateIntent(consumed, target, ready)
           mutated == [changed EXCEPT !.readiness.part[c].initializationOpen = FALSE]
           moved == IF controls THEN IndirectTransport(mutated, c, p, staged) ELSE mutated
           armed == IF ready /\ s.barrier.phase = "Preparing"
                    THEN SetPauseOwner(moved, GateOwner(s.barrier.gen)) ELSE moved
           t == ApplyIntent(s, c, target, ready, source)
<1>1. consumed \in Runtimes /\ consumed.barrier = s.barrier
  BY PendingUpdate, SimpleTypes, PendingAttends
<1> HIDE DEF consumed
<1>2. changed \in Runtimes /\ changed.barrier = s.barrier
  <2>1. changed \in Runtimes
    BY <1>1, MutateIntentType
  <2>2. ASSUME NEW r
        PROVE  [consumed EXCEPT !.readiness.part[target] = r].barrier = consumed.barrier
    BY <1>1 DEF Runtimes
  <2>3. changed.barrier = consumed.barrier
    BY <2>2 DEF MutateIntent
  <2> QED
    BY <1>1, <2>1, <2>3
<1> HIDE DEF changed
<1>3. mutated \in Runtimes /\ mutated.barrier = s.barrier
  <2>1. mutated \in Runtimes
    BY <1>2, InitializationFollows
  <2>2. mutated.barrier = changed.barrier
    BY <1>2 DEF Runtimes
  <2> QED
    BY <1>2, <2>1, <2>2
<1> HIDE DEF mutated
<1>4. moved \in Runtimes /\ moved.barrier = s.barrier
  <2>1. p \in BOOLEAN /\ staged \in BOOLEAN
    OBVIOUS
  <2> HIDE DEF p, staged, controls
  <2> QED
    BY <1>3, <2>1, IndirectTransportType, PreparingIndirectKeeps
<1> HIDE DEF moved
<1>5. GateOwner(s.barrier.gen) \in Owners
  BY Components, BarrierComponents, OwnerTypes
<1>6. armed \in Runtimes /\ armed.barrier = s.barrier
  BY <1>4, <1>5, SetPauseOwnerType, OwnerMinds
<1> HIDE DEF armed
<1>7. Justified(MaybeCommit(RefreshGate(armed)), {}, {}) /\ Justified(consumed, {}, {})
  BY <1>1, <1>6, PreparingEvaluates DEF Justified
<1>8. t \in {consumed, MaybeCommit(RefreshGate(armed))}
  BY DEF ApplyIntent, armed, moved, mutated, changed, consumed
<1> QED
  BY <1>7, <1>8

\* `apply_syncplay_ready_to_readiness_v2`.
LEMMA SyncplayReadyJustified ==
  ASSUME NEW s \in Runtimes, Readying(s), s.barrier.phase = "Preparing", NEW c \in Clients,
         NEW target \in Clients, NEW ready \in BOOLEAN
  PROVE  Justified(ApplySyncplayReady(s, c, target, ready), {}, {})
<1> DEFINE x == MutateIntent(s, target, ready)
<1>1. x \in Runtimes
  BY MutateIntentType
<1>2. x.barrier = s.barrier
  <2>1. ASSUME NEW r
        PROVE  [s EXCEPT !.readiness.part[target] = r].barrier = s.barrier
    BY DEF Runtimes
  <2> QED
    BY <2>1 DEF MutateIntent
<1>3. Justified(s, {}, {})
  BY DEF Justified
<1>4. ApplySyncplayReady(s, c, target, ready) \in {s, MaybeCommit(RefreshGate(x))}
  BY DEF ApplySyncplayReady
<1> HIDE DEF x
<1> QED
  BY <1>1, <1>2, <1>3, <1>4, PreparingEvaluates

\* `apply_technical_readiness_report`.
LEMMA ReportJustified ==
  ASSUME NEW s \in Runtimes, Readying(s), s.barrier.phase = "Preparing", NEW c \in Clients,
         NEW g \in Nat, NEW rev \in Nat, NEW report \in Reports
  PROVE  Justified(ApplyTechnicalReport(s, c, g, rev, report), {}, {})
<1> DEFINE r == ReportedRecord(s.readiness.part[c], g, report)
           recorded == [s EXCEPT !.readiness.part[c] = r]
           o == AutomaticOwner(OwnerOfReason(report.reason))
           owned == IF ~s.paused /\ s.readiness.owner.kind = "Recovery"
                    THEN SetPauseOwner(recorded, NoOwner)
                    ELSE IF s.paused /\ o # NoOwner /\ s.readiness.owner \in {NoOwner, o}
                    THEN SetPauseOwner(recorded, o)
                    ELSE recorded
<1>1. r \in Records
  BY RecordOf, ReportedRecordType
<1>2. o \in Owners /\ NoOwner \in Owners
  BY ReportOwnerKind, OwnerTypes
<1> HIDE DEF r, o
<1>3. recorded \in Runtimes /\ recorded.barrier = s.barrier
  BY <1>1 DEF Runtimes, Readinesses
<1> HIDE DEF recorded
<1>4. owned \in Runtimes /\ owned.barrier = s.barrier
  BY <1>2, <1>3, SetPauseOwnerType, OwnerMinds
<1>5. ApplyTechnicalReport(s, c, g, rev, report) \in {s, MaybeCommit(RefreshGate(owned))}
  BY DEF ApplyTechnicalReport, owned, recorded, o, r
<1> HIDE DEF owned
<1>6. Justified(s, {}, {})
  BY DEF Justified
<1> QED
  BY <1>4, <1>5, <1>6, PreparingEvaluates

\* A participant's confirmation.
LEMMA ReadyJustified ==
  ASSUME NEW s \in Runtimes, Readying(s), s.barrier.phase = "Preparing", NEW c \in Clients,
         NEW g \in Nat, NEW isReady \in BOOLEAN
  PROVE  Justified(RecordReady(s, c, g, isReady), {}, {})
<1> DEFINE p == IF isReady THEN "Ready" ELSE "Pending"
           recorded == [s EXCEPT !.barrier.part[c] = p]
<1>1. recorded \in Runtimes /\ Readying(recorded)
  BY ParticipantRuntime, ParticipantMinds DEF ParticipantPhases, Minds, Orders
<1>2. recorded.barrier.phase = "Preparing"
  BY ParticipantHolds
<1>3. RecordReady(s, c, g, isReady) \in {s, recorded, Commit(recorded, FALSE)}
  BY DEF RecordReady
<1> HIDE DEF recorded
<1>4. Justified(s, {}, {}) /\ Justified(recorded, {}, {})
  BY <1>2 DEF Justified
<1>5. Justified(Commit(recorded, FALSE), {}, {})
  BY <1>1, <1>4, CommitJustified
<1> QED
  BY <1>3, <1>4, <1>5

\* The prepare deadline.
LEMMA DeadlineJustified ==
  ASSUME NEW s \in Runtimes, Readying(s), s.barrier.phase = "Preparing"
  PROVE  Justified(PrepareTimeout(s), {}, {})
<1>1. ASSUME NEW h \in {"Degraded", "AwaitingDecision"}
      PROVE  Justified(MarkGateDegraded(FinishPrepareTimeout(s, h), "TimedOut"), {}, {})
  <2> DEFINE x == FinishPrepareTimeout(s, h)
  <2>1. x \in Runtimes
    BY FinishPrepareTimeoutType DEF LifecyclePhases
  <2>2. x.barrier.phase = h
    BY EnterPhaseMinds DEF FinishPrepareTimeout
  <2> HIDE DEF x
  <2>3. MarkGateDegraded(x, "TimedOut").barrier = x.barrier
    BY <2>1, GateMinds
  <2>4. Justified(MarkGateDegraded(x, "TimedOut"), {}, {})
    BY <2>2, <2>3 DEF Justified
  <2> QED
    BY <2>4 DEF x
<1>2. s.barrier.req.timeoutAction \in TimeoutActions
  BY LifecycleOf, RequestsAssumption
<1>3. Justified(Commit(s, TRUE), {}, {})
  BY CommitJustified DEF Justified
<1> QED
  BY <1>1, <1>2, <1>3 DEF PrepareTimeout, TimeoutActions

\* `start_playback_barrier` and `handle_playback_barrier_recovery` commit nothing.
LEMMA PrepareCommitsNothing ==
  ASSUME NEW s \in Runtimes, s.barrier.phase = "Preparing", NEW c \in Clients,
         NEW q \in Requests
  PROVE  /\ StartPlaybackBarrier(s, c, q).barrier.phase = "Preparing"
         /\ RecoverPlaybackBarrier(s, c, q).barrier.phase = "Preparing"
<1> DEFINE again == [s EXCEPT !.nonce[c] = Larger(s.nonce[c], q.nonce)]
           consumed == [s EXCEPT !.nonce[c] = q.nonce]
<1>1. Larger(s.nonce[c], q.nonce) \in Nat /\ q.nonce \in Nat
  BY Components, RequestsAssumption DEF Larger
<1>2. again \in Runtimes /\ again.barrier = s.barrier
  BY <1>1, NonceAttends
<1>3. consumed \in Runtimes /\ consumed.barrier = s.barrier
  BY <1>1, NonceAttends
<1>4. StartPlaybackBarrier(s, c, q) \in {s, consumed, OpenGeneration(consumed, c, q),
                                         Rebind(again, c)}
  BY DEF StartPlaybackBarrier
<1>5. RecoverPlaybackBarrier(s, c, q) \in {s, Rebind(s, c)}
  BY DEF RecoverPlaybackBarrier
<1> HIDE DEF again, consumed
<1>6. OpenGeneration(consumed, c, q).barrier.phase = "Preparing"
  <2>1. Opens(consumed, OpenGeneration(consumed, c, q), c, q)
    BY <1>3, OpenGenerationEffect
  <2> QED
    BY <2>1 DEF Opens
<1>7. Rebind(again, c).barrier.phase = "Preparing" /\ Rebind(s, c).barrier.phase = "Preparing"
  BY <1>2, RebindWrites DEF Rebinds
<1> QED
  BY <1>3, <1>4, <1>5, <1>6, <1>7

\* Only a start in preparation commits.
LEMMA OnlyPreparingCommits ==
  ASSUME rt.barrier.phase \notin {"Preparing", "Committed"},
         Advance(rt, rt') \/ Displaces(rt, rt')
  PROVE  rt'.barrier.phase # "Committed"
  BY DEF Advance, Displaces, Onward, Forgotten

\* `reset_room_transport_for_canonical_selection_change` retires the start, the note of a
\* selection keeps it.
LEMMA SelectionCommitsNothing ==
  ASSUME Sound(rt), rt.barrier.phase = "Preparing", NEW c \in Clients,
         SelectionReset(c) \/ SelectionNoted(c)
  PROVE  rt'.barrier.phase # "Committed"
<1> DEFINE retired == RetireForSelection(rt)
           owner == AutomaticOwner("EndOfPlaylist")
           owned == IF rt.readiness.owner.kind # "User"
                    THEN SetPauseOwner(retired, owner) ELSE retired
           reset == ReplaceReadinessGeneration(owned, 0, FALSE)
<1>1. owner \in Owners /\ rt \in Runtimes
  BY EndOfPlaylistOwner DEF Sound
<1> HIDE DEF owner
<1>2. retired \in Runtimes /\ retired.barrier.phase \in {"None", "Degraded"}
  BY <1>1, RetireForSelectionType, RetireForSelectionSafe DEF Sound
<1> HIDE DEF retired
<1>3. owned \in Runtimes /\ owned.barrier = retired.barrier
  BY <1>1, <1>2, SetPauseOwnerType, OwnerMinds
<1> HIDE DEF owned
<1>4. reset \in Runtimes /\ reset.barrier = owned.barrier
  BY <1>3, ReplaceReadinessGenerationType, RenewEffect DEF Renews
<1> HIDE DEF reset
<1>5. CASE SelectionReset(c)
  <2>1. rt' = [reset EXCEPT !.paused = TRUE]
    BY <1>5 DEF SelectionReset, reset, owned, retired, owner
  <2>2. rt'.barrier = reset.barrier
    BY <1>4, <2>1 DEF Runtimes
  <2> QED
    BY <1>2, <1>3, <1>4, <2>2
<1>6. CASE SelectionNoted(c)
  BY <1>1, <1>6, OwnerMinds DEF SelectionNoted, owner
<1> QED
  BY <1>5, <1>6

\* Every other step of a client, and every expiry of the tick, from a start in preparation.
LEMMA OtherStepEarns ==
  ASSUME Sound(rt), Orderly(rt), rt.barrier.phase = "Preparing",
         \/ \E c \in Clients : BarrierStep(c) \/ ReadinessStep(c) \/ TransportStep(c)
         \/ TickStep
  PROVE  Justified(rt', {}, {})
<1>1. rt \in Runtimes /\ Readying(rt) /\ Justified(rt, {}, {})
  BY DEF Sound, Orderly, Justified
<1>2. \A g \in Generations : g \in Nat
  BY DEF Generations
<1>3. \A r \in Revisions : r \in Nat
  BY DEF Revisions
<1>4. ASSUME NEW c \in Clients, BarrierStep(c)
      PROVE  Justified(rt', {}, {})
  <2>1. ASSUME NEW q \in Requests, Prepare(c, q) \/ Recover(c, q)
        PROVE  Justified(rt', {}, {})
    BY <1>1, <2>1, PrepareCommitsNothing DEF Prepare, Recover, Justified
  <2>2. ASSUME NEW g \in Generations, NEW isReady \in BOOLEAN, MediaReady(c, g, isReady)
        PROVE  Justified(rt', {}, {})
    BY <1>1, <1>2, <2>2, ReadyJustified DEF MediaReady
  <2>3. ASSUME NEW g \in Generations, NEW r \in Revisions, StartedAck(c, g, r)
        PROVE  Justified(rt', {}, {})
    <3>1. rt' = rt
      BY <2>3 DEF StartedAck, RecordStarted
    <3> QED
      BY <1>1, <3>1
  <2> QED
    BY <1>4, <2>1, <2>2, <2>3 DEF BarrierStep
<1>5. ASSUME NEW c \in Clients, ReadinessStep(c)
      PROVE  Justified(rt', {}, {})
  <2>1. ASSUME NEW target \in Clients, NEW ready \in BOOLEAN, NEW source \in Sources,
               Intent(c, target, ready, source)
        PROVE  Justified(rt', {}, {})
    BY <1>1, <2>1, IntentJustified, EvidenceAssumption DEF Intent
  <2>2. CASE IntentFenced(c)
    <3>1. rt'.barrier = rt.barrier
      BY <1>1, <2>2 DEF IntentFenced, Runtimes
    <3> QED
      BY <3>1 DEF Justified
  <2>3. ASSUME NEW target \in Clients, NEW ready \in BOOLEAN, SyncplayReady(c, target, ready)
        PROVE  Justified(rt', {}, {})
    BY <1>1, <2>3, SyncplayReadyJustified DEF SyncplayReady
  <2>4. ASSUME NEW g \in Generations, NEW r \in Revisions, NEW report \in Reports,
               TechnicalReport(c, g, r, report)
        PROVE  Justified(rt', {}, {})
    BY <1>1, <1>2, <1>3, <2>4, ReportJustified DEF TechnicalReport
  <2> QED
    BY <1>5, <2>1, <2>2, <2>3, <2>4 DEF ReadinessStep
<1>6. ASSUME NEW c \in Clients, TransportStep(c)
      PROVE  Justified(rt', {}, {})
  <2>1. SelectionReset(c) \/ SelectionNoted(c)
    BY <1>6 DEF TransportStep, Playstate
  <2> QED
    BY <2>1, SelectionCommitsNothing DEF Justified
<1>7. CASE TickStep
  <2>1. CASE PrepareDeadline
    BY <1>1, <2>1, DeadlineJustified DEF PrepareDeadline
  <2>2. CASE TombstoneExpires
    <3>1. rt'.barrier = rt.barrier
      BY <1>1, <2>2 DEF TombstoneExpires, Runtimes
    <3> QED
      BY <3>1 DEF Justified
  <2>3. ASSUME NEW c \in Clients, PendingExpires(c)
        PROVE  Justified(rt', {}, {})
    <3>1. rt'.barrier = rt.barrier
      BY <1>1, <2>3 DEF PendingExpires, Runtimes
    <3> QED
      BY <3>1 DEF Justified
  <2>4. ~StartedDeadline
    BY DEF StartedDeadline
  <2> QED
    BY <1>7, <2>1, <2>2, <2>3, <2>4 DEF TickStep
<1> QED
  BY <1>4, <1>5, <1>6, <1>7

\* Every step earns the start that it commits.
LEMMA StepEarns ==
  ASSUME Coherent, Orderly(rt), [Next]_vars
  PROVE  \E X \in SUBSET Clients : Earns(X)
<1>1. Sound(rt) /\ Whole(rt)
  BY DEF Coherent
<1>2. CASE UNCHANGED vars
  <2>1. Earns({})
    BY <1>2 DEF vars, Earns, Justified
  <2> QED
    BY <2>1
<1>3. ASSUME NEW c \in Clients, MemberStep(c)
      PROVE  \E X \in SUBSET Clients : Earns(X)
  BY <1>1, <1>3, MemberStepEarns
<1>4. CASE \/ \E c \in Clients : BarrierStep(c) \/ ReadinessStep(c) \/ TransportStep(c)
           \/ TickStep
  <2>1. rt.barrier.phase = "Preparing" => Justified(rt', {}, {})
    BY <1>1, <1>4, OtherStepEarns
  <2>2. rt.barrier.phase \notin {"Preparing", "Committed"} => Justified(rt', {}, {})
    BY StepCoherent, OnlyPreparingCommits DEF Justified
  <2>3. Earns({})
    BY <2>1, <2>2 DEF Earns
  <2> QED
    BY <2>3
<1> QED
  BY <1>2, <1>3, <1>4 DEF Next

\* A start that commits is deserved, as the runs check it.
LEMMA EarnedStart ==
  ASSUME Coherent', NEW X \in SUBSET Clients, Earns(X), Commits, StayingRequired # {}
  PROVE  LET b == rt'.barrier
             confirmed == {c \in Clients : b.part[c] = "Ready"}
         IN /\ \A c \in StayingRequired : rt'.readiness.part[c].startEligible
            /\ b.req.policy = "AllEligible" =>
                 \A c \in StayingRequired : b.part[c] \in {"Ready", "Disconnected"}
            /\ b.req.policy = "Controller" => b.initiator \in confirmed
            /\ b.req.policy = "Quorum" => Cardinality(confirmed) >= b.req.quorum
            /\ MixedPolicy = "RequireAllMembers" =>
                 {c \in ClientsInRoom(rt') : ~Replaced(c)} \ rt'.fenced
                   \subseteq StartCapable(rt')
<1>1. /\ Justified(rt', X, {}) /\ \A c \in X : rt'.place[c] = "Room" => Replaced(c)
      /\ rt'.barrier.phase = "Committed"
  BY DEF Earns, Commits
<1>2. \A c \in RequiredParticipants(rt') : rt'.place[c] = "Room" /\ rt'.readiness.live
  BY DEF Coherent, Whole, Enrolled, InCohortRoom, IsMember, RequiredParticipants
<1>3. \A c \in StayingRequired : c \in RequiredParticipants(rt') \ X
  BY <1>1, <1>2 DEF StayingRequired
<1>4. rt'.readiness.live /\ RequiredParticipants(rt') \ X # {}
  BY <1>2, <1>3
<1>5. Deserved(rt', X, {})
  BY <1>1, <1>4 DEF Justified
<1>6. {c \in Clients : rt'.barrier.part[c] = "Ready"} = Confirmed(rt', {})
  BY DEF Confirmed
<1>7. \A c \in {d \in ClientsInRoom(rt') : ~Replaced(d)} \ rt'.fenced :
        c \in Clients \ X /\ rt'.place[c] = "Room" /\ c \notin rt'.fenced
  BY <1>1 DEF ClientsInRoom
<1>8. \A c \in StayingRequired : rt'.readiness.part[c].startEligible
  BY <1>3, <1>4, <1>5 DEF Deserved
<1>9. rt'.barrier.req.policy = "AllEligible" =>
        \A c \in StayingRequired : rt'.barrier.part[c] \in {"Ready", "Disconnected"}
  BY <1>3, <1>4, <1>5 DEF Deserved
<1>10. /\ rt'.barrier.req.policy = "Controller" => rt'.barrier.initiator \in Confirmed(rt', {})
       /\ rt'.barrier.req.policy = "Quorum" =>
            Cardinality(Confirmed(rt', {})) >= rt'.barrier.req.quorum
  BY <1>4, <1>5 DEF Deserved
<1>11. MixedPolicy = "RequireAllMembers" =>
         {c \in ClientsInRoom(rt') : ~Replaced(c)} \ rt'.fenced \subseteq StartCapable(rt')
  BY <1>4, <1>5, <1>7 DEF Deserved
<1> QED
  BY <1>6, <1>8, <1>9, <1>10, <1>11

\* A start commits only when it is earned: at the moment of the commit every required
\* participant that the step leaves in place is ready and playable for this generation, the
\* policy of the request is met, and no legacy member holds the room back under
\* RequireAllMembers; in every handler and deadline that can commit, including the join,
\* departure or replacement that makes the difference (`commit_playback_barrier`).
THEOREM StartsAreEarned == Spec => StartIsEarned
<1> DEFINE b == rt'.barrier
           confirmed == {c \in Clients : b.part[c] = "Ready"}
           Earned ==
             /\ \A c \in StayingRequired : rt'.readiness.part[c].startEligible
             /\ b.req.policy = "AllEligible" =>
                  \A c \in StayingRequired : b.part[c] \in {"Ready", "Disconnected"}
             /\ b.req.policy = "Controller" => b.initiator \in confirmed
             /\ b.req.policy = "Quorum" => Cardinality(confirmed) >= b.req.quorum
             /\ MixedPolicy = "RequireAllMembers" =>
                  {c \in ClientsInRoom(rt') : ~Replaced(c)} \ rt'.fenced
                    \subseteq StartCapable(rt')
<1>1. ASSUME Coherent, Coherent', Orderly(rt), [Next]_vars, Commits, StayingRequired # {}
      PROVE  Earned
  BY <1>1, StepEarns, EarnedStart
<1>2. Coherent /\ Coherent' /\ Orderly(rt) /\ [Next]_vars =>
        [Commits /\ StayingRequired # {} => Earned]_vars
  BY <1>1
<1> QED
  BY <1>2, CoherentAlways, OrderlyAlways, PTL DEF Spec, StartIsEarned
=============================================================================
