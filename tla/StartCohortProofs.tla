-------------------------- MODULE StartCohortProofs --------------------------
(***************************************************************************)
(* The lifecycle of a start, the cohort that takes part in it and the gate *)
(* it publishes, proved for every instance of StartGate: generations only  *)
(* advance, displaced starts stay displaced, the coordinator's membership  *)
(* follows the sessions, the barrier follows the cohort, staged evidence   *)
(* is current, the caches are fresh and no start is missed.                *)
(*                                                                         *)
(* Most methods of the runtime neither move a session nor change a role:   *)
(* they satisfy the relation Follows below, and whatever satisfies it      *)
(* keeps every part of the invariant.  What is left are the methods that   *)
(* open a generation, rebind an initiator, or change the membership.  The  *)
(* gate is treated the same way, with the relation Attends.                *)
(***************************************************************************)
EXTENDS StartGateProofs, FiniteSetTheorems

-----------------------------------------------------------------------------
(* The invariant, as predicates of a runtime.                              *)

\* A lifecycle has a generation that was handed out, and a revision from its commit on.
Numbered(s) ==
  /\ s.barrier.phase # "None" => s.barrier.gen # 0 /\ s.barrier.gen <= s.nextGen
  /\ s.barrier.phase = "Preparing" => s.barrier.rev = 0
  /\ s.barrier.phase = "Committed" => s.barrier.rev # 0

\* A V2 session of the room.
InCohortRoom(s, c) == s.place[c] = "Room" /\ c \in V2(s)

Enrolled(s) ==
  /\ \A c \in Clients : IsMember(s, c) <=> InCohortRoom(s, c)
  /\ \A c \in Clients : IsMember(s, c) => s.readiness.live

RolesFollow(s) ==
  \A c \in Clients : IsMember(s, c) /\ c \notin s.fenced =>
    (s.readiness.part[c].role = "Required" <=> c \in StartCapable(s))

\* The coordinator's evidence is about the generation of the active lifecycle.
Linked(s) ==
  s.readiness.live /\ Active(s.barrier) => s.readiness.gen = s.barrier.gen

\* The published exclusions of a governed start omit no member that is outside it; they
\* may still list a transport that a recovery has fenced.
ExclusionsHold(s) ==
  s.readiness.live /\ s.barrier.phase = "Preparing" =>
    \A c \in Clients :
      /\ c \in s.barrier.excluded => s.place[c] = "Room"
      /\ /\ s.place[c] = "Room" /\ c \notin s.fenced
         /\ s.readiness.part[c].role # "Required"
         => c \in s.barrier.excluded

\* The participants of a governed start.
PartsHold(s) ==
  s.readiness.live /\ s.barrier.phase = "Preparing" =>
    \A c \in Clients :
      LET required == s.readiness.part[c].role = "Required" /\ c \notin s.fenced
      IN /\ required => s.barrier.part[c] # "Absent"
         /\ s.barrier.part[c] # "Absent" /\ c # s.barrier.initiator => required

OwnerUnfenced(s) == Active(s.barrier) => s.barrier.initiator \notin s.fenced

Staged(s) ==
  \A c \in Clients : s.pending[c].evidence # "None" =>
    /\ s.pending[c].paused # s.paused
    /\ IsMember(s, c)
    /\ s.barrier.phase # "Preparing"

FreshRecord(record, g) == record = Recompute(record, g) /\ record.tech.gen \in {0, g}

Fresh(s) ==
  \A c \in Clients : IsMember(s, c) => FreshRecord(s.readiness.part[c], s.readiness.gen)

Cohort(s) == RolesFollow(s) /\ ExclusionsHold(s) /\ PartsHold(s)

\* What holds between the methods of a handler, too.
Steady(s) == Numbered(s) /\ Linked(s) /\ OwnerUnfenced(s) /\ Staged(s) /\ Fresh(s)

-----------------------------------------------------------------------------
(* The relation of a method that moves no session and changes no role.     *)

\* The lifecycle stays where it is, commits, or settles.
Onward(s, t) ==
  \/ /\ t.barrier.phase = s.barrier.phase
     /\ t.barrier.rev = s.barrier.rev /\ t.nextRev = s.nextRev
  \/ /\ s.barrier.phase = "Preparing" /\ t.barrier.phase \notin {"None", "Preparing"}
     /\ t.barrier.rev = s.nextRev + 1 /\ t.nextRev = s.nextRev + 1
  \/ /\ s.barrier.phase # "None"
     /\ \/ t.barrier.phase \in {"Complete", "Degraded"}
        \/ s.barrier.phase = "Preparing" /\ t.barrier.phase = "AwaitingDecision"
     /\ t.barrier.rev = s.barrier.rev /\ t.nextRev = s.nextRev

\* The lifecycle keeps its generation, owner, exclusions and participants.
SameStart(s, t) ==
  /\ t.barrier.gen = s.barrier.gen /\ t.nextGen = s.nextGen
  /\ t.barrier.initiator = s.barrier.initiator /\ t.barrier.excluded = s.barrier.excluded
  /\ \A c \in Clients : (t.barrier.part[c] = "Absent") <=> (s.barrier.part[c] = "Absent")

\* The sessions, the coordinator and the roles of its members stay as they are.
SameRoom(s, t) ==
  /\ t.place = s.place /\ t.caps = s.caps /\ t.fenced = s.fenced
  /\ t.readiness.live = s.readiness.live /\ t.readiness.gen = s.readiness.gen
  /\ \A c \in Clients : t.readiness.part[c].role = s.readiness.part[c].role

\* Staged evidence survives only with the transport it is about.
Retires(s, t) ==
  \A c \in Clients : t.pending[c].evidence # "None" =>
    t.pending[c] = s.pending[c] /\ t.paused = s.paused

\* Everything but the staged evidence.
Tracks(s, t) ==
  SameRoom(s, t) /\ SameStart(s, t) /\ Onward(s, t) /\ (Fresh(s) => Fresh(t))

Follows(s, t) == Tracks(s, t) /\ Retires(s, t)

\* Nothing happens.
LEMMA FollowsReflexive ==
  ASSUME NEW s
  PROVE  Follows(s, s)
  BY DEF Follows, Tracks, SameRoom, SameStart, Onward, Retires

\* Methods that run one after the other.
LEMMA TracksTransitive ==
  ASSUME NEW s \in Runtimes, NEW t, NEW u, Tracks(s, t), Tracks(t, u)
  PROVE  Tracks(s, u)
<1>1. SameRoom(s, u) /\ SameStart(s, u)
  BY DEF Tracks, SameRoom, SameStart
<1>2. Fresh(s) => Fresh(u)
  BY DEF Tracks
<1>3. Onward(s, u)
  BY DEF Tracks, Onward
<1> QED
  BY <1>1, <1>2, <1>3 DEF Tracks

\* The same, with the staged evidence.
LEMMA FollowsTransitive ==
  ASSUME NEW s \in Runtimes, NEW t, NEW u, Follows(s, t), Follows(t, u)
  PROVE  Follows(s, u)
<1>1. Retires(s, u)
  BY DEF Follows, Retires
<1> QED
  BY <1>1, TracksTransitive DEF Follows

\* Such a method keeps every part of the invariant but the pause authority and, unless it
\* retires what is staged, the staged evidence.
LEMMA TracksKeeps ==
  ASSUME NEW s \in Runtimes, NEW t, Tracks(s, t)
  PROVE  /\ Enrolled(s) => Enrolled(t)
         /\ Cohort(s) => Cohort(t)
         /\ Numbered(s) => Numbered(t)
         /\ Linked(s) => Linked(t)
         /\ OwnerUnfenced(s) => OwnerUnfenced(t)
         /\ Retires(s, t) /\ Staged(s) => Staged(t)
<1>1. /\ t.place = s.place /\ t.caps = s.caps /\ t.fenced = s.fenced
      /\ t.readiness.live = s.readiness.live /\ t.readiness.gen = s.readiness.gen
      /\ \A c \in Clients : t.readiness.part[c].role = s.readiness.part[c].role
  BY DEF Tracks, SameRoom
<1>2. SameStart(s, t) /\ Onward(s, t)
  BY DEF Tracks
<1>3. /\ t.barrier.phase = "Preparing" => s.barrier.phase = "Preparing"
      /\ Active(t.barrier) => Active(s.barrier)
  BY <1>2 DEF Onward, Active
<1>4. V2(t) = V2(s) /\ StartCapable(t) = StartCapable(s)
  BY <1>1 DEF V2, StartCapable, BarrierV1
<1>5. Enrolled(s) => Enrolled(t)
  BY <1>1, <1>4 DEF Enrolled, InCohortRoom, IsMember
<1>6. RolesFollow(s) => RolesFollow(t)
  BY <1>1, <1>4 DEF RolesFollow, IsMember
<1>7. ExclusionsHold(s) => ExclusionsHold(t)
  BY <1>1, <1>2, <1>3 DEF ExclusionsHold, SameStart
<1>8. PartsHold(s) => PartsHold(t)
  BY <1>1, <1>2, <1>3 DEF PartsHold, SameStart
<1>9. Linked(s) => Linked(t)
  BY <1>1, <1>2, <1>3 DEF Linked, SameStart
<1>10. OwnerUnfenced(s) => OwnerUnfenced(t)
  BY <1>1, <1>2, <1>3 DEF OwnerUnfenced, SameStart
<1>11. Retires(s, t) /\ Staged(s) => Staged(t)
  BY <1>1, <1>2, <1>3 DEF Staged, Retires, IsMember
<1>12. Numbered(s) => Numbered(t)
  <2>1. t.barrier.gen = s.barrier.gen /\ t.nextGen = s.nextGen
    BY <1>2 DEF SameStart
  <2>2. s.nextRev \in Nat
    BY Components
  <2> QED
    BY <1>2, <2>1, <2>2 DEF Numbered, Onward
<1> QED
  BY <1>5, <1>6, <1>7, <1>8, <1>9, <1>10, <1>11, <1>12 DEF Cohort

\* The same, with the staged evidence.
LEMMA FollowsKeeps ==
  ASSUME NEW s \in Runtimes, NEW t, Follows(s, t)
  PROVE  /\ Enrolled(s) => Enrolled(t)
         /\ Cohort(s) => Cohort(t)
         /\ Steady(s) => Steady(t)
  BY TracksKeeps DEF Follows, Tracks, Steady

-----------------------------------------------------------------------------
(* The methods that satisfy it: the pause owner and the gate.              *)

\* A method that touches only the owner and the gate.
LEMMA CoordinatorFollows ==
  ASSUME NEW s, NEW t,
         t.place = s.place, t.caps = s.caps, t.fenced = s.fenced, t.barrier = s.barrier,
         t.nextGen = s.nextGen, t.nextRev = s.nextRev,
         t.readiness.live = s.readiness.live, t.readiness.gen = s.readiness.gen,
         t.readiness.part = s.readiness.part, Retires(s, t)
  PROVE  Follows(s, t)
<1>1. SameRoom(s, t) /\ SameStart(s, t) /\ Onward(s, t)
  BY DEF SameRoom, SameStart, Onward
<1>2. Fresh(s) => Fresh(t)
  BY DEF Fresh, IsMember
<1> QED
  BY <1>1, <1>2 DEF Follows, Tracks

\* No staged evidence is left to be retired.
LEMMA NoPendingEvidence == NoPending.evidence = "None"
  BY DEF NoPending

\* Evidence is retired as a whole.
LEMMA RetirePendingFollows ==
  ASSUME NEW s \in Runtimes
  PROVE  /\ Follows(s, RetirePendingTransport(s))
         /\ \A c \in Clients : RetirePendingTransport(s).pending[c] = NoPending
<1> DEFINE t == RetirePendingTransport(s)
<1>1. /\ t.place = s.place /\ t.caps = s.caps /\ t.fenced = s.fenced /\ t.barrier = s.barrier
      /\ t.nextGen = s.nextGen /\ t.nextRev = s.nextRev /\ t.readiness = s.readiness
      /\ t.pending = [c \in Clients |-> NoPending]
  BY DEF RetirePendingTransport, Runtimes
<1> HIDE DEF t
<1>2. Retires(s, t)
  BY <1>1, NoPendingEvidence DEF Retires
<1>3. Follows(s, t) /\ \A c \in Clients : t.pending[c] = NoPending
  BY <1>1, <1>2, CoordinatorFollows
<1> QED
  BY <1>3 DEF t

\* A write to the coordinator that keeps its members and its generation.
LEMMA ReadinessFollows ==
  ASSUME NEW s \in Runtimes, NEW r, r.live = s.readiness.live, r.gen = s.readiness.gen,
         r.part = s.readiness.part
  PROVE  Follows(s, [s EXCEPT !.readiness = r])
<1> DEFINE t == [s EXCEPT !.readiness = r]
<1>1. /\ t.place = s.place /\ t.caps = s.caps /\ t.fenced = s.fenced /\ t.barrier = s.barrier
      /\ t.nextGen = s.nextGen /\ t.nextRev = s.nextRev /\ t.readiness = r
      /\ t.pending = s.pending /\ t.paused = s.paused
  BY DEF Runtimes
<1> HIDE DEF t
<1>2. Retires(s, t)
  BY <1>1 DEF Retires
<1>3. Follows(s, t)
  BY <1>1, <1>2, CoordinatorFollows
<1> QED
  BY <1>3 DEF t

\* Writing the owner, the gate, or both.
LEMMA OwnerGateFollows ==
  ASSUME NEW s \in Runtimes, NEW o, NEW g
  PROVE  /\ Follows(s, [s EXCEPT !.readiness.owner = o])
         /\ Follows(s, [s EXCEPT !.readiness.gate = g])
         /\ Follows(s, SetGateAndOwner(s, g, o))
<1> DEFINE r == s.readiness
<1>1. r \in Readinesses
  BY Components
<1>2. /\ \A x \in {[r EXCEPT !.owner = o], [r EXCEPT !.gate = g], [r EXCEPT !.gate = g, !.owner = o]} :
           x.live = r.live /\ x.gen = r.gen /\ x.part = r.part
  BY <1>1 DEF Readinesses
<1>3. /\ [s EXCEPT !.readiness.owner = o] = [s EXCEPT !.readiness = [r EXCEPT !.owner = o]]
      /\ [s EXCEPT !.readiness.gate = g] = [s EXCEPT !.readiness = [r EXCEPT !.gate = g]]
      /\ SetGateAndOwner(s, g, o) = [s EXCEPT !.readiness = [r EXCEPT !.gate = g, !.owner = o]]
  BY DEF SetGateAndOwner
<1> QED
  BY <1>2, <1>3, ReadinessFollows

\* `set_readiness_pause_owner`.
LEMMA SetPauseOwnerFollows ==
  ASSUME NEW s \in Runtimes, NEW o \in Owners
  PROVE  Follows(s, SetPauseOwner(s, o))
<1> DEFINE t == [s EXCEPT !.readiness.owner = o]
<1>1. t \in Runtimes /\ Follows(s, t)
  BY OwnerUpdate, OwnerGateFollows
<1> HIDE DEF t
<1>2. Follows(s, RetirePendingTransport(t))
  BY <1>1, RetirePendingFollows, FollowsTransitive
<1> QED
  BY <1>2, FollowsReflexive DEF SetPauseOwner, t

\* `refresh_readiness_gate_phase`, `clear_readiness_gate` and the timed-out gate.
LEMMA GateFollows ==
  ASSUME NEW s \in Runtimes, NEW reason
  PROVE  /\ Follows(s, RefreshGate(s)) /\ Follows(s, ClearGate(s))
         /\ Follows(s, MarkGateDegraded(s, reason))
  BY OwnerGateFollows, FollowsReflexive DEF RefreshGate, ClearGate, MarkGateDegraded

\* `mark_readiness_gate_committed`.
LEMMA MarkGateCommittedFollows ==
  ASSUME NEW s \in Runtimes
  PROVE  Follows(s, MarkGateCommitted(s))
<1> DEFINE g == [phase |-> "Committed", gen |-> s.barrier.gen, reason |-> "None"]
           t == SetGateAndOwner(s, g, NoOwner)
<1>1. g \in Gates
  BY Components, BarrierComponents DEF Gates, GatePhases, GateReasons
<1> HIDE DEF g
<1>2. t \in Runtimes /\ Follows(s, t)
  BY <1>1, OwnerTypes, SetGateAndOwnerType, OwnerGateFollows
<1> HIDE DEF t
<1>3. Follows(s, RetirePendingTransport(t))
  BY <1>2, RetirePendingFollows, FollowsTransitive
<1> QED
  BY <1>3, FollowsReflexive DEF MarkGateCommitted, t, g

-----------------------------------------------------------------------------
(* The barrier's methods.                                                  *)

\* A method that touches only the lifecycle, its revision and the transport.
LEMMA LifecycleFollows ==
  ASSUME NEW s, NEW t, t.place = s.place, t.caps = s.caps, t.fenced = s.fenced,
         t.readiness = s.readiness, SameStart(s, t), Onward(s, t), Retires(s, t)
  PROVE  Follows(s, t)
  BY DEF Follows, Tracks, SameRoom, Fresh, IsMember

\* A write to the lifecycle.
LEMMA BarrierFollows ==
  ASSUME NEW s \in Runtimes, NEW b,
         b.gen = s.barrier.gen, b.initiator = s.barrier.initiator,
         b.excluded = s.barrier.excluded, b.rev = s.barrier.rev,
         \A c \in Clients : (b.part[c] = "Absent") <=> (s.barrier.part[c] = "Absent"),
         \/ b.phase = s.barrier.phase
         \/ /\ s.barrier.phase # "None"
            /\ \/ b.phase \in {"Complete", "Degraded"}
               \/ s.barrier.phase = "Preparing" /\ b.phase = "AwaitingDecision"
  PROVE  Follows(s, [s EXCEPT !.barrier = b])
<1> DEFINE t == [s EXCEPT !.barrier = b]
<1>1. /\ t.place = s.place /\ t.caps = s.caps /\ t.fenced = s.fenced /\ t.barrier = b
      /\ t.nextGen = s.nextGen /\ t.nextRev = s.nextRev /\ t.readiness = s.readiness
      /\ t.pending = s.pending /\ t.paused = s.paused
  BY DEF Runtimes
<1> HIDE DEF t
<1>2. SameStart(s, t)
  BY <1>1 DEF SameStart
<1>3. Onward(s, t)
  BY <1>1 DEF Onward
<1>4. Retires(s, t)
  BY <1>1 DEF Retires
<1>5. Follows(s, t)
  BY <1>1, <1>2, <1>3, <1>4, LifecycleFollows
<1> QED
  BY <1>5 DEF t

\* The phase and the participants of a lifecycle, as `EnterPhase` writes them.
LEMMA EnterPhaseFollows ==
  ASSUME NEW s \in Runtimes, s.barrier.phase # "None", NEW p, NEW h,
         \A c \in Clients : (p[c] = "Absent") <=> (s.barrier.part[c] = "Absent"),
         \/ h \in {"Complete", "Degraded"}
         \/ s.barrier.phase = "Preparing" /\ h = "AwaitingDecision"
  PROVE  Follows(s, EnterPhase(s, h, p))
<1> DEFINE b == [s.barrier EXCEPT !.part = p, !.phase = h]
<1>1. /\ b.phase = h /\ b.part = p /\ b.gen = s.barrier.gen /\ b.rev = s.barrier.rev
      /\ b.initiator = s.barrier.initiator /\ b.excluded = s.barrier.excluded
  BY LifecycleOf DEF Lifecycles
<1> HIDE DEF b
<1>2. Follows(s, [s EXCEPT !.barrier = b])
  BY <1>1, BarrierFollows
<1> QED
  BY <1>2 DEF EnterPhase, b

\* The phase alone.
LEMMA PhaseFollows ==
  ASSUME NEW s \in Runtimes, s.barrier.phase # "None", NEW h \in {"Complete", "Degraded"}
  PROVE  Follows(s, [s EXCEPT !.barrier.phase = h])
<1> DEFINE b == [s.barrier EXCEPT !.phase = h]
<1>1. /\ b.phase = h /\ b.part = s.barrier.part /\ b.gen = s.barrier.gen
      /\ b.rev = s.barrier.rev
      /\ b.initiator = s.barrier.initiator /\ b.excluded = s.barrier.excluded
  BY LifecycleOf DEF Lifecycles
<1> HIDE DEF b
<1>2. Follows(s, [s EXCEPT !.barrier = b])
  BY <1>1, BarrierFollows
<1> QED
  BY <1>2 DEF b

\* A participant that takes part goes on doing so, in another phase.
LEMMA ParticipantFollows ==
  ASSUME NEW s \in Runtimes, NEW c \in Clients, s.barrier.part[c] # "Absent",
         NEW p, p # "Absent"
  PROVE  Follows(s, [s EXCEPT !.barrier.part[c] = p])
<1> DEFINE b == [s.barrier EXCEPT !.part[c] = p]
<1>1. s.barrier \in Barriers /\ s.barrier.part \in [Clients -> ParticipantPhases]
  BY Components, BarrierComponents
<1>2. /\ b.phase = s.barrier.phase /\ b.gen = s.barrier.gen
      /\ b.rev = s.barrier.rev
      /\ b.initiator = s.barrier.initiator /\ b.excluded = s.barrier.excluded
      /\ b.part = [s.barrier.part EXCEPT ![c] = p]
  BY <1>1 DEF Barriers, Lifecycles, NoBarrier
<1> HIDE DEF b
<1>3. \A d \in Clients : (b.part[d] = "Absent") <=> (s.barrier.part[d] = "Absent")
  BY <1>1, <1>2
<1>4. Follows(s, [s EXCEPT !.barrier = b])
  BY <1>2, <1>3, BarrierFollows
<1> QED
  BY <1>4 DEF b

\* The phases a commit leaves keep the participants.
LEMMA CommitPhases ==
  ASSUME NEW phase, NEW timedOut
  PROVE  (PhaseAtCommit(phase, timedOut) = "Absent") <=> (phase = "Absent")
  BY DEF PhaseAtCommit

\* `commit_playback_barrier`.
LEMMA CommitFollows ==
  ASSUME NEW s \in Runtimes, NEW timedOut \in BOOLEAN
  PROVE  Follows(s, Commit(s, timedOut))
<1> DEFINE part == [c \in Clients |-> PhaseAtCommit(s.barrier.part[c], timedOut)]
           b == [s.barrier EXCEPT !.part = part, !.phase = "Committed",
                                  !.rev = s.nextRev + 1, !.gated = s.readiness.live]
           r == [s EXCEPT !.barrier = b, !.nextRev = s.nextRev + 1, !.paused = FALSE]
           u == RetirePendingTransport(r)
           t == MarkGateCommitted(u)
<1>1. CASE Commit(s, timedOut) = s
  BY <1>1, FollowsReflexive
<1>2. CASE s.barrier.phase = "Preparing" /\ Commit(s, timedOut) = t
  <2>1. s.barrier \in Lifecycles /\ s.barrier.part \in [Clients -> ParticipantPhases]
    BY <1>2, LifecycleOf
  <2>2. s.nextRev + 1 \in Nat /\ s.readiness.live \in BOOLEAN
    BY Components, ReadinessComponents
  <2>3. /\ part \in [Clients -> ParticipantPhases]
        /\ \A c \in Clients : (part[c] = "Absent") <=> (s.barrier.part[c] = "Absent")
    BY <2>1, CommitPhases DEF PhaseAtCommit, ParticipantPhases
  <2> HIDE DEF part
  <2>4. /\ b \in Barriers /\ b.phase = "Committed" /\ b.gen = s.barrier.gen
        /\ b.part = part /\ b.rev = s.nextRev + 1
        /\ b.initiator = s.barrier.initiator /\ b.excluded = s.barrier.excluded
    BY <2>1, <2>2, <2>3 DEF Lifecycles, Barriers, LifecyclePhases
  <2> HIDE DEF b
  <2>5. /\ r \in Runtimes /\ r.barrier = b /\ r.readiness = s.readiness
        /\ r.nextRev = s.nextRev + 1 /\ r.nextGen = s.nextGen
        /\ r.place = s.place /\ r.caps = s.caps /\ r.fenced = s.fenced
    BY <2>2, <2>4 DEF Runtimes
  <2> HIDE DEF r
  <2>6. /\ u \in Runtimes /\ u.barrier = b /\ u.readiness = s.readiness
        /\ u.nextRev = s.nextRev + 1 /\ u.nextGen = s.nextGen
        /\ u.place = s.place /\ u.caps = s.caps /\ u.fenced = s.fenced
        /\ u.pending = [c \in Clients |-> NoPending]
    BY <2>5, RetirePendingTransportType DEF RetirePendingTransport, Runtimes
  <2> HIDE DEF u
  <2>7. SameStart(s, u)
    BY <2>3, <2>4, <2>6 DEF SameStart
  <2>8. Onward(s, u)
    BY <1>2, <2>4, <2>6 DEF Onward
  <2>9. Retires(s, u)
    BY <2>6, NoPendingEvidence DEF Retires
  <2>10. Follows(s, u)
    BY <2>6, <2>7, <2>8, <2>9, LifecycleFollows
  <2> QED
    BY <1>2, <2>6, <2>10, MarkGateCommittedFollows, FollowsTransitive
<1> QED
  BY <1>1, <1>2 DEF Commit

\* `maybe_commit_readiness_gate`, alone and after the gate is published.
LEMMA MaybeCommitFollows ==
  ASSUME NEW s \in Runtimes
  PROVE  Follows(s, MaybeCommit(s)) /\ Follows(s, MaybeCommit(RefreshGate(s)))
<1>1. ASSUME NEW x \in Runtimes
      PROVE  Follows(x, MaybeCommit(x))
  BY CommitFollows, FollowsReflexive DEF MaybeCommit
<1>2. RefreshGate(s) \in Runtimes /\ Follows(s, RefreshGate(s))
  BY RefreshGateType, GateFollows
<1> QED
  BY <1>1, <1>2, FollowsTransitive

\* A participant's confirmation.
LEMMA RecordReadyFollows ==
  ASSUME NEW s \in Runtimes, NEW c \in Clients, NEW g \in Nat, NEW isReady \in BOOLEAN
  PROVE  Follows(s, RecordReady(s, c, g, isReady))
<1> DEFINE p == IF isReady THEN "Ready" ELSE "Pending"
           recorded == [s EXCEPT !.barrier.part[c] = p]
<1>1. CASE RecordReady(s, c, g, isReady) = s
  BY <1>1, FollowsReflexive
<1>2. CASE /\ s.barrier.phase = "Preparing" /\ s.barrier.part[c] # "Absent"
           /\ RecordReady(s, c, g, isReady) \in {recorded, Commit(recorded, FALSE)}
  <2>1. p \in ParticipantPhases /\ p # "Absent"
    BY DEF ParticipantPhases
  <2> HIDE DEF p
  <2>2. recorded \in Runtimes /\ Follows(s, recorded)
    BY <1>2, <2>1, ParticipantRuntime, ParticipantFollows
  <2> HIDE DEF recorded
  <2>3. Follows(s, Commit(recorded, FALSE))
    BY <2>2, CommitFollows, FollowsTransitive
  <2> QED
    BY <1>2, <2>2, <2>3
<1> QED
  BY <1>1, <1>2 DEF RecordReady

\* The acknowledgement of a participant that started.
LEMMA RecordStartedFollows ==
  ASSUME NEW s \in Runtimes, NEW c \in Clients, NEW g \in Nat, NEW rev \in Nat
  PROVE  Follows(s, RecordStarted(s, c, g, rev))
<1> DEFINE recorded == [s EXCEPT !.barrier.part[c] = "Started"]
           complete == [recorded EXCEPT !.barrier.phase = "Complete"]
<1>1. CASE RecordStarted(s, c, g, rev) = s
  BY <1>1, FollowsReflexive
<1>2. CASE /\ s.barrier.phase = "Committed" /\ s.barrier.part[c] # "Absent"
           /\ RecordStarted(s, c, g, rev) \in {recorded, ClearGate(complete)}
  <2>1. recorded \in Runtimes /\ Follows(s, recorded) /\ Quiet(s, recorded)
    BY <1>2, ParticipantRuntime, ParticipantFollows, ParticipantEffect DEF ParticipantPhases
  <2> HIDE DEF recorded
  <2>2. recorded.barrier.phase = "Committed"
    BY <1>2, <2>1 DEF Quiet, Held
  <2>3. complete \in Runtimes /\ Follows(recorded, complete)
    BY <2>1, <2>2, PhaseRuntime, PhaseFollows DEF LifecyclePhases
  <2> HIDE DEF complete
  <2>4. Follows(s, ClearGate(complete))
    BY <2>1, <2>3, GateFollows, FollowsTransitive
  <2> QED
    BY <1>2, <2>1, <2>4
<1> QED
  BY <1>1, <1>2 DEF RecordStarted

\* The prepare deadline.
LEMMA PrepareTimeoutFollows ==
  ASSUME NEW s \in Runtimes, s.barrier.phase = "Preparing"
  PROVE  Follows(s, PrepareTimeout(s))
<1>1. ASSUME NEW h \in {"Degraded", "AwaitingDecision"}
      PROVE  Follows(s, MarkGateDegraded(FinishPrepareTimeout(s, h), "TimedOut"))
  <2> DEFINE part == [c \in Clients |->
                        IF s.barrier.part[c] \in {"Absent", "Ready"}
                        THEN s.barrier.part[c] ELSE "PrepareTimedOut"]
             u == EnterPhase(s, h, part)
  <2>1. \A c \in Clients : (part[c] = "Absent") <=> (s.barrier.part[c] = "Absent")
    OBVIOUS
  <2>2. u = FinishPrepareTimeout(s, h)
    BY DEF FinishPrepareTimeout
  <2> HIDE DEF part
  <2>3. u \in Runtimes /\ Follows(s, u)
    BY <1>1, <2>1, <2>2, FinishPrepareTimeoutType, EnterPhaseFollows DEF LifecyclePhases
  <2> HIDE DEF u
  <2> QED
    BY <2>2, <2>3, GateFollows, FollowsTransitive
<1>2. Follows(s, Commit(s, TRUE))
  BY CommitFollows
<1>3. s.barrier.req.timeoutAction \in TimeoutActions
  BY LifecycleOf, RequestsAssumption
<1> QED
  BY <1>1, <1>2, <1>3 DEF PrepareTimeout, TimeoutActions

\* The deadline of the `started` acknowledgements.
LEMMA StartedTimeoutFollows ==
  ASSUME NEW s \in Runtimes, s.barrier.phase = "Committed"
  PROVE  Follows(s, StartedTimeout(s))
<1> DEFINE part == [c \in Clients |->
                      IF s.barrier.part[c] \in {"Pending", "Ready"}
                      THEN "StartedAckTimedOut" ELSE s.barrier.part[c]]
           t == EnterPhase(s, "Degraded", part)
<1>1. /\ \A c \in Clients : (part[c] = "Absent") <=> (s.barrier.part[c] = "Absent")
      /\ part \in [Clients -> ParticipantPhases]
  BY LifecycleOf DEF ParticipantPhases
<1>2. StartedTimeout(s) = ClearGate(t)
  BY DEF StartedTimeout
<1> HIDE DEF part
<1>3. t \in Runtimes /\ Follows(s, t)
  BY <1>1, EnterPhaseType, EnterPhaseFollows DEF LifecyclePhases
<1> HIDE DEF t
<1> QED
  BY <1>2, <1>3, GateFollows, FollowsTransitive

\* A decision that was awaited is taken.
LEMMA RetireAwaitingDecisionFollows ==
  ASSUME NEW s \in Runtimes, NEW c \in Clients
  PROVE  Follows(s, RetireAwaitingDecision(s, c))
  BY PhaseFollows, FollowsReflexive DEF RetireAwaitingDecision

\* A user pauses a committed start.
LEMMA RetireCommittedFollows ==
  ASSUME NEW s \in Runtimes
  PROVE  Follows(s, RetireCommittedForUserPause(s))
<1> DEFINE part == [c \in Clients |->
                      IF s.barrier.part[c] \in {"Absent", "Started"}
                      THEN s.barrier.part[c] ELSE "Degraded"]
           t == EnterPhase(s, "Degraded", part)
<1>1. CASE s.barrier.phase # "Committed"
  BY <1>1, FollowsReflexive DEF RetireCommittedForUserPause
<1>2. CASE s.barrier.phase = "Committed"
  <2>1. /\ \A c \in Clients : (part[c] = "Absent") <=> (s.barrier.part[c] = "Absent")
        /\ part \in [Clients -> ParticipantPhases]
    BY <1>2, LifecycleOf DEF ParticipantPhases
  <2>2. RetireCommittedForUserPause(s) = ClearGate(t)
    BY <1>2 DEF RetireCommittedForUserPause
  <2> HIDE DEF part
  <2>3. t \in Runtimes /\ Follows(s, t)
    BY <1>2, <2>1, EnterPhaseType, EnterPhaseFollows DEF LifecyclePhases
  <2> HIDE DEF t
  <2> QED
    BY <2>2, <2>3, GateFollows, FollowsTransitive
<1> QED
  BY <1>1, <1>2

\* A new selection retires whatever start there is.
LEMMA RetireForSelectionFollows ==
  ASSUME NEW s \in Runtimes
  PROVE  Follows(s, RetireForSelection(s))
<1> DEFINE part == [c \in Clients |->
                      IF s.barrier.part[c] = "Absent" THEN s.barrier.part[c] ELSE "Degraded"]
<1>1. CASE s.barrier.phase = "None"
  BY <1>1, FollowsReflexive DEF RetireForSelection
<1>2. CASE s.barrier.phase # "None"
  <2>1. \A c \in Clients : (part[c] = "Absent") <=> (s.barrier.part[c] = "Absent")
    OBVIOUS
  <2>2. RetireForSelection(s) = EnterPhase(s, "Degraded", part)
    BY <1>2 DEF RetireForSelection
  <2> HIDE DEF part
  <2> QED
    BY <1>2, <2>1, <2>2, EnterPhaseFollows
<1> QED
  BY <1>1, <1>2

\* A participant is lost.
LEMMA MarkDisconnectedFollows ==
  ASSUME NEW s \in Runtimes, NEW c \in Clients
  PROVE  Follows(s, MarkParticipantDisconnected(s, c))
<1> DEFINE marked == [s EXCEPT !.barrier.part[c] = "Disconnected"]
<1>1. CASE MarkParticipantDisconnected(s, c) = s
  BY <1>1, FollowsReflexive
<1>2. CASE /\ Active(s.barrier) /\ s.barrier.part[c] # "Absent"
           /\ MarkParticipantDisconnected(s, c) = MaybeCommit(marked)
  <2>1. marked \in Runtimes /\ Follows(s, marked)
    BY <1>2, ParticipantRuntime, ParticipantFollows DEF Active, ParticipantPhases
  <2> HIDE DEF marked
  <2> QED
    BY <1>2, <2>1, MaybeCommitFollows, FollowsTransitive
<1> QED
  BY <1>1, <1>2 DEF MarkParticipantDisconnected

-----------------------------------------------------------------------------
(* The coordinator's records.                                              *)

\* The two verdicts of a record.
RoomVerdict(record) == record.intentReady /\ ~record.blocked
StartVerdict(record, g) ==
  /\ record.role = "Required"
  /\ record.intentReady /\ ~record.blocked
  /\ record.tech.phase = "Playable"
  /\ record.tech.gen = g

\* The fields of a record whose verdicts are recomputed.
LEMMA RecomputeFields ==
  ASSUME NEW record \in Records, NEW g
  PROVE  LET r == Recompute(record, g)
         IN /\ r.role = record.role /\ r.intentReady = record.intentReady
            /\ r.tech = record.tech /\ r.blocked = record.blocked
            /\ r.roomReady = RoomVerdict(record)
            /\ r.startEligible = StartVerdict(record, g)
  BY DEF Records, Recompute, RoomVerdict, StartVerdict

\* Verdicts depend on the role, the intent and the evidence.
LEMMA SameVerdicts ==
  ASSUME NEW x, NEW y, NEW g, x.role = y.role, x.intentReady = y.intentReady,
         x.tech = y.tech, x.blocked = y.blocked
  PROVE  RoomVerdict(x) = RoomVerdict(y) /\ StartVerdict(x, g) = StartVerdict(y, g)
  BY DEF RoomVerdict, StartVerdict

\* A record is fresh when it carries its own verdicts.
LEMMA OwnVerdicts ==
  ASSUME NEW record \in Records, NEW g,
         record.roomReady = RoomVerdict(record), record.startEligible = StartVerdict(record, g)
  PROVE  Recompute(record, g) = record
<1>1. Recompute(record, g) = [record EXCEPT !.roomReady = RoomVerdict(record),
                                            !.startEligible = StartVerdict(record, g)]
  BY DEF Recompute, RoomVerdict, StartVerdict
<1>2. [record EXCEPT !.roomReady = record.roomReady,
                     !.startEligible = record.startEligible] = record
  BY DEF Records
<1> QED
  BY <1>1, <1>2

\* A record with evidence of the generation, or none, is fresh once recomputed.
LEMMA RecomputedIsFresh ==
  ASSUME NEW record \in Records, NEW g \in Nat, record.tech.gen \in {0, g}
  PROVE  FreshRecord(Recompute(record, g), g)
<1> DEFINE r == Recompute(record, g)
<1>1. r \in Records
  BY RecomputeType
<1>2. /\ r.role = record.role /\ r.intentReady = record.intentReady
      /\ r.tech = record.tech /\ r.blocked = record.blocked
      /\ r.roomReady = RoomVerdict(record) /\ r.startEligible = StartVerdict(record, g)
  BY RecomputeFields
<1> HIDE DEF r
<1>3. RoomVerdict(r) = RoomVerdict(record) /\ StartVerdict(r, g) = StartVerdict(record, g)
  BY <1>2, SameVerdicts
<1>4. Recompute(r, g) = r /\ r.tech.gen \in {0, g}
  BY <1>1, <1>2, <1>3, OwnVerdicts
<1> QED
  BY <1>4 DEF FreshRecord, r

\* The fields that the verdicts do not depend on may be written freely.
LEMMA OpenInitializationIsFresh ==
  ASSUME NEW record \in Records, NEW g \in Nat, NEW x \in BOOLEAN, FreshRecord(record, g)
  PROVE  FreshRecord([record EXCEPT !.initializationOpen = x], g)
<1> DEFINE r == [record EXCEPT !.initializationOpen = x]
<1>1. /\ r \in Records /\ r.role = record.role /\ r.intentReady = record.intentReady
      /\ r.tech = record.tech /\ r.blocked = record.blocked
      /\ r.roomReady = record.roomReady /\ r.startEligible = record.startEligible
  BY DEF Records
<1>2. /\ record.roomReady = RoomVerdict(record)
      /\ record.startEligible = StartVerdict(record, g)
      /\ record.tech.gen \in {0, g}
  <2>1. Recompute(record, g) = record /\ record.tech.gen \in {0, g}
    BY DEF FreshRecord
  <2> QED
    BY <2>1, RecomputeFields
<1> HIDE DEF r
<1>3. RoomVerdict(r) = RoomVerdict(record) /\ StartVerdict(r, g) = StartVerdict(record, g)
  BY <1>1, SameVerdicts
<1>4. Recompute(r, g) = r
  BY <1>1, <1>2, <1>3, OwnVerdicts
<1>5. FreshRecord(r, g)
  BY <1>1, <1>2, <1>4 DEF FreshRecord
<1> QED
  BY <1>5 DEF r

\* A write to one participant's record that keeps its role and its freshness.
LEMMA RecordFollows ==
  ASSUME NEW s \in Runtimes, NEW c \in Clients, NEW record,
         record.role = s.readiness.part[c].role,
         Fresh(s) /\ IsMember(s, c) => FreshRecord(record, s.readiness.gen)
  PROVE  Follows(s, [s EXCEPT !.readiness.part[c] = record])
<1> DEFINE t == [s EXCEPT !.readiness.part[c] = record]
<1>1. /\ t.place = s.place /\ t.caps = s.caps /\ t.fenced = s.fenced /\ t.barrier = s.barrier
      /\ t.nextGen = s.nextGen /\ t.nextRev = s.nextRev
      /\ t.readiness.live = s.readiness.live /\ t.readiness.gen = s.readiness.gen
      /\ t.readiness.part = [s.readiness.part EXCEPT ![c] = record]
      /\ t.pending = s.pending /\ t.paused = s.paused
  BY DEF Runtimes, Readinesses
<1>2. s.readiness.part \in [Clients -> Records]
  BY Components, ReadinessComponents
<1> HIDE DEF t
<1>3. SameRoom(s, t)
  BY <1>1, <1>2 DEF SameRoom
<1>4. SameStart(s, t) /\ Onward(s, t) /\ Retires(s, t)
  BY <1>1 DEF SameStart, Onward, Retires
<1>5. Fresh(s) => Fresh(t)
  BY <1>1, <1>2 DEF Fresh, IsMember
<1>6. Follows(s, t)
  BY <1>3, <1>4, <1>5 DEF Follows, Tracks
<1> QED
  BY <1>6 DEF t

\* `mutate_readiness_intent`.
LEMMA MutateIntentFollows ==
  ASSUME NEW s \in Runtimes, NEW c \in Clients, NEW ready \in BOOLEAN
  PROVE  Follows(s, MutateIntent(s, c, ready))
<1> DEFINE x == [s.readiness.part[c] EXCEPT !.intentReady = ready, !.touched = TRUE]
           r == Recompute(x, s.readiness.gen)
<1>1. x \in Records /\ x.role = s.readiness.part[c].role /\ x.tech = s.readiness.part[c].tech
  BY RecordOf DEF Records
<1> HIDE DEF x
<1>2. s.readiness.gen \in Nat
  BY RecordOf
<1>3. r.role = s.readiness.part[c].role
  BY <1>1, RecomputeRole
<1>4. Fresh(s) /\ IsMember(s, c) => FreshRecord(r, s.readiness.gen)
  BY <1>1, <1>2, RecomputedIsFresh DEF Fresh, FreshRecord
<1> HIDE DEF r
<1>5. Follows(s, [s EXCEPT !.readiness.part[c] = r])
  BY <1>3, <1>4, RecordFollows
<1> QED
  BY <1>5 DEF MutateIntent, r, x

\* The bit that permits one initialization intent.
LEMMA InitializationFollows ==
  ASSUME NEW s \in Runtimes, NEW c \in Clients
  PROVE  LET t == [s EXCEPT !.readiness.part[c].initializationOpen = FALSE]
         IN t \in Runtimes /\ Follows(s, t)
<1> DEFINE record == s.readiness.part[c]
           r == [record EXCEPT !.initializationOpen = FALSE]
<1>1. record \in Records /\ s.readiness.gen \in Nat
  BY RecordOf
<1>2. r \in Records /\ r.role = record.role
  BY <1>1 DEF Records
<1>3. Fresh(s) /\ IsMember(s, c) => FreshRecord(r, s.readiness.gen)
  BY <1>1, OpenInitializationIsFresh DEF Fresh
<1> HIDE DEF r
<1>4. LET t == [s EXCEPT !.readiness.part[c] = r] IN t \in Runtimes /\ Follows(s, t)
  BY <1>2, <1>3, RecordUpdate, RecordFollows
<1> QED
  BY <1>4 DEF r

\* A technical report of the current generation.
LEMMA ReportedRecordFresh ==
  ASSUME NEW record \in Records, NEW g \in Nat, NEW report \in Reports
  PROVE  FreshRecord(ReportedRecord(record, g, report), g)
<1> DEFINE isBlock == report.phase \in {"TemporarilyBlocked", "TerminallyBlocked"}
           cause == IF ~isBlock THEN "None"
                    ELSE IF report.reason = "None" THEN "Other" ELSE report.reason
           gen == IF report.phase = "Unknown" THEN 0 ELSE g
           tech == [phase |-> report.phase, gen |-> gen, cause |-> cause]
           reported == OwnerOfReason(report.reason)
           automatic == IF reported # "None" THEN reported
                        ELSE IF report.phase \in {"Unknown", "Playable"} THEN "None"
                        ELSE record.automatic
           blocked == \/ report.phase = "TerminallyBlocked"
                      \/ record.blocked /\ report.phase # "Playable"
           r == [record EXCEPT !.tech = tech, !.automatic = automatic, !.blocked = blocked]
<1>1. report.phase \in TechnicalPhases /\ report.reason \in Causes
  BY EvidenceAssumption
<1>2. cause \in Causes /\ gen \in {0, g} /\ gen \in Nat
  BY <1>1 DEF Causes
<1>3. automatic \in {"None", "Recovery", "EndOfPlaylist"}
  BY DEF OwnerOfReason, Records
<1>4. blocked \in BOOLEAN
  OBVIOUS
<1> HIDE DEF cause, gen, automatic, blocked
<1>5. tech \in Technicals /\ tech.gen \in {0, g}
  BY <1>1, <1>2 DEF Technicals
<1> HIDE DEF tech
<1>6. r \in Records /\ r.tech.gen \in {0, g}
  BY <1>3, <1>4, <1>5 DEF Records
<1> HIDE DEF r
<1>7. FreshRecord(Recompute(r, g), g)
  BY <1>6, RecomputedIsFresh
<1> QED
  BY <1>7 DEF ReportedRecord, r, blocked, automatic, reported, tech, gen, cause

-----------------------------------------------------------------------------
(* Intents, reports and transport commands.                                *)

\* Staged evidence of one connection is consumed or expires.
LEMMA DropPendingFollows ==
  ASSUME NEW s \in Runtimes, NEW c \in Clients
  PROVE  LET t == [s EXCEPT !.pending[c] = NoPending] IN t \in Runtimes /\ Follows(s, t)
<1> DEFINE t == [s EXCEPT !.pending[c] = NoPending]
<1>1. /\ t.place = s.place /\ t.caps = s.caps /\ t.fenced = s.fenced /\ t.barrier = s.barrier
      /\ t.nextGen = s.nextGen /\ t.nextRev = s.nextRev /\ t.readiness = s.readiness
      /\ t.pending = [s.pending EXCEPT ![c] = NoPending] /\ t.paused = s.paused
  BY DEF Runtimes
<1>2. t \in Runtimes /\ s.pending \in [Clients -> Pendings]
  BY SimpleTypes, PendingUpdate, Components
<1> HIDE DEF t
<1>3. Retires(s, t)
  BY <1>1, <1>2, NoPendingEvidence DEF Retires
<1>4. Follows(s, t)
  BY <1>1, <1>3, CoordinatorFollows
<1> QED
  BY <1>2, <1>4 DEF t

\* Evidence is staged: it contradicts the transport of a room that prepares no start, and
\* its connection is a member.
LEMMA StageTracks ==
  ASSUME NEW s \in Runtimes, NEW c \in Clients, NEW e \in Pendings,
         e.paused # s.paused, s.barrier.phase # "Preparing"
  PROVE  LET t == [s EXCEPT !.pending[c] = e]
         IN /\ t \in Runtimes /\ Tracks(s, t) /\ t.barrier = s.barrier
            /\ Staged(s) /\ IsMember(s, c) => Staged(t)
<1> DEFINE t == [s EXCEPT !.pending[c] = e]
<1>1. /\ t.place = s.place /\ t.caps = s.caps /\ t.fenced = s.fenced /\ t.barrier = s.barrier
      /\ t.nextGen = s.nextGen /\ t.nextRev = s.nextRev /\ t.readiness = s.readiness
      /\ t.pending = [s.pending EXCEPT ![c] = e] /\ t.paused = s.paused
  BY DEF Runtimes
<1>2. t \in Runtimes /\ s.pending \in [Clients -> Pendings]
  BY PendingUpdate, Components
<1> HIDE DEF t
<1>3. Tracks(s, t)
  <2>1. SameRoom(s, t) /\ SameStart(s, t) /\ Onward(s, t)
    BY <1>1 DEF SameRoom, SameStart, Onward
  <2>2. Fresh(s) => Fresh(t)
    BY <1>1 DEF Fresh, IsMember
  <2> QED
    BY <2>1, <2>2 DEF Tracks
<1>4. Staged(s) /\ IsMember(s, c) => Staged(t)
  BY <1>1, <1>2 DEF Staged, IsMember
<1> QED
  BY <1>1, <1>2, <1>3, <1>4 DEF t

\* The canonical pause bit moves and takes the staged evidence with it.
LEMMA RetimeFollows ==
  ASSUME NEW s \in Runtimes, NEW p \in BOOLEAN
  PROVE  LET t == RetirePendingTransport([s EXCEPT !.paused = p])
         IN t \in Runtimes /\ Follows(s, t)
<1> DEFINE r == [s EXCEPT !.paused = p]
           t == RetirePendingTransport(r)
<1>1. /\ r \in Runtimes
      /\ r.place = s.place /\ r.caps = s.caps /\ r.fenced = s.fenced /\ r.barrier = s.barrier
      /\ r.nextGen = s.nextGen /\ r.nextRev = s.nextRev /\ r.readiness = s.readiness
  BY PausedUpdate DEF Runtimes
<1> HIDE DEF r
<1>2. /\ t \in Runtimes
      /\ t.place = s.place /\ t.caps = s.caps /\ t.fenced = s.fenced /\ t.barrier = s.barrier
      /\ t.nextGen = s.nextGen /\ t.nextRev = s.nextRev /\ t.readiness = s.readiness
      /\ t.pending = [c \in Clients |-> NoPending]
  BY <1>1, RetirePendingTransportType DEF RetirePendingTransport, Runtimes
<1> HIDE DEF t
<1>3. Retires(s, t)
  BY <1>2, NoPendingEvidence DEF Retires
<1>4. Follows(s, t)
  BY <1>2, <1>3, CoordinatorFollows
<1> QED
  BY <1>2, <1>4 DEF t, r

\* `claim_user_pause_ownership`.
LEMMA ClaimUserPauseFollows ==
  ASSUME NEW s \in Runtimes, NEW c \in Clients
  PROVE  ClaimUserPause(s, c) \in Runtimes /\ Follows(s, ClaimUserPause(s, c))
<1> DEFINE u == RetireCommittedForUserPause(s)
           v == SetPauseOwner(u, UserOwner(c))
<1>1. u \in Runtimes /\ Follows(s, u)
  BY RetireCommittedForUserPauseType, RetireCommittedFollows
<1> HIDE DEF u
<1>2. v \in Runtimes /\ Follows(s, v)
  BY <1>1, OwnerTypes, SetPauseOwnerType, SetPauseOwnerFollows, FollowsTransitive
<1> HIDE DEF v
<1>3. RefreshGate(v) \in Runtimes /\ Follows(s, RefreshGate(v))
  BY <1>2, RefreshGateType, GateFollows, FollowsTransitive
<1> QED
  BY <1>3 DEF ClaimUserPause, v, u

\* `apply_staged_user_transport_transition`.
LEMMA ApplyStagedFollows ==
  ASSUME NEW s \in Runtimes, NEW c \in Clients, NEW p \in BOOLEAN
  PROVE  Follows(s, ApplyStaged(s, c, p))
<1> DEFINE decided == RetireAwaitingDecision(s, c)
           owned == IF p THEN ClaimUserPause(decided, c) ELSE SetPauseOwner(decided, NoOwner)
<1>1. decided \in Runtimes /\ Follows(s, decided)
  BY RetireAwaitingDecisionType, RetireAwaitingDecisionFollows
<1> HIDE DEF decided
<1>2. /\ ClaimUserPause(decided, c) \in Runtimes /\ Follows(s, ClaimUserPause(decided, c))
      /\ SetPauseOwner(decided, NoOwner) \in Runtimes
      /\ Follows(s, SetPauseOwner(decided, NoOwner))
  BY <1>1, ClaimUserPauseFollows, OwnerTypes, SetPauseOwnerType, SetPauseOwnerFollows,
     FollowsTransitive
<1>3. owned \in Runtimes /\ Follows(s, owned)
  BY <1>2
<1> HIDE DEF owned
<1>4. Follows(s, RetirePendingTransport([owned EXCEPT !.paused = p]))
  BY <1>3, RetimeFollows, FollowsTransitive
<1> QED
  BY <1>3, <1>4 DEF ApplyStaged, owned, decided

\* What an accepted player action does to the transport: it moves the room, or is staged.
LEMMA IndirectTransportFollows ==
  ASSUME NEW s \in Runtimes, NEW c \in Clients, NEW p \in BOOLEAN, NEW staged \in BOOLEAN
  PROVE  LET t == IndirectTransport(s, c, p, staged)
         IN \/ Follows(s, t)
            \/ /\ s.paused # p /\ (~p => s.barrier.phase # "Preparing")
               /\ t = [s EXCEPT !.pending[c] = [paused |-> p, evidence |-> "Accepted"]]
<1> DEFINE decided == RetireAwaitingDecision(s, c)
<1>1. decided \in Runtimes /\ Follows(s, decided)
  BY RetireAwaitingDecisionType, RetireAwaitingDecisionFollows
<1> HIDE DEF decided
<1>2. Follows(s, ClaimUserPause(decided, c)) /\ Follows(s, ApplyStaged(s, c, p))
  BY <1>1, ClaimUserPauseFollows, ApplyStagedFollows, FollowsTransitive
<1> QED
  BY <1>1, <1>2, FollowsReflexive DEF IndirectTransport, decided

\* `apply_readiness_intent`.
LEMMA ApplyIntentFollows ==
  ASSUME NEW s \in Runtimes, Authority(s), NEW c \in Clients, NEW target \in Clients,
         NEW ready \in BOOLEAN, NEW source \in IntentSources
  PROVE  LET t == ApplyIntent(s, c, target, ready, source)
         IN /\ Tracks(s, t)
            /\ Staged(s) /\ IsMember(s, c) => Staged(t)
<1> DEFINE p == source = "PlayerPause"
           controls == /\ source \in {"PlayerPlay", "PlayerPause"} /\ target = c
                       /\ c \in Controllers
           staged == controls /\ s.pending[c] = [paused |-> p, evidence |-> "Observed"]
           consumed == [s EXCEPT !.pending[c] = NoPending]
           intended == MutateIntent(consumed, target, ready)
           mutated == [intended EXCEPT !.readiness.part[c].initializationOpen = FALSE]
           shifted == IndirectTransport(mutated, c, p, staged)
           moved == IF controls THEN shifted ELSE mutated
           o == GateOwner(s.barrier.gen)
           armed == IF ready /\ s.barrier.phase = "Preparing"
                    THEN SetPauseOwner(moved, o) ELSE moved
           t == MaybeCommit(RefreshGate(armed))
<1>1. p \in BOOLEAN /\ staged \in BOOLEAN /\ o \in Owners
  BY OwnerTypes, Components, BarrierComponents
<1> HIDE DEF p, o
<1>2. consumed \in Runtimes /\ Follows(s, consumed) /\ Quiet(s, consumed)
  BY DropPendingFollows, PendingEffect
<1> HIDE DEF consumed
<1>3. intended \in Runtimes /\ Follows(s, intended) /\ Quiet(s, intended)
  BY <1>2, MutateIntentType, MutateIntentFollows, MutateIntentEffect, FollowsTransitive,
     QuietTransitive
<1> HIDE DEF intended
<1>4. mutated \in Runtimes /\ Follows(s, mutated)
  BY <1>3, InitializationFollows, FollowsTransitive
<1>5. mutated.paused = s.paused /\ mutated.barrier = intended.barrier
  BY <1>3 DEF Runtimes, Quiet, Held
<1>6. mutated.barrier.phase = s.barrier.phase
  BY <1>3, <1>5 DEF Quiet, Held
<1> HIDE DEF mutated, staged
<1>7. moved \in Runtimes
  BY <1>1, <1>4, IndirectTransportType
<1>8. /\ Tracks(s, moved)
      /\ Follows(s, moved) \/ s.barrier.phase # "Preparing"
      /\ Staged(s) /\ IsMember(s, c) => Staged(moved)
  <2>1. Tracks(s, mutated) /\ (Staged(s) => Staged(mutated))
    BY <1>4, TracksKeeps DEF Follows
  <2>2. IsMember(s, c) => IsMember(mutated, c)
    BY <2>1 DEF Tracks, SameRoom, IsMember
  <2>3. CASE moved = mutated
    BY <1>4, <2>1, <2>3
  <2>4. CASE Follows(mutated, shifted) /\ moved = shifted
    <3>1. Follows(s, moved)
      BY <1>4, <2>4, FollowsTransitive
    <3> QED
      BY <3>1, TracksKeeps DEF Follows
  <2>5. CASE /\ mutated.paused # p /\ (~p => mutated.barrier.phase # "Preparing")
             /\ moved = [mutated EXCEPT !.pending[c] = [paused |-> p, evidence |-> "Accepted"]]
    <3> DEFINE e == [paused |-> p, evidence |-> "Accepted"]
    <3>1. e \in Pendings /\ e.paused = p
      BY <1>1 DEF Pendings
    <3> HIDE DEF e
    <3>2. mutated.barrier.phase # "Preparing"
      BY <1>1, <1>4, <1>5, <1>6, <2>5 DEF Authority
    <3>3. /\ Tracks(mutated, moved)
          /\ Staged(mutated) /\ IsMember(mutated, c) => Staged(moved)
      BY <1>4, <2>5, <3>1, <3>2, StageTracks DEF e
    <3> QED
      BY <1>6, <2>1, <2>2, <3>2, <3>3, TracksTransitive
  <2> QED
    BY <1>1, <1>4, <2>3, <2>4, <2>5, IndirectTransportFollows
<1> HIDE DEF moved
<1>9. /\ armed \in Runtimes /\ Follows(moved, armed)
  BY <1>1, <1>7, SetPauseOwnerType, SetPauseOwnerFollows, FollowsReflexive
<1> HIDE DEF armed
<1>10. Follows(moved, t)
  BY <1>7, <1>9, MaybeCommitFollows, FollowsTransitive
<1> HIDE DEF t
<1>11. Tracks(s, t) /\ (Staged(s) /\ IsMember(s, c) => Staged(t))
  BY <1>7, <1>8, <1>10, TracksKeeps, TracksTransitive DEF Follows
<1>12. Tracks(s, consumed) /\ (Staged(s) => Staged(consumed))
  BY <1>2, TracksKeeps DEF Follows
<1>13. ApplyIntent(s, c, target, ready, source) \in {t, consumed}
  BY DEF ApplyIntent, t, armed, moved, mutated, intended, consumed, staged, o, p
<1> QED
  BY <1>11, <1>12, <1>13

\* A legacy controller overrides a member's intent.
LEMMA ApplySyncplayReadyFollows ==
  ASSUME NEW s \in Runtimes, NEW c \in Clients, NEW target \in Clients, NEW ready \in BOOLEAN
  PROVE  Follows(s, ApplySyncplayReady(s, c, target, ready))
<1> DEFINE u == MutateIntent(s, target, ready)
<1>1. u \in Runtimes /\ Follows(s, u)
  BY MutateIntentType, MutateIntentFollows
<1> HIDE DEF u
<1>2. Follows(s, MaybeCommit(RefreshGate(u)))
  BY <1>1, MaybeCommitFollows, FollowsTransitive
<1> QED
  BY <1>2, FollowsReflexive DEF ApplySyncplayReady, u

\* `apply_technical_readiness_report`.
LEMMA ApplyTechnicalReportFollows ==
  ASSUME NEW s \in Runtimes, NEW c \in Clients, NEW g \in Nat, NEW rev \in Nat,
         NEW report \in Reports
  PROVE  Follows(s, ApplyTechnicalReport(s, c, g, rev, report))
<1> DEFINE r == ReportedRecord(s.readiness.part[c], g, report)
           recorded == [s EXCEPT !.readiness.part[c] = r]
           reported == AutomaticOwner(OwnerOfReason(report.reason))
           released == SetPauseOwner(recorded, NoOwner)
           claimed == SetPauseOwner(recorded, reported)
<1>1. CASE ~ReportIsCurrent(s, c, g, rev)
  BY <1>1, FollowsReflexive DEF ApplyTechnicalReport
<1>2. CASE ReportIsCurrent(s, c, g, rev)
  <2>1. g = s.readiness.gen
    BY <1>2 DEF ReportIsCurrent
  <2>2. s.readiness.part[c] \in Records
    BY RecordOf
  <2>3. r \in Records /\ r.role = s.readiness.part[c].role /\ FreshRecord(r, g)
    BY <2>2, ReportedRecordType, ReportedRecordRole, ReportedRecordFresh
  <2> HIDE DEF r
  <2>4. recorded \in Runtimes /\ Follows(s, recorded)
    BY <2>1, <2>3, RecordUpdate, RecordFollows
  <2> HIDE DEF recorded
  <2>5. reported \in Owners
    BY ReportOwnerKind, OwnerTypes
  <2> HIDE DEF reported
  <2>6. /\ released \in Runtimes /\ Follows(s, released)
        /\ claimed \in Runtimes /\ Follows(s, claimed)
    BY <2>4, <2>5, OwnerTypes, SetPauseOwnerType, SetPauseOwnerFollows, FollowsTransitive
  <2> HIDE DEF released, claimed
  <2>7. \A u \in {recorded, released, claimed} : Follows(s, MaybeCommit(RefreshGate(u)))
    BY <2>4, <2>6, MaybeCommitFollows, FollowsTransitive
  <2>8. \E u \in {recorded, released, claimed} :
           ApplyTechnicalReport(s, c, g, rev, report) = MaybeCommit(RefreshGate(u))
    BY <1>2 DEF ApplyTechnicalReport, released, claimed, reported, recorded, r
  <2> QED
    BY <2>7, <2>8
<1> QED
  BY <1>1, <1>2

\* A controller's transport becomes canonical.
LEMMA MoveTransportFollows ==
  ASSUME NEW s \in Runtimes, NEW p \in BOOLEAN
  PROVE  Follows(s, MoveTransport(s, p))
<1> DEFINE moved == RetirePendingTransport([s EXCEPT !.paused = p])
<1>1. moved \in Runtimes /\ Follows(s, moved)
  BY RetimeFollows
<1> HIDE DEF moved
<1>2. Follows(s, SetPauseOwner(moved, NoOwner))
  BY <1>1, OwnerTypes, SetPauseOwnerFollows, FollowsTransitive
<1> QED
  BY <1>1, <1>2 DEF MoveTransport, moved

\* A V2 player's pause change.
LEMMA V2TransportFollows ==
  ASSUME NEW s \in Runtimes, NEW c \in Clients, NEW p \in BOOLEAN,
         s.paused # p, s.barrier.phase # "Preparing"
  PROVE  LET t == V2Transport(s, c, p)
         IN Tracks(s, t) /\ (Staged(s) /\ IsMember(s, c) => Staged(t))
<1> DEFINE consumed == [s EXCEPT !.pending[c] = NoPending]
           decided == RetireAwaitingDecision(consumed, c)
           claimed == ClaimUserPause(decided, c)
           automatic == AutomaticTransportOwner(s, c, p)
           owned == SetPauseOwner(consumed, automatic)
           e == [paused |-> p, evidence |-> "Observed"]
           observed == [s EXCEPT !.pending[c] = e]
<1>1. consumed \in Runtimes /\ Follows(s, consumed)
  BY DropPendingFollows
<1>2. e \in Pendings /\ e.paused = p
  BY DEF Pendings
<1>3. automatic \in Owners
  BY AutomaticTransportOwnerType
<1> HIDE DEF consumed, e, automatic
<1>4. decided \in Runtimes /\ Follows(s, decided)
  BY <1>1, RetireAwaitingDecisionType, RetireAwaitingDecisionFollows, FollowsTransitive
<1> HIDE DEF decided
<1>5. claimed \in Runtimes /\ Follows(s, claimed)
  BY <1>4, ClaimUserPauseFollows, FollowsTransitive
<1>6. owned \in Runtimes /\ Follows(s, owned)
  BY <1>1, <1>3, SetPauseOwnerType, SetPauseOwnerFollows, FollowsTransitive
<1> HIDE DEF claimed, owned
<1>7. \A u \in {consumed, decided, claimed, owned} : Follows(s, MoveTransport(u, p))
  BY <1>1, <1>4, <1>5, <1>6, MoveTransportFollows, FollowsTransitive
<1>8. Tracks(s, observed) /\ (Staged(s) /\ IsMember(s, c) => Staged(observed))
  BY <1>2, StageTracks
<1> HIDE DEF observed
<1>9. \/ V2Transport(s, c, p) = observed
      \/ \E u \in {consumed, decided, claimed, owned} :
           V2Transport(s, c, p) = MoveTransport(u, p)
  BY DEF V2Transport, observed, e, owned, automatic, claimed, decided, consumed
<1> QED
  BY <1>7, <1>8, <1>9, TracksKeeps DEF Follows

\* A legacy player's pause change.
LEMMA SyncplayTransportFollows ==
  ASSUME NEW s \in Runtimes, NEW c \in Clients, NEW p \in BOOLEAN
  PROVE  Follows(s, SyncplayTransport(s, c, p))
<1> DEFINE decided == RetireAwaitingDecision(s, c)
           claimed == ClaimUserPause(decided, c)
<1>1. decided \in Runtimes /\ Follows(s, decided)
  BY RetireAwaitingDecisionType, RetireAwaitingDecisionFollows
<1> HIDE DEF decided
<1>2. claimed \in Runtimes /\ Follows(s, claimed)
  BY <1>1, ClaimUserPauseFollows, FollowsTransitive
<1> HIDE DEF claimed
<1>3. \A u \in {s, decided, claimed} : Follows(s, MoveTransport(u, p))
  BY <1>1, <1>2, MoveTransportFollows, FollowsTransitive
<1>4. \E u \in {s, decided, claimed} : SyncplayTransport(s, c, p) = MoveTransport(u, p)
  BY DEF SyncplayTransport, claimed, decided
<1> QED
  BY <1>3, <1>4

-----------------------------------------------------------------------------
(* A new generation.                                                       *)

\* What `replace_readiness_generation` keeps, and the evidence that starts afresh.
Renews(s, t, g) ==
  /\ t.place = s.place /\ t.caps = s.caps /\ t.fenced = s.fenced
  /\ t.barrier = s.barrier /\ t.paused = s.paused
  /\ t.nextGen = s.nextGen /\ t.nextRev = s.nextRev /\ t.tombstones = s.tombstones
  /\ t.readiness.live = s.readiness.live
  /\ s.readiness.live => t.readiness.gen = g
  /\ \A c \in Clients : t.readiness.part[c].role = s.readiness.part[c].role
  /\ \A c \in Clients : t.pending[c] = NoPending
  /\ \A c \in Clients : s.readiness.live /\ IsMember(s, c) =>
       /\ FreshRecord(t.readiness.part[c], g)
       /\ t.readiness.part[c].startEligible = FALSE
  /\ ~s.readiness.live => t.readiness = s.readiness

\* `replace_readiness_generation`.
LEMMA RenewEffect ==
  ASSUME NEW s \in Runtimes, NEW g \in Nat, NEW owns \in BOOLEAN
  PROVE  Renews(s, ReplaceReadinessGeneration(s, g, owns), g)
<1> DEFINE advanced == RetirePendingTransport(s)
           reset(record) == Recompute([record EXCEPT !.tech = FreshTechnical(g),
                                         !.blocked = FALSE, !.automatic = "None"], g)
           part == [c \in Clients |->
                      IF s.readiness.part[c].role = "Absent"
                      THEN s.readiness.part[c] ELSE reset(s.readiness.part[c])]
           owner == NextPauseOwner(s.readiness.owner, g, owns)
           gate == IF g = 0 THEN InactiveGate ELSE s.readiness.gate
           r == [s.readiness EXCEPT !.gen = g, !.owner = owner, !.gate = gate, !.part = part]
           u == [advanced EXCEPT !.readiness = r]
           t == ReplaceReadinessGeneration(s, g, owns)
<1>1. /\ advanced \in Runtimes
      /\ advanced.place = s.place /\ advanced.caps = s.caps /\ advanced.fenced = s.fenced
      /\ advanced.barrier = s.barrier /\ advanced.paused = s.paused
      /\ advanced.nextGen = s.nextGen /\ advanced.nextRev = s.nextRev
      /\ advanced.tombstones = s.tombstones
      /\ advanced.readiness = s.readiness
      /\ advanced.pending = [c \in Clients |-> NoPending]
  BY RetirePendingTransportType DEF RetirePendingTransport, Runtimes
<1> HIDE DEF advanced
<1>2. CASE ~s.readiness.live
  BY <1>1, <1>2 DEF ReplaceReadinessGeneration, advanced, Renews
<1>3. CASE s.readiness.live
  <2>1. ASSUME NEW c \in Clients, s.readiness.part[c].role # "Absent"
        PROVE  /\ reset(s.readiness.part[c]).role = s.readiness.part[c].role
               /\ FreshRecord(reset(s.readiness.part[c]), g)
               /\ reset(s.readiness.part[c]).startEligible = FALSE
    <3> DEFINE record == s.readiness.part[c]
               x == [record EXCEPT !.tech = FreshTechnical(g), !.blocked = FALSE,
                                   !.automatic = "None"]
    <3>1. record \in Records
      BY RecordOf
    <3>2. FreshTechnical(g) \in Technicals /\ FreshTechnical(g).gen = g
          /\ FreshTechnical(g).phase # "Playable"
      BY FreshTechnicalType DEF FreshTechnical
    <3>3. x \in Records /\ x.role = record.role /\ x.tech.gen = g /\ x.tech.phase # "Playable"
      BY <3>1, <3>2 DEF Records
    <3> HIDE DEF x
    <3>4. /\ FreshRecord(Recompute(x, g), g) /\ Recompute(x, g).role = x.role
          /\ Recompute(x, g).startEligible = StartVerdict(x, g)
      BY <3>3, RecomputedIsFresh, RecomputeFields
    <3>5. StartVerdict(x, g) = FALSE
      BY <3>3 DEF StartVerdict
    <3> QED
      BY <3>3, <3>4, <3>5 DEF x
  <2> HIDE DEF reset
  <2>2. \A c \in Clients :
          part[c] = IF s.readiness.part[c].role = "Absent"
                    THEN s.readiness.part[c] ELSE reset(s.readiness.part[c])
    OBVIOUS
  <2> HIDE DEF part, owner, gate
  <2>3. r.live = s.readiness.live /\ r.gen = g /\ r.part = part
    BY Components DEF Readinesses
  <2> HIDE DEF r
  <2>4. /\ u.place = s.place /\ u.caps = s.caps /\ u.fenced = s.fenced
        /\ u.barrier = s.barrier /\ u.paused = s.paused
        /\ u.nextGen = s.nextGen /\ u.nextRev = s.nextRev
        /\ u.tombstones = s.tombstones
        /\ u.readiness = r /\ u.pending = [c \in Clients |-> NoPending]
    BY <1>1 DEF Runtimes
  <2>5. DOMAIN u = DOMAIN s /\ DOMAIN r = DOMAIN s.readiness
    BY <1>1, Components DEF r, Runtimes, Readinesses
  <2> HIDE DEF u
  <2>6. t = RefreshGate(u)
    BY <1>3 DEF ReplaceReadinessGeneration, u, r, part, owner, gate, reset, advanced
  <2>7. \A h : LET v == [u EXCEPT !.readiness.gate = h]
               IN /\ v.place = u.place /\ v.caps = u.caps /\ v.fenced = u.fenced
                  /\ v.barrier = u.barrier /\ v.paused = u.paused
                  /\ v.nextGen = u.nextGen /\ v.nextRev = u.nextRev
                  /\ v.tombstones = u.tombstones /\ v.pending = u.pending
                  /\ v.readiness.live = r.live /\ v.readiness.gen = r.gen
                  /\ v.readiness.part = r.part
    BY <2>4, <2>5 DEF Runtimes, Readinesses
  <2>8. /\ t.place = u.place /\ t.caps = u.caps /\ t.fenced = u.fenced
        /\ t.barrier = u.barrier /\ t.paused = u.paused
        /\ t.nextGen = u.nextGen /\ t.nextRev = u.nextRev
        /\ t.tombstones = u.tombstones /\ t.pending = u.pending
        /\ t.readiness.live = r.live /\ t.readiness.gen = r.gen
        /\ t.readiness.part = r.part
    BY <2>4, <2>6, <2>7 DEF RefreshGate
  <2> HIDE DEF t
  <2>9. \A c \in Clients : part[c].role = s.readiness.part[c].role
    BY <2>1, <2>2
  <2>10. \A c \in Clients : IsMember(s, c) =>
           FreshRecord(part[c], g) /\ part[c].startEligible = FALSE
    BY <2>1, <2>2 DEF IsMember
  <2>11. \A c \in Clients : t.pending[c] = NoPending
    BY <2>4, <2>8
  <2> QED
    BY <1>3, <2>3, <2>4, <2>8, <2>9, <2>10, <2>11 DEF t, Renews
<1> QED
  BY <1>2, <1>3

\* What opening a generation writes.
Opens(s, t, c, q) ==
  /\ t.place = s.place /\ t.caps = s.caps /\ t.fenced = s.fenced
  /\ t.nextGen = s.nextGen + 1 /\ t.nextRev = s.nextRev
  /\ t.tombstones = s.tombstones \cup Displaced(s, q)
  /\ t.barrier.phase = "Preparing" /\ t.barrier.gen = s.nextGen + 1
  /\ t.barrier.req = q /\ t.barrier.rev = 0 /\ t.barrier.initiator = c
  /\ t.barrier.excluded = ClientsInRoom(s) \ (s.fenced \cup CaptureCohort(s))
  /\ \A d \in Clients :
       t.barrier.part[d] = IF d \in CaptureCohort(s) THEN "Pending" ELSE "Absent"
  /\ t.readiness.live = s.readiness.live
  /\ s.readiness.live => t.readiness.gen = s.nextGen + 1
  /\ \A d \in Clients : t.readiness.part[d].role = s.readiness.part[d].role
  /\ \A d \in Clients : t.pending[d] = NoPending
  /\ \A d \in Clients : s.readiness.live /\ IsMember(s, d) =>
       /\ FreshRecord(t.readiness.part[d], s.nextGen + 1)
       /\ t.readiness.part[d].startEligible = FALSE

\* `start_playback_barrier` opens a generation.
LEMMA OpenGenerationEffect ==
  ASSUME NEW s \in Runtimes, NEW c \in Clients, NEW q \in Requests
  PROVE  Opens(s, OpenGeneration(s, c, q), c, q)
<1> DEFINE cohort == CaptureCohort(s)
           part == [d \in Clients |-> IF d \in cohort THEN "Pending" ELSE "Absent"]
           excluded == ClientsInRoom(s) \ (s.fenced \cup cohort)
           g == s.nextGen + 1
           lifecycle ==
             [phase |-> "Preparing", gen |-> g, req |-> q,
              initiator |-> c, initiatorSeq |-> s.seq[c],
              part |-> part, excluded |-> excluded, rev |-> 0, gated |-> FALSE]
           tombstones == s.tombstones \cup Displaced(s, q)
           u == [s EXCEPT !.nextGen = g, !.tombstones = tombstones,
                          !.paused = TRUE, !.barrier = lifecycle]
           t == ReplaceReadinessGeneration(u, g, TRUE)
<1>1. t = OpenGeneration(s, c, q)
  BY DEF OpenGeneration
<1>2. g \in Nat /\ s.seq[c] \in Nat
  BY Components
<1>3. \A d \in Clients : part[d] = IF d \in cohort THEN "Pending" ELSE "Absent"
  OBVIOUS
<1>4. part \in [Clients -> ParticipantPhases] /\ excluded \subseteq Clients
  BY DEF ParticipantPhases, ClientsInRoom
<1>5. tombstones \subseteq Nat
  <2>1. s.tombstones \subseteq Nat
    BY DEF Runtimes
  <2>2. CASE s.barrier.phase = "None"
    BY <2>1, <2>2 DEF Displaced
  <2>3. CASE s.barrier.phase # "None"
    BY <2>1, <2>3, LifecycleOf, RequestsAssumption DEF Displaced, Lifecycles
  <2> QED
    BY <2>2, <2>3
<1> HIDE DEF part, excluded, tombstones, g, cohort
<1>6. /\ lifecycle \in Lifecycles /\ lifecycle.phase = "Preparing" /\ lifecycle.gen = g
      /\ lifecycle.req = q /\ lifecycle.rev = 0 /\ lifecycle.initiator = c
      /\ lifecycle.excluded = excluded /\ lifecycle.part = part
  BY <1>2, <1>4 DEF Lifecycles, LifecyclePhases
<1> HIDE DEF lifecycle
<1>7. /\ u \in Runtimes /\ u.place = s.place /\ u.caps = s.caps /\ u.fenced = s.fenced
      /\ u.nextGen = g /\ u.nextRev = s.nextRev /\ u.tombstones = tombstones
      /\ u.barrier = lifecycle /\ u.readiness = s.readiness
  BY <1>2, <1>5, <1>6 DEF Runtimes, Barriers
<1> HIDE DEF u
<1>8. \A d \in Clients : IsMember(u, d) <=> IsMember(s, d)
  BY <1>7 DEF IsMember
<1>9. Renews(u, t, g)
  BY <1>2, <1>7, RenewEffect
<1> HIDE DEF t
<1> QED
  BY <1>1, <1>3, <1>6, <1>7, <1>8, <1>9 DEF g, tombstones, excluded, cohort, Opens, Renews

\* The cohort that it captures is the required one.
LEMMA CapturedCohort ==
  ASSUME NEW s \in Runtimes, Enrolled(s), RolesFollow(s), s.readiness.live
  PROVE  \A d \in Clients \ s.fenced :
           (d \in CaptureCohort(s)) <=> (s.readiness.part[d].role = "Required")
<1> SUFFICES ASSUME NEW d \in Clients \ s.fenced
             PROVE  (d \in CaptureCohort(s)) <=> (s.readiness.part[d].role = "Required")
  OBVIOUS
<1>1. (d \in CaptureCohort(s)) <=> (s.place[d] = "Room" /\ d \in StartCapable(s))
  BY DEF CaptureCohort, ClientsInRoom, StartCapable
<1>2. (s.readiness.part[d].role = "Required") => IsMember(s, d)
  BY DEF IsMember
<1>3. IsMember(s, d) <=> s.place[d] = "Room" /\ d \in V2(s)
  BY DEF Enrolled, InCohortRoom
<1>4. IsMember(s, d) => (s.readiness.part[d].role = "Required" <=> d \in StartCapable(s))
  BY DEF RolesFollow
<1> QED
  BY <1>1, <1>2, <1>3, <1>4 DEF StartCapable

\* Opening a generation establishes what a start in preparation promises.
LEMMA OpenGenerationCoheres ==
  ASSUME NEW s \in Runtimes, Enrolled(s), RolesFollow(s), NEW c \in Clients \ s.fenced,
         NEW q \in Requests
  PROVE  LET t == OpenGeneration(s, c, q) IN Enrolled(t) /\ Cohort(t) /\ Steady(t)
<1> DEFINE t == OpenGeneration(s, c, q)
           cohort == CaptureCohort(s)
<1>0. Opens(s, t, c, q)
  BY OpenGenerationEffect
<1> HIDE DEF t
<1>1. /\ t.place = s.place /\ t.caps = s.caps /\ t.fenced = s.fenced
      /\ t.nextGen = s.nextGen + 1
      /\ t.barrier.phase = "Preparing" /\ t.barrier.gen = s.nextGen + 1
      /\ t.barrier.rev = 0 /\ t.barrier.initiator = c
      /\ t.barrier.excluded = ClientsInRoom(s) \ (s.fenced \cup cohort)
      /\ \A d \in Clients :
           t.barrier.part[d] = IF d \in cohort THEN "Pending" ELSE "Absent"
      /\ t.readiness.live = s.readiness.live
      /\ s.readiness.live => t.readiness.gen = s.nextGen + 1
      /\ \A d \in Clients : t.readiness.part[d].role = s.readiness.part[d].role
      /\ \A d \in Clients : t.pending[d] = NoPending
      /\ \A d \in Clients : s.readiness.live /\ IsMember(s, d) =>
           FreshRecord(t.readiness.part[d], s.nextGen + 1)
  BY <1>0 DEF Opens, cohort
<1>2. s.readiness.live => \A d \in Clients \ s.fenced :
                            (d \in cohort) <=> (s.readiness.part[d].role = "Required")
  BY CapturedCohort
<1>3. cohort \cap s.fenced = {}
  BY DEF CaptureCohort
<1> HIDE DEF cohort
<1>4. V2(t) = V2(s) /\ StartCapable(t) = StartCapable(s)
  BY <1>1 DEF V2, StartCapable, BarrierV1
<1>5. Enrolled(t)
  BY <1>1, <1>4 DEF Enrolled, InCohortRoom, IsMember
<1>6. RolesFollow(t)
  BY <1>1, <1>4 DEF RolesFollow, IsMember
<1>7. ExclusionsHold(t)
  BY <1>1, <1>2 DEF ExclusionsHold, ClientsInRoom
<1>8. PartsHold(t)
  BY <1>1, <1>2, <1>3 DEF PartsHold
<1>9. Numbered(t)
  BY <1>1, Components DEF Numbered
<1>10. Linked(t) /\ OwnerUnfenced(t)
  BY <1>1 DEF Linked, OwnerUnfenced
<1>11. Staged(t)
  BY <1>1, NoPendingEvidence DEF Staged
<1>12. Fresh(t)
  BY <1>1, <1>5 DEF Fresh, IsMember, Enrolled
<1> QED
  BY <1>5, <1>6, <1>7, <1>8, <1>9, <1>10, <1>11, <1>12 DEF Cohort, Steady, t

-----------------------------------------------------------------------------
(* A lifecycle that advances, in the steps that open no generation.        *)

Forgotten(b) == b.phase = "None" /\ b.gen = 0 /\ b.rev = 0

\* The lifecycle goes on, or an emptied room forgets it.
Advance(s, t) ==
  /\ t.nextGen = s.nextGen
  /\ \/ Onward(s, t) /\ t.barrier.gen = s.barrier.gen
     \/ /\ Forgotten(t.barrier)
        /\ \/ t.nextRev = s.nextRev
           \/ s.barrier.phase = "Preparing" /\ t.nextRev = s.nextRev + 1

\* What satisfies the relation of the methods advances.
LEMMA TracksAdvances ==
  ASSUME NEW s, NEW t, Tracks(s, t)
  PROVE  Advance(s, t)
  BY DEF Tracks, SameStart, Advance

\* A method that leaves the lifecycle and the counters alone.
LEMMA StillAdvances ==
  ASSUME NEW s, NEW t, t.barrier = s.barrier, t.nextGen = s.nextGen, t.nextRev = s.nextRev
  PROVE  Advance(s, t)
  BY DEF Onward, Advance

\* Methods that run one after the other.
LEMMA AdvanceTransitive ==
  ASSUME NEW s \in Runtimes, NEW t, NEW u, Advance(s, t), Advance(t, u)
  PROVE  Advance(s, u)
<1>1. s.nextRev \in Nat
  BY Components
<1>2. t.nextGen = s.nextGen /\ u.nextGen = t.nextGen
  BY DEF Advance
<1>3. CASE Onward(s, t) /\ t.barrier.gen = s.barrier.gen
           /\ Onward(t, u) /\ u.barrier.gen = t.barrier.gen
  <2>1. Onward(s, u)
    BY <1>1, <1>3 DEF Onward
  <2> QED
    BY <1>2, <1>3, <2>1 DEF Advance
<1>4. CASE Onward(s, t) /\ Forgotten(u.barrier)
           /\ (\/ u.nextRev = t.nextRev
               \/ t.barrier.phase = "Preparing" /\ u.nextRev = t.nextRev + 1)
  <2>1. t.barrier.phase = "Preparing" => s.barrier.phase = "Preparing" /\ t.nextRev = s.nextRev
    BY <1>4 DEF Onward
  <2>2. \/ t.nextRev = s.nextRev
        \/ s.barrier.phase = "Preparing" /\ t.nextRev = s.nextRev + 1
    BY <1>4 DEF Onward
  <2> QED
    BY <1>2, <1>4, <2>1, <2>2 DEF Advance
<1>5. CASE Forgotten(t.barrier)
           /\ (\/ t.nextRev = s.nextRev
               \/ s.barrier.phase = "Preparing" /\ t.nextRev = s.nextRev + 1)
  <2>1. u.nextRev = t.nextRev /\ Forgotten(u.barrier)
    BY <1>5 DEF Advance, Onward, Forgotten
  <2> QED
    BY <1>2, <1>5, <2>1 DEF Advance
<1> QED
  BY <1>3, <1>4, <1>5 DEF Advance

-----------------------------------------------------------------------------
(* A newer connection takes the lifecycle over.                            *)

\* What `rebind_playback_barrier_owner_if_newer` writes when it takes effect.
Rebinds(s, t, c) ==
  LET old == s.barrier.initiator
  IN /\ t.place = s.place /\ t.caps = s.caps /\ t.readiness = s.readiness
     /\ t.pending = s.pending /\ t.paused = s.paused
     /\ t.nextGen = s.nextGen /\ t.nextRev = s.nextRev
     /\ t.barrier.phase = s.barrier.phase /\ t.barrier.gen = s.barrier.gen
     /\ t.barrier.rev = s.barrier.rev /\ t.barrier.excluded = s.barrier.excluded
     /\ t.barrier.initiator = c /\ t.barrier.part[c] # "Absent"
     /\ old # c => t.barrier.part[old] = "Absent"
     /\ \A d \in Clients \ {c, old} : t.barrier.part[d] = s.barrier.part[d]
     /\ s.fenced \subseteq t.fenced /\ t.fenced \subseteq s.fenced \cup ({old} \ {c})
     /\ old # c /\ s.place[old] = "Room" => old \in t.fenced

\* `rebind_playback_barrier_owner_if_newer`.
LEMMA RebindWrites ==
  ASSUME NEW s \in Runtimes, s.barrier.phase # "None", NEW c \in Clients
  PROVE  Rebind(s, c) = s \/ Rebinds(s, Rebind(s, c), c)
<1> DEFINE b == s.barrier
           old == b.initiator
           inherited == IF b.part[old] # "Absent" THEN b.part[old]
                        ELSE IF b.part[c] # "Absent" THEN b.part[c] ELSE "Pending"
           restored == IF inherited = "Disconnected" /\ b.phase = "Preparing" THEN "Pending"
                       ELSE IF inherited = "Disconnected" /\ b.phase = "Committed"
                       THEN "Ready" ELSE inherited
           part == [b.part EXCEPT ![old] = "Absent", ![c] = restored]
           superseded == IF old # c /\ s.place[old] \in {"Room", "Elsewhere"}
                         THEN {old} ELSE {}
           rebound == [b EXCEPT !.part = part, !.initiator = c, !.initiatorSeq = s.seq[c]]
           t == [s EXCEPT !.barrier = rebound, !.fenced = s.fenced \cup superseded]
<1>1. b \in Lifecycles /\ b.part \in [Clients -> ParticipantPhases] /\ old \in Clients
  BY LifecycleOf DEF Lifecycles
<1>2. restored # "Absent"
  OBVIOUS
<1> HIDE DEF restored
<1>3. /\ part[c] # "Absent" /\ (old # c => part[old] = "Absent")
      /\ \A d \in Clients \ {c, old} : part[d] = b.part[d]
  BY <1>1, <1>2
<1> HIDE DEF part
<1>4. /\ rebound.phase = b.phase /\ rebound.gen = b.gen /\ rebound.rev = b.rev
      /\ rebound.excluded = b.excluded /\ rebound.initiator = c /\ rebound.part = part
  BY <1>1 DEF Lifecycles
<1> HIDE DEF rebound
<1>5. /\ superseded \subseteq {old} \ {c}
      /\ old # c /\ s.place[old] = "Room" => old \in superseded
  OBVIOUS
<1> HIDE DEF superseded
<1>6. /\ t.place = s.place /\ t.caps = s.caps /\ t.readiness = s.readiness
      /\ t.pending = s.pending /\ t.paused = s.paused
      /\ t.nextGen = s.nextGen /\ t.nextRev = s.nextRev
      /\ t.barrier = rebound /\ t.fenced = s.fenced \cup superseded
  BY DEF Runtimes
<1>7. Rebind(s, c) \in {s, t}
  BY DEF Rebind, rebound, part, restored, superseded
<1> HIDE DEF t
<1>8. Rebinds(s, t, c)
  BY <1>3, <1>4, <1>5, <1>6 DEF Rebinds
<1> QED
  BY <1>7, <1>8

\* Taking over keeps the invariant.
LEMMA RebindCoheres ==
  ASSUME NEW s \in Runtimes, s.barrier.phase # "None", NEW c \in Clients \ s.fenced,
         Enrolled(s), Cohort(s), Steady(s)
  PROVE  LET t == Rebind(s, c) IN Enrolled(t) /\ Cohort(t) /\ Steady(t) /\ Advance(s, t)
<1> DEFINE t == Rebind(s, c)
           old == s.barrier.initiator
<1>1. CASE t = s
  BY <1>1, StillAdvances
<1>2. CASE Rebinds(s, t, c)
  <2> HIDE DEF t
  <2>1. /\ t.place = s.place /\ t.caps = s.caps /\ t.readiness = s.readiness
        /\ t.pending = s.pending /\ t.paused = s.paused
        /\ t.nextGen = s.nextGen /\ t.nextRev = s.nextRev
        /\ t.barrier.phase = s.barrier.phase /\ t.barrier.gen = s.barrier.gen
        /\ t.barrier.rev = s.barrier.rev /\ t.barrier.excluded = s.barrier.excluded
        /\ t.barrier.initiator = c /\ t.barrier.part[c] # "Absent"
        /\ old # c => t.barrier.part[old] = "Absent"
        /\ \A d \in Clients \ {c, old} : t.barrier.part[d] = s.barrier.part[d]
        /\ s.fenced \subseteq t.fenced /\ t.fenced \subseteq s.fenced \cup ({old} \ {c})
        /\ old # c /\ s.place[old] = "Room" => old \in t.fenced
    BY <1>2 DEF Rebinds
  <2>2. V2(t) = V2(s) /\ StartCapable(t) = StartCapable(s)
    BY <2>1 DEF V2, StartCapable, BarrierV1
  <2>3. Enrolled(t)
    BY <2>1, <2>2 DEF Enrolled, InCohortRoom, IsMember
  <2>4. RolesFollow(t)
    BY <2>1, <2>2 DEF RolesFollow, IsMember, Cohort
  <2>5. ExclusionsHold(t)
    BY <2>1 DEF ExclusionsHold, Cohort
  <2>6. PartsHold(t)
    <3> SUFFICES ASSUME t.readiness.live, t.barrier.phase = "Preparing", NEW d \in Clients
                 PROVE  LET required == t.readiness.part[d].role = "Required" /\ d \notin t.fenced
                        IN /\ required => t.barrier.part[d] # "Absent"
                           /\ t.barrier.part[d] # "Absent" /\ d # t.barrier.initiator => required
      BY DEF PartsHold
    <3>1. LET required == s.readiness.part[d].role = "Required" /\ d \notin s.fenced
          IN /\ required => s.barrier.part[d] # "Absent"
             /\ s.barrier.part[d] # "Absent" /\ d # old => required
      BY <2>1 DEF Cohort, PartsHold
    <3>2. CASE d = c
      BY <2>1, <3>2
    <3>3. CASE d = old /\ d # c
      <4>1. s.readiness.part[d].role = "Required" => s.place[d] = "Room"
        BY DEF Enrolled, InCohortRoom, IsMember
      <4> QED
        BY <2>1, <3>3, <4>1
    <3>4. CASE d \notin {c, old}
      BY <2>1, <3>1, <3>4
    <3> QED
      BY <3>2, <3>3, <3>4
  <2>7. Numbered(t) /\ Linked(t)
    BY <2>1 DEF Steady, Numbered, Linked, Active
  <2>10. Staged(t)
    BY <2>1 DEF Steady, Staged, IsMember
  <2>11. Fresh(t)
    BY <2>1 DEF Steady, Fresh, IsMember
  <2>8. OwnerUnfenced(t)
    BY <2>1 DEF OwnerUnfenced
  <2>9. Advance(s, t)
    BY <2>1 DEF Advance, Onward
  <2> QED
    BY <2>3, <2>4, <2>5, <2>6, <2>7, <2>8, <2>9, <2>10, <2>11 DEF Cohort, Steady, t
<1> QED
  BY <1>1, <1>2, RebindWrites

\* Remembering a nonce changes nothing that the invariant mentions.
LEMMA NonceFollows ==
  ASSUME NEW s \in Runtimes, NEW c \in Clients, NEW n
  PROVE  Follows(s, [s EXCEPT !.nonce[c] = n])
<1> DEFINE t == [s EXCEPT !.nonce[c] = n]
<1>1. /\ t.place = s.place /\ t.caps = s.caps /\ t.fenced = s.fenced /\ t.barrier = s.barrier
      /\ t.nextGen = s.nextGen /\ t.nextRev = s.nextRev /\ t.readiness = s.readiness
      /\ t.pending = s.pending /\ t.paused = s.paused
  BY DEF Runtimes
<1> HIDE DEF t
<1>2. Retires(s, t)
  BY <1>1 DEF Retires
<1>3. Follows(s, t)
  BY <1>1, <1>2, CoordinatorFollows
<1> QED
  BY <1>3 DEF t

\* `start_playback_barrier`: it opens a generation for a fresh operation, or advances.
LEMMA StartPlaybackBarrierCoheres ==
  ASSUME NEW s \in Runtimes, NEW c \in Clients \ s.fenced, NEW q \in Requests,
         Enrolled(s), Cohort(s), Steady(s)
  PROVE  LET t == StartPlaybackBarrier(s, c, q)
         IN /\ Enrolled(t) /\ Cohort(t) /\ Steady(t)
            /\ \/ Advance(s, t)
               \/ /\ \E n \in Nat : Opens([s EXCEPT !.nonce[c] = n], t, c, q)
                  /\ MayReplace(s, c, q) /\ q.id \notin s.tombstones
                  /\ ~(s.barrier.phase # "None" /\ q.id # 0 /\ s.barrier.req.id = q.id)
<1> DEFINE t == StartPlaybackBarrier(s, c, q)
           repeated == [s EXCEPT !.nonce[c] = Larger(s.nonce[c], q.nonce)]
           consumed == [s EXCEPT !.nonce[c] = q.nonce]
           rebound == Rebind(repeated, c)
           opened == OpenGeneration(consumed, c, q)
           named == s.barrier.phase # "None" /\ q.id # 0 /\ s.barrier.req.id = q.id
<1>1. q.nonce \in Nat /\ Larger(s.nonce[c], q.nonce) \in Nat
  BY RequestsAssumption, Components DEF Larger
<1>2. /\ consumed \in Runtimes /\ Follows(s, consumed) /\ consumed.fenced = s.fenced
      /\ repeated \in Runtimes /\ Follows(s, repeated) /\ repeated.fenced = s.fenced
      /\ repeated.barrier = s.barrier
      /\ repeated.nextGen = s.nextGen /\ repeated.nextRev = s.nextRev
  BY <1>1, NonceUpdate, NonceFollows DEF Runtimes
<1>3. \/ t \in {s, consumed}
      \/ t = rebound /\ s.barrier.phase # "None"
      \/ t = opened /\ MayReplace(s, c, q) /\ q.id \notin s.tombstones /\ ~named
  BY DEF StartPlaybackBarrier, SameOperation
<1> HIDE DEF t, named
<1>4. CASE t \in {s, consumed}
  <2>1. Follows(s, t)
    BY <1>2, <1>4, FollowsReflexive
  <2> QED
    BY <2>1, FollowsKeeps, TracksAdvances DEF Follows, t
<1>5. CASE t = rebound /\ s.barrier.phase # "None"
  <2> HIDE DEF repeated
  <2>1. Enrolled(repeated) /\ Cohort(repeated) /\ Steady(repeated) /\ Advance(s, repeated)
    BY <1>2, FollowsKeeps, TracksAdvances DEF Follows
  <2>2. Enrolled(rebound) /\ Cohort(rebound) /\ Steady(rebound) /\ Advance(repeated, rebound)
    BY <1>2, <1>5, <2>1, RebindCoheres
  <2> HIDE DEF rebound
  <2>3. Advance(s, rebound)
    BY <1>2, <2>1, <2>2, AdvanceTransitive
  <2> QED
    BY <1>5, <2>2, <2>3 DEF t
<1>6. CASE t = opened /\ MayReplace(s, c, q) /\ q.id \notin s.tombstones /\ ~named
  <2>1. Opens(consumed, opened, c, q)
    BY <1>2, OpenGenerationEffect
  <2>2. \E n \in Nat : Opens([s EXCEPT !.nonce[c] = n], opened, c, q)
    BY <1>1, <2>1
  <2> HIDE DEF consumed
  <2>3. Enrolled(consumed) /\ RolesFollow(consumed)
    BY <1>2, FollowsKeeps DEF Cohort
  <2>4. Enrolled(opened) /\ Cohort(opened) /\ Steady(opened)
    BY <1>2, <2>3, OpenGenerationCoheres
  <2> QED
    BY <1>6, <2>2, <2>4 DEF t, named
<1> QED
  BY <1>3, <1>4, <1>5, <1>6

\* `handle_playback_barrier_recovery`.
LEMMA RecoverPlaybackBarrierCoheres ==
  ASSUME NEW s \in Runtimes, NEW c \in Clients \ s.fenced, NEW q \in Requests,
         Enrolled(s), Cohort(s), Steady(s)
  PROVE  LET t == RecoverPlaybackBarrier(s, c, q)
         IN Enrolled(t) /\ Cohort(t) /\ Steady(t) /\ Advance(s, t)
  BY RebindCoheres, StillAdvances DEF RecoverPlaybackBarrier, SameOperation

-----------------------------------------------------------------------------
(* The mixed-room cohort.                                                  *)

\* What reassigning the roles keeps.
Regroups(s, t) ==
  /\ t.place = s.place /\ t.caps = s.caps /\ t.fenced = s.fenced
  /\ t.readiness.live = s.readiness.live /\ t.readiness.gen = s.readiness.gen
  /\ \A c \in Clients : IsMember(t, c) <=> IsMember(s, c)
  /\ t.barrier.gen = s.barrier.gen /\ t.barrier.initiator = s.barrier.initiator
  /\ t.nextGen = s.nextGen
  /\ Onward(s, t) /\ Retires(s, t) /\ (Fresh(s) => Fresh(t))

\* A method that keeps the roles keeps the members.
LEMMA FollowsRegroups ==
  ASSUME NEW s, NEW t, Follows(s, t)
  PROVE  Regroups(s, t)
<1>1. SameRoom(s, t) /\ SameStart(s, t) /\ Onward(s, t) /\ Retires(s, t)
      /\ (Fresh(s) => Fresh(t))
  BY DEF Follows, Tracks
<1>2. \A c \in Clients : IsMember(t, c) <=> IsMember(s, c)
  BY <1>1 DEF SameRoom, IsMember
<1> QED
  BY <1>1, <1>2 DEF Regroups, SameRoom, SameStart

\* Methods that run one after the other.
LEMMA RegroupsTransitive ==
  ASSUME NEW s \in Runtimes, NEW t, NEW u, Regroups(s, t), Regroups(t, u)
  PROVE  Regroups(s, u)
<1>1. Onward(s, u)
  <2>1. s.nextRev \in Nat
    BY Components
  <2> QED
    BY <2>1 DEF Regroups, Onward
<1>2. Retires(s, u)
  BY DEF Regroups, Retires
<1>3. Fresh(s) => Fresh(u)
  BY DEF Regroups
<1>4. \A c \in Clients : IsMember(u, c) <=> IsMember(s, c)
  BY DEF Regroups
<1>5. /\ u.place = s.place /\ u.caps = s.caps /\ u.fenced = s.fenced
      /\ u.readiness.live = s.readiness.live /\ u.readiness.gen = s.readiness.gen
      /\ u.barrier.gen = s.barrier.gen /\ u.barrier.initiator = s.barrier.initiator
      /\ u.nextGen = s.nextGen
  BY DEF Regroups
<1> QED
  BY <1>1, <1>2, <1>3, <1>4, <1>5 DEF Regroups

\* It keeps the membership and everything that is steady, and advances.
LEMMA RegroupsKeeps ==
  ASSUME NEW s \in Runtimes, NEW t, Regroups(s, t)
  PROVE  /\ Enrolled(s) => Enrolled(t)
         /\ Steady(s) => Steady(t)
         /\ Advance(s, t)
<1>1. /\ t.place = s.place /\ t.caps = s.caps /\ t.fenced = s.fenced
      /\ t.readiness.live = s.readiness.live /\ t.readiness.gen = s.readiness.gen
      /\ t.barrier.gen = s.barrier.gen /\ t.barrier.initiator = s.barrier.initiator
      /\ t.nextGen = s.nextGen
  BY DEF Regroups
<1>2. \A c \in Clients : IsMember(t, c) <=> IsMember(s, c)
  BY DEF Regroups
<1>3. Onward(s, t) /\ Retires(s, t)
  BY DEF Regroups
<1>4. /\ t.barrier.phase = "Preparing" => s.barrier.phase = "Preparing"
      /\ Active(t.barrier) => Active(s.barrier)
  BY <1>3 DEF Onward, Active
<1>5. V2(t) = V2(s)
  BY <1>1 DEF V2
<1>6. Enrolled(s) => Enrolled(t)
  BY <1>1, <1>2, <1>5 DEF Enrolled, InCohortRoom
<1>7. Linked(s) => Linked(t)
  BY <1>1, <1>4 DEF Linked
<1>8. OwnerUnfenced(s) => OwnerUnfenced(t)
  BY <1>1, <1>4 DEF OwnerUnfenced
<1>9. Staged(s) => Staged(t)
  BY <1>2, <1>3, <1>4 DEF Staged, Retires
<1>10. Numbered(s) => Numbered(t)
  BY <1>1, <1>3, Components DEF Numbered, Onward
<1>11. Fresh(s) => Fresh(t)
  BY DEF Regroups
<1>12. Advance(s, t)
  BY <1>1, <1>3 DEF Advance
<1> QED
  BY <1>6, <1>7, <1>8, <1>9, <1>10, <1>11, <1>12 DEF Steady

\* The role that a session's capabilities and fence give it.
RoleOf(s, c) ==
  IF c \in (ClientsInRoom(s) \cap StartCapable(s)) \ s.fenced
  THEN "Required" ELSE "ExcludedUnsupported"

\* What `reconcile_mixed_readiness_cohort_state` writes in a room with a coordinator.
Reconciled(s, t) ==
  /\ t.place = s.place /\ t.caps = s.caps /\ t.fenced = s.fenced
  /\ t.pending = s.pending /\ t.paused = s.paused
  /\ t.nextGen = s.nextGen /\ t.nextRev = s.nextRev
  /\ t.readiness.live = s.readiness.live /\ t.readiness.gen = s.readiness.gen
  /\ \A c \in Clients :
       IF ~IsMember(s, c) THEN t.readiness.part[c] = s.readiness.part[c]
       ELSE /\ t.readiness.part[c].role = RoleOf(s, c)
            /\ \/ t.readiness.part[c] = s.readiness.part[c]
               \/ t.readiness.part[c] =
                    Recompute([s.readiness.part[c] EXCEPT !.role = RoleOf(s, c)],
                              s.readiness.gen)
  /\ t.barrier.phase = s.barrier.phase /\ t.barrier.gen = s.barrier.gen
  /\ t.barrier.rev = s.barrier.rev /\ t.barrier.initiator = s.barrier.initiator
  /\ s.barrier.phase = "Preparing" =>
       \A c \in Clients :
         /\ (t.barrier.part[c] = "Absent") <=> (t.readiness.part[c].role # "Required")
         /\ (c \in t.barrier.excluded) <=> /\ s.place[c] = "Room" /\ c \notin s.fenced
                                           /\ t.readiness.part[c].role # "Required"

\* `reconcile_mixed_readiness_cohort_state`.
LEMMA ReconcileWrites ==
  ASSUME NEW s \in Runtimes, s.readiness.live
  PROVE  Reconciled(s, ReconcileCohort(s))
<1> DEFINE record(c) == s.readiness.part[c]
           part == [c \in Clients |->
                      IF record(c).role \in {"Absent", RoleOf(s, c)}
                      THEN record(c)
                      ELSE Recompute([record(c) EXCEPT !.role = RoleOf(s, c)],
                                     s.readiness.gen)]
           required == {c \in Clients : part[c].role = "Required"}
           phases == [c \in Clients |->
                        IF c \notin required THEN "Absent"
                        ELSE IF s.barrier.part[c] = "Absent" THEN "Pending"
                        ELSE s.barrier.part[c]]
           excluded == ClientsInRoom(s) \ (required \cup s.fenced)
           barrier == IF s.barrier.phase # "Preparing" THEN s.barrier
                      ELSE [s.barrier EXCEPT !.part = phases, !.excluded = excluded]
           t == [s EXCEPT !.readiness.part = part, !.barrier = barrier]
<1>1. t = ReconcileCohort(s)
  BY DEF ReconcileCohort, RoleOf
<1>2. \A c \in Clients :
        IF ~IsMember(s, c) THEN part[c] = record(c)
        ELSE /\ part[c].role = RoleOf(s, c)
             /\ \/ part[c] = record(c)
                \/ part[c] = Recompute([record(c) EXCEPT !.role = RoleOf(s, c)],
                                       s.readiness.gen)
  <2> TAKE c \in Clients
  <2> DEFINE r == Recompute([record(c) EXCEPT !.role = RoleOf(s, c)], s.readiness.gen)
  <2>1. r.role = RoleOf(s, c)
    <3>1. /\ [record(c) EXCEPT !.role = RoleOf(s, c)].role = RoleOf(s, c)
          /\ "role" \in DOMAIN [record(c) EXCEPT !.role = RoleOf(s, c)]
      BY RecordOf DEF Records
    <3> QED
      BY <3>1 DEF Recompute
  <2>2. part[c] = IF record(c).role \in {"Absent", RoleOf(s, c)} THEN record(c) ELSE r
    OBVIOUS
  <2> HIDE DEF part, r
  <2> QED
    BY <2>1, <2>2 DEF IsMember, r
<1> HIDE DEF part
<1>3. \A c \in Clients : (phases[c] = "Absent") <=> (part[c].role # "Required")
  OBVIOUS
<1>4. \A c \in Clients : (c \in excluded) <=> /\ s.place[c] = "Room" /\ c \notin s.fenced
                                             /\ part[c].role # "Required"
  BY DEF ClientsInRoom
<1> HIDE DEF phases, excluded
<1>5. /\ barrier.phase = s.barrier.phase /\ barrier.gen = s.barrier.gen
      /\ barrier.rev = s.barrier.rev /\ barrier.initiator = s.barrier.initiator
      /\ s.barrier.phase = "Preparing" => barrier.part = phases /\ barrier.excluded = excluded
  BY Components DEF Barriers, Lifecycles, NoBarrier
<1> HIDE DEF barrier
<1>6. /\ t.place = s.place /\ t.caps = s.caps /\ t.fenced = s.fenced
      /\ t.pending = s.pending /\ t.paused = s.paused
      /\ t.nextGen = s.nextGen /\ t.nextRev = s.nextRev
      /\ t.readiness.live = s.readiness.live /\ t.readiness.gen = s.readiness.gen
      /\ t.readiness.part = part /\ t.barrier = barrier
  BY DEF Runtimes, Readinesses
<1> HIDE DEF t
<1>7. Reconciled(s, t)
  BY <1>2, <1>3, <1>4, <1>5, <1>6 DEF Reconciled
<1> QED
  BY <1>1, <1>7

\* A record whose role is reassigned carries the verdicts of the new role.
LEMMA ReassignedIsFresh ==
  ASSUME NEW record \in Records, NEW g \in Nat, NEW role \in Roles, FreshRecord(record, g)
  PROVE  FreshRecord(Recompute([record EXCEPT !.role = role], g), g)
<1> DEFINE r == [record EXCEPT !.role = role]
<1>1. r \in Records /\ r.tech = record.tech
  BY DEF Records
<1> HIDE DEF r
<1>2. FreshRecord(Recompute(r, g), g)
  BY <1>1, RecomputedIsFresh DEF FreshRecord
<1> QED
  BY <1>2 DEF r

\* Reassigning the roles makes the start follow the sessions.
LEMMA ReconcileCoheres ==
  ASSUME NEW s \in Runtimes, Present(s), \A c \in Clients : IsMember(s, c) => s.readiness.live
  PROVE  LET t == ReconcileCohort(s) IN Regroups(s, t) /\ Cohort(t)
<1> DEFINE t == ReconcileCohort(s)
<1>1. CASE ~s.readiness.live
  <2>1. t = s
    BY <1>1 DEF ReconcileCohort
  <2>2. Cohort(s)
    BY <1>1 DEF Cohort, RolesFollow, ExclusionsHold, PartsHold
  <2> QED
    BY <2>1, <2>2, FollowsReflexive, FollowsRegroups
<1>2. CASE s.readiness.live
  <2>1. Reconciled(s, t)
    BY <1>2, ReconcileWrites
  <2> HIDE DEF t
  <2>2. /\ t.place = s.place /\ t.caps = s.caps /\ t.fenced = s.fenced
        /\ t.pending = s.pending /\ t.paused = s.paused
        /\ t.nextGen = s.nextGen /\ t.nextRev = s.nextRev
        /\ t.readiness.live = s.readiness.live /\ t.readiness.gen = s.readiness.gen
        /\ t.barrier.phase = s.barrier.phase /\ t.barrier.gen = s.barrier.gen
        /\ t.barrier.rev = s.barrier.rev /\ t.barrier.initiator = s.barrier.initiator
    BY <2>1 DEF Reconciled
  <2>3. \A c \in Clients :
          IF ~IsMember(s, c) THEN t.readiness.part[c] = s.readiness.part[c]
          ELSE /\ t.readiness.part[c].role = RoleOf(s, c)
               /\ \/ t.readiness.part[c] = s.readiness.part[c]
                  \/ t.readiness.part[c] =
                       Recompute([s.readiness.part[c] EXCEPT !.role = RoleOf(s, c)],
                                 s.readiness.gen)
    BY <2>1 DEF Reconciled
  <2>4. \A c \in Clients : RoleOf(s, c) \in Roles \ {"Absent"}
    BY DEF RoleOf, Roles
  <2>5. \A c \in Clients : IsMember(t, c) <=> IsMember(s, c)
    BY <2>3, <2>4 DEF IsMember
  <2>6. \A c \in Clients :
          (t.readiness.part[c].role = "Required") <=>
            IsMember(s, c) /\ c \in (ClientsInRoom(s) \cap StartCapable(s)) \ s.fenced
    BY <2>3 DEF IsMember, RoleOf
  <2>7. StartCapable(t) = StartCapable(s)
    BY <2>2 DEF V2, StartCapable, BarrierV1
  <2>8. RolesFollow(t)
    BY <2>2, <2>5, <2>6, <2>7 DEF RolesFollow, Present, ClientsInRoom
  <2>9. t.barrier.phase = "Preparing" =>
          \A c \in Clients :
            /\ (t.barrier.part[c] = "Absent") <=> (t.readiness.part[c].role # "Required")
            /\ (c \in t.barrier.excluded) <=> /\ s.place[c] = "Room" /\ c \notin s.fenced
                                              /\ t.readiness.part[c].role # "Required"
    BY <2>1 DEF Reconciled
  <2>10. ExclusionsHold(t)
    BY <2>2, <2>9 DEF ExclusionsHold
  <2>11. PartsHold(t)
    BY <2>2, <2>6, <2>9 DEF PartsHold
  <2>12. Onward(s, t) /\ Retires(s, t)
    BY <2>2 DEF Onward, Retires
  <2>13. Fresh(s) => Fresh(t)
    <3> SUFFICES ASSUME Fresh(s), NEW c \in Clients, IsMember(t, c)
                 PROVE  FreshRecord(t.readiness.part[c], t.readiness.gen)
      BY DEF Fresh
    <3>1. FreshRecord(s.readiness.part[c], s.readiness.gen)
      BY <2>5 DEF Fresh
    <3>2. s.readiness.part[c] \in Records /\ s.readiness.gen \in Nat
      BY RecordOf
    <3>3. FreshRecord(Recompute([s.readiness.part[c] EXCEPT !.role = RoleOf(s, c)],
                                s.readiness.gen), s.readiness.gen)
      BY <2>4, <3>1, <3>2, ReassignedIsFresh
    <3> QED
      BY <2>2, <2>3, <2>5, <3>1, <3>3
  <2>14. Regroups(s, t)
    BY <2>2, <2>5, <2>12, <2>13 DEF Regroups
  <2> QED
    BY <2>8, <2>10, <2>11, <2>14 DEF Cohort, t
<1> QED
  BY <1>1, <1>2

\* `refresh_mixed_readiness_cohort`.
LEMMA RefreshCoheres ==
  ASSUME NEW s \in Runtimes, Present(s), \A c \in Clients : IsMember(s, c) => s.readiness.live
  PROVE  LET t == RefreshMixedCohort(s) IN Regroups(s, t) /\ Cohort(t)
<1> DEFINE u == ReconcileCohort(s)
           v == MaybeCommit(RefreshGate(u))
<1>1. u \in Runtimes /\ Regroups(s, u) /\ Cohort(u)
  BY ReconcileCohortType, ReconcileCoheres
<1>2. RefreshMixedCohort(s) = IF u = s THEN s ELSE v
  BY DEF RefreshMixedCohort
<1> HIDE DEF u
<1>3. Follows(u, v)
  BY <1>1, MaybeCommitFollows
<1> HIDE DEF v
<1>4. Regroups(s, v) /\ Cohort(v)
  BY <1>1, <1>3, FollowsRegroups, RegroupsTransitive, FollowsKeeps
<1> QED
  BY <1>1, <1>2, <1>4

-----------------------------------------------------------------------------
(* Members come and go.                                                    *)

\* Every session but `c` is a member exactly as a V2 session of the room.
MembersBut(s, c) == \A d \in Clients \ {c} : IsMember(s, d) <=> InCohortRoom(s, d)

MembersLive(s) == \A d \in Clients : IsMember(s, d) => s.readiness.live

\* The record of a joining member is fresh.
LEMMA JoiningRecordFresh ==
  ASSUME NEW s \in Runtimes, NEW c \in Clients, NEW kept \in Detacheds,
         NEW seedReady \in BOOLEAN
  PROVE  FreshRecord(JoiningRecord(s, c, kept, seedReady), CurrentGeneration(s))
<1> DEFINE g == CurrentGeneration(s)
           role == IF c \in BarrierV1(s) THEN "Required" ELSE "ExcludedUnsupported"
           intentReady == IF kept.kept THEN kept.intentReady ELSE seedReady
           touched == kept.kept /\ kept.touched
           initializationOpen == ~kept.kept
           tech == FreshTechnical(g)
           r == [role |-> role, intentReady |-> intentReady, touched |-> touched,
                 initializationOpen |-> initializationOpen, tech |-> tech, blocked |-> FALSE,
                 automatic |-> "None", roomReady |-> FALSE, startEligible |-> FALSE]
<1>1. g \in Nat /\ tech \in Technicals
  BY CurrentGenerationType, FreshTechnicalType
<1>2. role \in Roles /\ tech.gen = g
  BY DEF Roles, FreshTechnical
<1>3. kept.intentReady \in BOOLEAN /\ kept.touched \in BOOLEAN /\ kept.kept \in BOOLEAN
  BY DEF Detacheds
<1>4. intentReady \in BOOLEAN /\ touched \in BOOLEAN /\ initializationOpen \in BOOLEAN
  BY <1>3
<1> HIDE DEF role, intentReady, touched, initializationOpen, tech, g
<1>5. r \in Records /\ r.tech = tech
  BY <1>1, <1>2, <1>4 DEF Records
<1> HIDE DEF r
<1>6. FreshRecord(Recompute(r, g), g)
  BY <1>1, <1>2, <1>5, RecomputedIsFresh
<1> QED
  BY <1>6 DEF JoiningRecord, r, role, intentReady, touched, initializationOpen, tech, g

\* A joining member is told the generation that the others prepare for.
LEMMA CurrentGenerationLinks ==
  ASSUME NEW s \in Runtimes, Linked(s), Numbered(s)
  PROVE  /\ s.readiness.live => CurrentGeneration(s) = s.readiness.gen
         /\ Active(s.barrier) => CurrentGeneration(s) = s.barrier.gen
<1>1. Active(s.barrier) => s.barrier.gen # 0
  BY DEF Active, Numbered
<1> QED
  BY <1>1 DEF CurrentGeneration, Linked

\* `attach_readiness_membership`.
LEMMA AttachCoheres ==
  ASSUME NEW s \in Runtimes, Present(s), NEW c \in Clients, InCohortRoom(s, c),
         MembersBut(s, c), MembersLive(s), Steady(s),
         NEW token \in Clients \cup {NoClient}, NEW seedReady \in BOOLEAN
  PROVE  LET t == Attach(s, c, token, seedReady)
         IN Enrolled(t) /\ Cohort(t) /\ Steady(t) /\ Advance(s, t)
<1> DEFINE kept == IF token = NoClient THEN NoDetached ELSE s.detached[token]
           detached == IF kept.kept THEN [s.detached EXCEPT ![token] = NoDetached]
                       ELSE s.detached
           owner == IF kept.kept /\ s.readiness.owner = UserOwner(token)
                    THEN UserOwner(c) ELSE s.readiness.owner
           record == JoiningRecord(s, c, kept, seedReady)
           g == CurrentGeneration(s)
           readiness == [s.readiness EXCEPT !.live = TRUE, !.gen = g, !.owner = owner,
                                            !.part[c] = record]
           joined == [s EXCEPT !.pending[c] = NoPending, !.detached = detached,
                               !.readiness = readiness]
           cohort == ReconcileCohort(joined)
           claimed == SetPauseOwner(cohort, GateOwner(s.barrier.gen))
<1>1. kept \in Detacheds /\ detached \in [Clients -> Detacheds]
  BY Components, SimpleTypes
<1>2. owner \in Owners
  BY Components, ReadinessComponents, OwnerTypes
<1> HIDE DEF kept
<1>3. /\ record \in Records /\ g \in Nat /\ record.role # "Absent" /\ FreshRecord(record, g)
      /\ s.readiness.live => g = s.readiness.gen
      /\ Active(s.barrier) => g = s.barrier.gen
  BY <1>1, JoiningRecordType, JoiningRecordRole, JoiningRecordFresh, CurrentGenerationType,
     CurrentGenerationLinks DEF Steady
<1> HIDE DEF detached, owner, record, g
<1>4. /\ readiness \in Readinesses /\ readiness.live = TRUE /\ readiness.gen = g
      /\ \A d \in Clients : readiness.part[d] = IF d = c THEN record ELSE s.readiness.part[d]
  BY <1>2, <1>3, Components DEF Readinesses
<1> HIDE DEF readiness
<1>5. /\ joined \in Runtimes /\ joined.readiness = readiness /\ joined.barrier = s.barrier
      /\ joined.paused = s.paused /\ joined.place = s.place /\ joined.caps = s.caps
      /\ joined.fenced = s.fenced /\ joined.nextGen = s.nextGen /\ joined.nextRev = s.nextRev
      /\ \A d \in Clients : joined.pending[d] = IF d = c THEN NoPending ELSE s.pending[d]
  BY <1>1, <1>4, SimpleTypes DEF Runtimes
<1> HIDE DEF joined
<1>6. IsMember(joined, c) /\ \A d \in Clients \ {c} : IsMember(joined, d) <=> IsMember(s, d)
  BY <1>3, <1>4, <1>5 DEF IsMember
<1>7. \A d \in Clients : InCohortRoom(joined, d) <=> InCohortRoom(s, d)
  BY <1>5 DEF InCohortRoom, V2
<1>8. Enrolled(joined)
  BY <1>4, <1>5, <1>6, <1>7 DEF Enrolled, MembersBut
<1>9. Present(joined)
  BY <1>5, <1>6 DEF Present, InCohortRoom
<1>10. Numbered(joined) /\ Linked(joined) /\ OwnerUnfenced(joined)
  BY <1>3, <1>4, <1>5 DEF Steady, Numbered, Linked, OwnerUnfenced
<1>11. Staged(joined)
  BY <1>5, <1>6, NoPendingEvidence DEF Steady, Staged
<1>12. Fresh(joined)
  <2> SUFFICES ASSUME NEW d \in Clients, IsMember(joined, d)
               PROVE  FreshRecord(joined.readiness.part[d], joined.readiness.gen)
    BY DEF Fresh
  <2>1. CASE d = c
    BY <1>3, <1>4, <1>5, <2>1
  <2>2. CASE d # c
    BY <1>3, <1>4, <1>5, <1>6, <2>2 DEF Steady, Fresh, MembersLive
  <2> QED
    BY <2>1, <2>2
<1>13. Steady(joined)
  BY <1>10, <1>11, <1>12 DEF Steady
<1>14. cohort \in Runtimes /\ Regroups(joined, cohort) /\ Cohort(cohort)
  BY <1>5, <1>8, <1>9, ReconcileCohortType, ReconcileCoheres DEF Enrolled
<1> HIDE DEF cohort
<1>15. GateOwner(s.barrier.gen) \in Owners
  BY Components, BarrierComponents, OwnerTypes
<1>16. claimed \in Runtimes /\ Follows(cohort, claimed)
  BY <1>14, <1>15, SetPauseOwnerType, SetPauseOwnerFollows
<1> HIDE DEF claimed
<1>17. ASSUME NEW u \in {cohort, claimed}
       PROVE  LET t == MaybeCommit(RefreshGate(u)) IN Regroups(joined, t) /\ Cohort(t)
  <2>1. u \in Runtimes /\ Follows(cohort, u)
    BY <1>14, <1>16, FollowsReflexive
  <2> DEFINE t == MaybeCommit(RefreshGate(u))
  <2>2. Follows(u, t)
    BY <2>1, MaybeCommitFollows
  <2> HIDE DEF t
  <2>3. Follows(cohort, t)
    BY <1>14, <2>1, <2>2, FollowsTransitive
  <2> QED
    BY <1>5, <1>14, <2>3, FollowsRegroups, RegroupsTransitive, FollowsKeeps DEF t
<1>18. Advance(s, joined)
  BY <1>5, StillAdvances
<1> DEFINE t == Attach(s, c, token, seedReady)
<1>19. \E u \in {cohort, claimed} : t = MaybeCommit(RefreshGate(u))
  BY DEF Attach, claimed, cohort, joined, readiness, g, record, owner, detached, kept
<1> HIDE DEF t
<1>20. Regroups(joined, t) /\ Cohort(t)
  BY <1>17, <1>19
<1>21. Enrolled(t) /\ Steady(t) /\ Advance(joined, t)
  BY <1>5, <1>8, <1>13, <1>20, RegroupsKeeps
<1>22. Advance(s, t)
  BY <1>18, <1>21, AdvanceTransitive
<1> QED
  BY <1>20, <1>21, <1>22 DEF t

\* What is left of the invariant while session `c` is on its way in or out.
Transit(s, c) == MembersBut(s, c) /\ MembersLive(s) /\ Steady(s)

\* A room whose membership is complete, and one that misses nobody.
LEMMA TransitEnds ==
  ASSUME NEW s, NEW c \in Clients
  PROVE  /\ Enrolled(s) /\ Steady(s) => Transit(s, c)
         /\ Transit(s, c) /\ ~IsMember(s, c) /\ ~InCohortRoom(s, c) => Enrolled(s) /\ Steady(s)
  BY DEF Transit, Enrolled, MembersBut, MembersLive

\* What keeps the sessions and the members keeps this.
LEMMA RegroupsTransit ==
  ASSUME NEW s \in Runtimes, NEW t, NEW c \in Clients, Regroups(s, t), Transit(s, c)
  PROVE  Transit(t, c)
<1>1. Steady(t)
  BY RegroupsKeeps DEF Transit
<1>2. /\ t.place = s.place /\ t.caps = s.caps /\ t.readiness.live = s.readiness.live
      /\ \A d \in Clients : IsMember(t, d) <=> IsMember(s, d)
  BY DEF Regroups
<1>3. V2(t) = V2(s)
  BY <1>2 DEF V2
<1> QED
  BY <1>1, <1>2, <1>3 DEF Transit, MembersBut, MembersLive, InCohortRoom

\* The others are evaluated before the last departure dissolves the coordinator.
LEMMA DissolveKeeps ==
  ASSUME NEW s \in Runtimes, \A d \in Clients : ~IsMember(s, d), Steady(s)
  PROVE  LET t == [ClearGate(s) EXCEPT !.readiness = NoReadiness]
         IN /\ t.place = s.place /\ t.caps = s.caps /\ t.fenced = s.fenced
            /\ \A d \in Clients : ~IsMember(t, d)
            /\ Steady(t) /\ Advance(s, t)
<1> DEFINE u == ClearGate(s)
           t == [u EXCEPT !.readiness = NoReadiness]
<1>1. u \in Runtimes /\ Follows(s, u)
  BY ClearGateType, GateFollows
<1> HIDE DEF u
<1>2. /\ u.place = s.place /\ u.caps = s.caps /\ u.fenced = s.fenced
      /\ Steady(u) /\ Advance(s, u) /\ \A d \in Clients : ~IsMember(u, d)
  BY <1>1, FollowsKeeps, TracksAdvances DEF Follows, Tracks, SameRoom, IsMember
<1>3. /\ t.place = u.place /\ t.caps = u.caps /\ t.fenced = u.fenced
      /\ t.barrier = u.barrier /\ t.nextGen = u.nextGen /\ t.nextRev = u.nextRev
      /\ t.pending = u.pending /\ t.paused = u.paused /\ t.readiness = NoReadiness
  BY <1>1 DEF Runtimes
<1>4. NoReadiness.live = FALSE /\ \A d \in Clients : NoReadiness.part[d].role = "Absent"
  BY DEF NoReadiness, NoRecord
<1> HIDE DEF t
<1>5. \A d \in Clients : ~IsMember(t, d)
  BY <1>3, <1>4 DEF IsMember
<1>6. Numbered(t) /\ OwnerUnfenced(t)
  BY <1>2, <1>3 DEF Steady, Numbered, OwnerUnfenced
<1>7. Linked(t) /\ Fresh(t)
  BY <1>3, <1>4, <1>5 DEF Linked, Fresh
<1>8. Staged(t)
  BY <1>2, <1>3 DEF Steady, Staged
<1>9. Advance(s, t)
  BY <1>2, <1>3, StillAdvances, AdvanceTransitive
<1>10. /\ t.place = s.place /\ t.caps = s.caps /\ t.fenced = s.fenced
       /\ \A d \in Clients : ~IsMember(t, d)
       /\ Steady(t) /\ Advance(s, t)
  BY <1>2, <1>3, <1>5, <1>6, <1>7, <1>8, <1>9 DEF Steady
<1> QED
  BY <1>10 DEF t, u

\* `detach_readiness_membership`.
LEMMA DetachCoheres ==
  ASSUME NEW s \in Runtimes, NEW c \in Clients, Transit(s, c), NEW retain \in BOOLEAN
  PROVE  LET t == Detach(s, c, retain)
         IN /\ t.place = s.place /\ t.caps = s.caps /\ t.fenced = s.fenced
            /\ ~IsMember(t, c) /\ Transit(t, c) /\ Advance(s, t)
<1> DEFINE record == s.readiness.part[c]
           detached == IF retain
                       THEN [kept |-> TRUE, intentReady |-> record.intentReady,
                             touched |-> record.touched]
                       ELSE s.detached[c]
           unstaged == [s EXCEPT !.pending[c] = NoPending]
           removed == [s EXCEPT !.pending[c] = NoPending, !.readiness.part[c] = NoRecord,
                                !.detached[c] = detached]
           evaluated == MaybeCommit(RefreshGate(removed))
           dissolved == [ClearGate(evaluated) EXCEPT !.readiness = NoReadiness]
           t == Detach(s, c, retain)
<1>1. CASE record.role = "Absent"
  <2>1. t = unstaged
    BY <1>1 DEF Detach
  <2>2. Follows(s, unstaged)
    BY DropPendingFollows
  <2> HIDE DEF unstaged, t
  <2>3. Regroups(s, unstaged)
    BY <2>2, FollowsRegroups
  <2>4. /\ unstaged.place = s.place /\ unstaged.caps = s.caps /\ unstaged.fenced = s.fenced
        /\ ~IsMember(unstaged, c)
    BY <1>1, <2>3 DEF Regroups, IsMember
  <2>5. Transit(unstaged, c) /\ Advance(s, unstaged)
    BY <2>3, RegroupsTransit, RegroupsKeeps
  <2> QED
    BY <2>1, <2>4, <2>5 DEF t
<1>2. CASE record.role # "Absent"
  <2>1. detached \in Detacheds
    <3>1. s.detached[c] \in Detacheds
      BY Components
    <3>2. record.intentReady \in BOOLEAN /\ record.touched \in BOOLEAN
      BY RecordOf DEF Records
    <3> QED
      BY <3>1, <3>2 DEF Detacheds
  <2> HIDE DEF detached
  <2>2. /\ removed \in Runtimes /\ removed.barrier = s.barrier /\ removed.paused = s.paused
        /\ removed.place = s.place /\ removed.caps = s.caps /\ removed.fenced = s.fenced
        /\ removed.nextGen = s.nextGen /\ removed.nextRev = s.nextRev
        /\ removed.readiness.live = s.readiness.live
        /\ removed.readiness.gen = s.readiness.gen
        /\ \A d \in Clients : removed.readiness.part[d] =
                               IF d = c THEN NoRecord ELSE s.readiness.part[d]
        /\ \A d \in Clients : removed.pending[d] =
                               IF d = c THEN NoPending ELSE s.pending[d]
    BY <2>1, NoRecordType, SimpleTypes DEF Runtimes, Readinesses
  <2> HIDE DEF removed
  <2>3. NoRecord.role = "Absent"
    BY DEF NoRecord
  <2>4. ~IsMember(removed, c) /\ \A d \in Clients \ {c} : IsMember(removed, d) <=> IsMember(s, d)
    BY <2>2, <2>3 DEF IsMember
  <2>5. \A d \in Clients : InCohortRoom(removed, d) <=> InCohortRoom(s, d)
    BY <2>2 DEF InCohortRoom, V2
  <2>6. MembersBut(removed, c) /\ MembersLive(removed)
    BY <2>2, <2>4, <2>5 DEF Transit, MembersBut, MembersLive
  <2>7. Numbered(removed) /\ Linked(removed) /\ OwnerUnfenced(removed)
    BY <2>2 DEF Transit, Steady, Numbered, Linked, OwnerUnfenced
  <2>8. Staged(removed)
    BY <2>2, <2>4, NoPendingEvidence DEF Transit, Steady, Staged
  <2>9. Fresh(removed)
    BY <2>2, <2>4 DEF Transit, Steady, Fresh
  <2>10. Transit(removed, c)
    BY <2>6, <2>7, <2>8, <2>9 DEF Transit, Steady
  <2>11. evaluated \in Runtimes /\ Regroups(removed, evaluated)
    BY <2>2, RefreshGateType, MaybeCommitType, MaybeCommitFollows, FollowsRegroups
  <2> HIDE DEF evaluated
  <2>12. /\ evaluated.place = s.place /\ evaluated.caps = s.caps /\ evaluated.fenced = s.fenced
         /\ ~IsMember(evaluated, c)
    BY <2>2, <2>4, <2>11 DEF Regroups
  <2>13. Transit(evaluated, c) /\ Advance(removed, evaluated)
    BY <2>2, <2>10, <2>11, RegroupsTransit, RegroupsKeeps
  <2>14. Advance(s, evaluated)
    BY <2>2, <2>13, StillAdvances, AdvanceTransitive
  <2>15. CASE ReadinessMembers(evaluated) # {}
    <3>1. t = evaluated
      BY <1>2, <2>15 DEF Detach, evaluated, removed, detached
    <3> QED
      BY <2>12, <2>13, <2>14, <3>1
  <2>16. CASE ReadinessMembers(evaluated) = {}
    <3>1. t = dissolved
      BY <1>2, <2>16 DEF Detach, evaluated, removed, detached
    <3>2. \A d \in Clients : ~IsMember(evaluated, d)
      BY <2>16 DEF ReadinessMembers, IsMember
    <3>3. /\ dissolved.place = evaluated.place /\ dissolved.caps = evaluated.caps
          /\ dissolved.fenced = evaluated.fenced
          /\ \A d \in Clients : ~IsMember(dissolved, d)
          /\ Steady(dissolved) /\ Advance(evaluated, dissolved)
      BY <2>11, <2>13, <3>2, DissolveKeeps DEF Transit
    <3> HIDE DEF dissolved, t
    <3>4. Advance(s, dissolved)
      BY <2>14, <3>3, AdvanceTransitive
    <3>5. V2(dissolved) = V2(evaluated)
      BY <3>3 DEF V2
    <3>6. Transit(dissolved, c)
      BY <2>13, <3>2, <3>3, <3>5 DEF Transit, MembersBut, MembersLive, InCohortRoom
    <3> QED
      BY <2>12, <3>1, <3>3, <3>4, <3>6 DEF t
  <2> QED
    BY <2>15, <2>16
<1> QED
  BY <1>1, <1>2

-----------------------------------------------------------------------------
(* Sessions.                                                               *)

\* A method that moves session `c` or changes its capabilities, and nothing else.
Relocates(s, t, c) ==
  /\ \A d \in Clients \ {c} : t.place[d] = s.place[d] /\ t.caps[d] = s.caps[d]
  /\ \A d \in Clients : t.pending[d] \in {s.pending[d], NoPending}
  /\ t.fenced \subseteq s.fenced
  /\ t.readiness = s.readiness /\ t.barrier = s.barrier /\ t.paused = s.paused
  /\ t.nextGen = s.nextGen /\ t.nextRev = s.nextRev

\* Such a method keeps what holds during the transit of its session.
LEMMA RelocateKeeps ==
  ASSUME NEW s \in Runtimes, NEW t, NEW c \in Clients, Relocates(s, t, c), Transit(s, c)
  PROVE  Transit(t, c) /\ Advance(s, t) /\ \A d \in Clients : IsMember(t, d) <=> IsMember(s, d)
<1>1. /\ \A d \in Clients \ {c} : t.place[d] = s.place[d] /\ t.caps[d] = s.caps[d]
      /\ \A d \in Clients : t.pending[d] \in {s.pending[d], NoPending}
      /\ t.fenced \subseteq s.fenced
      /\ t.readiness = s.readiness /\ t.barrier = s.barrier /\ t.paused = s.paused
      /\ t.nextGen = s.nextGen /\ t.nextRev = s.nextRev
  BY DEF Relocates
<1>2. \A d \in Clients : IsMember(t, d) <=> IsMember(s, d)
  BY <1>1 DEF IsMember
<1>3. \A d \in Clients \ {c} : InCohortRoom(t, d) <=> InCohortRoom(s, d)
  BY <1>1 DEF InCohortRoom, V2
<1>4. MembersBut(t, c) /\ MembersLive(t)
  BY <1>1, <1>2, <1>3 DEF Transit, MembersBut, MembersLive
<1>5. Numbered(t) /\ Linked(t) /\ OwnerUnfenced(t)
  BY <1>1 DEF Transit, Steady, Numbered, Linked, OwnerUnfenced
<1>6. Staged(t)
  BY <1>1, <1>2, NoPendingEvidence DEF Transit, Steady, Staged
<1>7. Fresh(t)
  BY <1>1, <1>2 DEF Transit, Steady, Fresh
<1>8. Advance(s, t)
  BY <1>1, StillAdvances
<1> QED
  BY <1>2, <1>4, <1>5, <1>6, <1>7, <1>8 DEF Transit, Steady

\* The writes of the session handlers relocate their session.
LEMMA SessionWrites ==
  ASSUME NEW s \in Runtimes, NEW c \in Clients, NEW place, NEW caps, NEW n, NEW kept
  PROVE  /\ Relocates(s, JoinRoom(s, c, caps), c)
         /\ Relocates(s, RemoveSession(s, c, place), c)
         /\ Relocates(s, [s EXCEPT !.place[c] = place, !.nextSeq = n, !.seq[c] = n], c)
         /\ Relocates(s, [s EXCEPT !.caps[c] = caps], c)
         /\ Relocates(s, [s EXCEPT !.detached[c] = kept], c)
<1>1. Relocates(s, JoinRoom(s, c, caps), c)
  BY DEF Relocates, JoinRoom, Runtimes
<1>2. Relocates(s, RemoveSession(s, c, place), c)
  BY DEF Relocates, RemoveSession, Runtimes
<1>3. Relocates(s, [s EXCEPT !.place[c] = place, !.nextSeq = n, !.seq[c] = n], c)
  BY DEF Relocates, Runtimes
<1>4. Relocates(s, [s EXCEPT !.caps[c] = caps], c) /\ Relocates(s, [s EXCEPT !.detached[c] = kept], c)
  BY DEF Relocates, Runtimes
<1> QED
  BY <1>1, <1>2, <1>3, <1>4

\* The members of a room that misses nobody are in the room.
LEMMA EnrolledIsPresent ==
  ASSUME NEW s, Enrolled(s)
  PROVE  Present(s)
  BY DEF Enrolled, Present, InCohortRoom

\* The invariant without the pause authority, which has theorems of its own.
Whole(s) == Enrolled(s) /\ Cohort(s) /\ Steady(s)

\* The handlers that move a session end by reassigning the roles.
LEMMA RefreshWhole ==
  ASSUME NEW s \in Runtimes, Enrolled(s), Steady(s)
  PROVE  LET t == RefreshMixedCohort(s) IN Whole(t) /\ Advance(s, t)
<1>1. Present(s) /\ \A c \in Clients : IsMember(s, c) => s.readiness.live
  BY EnrolledIsPresent DEF Enrolled
<1>2. Regroups(s, RefreshMixedCohort(s)) /\ Cohort(RefreshMixedCohort(s))
  BY <1>1, RefreshCoheres
<1> QED
  BY <1>2, RegroupsKeeps DEF Whole

\* `cleanup_room_if_empty`: nobody is left, hence no coordinator.
LEMMA CleanupWhole ==
  ASSUME NEW s \in Runtimes, Populated(s), Whole(s)
  PROVE  LET t == CleanupRoom(s) IN Whole(t) /\ Advance(s, t)
<1> DEFINE t == [s EXCEPT !.barrier = NoBarrier, !.paused = TRUE, !.tombstones = {}]
<1>1. CASE Persistent \/ ClientsInRoom(s) # {}
  BY <1>1, StillAdvances DEF CleanupRoom
<1>2. CASE ~Persistent /\ ClientsInRoom(s) = {}
  <2>1. \A c \in Clients : ~IsMember(s, c)
    BY <1>2 DEF Whole, Enrolled, InCohortRoom, ClientsInRoom
  <2>2. ~s.readiness.live
    BY <2>1 DEF Populated
  <2>3. CleanupRoom(s) = t
    BY <1>2, <2>2 DEF CleanupRoom, ClearGate
  <2>4. /\ t.place = s.place /\ t.caps = s.caps /\ t.fenced = s.fenced
        /\ t.readiness = s.readiness /\ t.pending = s.pending
        /\ t.barrier = NoBarrier /\ t.nextGen = s.nextGen /\ t.nextRev = s.nextRev
    BY DEF Runtimes
  <2> HIDE DEF t
  <2>5. NoBarrier.phase = "None" /\ NoBarrier.gen = 0 /\ NoBarrier.rev = 0
    BY DEF NoBarrier
  <2>6. \A c \in Clients : ~IsMember(t, c) /\ ~InCohortRoom(t, c)
    BY <1>2, <2>1, <2>4 DEF IsMember, InCohortRoom, ClientsInRoom
  <2>7. Enrolled(t) /\ RolesFollow(t) /\ Fresh(t)
    BY <2>6 DEF Enrolled, RolesFollow, Fresh
  <2>8. ExclusionsHold(t) /\ PartsHold(t) /\ Linked(t)
    BY <2>2, <2>4 DEF ExclusionsHold, PartsHold, Linked
  <2>9. Numbered(t) /\ OwnerUnfenced(t)
    BY <2>4, <2>5 DEF Numbered, OwnerUnfenced, Active
  <2>10. Staged(t)
    BY <2>1, <2>4 DEF Whole, Steady, Staged
  <2>11. Advance(s, t)
    BY <2>4, <2>5 DEF Advance, Forgotten
  <2> QED
    BY <2>3, <2>7, <2>8, <2>9, <2>10, <2>11 DEF Whole, Cohort, Steady
<1> QED
  BY <1>1, <1>2

\* A session that is no member leaves the room.
LEMMA DepartureWhole ==
  ASSUME NEW s, Sound(s), NEW c \in Clients, ~IsMember(s, c), Transit(s, c),
         NEW t \in Runtimes, Relocates(s, t, c), Sound(t), t.place[c] # "Room"
  PROVE  LET u == CleanupRoom(RefreshMixedCohort(t))
         IN Whole(u) /\ Advance(s, u) /\ u.place = t.place
<1> DEFINE v == RefreshMixedCohort(t)
           u == CleanupRoom(v)
<1>1. s \in Runtimes
  BY DEF Sound
<1>2. Transit(t, c) /\ Advance(s, t) /\ ~IsMember(t, c)
  BY <1>1, RelocateKeeps
<1>3. Enrolled(t) /\ Steady(t)
  BY <1>2, TransitEnds DEF InCohortRoom
<1>4. Whole(v) /\ Advance(t, v) /\ v \in Runtimes /\ Populated(v)
  BY <1>3, RefreshWhole, RefreshSound DEF Sound
<1>7. v.place = t.place
  BY RefreshMixedCohortSafe DEF Sound, Frame
<1> HIDE DEF v
<1>8. u.place = v.place
  <2>1. ClearGate(v) \in Runtimes /\ ClearGate(v).place = v.place
    BY <1>4, ClearGateType, GateFollows DEF Follows, Tracks, SameRoom
  <2> QED
    BY <2>1 DEF CleanupRoom, Runtimes
<1>5. Whole(u) /\ Advance(v, u)
  BY <1>4, CleanupWhole
<1> HIDE DEF u
<1>6. Advance(s, u)
  BY <1>1, <1>2, <1>4, <1>5, AdvanceTransitive
<1> QED
  BY <1>5, <1>6, <1>7, <1>8 DEF u, v

\* The membership and the barrier entry of a departing session, in either order.
LEMMA LeaveTransit ==
  ASSUME NEW s, Sound(s), Whole(s), NEW c \in Clients, NEW retain \in BOOLEAN
  PROVE  LET t == MarkParticipantDisconnected(Detach(s, c, retain), c)
             u == Detach(MarkParticipantDisconnected(s, c), c, retain)
         IN /\ Sound(t) /\ ~IsMember(t, c) /\ Transit(t, c) /\ Advance(s, t)
            /\ Sound(u) /\ ~IsMember(u, c) /\ Transit(u, c) /\ Advance(s, u)
<1> DEFINE left == Detach(s, c, retain)
           t == MarkParticipantDisconnected(left, c)
           marked == MarkParticipantDisconnected(s, c)
           u == Detach(marked, c, retain)
<1>1. s \in Runtimes /\ Transit(s, c)
  BY TransitEnds DEF Sound, Whole
<1>2. Sound(left) /\ ~IsMember(left, c) /\ Transit(left, c) /\ Advance(s, left)
  BY <1>1, DetachSafe, DetachCoheres
<1>3. left \in Runtimes
  BY <1>2 DEF Sound
<1>4. Sound(marked) /\ Regroups(s, marked)
  BY <1>1, MarkSound, MarkDisconnectedFollows, FollowsRegroups
<1> HIDE DEF left, marked
<1>5. Sound(t) /\ ~IsMember(t, c) /\ Regroups(left, t)
  BY <1>2, <1>3, MarkSound, MarkDisconnectedFollows, FollowsRegroups
<1> HIDE DEF t
<1>6. Transit(t, c) /\ Advance(left, t)
  BY <1>2, <1>3, <1>5, RegroupsTransit, RegroupsKeeps
<1>7. Advance(s, t)
  BY <1>1, <1>2, <1>6, AdvanceTransitive
<1>8. marked \in Runtimes /\ Transit(marked, c) /\ Advance(s, marked)
  BY <1>1, <1>4, RegroupsTransit, RegroupsKeeps DEF Sound
<1>9. Sound(u) /\ ~IsMember(u, c) /\ Transit(u, c) /\ Advance(marked, u)
  BY <1>4, <1>8, DetachSafe, DetachCoheres
<1> HIDE DEF u
<1>10. Advance(s, u)
  BY <1>1, <1>8, <1>9, AdvanceTransitive
<1> QED
  BY <1>5, <1>6, <1>7, <1>9, <1>10 DEF t, u, left, marked

\* `remove_session_tracking` after it, and what follows.
LEMMA RemovalWhole ==
  ASSUME NEW s, Sound(s), NEW c \in Clients, ~IsMember(s, c), Transit(s, c),
         NEW place \in Places \ {"Room"}
  PROVE  LET u == CleanupRoom(RefreshMixedCohort(RemoveSession(s, c, place)))
         IN Whole(u) /\ Advance(s, u) /\ u.place[c] # "Room"
<1> DEFINE t == RemoveSession(s, c, place)
<1>1. s \in Runtimes
  BY DEF Sound
<1>2. t \in Runtimes /\ Relocates(s, t, c) /\ Sound(t)
  BY <1>1, RemoveSessionSafe, SessionWrites DEF Sound
<1>3. t.place[c] # "Room"
  BY <1>1 DEF RemoveSession, Runtimes
<1> HIDE DEF t
<1>4. LET u == CleanupRoom(RefreshMixedCohort(t))
      IN Whole(u) /\ Advance(s, u) /\ u.place = t.place
  BY <1>2, <1>3, DepartureWhole
<1> QED
  BY <1>3, <1>4 DEF t

\* The departure of a session that a new Hello replaces, and a disconnect.
LEMMA DepartWhole ==
  ASSUME NEW s, Sound(s), Whole(s), NEW c \in Clients
  PROVE  /\ LET t == ReplaceSession(s, c)
            IN Whole(t) /\ Advance(s, t) /\ t.place[c] # "Room"
         /\ LET t == DepartSession(s, c) IN Whole(t) /\ Advance(s, t)
<1> DEFINE replaced == MarkParticipantDisconnected(Detach(s, c, TRUE), c)
           gone == Detach(MarkParticipantDisconnected(s, c), c, TRUE)
           t == CleanupRoom(RefreshMixedCohort(RemoveSession(replaced, c, "New")))
           u == CleanupRoom(RefreshMixedCohort(RemoveSession(gone, c, "Gone")))
<1>1. /\ Sound(replaced) /\ ~IsMember(replaced, c) /\ Transit(replaced, c)
      /\ Advance(s, replaced)
      /\ Sound(gone) /\ ~IsMember(gone, c) /\ Transit(gone, c) /\ Advance(s, gone)
  BY LeaveTransit
<1>2. t = ReplaceSession(s, c) /\ u = DepartSession(s, c)
  BY DEF ReplaceSession, DepartSession
<1> HIDE DEF replaced, gone
<1>3. "New" \in Places \ {"Room"} /\ "Gone" \in Places \ {"Room"} /\ s \in Runtimes
  BY DEF Places, Sound
<1>4. /\ Whole(t) /\ Advance(replaced, t) /\ t.place[c] # "Room"
      /\ Whole(u) /\ Advance(gone, u)
  BY <1>1, <1>3, RemovalWhole
<1> HIDE DEF t, u
<1>5. Advance(s, t) /\ Advance(s, u)
  BY <1>1, <1>3, <1>4, AdvanceTransitive
<1> QED
  BY <1>2, <1>4, <1>5

\* A session enters the room, as a member when it speaks V2.
LEMMA EntryWhole ==
  ASSUME NEW s, Sound(s), NEW c \in Clients, ~IsMember(s, c), Transit(s, c), s.place[c] = "Room",
         NEW token \in Clients \cup {NoClient}, NEW seedReady \in BOOLEAN
  PROVE  /\ c \in V2(s) => LET t == RefreshMixedCohort(Attach(s, c, token, seedReady))
                           IN Whole(t) /\ Advance(s, t)
         /\ c \notin V2(s) => LET t == RefreshMixedCohort(s) IN Whole(t) /\ Advance(s, t)
<1>1. s \in Runtimes /\ Present(s)
  BY DEF Sound
<1>2. CASE c \in V2(s)
  <2> DEFINE u == Attach(s, c, token, seedReady)
             t == RefreshMixedCohort(u)
  <2>1. InCohortRoom(s, c) /\ MembersBut(s, c) /\ MembersLive(s) /\ Steady(s)
    BY <1>2 DEF InCohortRoom, Transit
  <2>2. u \in Runtimes /\ Enrolled(u) /\ Steady(u) /\ Advance(s, u)
    BY <1>1, <2>1, AttachCoheres, AttachType
  <2> HIDE DEF u
  <2>3. Whole(t) /\ Advance(u, t)
    BY <2>2, RefreshWhole
  <2> HIDE DEF t
  <2>4. Advance(s, t)
    BY <1>1, <2>2, <2>3, AdvanceTransitive
  <2> QED
    BY <1>2, <2>3, <2>4 DEF t, u
<1>3. CASE c \notin V2(s)
  <2>1. Enrolled(s) /\ Steady(s)
    BY <1>3, TransitEnds DEF InCohortRoom
  <2> QED
    BY <1>1, <1>3, <2>1, RefreshWhole
<1> QED
  BY <1>2, <1>3

-----------------------------------------------------------------------------
(* The actions of sessions.                                                *)

\* Moving a session keeps its transit, whatever is written to it.
LEMMA RelocateTransit ==
  ASSUME NEW s \in Runtimes, NEW t, NEW c \in Clients, Relocates(s, t, c), Transit(s, c),
         ~IsMember(s, c)
  PROVE  Transit(t, c) /\ Advance(s, t) /\ ~IsMember(t, c)
  BY RelocateKeeps

\* `handle_hello_for_peer`.
LEMMA HelloWhole ==
  ASSUME Sound(rt), Whole(rt), NEW c \in Clients, NEW token \in Clients \cup {NoClient},
         Hello(c, token)
  PROVE  Whole(rt') /\ Advance(rt, rt')
<1> DEFINE left == IF rt.place[c] = "Room" THEN ReplaceSession(rt, c) ELSE rt
           attaches == "readiness" \in HelloCaps[c]
           restores == attaches /\ token # NoClient /\ left.detached[token].kept
           forgot == [left EXCEPT !.detached[c] = NoDetached]
           known == IF restores THEN left ELSE forgot
           joined == JoinRoom(known, c, HelloCaps[c])
           presented == IF restores THEN token ELSE NoClient
           attached == Attach(joined, c, presented, FALSE)
<1>1. Sound(left) /\ Whole(left) /\ Advance(rt, left) /\ left.place[c] # "Room"
  BY ReplaceSessionSafe, DepartWhole, StillAdvances
<1>2. rt \in Runtimes /\ left \in Runtimes
  BY <1>1 DEF Sound
<1> HIDE DEF left
<1>3. Transit(left, c) /\ ~IsMember(left, c)
  BY <1>1, TransitEnds DEF Whole, Enrolled, InCohortRoom
<1>4. forgot \in Runtimes /\ Quiet(left, forgot) /\ Relocates(left, forgot, c)
  BY <1>2, DetachedUpdate, SimpleTypes, SessionWrites DEF Runtimes, Quiet, Held, Frame, IsMember
<1> HIDE DEF forgot
<1>5. Sound(forgot) /\ Transit(forgot, c) /\ Advance(left, forgot) /\ ~IsMember(forgot, c)
  BY <1>1, <1>2, <1>3, <1>4, QuietSound, RelocateTransit
<1>6. Sound(known) /\ Transit(known, c) /\ Advance(left, known) /\ ~IsMember(known, c)
  BY <1>1, <1>3, <1>5, StillAdvances
<1>7. presented \in Clients \cup {NoClient}
  OBVIOUS
<1> HIDE DEF known, presented
<1>8. known \in Runtimes
  BY <1>6 DEF Sound
<1>9. /\ Sound(joined) /\ joined.place[c] = "Room"
      /\ Transit(joined, c) /\ Advance(known, joined) /\ ~IsMember(joined, c)
  BY <1>6, <1>8, JoinRoomSafe, HelloCapsType, SessionWrites, RelocateTransit
<1>10. joined.caps[c] = HelloCaps[c]
  BY <1>8 DEF JoinRoom, Runtimes
<1> HIDE DEF joined
<1>11. attaches <=> c \in V2(joined)
  BY <1>10 DEF V2
<1>12. /\ attaches => Whole(RefreshMixedCohort(attached)) /\ Advance(joined, RefreshMixedCohort(attached))
       /\ ~attaches => Whole(RefreshMixedCohort(joined)) /\ Advance(joined, RefreshMixedCohort(joined))
  BY <1>7, <1>9, <1>11, EntryWhole
<1>13. rt' = IF attaches THEN RefreshMixedCohort(attached) ELSE RefreshMixedCohort(joined)
  BY DEF Hello, attached, presented, joined, known, forgot, left
<1> HIDE DEF attached, attaches
<1>14. Whole(rt') /\ Advance(joined, rt')
  BY <1>12, <1>13
<1>15. Advance(rt, known)
  BY <1>1, <1>2, <1>6, AdvanceTransitive
<1>16. Advance(rt, joined)
  BY <1>2, <1>9, <1>15, AdvanceTransitive
<1> QED
  BY <1>2, <1>14, <1>16, AdvanceTransitive

\* The close of a connection that is in another room.
LEMMA ForgetElsewhere ==
  ASSUME NEW s, Sound(s), Whole(s), NEW c \in Clients, s.place[c] = "Elsewhere"
  PROVE  LET t == RemoveSession(s, c, "Gone") IN Whole(t) /\ Advance(s, t)
<1> DEFINE t == RemoveSession(s, c, "Gone")
<1>1. s \in Runtimes
  BY DEF Sound
<1>2. Relocates(s, t, c)
  BY <1>1, SessionWrites
<1>3. /\ t.place = [s.place EXCEPT ![c] = "Gone"] /\ t.caps = [s.caps EXCEPT ![c] = {}]
      /\ t.fenced = s.fenced \ {c} /\ t.readiness = s.readiness /\ t.barrier = s.barrier
      /\ s.place \in [Clients -> Places] /\ s.caps \in [Clients -> SUBSET Capabilities]
  BY <1>1 DEF RemoveSession, Runtimes
<1> HIDE DEF t
<1>4. Transit(s, c) /\ ~IsMember(s, c)
  BY TransitEnds DEF Whole, Enrolled, InCohortRoom
<1>5. Transit(t, c) /\ Advance(s, t) /\ ~IsMember(t, c)
  BY <1>1, <1>2, <1>4, RelocateTransit
<1>6. Enrolled(t) /\ Steady(t)
  BY <1>3, <1>5, TransitEnds DEF InCohortRoom
<1>7. \A d \in Clients \ {c} : (d \in StartCapable(t)) <=> (d \in StartCapable(s))
  BY <1>3 DEF StartCapable, V2, BarrierV1
<1>8. RolesFollow(t)
  BY <1>3, <1>4, <1>7 DEF Whole, Cohort, RolesFollow, IsMember
<1>9. ExclusionsHold(t)
  BY <1>3 DEF Whole, Cohort, ExclusionsHold
<1>10. PartsHold(t)
  BY <1>3, <1>4 DEF Whole, Cohort, PartsHold, IsMember
<1>11. Whole(t) /\ Advance(s, t)
  BY <1>5, <1>6, <1>8, <1>9, <1>10 DEF Whole, Cohort
<1> QED
  BY <1>11 DEF t

\* Set.room out of this room.
LEMMA SwitchAwayWhole ==
  ASSUME Sound(rt), Whole(rt), NEW c \in Clients, SwitchAway(c)
  PROVE  Whole(rt') /\ Advance(rt, rt')
<1> DEFINE left == MarkParticipantDisconnected(Detach(rt, c, FALSE), c)
           n == left.nextSeq + 1
           moved == [left EXCEPT !.place[c] = "Elsewhere", !.nextSeq = n, !.seq[c] = n]
<1>1. Sound(left) /\ ~IsMember(left, c) /\ Transit(left, c) /\ Advance(rt, left)
  BY LeaveTransit
<1> HIDE DEF left
<1>2. rt \in Runtimes /\ left \in Runtimes /\ n \in Nat /\ "Elsewhere" \in Places
  BY <1>1, Components DEF Sound, Places
<1> HIDE DEF n
<1>3. /\ moved \in Runtimes /\ moved.readiness = left.readiness
      /\ moved.barrier = left.barrier /\ moved.paused = left.paused
      /\ \A d \in Clients \ {c} : moved.place[d] = left.place[d]
      /\ moved.place[c] = "Elsewhere"
  BY <1>2 DEF Runtimes
<1>4. Relocates(left, moved, c)
  BY <1>2, SessionWrites
<1> HIDE DEF moved
<1>5. Sound(moved)
  BY <1>1, <1>3, MoveSound
<1> DEFINE t == CleanupRoom(RefreshMixedCohort(moved))
<1>6. Whole(t) /\ Advance(left, t)
  BY <1>1, <1>3, <1>4, <1>5, DepartureWhole
<1>7. rt' = t
  BY DEF SwitchAway, moved, n, left
<1> HIDE DEF t
<1> QED
  BY <1>1, <1>2, <1>6, <1>7, AdvanceTransitive

\* Set.room into this room.
LEMMA SwitchInWhole ==
  ASSUME Sound(rt), Whole(rt), NEW c \in Clients, SwitchIn(c)
  PROVE  Whole(rt') /\ Advance(rt, rt')
<1> DEFINE joined == JoinRoom(rt, c, rt.caps[c])
           attached == Attach(joined, c, NoClient, FALSE)
<1>1. rt \in Runtimes /\ rt.caps[c] \in SUBSET Capabilities /\ rt.place[c] # "Room"
  BY DEF Sound, Runtimes, SwitchIn
<1>2. Transit(rt, c) /\ ~IsMember(rt, c)
  BY <1>1, TransitEnds DEF Whole, Enrolled, InCohortRoom
<1>3. /\ Sound(joined) /\ joined.place[c] = "Room"
      /\ Transit(joined, c) /\ Advance(rt, joined) /\ ~IsMember(joined, c)
  BY <1>1, <1>2, JoinRoomSafe, SessionWrites, RelocateTransit
<1>4. joined.caps = rt.caps
  BY <1>1 DEF JoinRoom, Runtimes
<1>5. rt' = IF c \in V2(rt) THEN RefreshMixedCohort(attached) ELSE RefreshMixedCohort(joined)
  BY DEF SwitchIn
<1> HIDE DEF joined
<1>6. c \in V2(rt) <=> c \in V2(joined)
  BY <1>4 DEF V2
<1>7. /\ c \in V2(rt) => Whole(RefreshMixedCohort(attached)) /\ Advance(joined, RefreshMixedCohort(attached))
      /\ c \notin V2(rt) => Whole(RefreshMixedCohort(joined)) /\ Advance(joined, RefreshMixedCohort(joined))
  BY <1>3, <1>6, EntryWhole
<1> HIDE DEF attached
<1>8. Whole(rt') /\ Advance(joined, rt')
  BY <1>5, <1>7
<1> QED
  BY <1>1, <1>3, <1>8, AdvanceTransitive

\* Set.features.
LEMMA RenegotiateWhole ==
  ASSUME Sound(rt), Whole(rt), NEW c \in Clients, NEW caps \in Renegotiations,
         NEW seedReady \in BOOLEAN, Renegotiate(c, caps, seedReady)
  PROVE  Whole(rt') /\ Advance(rt, rt')
<1> DEFINE changed == [rt EXCEPT !.caps[c] = caps]
           attached == Attach(changed, c, c, seedReady)
           left == Detach(changed, c, TRUE)
           had == "readiness" \in rt.caps[c]
           has == "readiness" \in caps
<1>1. rt \in Runtimes /\ rt.place[c] = "Room"
  BY DEF Sound, Renegotiate, Speaks
<1>2. /\ changed \in Runtimes /\ Quiet(rt, changed) /\ changed.place = rt.place
      /\ changed.caps[c] = caps
  BY <1>1, ClientsAssumption DEF Runtimes, Quiet, Held, Frame, IsMember
<1>3. Transit(rt, c) /\ (IsMember(rt, c) <=> had)
  BY <1>1, TransitEnds DEF Whole, Enrolled, InCohortRoom, V2
<1>4. Relocates(rt, changed, c)
  BY <1>1, SessionWrites
<1>5. rt' = RefreshMixedCohort(IF ~had /\ has THEN attached
                               ELSE IF had /\ ~has THEN left ELSE changed)
  BY DEF Renegotiate
<1> HIDE DEF changed
<1>6. Sound(changed) /\ changed.place[c] = "Room"
  BY <1>1, <1>2, QuietSound
<1>7. Transit(changed, c) /\ Advance(rt, changed) /\ (IsMember(changed, c) <=> had)
  BY <1>1, <1>3, <1>4, RelocateKeeps
<1>8. (c \in V2(changed)) <=> has
  BY <1>2 DEF V2
<1> HIDE DEF had, has
<1>9. CASE ~had /\ has
  <2>1. c \in Clients \cup {NoClient}
    OBVIOUS
  <2>2. Whole(RefreshMixedCohort(attached)) /\ Advance(changed, RefreshMixedCohort(attached))
    BY <1>6, <1>7, <1>8, <1>9, <2>1, EntryWhole
  <2> HIDE DEF attached
  <2> QED
    BY <1>1, <1>5, <1>7, <1>9, <2>2, AdvanceTransitive
<1>10. CASE had /\ ~has
  <2>1. /\ left.place = changed.place /\ left.caps = changed.caps
        /\ ~IsMember(left, c) /\ Transit(left, c) /\ Advance(changed, left)
        /\ left \in Runtimes
    BY <1>2, <1>7, DetachCoheres, DetachType
  <2> HIDE DEF left
  <2>2. ~InCohortRoom(left, c)
    BY <1>8, <1>10, <2>1 DEF InCohortRoom, V2
  <2>3. Enrolled(left) /\ Steady(left)
    BY <2>1, <2>2, TransitEnds
  <2>4. Whole(RefreshMixedCohort(left)) /\ Advance(left, RefreshMixedCohort(left))
    BY <2>1, <2>3, RefreshWhole
  <2>5. rt' = RefreshMixedCohort(left) /\ Advance(rt, left)
    BY <1>1, <1>5, <1>7, <1>10, <2>1, AdvanceTransitive
  <2> QED
    BY <1>1, <2>4, <2>5, AdvanceTransitive
<1>11. CASE had <=> has
  <2>1. IsMember(changed, c) <=> InCohortRoom(changed, c)
    BY <1>6, <1>7, <1>8, <1>11 DEF InCohortRoom
  <2>2. Enrolled(changed) /\ Steady(changed)
    BY <1>7, <2>1 DEF Transit, MembersBut, MembersLive, Enrolled
  <2>3. Whole(RefreshMixedCohort(changed)) /\ Advance(changed, RefreshMixedCohort(changed))
    BY <1>2, <2>2, RefreshWhole
  <2>4. rt' = RefreshMixedCohort(changed)
    BY <1>5, <1>11
  <2> QED
    BY <1>1, <1>7, <2>3, <2>4, AdvanceTransitive
<1> QED
  BY <1>9, <1>10, <1>11

\* Every session step.
LEMMA MemberStepWhole ==
  ASSUME Sound(rt), Whole(rt), NEW c \in Clients, MemberStep(c)
  PROVE  Whole(rt') /\ Advance(rt, rt')
<1>1. ASSUME NEW token \in Clients \cup {NoClient}, Hello(c, token)
      PROVE  Whole(rt') /\ Advance(rt, rt')
  BY <1>1, HelloWhole
<1>2. CASE rt.place[c] = "Room" /\ rt' = DepartSession(rt, c)
  BY <1>2, DepartWhole
<1>3. CASE rt.place[c] = "Elsewhere" /\ rt' = RemoveSession(rt, c, "Gone")
  BY <1>3, ForgetElsewhere
<1>4. CASE SwitchAway(c)
  BY <1>4, SwitchAwayWhole
<1>5. CASE SwitchIn(c)
  BY <1>5, SwitchInWhole
<1>6. ASSUME NEW caps \in Renegotiations, NEW seedReady \in BOOLEAN,
             Renegotiate(c, caps, seedReady)
      PROVE  Whole(rt') /\ Advance(rt, rt')
  BY <1>6, RenegotiateWhole
<1> QED
  BY <1>1, <1>2, <1>3, <1>4, <1>5, <1>6 DEF MemberStep, Disconnect

-----------------------------------------------------------------------------
(* The actions of members and of the tick.                                 *)

\* A step that moves no session and changes no role.
LEMMA FollowsWhole ==
  ASSUME NEW s \in Runtimes, NEW t, Whole(s), Follows(s, t)
  PROVE  Whole(t) /\ Advance(s, t)
  BY FollowsKeeps, TracksAdvances DEF Whole, Follows

\* One that also stages evidence.
LEMMA TracksWhole ==
  ASSUME NEW s \in Runtimes, NEW t, Whole(s), Tracks(s, t), Staged(t)
  PROVE  Whole(t) /\ Advance(s, t)
<1>1. Fresh(t) /\ Advance(s, t)
  BY TracksAdvances DEF Tracks, Whole, Steady
<1> QED
  BY <1>1, TracksKeeps DEF Whole, Steady

\* A fresh operation displaces the one before it.
Displaces(s, t) ==
  /\ t.nextGen = s.nextGen + 1 /\ t.nextRev = s.nextRev
  /\ t.barrier.phase = "Preparing" /\ t.barrier.gen = s.nextGen + 1 /\ t.barrier.rev = 0
  /\ t.barrier.req.id \notin s.tombstones
  /\ s.barrier.phase # "None" /\ t.barrier.req.id # 0 => t.barrier.req.id # s.barrier.req.id
  /\ s.barrier.phase # "None" => s.barrier.req.id \in t.tombstones \cup {0}

\* A request that may open a generation displaces whatever the room was doing.
LEMMA OpensDisplaces ==
  ASSUME NEW s \in Runtimes, NEW t, NEW c \in Clients, NEW q \in Requests, NEW n \in Nat,
         Opens([s EXCEPT !.nonce[c] = n], t, c, q), MayReplace(s, c, q),
         q.id \notin s.tombstones,
         ~(s.barrier.phase # "None" /\ q.id # 0 /\ s.barrier.req.id = q.id)
  PROVE  Displaces(s, t)
<1> DEFINE u == [s EXCEPT !.nonce[c] = n]
<1>1. u.nextGen = s.nextGen /\ u.nextRev = s.nextRev /\ u.tombstones = s.tombstones
      /\ u.barrier = s.barrier
  BY DEF Runtimes
<1> HIDE DEF u
<1>2. Opens(u, t, c, q)
  BY DEF u
<1>3. /\ t.nextGen = s.nextGen + 1 /\ t.nextRev = s.nextRev
      /\ t.barrier.phase = "Preparing" /\ t.barrier.gen = s.nextGen + 1 /\ t.barrier.rev = 0
      /\ t.barrier.req = q /\ t.tombstones = s.tombstones \cup Displaced(u, q)
  BY <1>1, <1>2 DEF Opens
<1>4. s.barrier.phase # "None" => q.intent # "TransportRefresh"
  BY DEF MayReplace
<1>5. s.barrier.phase # "None" => Displaced(u, q) = {s.barrier.req.id} \ {0, q.id}
  BY <1>1, <1>4 DEF Displaced
<1>6. s.barrier.phase # "None" => s.barrier.req.id \in t.tombstones \cup {0}
  BY <1>3, <1>5
<1> QED
  BY <1>3, <1>6 DEF Displaces

\* Every barrier message.
LEMMA BarrierStepWhole ==
  ASSUME Sound(rt), Whole(rt), NEW c \in Clients, BarrierStep(c)
  PROVE  Whole(rt') /\ (Advance(rt, rt') \/ Displaces(rt, rt'))
<1>1. TypeOK /\ rt \in Runtimes
  BY DEF Sound, TypeOK
<1>2. Generations \subseteq Nat /\ Revisions \subseteq Nat
  BY <1>1, GenerationTypes
<1>3. ASSUME NEW q \in Requests, Prepare(c, q)
      PROVE  Whole(rt') /\ (Advance(rt, rt') \/ Displaces(rt, rt'))
  <2>1. c \in Clients \ rt.fenced /\ rt' = StartPlaybackBarrier(rt, c, q)
    BY <1>3 DEF Prepare, Speaks
  <2>2. /\ Whole(rt')
        /\ \/ Advance(rt, rt')
           \/ /\ \E n \in Nat : Opens([rt EXCEPT !.nonce[c] = n], rt', c, q)
              /\ MayReplace(rt, c, q) /\ q.id \notin rt.tombstones
              /\ ~(rt.barrier.phase # "None" /\ q.id # 0 /\ rt.barrier.req.id = q.id)
    BY <1>1, <2>1, StartPlaybackBarrierCoheres DEF Whole
  <2> QED
    BY <1>1, <2>2, OpensDisplaces
<1>4. ASSUME NEW q \in Requests, Recover(c, q)
      PROVE  Whole(rt') /\ Advance(rt, rt')
  <2>1. c \in Clients \ rt.fenced /\ rt' = RecoverPlaybackBarrier(rt, c, q)
    BY <1>4 DEF Recover, Speaks
  <2> QED
    BY <1>1, <2>1, RecoverPlaybackBarrierCoheres DEF Whole
<1>5. ASSUME NEW g \in Generations, NEW isReady \in BOOLEAN, MediaReady(c, g, isReady)
      PROVE  Whole(rt') /\ Advance(rt, rt')
  <2>1. Follows(rt, rt')
    BY <1>1, <1>2, <1>5, RecordReadyFollows DEF MediaReady
  <2> QED
    BY <1>1, <2>1, FollowsWhole
<1>6. ASSUME NEW g \in Generations, NEW r \in Revisions, StartedAck(c, g, r)
      PROVE  Whole(rt') /\ Advance(rt, rt')
  <2>1. Follows(rt, rt')
    BY <1>1, <1>2, <1>6, RecordStartedFollows DEF StartedAck
  <2> QED
    BY <1>1, <2>1, FollowsWhole
<1> QED
  BY <1>3, <1>4, <1>5, <1>6 DEF BarrierStep

\* A V2 session that speaks is a member.
LEMMA SpeakerIsMember ==
  ASSUME Whole(rt), NEW c \in Clients, Speaks(c), c \in V2(rt)
  PROVE  IsMember(rt, c)
  BY DEF Whole, Enrolled, InCohortRoom, Speaks

\* Every readiness message.
LEMMA ReadinessStepWhole ==
  ASSUME Sound(rt), Whole(rt), NEW c \in Clients, ReadinessStep(c)
  PROVE  Whole(rt') /\ Advance(rt, rt')
<1>1. TypeOK /\ rt \in Runtimes /\ Authority(rt) /\ Staged(rt)
  BY DEF Sound, TypeOK, Whole, Steady
<1>2. Generations \subseteq Nat /\ Revisions \subseteq Nat
  BY <1>1, GenerationTypes
<1>3. Follows(rt, [rt EXCEPT !.pending[c] = NoPending])
  BY <1>1, DropPendingFollows
<1>4. ASSUME NEW target \in Clients, NEW ready \in BOOLEAN, NEW source \in Sources,
             Intent(c, target, ready, source)
      PROVE  Whole(rt') /\ Advance(rt, rt')
  <2>1. Speaks(c) /\ rt' = ApplyIntent(rt, c, target, ready, source)
    BY <1>4 DEF Intent
  <2>2. source \in IntentSources
    BY EvidenceAssumption
  <2>3. Tracks(rt, rt') /\ (IsMember(rt, c) => Staged(rt'))
    BY <1>1, <2>1, <2>2, ApplyIntentFollows
  <2>4. CASE c \in V2(rt)
    BY <1>1, <2>1, <2>3, <2>4, SpeakerIsMember, TracksWhole
  <2>5. CASE c \notin V2(rt)
    <3>1. rt' = [rt EXCEPT !.pending[c] = NoPending]
      BY <2>1, <2>5 DEF ApplyIntent, IntentAccepted
    <3> QED
      BY <1>1, <1>3, <3>1, FollowsWhole
  <2> QED
    BY <2>4, <2>5
<1>5. ASSUME IntentFenced(c)
      PROVE  Whole(rt') /\ Advance(rt, rt')
  BY <1>1, <1>3, <1>5, FollowsWhole DEF IntentFenced
<1>6. ASSUME NEW target \in Clients, NEW ready \in BOOLEAN, SyncplayReady(c, target, ready)
      PROVE  Whole(rt') /\ Advance(rt, rt')
  <2>1. Follows(rt, rt')
    BY <1>1, <1>6, ApplySyncplayReadyFollows DEF SyncplayReady
  <2> QED
    BY <1>1, <2>1, FollowsWhole
<1>7. ASSUME NEW g \in Generations, NEW r \in Revisions, NEW report \in Reports,
             TechnicalReport(c, g, r, report)
      PROVE  Whole(rt') /\ Advance(rt, rt')
  <2>1. Follows(rt, rt')
    BY <1>1, <1>2, <1>7, ApplyTechnicalReportFollows DEF TechnicalReport
  <2> QED
    BY <1>1, <2>1, FollowsWhole
<1> QED
  BY <1>4, <1>5, <1>6, <1>7 DEF ReadinessStep

\* A played or paused transport of a controller.
LEMMA PlaystateWhole ==
  ASSUME Sound(rt), Whole(rt), NEW c \in Clients, NEW paused \in BOOLEAN,
         NEW seek \in BOOLEAN, Playstate(c, paused, seek)
  PROVE  Whole(rt') /\ Advance(rt, rt')
<1>1. rt \in Runtimes /\ Staged(rt) /\ Speaks(c) /\ rt.barrier.phase # "Preparing"
  BY DEF Sound, Whole, Steady, Playstate
<1>2. CASE rt.paused # paused /\ rt' = V2Transport(rt, c, paused) /\ c \in V2(rt)
  <2>1. IsMember(rt, c)
    BY <1>1, <1>2, SpeakerIsMember
  <2>2. Tracks(rt, rt') /\ Staged(rt')
    BY <1>1, <1>2, <2>1, V2TransportFollows
  <2> QED
    BY <1>1, <2>2, TracksWhole
<1>3. CASE rt' = SyncplayTransport(rt, c, paused)
  BY <1>1, <1>3, SyncplayTransportFollows, FollowsWhole
<1>4. CASE rt' = MoveTransport(rt, paused)
  BY <1>1, <1>4, MoveTransportFollows, FollowsWhole
<1> QED
  BY <1>2, <1>3, <1>4 DEF Playstate

\* Once nothing is active, the coordinator may leave the generation behind.
LEMMA RenewIdleWhole ==
  ASSUME NEW s \in Runtimes, NEW t, Whole(s), ~Active(s.barrier), Renews(s, t, 0)
  PROVE  Whole(t)
<1>1. /\ t.place = s.place /\ t.caps = s.caps /\ t.fenced = s.fenced /\ t.barrier = s.barrier
      /\ t.nextGen = s.nextGen /\ t.readiness.live = s.readiness.live
      /\ \A c \in Clients : t.readiness.part[c].role = s.readiness.part[c].role
      /\ \A c \in Clients : t.pending[c] = NoPending
  BY DEF Renews
<1>2. V2(t) = V2(s) /\ StartCapable(t) = StartCapable(s)
      /\ \A c \in Clients : IsMember(t, c) <=> IsMember(s, c)
  BY <1>1 DEF V2, StartCapable, BarrierV1, IsMember
<1>3. Enrolled(t) /\ RolesFollow(t)
  BY <1>1, <1>2 DEF Whole, Cohort, Enrolled, InCohortRoom, RolesFollow
<1>4. ExclusionsHold(t) /\ PartsHold(t) /\ Linked(t) /\ OwnerUnfenced(t)
  BY <1>1 DEF ExclusionsHold, PartsHold, Linked, OwnerUnfenced, Active
<1>5. Numbered(t)
  BY <1>1 DEF Whole, Steady, Numbered
<1>6. Staged(t)
  BY <1>1, NoPendingEvidence DEF Staged
<1>7. Fresh(t)
  <2> SUFFICES ASSUME NEW c \in Clients, IsMember(t, c)
               PROVE  FreshRecord(t.readiness.part[c], t.readiness.gen)
    BY DEF Fresh
  <2>1. IsMember(s, c) /\ s.readiness.live
    BY <1>2 DEF Whole, Enrolled
  <2> QED
    BY <2>1 DEF Renews
<1> QED
  BY <1>3, <1>4, <1>5, <1>6, <1>7 DEF Whole, Cohort, Steady

\* The selection changed: the lifecycle is retired before the evidence is.
LEMMA SelectionResetWhole ==
  ASSUME Sound(rt), Whole(rt), NEW c \in Clients, SelectionReset(c)
  PROVE  Whole(rt') /\ Advance(rt, rt')
<1> DEFINE retired == RetireForSelection(rt)
           claimed == SetPauseOwner(retired, AutomaticOwner("EndOfPlaylist"))
           owned == IF rt.readiness.owner.kind # "User" THEN claimed ELSE retired
           reset == ReplaceReadinessGeneration(owned, 0, FALSE)
           t == [reset EXCEPT !.paused = TRUE]
<1>1. rt \in Runtimes /\ Authority(rt)
  BY DEF Sound
<1>2. /\ retired \in Runtimes /\ Follows(rt, retired)
      /\ retired.barrier.phase \in {"None", "Degraded"}
  BY <1>1, RetireForSelectionType, RetireForSelectionSafe, RetireForSelectionFollows
<1> HIDE DEF retired
<1>3. /\ claimed \in Runtimes /\ Follows(rt, claimed)
      /\ claimed.barrier.phase \in {"None", "Degraded"}
  <2>1. Follows(retired, claimed) /\ Held(retired, claimed) /\ claimed \in Runtimes
    BY <1>2, EndOfPlaylistOwner, SetPauseOwnerFollows, SetPauseOwnerEffect, SetPauseOwnerType
  <2> HIDE DEF claimed
  <2> QED
    BY <1>1, <1>2, <2>1, FollowsTransitive DEF Held
<1> HIDE DEF claimed
<1>4. /\ owned \in Runtimes /\ Follows(rt, owned)
      /\ owned.barrier.phase \in {"None", "Degraded"}
  BY <1>2, <1>3
<1> HIDE DEF owned
<1>5. Whole(owned) /\ Advance(rt, owned) /\ ~Active(owned.barrier)
  BY <1>1, <1>4, FollowsWhole DEF Active
<1>6. Renews(owned, reset, 0) /\ reset \in Runtimes
  BY <1>4, RenewEffect, ReplaceReadinessGenerationType
<1> HIDE DEF reset
<1>7. Whole(reset) /\ \A d \in Clients : reset.pending[d] = NoPending
  BY <1>4, <1>5, <1>6, RenewIdleWhole DEF Renews
<1>8. /\ t.place = reset.place /\ t.caps = reset.caps /\ t.fenced = reset.fenced
      /\ t.barrier = reset.barrier /\ t.nextGen = reset.nextGen /\ t.nextRev = reset.nextRev
      /\ t.readiness = reset.readiness /\ t.pending = reset.pending
  BY <1>6 DEF Runtimes
<1> HIDE DEF t
<1>9. Follows(reset, t)
  <2>1. Retires(reset, t)
    BY <1>7, <1>8, NoPendingEvidence DEF Retires
  <2> QED
    BY <1>8, <2>1, CoordinatorFollows
<1>10. Whole(t)
  BY <1>6, <1>7, <1>9, FollowsWhole
<1>11. Advance(owned, t)
  BY <1>6, <1>8, StillAdvances DEF Renews
<1>12. rt' = t
  BY DEF SelectionReset, t, reset, owned, claimed, retired
<1> QED
  BY <1>1, <1>5, <1>10, <1>11, <1>12, AdvanceTransitive

\* Every transport command.
LEMMA TransportStepWhole ==
  ASSUME Sound(rt), Whole(rt), NEW c \in Clients, TransportStep(c)
  PROVE  Whole(rt') /\ Advance(rt, rt')
<1>1. ASSUME SelectionNoted(c)
      PROVE  Whole(rt') /\ Advance(rt, rt')
  <2>1. rt \in Runtimes
    BY DEF Sound
  <2>2. Follows(rt, rt')
    BY <1>1, <2>1, EndOfPlaylistOwner, SetPauseOwnerFollows DEF SelectionNoted
  <2> QED
    BY <2>1, <2>2, FollowsWhole
<1> QED
  BY <1>1, PlaystateWhole, SelectionResetWhole DEF TransportStep

\* Every expiry of the tick.
LEMMA TickStepWhole ==
  ASSUME Sound(rt), Whole(rt), TickStep
  PROVE  Whole(rt') /\ Advance(rt, rt')
<1>1. rt \in Runtimes
  BY DEF Sound
<1>2. ASSUME PrepareDeadline
      PROVE  Follows(rt, rt')
  BY <1>1, <1>2, PrepareTimeoutFollows DEF PrepareDeadline
<1>3. ASSUME StartedDeadline
      PROVE  Follows(rt, rt')
  BY <1>1, <1>3, StartedTimeoutFollows DEF StartedDeadline
<1>4. ASSUME TombstoneExpires
      PROVE  Follows(rt, rt')
  <2>1. PICK id \in rt.tombstones : rt' = [rt EXCEPT !.tombstones = rt.tombstones \ {id}]
    BY <1>4 DEF TombstoneExpires
  <2>2. /\ rt'.place = rt.place /\ rt'.caps = rt.caps /\ rt'.fenced = rt.fenced
        /\ rt'.barrier = rt.barrier /\ rt'.nextGen = rt.nextGen /\ rt'.nextRev = rt.nextRev
        /\ rt'.readiness = rt.readiness /\ rt'.pending = rt.pending /\ rt'.paused = rt.paused
    BY <1>1, <2>1 DEF Runtimes
  <2>3. Retires(rt, rt')
    BY <2>2 DEF Retires
  <2> QED
    BY <2>2, <2>3, CoordinatorFollows
<1>5. ASSUME NEW c \in Clients, PendingExpires(c)
      PROVE  Follows(rt, rt')
  BY <1>1, <1>5, DropPendingFollows DEF PendingExpires
<1>6. Follows(rt, rt')
  BY <1>2, <1>3, <1>4, <1>5 DEF TickStep
<1> QED
  BY <1>1, <1>6, FollowsWhole

\* The initial runtime has no member, no lifecycle and no evidence.
LEMMA InitWhole ==
  ASSUME Init
  PROVE  Whole(rt)
<1>1. /\ rt.barrier.phase = "None" /\ rt.readiness.live = FALSE
      /\ \A c \in Clients : ~IsMember(rt, c) /\ rt.place[c] = "New" /\ rt.pending[c] = NoPending
  BY DEF Init, InitialRuntime, NoBarrier, NoReadiness, IsMember, NoRecord
<1>2. Enrolled(rt) /\ RolesFollow(rt) /\ ExclusionsHold(rt) /\ PartsHold(rt)
  BY <1>1 DEF Enrolled, InCohortRoom, RolesFollow, ExclusionsHold, PartsHold
<1>3. Numbered(rt) /\ Linked(rt) /\ OwnerUnfenced(rt) /\ Fresh(rt)
  BY <1>1 DEF Numbered, Linked, OwnerUnfenced, Fresh, Active
<1>4. Staged(rt)
  BY <1>1, NoPendingEvidence DEF Staged
<1> QED
  BY <1>2, <1>3, <1>4 DEF Whole, Cohort, Steady

\* The invariant of the whole development.
Coherent == Sound(rt) /\ Whole(rt)

\* Every step keeps it, and advances the lifecycle or displaces it.
LEMMA StepCoherent ==
  ASSUME Coherent, [Next]_vars
  PROVE  Coherent' /\ (Advance(rt, rt') \/ Displaces(rt, rt'))
<1> USE DEF Coherent
<1>1. CASE UNCHANGED vars
  BY <1>1, StillAdvances DEF vars
<1>2. ASSUME NEW c \in Clients,
             MemberStep(c) \/ BarrierStep(c) \/ ReadinessStep(c) \/ TransportStep(c)
      PROVE  Coherent' /\ (Advance(rt, rt') \/ Displaces(rt, rt'))
  <2>1. Sound(rt')
    BY <1>2, MemberStepSafe, BarrierStepSafe, ReadinessStepSafe, TransportStepSafe
  <2>2. Whole(rt') /\ (Advance(rt, rt') \/ Displaces(rt, rt'))
    BY <1>2, MemberStepWhole, BarrierStepWhole, ReadinessStepWhole, TransportStepWhole
  <2> QED
    BY <2>1, <2>2
<1>3. CASE TickStep
  BY <1>3, TickStepSafe, TickStepWhole
<1> QED
  BY <1>1, <1>2, <1>3 DEF Next

\* The inductive invariant of the cohort.
LEMMA CoherentAlways == Spec => []Coherent
<1>1. Init => Coherent
  BY InitSound, InitWhole DEF Coherent
<1>2. Coherent /\ [Next]_vars => Coherent'
  BY StepCoherent
<1> QED
  BY <1>1, <1>2, PTL DEF Spec

-----------------------------------------------------------------------------
(* The theorems.                                                           *)

\* Whatever joins, leaves, switches rooms, renegotiates or is fenced, the coordinator
\* lists exactly the room's V2 sessions, exists exactly while there is one, and gives each
\* the role its capabilities entitle it to (`attach_`, `detach_readiness_membership`,
\* `reconcile_readiness_cohort_state`).
THEOREM MembershipFollowsSessions == Spec => []CohortFollowsSessions
<1>1. Coherent => CohortFollowsSessions
  <2> SUFFICES ASSUME Coherent
               PROVE  CohortFollowsSessions
    OBVIOUS
  <2>1. Sound(rt) /\ Enrolled(rt) /\ RolesFollow(rt)
    BY DEF Coherent, Whole, Cohort
  <2>2. ReadinessMembers(rt) = {c \in Clients : IsMember(rt, c)}
    BY DEF ReadinessMembers, IsMember
  <2>3. ReadinessMembers(rt) = ClientsInRoom(rt) \cap V2(rt)
    BY <2>1, <2>2 DEF Enrolled, InCohortRoom, ClientsInRoom, V2
  <2>4. rt.readiness.live => ReadinessMembers(rt) # {}
    BY <2>1, <2>2 DEF Sound, Populated
  <2>5. ReadinessMembers(rt) # {} => rt.readiness.live
    BY <2>1, <2>2 DEF Enrolled
  <2>6. rt.readiness.live \in BOOLEAN
    BY <2>1, Components DEF Sound, Readinesses
  <2>7. \A c \in ReadinessMembers(rt) \ rt.fenced :
          rt.readiness.part[c].role = "Required" <=> c \in StartCapable(rt)
    BY <2>1, <2>2 DEF RolesFollow
  <2> QED
    BY <2>3, <2>4, <2>5, <2>6, <2>7 DEF CohortFollowsSessions
<1> QED
  BY <1>1, CoherentAlways, PTL

\* A governed start that is being prepared has exactly the unfenced required cohort for
\* participants, its initiator aside, and a superseded transport never owns an active
\* lifecycle (`start_playback_barrier`, `recover_playback_barrier`,
\* `refresh_mixed_readiness_cohort`).
THEOREM StartFollowsCohort == Spec => []BarrierFollowsCohort
<1>1. Coherent => BarrierFollowsCohort
  <2> SUFFICES ASSUME Coherent
               PROVE  BarrierFollowsCohort
    OBVIOUS
  <2>1. PartsHold(rt) /\ OwnerUnfenced(rt)
    BY DEF Coherent, Whole, Cohort, Steady
  <2>2. RequiredParticipants(rt) = {c \in Clients : rt.readiness.part[c].role = "Required"}
    BY DEF RequiredParticipants
  <2> QED
    BY <2>1, <2>2 DEF BarrierFollowsCohort, PartsHold, OwnerUnfenced
<1> QED
  BY <1>1, CoherentAlways, PTL

\* Evidence that a player moved its transport is about the present: it contradicts the
\* canonical pause, its sender is a member, and a start that is being prepared retired it
\* (`advance_transport_authority_revision` and its callers).
THEOREM EvidenceIsCurrent == Spec => []StagedEvidenceIsCurrent
<1>1. Coherent => StagedEvidenceIsCurrent
  BY DEF Coherent, Whole, Steady, Staged, StagedEvidenceIsCurrent, ReadinessMembers, IsMember
<1> QED
  BY <1>1, CoherentAlways, PTL

\* A generation is prepared once and committed at most once, under one revision; it never
\* leaves a terminal phase, and generations only grow (`start_playback_barrier`,
\* `commit_playback_barrier` and every path that settles a lifecycle).
THEOREM LifecycleAdvances == Spec => LifecycleOnlyAdvances
<1> DEFINE A == /\ rt'.nextRev \in {rt.nextRev, rt.nextRev + 1}
                /\ rt'.barrier.gen \in {0, rt.barrier.gen} \/ rt'.barrier.gen = rt.nextGen + 1
                /\ rt'.barrier.gen = rt.barrier.gen =>
                     /\ PhaseRank(rt'.barrier) >= PhaseRank(rt.barrier)
                     /\ rt.barrier.rev # 0 => rt'.barrier.rev = rt.barrier.rev
<1>1. Coherent /\ [Next]_vars => [A]_vars
  <2> SUFFICES ASSUME Coherent, [Next]_vars
               PROVE  A
    OBVIOUS
  <2>1. Advance(rt, rt') \/ Displaces(rt, rt')
    BY StepCoherent
  <2>2. rt \in Runtimes /\ Numbered(rt)
    BY DEF Coherent, Sound, Whole, Steady
  <2>3. /\ rt.nextRev \in Nat /\ rt.nextGen \in Nat
        /\ rt.barrier.phase = "None" => rt.barrier.gen = 0 /\ rt.barrier.rev = 0
        /\ rt.barrier.gen \in Nat /\ rt.barrier.phase \in LifecyclePhases \cup {"None"}
    BY <2>2, Components, LifecycleOf DEF NoBarrier, Barriers, Lifecycles, LifecyclePhases
  <2>4. CASE Onward(rt, rt') /\ rt'.barrier.gen = rt.barrier.gen
    <3>1. rt'.nextRev \in {rt.nextRev, rt.nextRev + 1}
      BY <2>4 DEF Onward
    <3>2. rt.barrier.rev # 0 => rt'.barrier.rev = rt.barrier.rev
      BY <2>2, <2>4 DEF Onward, Numbered
    <3>3. PhaseRank(rt'.barrier) >= PhaseRank(rt.barrier)
      BY <2>3, <2>4 DEF Onward, PhaseRank, LifecyclePhases
    <3> QED
      BY <2>4, <3>1, <3>2, <3>3
  <2>5. CASE Forgotten(rt'.barrier) /\ rt'.nextRev \in {rt.nextRev, rt.nextRev + 1}
    <3>1. rt'.barrier.gen = rt.barrier.gen => rt.barrier.phase = "None"
      BY <2>2, <2>5 DEF Forgotten, Numbered
    <3>2. rt'.barrier.gen = rt.barrier.gen => PhaseRank(rt'.barrier) >= PhaseRank(rt.barrier)
      BY <2>5, <3>1 DEF Forgotten, PhaseRank
    <3> QED
      BY <2>3, <2>5, <3>1, <3>2 DEF Forgotten
  <2>6. CASE Displaces(rt, rt')
    <3>1. rt'.barrier.gen = rt.nextGen + 1 /\ rt'.nextRev = rt.nextRev
      BY <2>6 DEF Displaces
    <3>2. rt'.barrier.gen # rt.barrier.gen
      BY <2>2, <2>3, <3>1 DEF Numbered
    <3> QED
      BY <3>1, <3>2
  <2> QED
    BY <2>1, <2>3, <2>4, <2>5, <2>6 DEF Advance
<1> QED
  BY <1>1, CoherentAlways, PTL DEF Spec, LifecycleOnlyAdvances

\* An operation that another one displaced, or that is the current one, never opens a
\* second generation while it is remembered, however late a copy of its prepare arrives
\* (`start_playback_barrier` and its tombstones).
THEOREM DisplacedStayDisplaced == Spec => DisplacedStartsStayDisplaced
<1> DEFINE A == rt'.nextGen > rt.nextGen =>
                  LET id == rt'.barrier.req.id
                  IN /\ id \notin rt.tombstones
                     /\ rt.barrier.phase # "None" /\ id # 0 => id # rt.barrier.req.id
                     /\ rt'.barrier.gen = rt.nextGen + 1
                     /\ rt.barrier.phase # "None" =>
                          rt.barrier.req.id \in rt'.tombstones \cup {0}
<1>1. Coherent /\ [Next]_vars => [A]_vars
  <2> SUFFICES ASSUME Coherent, [Next]_vars
               PROVE  A
    OBVIOUS
  <2>1. Advance(rt, rt') \/ Displaces(rt, rt')
    BY StepCoherent
  <2>2. rt.nextGen \in Nat
    BY Components DEF Coherent, Sound
  <2>3. CASE Advance(rt, rt')
    BY <2>2, <2>3 DEF Advance
  <2>4. CASE Displaces(rt, rt')
    BY <2>4 DEF Displaces
  <2> QED
    BY <2>1, <2>3, <2>4
<1> QED
  BY <1>1, CoherentAlways, PTL DEF Spec, DisplacedStartsStayDisplaced

-----------------------------------------------------------------------------
(* The published gate and the starts that are due.                         *)

\* The published phase of the gate is the one that the runtime determines.
Refreshed(s) ==
  s.readiness.live /\ s.readiness.gen # 0 => s.readiness.gate = GateFor(s)

\* A transport that a recovery fenced has still to be closed.
Stale(s) ==
  \E c \in Clients :
    /\ s.place[c] = "Room" /\ c \in s.fenced
    /\ IsMember(s, c) \/ (s.barrier.phase = "Preparing" /\ c \in s.barrier.excluded)

GateHolds(s) == Refreshed(s) \/ Stale(s)

\* The room has just been evaluated.
Settled(s) == Refreshed(s) /\ ~StartDue(s)

\* The relation of a method that leaves no start due and no gate unpublished.
Attends(s, t) ==
  /\ StartDue(t) => StartDue(s)
  /\ GateHolds(s) => GateHolds(t)

\* Methods that run one after the other.
LEMMA AttendsTransitive ==
  ASSUME NEW s, NEW t, NEW u, Attends(s, t), Attends(t, u)
  PROVE  Attends(s, u)
  BY DEF Attends

\* An evaluated room has nothing to attend to, and nothing attends nothing.
LEMMA SettledAttends ==
  ASSUME NEW s, NEW t, Settled(t)
  PROVE  Attends(s, t)
  BY DEF Attends, Settled, GateHolds

\* The phase of the gate depends on the coordinator, on the phase of the lifecycle and,
\* during a start, on the members that block it.
LEMMA GateForDepends ==
  ASSUME NEW s, NEW t, t.readiness = s.readiness,
         t.barrier.phase = s.barrier.phase, t.barrier.rev = s.barrier.rev,
         t.barrier.gated = s.barrier.gated,
         s.barrier.phase = "Preparing" => (MixedRoomBlocksStart(t) <=> MixedRoomBlocksStart(s))
  PROVE  GateFor(t) = GateFor(s)
<1>1. RequiredParticipants(t) = RequiredParticipants(s)
  BY DEF RequiredParticipants
<1>2. \A reason : DegradedGate(t, reason) = DegradedGate(s, reason)
  BY DEF DegradedGate
<1>3. \A phase : OpenGate(t, phase) = OpenGate(s, phase)
  BY DEF OpenGate
<1>4. UncommittedEndGate(t) = UncommittedEndGate(s)
  BY <1>2 DEF UncommittedEndGate
<1>5. s.barrier.phase = "Preparing" => PreparingGate(t) = PreparingGate(s)
  BY <1>1, <1>2, <1>3 DEF PreparingGate
<1> QED
  BY <1>3, <1>4, <1>5 DEF GateFor

\* A start does not become due while its blockers stay and nobody becomes ready.
LEMMA DueDepends ==
  ASSUME NEW s \in Runtimes, NEW t, t.readiness = s.readiness, t.barrier = s.barrier,
         MixedRoomBlocksStart(s) => MixedRoomBlocksStart(t),
         \A c \in Clients : IsMember(s, c) /\ c \in ClientsInRoom(t) \cap StartCapable(t)
                              => c \in ClientsInRoom(s) \cap StartCapable(s),
         \A c \in Clients : ParticipantIsReady(t, c) => ParticipantIsReady(s, c),
         StartDue(t)
  PROVE  StartDue(s)
<1> DEFINE b == s.barrier
           present == {c \in Clients : b.part[c] # "Absent"}
           readyNow == {c \in present : ParticipantIsReady(t, c)}
           readyThen == {c \in present : ParticipantIsReady(s, c)}
<1>1. /\ s.readiness.live /\ b.phase = "Preparing" /\ PolicySatisfied(t) /\ GateOwnsPause(t)
  BY DEF StartDue
<1>2. GateOwnsPause(s)
  BY <1>1 DEF GateOwnsPause
<1>3. b \in Lifecycles /\ b.initiator \in Clients /\ b.req \in Requests
  BY <1>1, LifecycleOf DEF Lifecycles
<1>4. b.req.policy \in Policies /\ b.req.quorum \in Nat
  BY <1>3, RequestsAssumption
<1>5. CohortStartEligible(t)
  BY <1>1 DEF PolicySatisfied
<1>6. RequiredParticipants(t) = RequiredParticipants(s)
  BY DEF RequiredParticipants
<1>7. \A c \in RequiredParticipants(s) : IsMember(s, c)
  BY DEF RequiredParticipants, IsMember
<1>8. CohortStartEligible(s)
  BY <1>1, <1>5, <1>6, <1>7 DEF CohortStartEligible, RequiredParticipants
<1>9. CASE b.req.policy = "AllEligible"
  <2>1. \A c \in present : b.part[c] \in {"Degraded", "Disconnected"} \/ ParticipantIsReady(t, c)
    BY <1>1, <1>9 DEF PolicySatisfied
  <2> QED
    BY <1>1, <1>2, <1>8, <1>9, <2>1 DEF StartDue, PolicySatisfied
<1>10. CASE b.req.policy = "Controller"
  <2>1. b.initiator \in present /\ ParticipantIsReady(t, b.initiator)
    BY <1>1, <1>10 DEF PolicySatisfied
  <2> QED
    BY <1>1, <1>2, <1>3, <1>8, <1>10, <2>1 DEF StartDue, PolicySatisfied
<1>11. CASE b.req.policy = "Quorum"
  <2>1. Cardinality(readyNow) >= b.req.quorum
    BY <1>1, <1>11 DEF PolicySatisfied
  <2>2. IsFiniteSet(readyThen)
    BY ClientsAssumption, FS_Subset
  <2>3. readyNow \subseteq readyThen
    OBVIOUS
  <2> HIDE DEF readyNow
  <2>4. /\ Cardinality(readyNow) <= Cardinality(readyThen)
        /\ Cardinality(readyNow) \in Nat /\ Cardinality(readyThen) \in Nat
    BY <2>2, <2>3, FS_Subset, FS_CardinalityType
  <2>5. Cardinality(readyThen) >= b.req.quorum
    BY <1>4, <2>1, <2>4
  <2> QED
    BY <1>1, <1>2, <1>8, <1>11, <2>5 DEF StartDue, PolicySatisfied
<1> QED
  BY <1>4, <1>9, <1>10, <1>11 DEF Policies

\* A method that leaves the sessions, the lifecycle and the coordinator alone.
LEMMA ViewAttends ==
  ASSUME NEW s \in Runtimes, NEW t, t.place = s.place, t.fenced = s.fenced,
         StartCapable(t) = StartCapable(s), t.barrier = s.barrier, t.readiness = s.readiness
  PROVE  Attends(s, t) /\ (Settled(s) => Settled(t))
<1>1. MixedRoomBlocksStart(t) <=> MixedRoomBlocksStart(s)
  BY DEF MixedRoomBlocksStart, ClientsInRoom
<1>2. GateFor(t) = GateFor(s)
  BY <1>1, GateForDepends
<1>3. Refreshed(s) => Refreshed(t)
  BY <1>2 DEF Refreshed
<1>4. Stale(s) => Stale(t)
  BY DEF Stale, IsMember
<1>5. StartDue(t) => StartDue(s)
  <2>1. ClientsInRoom(t) = ClientsInRoom(s)
    BY DEF ClientsInRoom
  <2>2. \A c \in Clients : ParticipantIsReady(t, c) => ParticipantIsReady(s, c)
    BY <2>1 DEF ParticipantIsReady
  <2> QED
    BY <1>1, <2>1, <2>2, DueDepends
<1> QED
  BY <1>3, <1>4, <1>5 DEF Attends, GateHolds, Settled

\* A method that leaves the whole runtime alone.
LEMMA StillAttends ==
  ASSUME NEW s
  PROVE  Attends(s, s)
  BY DEF Attends

-----------------------------------------------------------------------------
(* Evaluating the room.                                                    *)

\* `refresh_readiness_gate_phase` publishes the phase that it determines: the reason of a
\* start that ended without a commit is kept when it is determined again.
LEMMA RefreshGateRefreshes ==
  ASSUME NEW s \in Runtimes
  PROVE  Refreshed(RefreshGate(s))
<1>1. CASE ~(s.readiness.live /\ s.readiness.gen # 0)
  BY <1>1 DEF RefreshGate, Refreshed
<1>2. CASE s.readiness.live /\ s.readiness.gen # 0
  <2> DEFINE g == GateFor(s)
             t == [s EXCEPT !.readiness.gate = g]
  <2>1. /\ t.place = s.place /\ t.caps = s.caps /\ t.fenced = s.fenced /\ t.barrier = s.barrier
        /\ t.readiness.live = s.readiness.live /\ t.readiness.gen = s.readiness.gen
        /\ t.readiness.owner = s.readiness.owner /\ t.readiness.part = s.readiness.part
        /\ t.readiness.gate = g
    BY DEF Runtimes, Readinesses
  <2>2. RefreshGate(s) = t
    BY <1>2 DEF RefreshGate
  <2> HIDE DEF t, g
  <2>3. RequiredParticipants(t) = RequiredParticipants(s)
    BY <2>1 DEF RequiredParticipants
  <2>4. \A reason : DegradedGate(t, reason) = DegradedGate(s, reason)
    BY <2>1 DEF DegradedGate
  <2>5. \A phase : OpenGate(t, phase) = OpenGate(s, phase)
    BY <2>1 DEF OpenGate
  <2>6. MixedRoomBlocksStart(t) <=> MixedRoomBlocksStart(s)
    BY <2>1 DEF MixedRoomBlocksStart, ClientsInRoom, StartCapable, V2, BarrierV1
  <2>7. PreparingGate(t) = PreparingGate(s)
    BY <2>1, <2>3, <2>4, <2>5, <2>6 DEF PreparingGate
  <2>8. g = UncommittedEndGate(s) => UncommittedEndGate(t) = g
    <3>1. DegradedGate(s, "Cancelled").phase = "Degraded"
          /\ DegradedGate(s, "Cancelled").gen = s.readiness.gen
      BY DEF DegradedGate
    <3> QED
      BY <2>1, <2>4, <3>1 DEF UncommittedEndGate
  <2>9. GateFor(t) = g
    BY <2>1, <2>5, <2>7, <2>8 DEF GateFor, g
  <2> QED
    BY <2>1, <2>2, <2>9 DEF Refreshed
<1> QED
  BY <1>1, <1>2

\* What a commit leaves behind.
LEMMA CommitRefreshes ==
  ASSUME NEW s \in Runtimes, NEW timedOut \in BOOLEAN, s.barrier.phase = "Preparing",
         ~CommitBlocked(s)
  PROVE  LET t == Commit(s, timedOut)
         IN t.barrier.phase = "Committed" /\ (Linked(t) => Refreshed(t))
<1> DEFINE revision == s.nextRev + 1
           committed == [s.barrier EXCEPT
                           !.part = [c \in Clients |-> PhaseAtCommit(@[c], timedOut)],
                           !.phase = "Committed", !.rev = revision,
                           !.gated = s.readiness.live]
           u == [s EXCEPT !.barrier = committed, !.nextRev = revision, !.paused = FALSE]
           v == RetirePendingTransport(u)
           t == MarkGateCommitted(v)
           gate == [phase |-> "Committed", gen |-> v.barrier.gen, reason |-> "None"]
<1>1. s.barrier \in Lifecycles
  BY LifecycleOf
<1>2. /\ committed.phase = "Committed" /\ committed.gated = s.readiness.live
      /\ committed.gen = s.barrier.gen
  BY <1>1 DEF Lifecycles
<1> HIDE DEF committed
<1>3. v.barrier = committed /\ v.readiness = s.readiness
  BY DEF RetirePendingTransport, Runtimes
<1>4. t = Commit(s, timedOut)
  BY DEF Commit, committed
<1>5. v \in [place : {v.place}, caps : {v.caps}, seq : {v.seq}, nextSeq : {v.nextSeq},
             fenced : {v.fenced}, nonce : {v.nonce}, tombstones : {v.tombstones},
             paused : {v.paused}, barrier : {v.barrier}, readiness : {v.readiness},
             pending : {v.pending}, detached : {v.detached}, nextGen : {v.nextGen},
             nextRev : {v.nextRev}]
  BY DEF RetirePendingTransport, Runtimes
<1> HIDE DEF v
<1>6. CASE ~s.readiness.live
  <2>1. t = v
    BY <1>3, <1>6 DEF MarkGateCommitted
  <2> QED
    BY <1>2, <1>3, <1>4, <1>6, <2>1 DEF Refreshed
<1>7. CASE s.readiness.live
  <2>1. /\ t.barrier = committed /\ t.readiness.gate = gate
        /\ t.readiness.live = s.readiness.live /\ t.readiness.gen = s.readiness.gen
    <3>1. s.readiness \in Readinesses
      BY Components
    <3> QED
      BY <1>3, <1>5, <1>7, <3>1 DEF MarkGateCommitted, RetirePendingTransport, SetGateAndOwner, Readinesses
  <2> HIDE DEF t
  <2>2. Linked(t) => s.readiness.gen = s.barrier.gen
    BY <1>2, <1>7, <2>1 DEF Linked, Active
  <2>3. GateFor(t) = OpenGate(t, "Committed")
    BY <1>2, <1>7, <2>1 DEF GateFor
  <2>4. Linked(t) => OpenGate(t, "Committed") = gate
    BY <1>2, <1>3, <2>1, <2>2 DEF OpenGate
  <2> QED
    BY <1>2, <1>4, <2>1, <2>3, <2>4 DEF Refreshed
<1> QED
  BY <1>6, <1>7

\* `maybe_commit_readiness_gate` leaves no start due, and publishes its commit.
LEMMA MaybeCommitAttends ==
  ASSUME NEW s \in Runtimes, Linked(MaybeCommit(s))
  PROVE  LET t == MaybeCommit(s)
         IN ~StartDue(t) /\ (Refreshed(s) => Refreshed(t)) /\ (GateHolds(s) => GateHolds(t))
<1> DEFINE t == MaybeCommit(s)
<1>1. CASE s.barrier.phase = "Preparing" /\ PolicySatisfied(s) /\ ~CommitBlocked(s)
  <2>1. t = Commit(s, FALSE)
    BY <1>1 DEF MaybeCommit
  <2>2. Refreshed(t) /\ t.barrier.phase = "Committed"
    BY <1>1, <2>1, CommitRefreshes
  <2> HIDE DEF t
  <2> QED
    BY <2>2 DEF StartDue, GateHolds, t
<1>2. CASE ~(s.barrier.phase = "Preparing" /\ PolicySatisfied(s) /\ ~CommitBlocked(s))
  <2>1. t = s
    BY <1>2 DEF MaybeCommit, Commit
  <2>2. ~StartDue(s)
    BY <1>2 DEF StartDue, CommitBlocked
  <2> QED
    BY <2>1, <2>2
<1> QED
  BY <1>1, <1>2

\* Both, one after the other, as the readiness handlers end.
LEMMA EvaluatedSettles ==
  ASSUME NEW t, Evaluated(t), Linked(t)
  PROVE  Settled(t)
<1>1. PICK u \in Runtimes : t = MaybeCommit(RefreshGate(u))
  BY DEF Evaluated
<1> DEFINE v == RefreshGate(u)
<1>2. v \in Runtimes /\ Refreshed(v)
  BY RefreshGateType, RefreshGateRefreshes
<1>3. t = MaybeCommit(v)
  BY <1>1
<1> HIDE DEF v
<1> QED
  BY <1>2, <1>3, MaybeCommitAttends DEF Settled

-----------------------------------------------------------------------------
(* A room that prepares no start.                                          *)

\* The relation of a method that leaves a room preparing nothing.
Rests(s, t) ==
  /\ t.barrier.phase # "Preparing"
  /\ GateHolds(s) => GateHolds(t)

\* In such a room no start is due.
LEMMA RestsAttends ==
  ASSUME NEW s, NEW t, Rests(s, t)
  PROVE  Attends(s, t)
  BY DEF Rests, Attends, StartDue

\* Methods that run one after the other.
LEMMA RestsTransitive ==
  ASSUME NEW s, NEW t, NEW u, Rests(s, t), Rests(t, u)
  PROVE  Rests(s, u)
  BY DEF Rests

\* Outside a start the gate depends on nothing but the phase of the lifecycle: the owner
\* of the pause, the participants and the transport may change.
LEMMA IdleRests ==
  ASSUME NEW s, NEW t, t.place = s.place, t.fenced = s.fenced,
         t.readiness.live = s.readiness.live, t.readiness.gen = s.readiness.gen,
         t.readiness.gate = s.readiness.gate, t.readiness.part = s.readiness.part,
         t.barrier.rev = s.barrier.rev, s.barrier.phase # "Preparing",
         \/ t.barrier.phase = s.barrier.phase /\ t.barrier.gated = s.barrier.gated
         \/ s.barrier.phase = "AwaitingDecision" /\ t.barrier.phase = "Degraded"
  PROVE  Rests(s, t)
<1>1. OpenGate(t, "Committed") = OpenGate(s, "Committed")
  BY DEF OpenGate
<1>2. UncommittedEndGate(t) = UncommittedEndGate(s)
  BY DEF UncommittedEndGate, DegradedGate
<1>3. GateFor(t) = GateFor(s)
  BY <1>1, <1>2 DEF GateFor
<1>4. Refreshed(s) => Refreshed(t)
  BY <1>3 DEF Refreshed
<1>5. Stale(s) => Stale(t)
  BY DEF Stale, IsMember
<1> QED
  BY <1>4, <1>5 DEF Rests, GateHolds

\* `set_readiness_pause_owner` outside a start.
LEMMA SetPauseOwnerRests ==
  ASSUME NEW s \in Runtimes, NEW o, s.barrier.phase # "Preparing"
  PROVE  Rests(s, SetPauseOwner(s, o))
<1> DEFINE u == [s EXCEPT !.readiness.owner = o]
           v == RetirePendingTransport(u)
<1>1. /\ v.place = s.place /\ v.fenced = s.fenced /\ v.barrier = s.barrier
      /\ v.readiness.live = s.readiness.live /\ v.readiness.gen = s.readiness.gen
      /\ v.readiness.gate = s.readiness.gate /\ v.readiness.part = s.readiness.part
  BY DEF RetirePendingTransport, Runtimes, Readinesses
<1>2. SetPauseOwner(s, o) \in {s, v}
  BY DEF SetPauseOwner
<1> HIDE DEF v
<1> QED
  BY <1>1, <1>2, IdleRests

\* A decision that was awaited is taken.
LEMMA RetireAwaitingDecisionRests ==
  ASSUME NEW s \in Runtimes, NEW c \in Clients, s.barrier.phase # "Preparing"
  PROVE  Rests(s, RetireAwaitingDecision(s, c))
<1> DEFINE u == [s EXCEPT !.barrier.phase = "Degraded"]
<1>1. CASE RetireAwaitingDecision(s, c) = s
  BY <1>1 DEF Rests
<1>2. CASE s.barrier.phase = "AwaitingDecision" /\ RetireAwaitingDecision(s, c) = u
  <2>1. s.barrier \in Lifecycles
    BY <1>2, LifecycleOf
  <2>2. /\ u.place = s.place /\ u.fenced = s.fenced /\ u.readiness = s.readiness
        /\ u.barrier.phase = "Degraded" /\ u.barrier.rev = s.barrier.rev
    BY <2>1 DEF Runtimes, Lifecycles
  <2> HIDE DEF u
  <2> QED
    BY <1>2, <2>2, IdleRests
<1> QED
  BY <1>1, <1>2 DEF RetireAwaitingDecision

\* `claim_user_pause_ownership` publishes the gate that it leaves.
LEMMA ClaimUserPauseRests ==
  ASSUME NEW s \in Runtimes, NEW c \in Clients
  PROVE  /\ Refreshed(ClaimUserPause(s, c))
         /\ s.barrier.phase # "Preparing" => Rests(s, ClaimUserPause(s, c))
<1> DEFINE u == SetPauseOwner(RetireCommittedForUserPause(s), UserOwner(c))
           t == ClaimUserPause(s, c)
<1>1. u \in Runtimes
  BY RetireCommittedForUserPauseType, OwnerTypes, SetPauseOwnerType
<1>2. t = RefreshGate(u)
  BY DEF ClaimUserPause
<1> HIDE DEF u
<1>3. Refreshed(t) /\ Follows(s, t)
  BY <1>1, <1>2, RefreshGateRefreshes, ClaimUserPauseFollows
<1> HIDE DEF t
<1>4. s.barrier.phase # "Preparing" => t.barrier.phase # "Preparing"
  BY <1>3 DEF Follows, Tracks, Onward
<1> QED
  BY <1>3, <1>4 DEF Rests, GateHolds, t

\* The canonical transport moves.
LEMMA MoveTransportRests ==
  ASSUME NEW s \in Runtimes, NEW p \in BOOLEAN, s.barrier.phase # "Preparing"
  PROVE  Rests(s, MoveTransport(s, p))
<1> DEFINE u == RetirePendingTransport([s EXCEPT !.paused = p])
<1>1. /\ u \in Runtimes /\ u.place = s.place /\ u.fenced = s.fenced
      /\ u.barrier = s.barrier /\ u.readiness = s.readiness
  BY RetimeFollows DEF RetirePendingTransport, Runtimes
<1>2. MoveTransport(s, p) \in {u, SetPauseOwner(u, NoOwner)}
  BY DEF MoveTransport
<1> HIDE DEF u
<1>3. Rests(s, u)
  BY <1>1, IdleRests
<1>4. Rests(s, SetPauseOwner(u, NoOwner))
  BY <1>1, <1>3, SetPauseOwnerRests, RestsTransitive
<1> QED
  BY <1>2, <1>3, <1>4

\* Staged evidence comes and goes.
LEMMA PendingAttends ==
  ASSUME NEW s \in Runtimes, NEW c \in Clients, NEW e
  PROVE  LET t == [s EXCEPT !.pending[c] = e]
         IN /\ t.barrier = s.barrier /\ Attends(s, t)
            /\ s.barrier.phase # "Preparing" => Rests(s, t)
<1> DEFINE t == [s EXCEPT !.pending[c] = e]
<1>1. /\ t.place = s.place /\ t.fenced = s.fenced /\ t.caps = s.caps
      /\ t.barrier = s.barrier /\ t.readiness = s.readiness
  BY DEF Runtimes
<1> HIDE DEF t
<1>2. StartCapable(t) = StartCapable(s)
  BY <1>1 DEF StartCapable, V2, BarrierV1
<1>3. /\ t.barrier = s.barrier /\ Attends(s, t)
      /\ s.barrier.phase # "Preparing" => Rests(s, t)
  BY <1>1, <1>2, ViewAttends, IdleRests
<1> QED
  BY <1>3 DEF t

\* `handle_state` for both kinds of player.
LEMMA TransportRests ==
  ASSUME NEW s \in Runtimes, NEW c \in Clients, NEW p \in BOOLEAN,
         s.barrier.phase # "Preparing"
  PROVE  Rests(s, V2Transport(s, c, p)) /\ Rests(s, SyncplayTransport(s, c, p))
<1> DEFINE consumed == [s EXCEPT !.pending[c] = NoPending]
           decided == RetireAwaitingDecision(consumed, c)
           claimed == ClaimUserPause(decided, c)
           automatic == AutomaticTransportOwner(s, c, p)
           owned == SetPauseOwner(consumed, automatic)
           observed == [s EXCEPT !.pending[c] = [paused |-> p, evidence |-> "Observed"]]
           resolved == RetireAwaitingDecision(s, c)
           taken == ClaimUserPause(resolved, c)
<1>1. /\ consumed \in Runtimes /\ Rests(s, consumed) /\ Rests(s, observed)
      /\ consumed.barrier = s.barrier
  BY DropPendingFollows, PendingAttends
<1>2. automatic \in Owners
  BY AutomaticTransportOwnerType
<1>3. \/ V2Transport(s, c, p) = observed
      \/ \E u \in {consumed, decided, claimed, owned} :
           V2Transport(s, c, p) = MoveTransport(u, p)
  BY DEF V2Transport
<1>4. \E u \in {s, resolved, taken} : SyncplayTransport(s, c, p) = MoveTransport(u, p)
  BY DEF SyncplayTransport
<1> HIDE DEF consumed, automatic, observed
<1>5. /\ decided \in Runtimes /\ Rests(s, decided)
      /\ resolved \in Runtimes /\ Rests(s, resolved)
  BY <1>1, RetireAwaitingDecisionType, RetireAwaitingDecisionRests, RestsTransitive
<1> HIDE DEF decided, resolved
<1>6. decided.barrier.phase # "Preparing" /\ resolved.barrier.phase # "Preparing"
  BY <1>5 DEF Rests
<1>7. /\ claimed \in Runtimes /\ Rests(s, claimed)
      /\ taken \in Runtimes /\ Rests(s, taken)
  BY <1>5, <1>6, ClaimUserPauseType, ClaimUserPauseRests, RestsTransitive
<1>8. owned \in Runtimes /\ Rests(s, owned)
  BY <1>1, <1>2, SetPauseOwnerType, SetPauseOwnerRests, RestsTransitive
<1> HIDE DEF claimed, taken, owned
<1>9. Rests(s, s)
  BY DEF Rests
<1>10. ASSUME NEW u \in {s, consumed, decided, claimed, owned, resolved, taken}
       PROVE  Rests(s, MoveTransport(u, p))
  <2>1. u \in Runtimes /\ Rests(s, u)
    BY <1>1, <1>5, <1>7, <1>8, <1>9
  <2>2. u.barrier.phase # "Preparing"
    BY <2>1 DEF Rests
  <2> QED
    BY <2>1, <2>2, MoveTransportRests, RestsTransitive
<1> QED
  BY <1>1, <1>3, <1>4, <1>10

-----------------------------------------------------------------------------
(* The barrier's methods.                                                  *)

\* The gate does not depend on the phases of the participants.
LEMMA ParticipantHolds ==
  ASSUME NEW s \in Runtimes, NEW c \in Clients, NEW p
  PROVE  LET t == [s EXCEPT !.barrier.part[c] = p]
         IN /\ GateHolds(s) => GateHolds(t)
            /\ t.barrier.phase = s.barrier.phase /\ t.barrier.rev = s.barrier.rev
            /\ t.place = s.place /\ t.fenced = s.fenced /\ t.readiness = s.readiness
<1> DEFINE t == [s EXCEPT !.barrier.part[c] = p]
<1>1. s.barrier \in Barriers
  BY Components
<1>2. /\ t.place = s.place /\ t.caps = s.caps /\ t.fenced = s.fenced
      /\ t.readiness = s.readiness
      /\ t.barrier.phase = s.barrier.phase /\ t.barrier.rev = s.barrier.rev
      /\ t.barrier.gated = s.barrier.gated /\ t.barrier.excluded = s.barrier.excluded
  BY <1>1 DEF Runtimes, Barriers, Lifecycles, NoBarrier
<1> HIDE DEF t
<1>3. MixedRoomBlocksStart(t) <=> MixedRoomBlocksStart(s)
  BY <1>2 DEF MixedRoomBlocksStart, ClientsInRoom, StartCapable, V2, BarrierV1
<1>4. GateFor(t) = GateFor(s)
  BY <1>2, <1>3, GateForDepends
<1>5. GateHolds(s) => GateHolds(t)
  BY <1>2, <1>4 DEF GateHolds, Refreshed, Stale, IsMember
<1>6. /\ GateHolds(s) => GateHolds(t)
      /\ t.barrier.phase = s.barrier.phase /\ t.barrier.rev = s.barrier.rev
      /\ t.place = s.place /\ t.fenced = s.fenced /\ t.readiness = s.readiness
  BY <1>2, <1>5
<1> QED
  BY <1>6 DEF t

\* A participant's confirmation, and its loss: the policy is evaluated at once.
LEMMA ParticipantAttends ==
  ASSUME NEW s \in Runtimes, Linked(s), NEW c \in Clients, NEW g \in Nat,
         NEW isReady \in BOOLEAN
  PROVE  /\ Attends(s, RecordReady(s, c, g, isReady))
         /\ Attends(s, MarkParticipantDisconnected(s, c))
<1> DEFINE p == IF isReady THEN "Ready" ELSE "Pending"
           recorded == [s EXCEPT !.barrier.part[c] = p]
           marked == [s EXCEPT !.barrier.part[c] = "Disconnected"]
<1>1. p \in ParticipantPhases /\ p # "Absent"
  BY DEF ParticipantPhases
<1>2. recorded.barrier.phase = s.barrier.phase
  BY ParticipantHolds
<1>3. RecordReady(s, c, g, isReady) = s \/ /\ s.barrier.phase = "Preparing" /\ s.barrier.part[c] # "Absent"
                                           /\ RecordReady(s, c, g, isReady) = MaybeCommit(recorded)
  BY <1>2 DEF RecordReady, MaybeCommit
<1>4. MarkParticipantDisconnected(s, c) = s
        \/ /\ s.barrier.phase # "None" /\ s.barrier.part[c] # "Absent"
           /\ MarkParticipantDisconnected(s, c) = MaybeCommit(marked)
  BY DEF MarkParticipantDisconnected, Active
<1> HIDE DEF p
<1>5. ASSUME s.barrier.phase # "None", s.barrier.part[c] # "Absent",
             NEW q \in ParticipantPhases, q # "Absent"
      PROVE  Attends(s, MaybeCommit([s EXCEPT !.barrier.part[c] = q]))
  <2> DEFINE u == [s EXCEPT !.barrier.part[c] = q]
  <2>1. u \in Runtimes /\ Follows(s, u) /\ (GateHolds(s) => GateHolds(u))
    BY <1>5, ParticipantRuntime, ParticipantFollows, ParticipantHolds
  <2> HIDE DEF u
  <2>2. Linked(MaybeCommit(u))
    <3>1. Follows(u, MaybeCommit(u))
      BY <2>1, MaybeCommitFollows
    <3> QED
      BY <2>1, <3>1, TracksKeeps DEF Follows
  <2>3. Attends(s, MaybeCommit(u))
    BY <2>1, <2>2, MaybeCommitAttends DEF Attends
  <2> QED
    BY <2>3 DEF u
<1>6. "Disconnected" \in ParticipantPhases
  BY DEF ParticipantPhases
<1>7. s.barrier.phase # "None" /\ s.barrier.part[c] # "Absent" =>
        Attends(s, MaybeCommit(recorded)) /\ Attends(s, MaybeCommit(marked))
  BY <1>1, <1>5, <1>6
<1> HIDE DEF recorded, marked
<1> QED
  BY <1>3, <1>4, <1>7, StillAttends

\* A committed start ends: its gate is published as inactive.
LEMMA ClearedRests ==
  ASSUME NEW s \in Runtimes, NEW x \in Runtimes, Numbered(s), s.barrier.phase = "Committed",
         x.place = s.place, x.fenced = s.fenced, x.readiness = s.readiness,
         x.barrier.phase \in {"Complete", "Degraded"}, x.barrier.rev = s.barrier.rev
  PROVE  Rests(s, ClearGate(x))
<1> DEFINE t == ClearGate(x)
           r == x.readiness
           released == IF r.owner.kind = "ReadinessStartGate" THEN NoOwner ELSE r.owner
<1>1. /\ t.place = s.place /\ t.fenced = s.fenced /\ t.barrier = x.barrier
      /\ t.readiness.live = s.readiness.live /\ t.readiness.gen = s.readiness.gen
      /\ t.readiness.part = s.readiness.part
      /\ t.readiness.gate = IF r.live /\ r.gate.phase # "Inactive" THEN InactiveGate ELSE r.gate
  <2>1. CASE ~r.live \/ r.gate.phase = "Inactive"
    <3>1. t = x
      BY <2>1 DEF ClearGate
    <3> QED
      BY <2>1, <3>1
  <2>2. CASE r.live /\ r.gate.phase # "Inactive"
    <3>1. t = SetGateAndOwner(x, InactiveGate, released)
      BY <2>2 DEF ClearGate
    <3> HIDE DEF released
    <3>2. /\ t.place = x.place /\ t.fenced = x.fenced /\ t.barrier = x.barrier
          /\ t.readiness.live = x.readiness.live /\ t.readiness.gen = x.readiness.gen
          /\ t.readiness.part = x.readiness.part /\ t.readiness.gate = InactiveGate
      BY <3>1 DEF SetGateAndOwner, Runtimes, Readinesses
    <3> HIDE DEF t
    <3> QED
      BY <2>2, <3>2
  <2> QED
    BY <2>1, <2>2
<1>2. s.barrier.rev # 0
  BY DEF Numbered
<1> HIDE DEF t
<1>3. GateFor(t) = InactiveGate
  BY <1>1, <1>2 DEF GateFor
<1>4. GateFor(s) \in {OpenGate(s, "Committed"), InactiveGate}
  BY DEF GateFor
<1>5. OpenGate(s, "Committed").phase = "Committed"
  BY DEF OpenGate
<1>6. Refreshed(s) => Refreshed(t)
  BY <1>1, <1>3, <1>4, <1>5 DEF Refreshed
<1>7. Stale(s) => Stale(t)
  BY <1>1 DEF Stale, IsMember
<1>8. Rests(s, t)
  BY <1>1, <1>6, <1>7 DEF Rests, GateHolds
<1> QED
  BY <1>8 DEF t

\* What a change of phase leaves alone.
LEMMA EnterPhaseKeeps ==
  ASSUME NEW s \in Runtimes, s.barrier.phase # "None", NEW h, NEW part
  PROVE  LET t == EnterPhase(s, h, part)
         IN /\ t.place = s.place /\ t.fenced = s.fenced /\ t.readiness = s.readiness
            /\ t.barrier.phase = h /\ t.barrier.rev = s.barrier.rev
<1>1. s.barrier \in Lifecycles
  BY LifecycleOf
<1> QED
  BY <1>1 DEF EnterPhase, Runtimes, Lifecycles

\* The acknowledgement of a participant that started.
LEMMA RecordStartedAttends ==
  ASSUME NEW s \in Runtimes, Numbered(s), NEW c \in Clients, NEW g \in Nat, NEW rev \in Nat
  PROVE  Attends(s, RecordStarted(s, c, g, rev))
<1> DEFINE recorded == [s EXCEPT !.barrier.part[c] = "Started"]
           complete == [recorded EXCEPT !.barrier.phase = "Complete"]
<1>1. CASE RecordStarted(s, c, g, rev) = s
  BY <1>1, StillAttends
<1>2. CASE /\ s.barrier.phase = "Committed" /\ s.barrier.part[c] # "Absent"
           /\ RecordStarted(s, c, g, rev) \in {recorded, ClearGate(complete)}
  <2>1. /\ recorded \in Runtimes /\ (GateHolds(s) => GateHolds(recorded))
        /\ recorded.barrier.phase = "Committed" /\ recorded.barrier.rev = s.barrier.rev
        /\ recorded.place = s.place /\ recorded.fenced = s.fenced
        /\ recorded.readiness = s.readiness
    BY <1>2, ParticipantRuntime, ParticipantHolds DEF ParticipantPhases
  <2> HIDE DEF recorded
  <2>2. recorded.barrier \in Lifecycles
    BY <2>1, LifecycleOf
  <2>3. /\ complete \in Runtimes /\ complete.barrier.phase = "Complete"
        /\ complete.barrier.rev = s.barrier.rev
        /\ complete.place = s.place /\ complete.fenced = s.fenced
        /\ complete.readiness = s.readiness
    <3>1. complete \in Runtimes
      BY <2>1, PhaseRuntime DEF LifecyclePhases
    <3>2. complete.barrier.phase = "Complete" /\ complete.barrier.rev = recorded.barrier.rev
      BY <2>1, <2>2 DEF Lifecycles, Runtimes
    <3>3. complete.place = recorded.place /\ complete.fenced = recorded.fenced
          /\ complete.readiness = recorded.readiness
      BY <2>1 DEF Runtimes
    <3> QED
      BY <2>1, <3>1, <3>2, <3>3
  <2> HIDE DEF complete
  <2>4. Rests(s, ClearGate(complete))
    BY <1>2, <2>3, ClearedRests
  <2>5. Rests(s, recorded)
    BY <2>1 DEF Rests
  <2> QED
    BY <1>2, <2>4, <2>5, RestsAttends
<1> QED
  BY <1>1, <1>2 DEF RecordStarted

\* The deadline of the `started` acknowledgements.
LEMMA StartedTimeoutAttends ==
  ASSUME NEW s \in Runtimes, Numbered(s), s.barrier.phase = "Committed"
  PROVE  Attends(s, StartedTimeout(s))
<1> DEFINE part == [c \in Clients |->
                      IF s.barrier.part[c] \in {"Pending", "Ready"}
                      THEN "StartedAckTimedOut" ELSE s.barrier.part[c]]
           t == EnterPhase(s, "Degraded", part)
<1>1. part \in [Clients -> ParticipantPhases]
  BY LifecycleOf DEF ParticipantPhases
<1>2. StartedTimeout(s) = ClearGate(t)
  BY DEF StartedTimeout
<1> HIDE DEF part
<1>3. /\ t \in Runtimes /\ t.place = s.place /\ t.fenced = s.fenced
      /\ t.readiness = s.readiness /\ t.barrier.phase = "Degraded"
      /\ t.barrier.rev = s.barrier.rev
  BY <1>1, EnterPhaseType, EnterPhaseKeeps DEF LifecyclePhases
<1> HIDE DEF t
<1> QED
  BY <1>2, <1>3, ClearedRests, RestsAttends

\* The prepare deadline commits and publishes, or degrades and publishes.
LEMMA PrepareTimeoutAttends ==
  ASSUME NEW s \in Runtimes, Numbered(s), Linked(s), s.barrier.phase = "Preparing"
  PROVE  Attends(s, PrepareTimeout(s))
<1>1. ASSUME NEW h \in {"Degraded", "AwaitingDecision"}
      PROVE  Attends(s, MarkGateDegraded(FinishPrepareTimeout(s, h), "TimedOut"))
  <2> DEFINE part == [c \in Clients |->
                        IF s.barrier.part[c] \in {"Absent", "Ready"}
                        THEN s.barrier.part[c] ELSE "PrepareTimedOut"]
             u == FinishPrepareTimeout(s, h)
             t == MarkGateDegraded(u, "TimedOut")
             gate == DegradedGate(u, "TimedOut")
  <2>1. u \in Runtimes /\ u = EnterPhase(s, h, part)
    BY FinishPrepareTimeoutType DEF FinishPrepareTimeout, LifecyclePhases
  <2> HIDE DEF u, part
  <2>2. u.barrier.phase = h /\ u.barrier.rev = 0
    BY <2>1, EnterPhaseKeeps DEF Numbered
  <2>3. CASE ~u.readiness.live \/ u.readiness.gen = 0
    <3>1. t = u
      BY <2>3 DEF MarkGateDegraded
    <3>2. Settled(u)
      BY <2>2, <2>3 DEF Settled, Refreshed, StartDue
    <3> QED
      BY <3>1, <3>2, SettledAttends DEF u
  <2>4. CASE u.readiness.live /\ u.readiness.gen # 0
    <3>1. /\ t.barrier = u.barrier /\ t.readiness.gate = gate
          /\ t.readiness.gen = u.readiness.gen
      BY <2>1, <2>4 DEF MarkGateDegraded, Runtimes, Readinesses
    <3>2. gate.phase = "Degraded" /\ gate.gen = u.readiness.gen
      BY DEF DegradedGate
    <3> HIDE DEF t, gate
    <3>3. GateFor(t) = UncommittedEndGate(t)
      BY <2>2, <3>1 DEF GateFor
    <3>4. UncommittedEndGate(t) = gate
      BY <3>1, <3>2 DEF UncommittedEndGate
    <3>5. Settled(t)
      BY <2>2, <3>1, <3>3, <3>4 DEF Settled, Refreshed, StartDue
    <3> QED
      BY <3>5, SettledAttends DEF t, u
  <2> QED
    BY <2>3, <2>4
<1>2. ASSUME ~CommitBlocked(s)
      PROVE  Attends(s, Commit(s, TRUE))
  <2> DEFINE t == Commit(s, TRUE)
  <2>1. Follows(s, t) /\ t.barrier.phase = "Committed" /\ (Linked(t) => Refreshed(t))
    BY <1>2, CommitRefreshes, CommitFollows
  <2> HIDE DEF t
  <2>2. Linked(t)
    BY <2>1, TracksKeeps DEF Follows
  <2>3. Settled(t)
    BY <2>1, <2>2 DEF Settled, StartDue
  <2> QED
    BY <2>3, SettledAttends DEF t
<1>3. s.barrier.req.timeoutAction \in TimeoutActions
  BY LifecycleOf, RequestsAssumption
<1> QED
  BY <1>1, <1>2, <1>3 DEF PrepareTimeout, TimeoutActions

-----------------------------------------------------------------------------
(* A new generation, and a newer owner of the present one.                 *)

\* A generation opens with nobody's evidence, so it is not due.
LEMMA OpenGenerationAttends ==
  ASSUME NEW s \in Runtimes, NEW c \in Clients, NEW q \in Requests, Enrolled(s)
  PROVE  Settled(OpenGeneration(s, c, q))
<1> DEFINE t == OpenGeneration(s, c, q)
<1>1. Opens(s, t, c, q) /\ (s.readiness.live => Published(t))
  BY OpenGenerationEffect, OpenGenerationType
<1> HIDE DEF t
<1>2. CASE ~s.readiness.live
  <2>1. ~t.readiness.live
    BY <1>1, <1>2 DEF Opens
  <2>2. Settled(t)
    BY <2>1 DEF Settled, Refreshed, StartDue
  <2> QED
    BY <2>2 DEF t
<1>3. CASE s.readiness.live
  <2>1. Published(t)
    BY <1>1, <1>3
  <2>2. Refreshed(t)
    BY <2>1, RefreshGateRefreshes DEF Published
  <2>3. \A d \in RequiredParticipants(t) : t.readiness.part[d].startEligible = FALSE
    BY <1>1, <1>3 DEF Opens, RequiredParticipants, IsMember
  <2>4. ~CohortStartEligible(t)
    BY <1>1, <1>3, <2>3 DEF CohortStartEligible, Opens
  <2>5. ~StartDue(t)
    BY <2>4 DEF StartDue, PolicySatisfied
  <2> QED
    BY <2>2, <2>5 DEF Settled, t
<1> QED
  BY <1>2, <1>3

\* A recovery keeps what the gate depends on, and hands the lifecycle to a later session.
LEMMA RebindHandsOver ==
  ASSUME NEW s \in Runtimes, s.barrier.phase # "None", NEW c \in Clients
  PROVE  LET t == Rebind(s, c)
         IN t = s \/ /\ t.barrier.gated = s.barrier.gated
                     /\ t.barrier.initiatorSeq # s.barrier.initiatorSeq
<1> DEFINE t == Rebind(s, c)
<1>1. CASE s.seq[c] <= s.barrier.initiatorSeq
  BY <1>1 DEF Rebind
<1>2. CASE ~(s.seq[c] <= s.barrier.initiatorSeq)
  <2>1. s.barrier \in Lifecycles /\ s.seq[c] \in Nat /\ s.barrier.initiatorSeq \in Nat
    BY LifecycleOf, Components DEF Lifecycles
  <2>2. t.barrier.gated = s.barrier.gated /\ t.barrier.initiatorSeq = s.seq[c]
    BY <1>2, <2>1 DEF Rebind, Lifecycles, Runtimes
  <2> HIDE DEF t
  <2> QED
    BY <1>2, <2>1, <2>2 DEF t
<1> QED
  BY <1>1, <1>2

\* The transport that it fences in the room has still to be closed.
LEMMA RebindHolds ==
  ASSUME NEW s \in Runtimes, s.barrier.phase # "None", NEW c \in Clients, Whole(s),
         GateHolds(s)
  PROVE  GateHolds(Rebind(s, c))
<1> DEFINE t == Rebind(s, c)
           old == s.barrier.initiator
<1>1. CASE t = s
  BY <1>1
<1>2. CASE t # s
  <2>1. Rebinds(s, t, c) /\ t.barrier.gated = s.barrier.gated
    BY <1>2, RebindWrites, RebindHandsOver
  <2>2. old \in Clients
    BY LifecycleOf
  <2> HIDE DEF t
  <2>3. /\ t.place = s.place /\ t.caps = s.caps /\ t.readiness = s.readiness
        /\ t.barrier.phase = s.barrier.phase /\ t.barrier.rev = s.barrier.rev
        /\ t.barrier.excluded = s.barrier.excluded
        /\ s.fenced \subseteq t.fenced /\ t.fenced \subseteq s.fenced \cup ({old} \ {c})
        /\ old # c /\ s.place[old] = "Room" => old \in t.fenced
    BY <2>1 DEF Rebinds
  <2>4. Stale(s) => Stale(t)
    BY <2>3 DEF Stale, IsMember
  <2>5. CASE /\ s.readiness.live /\ s.barrier.phase = "Preparing"
             /\ old # c /\ s.place[old] = "Room"
    <3>1. old \notin s.fenced
      BY <2>5 DEF Whole, Steady, OwnerUnfenced, Active
    <3>2. IsMember(s, old) \/ old \in s.barrier.excluded
      BY <2>2, <2>5, <3>1 DEF Whole, Cohort, ExclusionsHold, IsMember
    <3>3. Stale(t)
      BY <2>2, <2>3, <2>5, <3>2 DEF Stale, IsMember
    <3> QED
      BY <3>3 DEF GateHolds, t
  <2>6. CASE ~ /\ s.readiness.live /\ s.barrier.phase = "Preparing"
               /\ old # c /\ s.place[old] = "Room"
    <3>1. s.barrier.phase = "Preparing" => (MixedRoomBlocksStart(t) <=> MixedRoomBlocksStart(s))
      <4>1. StartCapable(t) = StartCapable(s)
        BY <2>3 DEF StartCapable, V2, BarrierV1
      <4> QED
        BY <2>3, <2>6, <4>1 DEF MixedRoomBlocksStart, ClientsInRoom
    <3>2. GateFor(t) = GateFor(s)
      BY <2>1, <2>3, <3>1, GateForDepends
    <3>3. Refreshed(s) => Refreshed(t)
      BY <2>3, <3>2 DEF Refreshed
    <3> QED
      BY <2>4, <3>3 DEF GateHolds, t
  <2> QED
    BY <2>5, <2>6
<1> QED
  BY <1>1, <1>2

-----------------------------------------------------------------------------
(* The steps that are messages of a member, or expiries of the tick.       *)

\* The active lifecycle passes to another session.
HandsOver(s, t) ==
  t.barrier.gen = s.barrier.gen /\ t.barrier.initiatorSeq # s.barrier.initiatorSeq

\* The relation of a step: only a hand-over may leave a start due.
Serves(s, t) ==
  /\ StartDue(t) => StartDue(s) \/ HandsOver(s, t)
  /\ GateHolds(s) => GateHolds(t)

\* What attends serves.
LEMMA AttendsServes ==
  ASSUME NEW s, NEW t, Attends(s, t)
  PROVE  Serves(s, t)
  BY DEF Attends, Serves

\* `rebind_playback_barrier_owner_if_newer`.
LEMMA RebindServes ==
  ASSUME NEW s \in Runtimes, s.barrier.phase # "None", NEW c \in Clients, Whole(s)
  PROVE  Serves(s, Rebind(s, c))
<1> DEFINE t == Rebind(s, c)
<1>1. GateHolds(s) => GateHolds(t)
  BY RebindHolds
<1>2. t = s \/ HandsOver(s, t)
  BY RebindHandsOver, RebindWrites DEF HandsOver, Rebinds
<1> HIDE DEF t
<1>3. Serves(s, t)
  BY <1>1, <1>2 DEF Serves
<1> QED
  BY <1>3 DEF t

\* Remembering a nonce.
LEMMA NonceAttends ==
  ASSUME NEW s \in Runtimes, NEW c \in Clients, NEW n \in Nat
  PROVE  LET t == [s EXCEPT !.nonce[c] = n]
         IN t \in Runtimes /\ Attends(s, t) /\ t.barrier = s.barrier /\ (Whole(s) => Whole(t))
<1> DEFINE t == [s EXCEPT !.nonce[c] = n]
<1>1. /\ t.place = s.place /\ t.fenced = s.fenced /\ t.caps = s.caps
      /\ t.barrier = s.barrier /\ t.readiness = s.readiness
  BY DEF Runtimes
<1>2. t \in Runtimes /\ Follows(s, t)
  BY NonceUpdate, NonceFollows
<1> HIDE DEF t
<1>3. StartCapable(t) = StartCapable(s)
  BY <1>1 DEF StartCapable, V2, BarrierV1
<1>4. t \in Runtimes /\ Attends(s, t) /\ t.barrier = s.barrier /\ (Whole(s) => Whole(t))
  BY <1>1, <1>2, <1>3, ViewAttends, FollowsWhole
<1> QED
  BY <1>4 DEF t

\* `start_playback_barrier` and `handle_playback_barrier_recovery`.
LEMMA StartPlaybackBarrierServes ==
  ASSUME NEW s \in Runtimes, NEW c \in Clients, NEW q \in Requests, Whole(s)
  PROVE  /\ Serves(s, StartPlaybackBarrier(s, c, q))
         /\ Serves(s, RecoverPlaybackBarrier(s, c, q))
<1> DEFINE t == StartPlaybackBarrier(s, c, q)
           repeated == [s EXCEPT !.nonce[c] = Larger(s.nonce[c], q.nonce)]
           consumed == [s EXCEPT !.nonce[c] = q.nonce]
           rebound == Rebind(repeated, c)
           opened == OpenGeneration(consumed, c, q)
<1>1. q.nonce \in Nat /\ Larger(s.nonce[c], q.nonce) \in Nat
  BY RequestsAssumption, Components DEF Larger
<1>2. /\ consumed \in Runtimes /\ Attends(s, consumed) /\ Whole(consumed)
      /\ repeated \in Runtimes /\ Attends(s, repeated) /\ Whole(repeated)
      /\ repeated.barrier = s.barrier
  BY <1>1, NonceAttends
<1>3. t \in {s, consumed, opened} \/ (t = rebound /\ s.barrier.phase # "None")
  BY DEF StartPlaybackBarrier, SameOperation
<1> HIDE DEF consumed, repeated
<1>4. Attends(s, opened)
  BY <1>2, OpenGenerationAttends, SettledAttends DEF Whole
<1>5. s.barrier.phase # "None" => Serves(s, rebound)
  <2>1. s.barrier.phase # "None" => Serves(repeated, rebound)
    BY <1>2, RebindServes
  <2> HIDE DEF rebound
  <2> QED
    BY <1>2, <2>1 DEF Serves, Attends, HandsOver
<1> HIDE DEF rebound, opened
<1>6. Serves(s, t)
  BY <1>2, <1>3, <1>4, <1>5, StillAttends, AttendsServes
<1>7. Serves(s, RecoverPlaybackBarrier(s, c, q))
  BY RebindServes, StillAttends, AttendsServes DEF RecoverPlaybackBarrier, SameOperation
<1> QED
  BY <1>6, <1>7

\* Every barrier message.
LEMMA BarrierStepServes ==
  ASSUME Sound(rt), Whole(rt), NEW c \in Clients, BarrierStep(c)
  PROVE  Serves(rt, rt')
<1>1. TypeOK /\ rt \in Runtimes /\ Numbered(rt) /\ Linked(rt)
  BY DEF Sound, TypeOK, Whole, Steady
<1>2. Generations \subseteq Nat /\ Revisions \subseteq Nat
  BY <1>1, GenerationTypes
<1>3. ASSUME NEW q \in Requests, Prepare(c, q) \/ Recover(c, q)
      PROVE  Serves(rt, rt')
  BY <1>1, <1>3, StartPlaybackBarrierServes DEF Prepare, Recover
<1>4. ASSUME NEW g \in Generations, NEW isReady \in BOOLEAN, MediaReady(c, g, isReady)
      PROVE  Serves(rt, rt')
  BY <1>1, <1>2, <1>4, ParticipantAttends, AttendsServes DEF MediaReady
<1>5. ASSUME NEW g \in Generations, NEW r \in Revisions, StartedAck(c, g, r)
      PROVE  Serves(rt, rt')
  BY <1>1, <1>2, <1>5, RecordStartedAttends, AttendsServes DEF StartedAck
<1> QED
  BY <1>3, <1>4, <1>5 DEF BarrierStep

\* Every readiness message.
LEMMA ReadinessStepAttends ==
  ASSUME Sound(rt), Whole(rt'), NEW c \in Clients, ReadinessStep(c)
  PROVE  Attends(rt, rt')
<1>1. TypeOK /\ rt \in Runtimes /\ Linked(rt')
  BY DEF Sound, TypeOK, Whole, Steady
<1>2. Generations \subseteq Nat /\ Revisions \subseteq Nat
  BY <1>1, GenerationTypes
<1>3. Attends(rt, [rt EXCEPT !.pending[c] = NoPending])
  BY <1>1, PendingAttends
<1>4. ASSUME NEW target \in Clients, NEW ready \in BOOLEAN, NEW source \in Sources,
             Intent(c, target, ready, source)
      PROVE  Evaluated(rt') \/ rt' = [rt EXCEPT !.pending[c] = NoPending]
  <2>1. source \in IntentSources
    BY EvidenceAssumption
  <2> QED
    BY <1>1, <1>4, <2>1, ApplyIntentType DEF Intent
<1>5. ASSUME NEW target \in Clients, NEW ready \in BOOLEAN, SyncplayReady(c, target, ready)
      PROVE  Evaluated(rt') \/ rt' = rt
  BY <1>1, <1>5, ApplySyncplayReadyType DEF SyncplayReady
<1>6. ASSUME NEW g \in Generations, NEW r \in Revisions, NEW report \in Reports,
             TechnicalReport(c, g, r, report)
      PROVE  Evaluated(rt') \/ rt' = rt
  BY <1>1, <1>2, <1>6, ApplyTechnicalReportType DEF TechnicalReport
<1>7. Evaluated(rt') \/ rt' \in {rt, [rt EXCEPT !.pending[c] = NoPending]}
  BY <1>4, <1>5, <1>6 DEF ReadinessStep, IntentFenced
<1> QED
  BY <1>1, <1>3, <1>7, EvaluatedSettles, SettledAttends, StillAttends

\* A room whose playlist moved, without a barrier-capable member.
LEMMA SelectionNotedAttends ==
  ASSUME Sound(rt), Whole(rt), NEW c \in Clients, SelectionNoted(c)
  PROVE  Attends(rt, rt')
<1> DEFINE owner == AutomaticOwner("EndOfPlaylist")
           u == [rt EXCEPT !.readiness.owner = owner]
           v == RetirePendingTransport(u)
<1>1. rt \in Runtimes /\ owner.kind = "EndOfPlaylist"
  BY DEF Sound, AutomaticOwner
<1>2. rt' \in {rt, v} /\ ClientsInRoom(rt) \cap BarrierV1(rt) = {}
  BY DEF SelectionNoted, SetPauseOwner
<1> HIDE DEF owner
<1>3. /\ v.place = rt.place /\ v.caps = rt.caps /\ v.fenced = rt.fenced
      /\ v.barrier = rt.barrier
      /\ v.readiness.live = rt.readiness.live /\ v.readiness.gen = rt.readiness.gen
      /\ v.readiness.gate = rt.readiness.gate /\ v.readiness.part = rt.readiness.part
      /\ v.readiness.owner = owner
  BY <1>1 DEF RetirePendingTransport, Runtimes, Readinesses
<1> HIDE DEF v
<1>4. ~StartDue(v)
  <2>1. GateOwner(v.barrier.gen).kind = "ReadinessStartGate"
    BY DEF GateOwner
  <2> QED
    BY <1>1, <1>3, <2>1 DEF StartDue, GateOwnsPause
<1>5. Stale(rt) => Stale(v)
  BY <1>3 DEF Stale, IsMember
<1>6. RequiredParticipants(rt) # {} => Stale(v)
  <2>1. ASSUME NEW d \in Clients, rt.readiness.part[d].role = "Required"
        PROVE  Stale(v)
    <3>1. IsMember(rt, d) /\ IsMember(v, d)
      BY <1>3, <2>1 DEF IsMember
    <3>2. rt.place[d] = "Room"
      BY <3>1 DEF Whole, Enrolled, InCohortRoom
    <3>3. d \notin StartCapable(rt)
      BY <1>2, <3>2 DEF ClientsInRoom, StartCapable
    <3>4. d \in rt.fenced
      BY <2>1, <3>1, <3>3 DEF Whole, Cohort, RolesFollow
    <3> QED
      BY <1>3, <3>1, <3>2, <3>4 DEF Stale
  <2> QED
    BY <2>1 DEF RequiredParticipants
<1>7. RequiredParticipants(rt) = {} /\ Refreshed(rt) => Refreshed(v)
  <2> SUFFICES ASSUME RequiredParticipants(rt) = {}, Refreshed(rt)
               PROVE  Refreshed(v)
    OBVIOUS
  <2>1. RequiredParticipants(v) = {}
    BY <1>3 DEF RequiredParticipants
  <2>2. /\ \A reason : DegradedGate(v, reason) = DegradedGate(rt, reason)
        /\ \A phase : OpenGate(v, phase) = OpenGate(rt, phase)
    BY <1>3 DEF DegradedGate, OpenGate
  <2>3. MixedRoomBlocksStart(v) <=> MixedRoomBlocksStart(rt)
    BY <1>3 DEF MixedRoomBlocksStart, ClientsInRoom, StartCapable, V2, BarrierV1
  <2>4. PreparingGate(v) = PreparingGate(rt)
    BY <2>1, <2>2, <2>3 DEF PreparingGate
  <2>5. UncommittedEndGate(v) = UncommittedEndGate(rt)
    BY <1>3, <2>2 DEF UncommittedEndGate
  <2>6. GateFor(v) = GateFor(rt)
    BY <1>3, <2>2, <2>4, <2>5 DEF GateFor
  <2> QED
    BY <1>3, <2>6 DEF Refreshed
<1>8. Attends(rt, v)
  BY <1>4, <1>5, <1>6, <1>7 DEF Attends, GateHolds
<1> QED
  BY <1>2, <1>8, StillAttends

\* Every transport command.
LEMMA TransportStepAttends ==
  ASSUME Sound(rt), Whole(rt), NEW c \in Clients, TransportStep(c)
  PROVE  Attends(rt, rt')
<1>1. rt \in Runtimes /\ Authority(rt)
  BY DEF Sound
<1>2. ASSUME NEW paused \in BOOLEAN, NEW seek \in BOOLEAN, Playstate(c, paused, seek)
      PROVE  Attends(rt, rt')
  <2>1. /\ rt.barrier.phase # "Preparing"
        /\ rt' \in {V2Transport(rt, c, paused), SyncplayTransport(rt, c, paused),
                    MoveTransport(rt, paused)}
    BY <1>2 DEF Playstate
  <2> QED
    BY <1>1, <2>1, TransportRests, MoveTransportRests, RestsAttends
<1>3. ASSUME SelectionReset(c)
      PROVE  Attends(rt, rt')
  <2> DEFINE retired == RetireForSelection(rt)
             claimed == SetPauseOwner(retired, AutomaticOwner("EndOfPlaylist"))
             owned == IF rt.readiness.owner.kind # "User" THEN claimed ELSE retired
             reset == ReplaceReadinessGeneration(owned, 0, FALSE)
  <2>1. retired \in Runtimes /\ retired.barrier.phase \in {"None", "Degraded"}
    BY <1>1, RetireForSelectionType, RetireForSelectionSafe
  <2>2. rt' = [reset EXCEPT !.paused = TRUE]
    BY <1>3 DEF SelectionReset
  <2> HIDE DEF retired
  <2>3. claimed \in Runtimes /\ claimed.barrier.phase \in {"None", "Degraded"}
    BY <2>1, EndOfPlaylistOwner, SetPauseOwnerType, SetPauseOwnerEffect DEF Held
  <2> HIDE DEF claimed
  <2>4. owned \in Runtimes /\ owned.barrier.phase # "Preparing"
    BY <2>1, <2>3
  <2> HIDE DEF owned
  <2>5. reset \in Runtimes /\ Renews(owned, reset, 0)
    BY <2>4, RenewEffect, ReplaceReadinessGenerationType
  <2> HIDE DEF reset
  <2>6. rt'.barrier = reset.barrier /\ rt'.readiness = reset.readiness
    BY <2>2, <2>5 DEF Runtimes
  <2>7. /\ rt'.barrier.phase # "Preparing"
        /\ rt'.readiness.live => rt'.readiness.gen = 0
    BY <2>4, <2>5, <2>6 DEF Renews
  <2>8. Settled(rt')
    BY <2>7 DEF Settled, Refreshed, StartDue
  <2> QED
    BY <2>8, SettledAttends
<1> QED
  BY <1>2, <1>3, SelectionNotedAttends DEF TransportStep

\* Every expiry of the tick.
LEMMA TickStepAttends ==
  ASSUME Sound(rt), Whole(rt), TickStep
  PROVE  Attends(rt, rt')
<1>1. rt \in Runtimes /\ Numbered(rt) /\ Linked(rt)
  BY DEF Sound, Whole, Steady
<1>2. ASSUME TombstoneExpires
      PROVE  Attends(rt, rt')
  <2>1. PICK id \in rt.tombstones : rt' = [rt EXCEPT !.tombstones = rt.tombstones \ {id}]
    BY <1>2 DEF TombstoneExpires
  <2>2. /\ rt'.place = rt.place /\ rt'.fenced = rt.fenced /\ rt'.caps = rt.caps
        /\ rt'.barrier = rt.barrier /\ rt'.readiness = rt.readiness
    BY <1>1, <2>1 DEF Runtimes
  <2>3. StartCapable(rt') = StartCapable(rt)
    BY <2>2 DEF StartCapable, V2, BarrierV1
  <2> QED
    BY <1>1, <2>2, <2>3, ViewAttends
<1>3. ASSUME NEW c \in Clients, PendingExpires(c)
      PROVE  Attends(rt, rt')
  BY <1>1, <1>3, PendingAttends DEF PendingExpires
<1> QED
  BY <1>1, <1>2, <1>3, PrepareTimeoutAttends, StartedTimeoutAttends
     DEF TickStep, PrepareDeadline, StartedDeadline
-----------------------------------------------------------------------------
(* Members come and go, once more.                                         *)

\* A session of the room that RequireAllMembers holds against a start.
Blocks(s, c) == s.place[c] = "Room" /\ c \notin s.fenced /\ c \notin StartCapable(s)

\* The published exclusions of a governed start list them all.
Blockers(s) ==
  s.readiness.live /\ s.barrier.phase = "Preparing" =>
    \A c \in Clients : Blocks(s, c) => c \in s.barrier.excluded

\* A method after which the exclusions still list the same sessions.
Lists(s, t) ==
  /\ t.place = s.place /\ t.caps = s.caps /\ t.fenced = s.fenced
  /\ t.readiness.live /\ t.barrier.phase = "Preparing" =>
       /\ s.readiness.live /\ s.barrier.phase = "Preparing"
       /\ t.barrier.excluded = s.barrier.excluded

\* An idle room, or one without a coordinator, has nothing to publish.
LEMMA NotLiveSettles ==
  ASSUME NEW s, ~s.readiness.live
  PROVE  Settled(s)
  BY DEF Settled, Refreshed, StartDue

\* A room whose cohort follows its sessions lists its blockers.
LEMMA WholeLists ==
  ASSUME NEW s, Whole(s)
  PROVE  Blockers(s)
<1> SUFFICES ASSUME s.readiness.live, s.barrier.phase = "Preparing",
                    NEW c \in Clients, Blocks(s, c)
             PROVE  c \in s.barrier.excluded
  BY DEF Blockers
<1>1. s.place[c] = "Room" /\ c \notin s.fenced /\ c \notin StartCapable(s)
  BY DEF Blocks
<1>2. s.readiness.part[c].role # "Required"
  <2>1. CASE IsMember(s, c)
    BY <1>1, <2>1 DEF Whole, Cohort, RolesFollow
  <2>2. CASE ~IsMember(s, c)
    BY <2>2 DEF IsMember
  <2> QED
    BY <2>1, <2>2
<1> QED
  BY <1>1, <1>2 DEF Whole, Cohort, ExclusionsHold

\* Listing the blockers is kept by the methods that move no session.
LEMMA ListsKeeps ==
  ASSUME NEW s, NEW t, Lists(s, t), Blockers(s)
  PROVE  Blockers(t)
<1>1. \A c \in Clients : Blocks(t, c) <=> Blocks(s, c)
  BY DEF Lists, Blocks, StartCapable, V2, BarrierV1
<1> QED
  BY <1>1 DEF Lists, Blockers

\* Methods that run one after the other.
LEMMA ListsTransitive ==
  ASSUME NEW s, NEW t, NEW u, Lists(s, t), Lists(t, u)
  PROVE  Lists(s, u)
  BY DEF Lists

\* A method that changes no role and moves no session.
LEMMA FollowsLists ==
  ASSUME NEW s, NEW t, Follows(s, t)
  PROVE  Lists(s, t)
<1>1. SameRoom(s, t) /\ SameStart(s, t) /\ Onward(s, t)
  BY DEF Follows, Tracks
<1>2. t.barrier.phase = "Preparing" => s.barrier.phase = "Preparing"
  BY <1>1 DEF Onward
<1> QED
  BY <1>1, <1>2 DEF Lists, SameRoom, SameStart

\* One session moves while the lifecycle and the coordinator stay as they are: it was no
\* member, is none of the ready ones, and neither blocked nor blocks the start.
LEMMA ShiftAttends ==
  ASSUME NEW s \in Runtimes, NEW t, NEW c \in Clients,
         t.barrier = s.barrier, t.readiness = s.readiness, s.readiness.live,
         \A d \in Clients \ {c} : /\ t.place[d] = s.place[d] /\ t.caps[d] = s.caps[d]
                                  /\ (d \in t.fenced) <=> (d \in s.fenced),
         ~IsMember(s, c), c \notin ClientsInRoom(t) \cap StartCapable(t),
         s.barrier.phase = "Preparing" =>
           /\ Blocks(t, c) <=> Blocks(s, c)
           /\ s.place[c] = "Room" => c \notin s.barrier.excluded
  PROVE  Attends(s, t)
<1>1. \A d \in Clients \ {c} :
        /\ (d \in StartCapable(t)) <=> (d \in StartCapable(s))
        /\ (d \in ClientsInRoom(t)) <=> (d \in ClientsInRoom(s))
        /\ Blocks(t, d) <=> Blocks(s, d)
  BY DEF StartCapable, V2, BarrierV1, ClientsInRoom, Blocks
<1>2. s.barrier.phase = "Preparing" => (MixedRoomBlocksStart(t) <=> MixedRoomBlocksStart(s))
  <2>1. /\ MixedRoomBlocksStart(s) <=> /\ MixedPolicy = "RequireAllMembers" /\ s.readiness.live
                                       /\ \E d \in Clients : Blocks(s, d)
        /\ MixedRoomBlocksStart(t) <=> /\ MixedPolicy = "RequireAllMembers" /\ t.readiness.live
                                       /\ \E d \in Clients : Blocks(t, d)
    BY DEF MixedRoomBlocksStart, Blocks, ClientsInRoom
  <2> QED
    BY <1>1, <2>1
<1>3. GateFor(t) = GateFor(s)
  BY <1>2, GateForDepends
<1>4. Refreshed(s) => Refreshed(t)
  BY <1>3 DEF Refreshed
<1>5. Stale(s) => Stale(t)
  BY DEF Stale, IsMember
<1>6. StartDue(t) => StartDue(s)
  <2> SUFFICES ASSUME StartDue(t) PROVE StartDue(s)
    OBVIOUS
  <2>1. s.barrier.phase = "Preparing"
    BY DEF StartDue
  <2>2. \A d \in Clients : IsMember(s, d) /\ d \in ClientsInRoom(t) \cap StartCapable(t)
                             => d \in ClientsInRoom(s) \cap StartCapable(s)
    BY <1>1
  <2>3. \A d \in Clients : ParticipantIsReady(t, d) => ParticipantIsReady(s, d)
    BY <1>1 DEF ParticipantIsReady
  <2> QED
    BY <1>2, <2>1, <2>2, <2>3, DueDepends
<1> QED
  BY <1>4, <1>5, <1>6 DEF Attends, GateHolds

\* `refresh_mixed_readiness_cohort` evaluates the room unless the roles, participants and
\* exclusions are already those of the sessions.
LEMMA RefreshSettles ==
  ASSUME NEW s \in Runtimes, Enrolled(s), Steady(s)
  PROVE  LET t == RefreshMixedCohort(s)
         IN /\ Settled(t) \/ (t = s /\ s.readiness.live /\ Reconciled(s, s))
            /\ Settled(s) => Settled(t)
<1> DEFINE u == ReconcileCohort(s)
           t == RefreshMixedCohort(s)
<1>1. u \in Runtimes /\ Whole(t)
  BY ReconcileCohortType, RefreshWhole
<1>2. t = IF u = s THEN s ELSE MaybeCommit(RefreshGate(u))
  BY DEF RefreshMixedCohort
<1>3. s.readiness.live => Reconciled(s, u)
  BY ReconcileWrites
<1> HIDE DEF u, t
<1>4. CASE u = s /\ s.readiness.live
  BY <1>2, <1>3, <1>4 DEF t
<1>5. CASE u = s /\ ~s.readiness.live
  BY <1>2, <1>5, NotLiveSettles DEF t
<1>6. CASE u # s
  <2>1. Evaluated(t) /\ Linked(t)
    BY <1>1, <1>2, <1>6 DEF Evaluated, Whole, Steady
  <2> QED
    BY <2>1, EvaluatedSettles DEF t
<1> QED
  BY <1>4, <1>5, <1>6

\* `cleanup_room_if_empty`.
LEMMA CleanupAttends ==
  ASSUME NEW s \in Runtimes, Populated(s), Whole(s)
  PROVE  Attends(s, CleanupRoom(s))
<1>1. CASE Persistent \/ ClientsInRoom(s) # {}
  BY <1>1, StillAttends DEF CleanupRoom
<1>2. CASE ~Persistent /\ ClientsInRoom(s) = {}
  <2> DEFINE t == [s EXCEPT !.barrier = NoBarrier, !.paused = TRUE, !.tombstones = {}]
  <2>1. ~s.readiness.live
    BY <1>2 DEF Whole, Enrolled, InCohortRoom, ClientsInRoom, Populated
  <2>2. CleanupRoom(s) = t
    BY <1>2, <2>1 DEF CleanupRoom, ClearGate
  <2>3. ~t.readiness.live
    BY <2>1 DEF Runtimes
  <2> HIDE DEF t
  <2> QED
    BY <2>2, <2>3, NotLiveSettles, SettledAttends
<1> QED
  BY <1>1, <1>2

\* `detach_readiness_membership` lists the same exclusions unless it ends the start.
LEMMA DetachLists ==
  ASSUME NEW s \in Runtimes, NEW c \in Clients, Transit(s, c), NEW retain \in BOOLEAN
  PROVE  Lists(s, Detach(s, c, retain))
<1> DEFINE record == s.readiness.part[c]
           detached == IF retain
                       THEN [kept |-> TRUE, intentReady |-> record.intentReady,
                             touched |-> record.touched]
                       ELSE s.detached[c]
           unstaged == [s EXCEPT !.pending[c] = NoPending]
           removed == [s EXCEPT !.pending[c] = NoPending, !.readiness.part[c] = NoRecord,
                                !.detached[c] = detached]
           evaluated == MaybeCommit(RefreshGate(removed))
           dissolved == [ClearGate(evaluated) EXCEPT !.readiness = NoReadiness]
           t == Detach(s, c, retain)
<1>1. t.place = s.place /\ t.caps = s.caps /\ t.fenced = s.fenced
  BY DetachCoheres
<1>2. t \in {unstaged, evaluated, dissolved}
  BY DEF Detach
<1>3. Lists(s, unstaged)
  BY DropPendingFollows, FollowsLists
<1>4. detached \in Detacheds
  <2>1. s.detached[c] \in Detacheds
    BY Components
  <2>2. record.intentReady \in BOOLEAN /\ record.touched \in BOOLEAN
    BY RecordOf DEF Records
  <2> QED
    BY <2>1, <2>2 DEF Detacheds
<1> HIDE DEF detached
<1>5. /\ removed \in Runtimes /\ removed.barrier = s.barrier
      /\ removed.place = s.place /\ removed.caps = s.caps /\ removed.fenced = s.fenced
      /\ removed.readiness.live = s.readiness.live
  BY <1>4, NoRecordType, SimpleTypes DEF Runtimes, Readinesses
<1> HIDE DEF removed
<1>6. evaluated \in Runtimes /\ Lists(removed, evaluated)
  BY <1>5, RefreshGateType, MaybeCommitType, MaybeCommitFollows, FollowsLists
<1>7. Lists(s, removed)
  BY <1>5 DEF Lists
<1> HIDE DEF evaluated
<1>8. Lists(s, evaluated)
  BY <1>6, <1>7, ListsTransitive
<1>9. dissolved.readiness = NoReadiness
  <2>1. ClearGate(evaluated) \in Runtimes
    BY <1>6, ClearGateType
  <2> QED
    BY <2>1 DEF Runtimes
<1> HIDE DEF dissolved, unstaged, t
<1>10. NoReadiness.live = FALSE
  BY DEF NoReadiness
<1>11. t = dissolved => ~t.readiness.live
  BY <1>9, <1>10
<1>12. Lists(s, t)
  BY <1>1, <1>2, <1>3, <1>8, <1>11 DEF Lists
<1> QED
  BY <1>12 DEF t

\* `detach_readiness_membership` evaluates the room of a member it removes.
LEMMA DetachAttends ==
  ASSUME NEW s \in Runtimes, NEW c \in Clients, Transit(s, c), NEW retain \in BOOLEAN
  PROVE  /\ Attends(s, Detach(s, c, retain))
         /\ IsMember(s, c) => Settled(Detach(s, c, retain))
<1> DEFINE t == Detach(s, c, retain)
           unstaged == [s EXCEPT !.pending[c] = NoPending]
<1>1. Transit(t, c)
  BY DetachCoheres
<1>2. Linked(t)
  BY <1>1 DEF Transit, Steady
<1>3. /\ ~IsMember(s, c) => t = unstaged
      /\ IsMember(s, c) => Evaluated(t) \/ t.readiness = NoReadiness
  BY DetachType DEF IsMember
<1>4. Attends(s, unstaged)
  BY PendingAttends
<1> HIDE DEF t, unstaged
<1>5. NoReadiness.live = FALSE
  BY DEF NoReadiness
<1>6. IsMember(s, c) => Settled(t)
  BY <1>2, <1>3, <1>5, EvaluatedSettles, NotLiveSettles
<1> QED
  BY <1>3, <1>4, <1>6, SettledAttends DEF t

\* The membership and the barrier entry of a departing session, in either order.
LEMMA LeaveAttends ==
  ASSUME NEW s, Sound(s), Whole(s), NEW c \in Clients, NEW retain \in BOOLEAN
  PROVE  LET t == MarkParticipantDisconnected(Detach(s, c, retain), c)
             u == Detach(MarkParticipantDisconnected(s, c), c, retain)
         IN Attends(s, t) /\ Blockers(t) /\ Attends(s, u) /\ Blockers(u)
<1> DEFINE left == Detach(s, c, retain)
           t == MarkParticipantDisconnected(left, c)
           marked == MarkParticipantDisconnected(s, c)
           u == Detach(marked, c, retain)
<1>1. s \in Runtimes /\ Transit(s, c) /\ Linked(s) /\ Blockers(s)
  BY TransitEnds, WholeLists DEF Sound, Whole, Steady
<1>2. left \in Runtimes /\ Transit(left, c) /\ Lists(s, left) /\ Attends(s, left)
  BY <1>1, DetachType, DetachCoheres, DetachLists, DetachAttends
<1>3. marked \in Runtimes /\ Follows(s, marked) /\ Attends(s, marked)
  <2>1. Sound(marked)
    BY MarkSound
  <2>2. 0 \in Nat /\ TRUE \in BOOLEAN
    OBVIOUS
  <2>3. Attends(s, marked)
    BY <1>1, <2>2, ParticipantAttends
  <2> QED
    BY <1>1, <2>1, <2>3, MarkDisconnectedFollows DEF Sound
<1> HIDE DEF left, marked
<1>4. Linked(left)
  BY <1>2 DEF Transit, Steady
<1>5. Follows(left, t) /\ Attends(left, t)
  <2>1. 0 \in Nat /\ TRUE \in BOOLEAN
    OBVIOUS
  <2> QED
    BY <1>2, <1>4, <2>1, MarkDisconnectedFollows, ParticipantAttends
<1>6. Transit(marked, c) /\ Lists(s, marked)
  BY <1>1, <1>3, FollowsRegroups, RegroupsTransit, FollowsLists
<1>7. Lists(marked, u) /\ Attends(marked, u)
  BY <1>3, <1>6, DetachLists, DetachAttends
<1> HIDE DEF t, u
<1>8. Attends(s, t) /\ Lists(s, t)
  BY <1>2, <1>5, AttendsTransitive, FollowsLists, ListsTransitive
<1>9. Attends(s, u) /\ Lists(s, u)
  BY <1>3, <1>6, <1>7, AttendsTransitive, ListsTransitive
<1> QED
  BY <1>1, <1>8, <1>9, ListsKeeps DEF t, u, left, marked

\* A session that is no member leaves the room.
LEMMA DepartureAttends ==
  ASSUME NEW s, Sound(s), NEW c \in Clients, ~IsMember(s, c), Transit(s, c), Blockers(s),
         NEW t \in Runtimes, Relocates(s, t, c), Sound(t), t.place[c] # "Room",
         \A d \in Clients \ {c} : (d \in t.fenced) <=> (d \in s.fenced)
  PROVE  Attends(s, CleanupRoom(RefreshMixedCohort(t)))
<1> DEFINE v == RefreshMixedCohort(t)
<1>1. s \in Runtimes
  BY DEF Sound
<1>2. Transit(t, c) /\ ~IsMember(t, c)
  BY <1>1, RelocateKeeps
<1>3. Enrolled(t) /\ Steady(t)
  BY <1>2, TransitEnds DEF InCohortRoom
<1>4. Whole(v) /\ v \in Runtimes /\ Populated(v)
  BY <1>3, RefreshWhole, RefreshSound DEF Sound
<1>5. Settled(v) \/ (v = t /\ t.readiness.live /\ Reconciled(t, t))
  BY <1>3, RefreshSettles
<1> HIDE DEF v
<1>6. Attends(s, v)
  <2>1. CASE Settled(v)
    BY <2>1, SettledAttends
  <2>2. CASE v = t /\ t.readiness.live /\ Reconciled(t, t)
    <3>1. t.barrier = s.barrier /\ t.readiness = s.readiness
      BY DEF Relocates
    <3>2. s.barrier.phase = "Preparing" => c \notin s.barrier.excluded
      BY <2>2, <3>1 DEF Reconciled
    <3>3. s.barrier.phase = "Preparing" => ~Blocks(s, c)
      BY <2>2, <3>1, <3>2 DEF Blockers
    <3>4. ~Blocks(t, c) /\ c \notin ClientsInRoom(t) \cap StartCapable(t)
      BY DEF Blocks, ClientsInRoom
    <3>5. Attends(s, t)
      BY <1>1, <2>2, <3>1, <3>2, <3>3, <3>4, ShiftAttends DEF Relocates
    <3> QED
      BY <2>2, <3>5
  <2> QED
    BY <1>5, <2>1, <2>2
<1>7. Attends(v, CleanupRoom(v))
  BY <1>4, CleanupAttends
<1> QED
  BY <1>6, <1>7, AttendsTransitive DEF v

\* The departure of a session that a new Hello replaces, and a disconnect.
LEMMA DepartAttends ==
  ASSUME NEW s, Sound(s), Whole(s), NEW c \in Clients
  PROVE  Attends(s, ReplaceSession(s, c)) /\ Attends(s, DepartSession(s, c))
<1> DEFINE replaced == MarkParticipantDisconnected(Detach(s, c, TRUE), c)
           gone == Detach(MarkParticipantDisconnected(s, c), c, TRUE)
<1>1. /\ Sound(replaced) /\ ~IsMember(replaced, c) /\ Transit(replaced, c)
      /\ Sound(gone) /\ ~IsMember(gone, c) /\ Transit(gone, c)
  BY LeaveTransit
<1>2. Attends(s, replaced) /\ Blockers(replaced) /\ Attends(s, gone) /\ Blockers(gone)
  BY LeaveAttends
<1> HIDE DEF replaced, gone
<1>3. ASSUME NEW x, Sound(x), ~IsMember(x, c), Transit(x, c), Blockers(x),
             NEW place \in Places \ {"Room"}
      PROVE  Attends(x, CleanupRoom(RefreshMixedCohort(RemoveSession(x, c, place))))
  <2> DEFINE t == RemoveSession(x, c, place)
  <2>1. x \in Runtimes
    BY <1>3 DEF Sound
  <2>2. t \in Runtimes /\ Relocates(x, t, c) /\ Sound(t)
    BY <1>3, <2>1, RemoveSessionSafe, SessionWrites DEF Sound
  <2>3. t.place[c] # "Room" /\ t.fenced = x.fenced \ {c}
    BY <2>1 DEF RemoveSession, Runtimes
  <2> HIDE DEF t
  <2>4. Attends(x, CleanupRoom(RefreshMixedCohort(t)))
    BY <1>3, <2>2, <2>3, DepartureAttends
  <2> QED
    BY <2>4 DEF t
<1>4. "New" \in Places \ {"Room"} /\ "Gone" \in Places \ {"Room"}
  BY DEF Places
<1>5. /\ Attends(replaced, CleanupRoom(RefreshMixedCohort(RemoveSession(replaced, c, "New"))))
      /\ Attends(gone, CleanupRoom(RefreshMixedCohort(RemoveSession(gone, c, "Gone"))))
  BY <1>1, <1>2, <1>3, <1>4
<1>6. /\ Attends(s, CleanupRoom(RefreshMixedCohort(RemoveSession(replaced, c, "New"))))
      /\ Attends(s, CleanupRoom(RefreshMixedCohort(RemoveSession(gone, c, "Gone"))))
  BY <1>2, <1>5, AttendsTransitive
<1> QED
  BY <1>6 DEF ReplaceSession, DepartSession, replaced, gone

\* A joining member is evaluated with the room it joins.
LEMMA AttachSettles ==
  ASSUME NEW s \in Runtimes, Present(s), NEW c \in Clients, s.place[c] = "Room", c \in V2(s),
         Transit(s, c), NEW token \in Clients \cup {NoClient}, NEW seedReady \in BOOLEAN
  PROVE  Settled(RefreshMixedCohort(Attach(s, c, token, seedReady)))
<1> DEFINE t == Attach(s, c, token, seedReady)
<1>1. InCohortRoom(s, c) /\ MembersBut(s, c) /\ MembersLive(s) /\ Steady(s)
  BY DEF InCohortRoom, Transit
<1>2. t \in Runtimes /\ Evaluated(t) /\ Enrolled(t) /\ Steady(t)
  BY <1>1, AttachType, AttachCoheres
<1> HIDE DEF t
<1>3. Settled(t)
  BY <1>2, EvaluatedSettles DEF Steady
<1>4. Settled(RefreshMixedCohort(t))
  BY <1>2, <1>3, RefreshSettles
<1> QED
  BY <1>4 DEF t

\* A legacy session enters the room: the exclusions of a start that is being prepared do
\* not list it yet, so that the room is evaluated.
LEMMA LegacyEntryAttends ==
  ASSUME NEW s \in Runtimes, Whole(s), NEW c \in Clients, s.place[c] # "Room",
         NEW t \in Runtimes, t.barrier = s.barrier, t.readiness = s.readiness,
         t.fenced = s.fenced, t.place[c] = "Room", c \notin V2(t),
         \A d \in Clients \ {c} : t.place[d] = s.place[d] /\ t.caps[d] = s.caps[d],
         Transit(t, c)
  PROVE  Attends(s, RefreshMixedCohort(t))
<1>1. ~IsMember(s, c) /\ ~IsMember(t, c)
  BY DEF Whole, Enrolled, InCohortRoom, IsMember
<1>2. Enrolled(t) /\ Steady(t)
  BY <1>1, TransitEnds DEF InCohortRoom
<1> DEFINE v == RefreshMixedCohort(t)
<1>3. Settled(v) \/ (v = t /\ t.readiness.live /\ Reconciled(t, t))
  BY <1>2, RefreshSettles
<1> HIDE DEF v
<1>4. CASE Settled(v)
  BY <1>4, SettledAttends DEF v
<1>5. CASE v = t /\ t.readiness.live /\ Reconciled(t, t)
  <2>1. s.readiness.live /\ t.readiness.part[c].role # "Required"
    BY <1>1, <1>5 DEF IsMember
  <2>2. s.barrier.phase = "Preparing" => c \notin s.barrier.excluded
    BY <2>1 DEF Whole, Cohort, ExclusionsHold
  <2>3. s.barrier.phase = "Preparing" => c \in t.fenced
    BY <1>5, <2>1, <2>2 DEF Reconciled
  <2>4. s.barrier.phase = "Preparing" => ~Blocks(s, c) /\ ~Blocks(t, c)
    BY <2>3 DEF Blocks
  <2>5. c \notin ClientsInRoom(t) \cap StartCapable(t)
    BY DEF StartCapable
  <2>6. Attends(s, t)
    BY <1>1, <2>1, <2>2, <2>4, <2>5, ShiftAttends
  <2> QED
    BY <1>5, <2>6 DEF v
<1> QED
  BY <1>3, <1>4, <1>5

\* `handle_hello_for_peer`.
LEMMA HelloAttends ==
  ASSUME Sound(rt), Whole(rt), NEW c \in Clients, NEW token \in Clients \cup {NoClient},
         Hello(c, token)
  PROVE  Attends(rt, rt')
<1> DEFINE left == IF rt.place[c] = "Room" THEN ReplaceSession(rt, c) ELSE rt
           attaches == "readiness" \in HelloCaps[c]
           restores == attaches /\ token # NoClient /\ left.detached[token].kept
           forgot == [left EXCEPT !.detached[c] = NoDetached]
           known == IF restores THEN left ELSE forgot
           joined == JoinRoom(known, c, HelloCaps[c])
           presented == IF restores THEN token ELSE NoClient
           attached == Attach(joined, c, presented, FALSE)
<1>1. Sound(left) /\ Whole(left) /\ Attends(rt, left) /\ left.place[c] # "Room"
  BY ReplaceSessionSafe, DepartWhole, DepartAttends, StillAttends
<1>2. left \in Runtimes
  BY <1>1 DEF Sound
<1> HIDE DEF left
<1>3. Transit(left, c) /\ ~IsMember(left, c)
  BY <1>1, TransitEnds DEF Whole, Enrolled, InCohortRoom
<1>4. /\ forgot \in Runtimes /\ Quiet(left, forgot) /\ Relocates(left, forgot, c)
      /\ forgot.place = left.place /\ forgot.caps = left.caps /\ forgot.fenced = left.fenced
      /\ forgot.barrier = left.barrier /\ forgot.readiness = left.readiness
  BY <1>2, DetachedUpdate, SimpleTypes, SessionWrites DEF Runtimes, Quiet, Held, Frame, IsMember
<1> HIDE DEF forgot
<1>5. Sound(forgot) /\ Transit(forgot, c) /\ ~IsMember(forgot, c)
  BY <1>1, <1>2, <1>3, <1>4, QuietSound, RelocateTransit
<1>6. /\ Sound(known) /\ Transit(known, c) /\ ~IsMember(known, c)
      /\ known.place = left.place /\ known.caps = left.caps /\ known.fenced = left.fenced
      /\ known.barrier = left.barrier /\ known.readiness = left.readiness
  BY <1>1, <1>3, <1>4, <1>5
<1>7. presented \in Clients \cup {NoClient}
  OBVIOUS
<1> HIDE DEF known, presented
<1>8. known \in Runtimes
  BY <1>6 DEF Sound
<1>9. /\ Sound(joined) /\ joined.place[c] = "Room"
      /\ Transit(joined, c) /\ ~IsMember(joined, c)
  BY <1>6, <1>8, JoinRoomSafe, HelloCapsType, SessionWrites, RelocateTransit
<1>10. /\ joined.caps[c] = HelloCaps[c] /\ joined.fenced = left.fenced
       /\ joined.barrier = left.barrier /\ joined.readiness = left.readiness
       /\ \A d \in Clients \ {c} : /\ joined.place[d] = left.place[d]
                                   /\ joined.caps[d] = left.caps[d]
  BY <1>6, <1>8 DEF JoinRoom, Runtimes
<1> HIDE DEF joined
<1>11. attaches <=> c \in V2(joined)
  BY <1>10 DEF V2
<1>12. joined \in Runtimes /\ Present(joined)
  BY <1>9 DEF Sound
<1>13. attaches => Attends(left, RefreshMixedCohort(attached))
  BY <1>7, <1>9, <1>11, <1>12, AttachSettles, SettledAttends
<1>14. ~attaches => Attends(left, RefreshMixedCohort(joined))
  BY <1>1, <1>2, <1>9, <1>10, <1>11, <1>12, LegacyEntryAttends
<1>15. rt' = IF attaches THEN RefreshMixedCohort(attached) ELSE RefreshMixedCohort(joined)
  BY DEF Hello, attached, presented, joined, known, forgot, left
<1> HIDE DEF attached, attaches
<1>16. Attends(left, rt')
  BY <1>13, <1>14, <1>15
<1> QED
  BY <1>1, <1>16, AttendsTransitive

\* The close of a connection that is in another room.
LEMMA ForgetAttends ==
  ASSUME NEW s, Sound(s), Whole(s), NEW c \in Clients, s.place[c] = "Elsewhere"
  PROVE  Attends(s, RemoveSession(s, c, "Gone"))
<1> DEFINE t == RemoveSession(s, c, "Gone")
<1>1. s \in Runtimes
  BY DEF Sound
<1>2. /\ t.place = [s.place EXCEPT ![c] = "Gone"] /\ t.caps = [s.caps EXCEPT ![c] = {}]
      /\ t.fenced = s.fenced \ {c} /\ t.readiness = s.readiness /\ t.barrier = s.barrier
      /\ s.place \in [Clients -> Places] /\ s.caps \in [Clients -> SUBSET Capabilities]
  BY <1>1 DEF RemoveSession, Runtimes
<1> HIDE DEF t
<1>3. ~IsMember(s, c)
  BY DEF Whole, Enrolled, InCohortRoom
<1>4. t.place[c] = "Gone"
  BY <1>2
<1>5. ~Blocks(s, c) /\ ~Blocks(t, c) /\ c \notin ClientsInRoom(t) \cap StartCapable(t)
  BY <1>4 DEF Blocks, ClientsInRoom
<1>6. CASE s.readiness.live
  <2>1. \A d \in Clients \ {c} : /\ t.place[d] = s.place[d] /\ t.caps[d] = s.caps[d]
                                 /\ (d \in t.fenced) <=> (d \in s.fenced)
    BY <1>2
  <2>2. Attends(s, t)
    BY <1>1, <1>2, <1>3, <1>5, <1>6, <2>1, ShiftAttends
  <2> QED
    BY <2>2 DEF t
<1>7. CASE ~s.readiness.live
  BY <1>2, <1>7, NotLiveSettles, SettledAttends DEF t
<1> QED
  BY <1>6, <1>7

\* Set.room out of this room.
LEMMA SwitchAwayAttends ==
  ASSUME Sound(rt), Whole(rt), NEW c \in Clients, SwitchAway(c)
  PROVE  Attends(rt, rt')
<1> DEFINE left == MarkParticipantDisconnected(Detach(rt, c, FALSE), c)
           n == left.nextSeq + 1
           moved == [left EXCEPT !.place[c] = "Elsewhere", !.nextSeq = n, !.seq[c] = n]
<1>1. /\ Sound(left) /\ ~IsMember(left, c) /\ Transit(left, c)
      /\ Attends(rt, left) /\ Blockers(left)
  BY LeaveTransit, LeaveAttends
<1> HIDE DEF left
<1>2. left \in Runtimes /\ n \in Nat /\ "Elsewhere" \in Places
  BY <1>1, Components DEF Sound, Places
<1> HIDE DEF n
<1>3. /\ moved \in Runtimes /\ moved.readiness = left.readiness
      /\ moved.barrier = left.barrier /\ moved.paused = left.paused
      /\ \A d \in Clients \ {c} : moved.place[d] = left.place[d]
      /\ moved.place[c] = "Elsewhere" /\ moved.fenced = left.fenced
  BY <1>2 DEF Runtimes
<1>4. Relocates(left, moved, c)
  BY <1>2, SessionWrites
<1> HIDE DEF moved
<1>5. Sound(moved)
  BY <1>1, <1>3, MoveSound
<1> DEFINE t == CleanupRoom(RefreshMixedCohort(moved))
<1>6. Attends(left, t)
  BY <1>1, <1>3, <1>4, <1>5, DepartureAttends
<1>7. rt' = t
  BY DEF SwitchAway, moved, n, left
<1> HIDE DEF t
<1> QED
  BY <1>1, <1>6, <1>7, AttendsTransitive

\* Set.room into this room.
LEMMA SwitchInAttends ==
  ASSUME Sound(rt), Whole(rt), NEW c \in Clients, SwitchIn(c)
  PROVE  Attends(rt, rt')
<1> DEFINE joined == JoinRoom(rt, c, rt.caps[c])
           attached == Attach(joined, c, NoClient, FALSE)
<1>1. rt \in Runtimes /\ rt.caps[c] \in SUBSET Capabilities /\ rt.place[c] # "Room"
  BY DEF Sound, Runtimes, SwitchIn
<1>2. Transit(rt, c) /\ ~IsMember(rt, c)
  BY <1>1, TransitEnds DEF Whole, Enrolled, InCohortRoom
<1>3. /\ Sound(joined) /\ joined.place[c] = "Room"
      /\ Transit(joined, c) /\ ~IsMember(joined, c)
  BY <1>1, <1>2, JoinRoomSafe, SessionWrites, RelocateTransit
<1>4. /\ joined.caps = rt.caps /\ joined.fenced = rt.fenced
      /\ joined.barrier = rt.barrier /\ joined.readiness = rt.readiness
      /\ \A d \in Clients \ {c} : joined.place[d] = rt.place[d]
  BY <1>1 DEF JoinRoom, Runtimes
<1>5. rt' = IF c \in V2(rt) THEN RefreshMixedCohort(attached) ELSE RefreshMixedCohort(joined)
  BY DEF SwitchIn
<1> HIDE DEF joined
<1>6. c \in V2(rt) <=> c \in V2(joined)
  BY <1>4 DEF V2
<1>7. joined \in Runtimes /\ Present(joined)
  BY <1>3 DEF Sound
<1>8. c \in V2(rt) => Attends(rt, RefreshMixedCohort(attached))
  BY <1>3, <1>6, <1>7, AttachSettles, SettledAttends
<1>9. c \notin V2(rt) => Attends(rt, RefreshMixedCohort(joined))
  BY <1>1, <1>3, <1>4, <1>6, <1>7, LegacyEntryAttends
<1> HIDE DEF attached
<1> QED
  BY <1>5, <1>8, <1>9

\* Set.features.
LEMMA RenegotiateAttends ==
  ASSUME Sound(rt), Whole(rt), NEW c \in Clients, NEW caps \in Renegotiations,
         NEW seedReady \in BOOLEAN, Renegotiate(c, caps, seedReady)
  PROVE  Attends(rt, rt')
<1> DEFINE changed == [rt EXCEPT !.caps[c] = caps]
           attached == Attach(changed, c, c, seedReady)
           left == Detach(changed, c, TRUE)
           had == "readiness" \in rt.caps[c]
           has == "readiness" \in caps
<1>1. rt \in Runtimes /\ rt.place[c] = "Room" /\ c \notin rt.fenced /\ caps # rt.caps[c]
  BY DEF Sound, Renegotiate, Speaks
<1>2. /\ changed \in Runtimes /\ Quiet(rt, changed) /\ changed.place = rt.place
      /\ changed.fenced = rt.fenced /\ changed.barrier = rt.barrier
      /\ changed.readiness = rt.readiness /\ changed.caps[c] = caps
      /\ \A d \in Clients \ {c} : changed.caps[d] = rt.caps[d]
  BY <1>1, ClientsAssumption DEF Runtimes, Quiet, Held, Frame, IsMember
<1>3. Transit(rt, c) /\ (IsMember(rt, c) <=> had)
  BY <1>1, TransitEnds DEF Whole, Enrolled, InCohortRoom, V2
<1>4. Relocates(rt, changed, c)
  BY <1>1, SessionWrites
<1>5. rt' = RefreshMixedCohort(IF ~had /\ has THEN attached
                               ELSE IF had /\ ~has THEN left ELSE changed)
  BY DEF Renegotiate
<1> HIDE DEF changed
<1>6. Sound(changed) /\ changed.place[c] = "Room" /\ Present(changed)
  BY <1>1, <1>2, QuietSound DEF Sound
<1>7. Transit(changed, c) /\ (IsMember(changed, c) <=> had)
  BY <1>1, <1>3, <1>4, RelocateKeeps
<1>8. (c \in V2(changed)) <=> has
  BY <1>2 DEF V2
<1>9. /\ (c \in StartCapable(rt)) <=> had /\ "barrier" \in rt.caps[c]
      /\ (c \in StartCapable(changed)) <=> has /\ "barrier" \in caps
      /\ \A d \in Clients \ {c} : (d \in StartCapable(changed)) <=> (d \in StartCapable(rt))
  BY <1>2 DEF StartCapable, V2, BarrierV1
<1>10. caps \subseteq Capabilities /\ rt.caps[c] \subseteq Capabilities
  BY <1>1, ClientsAssumption DEF Runtimes
<1>11. (had <=> has) => ("barrier" \in caps <=> "barrier" \notin rt.caps[c])
  <2>1. PICK x : ~((x \in caps) <=> (x \in rt.caps[c]))
    BY <1>1
  <2>2. x \in {"readiness", "barrier"}
    BY <1>10, <2>1 DEF Capabilities
  <2> QED
    BY <2>1, <2>2
<1> HIDE DEF had, has
<1>12. CASE ~had /\ has
  <2>1. c \in Clients \cup {NoClient}
    OBVIOUS
  <2>2. Settled(RefreshMixedCohort(attached))
    BY <1>2, <1>6, <1>7, <1>8, <1>12, <2>1, AttachSettles
  <2> HIDE DEF attached
  <2> QED
    BY <1>5, <1>12, <2>2, SettledAttends
<1>13. CASE had /\ ~has
  <2>1. /\ left.place = changed.place /\ left.caps = changed.caps
        /\ ~IsMember(left, c) /\ Transit(left, c) /\ left \in Runtimes /\ Settled(left)
    BY <1>2, <1>7, <1>13, DetachCoheres, DetachType, DetachAttends
  <2> HIDE DEF left
  <2>2. ~InCohortRoom(left, c)
    BY <1>8, <1>13, <2>1 DEF InCohortRoom, V2
  <2>3. Enrolled(left) /\ Steady(left)
    BY <2>1, <2>2, TransitEnds
  <2>4. Settled(RefreshMixedCohort(left))
    BY <2>1, <2>3, RefreshSettles
  <2> QED
    BY <1>5, <1>13, <2>4, SettledAttends
<1>14. CASE had <=> has
  <2>1. IsMember(changed, c) <=> InCohortRoom(changed, c)
    BY <1>6, <1>7, <1>8, <1>14 DEF InCohortRoom
  <2>2. Enrolled(changed) /\ Steady(changed)
    BY <1>7, <2>1 DEF Transit, MembersBut, MembersLive, Enrolled
  <2>3. rt' = RefreshMixedCohort(changed)
    BY <1>5, <1>14
  <2>4. Settled(rt') \/ (rt' = changed /\ changed.readiness.live /\ Reconciled(changed, changed))
    BY <1>2, <2>2, <2>3, RefreshSettles
  <2>5. CASE Settled(rt')
    BY <2>5, SettledAttends
  <2>6. CASE rt' = changed /\ Reconciled(changed, changed) /\ had
    <3>1. changed.readiness.part[c].role = RoleOf(changed, c)
      BY <1>7, <2>6 DEF Reconciled
    <3>2. (RoleOf(changed, c) = "Required") <=> c \in StartCapable(changed)
      BY <1>1, <1>2 DEF RoleOf, ClientsInRoom
    <3>3. (rt.readiness.part[c].role = "Required") <=> c \in StartCapable(rt)
      BY <1>1, <1>3, <2>6 DEF Whole, Cohort, RolesFollow
    <3> QED
      BY <1>2, <1>9, <1>11, <1>14, <2>6, <3>1, <3>2, <3>3
  <2>7. CASE rt' = changed /\ ~had
    <3>1. StartCapable(changed) = StartCapable(rt)
      BY <1>9, <1>14, <2>7 DEF StartCapable, V2
    <3> QED
      BY <1>1, <1>2, <2>7, <3>1, ViewAttends
  <2> QED
    BY <2>4, <2>5, <2>6, <2>7
<1> QED
  BY <1>12, <1>13, <1>14

\* Every session step.
LEMMA MemberStepAttends ==
  ASSUME Sound(rt), Whole(rt), NEW c \in Clients, MemberStep(c)
  PROVE  Attends(rt, rt')
<1>1. ASSUME NEW token \in Clients \cup {NoClient}, Hello(c, token)
      PROVE  Attends(rt, rt')
  BY <1>1, HelloAttends
<1>2. CASE rt.place[c] = "Room" /\ rt' = DepartSession(rt, c)
  BY <1>2, DepartAttends
<1>3. CASE rt.place[c] = "Elsewhere" /\ rt' = RemoveSession(rt, c, "Gone")
  BY <1>3, ForgetAttends
<1>4. CASE SwitchAway(c)
  BY <1>4, SwitchAwayAttends
<1>5. CASE SwitchIn(c)
  BY <1>5, SwitchInAttends
<1>6. ASSUME NEW caps \in Renegotiations, NEW seedReady \in BOOLEAN,
             Renegotiate(c, caps, seedReady)
      PROVE  Attends(rt, rt')
  BY <1>6, RenegotiateAttends
<1> QED
  BY <1>1, <1>2, <1>3, <1>4, <1>5, <1>6 DEF MemberStep, Disconnect

-----------------------------------------------------------------------------
(* The theorems about the gate.                                            *)

\* Every step evaluates what it changes; only a recovery hands a due start over.
LEMMA StepServes ==
  ASSUME Coherent, Coherent', [Next]_vars
  PROVE  Serves(rt, rt')
<1>1. Sound(rt) /\ Whole(rt) /\ Whole(rt')
  BY DEF Coherent
<1>2. CASE UNCHANGED vars
  BY <1>2, StillAttends, AttendsServes DEF vars
<1>3. ASSUME NEW c \in Clients,
             MemberStep(c) \/ BarrierStep(c) \/ ReadinessStep(c) \/ TransportStep(c)
      PROVE  Serves(rt, rt')
  BY <1>1, <1>3, MemberStepAttends, BarrierStepServes, ReadinessStepAttends,
     TransportStepAttends, AttendsServes
<1>4. CASE TickStep
  BY <1>1, <1>4, TickStepAttends, AttendsServes
<1> QED
  BY <1>2, <1>3, <1>4 DEF Next

\* The published gate is the determined one, but for a transport that is being closed.
LEMMA GateHoldsAlways == Spec => []GateHolds(rt)
<1>1. Init => GateHolds(rt)
  BY DEF Init, InitialRuntime, NoReadiness, GateHolds, Refreshed
<1>2. Coherent /\ Coherent' /\ GateHolds(rt) /\ [Next]_vars => GateHolds(rt)'
  BY StepServes DEF Serves
<1> QED
  BY <1>1, <1>2, CoherentAlways, PTL DEF Spec

\* Every cached verdict and the published phase of the start gate are current
\* (`recompute_participant_readiness`, `refresh_readiness_gate_phase`): no handler forgets
\* to recompute them, save that a recovery leaves the gate to the close of the transport
\* that it fenced.
THEOREM CachesStayFresh == Spec => []CachesAreFresh
<1>1. Coherent /\ GateHolds(rt) => CachesAreFresh
  <2> SUFFICES ASSUME Coherent, GateHolds(rt) PROVE CachesAreFresh
    OBVIOUS
  <2>1. \A c \in ReadinessMembers(rt) :
          FreshRecord(rt.readiness.part[c], rt.readiness.gen)
    BY DEF Coherent, Whole, Steady, Fresh, ReadinessMembers, IsMember
  <2>2. ClientsInRoom(rt) \cap rt.fenced = {} => ~Stale(rt)
    BY DEF Stale, ClientsInRoom
  <2>3. /\ rt.readiness.live /\ rt.readiness.gen # 0
        /\ ClientsInRoom(rt) \cap rt.fenced = {}
        => rt.readiness.gate = GateFor(rt)
    BY <2>2 DEF GateHolds, Refreshed
  <2> QED
    BY <2>1, <2>3 DEF CachesAreFresh, FreshRecord
<1> QED
  BY <1>1, CoherentAlways, GateHoldsAlways, PTL

\* No handler forgets `maybe_commit_readiness_gate`: a step after which the policy of a
\* governed start is satisfied, while its gate owns the pause, also commits it, unless the
\* start was due before or the step is a recovery.
THEOREM NoStartIsMissed == Spec => NoMissedStart
<1>1. Coherent /\ Coherent' /\ [Next]_vars => [StartDue(rt') => StartDue(rt) \/ Recovers]_vars
  BY StepServes DEF Serves, HandsOver, Recovers
<1> QED
  BY <1>1, CoherentAlways, PTL DEF Spec, NoMissedStart
=============================================================================
