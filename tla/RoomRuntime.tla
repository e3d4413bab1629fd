----------------------------- MODULE RoomRuntime -----------------------------
(***************************************************************************)
(* The part of `ServerRuntime` (crates/sorotte-server/src/lib.rs) that     *)
(* decides when one room starts and pauses: its sessions, its playback     *)
(* barrier, its readiness coordinator and its canonical pause bit.         *)
(*                                                                         *)
(* The server runs every handler on one actor task with `&mut self`, so a  *)
(* handler is one atomic step that calls several methods in a fixed order, *)
(* each of which may commit the barrier.  The methods are therefore        *)
(* operators from a runtime record `s` to the runtime record they leave    *)
(* behind, and a handler is their composition in the code's order.         *)
(***************************************************************************)
EXTENDS Naturals, FiniteSets

CONSTANTS
  Clients,        \* connections; a connection id is never reused by another transport
  NoClient,       \* the initiator of an absent barrier, the actor of an unowned pause
  HelloCaps,      \* the capabilities each connection announces in its Hello
  Renegotiations, \* the capability sets a session may announce later with Set.features
  Controllers,    \* connections whose user may control the room's playlist
  Requests,       \* the prepare requests that clients send, resend and delay
  NoRequest,      \* the request of an absent barrier
  MixedPolicy,    \* MixedReadinessPolicy of the server
  Persistent,     \* whether the room is retained when its last member leaves
  MaxTombstones,  \* PlaybackBarrierRequestTombstonePolicy::max_per_room
  MaxGeneration,  \* bound on the generations the model allocates
  MaxSequence     \* bound on the room-join sequence numbers the model hands out

Policies == {"AllEligible", "Controller", "Quorum"}
TimeoutActions == {"Continue", "RemainPaused", "AskController"}
\* sorotteReadinessV2 and sorottePlaybackBarrierV1.
Capabilities == {"readiness", "barrier"}
LoadIntents == {"NewPlayback", "Replay", "TransportRefresh"}

ASSUME ClientsAssumption ==
  /\ IsFiniteSet(Clients) /\ NoClient \notin Clients
  /\ Controllers \subseteq Clients
  /\ HelloCaps \in [Clients -> SUBSET Capabilities]
  /\ Renegotiations \subseteq SUBSET Capabilities

ASSUME PolicyAssumption ==
  /\ MixedPolicy \in {"RequireAllMembers", "ExcludeUnsupported"}
  /\ Persistent \in BOOLEAN

ASSUME BoundsAssumption ==
  MaxTombstones \in Nat /\ MaxGeneration \in Nat /\ MaxSequence \in Nat

\* A prepare carries a stable operation id (0: none, from peers without one) and a
\* connection-scoped nonce; `quorum` is the normalised quorum of the Quorum policy.
\* The server tells nobody else a request's id, so only the connections of the process
\* that made it, `from`, can send it.
ASSUME RequestsAssumption ==
  /\ NoRequest \notin Requests
  /\ \A q \in Requests :
       /\ q.id \in Nat /\ q.nonce \in Nat \ {0} /\ q.policy \in Policies
       /\ q.timeoutAction \in TimeoutActions /\ q.intent \in LoadIntents
       /\ q.quorum \in Nat /\ q.from \subseteq Clients

-----------------------------------------------------------------------------
(* The shape of the state.                                                 *)

Places == {"New", "Room", "Elsewhere", "Gone"}

\* PlaybackBarrierParticipantPhase, with the degraded reason `Disconnected` told
\* apart from the others because commit and rebind read it.
ParticipantPhases ==
  {"Absent", "Pending", "Ready", "Started", "Disconnected", "Degraded",
   "PrepareTimedOut", "StartedAckTimedOut"}

LifecyclePhases ==
  {"Preparing", "Committed", "AwaitingDecision", "Complete", "Degraded"}

Roles == {"Absent", "Required", "ExcludedUnsupported"}
TechnicalPhases ==
  {"Unknown", "Preparing", "Playable", "TemporarilyBlocked", "TerminallyBlocked"}
Causes == {"None", "Recovery", "EndOfFile", "Other"}
OwnerKinds == {"None", "User", "ReadinessStartGate", "Recovery", "EndOfPlaylist"}
GatePhases ==
  {"Inactive", "WaitingForIntent", "WaitingForTechnicalReadiness", "ReadyToCommit",
   "Committed", "Degraded"}
GateReasons ==
  {"None", "UnsupportedParticipant", "NoRequiredParticipants", "UserPaused",
   "PauseOwnershipLost", "TechnicalFailure", "Cancelled", "TimedOut"}

Owners == [kind : OwnerKinds, gen : Nat, actor : Clients \cup {NoClient}]
Gates == [phase : GatePhases, gen : Nat, reason : GateReasons]
Technicals == [phase : TechnicalPhases, gen : Nat, cause : Causes]

\* ServerReadinessParticipant with its ParticipantReadiness record.
Records ==
  [role : Roles,
   intentReady : BOOLEAN,                 \* user_intent = Ready
   touched : BOOLEAN,                     \* user_intent_revision > 0
   initializationOpen : BOOLEAN,
   tech : Technicals,
   blocked : BOOLEAN,                     \* terminal_technical_block is set
   automatic : {"None", "Recovery", "EndOfPlaylist"},
   roomReady : BOOLEAN,
   startEligible : BOOLEAN]

\* RoomReadinessCoordinator; `live` is whether the room has one.
Readinesses ==
  [live : BOOLEAN, gen : Nat, owner : Owners, gate : Gates, part : [Clients -> Records]]

\* RoomPlaybackBarrier; `rev` is the commit's state revision, 0 before a commit.
Lifecycles ==
  [phase : LifecyclePhases, gen : Nat, req : Requests,
   initiator : Clients, initiatorSeq : Nat,
   part : [Clients -> ParticipantPhases], excluded : SUBSET Clients,
   rev : Nat, gated : BOOLEAN]

NoBarrier ==
  [phase |-> "None", gen |-> 0, req |-> NoRequest, initiator |-> NoClient,
   initiatorSeq |-> 0, part |-> [c \in Clients |-> "Absent"], excluded |-> {},
   rev |-> 0, gated |-> FALSE]

Barriers == Lifecycles \cup {NoBarrier}

\* PendingUserTransportTransition, one per connection.
Pendings == [paused : BOOLEAN, evidence : {"None", "Accepted", "Observed"}]

\* DetachedReadinessMembership, keyed by the connection that left.
Detacheds ==
  [kept : BOOLEAN, intentReady : BOOLEAN, touched : BOOLEAN]

Runtimes ==
  [place : [Clients -> Places], caps : [Clients -> SUBSET Capabilities], seq : [Clients -> Nat], nextSeq : Nat,
   fenced : SUBSET Clients, nonce : [Clients -> Nat],
   tombstones : SUBSET Nat,
   paused : BOOLEAN, barrier : Barriers, readiness : Readinesses,
   pending : [Clients -> Pendings], detached : [Clients -> Detacheds],
   nextGen : Nat, nextRev : Nat]

-----------------------------------------------------------------------------
NoOwner == [kind |-> "None", gen |-> 0, actor |-> NoClient]
UserOwner(c) == [kind |-> "User", gen |-> 0, actor |-> c]
GateOwner(g) == [kind |-> "ReadinessStartGate", gen |-> g, actor |-> NoClient]
AutomaticOwner(kind) == [kind |-> kind, gen |-> 0, actor |-> NoClient]

InactiveGate == [phase |-> "Inactive", gen |-> 0, reason |-> "None"]
NoPending == [paused |-> FALSE, evidence |-> "None"]
NoDetached == [kept |-> FALSE, intentReady |-> FALSE, touched |-> FALSE]

\* TechnicalPlayability of a participant whose generation has just changed.
FreshTechnical(g) ==
  [phase |-> IF g = 0 THEN "Unknown" ELSE "Preparing", gen |-> g, cause |-> "None"]

NoRecord ==
  [role |-> "Absent", intentReady |-> FALSE, touched |-> FALSE,
   initializationOpen |-> FALSE, tech |-> FreshTechnical(0), blocked |-> FALSE,
   automatic |-> "None", roomReady |-> FALSE, startEligible |-> FALSE]

NoReadiness ==
  [live |-> FALSE, gen |-> 0, owner |-> NoOwner, gate |-> InactiveGate,
   part |-> [c \in Clients |-> NoRecord]]

\* `RoomPlaybackState::new_at`: a room is created paused.
InitialRuntime ==
  [place |-> [c \in Clients |-> "New"], caps |-> [c \in Clients |-> {}], seq |-> [c \in Clients |-> 0], nextSeq |-> 0,
   fenced |-> {}, nonce |-> [c \in Clients |-> 0], tombstones |-> {},
   paused |-> TRUE, barrier |-> NoBarrier, readiness |-> NoReadiness,
   pending |-> [c \in Clients |-> NoPending],
   detached |-> [c \in Clients |-> NoDetached],
   nextGen |-> 0, nextRev |-> 0]

-----------------------------------------------------------------------------
\* `clients_in_room`: the sessions whose room is this one, fenced ones included.
ClientsInRoom(s) == {c \in Clients : s.place[c] = "Room"}

V2(s) == {c \in Clients : "readiness" \in s.caps[c]}
BarrierV1(s) == {c \in Clients : "barrier" \in s.caps[c]}

\* Connections that can belong to the authoritative start cohort.
StartCapable(s) == V2(s) \cap BarrierV1(s)

RequiredParticipants(s) ==
  {c \in Clients : s.readiness.part[c].role = "Required"}

ReadinessMembers(s) == {c \in Clients : s.readiness.part[c].role # "Absent"}
=============================================================================
