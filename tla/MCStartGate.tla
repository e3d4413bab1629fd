----------------------------- MODULE MCStartGate -----------------------------
(***************************************************************************)
(* Instances of StartGate: the connections ann, bob and dan, what they are *)
(* capable of, the starts they prepare and what their players report.      *)
(***************************************************************************)
EXTENDS StartGate, TLC

CONSTANTS ann, bob, dan

\* Connections alike in what they can do and ask for are interchangeable.
Symmetry == Permutations(Clients)

Request(id, nonce, media, intent, policy, action, quorum, from) ==
  [id |-> id, nonce |-> nonce, media |-> media, intent |-> intent, policy |-> policy,
   timeoutAction |-> action, quorum |-> quorum, from |-> from]

EveryoneCapable == [c \in Clients |-> Capabilities]
LegacyDan == [c \in Clients |-> IF c = dan THEN {} ELSE Capabilities]
BarrierOnlyBob == [c \in Clients |-> IF c = bob THEN {"barrier"} ELSE Capabilities]

\* A session loses readiness, or gains what it does not have.
Upgrades == {{"barrier"}, Capabilities}

\* One start, asked for by ann.
OneStart == {Request(1, 1, "m", "NewPlayback", "AllEligible", "Continue", 0, {ann})}

\* One start known to both connections of a process that reconnects.
SharedStart == {Request(1, 1, "m", "NewPlayback", "AllEligible", "Continue", 0, {ann, bob})}

\* Competing starts: two of ann's, one without an id, and one of bob's.
CompetingStarts ==
  {Request(1, 1, "m", "NewPlayback", "AllEligible", "AskController", 0, {ann}),
   Request(2, 2, "n", "NewPlayback", "Quorum", "RemainPaused", 1, {ann}),
   Request(0, 3, "n", "Replay", "Controller", "Continue", 0, {ann}),
   Request(3, 1, "n", "NewPlayback", "Controller", "Continue", 0, {bob})}

Playable == [phase |-> "Playable", reason |-> "None"]
PlayableOnly == {Playable}
PlayableOrBlocked ==
  {Playable, [phase |-> "TemporarilyBlocked", reason |-> "Recovery"],
   [phase |-> "TerminallyBlocked", reason |-> "EndOfFile"]}
=============================================================================
