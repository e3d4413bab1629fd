SPECIFICATION Spec
CONSTANTS
  ann = ann
  bob = bob
  dan = dan
  NoClient = NoClient
  NoRequest = NoRequest
  Clients = {ann, dan}
  Controllers = {ann, dan}
  HelloCaps <- LegacyDan
  Renegotiations <- Upgrades
  Requests <- OneStart
  Reports <- PlayableOnly
  Sources = {"Initialization", "PlayerPlay", "PlayerPause"}
  MixedPolicy = "RequireAllMembers"
  Persistent = FALSE
  MaxGeneration = 1
  MaxSequence = 2
  MaxTombstones = 1
INVARIANTS
  PreparingHoldsPause
  StagedEvidenceIsCurrent
  PauseOwnershipIsTrue
  CohortFollowsSessions
PROPERTIES
  UserPauseYieldsOnlyToUsers
  StartIsEarned
\* Every connection may leave for good, after which nothing is left to happen.
CHECK_DEADLOCK FALSE
