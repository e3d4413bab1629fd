SPECIFICATION Spec
CONSTANTS
  ann = ann
  bob = bob
  dan = dan
  NoClient = NoClient
  NoRequest = NoRequest
  Clients = {ann, bob}
  Controllers = {ann, bob}
  HelloCaps <- EveryoneCapable
  Renegotiations = {}
  Requests <- SharedStart
  Reports <- PlayableOnly
  Sources = {"DirectUser"}
  MixedPolicy = "RequireAllMembers"
  Persistent = FALSE
  MaxGeneration = 1
  MaxSequence = 3
  MaxTombstones = 1
PROPERTIES
  RecoveredReadinessIsFresh
\* Every connection may leave for good, after which nothing is left to happen.
CHECK_DEADLOCK FALSE
