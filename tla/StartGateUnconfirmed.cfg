SPECIFICATION Spec
CONSTANTS
  ann = ann
  bob = bob
  dan = dan
  NoClient = NoClient
  NoRequest = NoRequest
  Clients = {ann}
  Controllers = {ann}
  HelloCaps <- EveryoneCapable
  Renegotiations = {}
  Requests <- OneStart
  Reports <- PlayableOnly
  Sources = {"DirectUser"}
  MixedPolicy = "RequireAllMembers"
  Persistent = TRUE
  MaxGeneration = 1
  MaxSequence = 2
  MaxTombstones = 1
PROPERTIES
  GovernedStartIsConfirmed
\* Every connection may leave for good, after which nothing is left to happen.
CHECK_DEADLOCK FALSE
