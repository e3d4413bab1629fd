SPECIFICATION Spec
CONSTANTS
  ann = ann
  bob = bob
  dan = dan
  NoClient = NoClient
  NoRequest = NoRequest
  Clients = {ann, bob}
  Controllers = {ann, bob}
  HelloCaps <- EveryoneCapable
  Renegotiations = {{"barrier"}}
  Requests <- SharedStart
  Reports <- PlayableOnly
  Sources = {"DirectUser"}
  MixedPolicy = "RequireAllMembers"
  Persistent = FALSE
  MaxGeneration = 1
  MaxSequence = 3
  MaxTombstones = 1
SYMMETRY Symmetry
INVARIANTS
  TypeOK
  BarrierFollowsCohort
  CachesAreFresh
PROPERTIES
  StartIsEarned
  NoMissedStart
\* Every connection may leave for good, after which nothing is left to happen.
CHECK_DEADLOCK FALSE
