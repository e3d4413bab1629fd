SPECIFICATION Spec
CONSTANTS
  ann = ann
  bob = bob
  dan = dan
  NoClient = NoClient
  NoRequest = NoRequest
  Clients = {ann, bob}
  Controllers = {ann, bob}
  HelloCaps <- BarrierOnlyBob
  Renegotiations = {}
  Requests <- CompetingStarts
  Reports <- PlayableOrBlocked
  Sources = {"DirectUser"}
  MixedPolicy = "ExcludeUnsupported"
  Persistent = TRUE
  MaxGeneration = 3
  MaxSequence = 2
  MaxTombstones = 1
PROPERTIES
  LifecycleOnlyAdvances
  DisplacedStartsStayDisplaced
  StartsResolve
\* Every connection may leave for good, after which nothing is left to happen.
CHECK_DEADLOCK FALSE
