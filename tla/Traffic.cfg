SPECIFICATION Spec
CONSTANTS
  home = home
  away = away
  Connections = {1, 2, 3, 4, 5}
  Addresses = {home, away}
  AddressOf <- Household
  MaxActive = 4
  MaxUnauthenticated = 3
  MaxPerAddress = 2
  p1 = p1
  p2 = p2
  r1 = r1
  r2 = r2
  r3 = r3
  Reservations = {r1, r2, r3}
  Peers = {p1, p2}
  PeerOf <- TwoOfOne
  Sizes = {1, 2, 3}
  PeerLimit = 4
  TotalLimit = 5
  Capacity = 2
  MaxEvents = 5
  Superseding = {"request"}
  MaxLines = 2
  MaxConnections = 2
INVARIANTS
  TypeOK
  AdmissionIsExact
  BudgetIsExact
PROPERTIES
  WrittenInOrder
  DispatchEnds
  OverloadEndsSession
  WithdrawnIsNeverResent
  ReliableIsDelivered
\* A connection may end, after which nothing is left to happen to its queue.
CHECK_DEADLOCK FALSE
