SPECIFICATION Spec
CONSTANTS
  film = film
  song = song
  Targets = {film, song}
  MaxAttempts = 3
  MaxEntries = 2
  LoadTicks = 1
  RetentionTicks = 1
  MaxTrouble = 1
  MaxWaiting = 0
  Superseding = {}
  MaxLines = 3
  MaxConnections = 2
SYMMETRY Symmetry
INVARIANTS
  TypeOK
  LoadsAgree
  LoadsWillBeAnswered
  CompletedMeansLoaded
  SettledProjectionAgrees
  PollingHasReason
  NothingIsLost
  ScopedStaysOnItsConnection
PROPERTIES
  RevocationIsPermanent
\* With its attempts or its lines used up a client may have nothing left to do.
CHECK_DEADLOCK FALSE
