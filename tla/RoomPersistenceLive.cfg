SPECIFICATION Spec
CONSTANTS
  r1 = r1
  r2 = r2
  Rooms = {r1, r2}
  QueueCapacity = 1
  MaxVersion = 2
  MaxBarriers = 1
  MaxCrashes = 0
PROPERTIES
  EffectIsTried
  ShutdownEnds
\* After a shutdown nothing is left to happen.
CHECK_DEADLOCK FALSE
