SPECIFICATION QueueSpec
CONSTANTS
  Capacity = 1
  MaxEvents = 2
INVARIANTS
  DrainedGaugeIsZero
CHECK_DEADLOCK FALSE
