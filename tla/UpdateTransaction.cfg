SPECIFICATION Spec
CONSTANTS
    Plan <- MCPlan
    Platforms = {"windows", "unix"}
    Attempts = 2
    MaxFaults = 3
    MaxCrashes = 2
INVARIANTS
    TypeOK
    AlwaysRecoverable
PROPERTIES
    ImplementsAtomicInstall
    JournalIsConsumed
CHECK_DEADLOCK FALSE
