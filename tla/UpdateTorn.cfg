SPECIFICATION Spec
CONSTANTS
    Plan <- MCPlan
    Platforms = {"windows"}
    Attempts = 2
    MaxFaults = 0
    MaxCrashes = 1
PROPERTY
    IncompleteJournalIsDisposable
CHECK_DEADLOCK FALSE
