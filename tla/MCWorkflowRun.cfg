SPECIFICATION Spec
INVARIANTS
    ReportJustified
PROPERTIES
    PassedStaysPassed
    PauseHolds
    EngineNeverPermits
CONSTANTS
    Requests <- MCRequests
    MaxAttempts <- MCMaxAttempts
    Risk = "high"
    LinkedTests = 1
    ApiChange = FALSE
    MaxRuns = 3
    MaxCommands = 2
    MaxEnds = 1
CHECK_DEADLOCK FALSE
