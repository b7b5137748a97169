CONSTANTS
    Request <- MCRequest
    MaxChat = 2
SPECIFICATION Spec
INVARIANTS
    TaskToOne
    NoChildLeft
    ReportTells
PROPERTIES
    EveryRunEnds
CHECK_DEADLOCK FALSE
