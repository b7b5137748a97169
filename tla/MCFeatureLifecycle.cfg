SPECIFICATION Spec
INVARIANTS
    StartedAsApproved
    ApprovedWasReviewed
    ClosedWasVerified
PROPERTIES
    RemakingDisarms
CONSTANTS
    Slice = {s1, s2}
    Operator = {o1, o2}
    Body = {todo, written, changed}
    Ready = {written, changed}
    FirstBody = todo
    None = None
    EditsAnytime = FALSE
    Crashes = TRUE
    MaxWrites = 3
    MaxCommands = 8
SYMMETRY MCSymmetry
CHECK_DEADLOCK FALSE
