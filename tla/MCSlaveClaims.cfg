CONSTANTS
    w1 = w1
    w2 = w2
    p1 = p1
    p2 = p2
    p3 = p3
    ana = ana
    leo = leo
    s1 = s1
    s2 = s2
    Workspace = {w1, w2}
    Process = {p1, p2, p3}
    Shell = {p2}
    Home <- MCHome
    Actor = {ana, leo}
    Name <- MCName
    SpecId = {s1, s2}
    TTL = {2}
    WrapperTtl = 2
    Late = 1
    MaxAttempts = 2
    MaxClock = 2
    MaxToken = 2
    MaxCommands = 3
    NoActor = NoActor
    NoSpec = NoSpec
SPECIFICATION Spec
INVARIANTS
    ClaimedWork
SYMMETRY SpecsAlike
CHECK_DEADLOCK FALSE
