CONSTANTS
    a = a
    b = b
    Clones = {a, b}
    Kinds <- MCKinds
    Branching = {a}
    Bumps = {"auto"}
    Explicit = {}
    SinceTags <- MCSinceTags
    MaxCommits = 5
SPECIFICATION PublishSpec
INVARIANTS
    OriginTells
CHECK_DEADLOCK FALSE
