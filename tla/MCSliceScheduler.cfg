SPECIFICATION FairSpec
INVARIANTS
    ExclusiveExecution
    RunsTellOutcomes
    GatesHold
PROPERTIES
    RowsLeaveByOwner
    EveryRunReturns
CONSTANTS
    a = a
    b = b
    p = p
    q = q
    r = r
    None = None
    Run = {a, b}
    RunId <- MCRunId
    Slice = {1, 2, 3, 4, 5, 6, 7}
    DependsOn <- MCDependsOn
    Repo = {p, q, r}
    RepoOf <- MCRepoOf
    SemanticOf <- MCSemanticOf
    AreasOf <- MCAreasOf
    TargetsOf <- MCTargetsOf
    MaxWorkers = 2
    PerRepoCapacity = 1
    PerHotAreaCapacity = 1
    Launches <- MCLaunches
