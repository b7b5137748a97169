CONSTANTS
    Setups <- MCSetups
    Lexical <- MCLexical
    Preferred <- MCPreferred
    Priority <- MCPriority
    Handoff <- MCHandoff
    Found <- MCFound
    Asks <- MCAsks
    FreshRun <- MCFresh
    Safe <- MCSafe
    Shown = 2
    Tree <- MCTree
    Above <- MCAbove
    Workspace = "ws"
    Repos <- MCRepos
    RootRepo = "softos"
    Worktrees <- MCWorktrees
    MaxRuns = 3
SPECIFICATION LaunchSpec
INVARIANTS
    NoEscalation
    ReviewIndependent
    RunsAsMeant
PROPERTIES
    ReportsKept
CHECK_DEADLOCK FALSE
