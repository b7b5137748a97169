CONSTANTS
    Root = "root"
    RepoOrder <- MCRepoOrder
    Features = {"api", "site"}
    Touches <- MCTouches
    Scope <- MCScope
    Profiles <- MCProfiles
    Deploy <- MCDeploy
    Providers <- MCProviders
    DefaultProvider = "local-hooks"
    Sessions = {1, 2}
    Cutters = {1}
    Forced = FALSE
    Environments = {"preview", "production"}
    Gated = {"production"}
    Options <- MCOptions
    Worlds <- MCWorlds
    MaxStarts = 4
SPECIFICATION ChainSpec
INVARIANTS
    ReleasedJustified
    SmokeRan
    DeployedAsNamed
CHECK_DEADLOCK FALSE
