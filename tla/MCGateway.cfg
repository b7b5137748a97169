SPECIFICATION MCSpec
CONSTANTS
    NoActor = NoActor
    Actor = {a1, a2, a3}
    SpecId = {1}
    TTL = {1, 2}
    MaxClock = 4
    MaxToken = 5
    None = None
    Slugify <- MCSlugify
    Stripped <- MCStripped
    Titled <- MCTitled
    Named <- MCNamed
    Suffixed <- MCSuffixed
    Slug <- MCSlug
    Catalog <- MCCatalog
    Rules <- MCRules
    IllTitles = {"bad title"}
    LintRejects = TRUE
    EnforceApprover = TRUE
    Providers <- MCProviders
    DefaultProvider = "none"
    EnvAttempts = 4
    SectionRetry <- MCSectionRetry
    Delivery <- MCDelivery
    Caller = {"chat"}
    RateWindow = 2
    RateMax = 1
    DedupeWindow = 0
    LastSecond = 2
    MaxRows = 2
    MaxRestarts = 1
SYMMETRY MCSymmetry
INVARIANTS
    AdmittedRightly
    OutcomesTell
PROPERTIES
    OwnedStates
    KeptByHolder
    ImplementsLeaseService
