SPECIFICATION FairSpec
INVARIANTS
    StartsInOrder
    ToldTruly
PROPERTIES
    EveryTaskFinishes
    ImplementsIntentService
CONSTANTS
    review = review
    execute = execute
    NoTask = NoTask
    None = None
    Task = {t1, t2}
    Content <- MCContent
    Reviews <- MCReviews
    FollowUp <- MCFollowUp
    Window = 0
    Raises = TRUE
    Outlives = TRUE
    MaxClock = 1
    MaxEnds = 1
    MaxEvents = 1
CHECK_DEADLOCK FALSE
