SPECIFICATION LibrarySpec
CONSTANTS
    Up = Up
    Path <- MCPath
    RootRepo = RootRepo
    None = None
    RepoPrefixes <- MCRepoPrefixes
    TargetRoots <- MCTargetRoots
    TestRoots <- MCTestRoots
    Slug <- MCSlug
    Bucket <- MCBucket
    MainSlice <- MCMainSlice
    Skeleton <- MCSkeleton
    Drafts <- MCDrafts
    Worlds <- MCWorlds
    MaxSaves <- MCMaxSaves
    MaxChanges = 1
    MaxPlans = 1
    MaxWorks = 1
INVARIANTS
    ApprovedStands
    PlansSound
CHECK_DEADLOCK FALSE
