SPECIFICATION Spec
INVARIANTS
    LeaseBacked
PROPERTIES
    NoTheft
    ImplementsLeaseService
CONSTANTS
    Owner = {o1, o2}
    Lock = {l1, l2}
    TTL <- MCTTL
    MaxClock = 3
    NoOwner = NoOwner
    NoLock = NoLock
SYMMETRY Symmetry
