SPECIFICATION Spec
CONSTANTS
    MAX_THREADS = 2
    MAX_CLIENTS_PER_THREAD = 1
    FDs <- ThreeFds
    Faults <- AllFaults
INVARIANTS
    TypeOK
    OneOwner
    CapacityAccounting
    RejectOnlyWhenFull
    EpollMatchesSlots
CHECK_DEADLOCK FALSE
