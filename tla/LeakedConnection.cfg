SPECIFICATION FairSpec
CONSTANTS
    MAX_THREADS = 1
    MAX_CLIENTS_PER_THREAD = 1
    FDs <- TwoFds
    Faults <- AllFaults
PROPERTIES
    EveryConnectionIsAnswered
CHECK_DEADLOCK FALSE
