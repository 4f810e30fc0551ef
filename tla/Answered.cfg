SPECIFICATION FairSpec
CONSTANTS
    MAX_THREADS = 1
    MAX_CLIENTS_PER_THREAD = 2
    FDs <- ThreeFds
    Faults <- HandledFaults
INVARIANTS
    OneToken
    NoFdLeak
    AllocationNeverFails
    BatchIsLive
PROPERTIES
    EveryConnectionIsAnswered
    DeadPeerIsReclaimed
