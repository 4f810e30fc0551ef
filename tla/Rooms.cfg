SPECIFICATION FairSpec
CONSTANTS
    w1 = w1
    w2 = w2
    w3 = w3
    c1 = c1
    c2 = c2
    c3 = c3
    none = none
    NULL <- none
    Workers <- TwoWorkers
    Clients <- ThreeClients
    WorkerOf <- Shared3
    MAX_ROOMS = 2
    MAX_CLIENTS_ROOM = 2
    Peers <- QuietPeers
INVARIANTS
    TypeOK
    MembershipAgrees
    RoomAccounting
    OneSpeaker
    ListIsHonest
PROPERTIES
    ImplementsChatRooms
    EveryLockIsReleased
