SPECIFICATION Spec
CONSTANTS
    w1 = w1
    w2 = w2
    w3 = w3
    c1 = c1
    c2 = c2
    c3 = c3
    none = none
    NULL <- none
    Workers <- ThreeWorkers
    Clients <- ThreeClients
    WorkerOf <- Apart3
    MAX_ROOMS = 2
    MAX_CLIENTS_ROOM = 1
    Peers <- QuietPeers
INVARIANTS
    CapacityErrorIsHonest
