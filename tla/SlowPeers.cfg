SPECIFICATION Spec
CONSTANTS
    w1 = w1
    w2 = w2
    w3 = w3
    c1 = c1
    c2 = c2
    c3 = c3
    none = none
    NULL <- none
    Workers <- TwoWorkers
    Clients <- TwoClients
    WorkerOf <- Apart2
    MAX_ROOMS = 2
    MAX_CLIENTS_ROOM = 2
    Peers <- AllPeers
INVARIANTS
    RecipientsKnow
    OneSenderPerSocket
