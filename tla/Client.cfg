SPECIFICATION FairSpec
CONSTANTS
    UserCommands = {"EXIT", "EXIT_BLANK", "ROOM_CREATE_REQUEST", "ROOM_LIST_REQUEST", "LEAVE_ROOM", "ROOM_MESSAGE_SEND"}
    Faults = {"server_stops", "tear", "input"}
    MaxLines = 2
    MaxReplies = 3
INVARIANTS
    TypeOK
    InStep
    NothingAfterExit
    DiesOnlyAtTheEnd
PROPERTIES
    ExitEnds
    ServerLossIsNoticed
\* The process ends.
CHECK_DEADLOCK FALSE
