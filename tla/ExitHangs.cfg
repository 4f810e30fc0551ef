SPECIFICATION FairSpec
CONSTANTS
    UserCommands = {"EXIT", "ROOM_CREATE_REQUEST", "ROOM_MESSAGE_SEND"}
    Faults = {}
    MaxLines = 2
    MaxReplies = 2
PROPERTIES
    ExitTerminates
\* The process ends.
CHECK_DEADLOCK FALSE
