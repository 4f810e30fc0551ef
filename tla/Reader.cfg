SPECIFICATION FairSpec
CONSTANTS
    MAX_MESSAGE_LEN_TO_SERVER = 132
    MAX_CONTENT_LEN = 128
    ContentLength <- MCContentLength
    Habits = {"after_exit", "unterminated"}
    MaxMessages = 3
    MaxConnections = 2
INVARIANTS
    TypeOK
    BufferHolds
    SlotAgrees
PROPERTIES
    ImplementsMessageStream
    EveryMessageIsRouted
\* The bounds on connections and messages are reached.
CHECK_DEADLOCK FALSE
