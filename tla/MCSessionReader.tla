--------------------------- MODULE MCSessionReader ---------------------------
(* An instance of SessionReader with the limits of protocol.h.               *)
EXTENDS SessionReader

\* A client that sends one kind of message of full length and short others.
MCContentLength ==
    [c \in {"USERNAME_SUBMIT", "ROOM_CREATE_REQUEST", "ROOM_MESSAGE_SEND", "EXIT"} |->
        IF c = "ROOM_MESSAGE_SEND" THEN MAX_CONTENT_LEN ELSE 5]

=============================================================================
