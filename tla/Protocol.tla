------------------------------ MODULE Protocol ------------------------------
(***************************************************************************)
(* The commands of src/server/protocol.h, which of them a client may give  *)
(* in which state, and what the server's handlers make of them             *)
(* (client_state_manager.c). What depends on the other clients or on the   *)
(* text of a name is left open: a request may succeed or be refused.       *)
(***************************************************************************)

Commands == {"EXIT", "USERNAME_SUBMIT", "ROOM_CREATE_REQUEST", "ROOM_LIST_REQUEST",
             "ROOM_JOIN_REQUEST", "LEAVE_ROOM", "ROOM_MESSAGE_SEND"}

ClientStates == {"awaiting_username", "in_chat_lobby", "in_chat_room"}

\* Replies that a client has to act on, and the others.
PlaceReplies == {"ROOM_CREATE_OK", "ROOM_JOIN_OK", "ROOM_LEAVE_OK"}
Replies == PlaceReplies \cup {"ROOM_LIST_RESPONSE", "ROOM_MSG", "ERR"}

\* command_valid_for_state.
ValidCommands(state) ==
    {"EXIT"} \cup
    CASE state = "awaiting_username" -> {"USERNAME_SUBMIT"}
      [] state = "in_chat_lobby" -> {"ROOM_CREATE_REQUEST", "ROOM_JOIN_REQUEST",
                                     "ROOM_LIST_REQUEST"}
      [] state = "in_chat_room" -> {"ROOM_MESSAGE_SEND", "LEAVE_ROOM"}

Answer(state, replies) == [state |-> state, replies |-> replies]

\* Mutant of LeaveReplies: the leaver hears what leave_room tells the others.
LeaveRepliesWithEcho == <<"ROOM_MSG", "ROOM_LEAVE_OK">>

LeaveReplies == <<"ROOM_LEAVE_OK">>

\* What route_client_command may do with a well-formed command other than
\* EXIT: the next state and the replies.
Answers(state, command) ==
    LET refused == Answer(state, <<"ERR">>) IN
    IF command \notin ValidCommands(state) THEN {refused}
    ELSE CASE command = "USERNAME_SUBMIT" ->
                {refused, Answer("in_chat_lobby", <<"ROOM_LIST_RESPONSE">>)}
           [] command = "ROOM_CREATE_REQUEST" ->
                {refused, Answer("in_chat_room", <<"ROOM_CREATE_OK">>)}
           [] command = "ROOM_JOIN_REQUEST" ->
                {refused, Answer("in_chat_room", <<"ROOM_JOIN_OK">>)}
           [] command = "ROOM_LIST_REQUEST" -> {Answer(state, <<"ROOM_LIST_RESPONSE">>)}
           [] command = "ROOM_MESSAGE_SEND" -> {Answer(state, <<>>)}
           [] command = "LEAVE_ROOM" -> {Answer("in_chat_lobby", LeaveReplies)}

=============================================================================
