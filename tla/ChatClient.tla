----------------------------- MODULE ChatClient -----------------------------
(***************************************************************************)
(* The client program, src/client/main.c: the thread that reads what the   *)
(* user types, the thread that reads what the server sends, the two flags  *)
(* and the socket they share, and main, which waits for both. The server   *)
(* is what Protocol says of it, at the other end of two byte streams.      *)
(*                                                                         *)
(* Windows and texts are left out. A recv and the parsing of what it       *)
(* returned are one step: the buffer belongs to the thread.                *)
(***************************************************************************)
EXTENDS Protocol, Integers, Sequences

CONSTANTS
    UserCommands, \* what the user types
    Faults,       \* "server_stops", "tear": the server's recv cuts a terminator
                  \* in two, "input": wgetnstr fails
    MaxLines,     \* bound: lines on their way to the server
    MaxReplies    \* bound: replies on their way to the client

\* "EXIT_BLANK": /exit with a blank behind it or, in a room, any further word.
\* It leaves as EXIT, but it is not the line /exit.
Exits == {"EXIT", "EXIT_BLANK"}

ASSUME UserAssumption == UserCommands \subseteq (Commands \cup Exits) \ {"USERNAME_SUBMIT"}
ASSUME FaultsAssumption == Faults \subseteq {"server_stops", "tear", "input"}
ASSUME BoundsAssumption == MaxLines \in Nat \ {0} /\ MaxReplies \in Nat \ {0}

VARIABLES
    input_pc, receive_pc,
    line,         \* what the user has typed
    is_running, is_in_room,
    fd_open,      \* the descriptor of the socket
    lines,        \* lines on their way to the server
    state,        \* the client's state at the server
    replies,      \* replies on their way to the client
    peer,         \* the server's end of the connection
    asked_exit,   \* history: the user has typed /exit, and nothing else
    unterminated, \* history: a line was cut or its terminator torn
    swallowed     \* history: a reply about the place was read behind another

flags == <<is_running, is_in_room>>
network == <<lines, state, replies, peer>>
history == <<asked_exit, unterminated, swallowed>>
vars == <<input_pc, receive_pc, line, flags, fd_open, network, history>>

\* A line as it leaves the client: "whole", or "cut" by snprintf, which keeps
\* MAX_MESSAGE_LEN_TO_SERVER - 1 bytes of a text of MAX_CONTENT_LEN.
Lines == [command : Commands \cup Exits \cup {"INVALID"}, end : {"whole", "cut", "torn"}]
NoLine == [command |-> "INVALID", end |-> "whole"]

\* "returned": main has joined the threads, called ui_cleanup and returned;
\* "killed": exit(1) or SIGPIPE ended the process, without ui_cleanup.
EndPcs == {"exit_running", "exit_close", "done", "returned", "killed"}

TypeOK ==
    /\ input_pc \in {"username", "check", "typing", "validate", "send"} \cup EndPcs
    /\ receive_pc \in {"check", "recv", "in_recv"} \cup EndPcs
    /\ line \in Lines
    /\ is_running \in BOOLEAN /\ is_in_room \in BOOLEAN /\ fd_open \in BOOLEAN
    /\ \A i \in DOMAIN lines : lines[i] \in Lines
    /\ Len(lines) <= MaxLines
    /\ state \in ClientStates
    /\ \A i \in DOMAIN replies : replies[i] \in Replies \cup {"REST"}
    /\ Len(replies) <= MaxReplies
    /\ peer \in {"open", "closed", "closed_and_reset", "reset"}
    /\ asked_exit \in BOOLEAN /\ unterminated \in BOOLEAN /\ swallowed \in BOOLEAN

\* main up to the prompt for the user name: the server has sent its welcome,
\* of which one recv may have left a part, or an error, and then has closed.
Init ==
    /\ input_pc = "username" /\ receive_pc = "check"
    /\ line = NoLine
    /\ is_running = TRUE /\ is_in_room = FALSE
    /\ fd_open = TRUE
    /\ lines = <<>> /\ state = "awaiting_username"
    /\ replies \in {<<>>, <<"REST">>}
    /\ peer \in {"open", "closed"}
    /\ asked_exit = FALSE /\ unterminated = FALSE /\ swallowed = FALSE

Dies ==
    /\ input_pc' = "killed" /\ receive_pc' = "killed"
    /\ UNCHANGED <<line, flags, fd_open, network, history>>

-----------------------------------------------------------------------------
\* The input thread; before the threads exist, main.

\* send_message. A line to a server that has closed makes its end send a
\* reset, sooner or later, and send after a reset ends the process.
Send(l) ==
    IF peer = "open" THEN Len(lines) < MaxLines /\ lines' = Append(lines, l) /\ UNCHANGED peer
    ELSE peer' \in {"closed", "closed_and_reset"} /\ UNCHANGED lines
SendFails == ~ fd_open \/ peer \in {"closed_and_reset", "reset"}

\* get_username; the threads are created afterwards.
SubmitUsername ==
    /\ input_pc = "username"
    /\ IF SendFails THEN Dies
       ELSE /\ Send([command |-> "USERNAME_SUBMIT", end |-> "whole"])
            /\ input_pc' = "check"
            /\ UNCHANGED <<receive_pc, line, flags, fd_open, state, replies, history>>

InputCheck ==
    /\ input_pc = "check"
    /\ input_pc' = IF is_running THEN "typing" ELSE "done"
    /\ UNCHANGED <<receive_pc, line, flags, fd_open, network, history>>

\* A command, or a text of full length or shorter.
Type(l) ==
    /\ input_pc = "typing"
    /\ l.command \in UserCommands
    /\ l.end = "whole" \/ (l.end = "cut" /\ l.command = "ROOM_MESSAGE_SEND")
    /\ line' = l
    /\ input_pc' = "validate"
    /\ asked_exit' = (asked_exit \/ l.command = "EXIT")
    /\ UNCHANGED <<receive_pc, flags, fd_open, network, unterminated, swallowed>>

\* An empty line or HELP; or an error of wgetnstr, which ends the thread.
TypeNothing ==
    /\ input_pc = "typing"
    /\ \/ input_pc' = "check"
       \/ "input" \in Faults /\ input_pc' = "done"
    /\ UNCHANGED <<receive_pc, line, flags, fd_open, network, history>>

\* Mutant of Offered: /exit is not among the commands of a room.
OfferedNoExit(in_room) ==
    IF in_room THEN {"LEAVE_ROOM", "ROOM_MESSAGE_SEND"}
    ELSE Exits \cup {"ROOM_CREATE_REQUEST", "ROOM_JOIN_REQUEST", "ROOM_LIST_REQUEST"}

\* validate_and_format and handle_commands, which looks at the first word of a
\* command: what the client lets through.
Offered(in_room) ==
    Exits \cup IF in_room THEN {"LEAVE_ROOM", "ROOM_MESSAGE_SEND"}
                  ELSE {"ROOM_CREATE_REQUEST", "ROOM_JOIN_REQUEST", "ROOM_LIST_REQUEST"}

\* Mutants of AfterLine: /leave ends the client too; /exit does not end the
\* loop.
AfterLineLeave == IF line.command \in {"EXIT", "LEAVE_ROOM"} THEN "exit_running" ELSE "check"
AfterLineGoesOn == "check"

\* The loop compares the whole line with /exit.
AfterLine == IF line.command = "EXIT" THEN "exit_running" ELSE "check"

Validate ==
    /\ input_pc = "validate"
    /\ IF is_running /\ line.command \in Offered(is_in_room)
       THEN input_pc' = "send" /\ UNCHANGED line
       ELSE input_pc' = AfterLine /\ line' = NoLine
    /\ UNCHANGED <<receive_pc, flags, fd_open, network, history>>

SendLine ==
    /\ input_pc = "send"
    /\ IF SendFails THEN Dies
       ELSE /\ Send(line)
            /\ input_pc' = AfterLine
            /\ line' = NoLine
            /\ unterminated' = (unterminated \/ line.end = "cut")
            /\ UNCHANGED <<receive_pc, flags, fd_open, state, replies, asked_exit, swallowed>>

-----------------------------------------------------------------------------
\* The receive thread.

ReceiveCheck ==
    /\ input_pc # "username" /\ receive_pc = "check"
    /\ receive_pc' = IF is_running THEN "recv" ELSE "done"
    /\ UNCHANGED <<input_pc, line, flags, fd_open, network, history>>

\* A closed descriptor fails at once; a recv that is under way goes on when
\* the other thread closes the descriptor.
EnterRecv ==
    /\ receive_pc = "recv"
    /\ IF ~ fd_open THEN Dies
       ELSE /\ receive_pc' = "in_recv"
            /\ UNCHANGED <<input_pc, line, flags, fd_open, network, history>>

\* Mutant of Place: ROOM_LEAVE_OK is only displayed.
PlaceNoLeave(in_room, reply) == in_room \/ reply \in {"ROOM_CREATE_OK", "ROOM_JOIN_OK"}

\* parse_server_msg looks at the first byte of what recv returned.
Place(in_room, reply) ==
    IF reply \in PlaceReplies THEN reply # "ROOM_LEAVE_OK" ELSE in_room

\* recv returns the first k replies, the last of them possibly in part. A
\* reply is cut at most once (a bound).
Receive(k) ==
    /\ receive_pc = "in_recv"
    /\ \/ replies' = SubSeq(replies, k + 1, Len(replies))
       \/ replies[k] # "REST" /\ replies' = <<"REST">> \o SubSeq(replies, k + 1, Len(replies))
    /\ is_in_room' = Place(is_in_room, Head(replies))
    /\ swallowed' = (swallowed \/ \E i \in 2 .. k : replies[i] \in PlaceReplies)
    /\ receive_pc' = "check"
    /\ UNCHANGED <<input_pc, line, is_running, fd_open, lines, state, peer,
                   asked_exit, unterminated>>

\* Mutant of ReceiveEnd: the end of the stream is taken for a message.
ReceiveNothing ==
    /\ receive_pc = "in_recv" /\ replies = <<>> /\ peer # "open"
    /\ receive_pc' = "check"
    /\ UNCHANGED <<input_pc, line, flags, fd_open, network, history>>

\* The server has closed (recv returns 0) or reset the connection (-1).
ReceiveEnd ==
    /\ receive_pc = "in_recv" /\ replies = <<>> /\ peer # "open"
    /\ IF peer = "reset" THEN Dies
       ELSE /\ receive_pc' = "exit_running"
            /\ UNCHANGED <<input_pc, line, flags, fd_open, network, history>>

-----------------------------------------------------------------------------
\* exit_client, by either thread, and the end of main.

ExitRunning ==
    /\ \/ input_pc = "exit_running" /\ input_pc' = "exit_close" /\ UNCHANGED receive_pc
       \/ receive_pc = "exit_running" /\ receive_pc' = "exit_close" /\ UNCHANGED input_pc
    /\ is_running' = FALSE
    /\ UNCHANGED <<line, is_in_room, fd_open, network, history>>

ExitClose ==
    /\ \/ input_pc = "exit_close" /\ input_pc' = "done" /\ UNCHANGED receive_pc
       \/ receive_pc = "exit_close" /\ receive_pc' = "done" /\ UNCHANGED input_pc
    /\ fd_open' = FALSE
    /\ UNCHANGED <<line, flags, network, history>>

MainReturns ==
    /\ input_pc = "done" /\ receive_pc = "done"
    /\ input_pc' = "returned" /\ receive_pc' = "returned"
    /\ fd_open' = FALSE
    /\ UNCHANGED <<line, flags, network, history>>

-----------------------------------------------------------------------------
\* The server. It refuses no user name that the client lets through. At EXIT it
\* closes, with a reset if a line behind EXIT was not read along with it; one
\* that was is answered to nobody.

Serve ==
    LET command == Head(lines).command IN
    /\ peer = "open" /\ lines # <<>> /\ Head(lines).end = "whole"
    /\ lines' = Tail(lines)
    /\ IF command \in Exits
       THEN /\ peer' \in IF lines' = <<>> THEN {"closed"} ELSE {"closed", "reset"}
            /\ UNCHANGED <<state, replies>>
       ELSE /\ Len(replies) < MaxReplies
            /\ \E a \in Answers(state, command) :
                /\ command = "USERNAME_SUBMIT" => a.replies # <<"ERR">>
                /\ state' = a.state
                /\ replies' = replies \o a.replies
            /\ UNCHANGED peer
    /\ UNCHANGED <<input_pc, receive_pc, line, flags, fd_open, history>>

\* A line whose terminator was not seen continues with the next one. After a
\* text of full length the content is too long; otherwise it may pass.
Merge ==
    /\ peer = "open" /\ Len(lines) > 1 /\ Head(lines).end # "whole"
    /\ \E c \in {"INVALID"} \cup {d \in {Head(lines).command} : Head(lines).end = "torn"} :
          lines' = [Tail(lines) EXCEPT ![1] = [command |-> c, end |-> lines[2].end]]
    /\ UNCHANGED <<input_pc, receive_pc, line, flags, fd_open, state, replies, peer,
                   history>>

Tear(i) ==
    /\ "tear" \in Faults /\ peer = "open" /\ lines[i].end = "whole"
    /\ lines' = [lines EXCEPT ![i].end = "torn"]
    /\ unterminated' = TRUE
    /\ UNCHANGED <<input_pc, receive_pc, line, flags, fd_open, state, replies, peer,
                   asked_exit, swallowed>>

\* What other members say. The bound leaves room for a reply.
RoomSpeaks ==
    /\ peer = "open" /\ state = "in_chat_room" /\ Len(replies) < MaxReplies - 1
    /\ replies' = Append(replies, "ROOM_MSG")
    /\ UNCHANGED <<input_pc, receive_pc, line, flags, fd_open, lines, state, peer,
                   history>>

\* The kernel closes the sockets of a server that stops, with a reset if there
\* is something unread.
ServerStops ==
    /\ "server_stops" \in Faults /\ peer = "open"
    /\ peer' = IF lines = <<>> THEN "closed" ELSE "reset"
    /\ lines' = <<>>
    /\ UNCHANGED <<input_pc, receive_pc, line, flags, fd_open, state, replies, history>>

-----------------------------------------------------------------------------
User == SubmitUsername \/ TypeNothing \/ \E l \in Lines : Type(l)

InputThread == InputCheck \/ Validate \/ SendLine

ReceiveThread ==
    \/ ReceiveCheck \/ EnterRecv \/ ReceiveEnd
    \/ \E k \in 1 .. Len(replies) : Receive(k)

ExitClient == ExitRunning \/ ExitClose

Server == Serve \/ Merge

Next ==
    \/ User \/ InputThread \/ ReceiveThread \/ ExitClient \/ MainReturns \/ Server
    \/ RoomSpeaks \/ ServerStops \/ \E i \in DOMAIN lines : Tear(i)

Spec == Init /\ [][Next]_vars

\* The threads of this process run; the user may stop typing for ever.
Fairness ==
    /\ WF_vars(InputThread)
    /\ WF_vars(ReceiveThread)
    /\ WF_vars(ExitClient)
    /\ WF_vars(MainReturns)
FairSpec == Spec /\ Fairness

\* What the server is not obliged to: its worker may never come to this
\* connection, because a client that does not read holds it (SlowReader of
\* RoomManager). What rests on it says so.
ServerServes == WF_vars(Server)

-----------------------------------------------------------------------------
Ended == input_pc \in {"returned", "killed"}

\* main.c line 53: is_in_room is there to "track if user is in room". It does:
\* once the replies on their way are read, of which the last about the client's
\* place decides, the client and the server agree, unless a reply about the
\* place was read by the same recv as one before it.
LastAboutPlace(i) ==
    /\ replies[i] \in PlaceReplies
    /\ \A j \in DOMAIN replies : j > i => replies[j] \notin PlaceReplies
InStep ==
    peer = "open" /\ ~ swallowed =>
        IF \E i \in DOMAIN replies : replies[i] \in PlaceReplies
        THEN \A i \in DOMAIN replies : LastAboutPlace(i) =>
                 (Place(is_in_room, replies[i]) <=> state = "in_chat_room")
        ELSE is_in_room <=> state = "in_chat_room"

\* Whatever the replies and the closing of the server do meanwhile, nothing
\* follows the EXIT of the line /exit. What this client does send behind an
\* EXIT, where the server's reader loses its structure (SlotAgrees of
\* SessionReader), comes from /exit with a blank behind it.
NothingAfterExit ==
    \A i \in DOMAIN lines : lines[i].command = "EXIT" => i = Len(lines)

\* The process ends without ui_cleanup, leaving the terminal in curses mode,
\* only while it is being left by the user or after the server has closed: no
\* command and no reply of a session makes one thread close the socket under
\* the other.
DiesOnlyAtTheEnd ==
    input_pc = "killed" => asked_exit \/ peer # "open"

\* After /exit the process ends, if the server serves what it is sent: it
\* answers EXIT by closing, and that ends the recv the receive thread may be
\* in. So it does unless the server cannot tell EXIT from the line before it.
ExitEnds == ServerServes => (asked_exit ~> Ended \/ unterminated)

\* A server that closes is noticed, whatever the user does or leaves undone,
\* once the threads have been started: the flag goes down. (The process ends
\* with the next line of the user, not before: main waits for both threads.)
ServerLossIsNoticed ==
    peer # "open" ~> Ended \/ ~ is_running \/ input_pc = "username"

\* handle_user_input, lines 357-359: "The input is validated, formatted, and then
\* sent to the server. If the user inputs `/exit`, the function terminates the
\* client." It does not, though the server serves all that it can tell apart.
ExitTerminates == ServerServes => (asked_exit ~> Ended)

=============================================================================
