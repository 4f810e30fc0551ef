--------------------------- MODULE SessionReader ----------------------------
(***************************************************************************)
(* How a worker turns the bytes of a connection into commands:             *)
(* read_and_process_client_message, route_client_command and               *)
(* cleanup_client of src/server/client_state_manager.c, with the part of   *)
(* connection_handler.c that brings the events.                            *)
(*                                                                         *)
(* The module follows one Client structure through the connections that    *)
(* use it one after the other. A message on the wire is four pieces: its   *)
(* first two bytes (code and space), its content, CR and LF. A recv        *)
(* returns any number of the pieces sent: TCP keeps no message boundaries. *)
(* What other clients do to rooms is left open (Protocol).                 *)
(***************************************************************************)
EXTENDS Protocol, Integers, FiniteSets, FiniteSetsExt, Sequences

CONSTANTS
    MAX_MESSAGE_LEN_TO_SERVER,
    MAX_CONTENT_LEN,
    ContentLength,      \* commands the client sends -> length of their content
    Habits,             \* "after_exit": the client speaks on after EXIT;
                        \* "unterminated": its longest lines lack the line feed
    MaxMessages,        \* bound: messages per connection
    MaxConnections      \* bound: connections

ASSUME LengthsAssumption == /\ MAX_MESSAGE_LEN_TO_SERVER \in Nat \ {0}
                            /\ MAX_CONTENT_LEN \in Nat
                            /\ DOMAIN ContentLength \subseteq Commands
                            /\ \A c \in DOMAIN ContentLength : ContentLength[c] \in Nat \ {0}
\* What protocol.h says of a message, and what the client keeps to.
ASSUME ConformingAssumption ==
    /\ MAX_MESSAGE_LEN_TO_SERVER >= MAX_CONTENT_LEN + 4
    /\ \A c \in DOMAIN ContentLength : ContentLength[c] <= MAX_CONTENT_LEN
ASSUME HabitsAssumption == Habits \subseteq {"after_exit", "unterminated"}
ASSUME BoundsAssumption == MaxMessages \in Nat /\ MaxConnections \in Nat

VARIABLES
    in_use, state, current_msg,  \* fields of the Client structure
    in_room,       \* some room's array holds a pointer to the structure
    num_of_clients,\* the worker's counter, as far as this structure moves it
    pc,            \* the worker: where it is with the events of this client
    temp,          \* the part of read_buffer from temp on
    wire,          \* bytes sent and not yet received
    hung_up,       \* the client has closed its side
    sent,          \* history: the messages of this connection
    joined,        \* history: numbers of messages with a terminator not seen
    connections,   \* history: how many there have been
    after_exit     \* history: some client has spoken on after EXIT

structure == <<in_use, state, current_msg>>
history == <<sent, joined, connections, after_exit>>
vars == <<structure, in_room, num_of_clients, pc, temp, wire, hung_up, history>>

\* Mutant of CURRENT_MSG_SIZE.
TwoReads == MAX_MESSAGE_LEN_TO_SERVER * 2

CURRENT_MSG_SIZE == MAX_MESSAGE_LEN_TO_SERVER * 3

Messages == [n : 1 .. MaxMessages, command : Commands]
Pieces == {"head", "content", "CR", "LF"}
Piece(m, part) == [message |-> m, part |-> part]

Bytes(p) == CASE p.part = "head" -> 2
              [] p.part = "content" -> ContentLength[p.message.command]
              [] OTHER -> 1
Length(s) ==
    LET bytes[i \in 0 .. Len(s)] == IF i = 0 THEN 0 ELSE bytes[i - 1] + Bytes(s[i])
    IN  bytes[Len(s)]

\* Mutant of Terminators: the search ends one byte early.
TerminatorsButLast(s) ==
    {i \in 1 .. Len(s) - 2 : s[i].part = "CR" /\ s[i + 1].part = "LF"}

\* Positions of the terminators strstr can find in s.
Terminators(s) ==
    {i \in 1 .. Len(s) - 1 : s[i].part = "CR" /\ s[i + 1].part = "LF"}

\* Mutant of Concatenated: strcpy in the place of strcat.
Copied(s) == s

Concatenated(s) == current_msg \o s

\* What strcat appends to current_msg in this turn of the loop.
Appended(s) ==
    IF Terminators(s) = {} THEN s ELSE SubSeq(s, 1, Min(Terminators(s)) - 1)

TypeOK ==
    /\ in_use \in BOOLEAN
    /\ state \in ClientStates
    /\ in_room \in BOOLEAN
    /\ num_of_clients \in Int
    /\ pc \in {"epoll_wait", "readable", "closed", "loop"}
    /\ \A s \in {current_msg, temp, wire} :
          \A i \in DOMAIN s : s[i].message \in Messages /\ s[i].part \in Pieces
    /\ Length(temp) <= MAX_MESSAGE_LEN_TO_SERVER
    /\ pc # "loop" => temp = <<>>
    /\ hung_up \in BOOLEAN
    /\ \A n \in DOMAIN sent : sent[n] \in Messages /\ sent[n].n = n
    /\ joined \subseteq 1 .. Len(sent)
    /\ connections \in 0 .. MaxConnections
    /\ after_exit \in BOOLEAN

Init ==
    /\ in_use = FALSE /\ state = "awaiting_username" /\ current_msg = <<>>
    /\ in_room = FALSE
    /\ num_of_clients = 0
    /\ pc = "epoll_wait" /\ temp = <<>>
    /\ wire = <<>> /\ hung_up = FALSE
    /\ sent = <<>> /\ joined = {} /\ connections = 0 /\ after_exit = FALSE

-----------------------------------------------------------------------------
\* The client.

\* snprintf of the client cuts the line feed off a line of full length.
Cut(c) == "unterminated" \in Habits /\ ContentLength[c] = MAX_CONTENT_LEN

Send(c) ==
    LET n == Len(sent) + 1
        m == [n |-> n, command |-> c]
        line == [i \in 1 .. IF Cut(c) THEN 3 ELSE 4 |->
                    Piece(m, <<"head", "content", "CR", "LF">>[i])]
        exited == \E i \in DOMAIN sent : sent[i].command = "EXIT" IN
    /\ in_use /\ ~ hung_up /\ Len(sent) < MaxMessages
    /\ exited => "after_exit" \in Habits
    /\ sent' = Append(sent, m)
    /\ wire' = wire \o line
    /\ joined' = IF Cut(c) THEN joined \cup {n} ELSE joined
    /\ after_exit' = (after_exit \/ exited)
    /\ UNCHANGED <<structure, in_room, num_of_clients, pc, temp, hung_up, connections>>

HangUp ==
    /\ in_use /\ ~ hung_up
    /\ hung_up' = TRUE
    /\ UNCHANGED <<structure, in_room, num_of_clients, pc, temp, wire, history>>

-----------------------------------------------------------------------------
\* The worker.

\* main counts the client, register_new_client gives it the structure.
Connect ==
    /\ pc = "epoll_wait" /\ ~ in_use /\ connections < MaxConnections
    /\ in_use' = TRUE /\ state' = "awaiting_username" /\ current_msg' = <<>>
    /\ num_of_clients' = num_of_clients + 1
    /\ wire' = <<>> /\ hung_up' = FALSE
    /\ sent' = <<>> /\ joined' = {} /\ connections' = connections + 1
    /\ UNCHANGED <<in_room, pc, temp, after_exit>>

\* epoll_wait reports the client; process_epoll_events looks at a closed
\* connection first.
Event ==
    /\ pc = "epoll_wait" /\ in_use
    /\ hung_up \/ wire # <<>>
    /\ pc' = IF hung_up THEN "closed" ELSE "readable"
    /\ UNCHANGED <<structure, in_room, num_of_clients, temp, wire, hung_up, history>>

\* Mutant of RECV_LEN: recv may take as much as current_msg can hold.
RecvTooMuch == CURRENT_MSG_SIZE

\* The length recv is given.
RECV_LEN == MAX_MESSAGE_LEN_TO_SERVER

\* recv returns the first k pieces; the cut may go through a terminator. A cut
\* inside a head or a content is not modelled: no terminator is near it, and
\* the two parts meet again in current_msg.
Recv(k) ==
    /\ pc = "readable"
    /\ Length(SubSeq(wire, 1, k)) <= RECV_LEN
    /\ temp' = SubSeq(wire, 1, k)
    /\ wire' = SubSeq(wire, k + 1, Len(wire))
    /\ joined' = IF k < Len(wire) /\ wire[k].part = "CR"
                 THEN joined \cup {wire[k].message.n} ELSE joined
    /\ pc' = "loop"
    /\ UNCHANGED <<structure, in_room, num_of_clients, hung_up, sent, connections, after_exit>>

\* Mutant of LeavesRoom: leave_room is not called.
NeverLeaves == FALSE

LeavesRoom == state = "in_chat_room"

\* handle_client_disconnection and cleanup_client: the unread bytes are lost
\* with the socket. The state of the structure decides whether it leaves a room.
Disconnect ==
    /\ in_room' = (in_room /\ ~ LeavesRoom)
    /\ in_use' = FALSE /\ state' = "awaiting_username" /\ current_msg' = <<>>
    /\ num_of_clients' = num_of_clients - 1
    /\ wire' = <<>>

Closed ==
    /\ pc = "closed"
    /\ Disconnect
    /\ pc' = "epoll_wait"
    /\ UNCHANGED <<temp, hung_up, history>>

\* validate_msg_format: the message is its first code with all the rest as
\* content. Only the length of the content can be wrong here.
WellFormed(msg) == Length(msg) - 2 <= MAX_CONTENT_LEN

\* route_client_command, then the memset of current_msg.
Route(msg) ==
    LET command == Head(msg).message.command IN
    IF WellFormed(msg) /\ command = "EXIT" THEN Disconnect
    ELSE /\ IF WellFormed(msg)
            THEN \E a \in Answers(state, command) :
                    /\ state' = a.state
                    /\ in_room' = IF a.state = state THEN in_room
                                  ELSE a.state = "in_chat_room"
            ELSE UNCHANGED <<state, in_room>>
         /\ current_msg' = <<>>
         /\ UNCHANGED <<in_use, num_of_clients, wire>>

Fits == Length(Concatenated(Appended(temp))) < CURRENT_MSG_SIZE

\* One turn of the loop. It goes on with the same structure after EXIT too.
ProcessMessage ==
    /\ pc = "loop" /\ Terminators(temp) # {} /\ Fits
    /\ Route(Concatenated(Appended(temp)))
    /\ temp' = SubSeq(temp, Min(Terminators(temp)) + 2, Len(temp))
    /\ UNCHANGED <<pc, hung_up, history>>

\* After the loop. Nothing is modelled after current_msg has overflown.
SavePartial ==
    /\ pc = "loop" /\ Terminators(temp) = {} /\ Fits
    /\ current_msg' = Concatenated(temp)
    /\ temp' = <<>>
    /\ pc' = "epoll_wait"
    /\ UNCHANGED <<in_use, state, in_room, num_of_clients, wire, hung_up, history>>

-----------------------------------------------------------------------------
\* The steps that other clients can hold up: the worker comes to an event when
\* it is through with theirs, and what it does about a message or a closed
\* connection takes room locks and sends.
HandlerStep == Event \/ Closed \/ ProcessMessage

\* The steps that wait for nobody.
OwnStep == SavePartial \/ \E k \in 1 .. Len(wire) : Recv(k)

WorkerStep == HandlerStep \/ OwnStep

Next ==
    \/ Connect \/ WorkerStep \/ HangUp
    \/ \E c \in DOMAIN ContentLength : Send(c)

Spec == Init /\ [][Next]_vars

\* The worker is a thread that runs, wherever it waits for nobody.
FairSpec == Spec /\ WF_vars(OwnStep)

\* What peers that keep reading, and room locks that pass over nobody for ever,
\* bring about, and one client that does not read prevents (SlowReader of
\* RoomManager). epoll reports what is unread again.
HandlersReturn == WF_vars(HandlerStep)

-----------------------------------------------------------------------------
\* The messages whose content is in s.
Contents(s) ==
    LET contents[i \in 0 .. Len(s)] ==
            IF i = 0 THEN <<>>
            ELSE IF s[i].part = "content" THEN Append(contents[i - 1], s[i].message)
            ELSE contents[i - 1]
    IN  contents[Len(s)]

\* What is somewhere between the client and its routing.
Unrouted == current_msg \o temp \o wire
Pending == Contents(Unrouted)

\* read_and_process_client_message "processes complete messages terminated by
\* \r\n" and keeps incomplete ones: as long as the connection is open its
\* messages are routed once each and in order, alone unless a terminator was
\* torn over two reads or never sent, and only EXIT or the client closes it.
Stream == INSTANCE MessageStream WITH
    open <- in_use, leaving <- hung_up, pending <- IF in_use THEN Pending ELSE <<>>
ImplementsMessageStream == Stream!Spec

\* current_msg has room for every message: strcat overruns it only after the
\* terminators of three messages in a row went unseen.
BufferHolds ==
    LET held == Concatenated(Appended(temp)) IN
    Cardinality({n \in joined : \E i \in DOMAIN held : held[i].message.n = n}) <= 2
        => Length(held) < CURRENT_MSG_SIZE

\* As long as no client speaks on after EXIT in the same segment, the structure,
\* the rooms and the worker's counter agree: a free structure is in no room and
\* counts for nothing, so the next connection inherits neither.
SlotAgrees ==
    \/ after_exit
    \/ /\ num_of_clients = IF in_use THEN 1 ELSE 0
       /\ in_room <=> state = "in_chat_room"
       /\ in_room => in_use

\* server/test/README.md line 61: "If a client leaves, their resources should be
\* cleaned up". Once each, that is, and for good: its structure in no room, its
\* place in the worker's counter given back and not a second time.
LeftIsCleanedUp == ~ in_use => ~ in_room /\ num_of_clients = 0

\* If handlers return, a message whose terminator is sent and not torn is
\* routed, however the segments fall and whatever the other messages are, or
\* the client closes.
EveryMessageIsRouted ==
    HandlersReturn => \A n \in 1 .. MaxMessages :
        LET waiting == in_use /\ \E i \in DOMAIN Pending : Pending[i].n = n IN
        waiting ~> ~ waiting \/ n \in joined

=============================================================================
