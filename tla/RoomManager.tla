---------------------------- MODULE RoomManager ----------------------------
(***************************************************************************)
(* The chat rooms and the commands that use them: src/server/              *)
(* room_manager.c and the command half of client_state_manager.c.          *)
(*                                                                         *)
(* A worker serves one command of one of its clients at a time and shares  *)
(* SERVER_ROOMS with the other workers, each room under its own lock.      *)
(* A send is a step of its own, because send_message_to_client retries     *)
(* until the peer has taken the bytes, also while it holds a room's lock,  *)
(* and because another worker may write to the same socket meanwhile.      *)
(*                                                                         *)
(* Message contents, names and the numbers of invalid rooms are left out;  *)
(* a command that is answered with an error outside any lock is one kind.  *)
(* A client sends nothing after EXIT in the same segment.                  *)
(***************************************************************************)
EXTENDS Integers, FiniteSets

CONSTANTS
    Workers,           \* worker threads
    Clients,           \* the Client structures of all workers
    WorkerOf,          \* the worker whose array a Client is in
    MAX_ROOMS,
    MAX_CLIENTS_ROOM,
    NULL,
    Peers              \* what peers may do: read slowly ("slow"), go away ("gone")

ASSUME WorkerOfAssumption == WorkerOf \in [Clients -> Workers]
ASSUME MaxRoomsAssumption == MAX_ROOMS \in Nat \ {0}
ASSUME MaxClientsRoomAssumption == MAX_CLIENTS_ROOM \in Nat \ {0}
ASSUME NullAssumption == NULL \notin Clients \cup Workers
ASSUME PeersAssumption == Peers \subseteq {"slow", "gone"}

Rooms == 0 .. MAX_ROOMS - 1
Slots == 0 .. MAX_CLIENTS_ROOM - 1

VARIABLES
    clients,      \* per room: the array of members
    num_clients,  \* per room
    in_use,       \* per room
    room_lock,    \* per room: the worker that holds it, or NULL
    state,        \* per client; "free" while the structure is not in use
    room_index,   \* per client
    pc,           \* per worker: where it is
    client,       \* per worker: the client whose command it serves
    room,         \* per worker: room_index, or i of a loop over the rooms
    slot,         \* per worker: i of a loop over the members
    exiting,      \* per worker: leave_room was called by a disconnection
    listed,       \* per worker: the rooms in the reply built so far
    sending,      \* per worker: part of the current message is already sent
    link,         \* per client: its socket takes bytes, is full, or is dead
    view,         \* history: the place the client knows from its replies
    seen,         \* history, per scan: rooms in use at some moment of it
    kept,         \* history, per scan: rooms in use at every moment of it
    was_full,     \* history, per scan: all rooms were in use at some moment
    garbled       \* history: bytes of two messages were mixed on the socket

roomVars == <<clients, num_clients, in_use>>
clientVars == <<state, room_index>>
workerVars == <<client, room, slot, exiting, listed>>
scanVars == <<seen, kept, was_full>>
linkVars == <<sending, link, garbled>>
vars == <<roomVars, room_lock, clientVars, pc, workerVars, linkVars, view, scanVars>>

States == {"free", "awaiting_username", "in_chat_lobby", "in_chat_room"}
Nowhere == -2
InLobby == -1

\* Steps that hold the lock of room[w].
LockedPcs == {"create_ok", "join_error", "join_broadcast", "message_broadcast",
              "leave_broadcast", "leave_ok"}
Pcs == LockedPcs \cup {"idle", "send_error", "list", "send_list", "create", "send_full",
                       "join_lock", "message_lock", "leave_lock", "leave_ok_lock",
                       "cleanup"}

TypeOK ==
    /\ clients \in [Rooms -> [Slots -> Clients \cup {NULL}]]
    /\ num_clients \in [Rooms -> 0 .. MAX_CLIENTS_ROOM]
    /\ in_use \in [Rooms -> BOOLEAN]
    /\ room_lock \in [Rooms -> Workers \cup {NULL}]
    /\ state \in [Clients -> States]
    /\ room_index \in [Clients -> Rooms]
    /\ pc \in [Workers -> Pcs]
    /\ client \in [Workers -> Clients \cup {NULL}]
    /\ room \in [Workers -> Rooms]
    /\ slot \in [Workers -> 0 .. MAX_CLIENTS_ROOM]
    /\ exiting \in [Workers -> BOOLEAN]
    /\ listed \in [Workers -> SUBSET Rooms]
    /\ sending \in [Workers -> BOOLEAN]
    /\ link \in [Clients -> {"ok", "full", "gone"}]
    /\ view \in [Clients -> Rooms \cup {Nowhere, InLobby}]
    /\ seen \in [Workers -> SUBSET Rooms]
    /\ kept \in [Workers -> SUBSET Rooms]
    /\ was_full \in [Workers -> BOOLEAN]
    /\ garbled \in [Clients -> BOOLEAN]

Init ==
    /\ clients = [r \in Rooms |-> [i \in Slots |-> NULL]]
    /\ num_clients = [r \in Rooms |-> 0]
    /\ in_use = [r \in Rooms |-> FALSE]
    /\ room_lock = [r \in Rooms |-> NULL]
    /\ state = [c \in Clients |-> "free"]
    /\ room_index = [c \in Clients |-> 0]
    /\ pc = [w \in Workers |-> "idle"]
    /\ client = [w \in Workers |-> NULL]
    /\ room = [w \in Workers |-> 0]
    /\ slot = [w \in Workers |-> 0]
    /\ exiting = [w \in Workers |-> FALSE]
    /\ listed = [w \in Workers |-> {}]
    /\ sending = [w \in Workers |-> FALSE]
    /\ link = [c \in Clients |-> "ok"]
    /\ view = [c \in Clients |-> Nowhere]
    /\ seen = [w \in Workers |-> {}]
    /\ kept = [w \in Workers |-> {}]
    /\ was_full = [w \in Workers |-> FALSE]
    /\ garbled = [c \in Clients |-> FALSE]

-----------------------------------------------------------------------------
Goto(w, l) == pc' = [pc EXCEPT ![w] = l]

IsFirst(i, S) == i \in S /\ \A j \in S : i <= j

Lock(w, r) == room_lock[r] = NULL /\ room_lock' = [room_lock EXCEPT ![r] = w]
Unlock(r) == room_lock' = [room_lock EXCEPT ![r] = NULL]

\* The command is done; the worker's local variables are dead.
Finish(w) ==
    /\ Goto(w, "idle")
    /\ client' = [client EXCEPT ![w] = NULL]
    /\ room' = [room EXCEPT ![w] = 0]
    /\ slot' = [slot EXCEPT ![w] = 0]
    /\ exiting' = [exiting EXCEPT ![w] = FALSE]
    /\ listed' = [listed EXCEPT ![w] = {}]

InUse == {r \in Rooms : in_use[r]}
Scanning(w) == pc[w] \in {"list", "create"}

BeginScan(w) ==
    /\ seen' = [seen EXCEPT ![w] = InUse]
    /\ kept' = [kept EXCEPT ![w] = InUse]
    /\ was_full' = [was_full EXCEPT ![w] = InUse = Rooms]

EndScan(w) ==
    /\ seen' = [seen EXCEPT ![w] = {}]
    /\ kept' = [kept EXCEPT ![w] = {}]
    /\ was_full' = [was_full EXCEPT ![w] = FALSE]

\* The history of the scans when worker w takes or frees room r.
ScansSeeTaken(w, r) ==
    /\ seen' = [u \in Workers |-> IF Scanning(u) /\ u # w THEN seen[u] \cup {r} ELSE seen[u]]
    /\ was_full' = [u \in Workers |-> \/ was_full[u]
                                      \/ Scanning(u) /\ u # w /\ InUse \cup {r} = Rooms]
    /\ UNCHANGED kept
ScansSeeFreed(r) ==
    /\ kept' = [u \in Workers |-> IF Scanning(u) THEN kept[u] \ {r} ELSE kept[u]]
    /\ UNCHANGED <<seen, was_full>>

-----------------------------------------------------------------------------
\* send_message_to_client.

\* The members a broadcast has still to reach.
Remaining(w) == {i \in Slots : i >= slot[w] /\ clients[room[w]][i] \notin {NULL, client[w]}}

BroadcastPcs == {"join_broadcast", "message_broadcast", "leave_broadcast"}

\* Whom worker w is sending to: the next member of a broadcast, or the client
\* it serves, or nobody.
Targets(w) ==
    CASE pc[w] \in BroadcastPcs /\ Remaining(w) # {} ->
            {clients[room[w]][i] : i \in {j \in Remaining(w) : IsFirst(j, Remaining(w))}}
      [] pc[w] = "join_broadcast" /\ Remaining(w) = {} -> {client[w]}
      [] pc[w] \in {"send_error", "send_list", "send_full", "create_ok", "join_error",
                    "leave_ok"} -> {client[w]}
      [] OTHER -> {}

\* Bytes of a worker that is in the middle of a message come before these.
MarkGarbled(w, c) ==
    garbled' = [garbled EXCEPT ![c] =
                    \/ @
                    \/ /\ link[c] = "ok"
                       /\ \E u \in Workers \ {w} : sending[u] /\ c \in Targets(u)]

\* send takes the rest of the message, or fails because the peer is gone; a
\* full socket is retried. The last bytes may fill the socket.
SendTo(w, c) ==
    /\ link[c] # "full"
    /\ \E l \in {link[c]} \cup {k \in {"full"} : "slow" \in Peers /\ link[c] = "ok"} :
          link' = [link EXCEPT ![c] = l]
    /\ sending' = [sending EXCEPT ![w] = FALSE]
    /\ MarkGarbled(w, c)

\* send takes a part only. A message is cut at most once (a bound).
SendPart(w) ==
    /\ "slow" \in Peers /\ ~ sending[w]
    /\ \E c \in Targets(w) :
        /\ link[c] = "ok"
        /\ link' = [link EXCEPT ![c] = "full"]
        /\ MarkGarbled(w, c)
    /\ sending' = [sending EXCEPT ![w] = TRUE]
    /\ UNCHANGED <<roomVars, room_lock, clientVars, pc, workerVars, view, scanVars>>

\* What the client knows once the reply has reached it.
Tell(c, place) == view' = [view EXCEPT ![c] = IF link[c] = "gone" THEN @ ELSE place]

\* A reply sent outside any lock.
SendReply(w) ==
    /\ pc[w] \in {"send_error", "send_list", "send_full"}
    /\ SendTo(w, client[w])
    /\ Finish(w)
    /\ EndScan(w)
    /\ UNCHANGED <<roomVars, room_lock, clientVars, view>>

\* One turn of the loop of broadcast_message_in_room that sends.
BroadcastSend(w) ==
    /\ pc[w] \in BroadcastPcs
    /\ \E i \in Remaining(w) :
        /\ IsFirst(i, Remaining(w))
        /\ SendTo(w, clients[room[w]][i])
        /\ slot' = [slot EXCEPT ![w] = i + 1]
    /\ UNCHANGED <<roomVars, room_lock, clientVars, pc, client, room, exiting, listed,
                   view, scanVars>>
BroadcastOver(w) == Remaining(w) = {}

-----------------------------------------------------------------------------
\* A worker takes a command of one of its clients.

Serve(w, c, l) ==
    /\ pc[w] = "idle" /\ WorkerOf[c] = w
    /\ Goto(w, l)
    /\ client' = [client EXCEPT ![w] = c]

\* allocate_client_slot.
Connect(c) ==
    /\ pc[WorkerOf[c]] = "idle" /\ state[c] = "free"
    /\ state' = [state EXCEPT ![c] = "awaiting_username"]
    /\ room_index' = [room_index EXCEPT ![c] = 0]
    /\ view' = [view EXCEPT ![c] = InLobby]
    /\ UNCHANGED <<roomVars, room_lock, pc, workerVars, linkVars, scanVars>>

\* A message with an invalid format, for another state, or with a name or a
\* number out of range: only an error is sent.
InvalidCommand(w, c) ==
    /\ state[c] # "free"
    /\ Serve(w, c, "send_error")
    /\ UNCHANGED <<roomVars, room_lock, clientVars, room, slot, exiting, listed,
                   linkVars, view, scanVars>>

\* handle_awaiting_username; the reply is the list of rooms.
SubmitUsername(w, c) ==
    /\ state[c] = "awaiting_username"
    /\ Serve(w, c, "list")
    /\ state' = [state EXCEPT ![c] = "in_chat_lobby"]
    /\ BeginScan(w)
    /\ UNCHANGED <<roomVars, room_lock, room_index, room, slot, exiting, listed,
                   linkVars, view>>

RequestList(w, c) ==
    /\ state[c] = "in_chat_lobby"
    /\ Serve(w, c, "list")
    /\ BeginScan(w)
    /\ UNCHANGED <<roomVars, room_lock, clientVars, room, slot, exiting, listed,
                   linkVars, view>>

RequestCreate(w, c) ==
    /\ state[c] = "in_chat_lobby"
    /\ Serve(w, c, "create")
    /\ BeginScan(w)
    /\ UNCHANGED <<roomVars, room_lock, clientVars, room, slot, exiting, listed,
                   linkVars, view>>

RequestJoin(w, c, r) ==
    /\ state[c] = "in_chat_lobby"
    /\ Serve(w, c, "join_lock")
    /\ room' = [room EXCEPT ![w] = r]
    /\ UNCHANGED <<roomVars, room_lock, clientVars, slot, exiting, listed,
                   linkVars, view, scanVars>>

RoomMessage(w, c) ==
    /\ state[c] = "in_chat_room"
    /\ Serve(w, c, "message_lock")
    /\ room' = [room EXCEPT ![w] = room_index[c]]
    /\ UNCHANGED <<roomVars, room_lock, clientVars, slot, exiting, listed,
                   linkVars, view, scanVars>>

RequestLeave(w, c) ==
    /\ state[c] = "in_chat_room"
    /\ Serve(w, c, "leave_lock")
    /\ room' = [room EXCEPT ![w] = room_index[c]]
    /\ UNCHANGED <<roomVars, room_lock, clientVars, slot, exiting, listed,
                   linkVars, view, scanVars>>

\* Mutant of LeavesRoom: leave_room is not called.
NeverLeaves(c) == FALSE

LeavesRoom(c) == state[c] = "in_chat_room"

\* CMD_EXIT, a failed recv or a hang-up: handle_client_disconnection.
Disconnect(w, c) ==
    /\ state[c] # "free"
    /\ Serve(w, c, IF LeavesRoom(c) THEN "leave_lock" ELSE "cleanup")
    /\ room' = [room EXCEPT ![w] = IF LeavesRoom(c) THEN room_index[c] ELSE @]
    /\ exiting' = [exiting EXCEPT ![w] = TRUE]
    /\ UNCHANGED <<roomVars, room_lock, clientVars, slot, listed,
                   linkVars, view, scanVars>>

\* cleanup_client: the socket is closed and the structure is cleared.
Cleanup(w) ==
    /\ pc[w] = "cleanup"
    /\ state' = [state EXCEPT ![client[w]] = "free"]
    /\ room_index' = [room_index EXCEPT ![client[w]] = 0]
    /\ link' = [link EXCEPT ![client[w]] = "ok"]
    /\ view' = [view EXCEPT ![client[w]] = Nowhere]
    /\ Finish(w)
    /\ UNCHANGED <<roomVars, room_lock, sending, garbled, scanVars>>

-----------------------------------------------------------------------------
\* Mutant of LastRoom: the loops over the rooms end one room late.
LastRoomLate == MAX_ROOMS

LastRoom == MAX_ROOMS - 1

\* The end of a turn of for (i = 0; i < MAX_ROOMS; i++).
NextRoom(w, after) ==
    IF room[w] < LastRoom
    THEN room' = [room EXCEPT ![w] = @ + 1] /\ UNCHANGED pc
    ELSE Goto(w, after) /\ UNCHANGED room

\* Mutant of Available: in_use is not tested.
AvailableAlways(r) == TRUE

Available(r) == ~ in_use[r]

\* send_avail_rooms: one room under its lock per turn, then the reply.
ListRoom(w) ==
    /\ pc[w] = "list"
    /\ room_lock[room[w]] = NULL
    /\ listed' = [listed EXCEPT ![w] = IF Available(room[w]) THEN @ ELSE @ \cup {room[w]}]
    /\ NextRoom(w, "send_list")
    /\ UNCHANGED <<roomVars, room_lock, clientVars, client, slot, exiting,
                   linkVars, view, scanVars>>

\* create_chat_room: the first room whose turn comes while it is free.
CreateSkip(w) ==
    /\ pc[w] = "create"
    /\ room_lock[room[w]] = NULL
    /\ ~ Available(room[w])
    /\ NextRoom(w, "send_full")
    /\ UNCHANGED <<roomVars, room_lock, clientVars, client, slot, exiting, listed,
                   linkVars, view, scanVars>>

CreateEnter(w) ==
    LET r == room[w] IN
    /\ pc[w] = "create"
    /\ Available(r)
    /\ in_use' = [in_use EXCEPT ![r] = TRUE]
    /\ num_clients' = [num_clients EXCEPT ![r] = 1]
    /\ clients' = [clients EXCEPT ![r][0] = client[w]]
    /\ room_index' = [room_index EXCEPT ![client[w]] = r]
    /\ state' = [state EXCEPT ![client[w]] = "in_chat_room"]
    /\ Goto(w, "create_ok")
    /\ ScansSeeTaken(w, r)
    /\ UNCHANGED <<workerVars, linkVars, view>>

\* Mutant of CreateTake: the reply is sent after the unlock.
CreateTakeUnlocks(w) == room_lock[room[w]] = NULL /\ CreateEnter(w) /\ UNCHANGED room_lock

CreateTake(w) == Lock(w, room[w]) /\ CreateEnter(w)

CreateOk(w) ==
    /\ pc[w] = "create_ok"
    /\ SendTo(w, client[w])
    /\ Tell(client[w], room[w])
    /\ Unlock(room[w])
    /\ Finish(w)
    /\ EndScan(w)
    /\ UNCHANGED <<roomVars, clientVars>>

\* join_chat_room.
FreeSlots(r) == {i \in Slots : clients[r][i] = NULL}

JoinRefused(w) ==
    LET r == room[w] IN
    /\ pc[w] = "join_lock"
    /\ Lock(w, r)
    /\ ~ in_use[r] \/ num_clients[r] = MAX_CLIENTS_ROOM
    /\ Goto(w, "join_error")
    /\ UNCHANGED <<roomVars, clientVars, workerVars, linkVars, view, scanVars>>

\* Mutant of JoinError: it returns without the unlock.
JoinErrorKeepsLock(w) ==
    /\ pc[w] = "join_error"
    /\ SendTo(w, client[w])
    /\ Finish(w)
    /\ UNCHANGED <<roomVars, room_lock, clientVars, view, scanVars>>

JoinError(w) ==
    /\ pc[w] = "join_error"
    /\ SendTo(w, client[w])
    /\ Unlock(room[w])
    /\ Finish(w)
    /\ UNCHANGED <<roomVars, clientVars, view, scanVars>>

\* Without a free slot the loop ends and nothing is answered.
JoinEnter(w) ==
    LET r == room[w] IN
    /\ pc[w] = "join_lock"
    /\ room_lock[r] = NULL
    /\ in_use[r] /\ num_clients[r] # MAX_CLIENTS_ROOM
    /\ IF FreeSlots(r) = {}
       THEN Finish(w) /\ UNCHANGED <<roomVars, room_lock>>
       ELSE /\ \E i \in FreeSlots(r) :
                /\ IsFirst(i, FreeSlots(r))
                /\ clients' = [clients EXCEPT ![r][i] = client[w]]
            /\ num_clients' = [num_clients EXCEPT ![r] = @ + 1]
            /\ room_lock' = [room_lock EXCEPT ![r] = w]
            /\ Goto(w, "join_broadcast")
            /\ UNCHANGED <<in_use, workerVars>>
    /\ UNCHANGED <<clientVars, linkVars, view, scanVars>>

JoinOk(w) ==
    /\ pc[w] = "join_broadcast" /\ BroadcastOver(w)
    /\ SendTo(w, client[w])
    /\ Tell(client[w], room[w])
    /\ state' = [state EXCEPT ![client[w]] = "in_chat_room"]
    /\ room_index' = [room_index EXCEPT ![client[w]] = room[w]]
    /\ Unlock(room[w])
    /\ Finish(w)
    /\ UNCHANGED <<roomVars, scanVars>>

\* Mutant of MessageLock: the caller of broadcast_message_in_room does not lock.
MessageUnlocked(w) ==
    /\ pc[w] = "message_lock"
    /\ Goto(w, "message_broadcast")
    /\ UNCHANGED <<roomVars, room_lock, clientVars, workerVars, linkVars, view, scanVars>>

\* handle_in_chat_room, CMD_ROOM_MESSAGE_SEND.
MessageLock(w) ==
    /\ pc[w] = "message_lock"
    /\ Lock(w, room[w])
    /\ Goto(w, "message_broadcast")
    /\ UNCHANGED <<roomVars, clientVars, workerVars, linkVars, view, scanVars>>

MessageDone(w) ==
    /\ pc[w] = "message_broadcast" /\ BroadcastOver(w)
    /\ Unlock(room[w])
    /\ Finish(w)
    /\ UNCHANGED <<roomVars, clientVars, linkVars, view, scanVars>>

\* Mutant of Emptied: the counter is decremented, the pointer stays.
NotEmptied(r, i) == clients

Emptied(r, i) == [clients EXCEPT ![r][i] = NULL]

\* leave_room; then, for CMD_LEAVE_ROOM, the reply under the same lock, taken
\* anew, and for a disconnection cleanup_client.
LeaveLock(w) ==
    LET r == room[w]
        held == {i \in Slots : clients[r][i] = client[w]} IN
    /\ pc[w] = "leave_lock"
    /\ Lock(w, r)
    /\ IF held = {}
       THEN UNCHANGED <<clients, num_clients>>
       ELSE /\ \E i \in held : IsFirst(i, held) /\ clients' = Emptied(r, i)
            /\ num_clients' = [num_clients EXCEPT ![r] = @ - 1]
    /\ Goto(w, "leave_broadcast")
    /\ UNCHANGED <<in_use, clientVars, workerVars, linkVars, view, scanVars>>

\* Mutant of IsEmpty: in_use is not reset.
NeverEmpty(r) == FALSE

IsEmpty(r) == num_clients[r] = 0

LeaveDone(w) ==
    LET r == room[w] IN
    /\ pc[w] = "leave_broadcast" /\ BroadcastOver(w)
    /\ IF IsEmpty(r)
       THEN /\ clients' = [clients EXCEPT ![r] = [i \in Slots |-> NULL]]
            /\ in_use' = [in_use EXCEPT ![r] = FALSE]
            /\ ScansSeeFreed(r)
       ELSE UNCHANGED <<clients, in_use, scanVars>>
    /\ Unlock(r)
    /\ slot' = [slot EXCEPT ![w] = 0]
    /\ Goto(w, IF exiting[w] THEN "cleanup" ELSE "leave_ok_lock")
    /\ UNCHANGED <<num_clients, clientVars, client, room, exiting, listed,
                   linkVars, view>>

LeaveOkLock(w) ==
    /\ pc[w] = "leave_ok_lock"
    /\ Lock(w, room[w])
    /\ Goto(w, "leave_ok")
    /\ UNCHANGED <<roomVars, clientVars, workerVars, linkVars, view, scanVars>>

LeaveOk(w) ==
    /\ pc[w] = "leave_ok"
    /\ SendTo(w, client[w])
    /\ Tell(client[w], InLobby)
    /\ Unlock(room[w])
    /\ state' = [state EXCEPT ![client[w]] = "in_chat_lobby"]
    /\ Finish(w)
    /\ UNCHANGED <<roomVars, room_index, scanVars>>

-----------------------------------------------------------------------------
\* The peers.

ReadsOn(c) ==
    /\ link[c] = "full"
    /\ link' = [link EXCEPT ![c] = "ok"]
    /\ UNCHANGED <<roomVars, room_lock, clientVars, pc, workerVars, sending, garbled,
                   view, scanVars>>

GoesAway(c) ==
    /\ "gone" \in Peers /\ state[c] # "free" /\ link[c] # "gone"
    /\ link' = [link EXCEPT ![c] = "gone"]
    /\ UNCHANGED <<roomVars, room_lock, clientVars, pc, workerVars, sending, garbled,
                   view, scanVars>>

-----------------------------------------------------------------------------
Command(w, c) ==
    \/ InvalidCommand(w, c) \/ SubmitUsername(w, c) \/ RequestList(w, c)
    \/ RequestCreate(w, c) \/ RoomMessage(w, c) \/ RequestLeave(w, c) \/ Disconnect(w, c)
    \/ \E r \in Rooms : RequestJoin(w, c, r)

WorkerStep(w) ==
    \/ SendPart(w) \/ SendReply(w) \/ BroadcastSend(w) \/ Cleanup(w)
    \/ ListRoom(w) \/ CreateSkip(w) \/ CreateTake(w) \/ CreateOk(w)
    \/ JoinRefused(w) \/ JoinError(w) \/ JoinEnter(w) \/ JoinOk(w)
    \/ MessageLock(w) \/ MessageDone(w)
    \/ LeaveLock(w) \/ LeaveDone(w) \/ LeaveOkLock(w) \/ LeaveOk(w)

Next ==
    \/ \E w \in Workers : WorkerStep(w) \/ \E c \in Clients : Command(w, c)
    \/ \E c \in Clients : Connect(c) \/ ReadsOn(c) \/ GoesAway(c)

Spec == Init /\ [][Next]_vars

\* A worker thread with a command to finish keeps running. Nothing obliges a
\* client to connect, to speak, to leave or to read what it is sent.
FairSpec == Spec /\ \A w \in Workers : WF_vars(WorkerStep(w))

-----------------------------------------------------------------------------
Occupied(r) == {i \in Slots : clients[r][i] # NULL}
PlacesOf(c) == {p \in Rooms \X Slots : clients[p[1]][p[2]] = c}
Served(c) == \E w \in Workers : client[w] = c

\* A client that is not being served is a member of exactly the room its own
\* structure names, or of none: the array of the room, written under the
\* room's lock, and the state of the client, written by its worker alone,
\* never disagree. In particular no room keeps a pointer to a structure that
\* a later connection will reuse.
MembershipAgrees ==
    \A c \in Clients :
        /\ Cardinality(PlacesOf(c)) <= 1
        /\ ~ Served(c) => IF state[c] = "in_chat_room"
                          THEN \E p \in PlacesOf(c) : p[1] = room_index[c]
                          ELSE PlacesOf(c) = {}

\* Whenever a room's lock is free, its counter counts its members and it is
\* in use exactly while it has any: no room is lost when its last member
\* leaves or disconnects, and none is reused under somebody.
RoomAccounting ==
    \A r \in Rooms : room_lock[r] = NULL =>
        /\ num_clients[r] = Cardinality(Occupied(r))
        /\ in_use[r] <=> Occupied(r) # {}

\* A room message is sent only to clients that have been told they are in
\* that room and not yet told that they left it: nobody hears a room before
\* its JOIN_OK or CREATE_OK or after its LEAVE_OK, and a structure that was
\* cleared and reused hears nothing of its former user's room.
RecipientsKnow ==
    \A w \in Workers : pc[w] \in BroadcastPcs =>
        \A i \in Remaining(w) :
            LET c == clients[room[w]][i] IN
            state[c] # "free" /\ (link[c] # "gone" => view[c] = room[w])

\* Two workers never broadcast in the same room at the same time, so all
\* members hear the messages of a room in one order.
OneSpeaker ==
    \A v, w \in Workers :
        v # w /\ pc[v] \in BroadcastPcs /\ pc[w] \in BroadcastPcs => room[v] # room[w]

\* Two workers send to the same socket at the same time only if one of them is
\* answering an invalid command: everything else a client is sent is ordered
\* by the lock of its room, or comes while it is in no room.
OneSenderPerSocket ==
    \A v, w \in Workers :
        v # w /\ Targets(v) \cap Targets(w) # {} => "send_error" \in {pc[v], pc[w]}

\* The room list is no snapshot, but it shows every room that existed during
\* the whole request and none that did not exist during any of it.
ListIsHonest ==
    \A w \in Workers : pc[w] = "send_list" => kept[w] \subseteq listed[w]
                                              /\ listed[w] \subseteq seen[w]

\* Every room lock that is taken is released, whatever commands the members
\* send and whoever leaves, as long as no socket is full.
EveryLockIsReleased ==
    \A r \in Rooms : room_lock[r] # NULL ~> room_lock[r] = NULL

\* The rooms behave as if every change of place were one indivisible step.
PlaceOf(c) ==
    IF PlacesOf(c) # {} THEN (CHOOSE p \in PlacesOf(c) : TRUE)[1]
    ELSE IF state[c] = "free" THEN Nowhere ELSE InLobby
Abstract == INSTANCE ChatRooms WITH place <- [c \in Clients |-> PlaceOf(c)]
ImplementsChatRooms == Abstract!Spec

\* room_manager.c lines 42-44: a room is created if "There is currently space
\* for a creation of a room in the array", so ERR_ROOM_CAPACITY_FULL would
\* mean that at some moment of the request all rooms were in use.
CapacityErrorIsHonest ==
    \A w \in Workers : pc[w] = "send_full" => was_full[w]

\* protocol.md line 10: a message is a command, a space, the content "followed
\* by a message terminator"; so what a client receives is a sequence of whole
\* messages, never the bytes of two messages mixed.
MessagesAreWhole == \A c \in Clients : ~ garbled[c]

\* README.md line 55: "All sockets are non blocking", so a worker would come
\* back to its other clients whatever one client does with its socket.
EveryCommandEnds ==
    \A w \in Workers : pc[w] # "idle" ~> pc[w] = "idle"

=============================================================================
