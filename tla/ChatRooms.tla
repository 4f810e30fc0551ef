----------------------------- MODULE ChatRooms -----------------------------
(***************************************************************************)
(* What the room manager promises, without locks, arrays or counters: each *)
(* client is away, in the lobby or in one room, and every change of place  *)
(* is one indivisible step.  A room exists while somebody is in it: it is  *)
(* created by its first member, can be joined only while it has a member   *)
(* and a free place, and disappears with its last member.                  *)
(***************************************************************************)
EXTENDS Integers, FiniteSets

CONSTANTS
    Clients,           \* the Client structures of all workers
    MAX_ROOMS,
    MAX_CLIENTS_ROOM

Rooms == 0 .. MAX_ROOMS - 1

\* Places other than a room.
Away == -2
Lobby == -1

VARIABLE place   \* per client: Away, Lobby or a room

Members(r) == {c \in Clients : place[c] = r}

Init == place = [c \in Clients |-> Away]

Move(c, from, to) ==
    /\ place[c] = from
    /\ place' = [place EXCEPT ![c] = to]

Connect(c) == Move(c, Away, Lobby)
Disconnect(c) == Move(c, Lobby, Away)
Create(c, r) == Members(r) = {} /\ Move(c, Lobby, r)
Join(c, r) ==
    /\ Members(r) # {} /\ Cardinality(Members(r)) < MAX_CLIENTS_ROOM
    /\ Move(c, Lobby, r)
Leave(c, r) == Move(c, r, Lobby)

Next ==
    \E c \in Clients :
        \/ Connect(c) \/ Disconnect(c)
        \/ \E r \in Rooms : Create(c, r) \/ Join(c, r) \/ Leave(c, r)

Spec == Init /\ [][Next]_place

=============================================================================
