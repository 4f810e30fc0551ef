------------------------- MODULE RoomManagerProofs -------------------------
(***************************************************************************)
(* Proofs about RoomManager for any number of workers, clients, rooms and  *)
(* places in a room, and any behaviour of the peers.                       *)
(***************************************************************************)
EXTENDS RoomManager, FiniteSetTheorems, TLAPS

USE WorkerOfAssumption, MaxRoomsAssumption, MaxClientsRoomAssumption, NullAssumption

\* A worker that is not idle serves one of its own clients.
ServesOwn ==
    \A w \in Workers : pc[w] # "idle" => client[w] \in Clients /\ WorkerOf[client[w]] = w

\* A worker at a locked step holds its room's lock, and a lock that is taken
\* is held by a worker at such a step.
LockInv ==
    /\ \A w \in Workers : pc[w] \in LockedPcs => room_lock[room[w]] = w
    /\ \A r \in Rooms : room_lock[r] # NULL =>
          pc[room_lock[r]] \in LockedPcs /\ room[room_lock[r]] = r

\* The counter of a room counts its members, and a room in use has one, unless
\* the last is leaving it just now.
AccountInv ==
    \A r \in Rooms :
        /\ num_clients[r] = Cardinality(Occupied(r))
        /\ Occupied(r) # {} => in_use[r]
        /\ in_use[r] => \/ Occupied(r) # {}
                        \/ \E w \in Workers : pc[w] = "leave_broadcast" /\ room[w] = r

IInv == TypeOK /\ ServesOwn /\ LockInv /\ AccountInv

-----------------------------------------------------------------------------
\* The occupied slots of a room are a finite set, no larger than its slots.
LEMMA OccupiedFinite ==
    ASSUME NEW r \in Rooms
    PROVE  /\ IsFiniteSet(Occupied(r))
           /\ Cardinality(Occupied(r)) \in 0 .. MAX_CLIENTS_ROOM
           /\ Occupied(r) # {} => Cardinality(Occupied(r)) > 0
<1>1. IsFiniteSet(Slots) /\ Cardinality(Slots) = MAX_CLIENTS_ROOM
  <2>1. 0 \in Int /\ MAX_CLIENTS_ROOM - 1 \in Int
    OBVIOUS
  <2> QED
    BY <2>1, FS_Interval DEF Slots
<1>2. Occupied(r) \subseteq Slots
  BY DEF Occupied
<1>3. IsFiniteSet(Occupied(r)) /\ Cardinality(Occupied(r)) <= Cardinality(Slots)
  BY <1>1, <1>2, FS_Subset
<1>4. Cardinality(Occupied(r)) \in Nat
  BY <1>3, FS_CardinalityType
<1>5. Cardinality(Occupied(r)) = 0 <=> Occupied(r) = {}
  BY <1>3, FS_EmptySet
<1> QED
  BY <1>1, <1>3, <1>4, <1>5

\* The invariant holds before any client has connected.
LEMMA InitIInv == Init => IInv
<1> SUFFICES ASSUME Init PROVE IInv
  OBVIOUS
<1>1. 0 \in Rooms /\ 0 \in 0 .. MAX_CLIENTS_ROOM
  BY DEF Rooms
<1>2. TypeOK
  BY <1>1 DEF Init, TypeOK, States, Pcs, Nowhere
<1>3. ServesOwn /\ LockInv
  BY DEF Init, ServesOwn, LockInv, LockedPcs
<1>4. ASSUME NEW r \in Rooms PROVE Occupied(r) = {}
  BY DEF Init, Occupied
<1>5. AccountInv
  BY <1>4, FS_EmptySet DEF Init, AccountInv
<1> QED
  BY <1>2, <1>3, <1>5 DEF IInv

-----------------------------------------------------------------------------
\* Types. What the bounds of room, slot and num_clients need.
LEMMA Bounds ==
    /\ 0 \in Rooms /\ 0 \in Slots /\ 0 \in 0 .. MAX_CLIENTS_ROOM
    /\ 1 \in 0 .. MAX_CLIENTS_ROOM
    /\ \A i \in Slots : i + 1 \in 0 .. MAX_CLIENTS_ROOM
    /\ \A r \in Rooms : r < LastRoom => r + 1 \in Rooms
BY DEF Rooms, Slots, LastRoom

LEMMA FinishType ==
    ASSUME TypeOK, NEW w \in Workers, Finish(w)
    PROVE  /\ pc' \in [Workers -> Pcs]
           /\ client' \in [Workers -> Clients \cup {NULL}]
           /\ room' \in [Workers -> Rooms]
           /\ slot' \in [Workers -> 0 .. MAX_CLIENTS_ROOM]
           /\ exiting' \in [Workers -> BOOLEAN]
           /\ listed' \in [Workers -> SUBSET Rooms]
BY Bounds DEF TypeOK, Finish, Goto, Pcs

LEMMA NextRoomType ==
    ASSUME TypeOK, NEW w \in Workers, NEW l \in Pcs, NextRoom(w, l)
    PROVE  pc' \in [Workers -> Pcs] /\ room' \in [Workers -> Rooms]
<1>1. CASE room[w] < LastRoom
  <2>1. room[w] + 1 \in Rooms
    BY <1>1, Bounds DEF TypeOK
  <2>2. room' = [room EXCEPT ![w] = @ + 1] /\ pc' = pc
    BY <1>1, Zenon DEF NextRoom
  <2> QED
    BY <2>1, <2>2 DEF TypeOK
<1>2. CASE ~ (room[w] < LastRoom)
  <2>1. pc' = [pc EXCEPT ![w] = l] /\ room' = room
    BY <1>2, Zenon DEF NextRoom, Goto
  <2> QED
    BY <2>1 DEF TypeOK
<1> QED
  BY <1>1, <1>2

LEMMA SendToType ==
    ASSUME TypeOK, NEW w \in Workers, NEW c \in Clients, SendTo(w, c)
    PROVE  /\ link' \in [Clients -> {"ok", "full", "gone"}]
           /\ sending' \in [Workers -> BOOLEAN]
           /\ garbled' \in [Clients -> BOOLEAN]
<1>1. PICK l \in {link[c]} \cup {k \in {"full"} : "slow" \in Peers /\ link[c] = "ok"} :
        link' = [link EXCEPT ![c] = l]
  BY DEF SendTo
<1>2. link' \in [Clients -> {"ok", "full", "gone"}]
  BY <1>1 DEF TypeOK
<1>3. sending' \in [Workers -> BOOLEAN]
  BY DEF SendTo, TypeOK
<1>4. garbled' \in [Clients -> BOOLEAN]
  BY DEF SendTo, MarkGarbled, TypeOK
<1> QED
  BY <1>2, <1>3, <1>4

LEMMA CommandType ==
    ASSUME TypeOK, NEW w \in Workers, NEW c \in Clients, Command(w, c)
    PROVE  TypeOK'
<1> USE DEF TypeOK, Serve, Goto, LockedPcs, Pcs, States,
            roomVars, clientVars, workerVars, scanVars, linkVars
<1>1. CASE InvalidCommand(w, c)
  BY <1>1 DEF InvalidCommand
<1>2. CASE SubmitUsername(w, c)
  BY <1>2 DEF SubmitUsername, BeginScan, InUse
<1>3. CASE RequestList(w, c)
  BY <1>3 DEF RequestList, BeginScan, InUse
<1>4. CASE RequestCreate(w, c)
  BY <1>4 DEF RequestCreate, BeginScan, InUse
<1>5. CASE RoomMessage(w, c)
  BY <1>5 DEF RoomMessage
<1>6. CASE RequestLeave(w, c)
  BY <1>6 DEF RequestLeave
<1>7. CASE Disconnect(w, c)
  BY <1>7 DEF Disconnect
<1>8. ASSUME NEW r \in Rooms, RequestJoin(w, c, r) PROVE TypeOK'
  BY <1>8 DEF RequestJoin
<1> QED
  BY <1>1, <1>2, <1>3, <1>4, <1>5, <1>6, <1>7, <1>8 DEF Command

LEMMA JoinEnterBound ==
    ASSUME NEW w \in Workers, JoinEnter(w)
    PROVE  in_use[room[w]] /\ num_clients[room[w]] # MAX_CLIENTS_ROOM
BY DEF JoinEnter

LEMMA LeaveDoneCases ==
    ASSUME NEW w \in Workers, LeaveDone(w)
    PROVE  \/ /\ num_clients[room[w]] = 0
              /\ clients' = [clients EXCEPT ![room[w]] = [i \in Slots |-> NULL]]
              /\ in_use' = [in_use EXCEPT ![room[w]] = FALSE]
              /\ ScansSeeFreed(room[w])
           \/ /\ num_clients[room[w]] # 0
              /\ UNCHANGED <<clients, in_use, seen, kept, was_full>>
BY DEF LeaveDone, IsEmpty, scanVars

LEMMA WorkerType ==
    ASSUME IInv, NEW w \in Workers, WorkerStep(w)
    PROVE  TypeOK'
<1> USE Bounds DEF IInv, TypeOK, ServesOwn, Goto, Lock, Unlock, LockedPcs, Pcs, States,
            roomVars, clientVars, workerVars, scanVars, linkVars
<1>1. CASE SendPart(w)
  <2>1. PICK c \in Targets(w) : /\ link[c] = "ok"
                                /\ link' = [link EXCEPT ![c] = "full"]
                                /\ MarkGarbled(w, c)
    BY <1>1 DEF SendPart
  <2>2. link' \in [Clients -> {"ok", "full", "gone"}]
    BY <2>1
  <2>3. garbled' \in [Clients -> BOOLEAN]
    BY <2>1 DEF MarkGarbled
  <2> QED
    BY <1>1, <2>2, <2>3 DEF SendPart
<1>2. CASE SendReply(w)
  <2>1. client[w] \in Clients
    BY <1>2 DEF SendReply
  <2> QED
    BY <1>2, <2>1, FinishType, SendToType DEF SendReply, EndScan
<1>3. CASE BroadcastSend(w)
  <2>1. PICK i \in Remaining(w) : /\ IsFirst(i, Remaining(w))
                                  /\ SendTo(w, clients[room[w]][i])
                                  /\ slot' = [slot EXCEPT ![w] = i + 1]
    BY <1>3 DEF BroadcastSend
  <2>2. i \in Slots /\ clients[room[w]][i] \in Clients
    BY <2>1 DEF Remaining
  <2> QED
    BY <1>3, <2>1, <2>2, SendToType DEF BroadcastSend
<1>4. CASE Cleanup(w)
  BY <1>4, FinishType DEF Cleanup
<1>5. CASE ListRoom(w)
  <2>1. pc' \in [Workers -> Pcs] /\ room' \in [Workers -> Rooms]
    BY <1>5, NextRoomType DEF ListRoom
  <2> QED
    <3>1. listed' \in [Workers -> SUBSET Rooms]
      <4>1. listed' = [listed EXCEPT ![w] =
                          IF Available(room[w]) THEN @ ELSE @ \cup {room[w]}]
        BY <1>5 DEF ListRoom
      <4>2. CASE Available(room[w])
        BY <4>1, <4>2
      <4>3. CASE ~ Available(room[w])
        BY <4>1, <4>3
      <4> QED
        BY <4>2, <4>3
    <3> QED
      BY <1>5, <2>1, <3>1 DEF ListRoom
<1>6. CASE CreateSkip(w)
  <2>1. pc' \in [Workers -> Pcs] /\ room' \in [Workers -> Rooms]
    BY <1>6, NextRoomType DEF CreateSkip
  <2> QED
    BY <1>6, <2>1 DEF CreateSkip
<1>7. CASE CreateTake(w)
  <2>1. client[w] \in Clients /\ room[w] \in Rooms
    BY <1>7 DEF CreateTake, CreateEnter
  <2>2. /\ seen' \in [Workers -> SUBSET Rooms]
        /\ kept' \in [Workers -> SUBSET Rooms]
        /\ was_full' \in [Workers -> BOOLEAN]
    BY <1>7, <2>1 DEF CreateTake, CreateEnter, ScansSeeTaken
  <2> QED
    BY <1>7, <2>1, <2>2 DEF CreateTake, CreateEnter
<1>8. CASE CreateOk(w)
  <2>1. client[w] \in Clients
    BY <1>8 DEF CreateOk
  <2> QED
    BY <1>8, <2>1, FinishType, SendToType DEF CreateOk, Tell, EndScan
<1>9. CASE JoinRefused(w)
  BY <1>9 DEF JoinRefused
<1>10. CASE JoinError(w)
  <2>1. client[w] \in Clients
    BY <1>10 DEF JoinError
  <2> QED
    BY <1>10, <2>1, FinishType, SendToType DEF JoinError
<1>11. CASE JoinEnter(w)
  <2>1. client[w] \in Clients /\ room[w] \in Rooms
    BY <1>11 DEF JoinEnter
  <2>2. CASE FreeSlots(room[w]) = {}
    BY <1>11, <2>2, FinishType DEF JoinEnter
  <2>3. CASE FreeSlots(room[w]) # {}
    <3>1. PICK i \in FreeSlots(room[w]) : clients' = [clients EXCEPT ![room[w]][i] = client[w]]
      BY <1>11, <2>3 DEF JoinEnter
    <3>2. clients' \in [Rooms -> [Slots -> Clients \cup {NULL}]]
      BY <2>1, <3>1 DEF FreeSlots
    <3>3. num_clients[room[w]] + 1 \in 0 .. MAX_CLIENTS_ROOM
      <4>1. num_clients[room[w]] # MAX_CLIENTS_ROOM
        BY <1>11, JoinEnterBound
      <4>2. num_clients[room[w]] \in 0 .. MAX_CLIENTS_ROOM
        BY <2>1
      <4> HIDE DEF IInv
      <4> QED
        BY <4>1, <4>2
    <3>4. num_clients' = [num_clients EXCEPT ![room[w]] = @ + 1]
      BY <1>11, <2>3 DEF JoinEnter
    <3>5. num_clients' \in [Rooms -> 0 .. MAX_CLIENTS_ROOM]
      BY <2>1, <3>3, <3>4
    <3>6. /\ room_lock' = [room_lock EXCEPT ![room[w]] = w]
          /\ pc' = [pc EXCEPT ![w] = "join_broadcast"]
      BY <1>11, <2>3, Zenon DEF JoinEnter, Goto
    <3> QED
      BY <1>11, <2>3, <3>2, <3>5, <3>6 DEF JoinEnter
  <2> QED
    BY <2>2, <2>3
<1>12. CASE JoinOk(w)
  <2>1. client[w] \in Clients
    BY <1>12 DEF JoinOk
  <2> QED
    BY <1>12, <2>1, FinishType, SendToType DEF JoinOk, Tell
<1>13. CASE MessageLock(w)
  BY <1>13 DEF MessageLock
<1>14. CASE MessageDone(w)
  BY <1>14, FinishType DEF MessageDone
<1>15. CASE LeaveLock(w)
  <2> DEFINE held == {i \in Slots : clients[room[w]][i] = client[w]}
  <2>1. client[w] \in Clients /\ room[w] \in Rooms
    BY <1>15 DEF LeaveLock
  <2>2. CASE held = {}
    BY <1>15, <2>2 DEF LeaveLock
  <2>3. CASE held # {}
    <3>1. PICK i \in held : clients' = Emptied(room[w], i)
      BY <1>15, <2>3 DEF LeaveLock
    <3>2. clients' \in [Rooms -> [Slots -> Clients \cup {NULL}]]
      BY <2>1, <3>1 DEF Emptied
    <3>3. i \in Occupied(room[w])
      BY <2>1, <3>1 DEF Occupied
    <3>4. num_clients[room[w]] > 0
      BY <2>1, <3>3, OccupiedFinite DEF AccountInv
    <3>5. num_clients[room[w]] - 1 \in 0 .. MAX_CLIENTS_ROOM
      BY <2>1, <3>4
    <3>6. num_clients' = [num_clients EXCEPT ![room[w]] = @ - 1]
      BY <1>15, <2>3 DEF LeaveLock
    <3>7. num_clients' \in [Rooms -> 0 .. MAX_CLIENTS_ROOM]
      BY <2>1, <3>5, <3>6
    <3> QED
      BY <1>15, <2>1, <3>2, <3>7 DEF LeaveLock
  <2> QED
    BY <2>2, <2>3
<1>16. CASE LeaveDone(w)
  <2>1. /\ clients' \in [Rooms -> [Slots -> Clients \cup {NULL}]]
        /\ in_use' \in [Rooms -> BOOLEAN]
        /\ seen' \in [Workers -> SUBSET Rooms]
        /\ kept' \in [Workers -> SUBSET Rooms]
        /\ was_full' \in [Workers -> BOOLEAN]
    <3>1. CASE /\ clients' = [clients EXCEPT ![room[w]] = [i \in Slots |-> NULL]]
               /\ in_use' = [in_use EXCEPT ![room[w]] = FALSE]
               /\ ScansSeeFreed(room[w])
      BY <3>1 DEF ScansSeeFreed
    <3>2. CASE UNCHANGED <<clients, in_use, seen, kept, was_full>>
      BY <3>2
    <3> QED
      BY <1>16, <3>1, <3>2, LeaveDoneCases
  <2>2. /\ pc' \in [Workers -> Pcs]
        /\ slot' \in [Workers -> 0 .. MAX_CLIENTS_ROOM]
        /\ room_lock' \in [Rooms -> Workers \cup {NULL}]
        /\ UNCHANGED <<num_clients, clientVars, client, room, exiting, listed,
                       linkVars, view>>
    BY <1>16 DEF LeaveDone
  <2> QED
    BY <2>1, <2>2
<1>17. CASE LeaveOkLock(w)
  BY <1>17 DEF LeaveOkLock
<1>18. CASE LeaveOk(w)
  <2>1. client[w] \in Clients
    BY <1>18 DEF LeaveOk
  <2> QED
    BY <1>18, <2>1, FinishType, SendToType DEF LeaveOk, Tell
<1> QED
  BY <1>1, <1>2, <1>3, <1>4, <1>5, <1>6, <1>7, <1>8, <1>9, <1>10, <1>11, <1>12, <1>13, <1>14,
     <1>15, <1>16, <1>17, <1>18 DEF WorkerStep

LEMMA TypeStep ==
    ASSUME IInv, [Next]_vars
    PROVE  TypeOK'
<1> USE DEF IInv, TypeOK, States, Nowhere, InLobby,
            roomVars, clientVars, workerVars, scanVars, linkVars
<1>1. ASSUME NEW w \in Workers, WorkerStep(w) PROVE TypeOK'
  BY <1>1, WorkerType
<1>2. ASSUME NEW w \in Workers, NEW c \in Clients, Command(w, c) PROVE TypeOK'
  BY <1>2, CommandType
<1>3. ASSUME NEW c \in Clients, Connect(c) PROVE TypeOK'
  BY <1>3, Bounds DEF Connect
<1>4. ASSUME NEW c \in Clients, ReadsOn(c) PROVE TypeOK'
  BY <1>4 DEF ReadsOn
<1>5. ASSUME NEW c \in Clients, GoesAway(c) PROVE TypeOK'
  BY <1>5 DEF GoesAway
<1>6. CASE UNCHANGED vars
  BY <1>6 DEF vars
<1> QED
  BY <1>1, <1>2, <1>3, <1>4, <1>5, <1>6 DEF Next

-----------------------------------------------------------------------------
\* Locks. What a step of worker w does with the lock of its room.
Takes(w) ==
    /\ pc[w] \notin LockedPcs /\ pc'[w] \in LockedPcs
    /\ Lock(w, room[w]) /\ room'[w] = room[w]
Releases(w) ==
    /\ pc[w] \in LockedPcs /\ pc'[w] \notin LockedPcs
    /\ Unlock(room[w])
Keeps(w) ==
    /\ room_lock' = room_lock
    /\ pc'[w] \in LockedPcs <=> pc[w] \in LockedPcs
    /\ pc[w] \in LockedPcs => room'[w] = room[w]

\* The client a step of worker w leaves it with, and the other workers.
Serves(w) ==
    \/ pc'[w] = "idle"
    \/ pc[w] # "idle" /\ client'[w] = client[w]
    \/ client'[w] \in Clients /\ WorkerOf[client'[w]] = w
OthersStay(w) ==
    \A u \in Workers \ {w} :
        /\ pc'[u] = pc[u]
        /\ client'[u] = client[u]
        /\ room'[u] = room[u]

LEMMA FinishStays ==
    ASSUME TypeOK, NEW w \in Workers, Finish(w)
    PROVE  OthersStay(w) /\ pc'[w] = "idle" /\ client'[w] = NULL
BY DEF TypeOK, Finish, Goto, OthersStay

LEMMA CommandFrame ==
    ASSUME TypeOK, NEW w \in Workers, NEW c \in Clients, Command(w, c)
    PROVE  /\ OthersStay(w) /\ Keeps(w)
           /\ client'[w] = c /\ WorkerOf[c] = w /\ pc[w] = "idle"
           /\ roomVars' = roomVars
<1> USE DEF TypeOK, Serve, Goto, LockedPcs, Keeps, OthersStay, roomVars, workerVars
<1>1. CASE InvalidCommand(w, c)
  BY <1>1 DEF InvalidCommand
<1>2. CASE SubmitUsername(w, c)
  BY <1>2 DEF SubmitUsername
<1>3. CASE RequestList(w, c)
  BY <1>3 DEF RequestList
<1>4. CASE RequestCreate(w, c)
  BY <1>4 DEF RequestCreate
<1>5. CASE RoomMessage(w, c)
  BY <1>5 DEF RoomMessage
<1>6. CASE RequestLeave(w, c)
  BY <1>6 DEF RequestLeave
<1>7. CASE Disconnect(w, c)
  BY <1>7 DEF Disconnect
<1>8. ASSUME NEW r \in Rooms, RequestJoin(w, c, r)
      PROVE  /\ OthersStay(w) /\ Keeps(w)
             /\ client'[w] = c /\ WorkerOf[c] = w /\ pc[w] = "idle"
             /\ roomVars' = roomVars
  BY <1>8 DEF RequestJoin
<1> QED
  BY <1>1, <1>2, <1>3, <1>4, <1>5, <1>6, <1>7, <1>8 DEF Command

LEMMA NextRoomStays ==
    ASSUME TypeOK, NEW w \in Workers, NEW l, NextRoom(w, l)
    PROVE  /\ \A u \in Workers \ {w} : pc'[u] = pc[u] /\ room'[u] = room[u]
           /\ pc'[w] \in {pc[w], l}
<1>1. CASE room[w] < LastRoom
  <2>1. room' = [room EXCEPT ![w] = @ + 1] /\ pc' = pc
    BY <1>1, Zenon DEF NextRoom
  <2> QED
    BY <2>1 DEF TypeOK
<1>2. CASE ~ (room[w] < LastRoom)
  <2>1. pc' = [pc EXCEPT ![w] = l] /\ room' = room
    BY <1>2, Zenon DEF NextRoom, Goto
  <2> QED
    BY <2>1 DEF TypeOK
<1> QED
  BY <1>1, <1>2

LEMMA WorkerFrame ==
    ASSUME TypeOK, NEW w \in Workers, WorkerStep(w)
    PROVE  /\ OthersStay(w) /\ Serves(w)
           /\ Takes(w) \/ Releases(w) \/ Keeps(w)
<1> USE FinishStays DEF TypeOK, Goto, LockedPcs, Takes, Releases, Keeps, Serves, OthersStay,
        workerVars
<1>1. CASE SendPart(w)
  BY <1>1 DEF SendPart
<1>2. CASE SendReply(w)
  BY <1>2 DEF SendReply
<1>3. CASE BroadcastSend(w)
  BY <1>3 DEF BroadcastSend, BroadcastPcs
<1>4. CASE Cleanup(w)
  BY <1>4 DEF Cleanup
<1>5. CASE ListRoom(w)
  <2>1. /\ NextRoom(w, "send_list") /\ UNCHANGED <<client, room_lock>>
        /\ pc[w] \in {"list", "create"}
    BY <1>5 DEF ListRoom
  <2>2. /\ \A u \in Workers \ {w} : pc'[u] = pc[u] /\ room'[u] = room[u]
        /\ pc'[w] \in {pc[w], "send_list"}
    BY <2>1, NextRoomStays
  <2> QED
    BY <2>1, <2>2
<1>6. CASE CreateSkip(w)
  <2>1. /\ NextRoom(w, "send_full") /\ UNCHANGED <<client, room_lock>>
        /\ pc[w] \in {"list", "create"}
    BY <1>6 DEF CreateSkip
  <2>2. /\ \A u \in Workers \ {w} : pc'[u] = pc[u] /\ room'[u] = room[u]
        /\ pc'[w] \in {pc[w], "send_full"}
    BY <2>1, NextRoomStays
  <2> QED
    BY <2>1, <2>2
<1>7. CASE CreateTake(w)
  BY <1>7 DEF CreateTake, CreateEnter
<1>8. CASE CreateOk(w)
  BY <1>8 DEF CreateOk
<1>9. CASE JoinRefused(w)
  BY <1>9 DEF JoinRefused
<1>10. CASE JoinError(w)
  BY <1>10 DEF JoinError
<1>11. CASE JoinEnter(w)
  <2>1. CASE FreeSlots(room[w]) = {}
    BY <1>11, <2>1 DEF JoinEnter
  <2>2. CASE FreeSlots(room[w]) # {}
    <3>1. /\ pc[w] = "join_lock" /\ pc' = [pc EXCEPT ![w] = "join_broadcast"]
          /\ Lock(w, room[w]) /\ room' = room /\ client' = client
      BY <1>11, <2>2 DEF JoinEnter, Lock
    <3> QED
      BY <3>1
  <2> QED
    BY <2>1, <2>2
<1>12. CASE JoinOk(w)
  BY <1>12 DEF JoinOk
<1>13. CASE MessageLock(w)
  BY <1>13 DEF MessageLock
<1>14. CASE MessageDone(w)
  BY <1>14 DEF MessageDone
<1>15. CASE LeaveLock(w)
  BY <1>15 DEF LeaveLock
<1>16. CASE LeaveDone(w)
  BY <1>16 DEF LeaveDone
<1>17. CASE LeaveOkLock(w)
  BY <1>17 DEF LeaveOkLock
<1>18. CASE LeaveOk(w)
  BY <1>18 DEF LeaveOk
<1> QED
  BY <1>1, <1>2, <1>3, <1>4, <1>5, <1>6, <1>7, <1>8, <1>9, <1>10, <1>11, <1>12, <1>13, <1>14,
     <1>15, <1>16, <1>17, <1>18 DEF WorkerStep

\* The steps of peers and of a new connection leave the workers alone.
LEMMA PeerFrame ==
    ASSUME NEW c \in Clients, Connect(c) \/ ReadsOn(c) \/ GoesAway(c)
    PROVE  UNCHANGED <<roomVars, room_lock, pc, client, room, slot>>
BY DEF Connect, ReadsOn, GoesAway, workerVars

LEMMA ServesOwnStep ==
    ASSUME IInv, [Next]_vars
    PROVE  ServesOwn'
<1> USE DEF IInv, ServesOwn
<1>1. ASSUME NEW w \in Workers, WorkerStep(w) PROVE ServesOwn'
  BY <1>1, WorkerFrame DEF OthersStay, Serves
<1>2. ASSUME NEW w \in Workers, NEW c \in Clients, Command(w, c) PROVE ServesOwn'
  BY <1>2, CommandFrame DEF OthersStay
<1>3. ASSUME NEW c \in Clients, Connect(c) \/ ReadsOn(c) \/ GoesAway(c) PROVE ServesOwn'
  BY <1>3, PeerFrame
<1>4. CASE UNCHANGED vars
  BY <1>4 DEF vars, workerVars
<1> QED
  BY <1>1, <1>2, <1>3, <1>4 DEF Next

LEMMA LockStep ==
    ASSUME IInv, [Next]_vars
    PROVE  LockInv'
<1> USE DEF IInv, LockInv
<1>1. ASSUME NEW w \in Workers, OthersStay(w), Takes(w) \/ Releases(w) \/ Keeps(w)
      PROVE  LockInv'
  <2>0. room[w] \in Rooms /\ room_lock \in [Rooms -> Workers \cup {NULL}]
    BY DEF TypeOK
  <2>1. CASE Takes(w)
    BY <1>1, <2>0, <2>1 DEF Takes, Lock, OthersStay
  <2>2. CASE Releases(w)
    BY <1>1, <2>0, <2>2 DEF Releases, Unlock, OthersStay
  <2>3. CASE Keeps(w)
    BY <1>1, <2>0, <2>3 DEF Keeps, OthersStay
  <2> QED
    BY <1>1, <2>1, <2>2, <2>3
<1>2. ASSUME NEW w \in Workers, WorkerStep(w) PROVE LockInv'
  BY <1>1, <1>2, WorkerFrame
<1>3. ASSUME NEW w \in Workers, NEW c \in Clients, Command(w, c) PROVE LockInv'
  BY <1>1, <1>3, CommandFrame
<1>4. ASSUME NEW c \in Clients, Connect(c) \/ ReadsOn(c) \/ GoesAway(c) PROVE LockInv'
  BY <1>4, PeerFrame
<1>5. CASE UNCHANGED vars
  BY <1>5 DEF vars, workerVars
<1> QED
  BY <1>2, <1>3, <1>4, <1>5 DEF Next

-----------------------------------------------------------------------------
\* Accounts. The steps that change the arrays, and those that do not.
Changes(w) == CreateTake(w) \/ JoinEnter(w) \/ LeaveLock(w) \/ LeaveDone(w)

LEMMA QuietFrame ==
    ASSUME TypeOK, NEW w \in Workers, WorkerStep(w), ~ Changes(w)
    PROVE  /\ roomVars' = roomVars
           /\ pc[w] = "leave_broadcast" =>
                 pc'[w] = "leave_broadcast" /\ room'[w] = room[w]
<1> USE DEF TypeOK, workerVars, Goto
<1>1. CASE SendPart(w)
  BY <1>1 DEF SendPart
<1>2. CASE SendReply(w)
  BY <1>2 DEF SendReply
<1>3. CASE BroadcastSend(w)
  BY <1>3 DEF BroadcastSend
<1>4. CASE Cleanup(w)
  BY <1>4 DEF Cleanup
<1>5. CASE ListRoom(w)
  BY <1>5 DEF ListRoom
<1>6. CASE CreateSkip(w)
  BY <1>6 DEF CreateSkip
<1>7. CASE CreateOk(w)
  BY <1>7 DEF CreateOk
<1>8. CASE JoinRefused(w)
  BY <1>8 DEF JoinRefused
<1>9. CASE JoinError(w)
  BY <1>9 DEF JoinError
<1>10. CASE JoinOk(w)
  BY <1>10 DEF JoinOk
<1>11. CASE MessageLock(w)
  BY <1>11 DEF MessageLock
<1>12. CASE MessageDone(w)
  BY <1>12 DEF MessageDone
<1>13. CASE LeaveOkLock(w)
  BY <1>13 DEF LeaveOkLock
<1>14. CASE LeaveOk(w)
  BY <1>14 DEF LeaveOk
<1> QED
  BY <1>1, <1>2, <1>3, <1>4, <1>5, <1>6, <1>7, <1>8, <1>9, <1>10, <1>11, <1>12, <1>13, <1>14
     DEF WorkerStep, Changes

\* A room that is taken has no members, and gets its first.
LEMMA CreateEffect ==
    ASSUME IInv, NEW w \in Workers, CreateTake(w)
    PROVE  /\ room[w] \in Rooms /\ client[w] \in Clients /\ 0 \in Slots
           /\ Occupied(room[w]) = {}
           /\ room_lock[room[w]] = NULL
           /\ clients' = [clients EXCEPT ![room[w]][0] = client[w]]
           /\ num_clients' = [num_clients EXCEPT ![room[w]] = 1]
           /\ in_use' = [in_use EXCEPT ![room[w]] = TRUE]
<1>1. pc[w] = "create" /\ ~ in_use[room[w]] /\ room_lock[room[w]] = NULL
  BY DEF CreateTake, CreateEnter, Available, Lock
<1>2. room[w] \in Rooms /\ client[w] \in Clients
  BY <1>1 DEF IInv, TypeOK, ServesOwn
<1>3. Occupied(room[w]) = {}
  BY <1>1, <1>2 DEF IInv, AccountInv
<1> QED
  BY <1>1, <1>2, <1>3, Bounds DEF CreateTake, CreateEnter

\* A client that joins takes a free slot of a room in use; there is one.
LEMMA JoinEffect ==
    ASSUME IInv, NEW w \in Workers, JoinEnter(w)
    PROVE  /\ room[w] \in Rooms /\ client[w] \in Clients
           /\ in_use[room[w]] /\ room_lock[room[w]] = NULL
           /\ num_clients[room[w]] < MAX_CLIENTS_ROOM
           /\ num_clients' = [num_clients EXCEPT ![room[w]] = @ + 1]
           /\ in_use' = in_use
           /\ pc'[w] = "join_broadcast"
           /\ \E i \in FreeSlots(room[w]) :
                 clients' = [clients EXCEPT ![room[w]][i] = client[w]]
<1>1. pc[w] = "join_lock" /\ room_lock[room[w]] = NULL
  BY DEF JoinEnter
<1>2. room[w] \in Rooms /\ client[w] \in Clients
  BY <1>1 DEF IInv, TypeOK, ServesOwn
<1>3. in_use[room[w]] /\ num_clients[room[w]] # MAX_CLIENTS_ROOM
  BY JoinEnterBound
<1>4. num_clients[room[w]] \in 0 .. MAX_CLIENTS_ROOM
  BY <1>2 DEF IInv, TypeOK
<1>5. num_clients[room[w]] < MAX_CLIENTS_ROOM
  BY <1>3, <1>4
<1>6. FreeSlots(room[w]) # {}
  <2>1. num_clients[room[w]] = Cardinality(Occupied(room[w]))
    BY <1>2 DEF IInv, AccountInv
  <2>2. CASE FreeSlots(room[w]) = {}
    <3>1. Occupied(room[w]) = Slots
      BY <2>2 DEF FreeSlots, Occupied
    <3>2. 0 \in Int /\ MAX_CLIENTS_ROOM - 1 \in Int
      OBVIOUS
    <3>3. Cardinality(Slots) = MAX_CLIENTS_ROOM
      BY <3>2, FS_Interval DEF Slots
    <3> QED
      BY <1>5, <2>1, <3>1, <3>3
  <2> QED
    BY <2>2
<1>7. /\ num_clients' = [num_clients EXCEPT ![room[w]] = @ + 1]
      /\ in_use' = in_use /\ pc' = [pc EXCEPT ![w] = "join_broadcast"]
      /\ \E i \in FreeSlots(room[w]) : clients' = [clients EXCEPT ![room[w]][i] = client[w]]
  BY <1>6 DEF JoinEnter, Goto
<1> QED
  BY <1>1, <1>2, <1>3, <1>5, <1>7 DEF IInv, TypeOK

\* A client that leaves frees one slot if it has one.
LEMMA LeaveEffect ==
    ASSUME IInv, NEW w \in Workers, LeaveLock(w)
    PROVE  /\ room[w] \in Rooms /\ client[w] \in Clients
           /\ in_use' = in_use /\ room' = room /\ pc'[w] = "leave_broadcast"
           /\ \/ /\ \A i \in Slots : clients[room[w]][i] # client[w]
                 /\ UNCHANGED <<clients, num_clients>>
              \/ \E i \in Slots :
                    /\ clients[room[w]][i] = client[w]
                    /\ clients' = [clients EXCEPT ![room[w]][i] = NULL]
                    /\ num_clients' = [num_clients EXCEPT ![room[w]] = @ - 1]
<1>1. /\ pc[w] = "leave_lock" /\ in_use' = in_use /\ room' = room
      /\ pc' = [pc EXCEPT ![w] = "leave_broadcast"]
  BY DEF LeaveLock, workerVars, Goto
<1>2. room[w] \in Rooms /\ client[w] \in Clients
  BY <1>1 DEF IInv, TypeOK, ServesOwn
<1> DEFINE held == {i \in Slots : clients[room[w]][i] = client[w]}
<1>3. CASE held = {}
  BY <1>1, <1>2, <1>3 DEF LeaveLock, IInv, TypeOK
<1>4. CASE held # {}
  BY <1>1, <1>2, <1>4 DEF LeaveLock, Emptied, IInv, TypeOK
<1> QED
  BY <1>3, <1>4

\* leave_room clears the array of a room only when it is empty already.
LEMMA LeaveDoneEffect ==
    ASSUME IInv, NEW w \in Workers, LeaveDone(w)
    PROVE  /\ room[w] \in Rooms /\ clients' = clients /\ num_clients' = num_clients
           /\ pc[w] = "leave_broadcast"
           /\ \/ /\ Occupied(room[w]) = {}
                 /\ in_use' = [in_use EXCEPT ![room[w]] = FALSE]
              \/ Occupied(room[w]) # {} /\ in_use' = in_use
<1>1. room[w] \in Rooms /\ pc[w] = "leave_broadcast" /\ num_clients' = num_clients
  BY DEF LeaveDone, IInv, TypeOK
<1>2. num_clients[room[w]] = 0 <=> Occupied(room[w]) = {}
  BY <1>1, OccupiedFinite, FS_EmptySet DEF IInv, AccountInv
<1>3. CASE /\ num_clients[room[w]] = 0
           /\ clients' = [clients EXCEPT ![room[w]] = [i \in Slots |-> NULL]]
           /\ in_use' = [in_use EXCEPT ![room[w]] = FALSE]
  <2>1. clients[room[w]] = [i \in Slots |-> NULL]
    BY <1>1, <1>2, <1>3 DEF Occupied, IInv, TypeOK
  <2> QED
    BY <1>1, <1>2, <1>3, <2>1 DEF IInv, TypeOK
<1>4. CASE num_clients[room[w]] # 0 /\ UNCHANGED <<clients, in_use>>
  BY <1>1, <1>2, <1>4
<1> QED
  BY <1>3, <1>4, LeaveDoneCases

\* A room that a step of worker w leaves alone keeps its account.
Account(r) ==
    /\ num_clients[r] = Cardinality(Occupied(r))
    /\ Occupied(r) # {} => in_use[r]
    /\ in_use[r] => \/ Occupied(r) # {}
                    \/ \E w \in Workers : pc[w] = "leave_broadcast" /\ room[w] = r

LEMMA AccountKept ==
    ASSUME IInv, NEW w \in Workers, NEW r \in Rooms, OthersStay(w),
           clients'[r] = clients[r], num_clients'[r] = num_clients[r], in_use'[r] = in_use[r],
           pc[w] = "leave_broadcast" /\ room[w] = r =>
              pc'[w] = "leave_broadcast" /\ room'[w] = r
    PROVE  Account(r)'
<1>1. Occupied(r)' = Occupied(r)
  BY DEF Occupied
<1>2. Account(r)
  BY DEF IInv, AccountInv, Account
<1>3. ASSUME NEW u \in Workers, pc[u] = "leave_broadcast", room[u] = r
      PROVE  pc'[u] = "leave_broadcast" /\ room'[u] = r
  BY <1>3 DEF OthersStay
<1> QED
  BY <1>1, <1>2, <1>3 DEF Account

LEMMA AccountStep ==
    ASSUME IInv, [Next]_vars
    PROVE  AccountInv'
<1>0. clients \in [Rooms -> [Slots -> Clients \cup {NULL}]]
      /\ num_clients \in [Rooms -> 0 .. MAX_CLIENTS_ROOM] /\ in_use \in [Rooms -> BOOLEAN]
  BY DEF IInv, TypeOK
<1>1. ASSUME NEW w \in Workers, WorkerStep(w), NEW r \in Rooms PROVE Account(r)'
  <2>1. OthersStay(w)
    BY <1>1, WorkerFrame DEF IInv
  <2>2. CASE ~ Changes(w)
    <3>1. /\ UNCHANGED <<clients, num_clients, in_use>>
          /\ pc[w] = "leave_broadcast" => pc'[w] = "leave_broadcast" /\ room'[w] = room[w]
      BY <1>1, <2>2, QuietFrame DEF IInv, roomVars
    <3> QED
      BY <2>1, <3>1, AccountKept
  <2>3. CASE CreateTake(w)
    <3>1. pc[w] = "create"
      BY <2>3 DEF CreateTake, CreateEnter
    <3>0. /\ room[w] \in Rooms /\ client[w] \in Clients /\ 0 \in Slots
          /\ Occupied(room[w]) = {}
          /\ clients' = [clients EXCEPT ![room[w]][0] = client[w]]
          /\ num_clients' = [num_clients EXCEPT ![room[w]] = 1]
          /\ in_use' = [in_use EXCEPT ![room[w]] = TRUE]
      BY <2>3, CreateEffect
    <3>2. CASE r # room[w]
      <4>1. clients'[r] = clients[r] /\ num_clients'[r] = num_clients[r] /\ in_use'[r] = in_use[r]
        BY <1>0, <3>0, <3>2
      <4> QED
        BY <2>1, <3>1, <4>1, AccountKept
    <3>3. CASE r = room[w]
      <4>1. Occupied(r)' = {0}
        BY <1>0, <3>0, <3>3 DEF Occupied
      <4>2. num_clients'[r] = 1 /\ in_use'[r] = TRUE
        BY <1>0, <3>0, <3>3
      <4> QED
        BY <4>1, <4>2, FS_Singleton DEF Account
    <3> QED
      BY <3>2, <3>3
  <2>4. CASE JoinEnter(w)
    <3>1. pc[w] = "join_lock"
      BY <2>4 DEF JoinEnter
    <3>2. PICK i \in FreeSlots(room[w]) : clients' = [clients EXCEPT ![room[w]][i] = client[w]]
      BY <2>4, JoinEffect
    <3>3. CASE r # room[w]
      BY <1>0, <2>1, <2>4, <3>1, <3>2, <3>3, JoinEffect, AccountKept
    <3>4. CASE r = room[w]
      <4>1. i \in Slots /\ clients[r][i] = NULL
        BY <3>2, <3>4 DEF FreeSlots
      <4>2. Occupied(r)' = Occupied(r) \cup {i} /\ i \notin Occupied(r)
        BY <1>0, <2>4, <3>2, <3>4, <4>1, JoinEffect DEF Occupied
      <4>3. num_clients'[r] = num_clients[r] + 1 /\ in_use'[r]
        BY <1>0, <2>4, <3>4, JoinEffect
      <4>4. num_clients[r] = Cardinality(Occupied(r))
        BY DEF IInv, AccountInv
      <4>5. Cardinality(Occupied(r) \cup {i}) = Cardinality(Occupied(r)) + 1
        BY <4>2, OccupiedFinite, FS_AddElement
      <4> QED
        BY <4>2, <4>3, <4>4, <4>5 DEF Account
    <3> QED
      BY <3>3, <3>4
  <2>5. CASE LeaveLock(w)
    <3>1. pc[w] = "leave_lock"
      BY <2>5 DEF LeaveLock
    <3>2. CASE r # room[w]
      BY <1>0, <2>1, <2>5, <3>1, <3>2, LeaveEffect, AccountKept
    <3>3. CASE r = room[w]
      <4>1. pc'[w] = "leave_broadcast" /\ room'[w] = r /\ in_use' = in_use
        BY <2>5, <3>3, LeaveEffect
      <4>2. Account(r)
        BY DEF IInv, AccountInv, Account
      <4>3. CASE UNCHANGED <<clients, num_clients>>
        BY <4>1, <4>2, <4>3 DEF Account, Occupied
      <4>4. ASSUME NEW i \in Slots, clients[r][i] = client[w],
                   clients' = [clients EXCEPT ![r][i] = NULL],
                   num_clients' = [num_clients EXCEPT ![r] = @ - 1]
            PROVE  Account(r)'
        <5>1. client[w] # NULL
          BY <2>5, LeaveEffect
        <5>2. Occupied(r)' = Occupied(r) \ {i} /\ i \in Occupied(r)
          BY <1>0, <4>4, <5>1 DEF Occupied
        <5>3. Cardinality(Occupied(r) \ {i}) = Cardinality(Occupied(r)) - 1
          BY <5>2, OccupiedFinite, FS_RemoveElement
        <5>4. num_clients'[r] = num_clients[r] - 1
          BY <1>0, <4>4
        <5> QED
          BY <4>1, <4>2, <5>2, <5>3, <5>4 DEF Account
      <4> QED
        BY <2>5, <3>3, <4>3, <4>4, LeaveEffect
    <3> QED
      BY <3>2, <3>3
  <2>6. CASE LeaveDone(w)
    <3>1. CASE r # room[w]
      BY <1>0, <2>1, <2>6, <3>1, LeaveDoneEffect, AccountKept
    <3>2. CASE r = room[w]
      <4>1. Account(r)
        BY DEF IInv, AccountInv, Account
      <4>2. Occupied(r)' = Occupied(r) /\ num_clients' = num_clients
        BY <2>6, LeaveDoneEffect DEF Occupied
      <4>3. CASE Occupied(r) = {}
        BY <1>0, <2>6, <3>2, <4>1, <4>2, <4>3, LeaveDoneEffect DEF Account
      <4>4. CASE Occupied(r) # {}
        BY <2>6, <3>2, <4>1, <4>2, <4>4, LeaveDoneEffect DEF Account
      <4> QED
        BY <4>3, <4>4
    <3> QED
      BY <3>1, <3>2
  <2> QED
    BY <2>2, <2>3, <2>4, <2>5, <2>6 DEF Changes
<1>2. ASSUME NEW w \in Workers, NEW c \in Clients, Command(w, c), NEW r \in Rooms
      PROVE  Account(r)'
  <2>1. OthersStay(w) /\ UNCHANGED <<clients, num_clients, in_use>> /\ pc[w] = "idle"
    BY <1>2, CommandFrame DEF IInv, roomVars
  <2> QED
    BY <2>1, AccountKept
<1>3. ASSUME UNCHANGED <<roomVars, pc, room>>, NEW r \in Rooms PROVE Account(r)'
  BY <1>3 DEF IInv, AccountInv, Account, Occupied, roomVars
<1>4. ASSUME NEW c \in Clients, Connect(c) \/ ReadsOn(c) \/ GoesAway(c), NEW r \in Rooms
      PROVE  Account(r)'
  BY <1>3, <1>4, PeerFrame
<1>5. ASSUME UNCHANGED vars, NEW r \in Rooms PROVE Account(r)'
  BY <1>3, <1>5 DEF vars, workerVars
<1>6. \A r \in Rooms : Account(r)'
  BY <1>1, <1>2, <1>4, <1>5 DEF Next
<1> QED
  BY <1>6 DEF AccountInv, Account

LEMMA StepIInv == IInv /\ [Next]_vars => IInv'
BY TypeStep, ServesOwnStep, LockStep, AccountStep DEF IInv

-----------------------------------------------------------------------------
\* room_manager.c: every variable keeps to its type; in particular no counter
\* leaves 0 .. MAX_CLIENTS_ROOM and no index its array.
THEOREM TypeCorrect == Spec => []TypeOK
<1>1. IInv => TypeOK
  BY DEF IInv
<1> QED
  BY <1>1, InitIInv, StepIInv, PTL DEF Spec

\* room_manager.c, lines 128-154: whenever a room's lock is free its counter
\* counts its members, and it is in use exactly while it has any.
THEOREM AccountingCorrect == Spec => []RoomAccounting
<1>1. IInv => RoomAccounting
  <2> SUFFICES ASSUME IInv, NEW r \in Rooms, room_lock[r] = NULL
               PROVE  /\ num_clients[r] = Cardinality(Occupied(r))
                      /\ in_use[r] <=> Occupied(r) # {}
    BY DEF RoomAccounting
  <2>1. ASSUME NEW w \in Workers, pc[w] = "leave_broadcast", room[w] = r PROVE FALSE
    BY <2>1 DEF IInv, LockInv, LockedPcs
  <2> QED
    BY <2>1 DEF IInv, AccountInv
<1> QED
  BY <1>1, InitIInv, StepIInv, PTL DEF Spec

\* room_manager.c, lines 168-177: two workers never broadcast in one room at
\* the same time, because each broadcast runs under the room's lock.
THEOREM OneSpeakerCorrect == Spec => []OneSpeaker
<1>1. IInv => OneSpeaker
  BY DEF IInv, LockInv, LockedPcs, OneSpeaker, BroadcastPcs
<1> QED
  BY <1>1, InitIInv, StepIInv, PTL DEF Spec

=============================================================================
