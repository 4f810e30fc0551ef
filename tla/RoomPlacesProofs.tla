------------------------- MODULE RoomPlacesProofs --------------------------
(***************************************************************************)
(* Who is in which room: proofs about the arrays of members, the clients'  *)
(* own state and what the clients have been told, on top of the invariant  *)
(* of RoomManagerProofs.                                                   *)
(***************************************************************************)
EXTENDS RoomManagerProofs

\* The steps at which a client that was in a room has been taken out of its
\* array and still has its old state.
LeftPcs == {"leave_broadcast", "leave_ok_lock", "leave_ok", "cleanup"}

At(c, pcs) == client[WorkerOf[c]] = c /\ pc[WorkerOf[c]] \in pcs

\* The room whose array holds c, by what its worker and its structure say: a
\* set of at most one room.
Here(c) ==
    IF At(c, LeftPcs) THEN {}
    ELSE IF At(c, {"join_broadcast"}) THEN {room[WorkerOf[c]]}
    ELSE IF state[c] = "in_chat_room" THEN {room_index[c]}
    ELSE {}

\* What the steps of a command rely on between the check of the client's state
\* and its last use.
StateInv ==
    \A w \in Workers :
        /\ pc[w] \in {"list", "send_list", "create", "send_full", "join_lock", "join_error",
                      "join_broadcast"} => state[client[w]] = "in_chat_lobby"
        /\ pc[w] \in {"leave_lock", "create_ok"} =>
              state[client[w]] = "in_chat_room" /\ room_index[client[w]] = room[w]
        /\ pc[w] \in {"leave_broadcast", "leave_ok_lock", "leave_ok"} =>
              state[client[w]] = "in_chat_room"

\* The arrays say the same, and no client is in two slots.
PlaceInv ==
    /\ \A c \in Clients, r \in Rooms : r \in Here(c) <=> \E i \in Slots : clients[r][i] = c
    /\ \A r, s \in Rooms : \A i, j \in Slots :
          clients[r][i] # NULL /\ clients[r][i] = clients[s][j] => r = s /\ i = j

\* A client in a room has been told so, or is about to be, under the lock.
ViewInv ==
    \A c \in Clients : \A r \in Here(c) :
        link[c] = "gone" \/ view[c] = r \/ At(c, {"join_broadcast", "create_ok"})

PInv == IInv /\ StateInv /\ PlaceInv

-----------------------------------------------------------------------------
\* What a step of worker w may change of its own client, and of no other.
OnlyItsClient(w) ==
    \A c \in Clients \ {client[w]} :
        /\ state'[c] = state[c]
        /\ room_index'[c] = room_index[c]
        /\ view'[c] = view[c]

LEMMA WorkerClients ==
    ASSUME IInv, NEW w \in Workers, WorkerStep(w)
    PROVE  /\ pc[w] # "idle" /\ client[w] \in Clients /\ WorkerOf[client[w]] = w
           /\ client'[w] \in {client[w], NULL}
           /\ OnlyItsClient(w)
<1>1. pc[w] # "idle" /\ client'[w] \in {client[w], NULL} /\ OnlyItsClient(w)
  <2> USE DEF IInv, TypeOK, clientVars, workerVars, Finish, OnlyItsClient
  <2>1. CASE SendPart(w)
    BY <2>1 DEF SendPart, Targets, BroadcastPcs
  <2>2. CASE SendReply(w)
    BY <2>2 DEF SendReply
  <2>3. CASE BroadcastSend(w)
    BY <2>3 DEF BroadcastSend, BroadcastPcs
  <2>4. CASE Cleanup(w)
    BY <2>4 DEF Cleanup
  <2>5. CASE ListRoom(w)
    BY <2>5 DEF ListRoom
  <2>6. CASE CreateSkip(w)
    BY <2>6 DEF CreateSkip
  <2>7. CASE CreateTake(w)
    BY <2>7 DEF CreateTake, CreateEnter
  <2>8. CASE CreateOk(w)
    BY <2>8 DEF CreateOk, Tell
  <2>9. CASE JoinRefused(w)
    BY <2>9 DEF JoinRefused
  <2>10. CASE JoinError(w)
    BY <2>10 DEF JoinError
  <2>11. CASE JoinEnter(w)
    <3>1. pc[w] = "join_lock" /\ UNCHANGED <<clientVars, view>>
      BY <2>11 DEF JoinEnter
    <3>2. CASE FreeSlots(room[w]) = {}
      BY <2>11, <3>1, <3>2 DEF JoinEnter
    <3>3. CASE FreeSlots(room[w]) # {}
      BY <2>11, <3>1, <3>3 DEF JoinEnter
    <3> QED
      BY <3>2, <3>3
  <2>12. CASE JoinOk(w)
    BY <2>12 DEF JoinOk, Tell
  <2>13. CASE MessageLock(w)
    BY <2>13 DEF MessageLock
  <2>14. CASE MessageDone(w)
    BY <2>14 DEF MessageDone
  <2>15. CASE LeaveLock(w)
    BY <2>15 DEF LeaveLock
  <2>16. CASE LeaveDone(w)
    BY <2>16 DEF LeaveDone
  <2>17. CASE LeaveOkLock(w)
    BY <2>17 DEF LeaveOkLock
  <2>18. CASE LeaveOk(w)
    BY <2>18 DEF LeaveOk, Tell
  <2> QED
    BY <2>1, <2>2, <2>3, <2>4, <2>5, <2>6, <2>7, <2>8, <2>9, <2>10, <2>11, <2>12, <2>13,
       <2>14, <2>15, <2>16, <2>17, <2>18 DEF WorkerStep
<1> QED
  BY <1>1 DEF IInv, ServesOwn

\* Two workers that are not idle serve different clients.
LEMMA DifferentClients ==
    ASSUME IInv, NEW u \in Workers, NEW w \in Workers, u # w,
           pc[u] # "idle", pc[w] # "idle"
    PROVE  client[u] # client[w]
BY DEF IInv, ServesOwn

LEMMA StateWorker ==
    ASSUME IInv, StateInv, NEW w \in Workers, WorkerStep(w)
    PROVE  StateInv'
<1> DEFINE Holds(u) ==
      /\ pc[u] \in {"list", "send_list", "create", "send_full", "join_lock", "join_error",
                    "join_broadcast"} => state[client[u]] = "in_chat_lobby"
      /\ pc[u] \in {"leave_lock", "create_ok"} =>
            state[client[u]] = "in_chat_room" /\ room_index[client[u]] = room[u]
      /\ pc[u] \in {"leave_broadcast", "leave_ok_lock", "leave_ok"} =>
            state[client[u]] = "in_chat_room"
<1>1. ASSUME NEW u \in Workers, u # w PROVE Holds(u)'
  <2>1. pc'[u] = pc[u] /\ client'[u] = client[u] /\ room'[u] = room[u]
    BY <1>1, WorkerFrame DEF OthersStay, IInv
  <2>2. pc[w] # "idle" /\ OnlyItsClient(w)
    BY WorkerClients
  <2>3. CASE pc[u] = "idle"
    BY <2>1, <2>3
  <2>4. CASE pc[u] # "idle"
    <3>1. client[u] \in Clients \ {client[w]}
      BY <1>1, <2>2, <2>4, DifferentClients DEF IInv, ServesOwn
    <3> QED
      BY <2>1, <2>2, <3>1 DEF StateInv, OnlyItsClient
  <2> QED
    BY <2>3, <2>4
<1>2. Holds(w)'
  <2>0. Holds(w) /\ client[w] \in Clients
    BY WorkerClients DEF StateInv
  <2> USE DEF IInv, TypeOK, clientVars, workerVars, Goto
  <2>1. CASE SendPart(w)
    BY <2>0, <2>1 DEF SendPart
  <2>2. CASE SendReply(w)
    BY <2>2, FinishStays DEF SendReply
  <2>3. CASE BroadcastSend(w)
    BY <2>0, <2>3 DEF BroadcastSend
  <2>4. CASE Cleanup(w)
    BY <2>4, FinishStays DEF Cleanup
  <2>5. CASE ListRoom(w)
    <3>1. /\ NextRoom(w, "send_list") /\ UNCHANGED <<client, state>> /\ pc[w] = "list"
      BY <2>5 DEF ListRoom
    <3>2. pc'[w] \in {"list", "send_list"}
      BY <3>1, NextRoomStays
    <3> QED
      BY <2>0, <3>1, <3>2
  <2>6. CASE CreateSkip(w)
    <3>1. /\ NextRoom(w, "send_full") /\ UNCHANGED <<client, state>> /\ pc[w] = "create"
      BY <2>6 DEF CreateSkip
    <3>2. pc'[w] \in {"create", "send_full"}
      BY <3>1, NextRoomStays
    <3> QED
      BY <2>0, <3>1, <3>2
  <2>7. CASE CreateTake(w)
    BY <2>0, <2>7 DEF CreateTake, CreateEnter
  <2>8. CASE CreateOk(w)
    BY <2>8, FinishStays DEF CreateOk
  <2>9. CASE JoinRefused(w)
    BY <2>0, <2>9 DEF JoinRefused
  <2>10. CASE JoinError(w)
    BY <2>10, FinishStays DEF JoinError
  <2>11. CASE JoinEnter(w)
    <3>1. pc[w] = "join_lock" /\ state' = state /\ pc'[w] = "join_broadcast"
      BY <2>11, JoinEffect DEF JoinEnter
    <3> QED
      BY <2>0, <2>11, <3>1, WorkerClients DEF ServesOwn, JoinEnter, Finish
  <2>12. CASE JoinOk(w)
    BY <2>12, FinishStays DEF JoinOk
  <2>13. CASE MessageLock(w)
    BY <2>13 DEF MessageLock
  <2>14. CASE MessageDone(w)
    BY <2>14, FinishStays DEF MessageDone
  <2>15. CASE LeaveLock(w)
    BY <2>0, <2>15 DEF LeaveLock
  <2>16. CASE LeaveDone(w)
    BY <2>0, <2>16 DEF LeaveDone
  <2>17. CASE LeaveOkLock(w)
    BY <2>0, <2>17 DEF LeaveOkLock
  <2>18. CASE LeaveOk(w)
    BY <2>18, FinishStays DEF LeaveOk
  <2> QED
    BY <2>1, <2>2, <2>3, <2>4, <2>5, <2>6, <2>7, <2>8, <2>9, <2>10, <2>11, <2>12, <2>13,
       <2>14, <2>15, <2>16, <2>17, <2>18 DEF WorkerStep
<1> QED
  BY <1>1, <1>2 DEF StateInv

\* A command of c changes nobody's place, and only c's structure.
LEMMA CommandClients ==
    ASSUME IInv, NEW w \in Workers, NEW c \in Clients, Command(w, c)
    PROVE  /\ \A d \in Clients : /\ room_index'[d] = room_index[d]
                                 /\ view'[d] = view[d] /\ link'[d] = link[d]
           /\ \A d \in Clients \ {c} : state'[d] = state[d]
           /\ state[c] # "free"
           /\ \/ state'[c] = state[c]
              \/ state[c] = "awaiting_username" /\ state'[c] = "in_chat_lobby"
           /\ pc'[w] \in {"send_error", "message_lock", "list", "create", "join_lock",
                          "leave_lock", "cleanup"}
           /\ pc'[w] = "cleanup" => state[c] # "in_chat_room" /\ state'[c] = state[c]
           /\ pc'[w] = "leave_lock" => /\ state'[c] = "in_chat_room"
                                       /\ room'[w] = room_index[c]
           /\ pc'[w] \in {"list", "create", "join_lock"} => state'[c] = "in_chat_lobby"
<1> USE DEF IInv, TypeOK, Serve, Goto, clientVars, linkVars
<1>1. CASE InvalidCommand(w, c)
  BY <1>1 DEF InvalidCommand
<1>2. CASE SubmitUsername(w, c)
  BY <1>2 DEF SubmitUsername
<1>3. CASE RequestList(w, c)
  BY <1>3 DEF RequestList
<1>4. CASE RequestCreate(w, c)
  BY <1>4 DEF RequestCreate
<1>5. CASE RoomMessage(w, c)
  BY <1>5 DEF RoomMessage
<1>6. CASE RequestLeave(w, c)
  BY <1>6 DEF RequestLeave
<1>7. CASE Disconnect(w, c)
  BY <1>7 DEF Disconnect, LeavesRoom
<1>8. CASE \E r \in Rooms : RequestJoin(w, c, r)
  BY <1>8 DEF RequestJoin
<1> QED
  BY <1>1, <1>2, <1>3, <1>4, <1>5, <1>6, <1>7, <1>8 DEF Command

LEMMA StateCommand ==
    ASSUME IInv, StateInv, NEW w \in Workers, NEW c \in Clients, Command(w, c)
    PROVE  StateInv'
<1>1. OthersStay(w) /\ client'[w] = c /\ WorkerOf[c] = w
  BY CommandFrame DEF IInv
<1>2. ASSUME NEW u \in Workers, u # w, pc[u] # "idle"
      PROVE  /\ pc'[u] = pc[u] /\ client'[u] = client[u] /\ room'[u] = room[u]
             /\ state'[client[u]] = state[client[u]]
             /\ room_index'[client[u]] = room_index[client[u]]
  <2>1. client[u] \in Clients \ {c}
    BY <1>1, <1>2 DEF IInv, ServesOwn
  <2> QED
    BY <1>1, <1>2, <2>1, CommandClients DEF OthersStay
<1>3. ASSUME NEW u \in Workers, u # w, pc[u] = "idle" PROVE pc'[u] = "idle"
  BY <1>1, <1>3 DEF OthersStay
<1>4. /\ pc'[w] \in {"send_error", "message_lock", "list", "create", "join_lock",
                     "leave_lock", "cleanup"}
      /\ pc'[w] = "leave_lock" => state'[c] = "in_chat_room" /\ room'[w] = room_index'[c]
      /\ pc'[w] \in {"list", "create", "join_lock"} => state'[c] = "in_chat_lobby"
  BY CommandClients
<1> QED
  BY <1>1, <1>2, <1>3, <1>4 DEF StateInv

LEMMA StateStep ==
    ASSUME IInv, StateInv, [Next]_vars
    PROVE  StateInv'
<1>1. ASSUME NEW w \in Workers, WorkerStep(w) PROVE StateInv'
  BY <1>1, StateWorker
<1>2. ASSUME NEW w \in Workers, NEW c \in Clients, Command(w, c) PROVE StateInv'
  BY <1>2, StateCommand
<1>3. ASSUME NEW c \in Clients, Connect(c) PROVE StateInv'
  <2>1. /\ UNCHANGED <<pc, client, room>> /\ pc[WorkerOf[c]] = "idle"
        /\ \A d \in Clients \ {c} : state'[d] = state[d] /\ room_index'[d] = room_index[d]
    BY <1>3 DEF Connect, workerVars, IInv, TypeOK
  <2>2. ASSUME NEW u \in Workers, pc[u] # "idle" PROVE client[u] \in Clients \ {c}
    BY <2>1, <2>2 DEF IInv, ServesOwn
  <2>3. ASSUME NEW u \in Workers, pc[u] # "idle"
        PROVE  /\ state'[client[u]] = state[client[u]]
               /\ room_index'[client[u]] = room_index[client[u]]
    BY <2>1, <2>2, <2>3
  <2> QED
    BY <2>1, <2>3 DEF StateInv
<1>4. CASE UNCHANGED <<pc, client, room, state, room_index>>
  BY <1>4 DEF StateInv
<1>5. ASSUME NEW c \in Clients, ReadsOn(c) \/ GoesAway(c) PROVE StateInv'
  BY <1>4, <1>5 DEF ReadsOn, GoesAway, workerVars, clientVars
<1>6. CASE UNCHANGED vars
  BY <1>4, <1>6 DEF vars, workerVars, clientVars
<1> QED
  BY <1>1, <1>2, <1>3, <1>5, <1>6 DEF Next

-----------------------------------------------------------------------------
\* Here, for the clients a step is not about, and for the one it is about.
LEMMA HereOther ==
    ASSUME NEW w \in Workers, OthersStay(w), NEW c \in Clients,
           state'[c] = state[c], room_index'[c] = room_index[c],
           WorkerOf[c] = w => client[w] # c /\ client'[w] # c
    PROVE  /\ Here(c)' = Here(c)
           /\ At(c, {"join_broadcast", "create_ok"})' = At(c, {"join_broadcast", "create_ok"})
<1>1. CASE WorkerOf[c] = w
  BY <1>1 DEF Here, At
<1>2. CASE WorkerOf[c] # w
  <2>1. WorkerOf[c] \in Workers \ {w}
    BY <1>2, WorkerOfAssumption
  <2> QED
    BY <2>1 DEF Here, At, OthersStay
<1> QED
  BY <1>1, <1>2

LEMMA HereCommand ==
    ASSUME IInv, NEW w \in Workers, NEW c \in Clients, Command(w, c), NEW d \in Clients
    PROVE  Here(d)' = Here(d)
<1>1. OthersStay(w) /\ client'[w] = c /\ WorkerOf[c] = w /\ pc[w] = "idle"
  BY CommandFrame DEF IInv
<1>2. CASE WorkerOf[d] # w
  <2>1. state'[d] = state[d] /\ room_index'[d] = room_index[d]
    BY <1>1, <1>2, CommandClients
  <2> QED
    BY <1>1, <1>2, <2>1, HereOther
<1>3. CASE WorkerOf[d] = w
  <2>1. Here(d) = IF state[d] = "in_chat_room" THEN {room_index[d]} ELSE {}
    BY <1>1, <1>3 DEF Here, At, LeftPcs
  <2>2. CASE d # c
    <3>1. ~ At(d, LeftPcs)' /\ ~ At(d, {"join_broadcast"})'
      BY <1>1, <1>3, <2>2 DEF At
    <3>2. state'[d] = state[d] /\ room_index'[d] = room_index[d]
      BY <2>2, CommandClients
    <3> QED
      BY <2>1, <3>1, <3>2 DEF Here
  <2>3. CASE d = c
    <3>1. pc'[w] \in {"send_error", "message_lock", "list", "create", "join_lock",
                      "leave_lock", "cleanup"}
      BY CommandClients
    <3>2. ~ At(d, {"join_broadcast"})'
      BY <1>3, <3>1 DEF At
    <3>3. CASE pc'[w] = "cleanup"
      <4>1. state[c] # "in_chat_room" /\ At(d, LeftPcs)'
        BY <1>1, <2>3, <3>3, CommandClients DEF At, LeftPcs
      <4> QED
        BY <2>1, <2>3, <4>1 DEF Here
    <3>4. CASE pc'[w] # "cleanup"
      <4>1. ~ At(d, LeftPcs)'
        BY <1>3, <3>1, <3>4 DEF At, LeftPcs
      <4>2. /\ room_index'[c] = room_index[c]
            /\ state'[c] = "in_chat_room" <=> state[c] = "in_chat_room"
        BY CommandClients
      <4> QED
        BY <2>1, <2>3, <3>2, <4>1, <4>2 DEF Here
    <3> QED
      BY <3>3, <3>4
  <2> QED
    BY <2>2, <2>3
<1> QED
  BY <1>2, <1>3

LEMMA HereConnect ==
    ASSUME IInv, NEW c \in Clients, Connect(c), NEW d \in Clients
    PROVE  Here(d)' = Here(d)
<1>1. UNCHANGED <<pc, client, room>> /\ pc[WorkerOf[c]] = "idle"
  BY DEF Connect, workerVars
<1>2. CASE d # c
  <2>1. state'[d] = state[d] /\ room_index'[d] = room_index[d]
    BY <1>2 DEF Connect, IInv, TypeOK
  <2> QED
    BY <1>1, <2>1 DEF Here, At
<1>3. CASE d = c
  <2>1. state[c] = "free" /\ state'[c] = "awaiting_username"
    BY DEF Connect, IInv, TypeOK
  <2> QED
    BY <1>1, <1>3, <2>1 DEF Here, At, LeftPcs
<1> QED
  BY <1>2, <1>3

\* Here for the client of a worker that is not idle.
LEMMA HereOwn ==
    ASSUME NEW w \in Workers, NEW c \in Clients, WorkerOf[c] = w, client[w] = c
    PROVE  /\ pc[w] \in LeftPcs => Here(c) = {}
           /\ pc[w] = "join_broadcast" => Here(c) = {room[w]}
           /\ pc[w] \notin LeftPcs \cup {"join_broadcast"} =>
                 Here(c) = IF state[c] = "in_chat_room" THEN {room_index[c]} ELSE {}
BY DEF Here, At, LeftPcs

LEMMA HereOwnNext ==
    ASSUME NEW w \in Workers, NEW c \in Clients, WorkerOf[c] = w,
           client'[w] = c \/ pc'[w] = "idle"
    PROVE  /\ pc'[w] \in LeftPcs => Here(c)' = {}
           /\ pc'[w] = "join_broadcast" => Here(c)' = {room'[w]}
           /\ pc'[w] \notin LeftPcs \cup {"join_broadcast"} =>
                 Here(c)' = IF state'[c] = "in_chat_room" THEN {room_index'[c]} ELSE {}
BY DEF Here, At, LeftPcs

-----------------------------------------------------------------------------
\* Places. A step that neither takes nor frees a slot.
LEMMA OtherHere ==
    ASSUME IInv, NEW w \in Workers, WorkerStep(w), NEW c \in Clients \ {client[w]}
    PROVE  Here(c)' = Here(c)
<1>1. OthersStay(w) /\ OnlyItsClient(w) /\ client'[w] \in {client[w], NULL}
  BY WorkerFrame, WorkerClients DEF IInv
<1> QED
  BY <1>1, HereOther, NullAssumption DEF OnlyItsClient

LEMMA QuietHere ==
    ASSUME IInv, StateInv, NEW w \in Workers, WorkerStep(w),
           ~ CreateTake(w), ~ JoinEnter(w), ~ LeaveLock(w), NEW c, c = client[w]
    PROVE  clients' = clients /\ Here(c)' = Here(c)
<1>1. CASE LeaveDone(w)
  <2>1. c \in Clients /\ WorkerOf[c] = w /\ clients' = clients
    BY <1>1, WorkerClients, LeaveDoneEffect
  <2>2. pc[w] \in LeftPcs /\ pc'[w] \in LeftPcs /\ client'[w] = c
    BY <1>1 DEF LeaveDone, Goto, LeftPcs, IInv, TypeOK
  <2> QED
    BY <2>1, <2>2, HereOwn, HereOwnNext
<1>2. CASE ~ LeaveDone(w)
  <2>0. /\ c \in Clients /\ WorkerOf[c] = w /\ clients' = clients
        /\ pc \in [Workers -> Pcs] /\ client \in [Workers -> Clients \cup {NULL}]
        /\ room \in [Workers -> Rooms]
        /\ state \in [Clients -> States] /\ room_index \in [Clients -> Rooms]
    BY <1>2, WorkerClients, QuietFrame DEF IInv, TypeOK, Changes, roomVars
  <2>1. CASE UNCHANGED <<pc, client, room, state, room_index>>
    <3>1. client'[w] = c /\ pc'[w] = pc[w] /\ room'[w] = room[w]
          /\ state'[c] = state[c] /\ room_index'[c] = room_index[c]
      BY <2>1
    <3> QED
      BY <2>0, <3>1 DEF Here, At
  <2>2. CASE /\ pc[w] \notin LeftPcs \cup {"join_broadcast"}
             /\ pc'[w] \notin LeftPcs \cup {"join_broadcast"}
             /\ client'[w] = c \/ pc'[w] = "idle"
             /\ UNCHANGED <<state, room_index>>
    BY <2>0, <2>2, HereOwn, HereOwnNext
  <2>3. CASE /\ pc[w] \in LeftPcs
             /\ \/ pc'[w] \in LeftPcs /\ client'[w] = c
                \/ pc'[w] = "idle" /\ state'[c] # "in_chat_room"
    <3>1. Here(c) = {}
      BY <2>0, <2>3, HereOwn
    <3>2. Here(c)' = {}
      <4>1. CASE pc'[w] \in LeftPcs /\ client'[w] = c
        BY <2>0, <4>1, HereOwnNext
      <4>2. CASE pc'[w] = "idle" /\ state'[c] # "in_chat_room"
        BY <2>0, <4>2, HereOwnNext DEF LeftPcs
      <4> QED
        BY <2>3, <4>1, <4>2
    <3> QED
      BY <2>0, <3>1, <3>2
  <2> USE DEF clientVars, workerVars, Goto, LeftPcs
  <2>4. CASE SendPart(w) \/ BroadcastSend(w)
    BY <2>1, <2>4 DEF SendPart, BroadcastSend
  <2>5. CASE SendReply(w) \/ CreateOk(w) \/ JoinError(w) \/ MessageDone(w)
    <3>1. /\ pc[w] \in {"send_error", "send_list", "send_full", "create_ok", "join_error",
                        "message_broadcast"}
          /\ Finish(w) /\ UNCHANGED <<state, room_index>>
      BY <2>5 DEF SendReply, CreateOk, JoinError, MessageDone
    <3>2. pc'[w] = "idle"
      BY <2>0, <3>1 DEF Finish
    <3> QED
      BY <2>2, <3>1, <3>2
  <2>6. CASE Cleanup(w) \/ LeaveOk(w)
    <3>1. pc[w] \in LeftPcs /\ Finish(w)
      BY <2>6 DEF Cleanup, LeaveOk
    <3>2. pc'[w] = "idle"
      BY <2>0, <3>1 DEF Finish
    <3>3. state'[c] # "in_chat_room"
      BY <2>0, <2>6 DEF Cleanup, LeaveOk
    <3> QED
      BY <2>3, <3>1, <3>2, <3>3
  <2>7. CASE ListRoom(w)
    <3>1. NextRoom(w, "send_list") /\ UNCHANGED <<client, state, room_index>> /\ pc[w] = "list"
      BY <2>7 DEF ListRoom
    <3>2. pc'[w] \in {"list", "send_list"}
      BY <2>0, <3>1, NextRoomStays DEF IInv
    <3> QED
      BY <2>2, <3>1, <3>2
  <2>8. CASE CreateSkip(w)
    <3>1. NextRoom(w, "send_full") /\ UNCHANGED <<client, state, room_index>> /\ pc[w] = "create"
      BY <2>8 DEF CreateSkip
    <3>2. pc'[w] \in {"create", "send_full"}
      BY <2>0, <3>1, NextRoomStays DEF IInv
    <3> QED
      BY <2>2, <3>1, <3>2
  <2>9. CASE JoinRefused(w) \/ MessageLock(w)
    BY <2>0, <2>2, <2>9 DEF JoinRefused, MessageLock
  <2>10. CASE LeaveOkLock(w)
    BY <2>0, <2>3, <2>10 DEF LeaveOkLock
  <2>11. CASE JoinOk(w)
    <3>1. /\ pc[w] = "join_broadcast" /\ Finish(w)
          /\ state' = [state EXCEPT ![client[w]] = "in_chat_room"]
          /\ room_index' = [room_index EXCEPT ![client[w]] = room[w]]
      BY <2>11 DEF JoinOk
    <3>2. pc'[w] = "idle"
      BY <2>0, <3>1 DEF Finish
    <3>3. state'[c] = "in_chat_room" /\ room_index'[c] = room[w]
      BY <2>0, <3>1
    <3>4. Here(c) = {room[w]}
      BY <2>0, <3>1, HereOwn
    <3>5. Here(c)' = {room_index'[c]}
      BY <2>0, <3>2, <3>3, HereOwnNext
    <3> QED
      BY <2>0, <3>3, <3>4, <3>5
  <2> QED
    BY <1>2, <2>4, <2>5, <2>6, <2>7, <2>8, <2>9, <2>10, <2>11 DEF WorkerStep
<1> QED
  BY <1>1, <1>2

LEMMA PlacesKept ==
    ASSUME PlaceInv, clients' = clients, \A c \in Clients : Here(c)' = Here(c)
    PROVE  PlaceInv'
BY DEF PlaceInv

\* The first member and a later one; the one that leaves.
LEMMA PlaceTaken ==
    ASSUME PlaceInv, TypeOK, NEW c \in Clients, NEW r \in Rooms, NEW i \in Slots,
           clients[r][i] = NULL, clients' = [clients EXCEPT ![r][i] = c],
           Here(c) = {}, Here(c)' = {r}, \A d \in Clients \ {c} : Here(d)' = Here(d)
    PROVE  PlaceInv'
<1>1. \A s \in Rooms, j \in Slots :
         clients'[s][j] = IF s = r /\ j = i THEN c ELSE clients[s][j]
  BY DEF TypeOK
<1>2. \A s \in Rooms, j \in Slots : clients[s][j] # c
  BY DEF PlaceInv
<1>3. ASSUME NEW d \in Clients, NEW s \in Rooms
      PROVE  s \in Here(d)' <=> \E j \in Slots : clients'[s][j] = d
  <2>1. CASE d = c
    BY <1>1, <1>2, <2>1
  <2>2. CASE d # c
    <3>1. s \in Here(d)' <=> \E j \in Slots : clients[s][j] = d
      BY <2>2 DEF PlaceInv
    <3>2. \A j \in Slots : clients'[s][j] = d <=> clients[s][j] = d
      BY <1>1, <2>2, NullAssumption
    <3> QED
      BY <3>1, <3>2
  <2> QED
    BY <2>1, <2>2
<1>4. ASSUME NEW s \in Rooms, NEW t \in Rooms, NEW j \in Slots, NEW k \in Slots,
             clients'[s][j] # NULL, clients'[s][j] = clients'[t][k]
      PROVE  s = t /\ j = k
  BY <1>1, <1>2, <1>4 DEF PlaceInv
<1> QED
  BY <1>3, <1>4 DEF PlaceInv

LEMMA PlaceFreed ==
    ASSUME PlaceInv, TypeOK, NEW c \in Clients, NEW r \in Rooms, NEW i \in Slots,
           clients[r][i] = c, clients' = [clients EXCEPT ![r][i] = NULL],
           Here(c)' = {}, \A d \in Clients \ {c} : Here(d)' = Here(d)
    PROVE  PlaceInv'
<1>1. \A s \in Rooms, j \in Slots :
         clients'[s][j] = IF s = r /\ j = i THEN NULL ELSE clients[s][j]
  BY DEF TypeOK
<1>2. \A s \in Rooms, j \in Slots : clients'[s][j] # c
  BY <1>1, NullAssumption DEF PlaceInv
<1>3. ASSUME NEW d \in Clients, NEW s \in Rooms
      PROVE  s \in Here(d)' <=> \E j \in Slots : clients'[s][j] = d
  <2>1. CASE d = c
    BY <1>2, <2>1
  <2>2. CASE d # c
    <3>1. s \in Here(d)' <=> \E j \in Slots : clients[s][j] = d
      BY <2>2 DEF PlaceInv
    <3>2. \A j \in Slots : clients'[s][j] = d <=> clients[s][j] = d
      BY <1>1, <2>2, NullAssumption
    <3> QED
      BY <3>1, <3>2
  <2> QED
    BY <2>1, <2>2
<1>4. ASSUME NEW s \in Rooms, NEW t \in Rooms, NEW j \in Slots, NEW k \in Slots,
             clients'[s][j] # NULL, clients'[s][j] = clients'[t][k]
      PROVE  s = t /\ j = k
  BY <1>1, <1>4 DEF PlaceInv
<1> QED
  BY <1>3, <1>4 DEF PlaceInv

\* What the three steps that change the arrays do to the place of their client.
LEMMA CreateHere ==
    ASSUME IInv, StateInv, NEW w \in Workers, CreateTake(w), NEW c, c = client[w]
    PROVE  Here(c) = {} /\ Here(c)' = {room[w]}
<1>1. c \in Clients /\ WorkerOf[c] = w /\ pc[w] = "create"
  BY DEF CreateTake, CreateEnter, IInv, ServesOwn
<1>2. /\ pc'[w] = "create_ok" /\ client'[w] = c
      /\ state'[c] = "in_chat_room" /\ room_index'[c] = room[w]
  BY <1>1 DEF CreateTake, CreateEnter, Goto, workerVars, IInv, TypeOK
<1>3. state[c] = "in_chat_lobby"
  BY <1>1 DEF StateInv
<1> QED
  BY <1>1, <1>2, <1>3, HereOwn, HereOwnNext DEF LeftPcs

LEMMA JoinHere ==
    ASSUME IInv, StateInv, NEW w \in Workers, JoinEnter(w), NEW c, c = client[w]
    PROVE  Here(c) = {} /\ Here(c)' = {room[w]}
<1>1. c \in Clients /\ WorkerOf[c] = w /\ pc[w] = "join_lock" /\ pc'[w] = "join_broadcast"
  BY JoinEffect DEF JoinEnter, IInv, ServesOwn
<1>2. client'[w] = c /\ room'[w] = room[w]
  <2>1. WorkerStep(w)
    BY DEF WorkerStep
  <2>2. client'[w] = c
    <3>1. Serves(w)
      BY <2>1, WorkerFrame DEF IInv
    <3> QED
      BY <1>1, <2>1, <3>1, WorkerClients, NullAssumption DEF Serves
  <2>3. Takes(w) \/ Releases(w) \/ Keeps(w)
    BY <2>1, WorkerFrame DEF IInv
  <2>4. pc[w] \notin LockedPcs /\ pc'[w] \in LockedPcs
    BY <1>1 DEF LockedPcs
  <2> QED
    BY <2>2, <2>3, <2>4 DEF Takes, Releases, Keeps
<1>3. state[c] = "in_chat_lobby"
  BY <1>1 DEF StateInv
<1> QED
  BY <1>1, <1>2, <1>3, HereOwn, HereOwnNext DEF LeftPcs

LEMMA LeaveHere ==
    ASSUME IInv, StateInv, NEW w \in Workers, LeaveLock(w), NEW c, c = client[w]
    PROVE  Here(c) = {room[w]} /\ Here(c)' = {}
<1>1. c \in Clients /\ WorkerOf[c] = w /\ pc[w] = "leave_lock"
  BY DEF LeaveLock, IInv, ServesOwn
<1>2. pc'[w] = "leave_broadcast" /\ client'[w] = c
  BY <1>1 DEF LeaveLock, Goto, workerVars, IInv, TypeOK
<1>3. state[c] = "in_chat_room" /\ room_index[c] = room[w]
  BY <1>1 DEF StateInv
<1> QED
  BY <1>1, <1>2, <1>3, HereOwn, HereOwnNext DEF LeftPcs

LEMMA PlaceStep ==
    ASSUME PInv, [Next]_vars
    PROVE  PlaceInv'
<1>0. IInv /\ StateInv /\ PlaceInv /\ TypeOK
  BY DEF PInv, IInv
<1>1. ASSUME NEW w \in Workers, WorkerStep(w) PROVE PlaceInv'
  <2> DEFINE c == client[w]
  <2>1. c \in Clients /\ \A d \in Clients \ {c} : Here(d)' = Here(d)
    BY <1>0, <1>1, WorkerClients, OtherHere
  <2>2. CASE CreateTake(w)
    <3>1. /\ room[w] \in Rooms /\ 0 \in Slots /\ Occupied(room[w]) = {}
          /\ clients' = [clients EXCEPT ![room[w]][0] = c]
      BY <1>0, <2>2, CreateEffect
    <3>2. clients[room[w]][0] = NULL
      BY <3>1 DEF Occupied
    <3>3. \A d : d = c => Here(d) = {} /\ Here(d)' = {room[w]}
      BY <1>0, <2>2, CreateHere
    <3> QED
      BY <1>0, <2>1, <3>1, <3>2, <3>3, PlaceTaken
  <2>3. CASE JoinEnter(w)
    <3>1. room[w] \in Rooms
      BY <1>0, <2>3, JoinEffect
    <3>2. PICK i \in FreeSlots(room[w]) : clients' = [clients EXCEPT ![room[w]][i] = c]
      BY <1>0, <2>3, JoinEffect
    <3>3. i \in Slots /\ clients[room[w]][i] = NULL
      BY <3>2 DEF FreeSlots
    <3>4. \A d : d = c => Here(d) = {} /\ Here(d)' = {room[w]}
      BY <1>0, <2>3, JoinHere
    <3> QED
      BY <1>0, <2>1, <3>1, <3>2, <3>3, <3>4, PlaceTaken
  <2>4. CASE LeaveLock(w)
    <3>1. room[w] \in Rooms
      BY <1>0, <2>4, LeaveEffect
    <3>2. \A d : d = c => Here(d) = {room[w]} /\ Here(d)' = {}
      BY <1>0, <2>4, LeaveHere
    <3>3. \E i \in Slots : clients[room[w]][i] = c
      BY <1>0, <2>1, <3>1, <3>2 DEF PlaceInv
    <3>4. PICK i \in Slots : /\ clients[room[w]][i] = c
                             /\ clients' = [clients EXCEPT ![room[w]][i] = NULL]
      BY <1>0, <2>4, <3>3, LeaveEffect
    <3> QED
      BY <1>0, <2>1, <3>1, <3>2, <3>4, PlaceFreed
  <2>5. CASE ~ CreateTake(w) /\ ~ JoinEnter(w) /\ ~ LeaveLock(w)
    <3>1. \A d : d = c => clients' = clients /\ Here(d)' = Here(d)
      BY <1>0, <1>1, <2>5, QuietHere
    <3> QED
      BY <1>0, <2>1, <3>1, PlacesKept
  <2> QED
    BY <2>2, <2>3, <2>4, <2>5
<1>2. ASSUME NEW w \in Workers, NEW c \in Clients, Command(w, c) PROVE PlaceInv'
  BY <1>0, <1>2, CommandFrame, HereCommand, PlacesKept DEF roomVars
<1>3. ASSUME NEW c \in Clients, Connect(c) PROVE PlaceInv'
  BY <1>0, <1>3, PeerFrame, HereConnect, PlacesKept DEF roomVars
<1>4. CASE UNCHANGED <<clients, pc, client, room, state, room_index>>
  <2>1. \A c \in Clients : Here(c)' = Here(c)
    BY <1>4 DEF Here, At
  <2> QED
    BY <1>0, <1>4, <2>1, PlacesKept
<1>5. ASSUME NEW c \in Clients, ReadsOn(c) \/ GoesAway(c) PROVE PlaceInv'
  BY <1>4, <1>5 DEF ReadsOn, GoesAway, roomVars, workerVars, clientVars
<1>6. CASE UNCHANGED vars
  BY <1>4, <1>6 DEF vars, roomVars, workerVars, clientVars
<1> QED
  BY <1>1, <1>2, <1>3, <1>5, <1>6 DEF Next

LEMMA InitPInv == Init => PInv
<1> SUFFICES ASSUME Init PROVE PInv
  OBVIOUS
<1>1. ASSUME NEW c \in Clients PROVE Here(c) = {}
  <2>1. client[WorkerOf[c]] # c /\ state[c] = "free"
    BY WorkerOfAssumption, NullAssumption DEF Init
  <2> QED
    BY <2>1 DEF Here, At
<1>2. PlaceInv
  BY <1>1, NullAssumption DEF Init, PlaceInv
<1>3. StateInv
  BY DEF Init, StateInv
<1> QED
  BY <1>2, <1>3, InitIInv DEF PInv

LEMMA StepPInv == PInv /\ [Next]_vars => PInv'
BY StepIInv, StateStep, PlaceStep DEF PInv

\* client_state_manager.c and room_manager.c: a client that is not being
\* served is a member of exactly the room its structure names, or of none.
THEOREM MembershipCorrect == Spec => []MembershipAgrees
<1>1. PInv => MembershipAgrees
  <2> SUFFICES ASSUME PInv, NEW c \in Clients
               PROVE  /\ Cardinality(PlacesOf(c)) <= 1
                      /\ ~ Served(c) => IF state[c] = "in_chat_room"
                                        THEN \E p \in PlacesOf(c) : p[1] = room_index[c]
                                        ELSE PlacesOf(c) = {}
    BY DEF MembershipAgrees
  <2>1. \A p, q \in PlacesOf(c) : p = q
    BY NullAssumption DEF PInv, PlaceInv, PlacesOf
  <2>2. Cardinality(PlacesOf(c)) <= 1
    <3>1. CASE PlacesOf(c) = {}
      BY <3>1, FS_EmptySet
    <3>2. CASE PlacesOf(c) # {}
      <4>1. PICK p \in PlacesOf(c) : PlacesOf(c) = {p}
        BY <2>1, <3>2
      <4>2. Cardinality({p}) = 1
        BY FS_Singleton
      <4> QED
        BY <4>1, <4>2
    <3> QED
      BY <3>1, <3>2
  <2>3. ASSUME ~ Served(c)
        PROVE  Here(c) = IF state[c] = "in_chat_room" THEN {room_index[c]} ELSE {}
    BY <2>3, WorkerOfAssumption DEF Served, Here, At
  <2>4. room_index[c] \in Rooms
    BY DEF PInv, IInv, TypeOK
  <2>5. CASE Served(c)
    BY <2>2, <2>5
  <2>6. CASE ~ Served(c) /\ state[c] = "in_chat_room"
    <3>1. room_index[c] \in Here(c)
      BY <2>3, <2>6
    <3>2. PICK i \in Slots : clients[room_index[c]][i] = c
      BY <2>4, <3>1 DEF PInv, PlaceInv
    <3>3. <<room_index[c], i>> \in PlacesOf(c)
      BY <2>4, <3>2 DEF PlacesOf
    <3> QED
      BY <2>2, <2>6, <3>3
  <2>7. CASE ~ Served(c) /\ state[c] # "in_chat_room"
    <3>1. Here(c) = {}
      BY <2>3, <2>7
    <3>2. PlacesOf(c) = {}
      BY <3>1 DEF PInv, PlaceInv, PlacesOf
    <3> QED
      BY <2>2, <2>7, <3>2
  <2> QED
    BY <2>5, <2>6, <2>7
<1> QED
  BY <1>1, InitPInv, StepPInv, PTL DEF Spec

-----------------------------------------------------------------------------
\* Sends. Where the worker's own client is while it is sent something, and
\* where the others are whom it broadcasts to.
LEMMA OwnPlace ==
    ASSUME PInv, NEW w \in Workers, NEW c, c = client[w]
    PROVE  /\ pc[w] \in {"join_broadcast", "create_ok"} => Here(c) = {room[w]}
           /\ pc[w] \in {"send_list", "send_full", "join_error", "leave_ok"} => Here(c) = {}
<1>1. CASE pc[w] = "idle"
  BY <1>1
<1>2. CASE pc[w] # "idle"
  <2>1. c \in Clients /\ WorkerOf[c] = w
    BY <1>2 DEF PInv, IInv, ServesOwn
  <2>2. /\ pc[w] \in {"send_list", "send_full", "join_error"} => state[c] = "in_chat_lobby"
        /\ pc[w] = "create_ok" => state[c] = "in_chat_room" /\ room_index[c] = room[w]
    BY DEF PInv, StateInv
  <2> QED
    BY <2>1, <2>2, HereOwn DEF LeftPcs
<1> QED
  BY <1>1, <1>2

LEMMA TargetCases ==
    ASSUME PInv, NEW w \in Workers, NEW c \in Targets(w)
    PROVE  \/ pc[w] = "send_error"
           \/ /\ pc[w] \in BroadcastPcs
              /\ c \in Clients /\ c # client[w] /\ room[w] \in Here(c)
           \/ /\ pc[w] \in {"join_broadcast", "create_ok", "send_list", "send_full",
                            "join_error", "leave_ok"}
              /\ c = client[w]
<1>1. room[w] \in Rooms /\ clients \in [Rooms -> [Slots -> Clients \cup {NULL}]]
  BY DEF PInv, IInv, TypeOK
<1>2. CASE pc[w] \in BroadcastPcs /\ Remaining(w) # {}
  <2>0. c \in {clients[room[w]][i] : i \in {j \in Remaining(w) : IsFirst(j, Remaining(w))}}
    <3>1. pc[w] \notin {"send_error", "send_list", "send_full", "create_ok", "join_error",
                       "leave_ok"}
      BY <1>2 DEF BroadcastPcs
    <3> QED
      BY <1>2, <3>1, Zenon DEF Targets
  <2>1. PICK i \in Remaining(w) : c = clients[room[w]][i]
    BY <2>0
  <2>2. i \in Slots /\ c # client[w] /\ c \in Clients
    BY <1>1, <2>1 DEF Remaining
  <2> QED
    BY <1>1, <1>2, <2>1, <2>2 DEF PInv, PlaceInv
<1>3. CASE pc[w] = "join_broadcast" /\ Remaining(w) = {}
  BY <1>3 DEF Targets
<1>4. CASE pc[w] \notin BroadcastPcs
  BY <1>4 DEF Targets, BroadcastPcs
<1>5. CASE pc[w] \in BroadcastPcs \ {"join_broadcast"} /\ Remaining(w) = {}
  BY <1>5 DEF Targets, BroadcastPcs
<1> QED
  BY <1>2, <1>3, <1>4, <1>5 DEF BroadcastPcs

LEMMA OneHolder ==
    ASSUME PInv, NEW v \in Workers, NEW w \in Workers, v # w, pc[v] \in LockedPcs,
           pc[w] \in LockedPcs
    PROVE  room[v] # room[w]
BY DEF PInv, IInv, LockInv

\* room_manager.c, lines 64-80, 128-154 and 202-235: two workers send to one
\* socket at the same time only if one of them answers an invalid command; all
\* else that a client is sent comes under the lock of its room or while it has
\* none.
THEOREM OneSenderCorrect == Spec => []OneSenderPerSocket
<1>1. PInv => OneSenderPerSocket
  <2> SUFFICES ASSUME PInv, NEW v \in Workers, NEW w \in Workers, v # w,
                      NEW c, c \in Targets(v), c \in Targets(w),
                      pc[v] # "send_error", pc[w] # "send_error"
               PROVE  FALSE
    BY DEF OneSenderPerSocket
  <2> DEFINE Hears(u) == /\ pc[u] \in BroadcastPcs
                         /\ c \in Clients /\ c # client[u] /\ room[u] \in Here(c)
             Served1(u) == /\ pc[u] \in {"join_broadcast", "create_ok", "send_list",
                                         "send_full", "join_error", "leave_ok"}
                           /\ c = client[u]
  <2>1. (Hears(v) \/ Served1(v)) /\ (Hears(w) \/ Served1(w))
    BY TargetCases
  <2>2. \A r, s \in Here(c) : r = s
    BY DEF Here
  <2>3. CASE Hears(v) /\ Hears(w)
    BY <2>2, <2>3, OneHolder DEF BroadcastPcs, LockedPcs
  <2>4. ASSUME NEW u \in Workers, NEW x \in Workers, u # x, Hears(u), Served1(x) PROVE FALSE
    <3>1. Here(c) = {room[x]} /\ pc[x] \in {"join_broadcast", "create_ok"}
      BY <2>4, OwnPlace
    <3> QED
      BY <2>4, <3>1, OneHolder DEF BroadcastPcs, LockedPcs
  <2>5. CASE Served1(v) /\ Served1(w)
    BY <2>5 DEF PInv, IInv, ServesOwn
  <2> QED
    BY <2>1, <2>3, <2>4, <2>5
<1> QED
  BY <1>1, InitPInv, StepPInv, PTL DEF Spec

-----------------------------------------------------------------------------
\* Views. A peer that is gone stays so until its structure is cleared.
LEMMA GoneStays ==
    ASSUME IInv, NEW w \in Workers, WorkerStep(w), NEW c \in Clients, link[c] = "gone",
           c = client[w] => ~ Cleanup(w)
    PROVE  link'[c] = "gone"
<1>0. link \in [Clients -> {"ok", "full", "gone"}]
  BY DEF IInv, TypeOK
<1>1. ASSUME NEW d, SendTo(w, d) PROVE link'[c] = "gone"
  BY <1>0, <1>1 DEF SendTo
<1> USE DEF linkVars
<1>2. CASE SendPart(w)
  BY <1>0, <1>2 DEF SendPart
<1>3. CASE Cleanup(w)
  BY <1>0, <1>3 DEF Cleanup
<1>4. CASE SendReply(w) \/ CreateOk(w) \/ JoinError(w) \/ JoinOk(w) \/ LeaveOk(w)
  BY <1>1, <1>4 DEF SendReply, CreateOk, JoinError, JoinOk, LeaveOk
<1>5. CASE BroadcastSend(w)
  BY <1>1, <1>5 DEF BroadcastSend
<1>6. CASE ListRoom(w) \/ CreateSkip(w) \/ CreateTake(w)
  BY <1>6 DEF ListRoom, CreateSkip, CreateTake, CreateEnter
<1>7. CASE JoinRefused(w) \/ MessageLock(w) \/ MessageDone(w) \/ LeaveLock(w) \/ LeaveOkLock(w)
  BY <1>7 DEF JoinRefused, MessageLock, MessageDone, LeaveLock, LeaveOkLock
<1>8. CASE JoinEnter(w) \/ LeaveDone(w)
  <2>1. UNCHANGED linkVars
    BY <1>8 DEF JoinEnter, LeaveDone
  <2> QED
    BY <2>1
<1> QED
  BY <1>2, <1>3, <1>4, <1>5, <1>6, <1>7, <1>8 DEF WorkerStep

\* Until the reply is out, nothing changes for the client that waits for it.
LEMMA WaitsForReply ==
    ASSUME IInv, NEW w \in Workers, WorkerStep(w),
           pc[w] \in {"join_broadcast", "create_ok"}, ~ CreateOk(w), ~ JoinOk(w)
    PROVE  pc'[w] = pc[w] /\ client'[w] = client[w]
<1>1. SendPart(w) \/ BroadcastSend(w)
  BY DEF WorkerStep, SendReply, Cleanup, ListRoom, CreateSkip, CreateTake, CreateEnter,
         JoinRefused, JoinError, JoinEnter, MessageLock, MessageDone, LeaveLock, LeaveDone,
         LeaveOkLock, LeaveOk
<1> QED
  BY <1>1 DEF SendPart, BroadcastSend, workerVars

LEMMA ViewStays ==
    ASSUME IInv, NEW w \in Workers, WorkerStep(w), ~ CreateOk(w), ~ JoinOk(w), ~ LeaveOk(w),
           ~ Cleanup(w)
    PROVE  view' = view
<1>1. CASE SendPart(w) \/ SendReply(w) \/ BroadcastSend(w) \/ ListRoom(w) \/ CreateSkip(w)
  BY <1>1 DEF SendPart, SendReply, BroadcastSend, ListRoom, CreateSkip
<1>2. CASE CreateTake(w) \/ JoinRefused(w) \/ JoinError(w) \/ MessageLock(w) \/ MessageDone(w)
  BY <1>2 DEF CreateTake, CreateEnter, JoinRefused, JoinError, MessageLock, MessageDone
<1>3. CASE LeaveLock(w) \/ LeaveOkLock(w)
  BY <1>3 DEF LeaveLock, LeaveOkLock
<1>4. CASE JoinEnter(w)
  BY <1>4 DEF JoinEnter
<1>5. CASE LeaveDone(w)
  BY <1>5 DEF LeaveDone
<1> QED
  BY <1>1, <1>2, <1>3, <1>4, <1>5 DEF WorkerStep

ViewOf(c) ==
    \A r \in Here(c) :
        link[c] = "gone" \/ view[c] = r \/ At(c, {"join_broadcast", "create_ok"})

LEMMA ViewOther ==
    ASSUME IInv, NEW w \in Workers, WorkerStep(w), NEW c \in Clients \ {client[w]}, ViewOf(c)
    PROVE  ViewOf(c)'
<1>1. OthersStay(w) /\ OnlyItsClient(w) /\ client'[w] \in {client[w], NULL}
  BY WorkerFrame, WorkerClients DEF IInv
<1>2. /\ Here(c)' = Here(c)
      /\ At(c, {"join_broadcast", "create_ok"})' = At(c, {"join_broadcast", "create_ok"})
  BY <1>1, HereOther, NullAssumption DEF OnlyItsClient
<1>3. view'[c] = view[c] /\ (link[c] = "gone" => link'[c] = "gone")
  BY <1>1, GoneStays DEF OnlyItsClient
<1> QED
  BY <1>2, <1>3 DEF ViewOf

LEMMA ViewOwn ==
    ASSUME PInv, NEW w \in Workers, WorkerStep(w), NEW c, c = client[w], ViewOf(c)
    PROVE  ViewOf(c)'
<1>0. /\ IInv /\ StateInv /\ c \in Clients /\ WorkerOf[c] = w
      /\ view \in [Clients -> Rooms \cup {Nowhere, InLobby}]
      /\ pc \in [Workers -> Pcs] /\ client \in [Workers -> Clients \cup {NULL}]
  BY WorkerClients DEF PInv, IInv, TypeOK
<1>1. CASE CreateTake(w) \/ JoinEnter(w)
  <2>1. pc'[w] \in {"create_ok", "join_broadcast"} /\ client'[w] \in {c, NULL}
    BY <1>0, <1>1, JoinEffect, WorkerClients DEF CreateTake, CreateEnter, Goto
  <2>2. client'[w] = c
    <3>1. CASE CreateTake(w)
      BY <3>1 DEF CreateTake, CreateEnter, workerVars
    <3>2. CASE JoinEnter(w)
      <4>1. pc[w] = "join_lock" /\ Serves(w) /\ ServesOwn'
        BY <1>0, <3>2, WorkerFrame, StepIInv DEF JoinEnter, IInv, Next
      <4> QED
        BY <2>1, <4>1, NullAssumption DEF ServesOwn
    <3> QED
      BY <1>1, <3>1, <3>2
  <2>3. At(c, {"join_broadcast", "create_ok"})'
    BY <1>0, <2>1, <2>2 DEF At
  <2> QED
    BY <2>3 DEF ViewOf
<1>2. CASE LeaveLock(w)
  <2>1. Here(c)' = {}
    BY <1>0, <1>2, LeaveHere
  <2> QED
    BY <2>1 DEF ViewOf
<1>3. CASE CreateOk(w) \/ JoinOk(w)
  <2>1. Here(c)' = Here(c) /\ Here(c) = {room[w]}
    <3>1. pc[w] \in {"join_broadcast", "create_ok"}
      BY <1>3 DEF CreateOk, JoinOk
    <3>2. Here(c) = {room[w]}
      BY <3>1, OwnPlace
    <3>3. ~ CreateTake(w) /\ ~ JoinEnter(w) /\ ~ LeaveLock(w)
      BY <3>1 DEF CreateTake, CreateEnter, JoinEnter, LeaveLock
    <3> QED
      BY <1>0, <3>2, <3>3, QuietHere
  <2>2. view' = [view EXCEPT ![c] = IF link[c] = "gone" THEN view[c] ELSE room[w]]
    BY <1>3 DEF CreateOk, JoinOk, Tell
  <2>3. CASE link[c] = "gone"
    <3>1. ~ Cleanup(w)
      BY <1>3 DEF CreateOk, JoinOk, Cleanup
    <3>2. link'[c] = "gone"
      BY <1>0, <2>3, <3>1, GoneStays
    <3> QED
      BY <3>2 DEF ViewOf
  <2>4. CASE link[c] # "gone"
    BY <1>0, <2>1, <2>2, <2>4 DEF ViewOf
  <2> QED
    BY <2>3, <2>4
<1>4. CASE LeaveOk(w) \/ Cleanup(w)
  <2>1. pc[w] \in {"leave_ok", "cleanup"}
    BY <1>4 DEF LeaveOk, Cleanup
  <2>2. ~ CreateTake(w) /\ ~ JoinEnter(w) /\ ~ LeaveLock(w)
    BY <2>1 DEF CreateTake, CreateEnter, JoinEnter, LeaveLock
  <2>3. Here(c) = {} /\ Here(c)' = Here(c)
    BY <1>0, <2>1, <2>2, QuietHere, HereOwn DEF LeftPcs
  <2> QED
    BY <2>3 DEF ViewOf
<1>5. CASE /\ ~ CreateTake(w) /\ ~ JoinEnter(w) /\ ~ LeaveLock(w)
           /\ ~ CreateOk(w) /\ ~ JoinOk(w) /\ ~ LeaveOk(w) /\ ~ Cleanup(w)
  <2>1. Here(c)' = Here(c) /\ view' = view /\ (link[c] = "gone" => link'[c] = "gone")
    BY <1>0, <1>5, QuietHere, ViewStays, GoneStays
  <2>2. At(c, {"join_broadcast", "create_ok"}) => At(c, {"join_broadcast", "create_ok"})'
    <3>1. pc[w] \in {"join_broadcast", "create_ok"} =>
             pc'[w] = pc[w] /\ client'[w] = client[w]
      BY <1>0, <1>5, WaitsForReply
    <3> QED
      BY <1>0, <3>1 DEF At
  <2> QED
    BY <2>1, <2>2 DEF ViewOf
<1> QED
  BY <1>1, <1>2, <1>3, <1>4, <1>5

LEMMA ViewStep ==
    ASSUME PInv, ViewInv, [Next]_vars
    PROVE  ViewInv'
<1>0. IInv /\ \A c \in Clients : ViewOf(c)
  BY DEF PInv, ViewInv, ViewOf
<1>1. ASSUME NEW w \in Workers, WorkerStep(w), NEW c \in Clients PROVE ViewOf(c)'
  BY <1>0, <1>1, ViewOther, ViewOwn
<1>2. ASSUME NEW w \in Workers, NEW d \in Clients, Command(w, d), NEW c \in Clients
      PROVE  ViewOf(c)'
  <2>1. Here(c)' = Here(c) /\ view'[c] = view[c] /\ link'[c] = link[c]
    BY <1>0, <1>2, HereCommand, CommandClients
  <2>2. OthersStay(w) /\ pc[w] = "idle"
    BY <1>0, <1>2, CommandFrame DEF IInv
  <2>3. At(c, {"join_broadcast", "create_ok"}) => At(c, {"join_broadcast", "create_ok"})'
    BY <2>2, WorkerOfAssumption DEF At, OthersStay
  <2> QED
    BY <1>0, <2>1, <2>3 DEF ViewOf
<1>3. ASSUME NEW d \in Clients, Connect(d), NEW c \in Clients PROVE ViewOf(c)'
  <2>1. Here(c)' = Here(c) /\ UNCHANGED <<pc, client, link>>
    BY <1>0, <1>3, HereConnect DEF Connect, workerVars, linkVars
  <2>2. CASE c = d
    <3>1. Here(c) = {}
      BY <1>3, <2>2 DEF Connect, Here, At
    <3> QED
      BY <2>1, <3>1 DEF ViewOf
  <2>3. CASE c # d
    <3>1. view'[c] = view[c]
      BY <1>0, <1>3, <2>3 DEF Connect, IInv, TypeOK
    <3> QED
      BY <1>0, <2>1, <3>1 DEF ViewOf, At
  <2> QED
    BY <2>2, <2>3
<1>4. ASSUME UNCHANGED <<pc, client, room, state, room_index, view>>, NEW c \in Clients,
             link[c] = "gone" => link'[c] = "gone"
      PROVE  ViewOf(c)'
  BY <1>0, <1>4 DEF ViewOf, Here, At
<1>5. ASSUME NEW d \in Clients, ReadsOn(d) \/ GoesAway(d), NEW c \in Clients
      PROVE  ViewOf(c)'
  <2>1. UNCHANGED <<pc, client, room, state, room_index, view>>
    BY <1>5 DEF ReadsOn, GoesAway, workerVars, clientVars
  <2>2. link[c] = "gone" => link'[c] = "gone"
    BY <1>0, <1>5 DEF ReadsOn, GoesAway, IInv, TypeOK
  <2> QED
    BY <1>4, <2>1, <2>2
<1>6. ASSUME UNCHANGED vars, NEW c \in Clients PROVE ViewOf(c)'
  BY <1>4, <1>6 DEF vars, workerVars, clientVars, linkVars
<1>7. \A c \in Clients : ViewOf(c)'
  BY <1>1, <1>2, <1>3, <1>5, <1>6 DEF Next
<1> QED
  BY <1>7 DEF ViewInv, ViewOf

\* room_manager.c, lines 168-177: a broadcast reaches only clients that have
\* been told they are in the room, and have not been told that they left it.
THEOREM RecipientsCorrect == Spec => []RecipientsKnow
<1> DEFINE VInv == PInv /\ ViewInv
<1>1. Init => VInv
  <2> SUFFICES ASSUME Init PROVE ViewInv
    BY InitPInv
  <2>1. ASSUME NEW c \in Clients PROVE Here(c) = {}
    <3>1. client[WorkerOf[c]] # c /\ state[c] = "free"
      BY WorkerOfAssumption, NullAssumption DEF Init
    <3> QED
      BY <3>1 DEF Here, At
  <2> QED
    BY <2>1 DEF ViewInv
<1>2. VInv /\ [Next]_vars => VInv'
  BY StepPInv, ViewStep
<1>3. VInv => RecipientsKnow
  <2> SUFFICES ASSUME PInv, ViewInv, NEW w \in Workers, pc[w] \in BroadcastPcs,
                      NEW i \in Remaining(w), NEW c, c = clients[room[w]][i]
               PROVE  state[c] # "free" /\ (link[c] # "gone" => view[c] = room[w])
    BY DEF RecipientsKnow
  <2>1. c \in Clients /\ c # client[w] /\ room[w] \in Here(c)
    BY DEF Remaining, PInv, IInv, TypeOK, PlaceInv
  <2>2. state[c] # "free"
    BY <2>1, WorkerOfAssumption DEF Here, At, PInv, StateInv
  <2>3. ~ At(c, {"join_broadcast", "create_ok"})
    <3> SUFFICES ASSUME At(c, {"join_broadcast", "create_ok"}) PROVE FALSE
      OBVIOUS
    <3> DEFINE u == WorkerOf[c]
    <3>1. u \in Workers /\ client[u] = c /\ pc[u] \in {"join_broadcast", "create_ok"}
      BY <2>1, WorkerOfAssumption DEF At
    <3>2. room[u] = room[w]
      BY <2>1, <3>1, OwnPlace
    <3> QED
      BY <2>1, <3>1, <3>2, OneHolder DEF LockedPcs, BroadcastPcs
  <2> QED
    BY <2>1, <2>2, <2>3 DEF ViewInv
<1> QED
  BY <1>1, <1>2, <1>3, PTL DEF Spec

=============================================================================
