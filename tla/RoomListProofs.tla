--------------------------- MODULE RoomListProofs ---------------------------
(***************************************************************************)
(* The room list is taken room by room while rooms come and go: a proof    *)
(* that it shows every room that was there all the time, and none that was *)
(* there at no time.                                                       *)
(***************************************************************************)
EXTENDS RoomManagerProofs

\* A worker that is not scanning has an empty list; one that is has passed the
\* rooms below room[w], and its history still follows in_use.
ListOf(w) ==
    /\ pc[w] = "idle" => listed[w] = {} /\ room[w] = 0
    /\ pc[w] \in {"list", "send_list"} => listed[w] \subseteq seen[w]
    /\ pc[w] = "list" => /\ kept[w] \subseteq InUse /\ InUse \subseteq seen[w]
                         /\ \A r \in kept[w] : r < room[w] => r \in listed[w]
    /\ pc[w] = "send_list" => kept[w] \subseteq listed[w]

ListInv == \A w \in Workers : ListOf(w)

-----------------------------------------------------------------------------
\* The scans, seen by the other workers: their lists stay, and their history
\* follows the rooms that are taken and freed.
Follows(w) ==
    \/ in_use' = in_use /\ seen'[w] = seen[w] /\ kept'[w] = kept[w]
    \/ \E r \in Rooms : /\ in_use' = [in_use EXCEPT ![r] = TRUE]
                        /\ seen'[w] = IF Scanning(w) THEN seen[w] \cup {r} ELSE seen[w]
                        /\ kept'[w] = kept[w]
    \/ \E r \in Rooms : /\ in_use' = [in_use EXCEPT ![r] = FALSE]
                        /\ kept'[w] = IF Scanning(w) THEN kept[w] \ {r} ELSE kept[w]
                        /\ seen'[w] = seen[w]

LEMMA FollowsWorker ==
    ASSUME IInv, NEW u \in Workers, WorkerStep(u), NEW w \in Workers, w # u
    PROVE  listed'[w] = listed[w] /\ Follows(w)
<1>0. /\ listed \in [Workers -> SUBSET Rooms] /\ seen \in [Workers -> SUBSET Rooms]
      /\ kept \in [Workers -> SUBSET Rooms] /\ room \in [Workers -> Rooms]
  BY DEF IInv, TypeOK
<1> USE DEF roomVars, scanVars, workerVars
<1>1. CASE SendPart(u) \/ BroadcastSend(u) \/ CreateSkip(u)
  BY <1>1 DEF SendPart, BroadcastSend, CreateSkip, Follows
<1>2. CASE SendReply(u) \/ CreateOk(u)
  BY <1>0, <1>2 DEF SendReply, CreateOk, EndScan, Finish, Follows
<1>3. CASE Cleanup(u) \/ JoinError(u) \/ JoinOk(u) \/ MessageDone(u) \/ LeaveOk(u)
  BY <1>0, <1>3 DEF Cleanup, JoinError, JoinOk, MessageDone, LeaveOk, Finish, Follows
<1>4. CASE ListRoom(u)
  <2>1. /\ listed' = [listed EXCEPT ![u] =
                         IF Available(room[u]) THEN @ ELSE @ \cup {room[u]}]
        /\ UNCHANGED <<in_use, seen, kept>>
    BY <1>4 DEF ListRoom
  <2> QED
    BY <1>0, <2>1 DEF Follows
<1>5. CASE CreateTake(u)
  <2>1. UNCHANGED listed /\ ScansSeeTaken(u, room[u])
    BY <1>5 DEF CreateTake, CreateEnter
  <2>2. room[u] \in Rooms /\ in_use' = [in_use EXCEPT ![room[u]] = TRUE]
    BY <1>5, CreateEffect
  <2>3. seen'[w] = IF Scanning(w) THEN seen[w] \cup {room[u]} ELSE seen[w]
    BY <2>1 DEF ScansSeeTaken
  <2>4. kept' = kept
    BY <2>1 DEF ScansSeeTaken
  <2> QED
    BY <2>1, <2>2, <2>3, <2>4 DEF Follows
<1>6. CASE JoinRefused(u) \/ MessageLock(u) \/ LeaveLock(u) \/ LeaveOkLock(u)
  BY <1>6 DEF JoinRefused, MessageLock, LeaveLock, LeaveOkLock, Follows
<1>7. CASE JoinEnter(u)
  <2>1. in_use' = in_use /\ UNCHANGED <<seen, kept>>
    BY <1>7, JoinEffect DEF JoinEnter
  <2>2. listed'[w] = listed[w]
    <3>1. CASE FreeSlots(room[u]) = {}
      BY <1>0, <1>7, <3>1 DEF JoinEnter, Finish
    <3>2. CASE FreeSlots(room[u]) # {}
      BY <1>7, <3>2 DEF JoinEnter
    <3> QED
      BY <3>1, <3>2
  <2> QED
    BY <2>1, <2>2 DEF Follows
<1>8. CASE LeaveDone(u)
  <2>1. listed' = listed /\ room[u] \in Rooms
    BY <1>0, <1>8 DEF LeaveDone
  <2>2. CASE in_use' = [in_use EXCEPT ![room[u]] = FALSE] /\ ScansSeeFreed(room[u])
    <3>1. kept'[w] = IF Scanning(w) THEN kept[w] \ {room[u]} ELSE kept[w]
      BY <2>2 DEF ScansSeeFreed
    <3>2. seen' = seen
      BY <2>2 DEF ScansSeeFreed
    <3> QED
      BY <2>1, <2>2, <3>1, <3>2 DEF Follows
  <2>3. CASE UNCHANGED <<in_use, seen, kept>>
    BY <2>1, <2>3 DEF Follows
  <2> QED
    BY <1>8, <2>2, <2>3, LeaveDoneCases
<1> QED
  BY <1>1, <1>2, <1>3, <1>4, <1>5, <1>6, <1>7, <1>8 DEF WorkerStep

LEMMA FollowsList ==
    ASSUME TypeOK, NEW w \in Workers, ListOf(w), Follows(w), listed'[w] = listed[w],
           pc'[w] = pc[w], room'[w] = room[w]
    PROVE  ListOf(w)'
<1>0. in_use \in [Rooms -> BOOLEAN] /\ listed[w] \subseteq Rooms
      /\ (pc[w] = "list" => Scanning(w))
  BY DEF TypeOK, Scanning
<1>1. CASE in_use' = in_use /\ seen'[w] = seen[w] /\ kept'[w] = kept[w]
  BY <1>1 DEF ListOf, InUse
<1>2. ASSUME NEW r \in Rooms, in_use' = [in_use EXCEPT ![r] = TRUE],
             seen'[w] = IF Scanning(w) THEN seen[w] \cup {r} ELSE seen[w], kept'[w] = kept[w]
      PROVE  ListOf(w)'
  <2>1. InUse' = InUse \cup {r}
    BY <1>0, <1>2 DEF InUse
  <2>2. seen[w] \subseteq seen'[w] /\ (pc[w] = "list" => r \in seen'[w])
    BY <1>0, <1>2
  <2> QED
    BY <1>2, <2>1, <2>2 DEF ListOf
<1>3. ASSUME NEW r \in Rooms, in_use' = [in_use EXCEPT ![r] = FALSE], seen'[w] = seen[w],
             kept'[w] = IF Scanning(w) THEN kept[w] \ {r} ELSE kept[w]
      PROVE  ListOf(w)'
  <2>1. InUse' = InUse \ {r}
    BY <1>0, <1>3 DEF InUse
  <2>2. kept'[w] \subseteq kept[w] /\ (pc[w] = "list" => r \notin kept'[w])
    BY <1>0, <1>3
  <2> QED
    BY <1>3, <2>1, <2>2 DEF ListOf
<1> QED
  BY <1>1, <1>2, <1>3 DEF Follows

-----------------------------------------------------------------------------
\* The scan itself.
LEMMA ListRoomOwn ==
    ASSUME IInv, NEW w \in Workers, ListOf(w), ListRoom(w)
    PROVE  ListOf(w)'
<1>0. /\ listed \in [Workers -> SUBSET Rooms] /\ room \in [Workers -> Rooms]
      /\ pc \in [Workers -> Pcs] /\ pc[w] = "list" /\ in_use \in [Rooms -> BOOLEAN]
      /\ UNCHANGED <<in_use, seen, kept>> /\ NextRoom(w, "send_list")
  BY DEF ListRoom, IInv, TypeOK, roomVars, scanVars
<1>1. /\ InUse' = InUse
      /\ listed'[w] = IF in_use[room[w]] THEN listed[w] \cup {room[w]} ELSE listed[w]
  BY <1>0 DEF ListRoom, Available, InUse
<1>2. /\ kept[w] \subseteq InUse /\ InUse \subseteq seen[w] /\ listed[w] \subseteq seen[w]
      /\ \A r \in kept[w] : r < room[w] => r \in listed[w]
  BY <1>0 DEF ListOf
<1>3. listed'[w] \subseteq seen[w]
  BY <1>0, <1>1, <1>2 DEF InUse
<1>4. \A r \in kept[w] : r \in Rooms /\ (r < room[w] + 1 => r \in listed'[w])
  BY <1>0, <1>1, <1>2 DEF InUse, Rooms
<1>5. CASE room[w] < LastRoom
  <2>1. room' = [room EXCEPT ![w] = @ + 1] /\ pc' = pc
    BY <1>0, <1>5, Zenon DEF NextRoom
  <2> QED
    BY <1>0, <1>1, <1>2, <1>3, <1>4, <2>1 DEF ListOf
<1>6. CASE ~ (room[w] < LastRoom)
  <2>1. pc' = [pc EXCEPT ![w] = "send_list"]
    BY <1>0, <1>6, Zenon DEF NextRoom, Goto
  <2>2. \A r \in kept[w] : r < room[w] + 1
    BY <1>0, <1>4, <1>6, MaxRoomsAssumption DEF Rooms, LastRoom
  <2>3. kept[w] \subseteq listed'[w]
    BY <1>4, <2>2
  <2> QED
    BY <1>0, <1>3, <2>1, <2>3 DEF ListOf
<1> QED
  BY <1>5, <1>6

\* A command that is done leaves an empty list.
LEMMA FinishList ==
    ASSUME TypeOK, NEW w \in Workers, Finish(w)
    PROVE  ListOf(w)'
BY DEF TypeOK, Finish, Goto, ListOf

LEMMA ListWorker ==
    ASSUME IInv, ListInv, NEW u \in Workers, WorkerStep(u)
    PROVE  ListInv'
<1>1. ASSUME NEW w \in Workers, w # u PROVE ListOf(w)'
  BY <1>1, WorkerFrame, FollowsWorker, FollowsList DEF IInv, OthersStay, ListInv
<1>2. ListOf(u)'
  <2>0. TypeOK /\ ListOf(u) /\ pc \in [Workers -> Pcs]
    BY DEF IInv, TypeOK, ListInv
  <2>1. CASE SendPart(u)
    BY <2>0, <2>1 DEF SendPart, ListOf, InUse, roomVars, workerVars, scanVars
  <2>2. CASE ListRoom(u)
    BY <2>0, <2>2, ListRoomOwn
  <2>3. CASE Finish(u)
    BY <2>0, <2>3, FinishList
  <2>4. CASE pc'[u] \notin {"idle", "list", "send_list"}
    BY <2>4 DEF ListOf
  <2>5. CASE \/ SendReply(u) \/ Cleanup(u) \/ CreateOk(u) \/ JoinError(u) \/ JoinOk(u)
             \/ MessageDone(u) \/ LeaveOk(u)
    BY <2>3, <2>5 DEF SendReply, Cleanup, CreateOk, JoinError, JoinOk, MessageDone, LeaveOk
  <2>6. CASE CreateSkip(u)
    <3>1. pc[u] = "create" /\ NextRoom(u, "send_full")
      BY <2>6 DEF CreateSkip
    <3>2. pc'[u] \in {"create", "send_full"}
      BY <2>0, <3>1, NextRoomStays
    <3> QED
      BY <2>4, <3>2
  <2>7. CASE BroadcastSend(u)
    BY <2>4, <2>7 DEF BroadcastSend, BroadcastPcs
  <2>8. CASE JoinEnter(u)
    BY <2>4, <2>8, JoinEffect
  <2>9. CASE CreateTake(u) \/ JoinRefused(u) \/ MessageLock(u) \/ LeaveLock(u) \/ LeaveOkLock(u)
    BY <2>0, <2>4, <2>9 DEF CreateTake, CreateEnter, JoinRefused, MessageLock, LeaveLock,
                            LeaveOkLock, Goto
  <2>10. CASE LeaveDone(u)
    BY <2>0, <2>4, <2>10 DEF LeaveDone, Goto
  <2> QED
    BY <2>1, <2>2, <2>5, <2>6, <2>7, <2>8, <2>9, <2>10 DEF WorkerStep
<1> QED
  BY <1>1, <1>2 DEF ListInv

LEMMA ListCommand ==
    ASSUME IInv, ListInv, NEW u \in Workers, NEW c \in Clients, Command(u, c)
    PROVE  ListInv'
<1>0. /\ pc \in [Workers -> Pcs] /\ seen \in [Workers -> SUBSET Rooms]
      /\ kept \in [Workers -> SUBSET Rooms] /\ OthersStay(u) /\ pc[u] = "idle"
      /\ listed[u] = {} /\ room[u] = 0 /\ roomVars' = roomVars
  BY CommandFrame DEF IInv, TypeOK, ListInv, ListOf
<1>1. /\ listed' = listed
      /\ \A w \in Workers \ {u} : seen'[w] = seen[w] /\ kept'[w] = kept[w]
      /\ \/ pc'[u] = "list" /\ room' = room /\ seen'[u] = InUse /\ kept'[u] = InUse
         \/ pc'[u] \notin {"idle", "list", "send_list"}
  <2> USE DEF Serve, Goto, scanVars, BeginScan
  <2>1. CASE InvalidCommand(u, c) \/ RoomMessage(u, c) \/ RequestLeave(u, c)
    BY <1>0, <2>1 DEF InvalidCommand, RoomMessage, RequestLeave
  <2>2. CASE SubmitUsername(u, c) \/ RequestList(u, c) \/ RequestCreate(u, c)
    BY <1>0, <2>2 DEF SubmitUsername, RequestList, RequestCreate
  <2>3. CASE Disconnect(u, c)
    BY <1>0, <2>3 DEF Disconnect
  <2>4. CASE \E r \in Rooms : RequestJoin(u, c, r)
    BY <1>0, <2>4 DEF RequestJoin
  <2> QED
    BY <2>1, <2>2, <2>3, <2>4 DEF Command
<1>2. ASSUME NEW w \in Workers, w # u PROVE ListOf(w)'
  <2>1. Follows(w) /\ listed'[w] = listed[w]
    BY <1>0, <1>1, <1>2 DEF Follows, roomVars
  <2> QED
    BY <1>0, <1>2, <2>1, FollowsList DEF OthersStay, ListInv, IInv
<1>3. ListOf(u)'
  <2>1. CASE pc'[u] = "list" /\ room' = room /\ seen'[u] = InUse /\ kept'[u] = InUse
    <3>1. InUse' = InUse /\ \A r \in InUse : ~ (r < 0)
      BY <1>0 DEF InUse, roomVars, Rooms
    <3> QED
      BY <1>0, <1>1, <2>1, <3>1 DEF ListOf
  <2>2. CASE pc'[u] \notin {"idle", "list", "send_list"}
    BY <2>2 DEF ListOf
  <2> QED
    BY <1>1, <2>1, <2>2
<1> QED
  BY <1>2, <1>3 DEF ListInv

LEMMA ListStep ==
    ASSUME IInv, ListInv, [Next]_vars
    PROVE  ListInv'
<1>1. CASE UNCHANGED <<roomVars, pc, room, listed, scanVars>>
  BY <1>1 DEF ListInv, ListOf, InUse, roomVars, scanVars
<1>2. ASSUME NEW c \in Clients, Connect(c) \/ ReadsOn(c) \/ GoesAway(c) PROVE ListInv'
  BY <1>1, <1>2 DEF Connect, ReadsOn, GoesAway, workerVars
<1>3. CASE UNCHANGED vars
  BY <1>1, <1>3 DEF vars, workerVars
<1> QED
  BY <1>2, <1>3, ListWorker, ListCommand DEF Next

\* room_manager.c, lines 90-119 (send_avail_rooms): the list shows every room
\* that existed during the whole request and none that existed at no moment of
\* it, although rooms are taken and freed between its turns.
THEOREM ListCorrect == Spec => []ListIsHonest
<1> DEFINE LInv == IInv /\ ListInv
<1>1. Init => LInv
  <2>1. Init => ListInv
    BY DEF Init, ListInv, ListOf
  <2> QED
    BY <2>1, InitIInv
<1>2. LInv /\ [Next]_vars => LInv'
  BY StepIInv, ListStep
<1>3. LInv => ListIsHonest
  BY DEF ListInv, ListOf, ListIsHonest
<1> QED
  BY <1>1, <1>2, <1>3, PTL DEF Spec

=============================================================================
