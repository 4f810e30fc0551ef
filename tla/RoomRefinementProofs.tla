------------------------ MODULE RoomRefinementProofs ------------------------
(***************************************************************************)
(* Every behaviour of the rooms, with their locks, arrays and counters, is *)
(* a behaviour of ChatRooms, where each change of place is one step.       *)
(***************************************************************************)
EXTENDS RoomPlacesProofs

\* What PlaceOf says, by the room that holds the client.
PlaceSays ==
    \A c \in Clients :
        /\ \A r \in Here(c) : PlaceOf(c) = r
        /\ Here(c) = {} => PlaceOf(c) = IF state[c] = "free" THEN Nowhere ELSE InLobby

LEMMA PlaceSaysSo == PInv => PlaceSays
<1> SUFFICES ASSUME PInv, NEW c \in Clients
             PROVE  /\ \A r \in Here(c) : PlaceOf(c) = r
                    /\ Here(c) = {} =>
                          PlaceOf(c) = IF state[c] = "free" THEN Nowhere ELSE InLobby
  BY DEF PlaceSays
<1>1. ASSUME NEW r \in Here(c) PROVE PlaceOf(c) = r
  <2>1. r \in Rooms
    BY WorkerOfAssumption DEF Here, PInv, IInv, TypeOK
  <2>2. PICK i \in Slots : clients[r][i] = c
    BY <2>1 DEF PInv, PlaceInv
  <2>3. <<r, i>> \in PlacesOf(c)
    BY <2>1, <2>2 DEF PlacesOf
  <2>4. \A p \in PlacesOf(c) : p[1] = r
    BY <2>1, <2>2, NullAssumption DEF PInv, PlaceInv, PlacesOf
  <2>5. (CHOOSE p \in PlacesOf(c) : TRUE) \in PlacesOf(c)
    BY <2>3
  <2> QED
    BY <2>3, <2>4, <2>5 DEF PlaceOf
<1>2. ASSUME Here(c) = {}
      PROVE  PlaceOf(c) = IF state[c] = "free" THEN Nowhere ELSE InLobby
  <2>1. PlacesOf(c) = {}
    BY <1>2 DEF PInv, PlaceInv, PlacesOf
  <2> QED
    BY <2>1 DEF PlaceOf
<1> QED
  BY <1>1, <1>2

-----------------------------------------------------------------------------
\* The abstract state, and its members of a room.
place == [c \in Clients |-> PlaceOf(c)]

LEMMA MembersAre ==
    ASSUME PInv, NEW r \in Rooms, NEW c \in Clients
    PROVE  PlaceOf(c) = r <=> \E i \in Slots : clients[r][i] = c
<1>1. PlaceSays
  BY PlaceSaysSo
<1>2. \A s \in Here(c) : PlaceOf(c) = s
  BY <1>1 DEF PlaceSays
<1>3. Here(c) = {} => PlaceOf(c) \in {Nowhere, InLobby}
  BY <1>1 DEF PlaceSays
<1>4. r # Nowhere /\ r # InLobby
  BY DEF Rooms, Nowhere, InLobby
<1>5. PlaceOf(c) = r <=> r \in Here(c)
  BY <1>2, <1>3, <1>4
<1> QED
  BY <1>5 DEF PInv, PlaceInv

LEMMA NoMembers ==
    ASSUME PInv, NEW r \in Rooms
    PROVE  Abstract!Members(r) = {} <=> Occupied(r) = {}
<1>1. \A c \in Clients : PlaceOf(c) = r <=> \E i \in Slots : clients[r][i] = c
  BY MembersAre
<1>2. Abstract!Members(r) = {c \in Clients : PlaceOf(c) = r}
  BY DEF Abstract!Members
<1>3. \A i \in Slots : clients[r][i] \in Clients \cup {NULL}
  BY DEF PInv, IInv, TypeOK
<1> QED
  BY <1>1, <1>2, <1>3, NullAssumption DEF Occupied

LEMMA FewMembers ==
    ASSUME PInv, NEW r \in Rooms
    PROVE  /\ IsFiniteSet(Abstract!Members(r))
           /\ Cardinality(Abstract!Members(r)) <= num_clients[r]
<1>1. \A c \in Clients : PlaceOf(c) = r <=> \E i \in Slots : clients[r][i] = c
  BY MembersAre
<1>2. Abstract!Members(r) = {c \in Clients : PlaceOf(c) = r}
  BY DEF Abstract!Members
<1>3. \A i \in Slots : clients[r][i] \in Clients \cup {NULL}
  BY DEF PInv, IInv, TypeOK
<1> DEFINE member == [i \in Occupied(r) |-> clients[r][i]]
<1>4. member \in Surjection(Occupied(r), Abstract!Members(r))
  BY <1>1, <1>2, <1>3, NullAssumption DEF Occupied, Surjection
<1>5. /\ IsFiniteSet(Abstract!Members(r))
      /\ Cardinality(Abstract!Members(r)) <= Cardinality(Occupied(r))
  BY <1>4, OccupiedFinite, FS_Surjection
<1> QED
  BY <1>5 DEF PInv, IInv, AccountInv

\* A step after which only c is elsewhere, or nobody is.
LEMMA Moves ==
    ASSUME NEW c \in Clients, \A d \in Clients \ {c} : PlaceOf(d)' = PlaceOf(d)
    PROVE  place' = [place EXCEPT ![c] = PlaceOf(c)']
BY DEF place

LEMMA AllStay ==
    ASSUME \A c \in Clients : PlaceOf(c)' = PlaceOf(c)
    PROVE  place' = place
BY DEF place

LEMMA PlaceStays ==
    ASSUME PlaceSays, PlaceSays', NEW c \in Clients, Here(c)' = Here(c),
           Here(c) = {} => (state'[c] = "free" <=> state[c] = "free")
    PROVE  PlaceOf(c)' = PlaceOf(c)
<1>1. CASE Here(c) = {}
  BY <1>1 DEF PlaceSays
<1>2. CASE Here(c) # {}
  BY <1>2 DEF PlaceSays
<1> QED
  BY <1>1, <1>2

\* The steps of a command that change the client's own state.
LEMMA StateStays ==
    ASSUME IInv, NEW w \in Workers, WorkerStep(w), ~ CreateTake(w), ~ JoinOk(w),
           ~ LeaveOk(w), ~ Cleanup(w)
    PROVE  state' = state
<1> USE DEF clientVars
<1>1. CASE SendPart(w) \/ SendReply(w) \/ BroadcastSend(w) \/ ListRoom(w) \/ CreateSkip(w)
  BY <1>1 DEF SendPart, SendReply, BroadcastSend, ListRoom, CreateSkip
<1>2. CASE CreateOk(w) \/ JoinRefused(w) \/ JoinError(w) \/ MessageLock(w) \/ MessageDone(w)
  BY <1>2 DEF CreateOk, JoinRefused, JoinError, MessageLock, MessageDone
<1>3. CASE LeaveLock(w) \/ LeaveOkLock(w)
  BY <1>3 DEF LeaveLock, LeaveOkLock
<1>4. CASE JoinEnter(w)
  BY <1>4 DEF JoinEnter
<1>5. CASE LeaveDone(w)
  BY <1>5 DEF LeaveDone
<1> QED
  BY <1>1, <1>2, <1>3, <1>4, <1>5 DEF WorkerStep

LEMMA WorkerRefines ==
    ASSUME PInv, PlaceSays, PlaceSays', NEW w \in Workers, WorkerStep(w)
    PROVE  Abstract!Next \/ place' = place
<1> DEFINE c == client[w]
<1>0. /\ IInv /\ StateInv /\ c \in Clients /\ WorkerOf[c] = w
      /\ state \in [Clients -> States]
  BY WorkerClients DEF PInv, IInv, TypeOK
<1>1. ASSUME NEW d \in Clients \ {c} PROVE PlaceOf(d)' = PlaceOf(d)
  <2>1. Here(d)' = Here(d)
    BY <1>0, OtherHere
  <2>2. state'[d] = state[d]
    BY <1>0, WorkerClients DEF OnlyItsClient
  <2> QED
    BY <2>1, <2>2, PlaceStays
<1>2. ASSUME NEW e \in Clients, e = c, PlaceOf(e)' = PlaceOf(e) PROVE place' = place
  <2>1. \A d \in Clients : PlaceOf(d)' = PlaceOf(d)
    BY <1>1, <1>2
  <2> QED
    BY <2>1, AllStay
<1>3. \A e, p : e = c /\ PlaceOf(e)' = p => place' = [place EXCEPT ![e] = p]
  BY <1>0, <1>1, Moves
<1>4. CASE CreateTake(w)
  <2>1. /\ room[w] \in Rooms /\ Abstract!Members(room[w]) = {}
        /\ pc[w] = "create"
    BY <1>0, <1>4, CreateEffect, NoMembers DEF CreateTake, CreateEnter
  <2>2. \A e : e = c => Here(e) = {} /\ Here(e)' = {room[w]}
    BY <1>0, <1>4, CreateHere
  <2>3. PlaceOf(c) = InLobby
    BY <1>0, <2>1, <2>2 DEF PlaceSays, StateInv
  <2>4. \A e : e = c => PlaceOf(e)' = room[w]
    BY <1>0, <2>2 DEF PlaceSays
  <2>5. place' = [place EXCEPT ![c] = room[w]] /\ place[c] = InLobby
    BY <1>0, <1>3, <2>3, <2>4 DEF place
  <2>6. Abstract!Create(c, room[w])
    BY <2>1, <2>5 DEF Abstract!Create, Abstract!Move, Abstract!Lobby, InLobby, place
  <2> QED
    BY <1>0, <2>1, <2>6 DEF Abstract!Next, Abstract!Rooms, Rooms
<1>5. CASE JoinEnter(w)
  <2>1. /\ room[w] \in Rooms /\ pc[w] = "join_lock"
        /\ in_use[room[w]] /\ room_lock[room[w]] = NULL
        /\ num_clients[room[w]] < MAX_CLIENTS_ROOM
    BY <1>0, <1>5, JoinEffect DEF JoinEnter
  <2>2. Occupied(room[w]) # {}
    <3>1. ASSUME NEW u \in Workers, pc[u] = "leave_broadcast", room[u] = room[w] PROVE FALSE
      BY <1>0, <2>1, <3>1, NullAssumption DEF IInv, LockInv, LockedPcs
    <3> QED
      BY <1>0, <2>1, <3>1 DEF IInv, AccountInv
  <2>3. Abstract!Members(room[w]) # {}
    BY <2>1, <2>2, NoMembers
  <2>4. Cardinality(Abstract!Members(room[w])) < MAX_CLIENTS_ROOM
    <3>1. Cardinality(Abstract!Members(room[w])) <= num_clients[room[w]]
      BY <2>1, FewMembers
    <3>2. IsFiniteSet(Abstract!Members(room[w]))
      BY <2>1, FewMembers
    <3>3. Cardinality(Abstract!Members(room[w])) \in Nat
      BY <3>2, FS_CardinalityType
    <3>4. num_clients[room[w]] \in Nat
      BY <1>0, <2>1 DEF IInv, TypeOK
    <3> QED
      BY <2>1, <3>1, <3>3, <3>4, MaxClientsRoomAssumption
  <2>5. \A e : e = c => Here(e) = {} /\ Here(e)' = {room[w]}
    BY <1>0, <1>5, JoinHere
  <2>6. PlaceOf(c) = InLobby
    BY <1>0, <2>1, <2>5 DEF PlaceSays, StateInv
  <2>7. \A e : e = c => PlaceOf(e)' = room[w]
    BY <1>0, <2>5 DEF PlaceSays
  <2>8. place' = [place EXCEPT ![c] = room[w]] /\ place[c] = InLobby
    BY <1>0, <1>3, <2>6, <2>7 DEF place
  <2>9. Abstract!Cardinality(Abstract!Members(room[w])) = Cardinality(Abstract!Members(room[w]))
    BY DEF Abstract!Cardinality, Cardinality, Abstract!IsFiniteSet, IsFiniteSet
  <2>10. Abstract!Join(c, room[w])
    BY <2>3, <2>4, <2>8, <2>9 DEF Abstract!Join, Abstract!Move, Abstract!Lobby, InLobby, place
  <2> QED
    BY <1>0, <2>1, <2>10 DEF Abstract!Next, Abstract!Rooms, Rooms
<1>6. CASE LeaveLock(w)
  <2>1. room[w] \in Rooms /\ pc'[w] = "leave_broadcast" /\ pc[w] = "leave_lock"
    BY <1>0, <1>6, LeaveEffect DEF LeaveLock
  <2>2. \A e : e = c => Here(e) = {room[w]} /\ Here(e)' = {}
    BY <1>0, <1>6, LeaveHere
  <2>3. state'[c] = "in_chat_room"
    BY <1>0, <1>6, <2>1 DEF StateInv, LeaveLock, clientVars
  <2>4. PlaceOf(c) = room[w]
    BY <1>0, <2>2 DEF PlaceSays
  <2>5. \A e : e = c => PlaceOf(e)' = InLobby
    BY <1>0, <2>2, <2>3 DEF PlaceSays
  <2>6. place' = [place EXCEPT ![c] = InLobby] /\ place[c] = room[w]
    BY <1>0, <1>3, <2>4, <2>5 DEF place
  <2>7. Abstract!Leave(c, room[w])
    BY <2>6 DEF Abstract!Leave, Abstract!Move, Abstract!Lobby, InLobby, place
  <2> QED
    BY <1>0, <2>1, <2>7 DEF Abstract!Next, Abstract!Rooms, Rooms
<1>7. CASE ~ CreateTake(w) /\ ~ JoinEnter(w) /\ ~ LeaveLock(w)
  <2>1. \A e : e = c => Here(e)' = Here(e)
    BY <1>0, <1>7, QuietHere
  <2>2. CASE Cleanup(w)
    <3>1. Here(c) = {} /\ state'[c] = "free"
      BY <1>0, <2>2, HereOwn DEF Cleanup, LeftPcs
    <3>2. \A e : e = c => PlaceOf(e)' = Nowhere
      BY <1>0, <2>1, <3>1 DEF PlaceSays
    <3>3. place' = [place EXCEPT ![c] = Nowhere]
      BY <1>3, <3>2
    <3>4. CASE PlaceOf(c) = Nowhere
      BY <1>0, <3>3, <3>4 DEF place
    <3>5. CASE PlaceOf(c) = InLobby
      <4>1. Abstract!Disconnect(c)
        BY <1>0, <3>3, <3>5 DEF Abstract!Disconnect, Abstract!Move, Abstract!Lobby,
                                Abstract!Away, InLobby, Nowhere, place
      <4> QED
        BY <1>0, <4>1 DEF Abstract!Next
    <3> QED
      BY <1>0, <3>1, <3>4, <3>5 DEF PlaceSays
  <2>3. CASE ~ Cleanup(w)
    <3>1. Here(c) = {} => (state'[c] = "free" <=> state[c] = "free")
      <4>1. CASE JoinOk(w)
        BY <1>0, <4>1, HereOwn DEF JoinOk
      <4>2. CASE LeaveOk(w)
        BY <1>0, <4>2 DEF LeaveOk, StateInv
      <4>3. CASE ~ JoinOk(w) /\ ~ LeaveOk(w)
        BY <1>0, <1>7, <2>3, <4>3, StateStays
      <4> QED
        BY <4>1, <4>2, <4>3
    <3>2. \A e : e = c => PlaceOf(e)' = PlaceOf(e)
      BY <1>0, <2>1, <3>1, PlaceStays
    <3> QED
      BY <1>0, <1>2, <3>2
  <2> QED
    BY <2>2, <2>3
<1> QED
  BY <1>4, <1>5, <1>6, <1>7

LEMMA ConnectRefines ==
    ASSUME PInv, PlaceSays, PlaceSays', NEW c \in Clients, Connect(c)
    PROVE  Abstract!Next
<1>0. IInv /\ state \in [Clients -> States] /\ pc[WorkerOf[c]] = "idle"
  BY DEF PInv, IInv, TypeOK, Connect
<1>1. ASSUME NEW d \in Clients PROVE Here(d)' = Here(d)
  BY <1>0, HereConnect
<1>2. state[c] = "free" /\ state'[c] = "awaiting_username"
      /\ \A d \in Clients \ {c} : state'[d] = state[d]
  BY <1>0 DEF Connect
<1>3. Here(c) = {}
  BY <1>0, <1>2 DEF Here, At, LeftPcs
<1>4. PlaceOf(c) = Nowhere /\ PlaceOf(c)' = InLobby
  BY <1>1, <1>2, <1>3 DEF PlaceSays
<1>5. \A d \in Clients \ {c} : PlaceOf(d)' = PlaceOf(d)
  BY <1>1, <1>2, PlaceStays
<1>6. place' = [place EXCEPT ![c] = InLobby] /\ place[c] = Nowhere
  BY <1>4, <1>5, Moves DEF place
<1>7. Abstract!Connect(c)
  BY <1>6 DEF Abstract!Connect, Abstract!Move, Abstract!Lobby, Abstract!Away, InLobby,
              Nowhere, place
<1> QED
  BY <1>7 DEF Abstract!Next

LEMMA RefinementStep ==
    ASSUME PInv, PlaceSays, PlaceSays', [Next]_vars
    PROVE  Abstract!Next \/ place' = place
<1>0. IInv
  BY DEF PInv
<1>1. ASSUME NEW w \in Workers, NEW c \in Clients, Command(w, c) PROVE place' = place
  <2>1. ASSUME NEW d \in Clients PROVE PlaceOf(d)' = PlaceOf(d)
    <3>1. Here(d)' = Here(d)
      BY <1>0, <1>1, HereCommand
    <3>2. state'[d] = "free" <=> state[d] = "free"
      BY <1>0, <1>1, CommandClients
    <3> QED
      BY <3>1, <3>2, PlaceStays
  <2> QED
    BY <2>1, AllStay
<1>2. ASSUME UNCHANGED <<clients, state>> PROVE place' = place
  BY <1>2 DEF place, PlaceOf, PlacesOf
<1>3. ASSUME NEW c \in Clients, ReadsOn(c) \/ GoesAway(c) PROVE place' = place
  BY <1>2, <1>3 DEF ReadsOn, GoesAway, roomVars, clientVars
<1>4. CASE UNCHANGED vars
  BY <1>2, <1>4 DEF vars, roomVars, clientVars
<1> QED
  BY <1>1, <1>3, <1>4, WorkerRefines, ConnectRefines DEF Next

\* room_manager.c: with all its locks, arrays and counters the room manager
\* only ever does what ChatRooms allows: a client enters or leaves a room in
\* one step, creates only an empty room, and joins only one that has a member
\* and a free place.
THEOREM RefinementCorrect == Spec => ImplementsChatRooms
<1>1. Init => Abstract!Init
  <2> SUFFICES ASSUME Init PROVE place = [c \in Clients |-> Abstract!Away]
    BY DEF Abstract!Init, place
  <2>1. ASSUME NEW c \in Clients PROVE PlaceOf(c) = Nowhere
    <3>1. PlacesOf(c) = {} /\ state[c] = "free"
      BY NullAssumption DEF Init, PlacesOf
    <3> QED
      BY <3>1 DEF PlaceOf
  <2> QED
    BY <2>1 DEF place, Abstract!Away, Nowhere
<1>2. PInv /\ PlaceSays /\ PlaceSays' /\ [Next]_vars => [Abstract!Next]_place
  BY RefinementStep
<1>3. Spec => []PInv
  BY InitPInv, StepPInv, PTL DEF Spec
<1>4. [][Abstract!Next]_place => [][Abstract!Next]_[c \in Clients |-> PlaceOf(c)]
  BY DEF place
<1> QED
  BY <1>1, <1>2, <1>3, <1>4, PlaceSaysSo, PTL DEF Spec, ImplementsChatRooms, Abstract!Spec

=============================================================================
