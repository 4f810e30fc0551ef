--------------------- MODULE ClientHandoffOwnersProofs ---------------------
(***************************************************************************)
(* Who owns a descriptor: proofs that no two threads hold the same one,    *)
(* that none is lost, and that the epoll instances and the events taken    *)
(* from them agree with the slots, on top of the invariant of              *)
(* ClientHandoffProofs.                                                    *)
(***************************************************************************)
EXTENDS ClientHandoffProofs

\* The descriptor main has in hand, the one a worker is registering, and the
\* one a slot still answers for; NoFd if there is none. The eventfd is another
\* place that holds one.
MainFd == IF main_pc \in MainHolds THEN client_fd ELSE NoFd
WorkerFd(w) == IF thread_pc[w] \in WorkerHolds THEN value[w] ELSE NoFd
SlotFd(w, i) ==
    IF thread_pc[w] = "cleanup_memset" /\ current[w] = i THEN NoFd ELSE clients[w][i]

\* What main holds is open, and nobody else holds it; and so on for the other
\* places.
MainOwns ==
    MainFd # NoFd =>
        /\ MainFd \in open
        /\ \A w \in Workers : /\ notification[w] # MainFd
                              /\ WorkerFd(w) # MainFd
                              /\ \A i \in Slots : SlotFd(w, i) # MainFd
EventfdOwns ==
    \A w \in Workers : notification[w] # NoFd =>
        /\ notification[w] \in open
        /\ \A v \in Workers : /\ v # w => notification[v] # notification[w]
                              /\ WorkerFd(v) # notification[w]
                              /\ \A i \in Slots : SlotFd(v, i) # notification[w]
WorkerOwns ==
    \A w \in Workers : WorkerFd(w) # NoFd =>
        /\ WorkerFd(w) \in open
        /\ \A v \in Workers : /\ v # w => WorkerFd(v) # WorkerFd(w)
                              /\ \A i \in Slots : SlotFd(v, i) # WorkerFd(w)
SlotOwns ==
    \A w \in Workers, i \in Slots : SlotFd(w, i) # NoFd =>
        /\ SlotFd(w, i) \in open
        /\ \A v \in Workers, j \in Slots :
              SlotFd(v, j) = SlotFd(w, i) => v = w /\ j = i

OwnerInv == MainOwns /\ EventfdOwns /\ WorkerOwns /\ SlotOwns

-----------------------------------------------------------------------------
\* The places a step leaves alone.
SameMain == MainFd' = MainFd
SameEventfds == notification' = notification
SameWorkers == \A w \in Workers : WorkerFd(w)' = WorkerFd(w)
SameSlots == \A w \in Workers, i \in Slots : SlotFd(w, i)' = SlotFd(w, i)
SamePlaces == SameMain /\ SameEventfds /\ SameWorkers /\ SameSlots

USE FDsAssumption DEF NoFd

\* The steps of main: what becomes of the descriptor in hand.
LEMMA MainPlaces ==
    ASSUME IInv, Accept \/ MainStep
    PROVE  /\ SameWorkers /\ SameSlots
           /\ \/ SamePlaces /\ open' = open
              \/ Accept /\ SameEventfds /\ MainFd = NoFd /\ open' = open \cup {MainFd'}
                 /\ MainFd' \in FDs \ open
              \/ KeepaliveFails /\ SameEventfds /\ MainFd' = NoFd /\ open' = open
              \/ SameEventfds /\ MainFd' = NoFd /\ MainFd # NoFd /\ open' = open \ {MainFd}
              \/ /\ MainFd' = NoFd /\ MainFd # NoFd /\ open' = open
                 /\ selected_worker \in Workers /\ notification[selected_worker] = NoFd
                 /\ notification' = [notification EXCEPT ![selected_worker] = MainFd]
<1>1. UNCHANGED workerVars
  BY DEF MainStep, Accept, KeepaliveOk, KeepaliveFails, ScanFull, ScanTake, Reject, SemWait,
         Write, WriteFails, WriteErrorPost, WriteErrorClose, WriteErrorRelease
<1>2. SameWorkers /\ SameSlots
  BY <1>1 DEF workerVars, SameWorkers, SameSlots, WorkerFd, SlotFd
<1>3. main_pc \in MainHolds => client_fd \in FDs /\ client_fd \in Nat /\ client_fd # NoFd
  BY DEF IInv, HoldsFd
<1> USE DEF SamePlaces, SameMain, SameEventfds, MainFd, MainHolds
<1>4. CASE Accept
  BY <1>2, <1>4 DEF Accept, sharedVars
<1>5. CASE KeepaliveOk \/ ScanFull \/ ScanTake \/ SemWait \/ WriteFails \/ WriteErrorPost
           \/ WriteErrorRelease
  BY <1>2, <1>5 DEF KeepaliveOk, ScanFull, ScanTake, SemWait, WriteFails, WriteErrorPost,
     WriteErrorRelease, sharedVars, kernelVars
<1>6. CASE KeepaliveFails
  BY <1>2, <1>6 DEF KeepaliveFails, sharedVars, kernelVars
<1>7. CASE Reject \/ WriteErrorClose
  <2>1. client_fd # NoFd /\ MainFd = client_fd
    BY <1>3, <1>7 DEF Reject, WriteErrorClose
  <2>2. MainFd' = NoFd /\ open' = open \ {client_fd} /\ notification' = notification
    BY <1>7 DEF Reject, WriteErrorClose, Close, sharedVars
  <2> QED
    BY <1>2, <2>1, <2>2
<1>8. CASE Write
  <2>1. /\ notification[selected_worker] = NoFd /\ selected_worker \in Workers
        /\ client_fd \in Nat /\ client_fd # NoFd
        /\ notification \in [Workers -> FDs \cup {NoFd}]
    BY <1>3, <1>8, MainTookToken, NotificationNat DEF Write, IInv, TypeOK
  <2>2. 0 + client_fd = client_fd
    BY <2>1
  <2>3. notification' = [notification EXCEPT ![selected_worker] = client_fd]
    BY <1>8, <2>1, <2>2 DEF Write
  <2> QED
    BY <1>2, <1>8, <2>1, <2>3 DEF Write, kernelVars
<1> QED
  BY <1>4, <1>5, <1>6, <1>7, <1>8 DEF MainStep

\* The steps of a worker.
LEMMA WorkerPlaces ==
    ASSUME IInv, NEW v \in Workers, WorkerStep(v)
    PROVE  /\ SameMain
           /\ \A w \in Workers \ {v} : /\ WorkerFd(w)' = WorkerFd(w)
                                       /\ \A i \in Slots : SlotFd(w, i)' = SlotFd(w, i)
           /\ \/ SamePlaces /\ open' = open
              \/ /\ SameSlots /\ open' = open
                 /\ WorkerFd(v) = NoFd /\ WorkerFd(v)' = notification[v]
                 /\ notification' = [notification EXCEPT ![v] = NoFd]
              \/ /\ SameEventfds /\ open' = open
                 /\ WorkerFd(v) # NoFd /\ WorkerFd(v)' = NoFd
                 /\ \E i \in Slots : /\ SlotFd(v, i) = NoFd /\ SlotFd(v, i)' = WorkerFd(v)
                                     /\ \A j \in Slots \ {i} : SlotFd(v, j)' = SlotFd(v, j)
              \/ /\ SameEventfds /\ SameSlots /\ open' = open \ {WorkerFd(v)}
                 /\ WorkerFd(v) # NoFd /\ WorkerFd(v)' = NoFd
              \/ /\ SameEventfds /\ SameWorkers
                 /\ \E i \in Slots : /\ SlotFd(v, i) # NoFd /\ SlotFd(v, i)' = NoFd
                                     /\ open' = open \ {SlotFd(v, i)}
                                     /\ \A j \in Slots \ {i} : SlotFd(v, j)' = SlotFd(v, j)
<1>0. /\ thread_pc \in [Workers -> ThreadPcs]
      /\ value \in [Workers -> FDs \cup {NoFd}]
      /\ clients \in [Workers -> [Slots -> FDs \cup {NoFd}]]
      /\ current \in [Workers -> Slots]
      /\ notification \in [Workers -> FDs \cup {NoFd}]
      /\ thread_pc[v] \in WorkerHolds => value[v] \in FDs /\ value[v] # NoFd
      /\ thread_pc[v] \in {"cleanup_close", "cleanup_memset"} => clients[v][current[v]] # NoFd
  BY DEF IInv, TypeOK, HoldsFd, ServesClient
<1>1. SameMain
  BY DEF WorkerStep, HandlerStep, OwnStep,
     Start, EpollWait, DispatchNotification, DispatchClient, Recv,
     Serve, CleanupEpoll, CleanupClose, CleanupMemset, CleanupRelease, RegisterRead,
     RegisterPost, RegisterAdd, RegisterAddFails, RegisterAllocate, RegisterDrop,
     RegisterWelcome, mainVars, SameMain, MainFd
<1> USE DEF SamePlaces, SameEventfds, SameWorkers, SameSlots, WorkerFd, SlotFd, WorkerHolds,
            Done, NextEvent
<1>2. CASE Start(v) \/ EpollWait(v) \/ DispatchNotification(v) \/ Recv(v)
           \/ Serve(v) \/ CleanupEpoll(v) \/ CleanupRelease(v)
  BY <1>0, <1>1, <1>2 DEF Start, EpollWait, DispatchNotification, Recv,
     Serve, CleanupEpoll, CleanupRelease, sharedVars, kernelVars
<1>3. CASE DispatchClient(v)
  <2>1. /\ thread_pc[v] = "dispatch" /\ UNCHANGED <<sharedVars, kernelVars, value, clients>>
        /\ \A w \in Workers \ {v} : thread_pc'[w] = thread_pc[w] /\ current'[w] = current[w]
    BY <1>0, <1>3 DEF DispatchClient
  <2>2. thread_pc'[v] \in {"epoll_wait", "dispatch", "cleanup_epoll", "recv"}
    BY <1>0, <1>3 DEF DispatchClient
  <2> QED
    BY <1>0, <1>1, <2>1, <2>2 DEF sharedVars, kernelVars
<1>4. CASE RegisterPost(v) \/ RegisterAdd(v) \/ RegisterAddFails(v) \/ RegisterWelcome(v)
  BY <1>0, <1>1, <1>4 DEF RegisterPost, RegisterAdd, RegisterAddFails, RegisterWelcome,
     sharedVars, kernelVars
<1>5. CASE CleanupMemset(v)
  BY <1>0, <1>1, <1>5 DEF CleanupMemset, sharedVars, kernelVars
<1>6. CASE CleanupClose(v)
  <2>0. PICK i \in Slots : i = current[v]
    BY <1>0
  <2>1. /\ SlotFd(v, i) # NoFd /\ SlotFd(v, i)' = NoFd
        /\ open' = open \ {SlotFd(v, i)}
        /\ \A j \in Slots \ {i} : SlotFd(v, j)' = SlotFd(v, j)
    BY <1>0, <1>6, <2>0 DEF CleanupClose, Close
  <2>2. SameEventfds /\ SameWorkers
        /\ \A w \in Workers \ {v} : \A j \in Slots : SlotFd(w, j)' = SlotFd(w, j)
    BY <1>0, <1>6 DEF CleanupClose, sharedVars
  <2> HIDE DEF WorkerFd, SlotFd
  <2> QED
    BY <1>1, <2>1, <2>2
<1>7. CASE RegisterRead(v)
  <2>1. notification[v] # 0
    BY <1>7 DEF RegisterRead, IInv, NotificationPending
  <2> QED
    BY <1>0, <1>1, <1>7, <2>1 DEF RegisterRead, kernelVars
<1>8. CASE RegisterAllocate(v)
  <2>1. FreeSlots(v) # {}
    BY <1>8, SlotForAllocation DEF RegisterAllocate, AllocationNeverFails
  <2>2. PICK i \in FreeSlots(v) : clients' = [clients EXCEPT ![v][i] = value[v]]
    BY <1>8, <2>1 DEF RegisterAllocate
  <2>3. i \in Slots /\ clients[v][i] = NoFd
    BY <2>2 DEF FreeSlots, UsedSlots
  <2>4. /\ thread_pc[v] = "register_allocate"
        /\ thread_pc' = [thread_pc EXCEPT ![v] = "register_welcome"]
        /\ UNCHANGED <<value, current, notification, open>>
    BY <1>8, <2>1 DEF RegisterAllocate, kernelVars
  <2>5. WorkerFd(v) = value[v] /\ WorkerFd(v) # NoFd /\ WorkerFd(v)' = NoFd
    BY <1>0, <2>4
  <2>6. thread_pc[v] # "cleanup_memset" /\ thread_pc'[v] # "cleanup_memset"
    BY <1>0, <2>4
  <2>7. clients'[v][i] = value[v] /\ \A j \in Slots \ {i} : clients'[v][j] = clients[v][j]
    BY <1>0, <2>2, <2>3
  <2>8. SlotFd(v, i) = NoFd /\ SlotFd(v, i)' = WorkerFd(v)
        /\ \A j \in Slots \ {i} : SlotFd(v, j)' = SlotFd(v, j)
    BY <2>3, <2>5, <2>6, <2>7
  <2>9. \A w \in Workers \ {v} : /\ WorkerFd(w)' = WorkerFd(w)
                                 /\ \A j \in Slots : SlotFd(w, j)' = SlotFd(w, j)
    BY <1>0, <2>2, <2>4
  <2> HIDE DEF WorkerFd, SlotFd
  <2> QED
    BY <1>1, <2>3, <2>4, <2>5, <2>8, <2>9
<1>9. CASE RegisterDrop(v)
  <2>1. thread_pc[v] = "register_drop" /\ NextEvent(batch[v]) \in {"epoll_wait", "dispatch"}
    BY <1>9 DEF RegisterDrop
  <2>2. /\ thread_pc' = [thread_pc EXCEPT ![v] = NextEvent(batch[v])]
        /\ value' = [value EXCEPT ![v] = NoFd]
        /\ open' = open \ {value[v]}
        /\ UNCHANGED <<notification, clients, current>>
    BY <1>9 DEF RegisterDrop, Close, sharedVars
  <2> HIDE DEF NextEvent
  <2>3. WorkerFd(v) = value[v] /\ WorkerFd(v) # NoFd /\ WorkerFd(v)' = NoFd
    BY <1>0, <2>1, <2>2
  <2>4. SameSlots /\ \A w \in Workers \ {v} : WorkerFd(w)' = WorkerFd(w)
    BY <1>0, <2>1, <2>2
  <2> QED
    BY <1>1, <2>2, <2>3, <2>4
<1> QED
  BY <1>2, <1>3, <1>4, <1>5, <1>6, <1>7, <1>8, <1>9 DEF WorkerStep, HandlerStep, OwnStep

-----------------------------------------------------------------------------
\* What the places hold are descriptors.
LEMMA PlacesHoldFds ==
    ASSUME IInv
    PROVE  /\ MainFd \in FDs \cup {NoFd}
           /\ notification \in [Workers -> FDs \cup {NoFd}]
           /\ \A w \in Workers : /\ WorkerFd(w) \in FDs \cup {NoFd}
                                 /\ \A i \in Slots : SlotFd(w, i) \in FDs \cup {NoFd}
  BY DEF IInv, TypeOK, MainFd, WorkerFd, SlotFd

\* When nothing moves, nothing changes hands.
LEMMA OwnerKept ==
    ASSUME OwnerInv, SamePlaces, open' = open
    PROVE  OwnerInv'
  BY DEF OwnerInv, SamePlaces, SameMain, SameEventfds, SameWorkers, SameSlots, MainOwns,
     EventfdOwns, WorkerOwns, SlotOwns

\* A step of main accepts a descriptor that is free, and so held by nobody,
\* gives up the one it holds, or puts it into an empty eventfd.
LEMMA OwnerMain ==
    ASSUME IInv, OwnerInv, Accept \/ MainStep
    PROVE  OwnerInv'
<1>0. SameWorkers /\ SameSlots
  BY MainPlaces
<1>t. notification \in [Workers -> FDs \cup {NoFd}]
  BY PlacesHoldFds
<1> USE DEF OwnerInv, SameMain, SameEventfds, SameWorkers, SameSlots, MainOwns, EventfdOwns,
            WorkerOwns, SlotOwns
<1> HIDE DEF NoFd
<1>1. CASE SamePlaces /\ open' = open
  BY <1>1, OwnerKept
<1>2. CASE /\ SameEventfds /\ MainFd = NoFd /\ open' = open \cup {MainFd'}
           /\ MainFd' \in FDs \ open
  BY <1>0, <1>2
<1>3. CASE SameEventfds /\ MainFd' = NoFd /\ open' = open
  BY <1>0, <1>3
<1>4. CASE SameEventfds /\ MainFd' = NoFd /\ MainFd # NoFd /\ open' = open \ {MainFd}
  BY <1>0, <1>4
<1>5. CASE /\ MainFd' = NoFd /\ MainFd # NoFd /\ open' = open
           /\ selected_worker \in Workers /\ notification[selected_worker] = NoFd
           /\ notification' = [notification EXCEPT ![selected_worker] = MainFd]
  BY <1>0, <1>t, <1>5
<1> QED
  BY <1>1, <1>2, <1>3, <1>4, <1>5, MainPlaces

\* A step of a worker moves a descriptor from the eventfd to its hand, from
\* there to a slot, or gives it up.
LEMMA OwnerWorker ==
    ASSUME IInv, OwnerInv, NEW v \in Workers, WorkerStep(v)
    PROVE  OwnerInv'
<1>0. /\ SameMain
      /\ \A w \in Workers \ {v} : /\ WorkerFd(w)' = WorkerFd(w)
                                  /\ \A i \in Slots : SlotFd(w, i)' = SlotFd(w, i)
  BY WorkerPlaces
<1>t. notification \in [Workers -> FDs \cup {NoFd}]
  BY PlacesHoldFds
<1> USE DEF OwnerInv, SameMain, SameEventfds, SameWorkers, SameSlots, MainOwns, EventfdOwns,
            WorkerOwns, SlotOwns
<1> HIDE DEF NoFd
<1>1. CASE SamePlaces /\ open' = open
  BY <1>1, OwnerKept
<1>2. CASE /\ SameSlots /\ open' = open
           /\ WorkerFd(v) = NoFd /\ WorkerFd(v)' = notification[v]
           /\ notification' = [notification EXCEPT ![v] = NoFd]
  BY <1>0, <1>t, <1>2
<1>3. CASE /\ SameEventfds /\ open' = open
           /\ WorkerFd(v) # NoFd /\ WorkerFd(v)' = NoFd
           /\ \E i \in Slots : /\ SlotFd(v, i) = NoFd /\ SlotFd(v, i)' = WorkerFd(v)
                               /\ \A j \in Slots \ {i} : SlotFd(v, j)' = SlotFd(v, j)
  BY <1>0, <1>3
<1>4. CASE /\ SameEventfds /\ SameSlots /\ open' = open \ {WorkerFd(v)}
           /\ WorkerFd(v) # NoFd /\ WorkerFd(v)' = NoFd
  BY <1>0, <1>4
<1>5. CASE /\ SameEventfds /\ SameWorkers
           /\ \E i \in Slots : /\ SlotFd(v, i) # NoFd /\ SlotFd(v, i)' = NoFd
                               /\ open' = open \ {SlotFd(v, i)}
                               /\ \A j \in Slots \ {i} : SlotFd(v, j)' = SlotFd(v, j)
  BY <1>0, <1>5
<1> QED
  BY <1>1, <1>2, <1>3, <1>4, <1>5, WorkerPlaces

\* Peers and stuttering move nothing.
LEMMA PeersMoveNothing ==
    ASSUME (\E f \in FDs : PeerSend(f) \/ PeerClose(f)) \/ UNCHANGED vars
    PROVE  SamePlaces /\ open' = open
  BY DEF PeerSend, PeerClose, vars, mainVars, workerVars, sharedVars, kernelVars, SamePlaces,
     SameMain, SameEventfds, SameWorkers, SameSlots, MainFd, WorkerFd, SlotFd

LEMMA OwnerInit == Init => OwnerInv
  BY DEF Init, OwnerInv, MainOwns, EventfdOwns, WorkerOwns, SlotOwns, MainFd, WorkerFd, SlotFd,
     MainHolds, WorkerHolds

LEMMA OwnerStep == IInv /\ OwnerInv /\ [Next]_vars => OwnerInv'
  BY OwnerMain, OwnerWorker, PeersMoveNothing, OwnerKept DEF Next

\* Of the places that hold a descriptor there is only one.
LEMMA OneHolds ==
    ASSUME IInv, OwnerInv, NEW f \in FDs
    PROVE  /\ \A o, p \in Owners(f) : o = p
           /\ Owners(f) # {} => f \in open
<1>1. f # NoFd
  OBVIOUS
<1>2. ASSUME NEW o \in Owners(f)
      PROVE  \/ o = <<"main", 0, 0>> /\ MainFd = f
             \/ \E w \in Workers : o = <<"eventfd", w, 0>> /\ notification[w] = f
             \/ \E w \in Workers : o = <<"worker", w, 0>> /\ WorkerFd(w) = f
             \/ \E w \in Workers, i \in Slots : o = <<"slot", w, i>> /\ SlotFd(w, i) = f
  <2>1. CASE o \in {<<"main", 0, 0>> : x \in {y \in {main_pc} : y \in MainHolds
                                                                  /\ client_fd = f}}
    BY <2>1 DEF MainFd
  <2>2. CASE o \in {<<"eventfd", w, 0>> : w \in {u \in Workers : notification[u] = f}}
    BY <2>2
  <2>3. CASE o \in {<<"worker", w, 0>> : w \in {u \in Workers : thread_pc[u] \in WorkerHolds
                                                                  /\ value[u] = f}}
    BY <2>3 DEF WorkerFd
  <2>4. CASE o \in {<<"slot", s[1], s[2]>> : s \in {t \in Workers \X Slots :
                       /\ clients[t[1]][t[2]] = f
                       /\ ~ (thread_pc[t[1]] = "cleanup_memset" /\ current[t[1]] = t[2])}}
    BY <2>4 DEF SlotFd
  <2> QED
    BY <2>1, <2>2, <2>3, <2>4 DEF Owners
<1> USE DEF OwnerInv, MainOwns, EventfdOwns, WorkerOwns, SlotOwns
<1> HIDE DEF NoFd
<1>3. ASSUME NEW o \in Owners(f), NEW p \in Owners(f)
      PROVE  o = p
  BY <1>1, <1>2, <1>3
<1>4. Owners(f) # {} => f \in open
  BY <1>1, <1>2
<1> QED
  BY <1>3, <1>4

\* No descriptor is ever in two hands, and none is in any after its close,
\* although accept4 may return its number before cleanup_client is done with
\* the slot.
THEOREM OneOwnerCorrect == Spec => []OneOwner
<1>1. IInv /\ OwnerInv => OneOwner
  <2> SUFFICES ASSUME IInv, OwnerInv, NEW f \in FDs
               PROVE  Cardinality(Owners(f)) <= 1 /\ (Owners(f) # {} => f \in open)
    BY DEF OneOwner
  <2>1. CASE Owners(f) = {}
    BY <2>1, FS_EmptySet
  <2>2. CASE Owners(f) # {}
    <3>0. PICK o \in Owners(f) : TRUE
      BY <2>2
    <3>1. Owners(f) = {o}
      BY <3>0, OneHolds
    <3>2. Cardinality({o}) = 1
      BY FS_Singleton
    <3> QED
      BY <3>1, <3>2, OneHolds
  <2> QED
    BY <2>1, <2>2
<1> QED
  BY <1>1, OwnerInit, OwnerStep, IInvInvariant, PTL DEF Spec

-----------------------------------------------------------------------------
\* Every open descriptor is in one of the places.
HeldInv ==
    \A f \in open :
        \/ MainFd = f
        \/ \E w \in Workers : notification[w] = f \/ WorkerFd(w) = f
        \/ \E w \in Workers, i \in Slots : SlotFd(w, i) = f

\* A descriptor leaves a place for another one or is closed, but for a failed
\* setsockopt.
LEMMA HeldStep ==
    ASSUME "setsockopt" \notin Faults, IInv, OwnerInv, HeldInv, [Next]_vars
    PROVE  HeldInv'
<1>t. /\ notification \in [Workers -> FDs \cup {NoFd}]
      /\ open \subseteq FDs /\ NoFd \notin FDs
  BY PlacesHoldFds DEF IInv, TypeOK
<1> USE DEF HeldInv, SameMain, SameEventfds, SameWorkers, SameSlots
<1> HIDE DEF NoFd
<1>0. ASSUME SamePlaces, open' = open PROVE HeldInv'
  BY <1>0 DEF SamePlaces
<1>1. ASSUME Accept \/ MainStep PROVE HeldInv'
  <2>0. SameWorkers /\ SameSlots
    BY <1>1, MainPlaces
  <2>1. CASE SamePlaces /\ open' = open
    BY <1>0, <2>1
  <2>2. CASE SameEventfds /\ MainFd = NoFd /\ open' = open \cup {MainFd'}
    BY <1>t, <2>0, <2>2
  <2>3. ~ KeepaliveFails
    BY DEF KeepaliveFails
  <2>4. CASE SameEventfds /\ MainFd' = NoFd /\ MainFd # NoFd /\ open' = open \ {MainFd}
    BY <2>0, <2>4
  <2>5. CASE /\ MainFd' = NoFd /\ MainFd # NoFd /\ open' = open
             /\ selected_worker \in Workers /\ notification[selected_worker] = NoFd
             /\ notification' = [notification EXCEPT ![selected_worker] = MainFd]
    BY <1>t, <2>0, <2>5
  <2> QED
    BY <1>1, <2>1, <2>2, <2>3, <2>4, <2>5, MainPlaces
<1>2. ASSUME NEW v \in Workers, WorkerStep(v) PROVE HeldInv'
  <2>0. /\ SameMain
        /\ \A w \in Workers \ {v} : /\ WorkerFd(w)' = WorkerFd(w)
                                    /\ \A i \in Slots : SlotFd(w, i)' = SlotFd(w, i)
    BY <1>2, WorkerPlaces
  <2>1. CASE SamePlaces /\ open' = open
    BY <1>0, <2>1
  <2>2. CASE /\ SameSlots /\ open' = open
             /\ WorkerFd(v) = NoFd /\ WorkerFd(v)' = notification[v]
             /\ notification' = [notification EXCEPT ![v] = NoFd]
    BY <1>t, <2>0, <2>2
  <2>3. CASE /\ SameEventfds /\ open' = open
             /\ \E i \in Slots : /\ SlotFd(v, i) = NoFd /\ SlotFd(v, i)' = WorkerFd(v)
                                 /\ \A j \in Slots \ {i} : SlotFd(v, j)' = SlotFd(v, j)
    BY <1>t, <2>0, <2>3
  <2>4. CASE SameEventfds /\ SameSlots /\ open' = open \ {WorkerFd(v)}
    BY <1>t, <2>0, <2>4
  <2>5. CASE /\ SameEventfds /\ SameWorkers
             /\ \E i \in Slots : /\ SlotFd(v, i) # NoFd /\ open' = open \ {SlotFd(v, i)}
                                 /\ \A j \in Slots \ {i} : SlotFd(v, j)' = SlotFd(v, j)
    BY <1>t, <2>0, <2>5
  <2> QED
    BY <1>2, <2>1, <2>2, <2>3, <2>4, <2>5, WorkerPlaces
<1> QED
  BY <1>0, <1>1, <1>2, PeersMoveNothing DEF Next

\* While setsockopt does not fail, every descriptor that accept4 returned is
\* closed or still in the hands of main, an eventfd, a worker or a slot.
THEOREM NoLeakCorrect ==
    ASSUME "setsockopt" \notin Faults
    PROVE  Spec => []NoFdLeak
<1>1. Init => HeldInv
  BY DEF Init, HeldInv
<1>2. IInv /\ OwnerInv /\ HeldInv /\ [Next]_vars => HeldInv'
  BY HeldStep
<1>3. IInv /\ HeldInv => NoFdLeak
  <2> SUFFICES ASSUME IInv, HeldInv, NEW f \in open PROVE Owners(f) # {}
    BY DEF NoFdLeak
  <2>0. f \in FDs /\ f # NoFd
    BY DEF IInv, TypeOK
  <2>1. CASE MainFd = f
    <3>1. <<"main", 0, 0>> \in Owners(f)
      BY <2>0, <2>1 DEF MainFd, Owners
    <3> QED
      BY <3>1
  <2>2. ASSUME NEW w \in Workers, notification[w] = f PROVE Owners(f) # {}
    <3>1. <<"eventfd", w, 0>> \in Owners(f)
      BY <2>2 DEF Owners
    <3> QED
      BY <3>1
  <2>3. ASSUME NEW w \in Workers, WorkerFd(w) = f PROVE Owners(f) # {}
    <3>1. <<"worker", w, 0>> \in Owners(f)
      BY <2>0, <2>3 DEF WorkerFd, Owners
    <3> QED
      BY <3>1
  <2>4. ASSUME NEW w \in Workers, NEW i \in Slots, SlotFd(w, i) = f PROVE Owners(f) # {}
    <3>1. <<w, i>> \in {t \in Workers \X Slots :
                          /\ clients[t[1]][t[2]] = f
                          /\ ~ (thread_pc[t[1]] = "cleanup_memset" /\ current[t[1]] = t[2])}
      BY <2>0, <2>4 DEF SlotFd
    <3>2. <<"slot", w, i>> \in Owners(f)
      BY <3>1 DEF Owners
    <3> QED
      BY <3>2
  <2> QED
    BY <2>1, <2>2, <2>3, <2>4 DEF HeldInv
<1> QED
  BY <1>1, <1>2, <1>3, OwnerInit, OwnerStep, IInvInvariant, PTL DEF Spec

-----------------------------------------------------------------------------
\* The client in slot i of w is being disconnected and no longer watched.
Leaving(w, i) == thread_pc[w] \in {"cleanup_close", "cleanup_memset"} /\ current[w] = i

\* No two slots of a worker hold the same descriptor, the one being closed
\* included.
SlotsDiffer(w) ==
    \A i, j \in Slots : clients[w][i] # NoFd /\ clients[w][i] = clients[w][j] => i = j

\* EpollMatchesSlots, one descriptor at a time.
Watches(w) ==
    \A f \in FDs :
        f \in epoll[w] <=>
            \/ \E i \in Slots : clients[w][i] = f /\ ~ Leaving(w, i)
            \/ thread_pc[w] = "register_allocate" /\ value[w] = f

\* The events still to do are of different clients that have slots, and not of
\* the client being served.
BatchOfClients(w) ==
    /\ \A e \in batch[w] :
          e.fd # NotificationFd => e.fd \in FDs /\ \E i \in Slots : clients[w][i] = e.fd
    /\ \A d, e \in batch[w] : d.fd = e.fd => d = e
    /\ thread_pc[w] \in {"recv", "serve", "cleanup_epoll", "cleanup_close", "cleanup_memset"} =>
          \A e \in batch[w] : e.fd # clients[w][current[w]]

WorkerInv(w) == SlotsDiffer(w) /\ Watches(w) /\ BatchOfClients(w)

\* It speaks of the worker's own state only.
LEMMA WorkerInvKept ==
    ASSUME NEW w \in Workers, WorkerInv(w),
           thread_pc'[w] = thread_pc[w], value'[w] = value[w], clients'[w] = clients[w],
           epoll'[w] = epoll[w], batch'[w] = batch[w], current'[w] = current[w]
    PROVE  WorkerInv(w)'
  BY DEF WorkerInv, SlotsDiffer, Watches, Leaving, BatchOfClients

LEMMA OthersLeaveAlone ==
    ASSUME IInv, NEW w \in Workers,
           \/ Accept \/ MainStep \/ UNCHANGED vars
           \/ \E v \in Workers \ {w} : WorkerStep(v)
           \/ \E f \in FDs : PeerSend(f) \/ PeerClose(f)
    PROVE  /\ thread_pc'[w] = thread_pc[w] /\ value'[w] = value[w]
           /\ clients'[w] = clients[w] /\ epoll'[w] = epoll[w]
           /\ batch'[w] = batch[w] /\ current'[w] = current[w]
<1>0. /\ thread_pc \in [Workers -> ThreadPcs]
      /\ value \in [Workers -> FDs \cup {NoFd}]
      /\ clients \in [Workers -> [Slots -> FDs \cup {NoFd}]]
      /\ epoll \in [Workers -> SUBSET FDs]
      /\ batch \in [Workers -> SUBSET Events]
      /\ current \in [Workers -> Slots]
  BY DEF IInv, TypeOK
<1>1. CASE Accept \/ MainStep
  BY <1>1 DEF MainStep, Accept, KeepaliveOk, KeepaliveFails, ScanFull, ScanTake, Reject,
     SemWait, Write, WriteFails, WriteErrorPost, WriteErrorClose, WriteErrorRelease, workerVars
<1>2. CASE UNCHANGED vars \/ \E f \in FDs : PeerSend(f) \/ PeerClose(f)
  BY <1>2 DEF PeerSend, PeerClose, vars, workerVars
<1>3. ASSUME NEW v \in Workers \ {w}, WorkerStep(v)
      PROVE  /\ thread_pc'[w] = thread_pc[w] /\ value'[w] = value[w]
             /\ clients'[w] = clients[w] /\ epoll'[w] = epoll[w]
             /\ batch'[w] = batch[w] /\ current'[w] = current[w]
  <2>1. CASE \/ Start(v) \/ EpollWait(v) \/ DispatchNotification(v) \/ Recv(v)
             \/ Serve(v) \/ CleanupEpoll(v) \/ CleanupClose(v) \/ CleanupMemset(v)
             \/ CleanupRelease(v) \/ RegisterRead(v)
    BY <1>0, <2>1 DEF Start, EpollWait, DispatchNotification, Recv, Serve,
       CleanupEpoll, CleanupClose, CleanupMemset, CleanupRelease, RegisterRead, Done
  <2>2. CASE \/ RegisterPost(v) \/ RegisterAdd(v) \/ RegisterAddFails(v)
             \/ RegisterAllocate(v) \/ RegisterDrop(v) \/ RegisterWelcome(v)
    BY <1>0, <2>2 DEF RegisterPost, RegisterAdd, RegisterAddFails, RegisterAllocate,
       RegisterDrop, RegisterWelcome, Done
  <2>3. CASE DispatchClient(v)
    BY <1>0, <2>3 DEF DispatchClient
  <2> QED
    BY <1>3, <2>1, <2>2, <2>3 DEF WorkerStep, HandlerStep, OwnStep
<1> QED
  BY <1>1, <1>2, <1>3

\* The worker's own steps.
LEMMA WorkerInvStep ==
    ASSUME IInv, OwnerInv, NEW w \in Workers, WorkerInv(w), WorkerStep(w)
    PROVE  WorkerInv(w)'
<1>0. /\ thread_pc \in [Workers -> ThreadPcs]
      /\ value \in [Workers -> FDs \cup {NoFd}]
      /\ clients \in [Workers -> [Slots -> FDs \cup {NoFd}]]
      /\ epoll \in [Workers -> SUBSET FDs]
      /\ batch \in [Workers -> SUBSET Events]
      /\ current \in [Workers -> Slots]
      /\ thread_pc[w] \in WorkerHolds => value[w] \in FDs
      /\ \A e \in batch[w] : e.fd = NotificationFd => ~ e.hup
  BY DEF IInv, TypeOK, HoldsFd, NotificationPending
<1>f. NotificationFd \notin FDs
  BY DEF NotificationFd
<1> HIDE DEF NoFd
<1> USE DEF WorkerInv, SlotsDiffer, Watches, Leaving, BatchOfClients
<1>1. CASE Start(w) \/ Recv(w) \/ Serve(w) \/ CleanupRelease(w)
  BY <1>0, <1>1 DEF Start, Recv, Serve, CleanupRelease, Done, NextEvent
<1>2. CASE RegisterRead(w) \/ RegisterPost(w) \/ RegisterAddFails(w) \/ RegisterWelcome(w)
  <2>1. /\ thread_pc[w] \in {"register_read", "register_post", "register_add",
                             "register_welcome"}
        /\ UNCHANGED <<clients, epoll, batch, current>>
    BY <1>2 DEF RegisterRead, RegisterPost, RegisterAddFails, RegisterWelcome
  <2>2. thread_pc'[w] \in {"register_post", "register_add", "register_drop", "epoll_wait",
                          "dispatch"}
    BY <1>0, <1>2 DEF RegisterRead, RegisterPost, RegisterAddFails, RegisterWelcome, Done,
       NextEvent
  <2>3. Watches(w)'
    BY <2>1, <2>2
  <2>4. SlotsDiffer(w)' /\ BatchOfClients(w)'
    BY <2>1, <2>2
  <2> QED
    BY <2>3, <2>4
<1>3. CASE EpollWait(w)
  <2>1. \A e \in Ready(w) :
            \/ e.fd \in epoll[w] /\ e = [fd |-> e.fd, hup |-> peer[e.fd] = "closed"]
            \/ e = [fd |-> NotificationFd, hup |-> FALSE]
    BY DEF Ready
  <2>2. \A e \in Ready(w) : e.fd # NotificationFd => e.fd \in epoll[w]
    BY <2>1
  <2>3. ASSUME NEW d \in Ready(w), NEW e \in Ready(w), d.fd = e.fd
        PROVE  d = e
    <3>1. CASE d.fd \in epoll[w]
      <4>1. d.fd # NotificationFd
        BY <1>0, <1>f, <3>1
      <4>2. /\ d = [fd |-> d.fd, hup |-> peer[d.fd] = "closed"]
            /\ e = [fd |-> e.fd, hup |-> peer[e.fd] = "closed"]
        BY <2>1, <2>3, <4>1
      <4> QED
        BY <2>3, <4>2, Zenon
    <3>2. CASE d.fd \notin epoll[w]
      BY <2>1, <2>3, <3>2
    <3> QED
      BY <3>1, <3>2
  <2>4. /\ thread_pc[w] = "epoll_wait" /\ thread_pc'[w] = "dispatch"
        /\ batch'[w] = Ready(w)
        /\ UNCHANGED <<value, clients, epoll, current>>
    BY <1>0, <1>3 DEF EpollWait
  <2>5. SlotsDiffer(w)' /\ Watches(w)'
    BY <2>4
  <2>6. ASSUME NEW e \in Ready(w), e.fd # NotificationFd
        PROVE  e.fd \in FDs /\ \E i \in Slots : clients[w][i] = e.fd
    <3>1. e.fd \in epoll[w] /\ e.fd \in FDs
      BY <1>0, <2>2, <2>6
    <3> QED
      BY <2>4, <3>1
  <2>7. BatchOfClients(w)'
    BY <2>3, <2>4, <2>6
  <2> QED
    BY <2>5, <2>7
<1>4. CASE DispatchNotification(w)
  BY <1>0, <1>4 DEF DispatchNotification
<1>5. CASE DispatchClient(w)
  <2>1. PICK e \in batch[w] :
          /\ e.fd # NotificationFd
          /\ batch' = [batch EXCEPT ![w] = @ \ {e}]
          /\ \E i \in Slots : /\ clients[w][i] = e.fd
                              /\ current' = [current EXCEPT ![w] = i]
          /\ thread_pc' = [thread_pc EXCEPT ![w] = IF e.hup THEN "cleanup_epoll" ELSE "recv"]
    BY <1>5 DEF DispatchClient
  <2>2. thread_pc[w] = "dispatch" /\ UNCHANGED <<value, clients, epoll>>
    BY <1>5 DEF DispatchClient
  <2>3. thread_pc'[w] \in {"cleanup_epoll", "recv"} /\ clients[w][current'[w]] = e.fd
        /\ batch'[w] = batch[w] \ {e}
    BY <1>0, <2>1
  <2> QED
    BY <1>0, <2>2, <2>3
<1>6. CASE CleanupEpoll(w)
  <2>1. /\ thread_pc[w] = "cleanup_epoll" /\ thread_pc'[w] = "cleanup_close"
        /\ epoll'[w] = epoll[w] \ {clients[w][current[w]]}
        /\ UNCHANGED <<value, clients, batch, current>>
    BY <1>0, <1>6 DEF CleanupEpoll
  <2>2. /\ clients[w][current[w]] # NoFd /\ current[w] \in Slots
        /\ \A i \in Slots : clients[w][i] = clients[w][current[w]] => i = current[w]
    BY <1>0, <2>1 DEF IInv, ServesClient
  <2>3. Watches(w)'
    BY <2>1, <2>2
  <2>4. SlotsDiffer(w)' /\ BatchOfClients(w)'
    BY <2>1
  <2> QED
    BY <2>3, <2>4
<1>7. CASE CleanupClose(w)
  BY <1>0, <1>7 DEF CleanupClose
<1>8. CASE CleanupMemset(w)
  <2>1. /\ clients'[w] = [clients[w] EXCEPT ![current[w]] = NoFd]
        /\ thread_pc[w] = "cleanup_memset" /\ thread_pc'[w] = "cleanup_release"
        /\ UNCHANGED <<value, epoll, batch, current>>
    BY <1>0, <1>8 DEF CleanupMemset
  <2>2. NoFd \notin FDs
    BY DEF NoFd
  <2> QED
    BY <1>0, <2>1, <2>2
<1>9. CASE RegisterAdd(w)
  BY <1>0, <1>9 DEF RegisterAdd, WorkerHolds
<1>10. CASE RegisterAllocate(w)
  <2>1. FreeSlots(w) # {}
    BY <1>10, SlotForAllocation DEF RegisterAllocate, AllocationNeverFails
  <2>2. PICK i \in FreeSlots(w) : clients' = [clients EXCEPT ![w][i] = value[w]]
    BY <1>10, <2>1 DEF RegisterAllocate
  <2>3. i \in Slots /\ clients[w][i] = NoFd /\ clients'[w] = [clients[w] EXCEPT ![i] = value[w]]
    BY <1>0, <2>2 DEF FreeSlots, UsedSlots
  <2>4. /\ thread_pc[w] = "register_allocate" /\ thread_pc'[w] = "register_welcome"
        /\ UNCHANGED <<value, epoll, batch, current>>
    BY <1>0, <1>10, <2>1 DEF RegisterAllocate
  <2>5. value[w] \in FDs /\ value[w] # NoFd /\ NoFd \notin FDs
    BY <1>0, <2>4 DEF WorkerHolds, NoFd
  <2>6. \A j \in Slots : clients[w][j] # value[w]
    BY <2>4, <2>5 DEF OwnerInv, WorkerOwns, WorkerFd, WorkerHolds, SlotFd
  <2> QED
    BY <1>0, <2>3, <2>4, <2>5, <2>6
<1>11. CASE RegisterDrop(w)
  <2>1. /\ thread_pc[w] = "register_drop" /\ thread_pc'[w] \in {"epoll_wait", "dispatch"}
        /\ epoll'[w] = epoll[w] \ {value[w]}
        /\ UNCHANGED <<clients, batch, current>>
    BY <1>0, <1>11 DEF RegisterDrop, Done, NextEvent
  <2>2. value[w] \in FDs /\ value[w] # NoFd
    BY <1>0, <2>1 DEF WorkerHolds, NoFd
  <2>3. \A j \in Slots : clients[w][j] # value[w]
    BY <2>1, <2>2 DEF OwnerInv, WorkerOwns, WorkerFd, WorkerHolds, SlotFd
  <2>4. value[w] \notin epoll[w]
    BY <2>1, <2>2, <2>3
  <2>5. epoll'[w] = epoll[w]
    BY <2>1, <2>4
  <2>6. Watches(w)'
    <3>1. \A f \in FDs : f \in epoll[w] <=> \E i \in Slots : clients[w][i] = f
      BY <2>1
    <3>2. /\ clients'[w] = clients[w]
          /\ thread_pc'[w] \notin {"cleanup_close", "cleanup_memset", "register_allocate"}
      BY <2>1
    <3> QED
      BY <2>5, <3>1, <3>2
  <2>7. SlotsDiffer(w)' /\ BatchOfClients(w)'
    BY <2>1
  <2> QED
    BY <2>6, <2>7
<1> QED
  BY <1>1, <1>2, <1>3, <1>4, <1>5, <1>6, <1>7, <1>8, <1>9, <1>10, <1>11
     DEF WorkerStep, HandlerStep, OwnStep

LEMMA WorkersInvariant == Spec => [](IInv /\ \A w \in Workers : WorkerInv(w))
<1> DEFINE All == \A w \in Workers : WorkerInv(w)
<1>1. Init => All
  BY DEF Init, WorkerInv, SlotsDiffer, Watches, Leaving, BatchOfClients
<1>2. IInv /\ OwnerInv /\ All /\ [Next]_vars => All'
  <2> SUFFICES ASSUME IInv, OwnerInv, All, [Next]_vars, NEW w \in Workers
               PROVE  WorkerInv(w)'
    OBVIOUS
  <2> QED
    BY WorkerInvStep, WorkerInvKept, OthersLeaveAlone DEF Next
<1> QED
  BY <1>1, <1>2, OwnerInit, OwnerStep, IInvInvariant, PTL DEF Spec

\* A worker's epoll instance watches exactly what its slots hold, through
\* every registration and disconnection.
THEOREM WatchCorrect == Spec => []EpollMatchesSlots
<1>1. IInv /\ (\A w \in Workers : WorkerInv(w)) => EpollMatchesSlots
  <2> SUFFICES ASSUME IInv, NEW w \in Workers, WorkerInv(w)
               PROVE  epoll[w] = ({clients[w][i] : i \in UsedSlots(w)}
                         \ (IF thread_pc[w] \in {"cleanup_close", "cleanup_memset"}
                            THEN {clients[w][current[w]]} ELSE {}))
                     \cup (IF thread_pc[w] = "register_allocate" THEN {value[w]} ELSE {})
    BY DEF EpollMatchesSlots
  <2>0. /\ epoll[w] \subseteq FDs /\ current[w] \in Slots /\ NoFd \notin FDs
        /\ \A i \in Slots : clients[w][i] \in FDs \cup {NoFd}
        /\ thread_pc[w] = "register_allocate" => value[w] \in FDs
    BY DEF IInv, TypeOK, HoldsFd, WorkerHolds
  <2>1. \A f \in FDs : (\E i \in Slots : clients[w][i] = f /\ ~ Leaving(w, i)) <=>
            f \in {clients[w][i] : i \in UsedSlots(w)}
                  \ (IF thread_pc[w] \in {"cleanup_close", "cleanup_memset"}
                     THEN {clients[w][current[w]]} ELSE {})
    <3> HIDE DEF NoFd
    <3> QED
      BY <2>0 DEF WorkerInv, SlotsDiffer, Leaving, UsedSlots
  <2>2. {clients[w][i] : i \in UsedSlots(w)} \subseteq FDs
    BY <2>0 DEF UsedSlots
  <2> DEFINE Held == {clients[w][i] : i \in UsedSlots(w)}
                       \ (IF thread_pc[w] \in {"cleanup_close", "cleanup_memset"}
                          THEN {clients[w][current[w]]} ELSE {})
             New == IF thread_pc[w] = "register_allocate" THEN {value[w]} ELSE {}
  <2>3. Held \subseteq FDs /\ New \subseteq FDs
    BY <2>0, <2>2
  <2>4. \A f \in FDs : f \in New <=> thread_pc[w] = "register_allocate" /\ value[w] = f
    OBVIOUS
  <2>5. \A f \in FDs : f \in epoll[w] <=> f \in Held \/ f \in New
    <3>1. \A f \in FDs : f \in epoll[w] <=>
              \/ \E i \in Slots : clients[w][i] = f /\ ~ Leaving(w, i)
              \/ thread_pc[w] = "register_allocate" /\ value[w] = f
      BY DEF WorkerInv, Watches
    <3>2. \A f \in FDs : (\E i \in Slots : clients[w][i] = f /\ ~ Leaving(w, i)) <=> f \in Held
      BY <2>1
    <3> HIDE DEF Held, New
    <3> QED
      BY <2>4, <3>1, <3>2
  <2> HIDE DEF Held, New
  <2>6. epoll[w] = Held \cup New
    BY <2>0, <2>3, <2>5
  <2> QED
    BY <2>6 DEF Held, New
<1> QED
  BY <1>1, WorkersInvariant, PTL

\* What an event of a batch says is still so when its turn comes, whatever the
\* events before it did.
THEOREM BatchCorrect == Spec => []BatchIsLive
<1>1. IInv /\ (\A w \in Workers : WorkerInv(w)) => BatchIsLive
  <2> SUFFICES ASSUME IInv, NEW w \in Workers, WorkerInv(w), NEW e \in batch[w]
               PROVE  IF e.fd = NotificationFd THEN notification[w] # 0
                      ELSE \E i \in UsedSlots(w) : clients[w][i] = e.fd
    BY DEF BatchIsLive
  <2>1. CASE e.fd = NotificationFd
    BY <2>1 DEF IInv, NotificationPending
  <2>2. CASE e.fd # NotificationFd
    BY <2>2 DEF WorkerInv, BatchOfClients, UsedSlots
  <2> QED
    BY <2>1, <2>2
<1> QED
  BY <1>1, WorkersInvariant, PTL

=============================================================================
