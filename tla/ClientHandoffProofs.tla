------------------------ MODULE ClientHandoffProofs ------------------------
(***************************************************************************)
(* Proofs about ClientHandoff for any number of workers, slots and         *)
(* descriptors and any set of failing system calls.                        *)
(***************************************************************************)
EXTENDS ClientHandoff, FiniteSetTheorems, TLAPS

\* A thread that is about to act on a descriptor has one.
HoldsFd ==
    /\ main_pc \in MainHolds => client_fd \in FDs
    /\ \A w \in Workers : thread_pc[w] \in WorkerHolds => value[w] \in FDs

\* A worker that is serving a slot serves a used one.
ServesClient ==
    \A w \in Workers :
        thread_pc[w] \in {"recv", "serve", "cleanup_epoll", "cleanup_close", "cleanup_memset"}
            => clients[w][current[w]] # NoFd

\* A worker that goes to read its eventfd finds something in it, and has no
\* second notification left in its batch.
NotificationPending ==
    \A w \in Workers :
        /\ \A e \in batch[w] :
              e.fd = NotificationFd => ~ e.hup /\ notification[w] # 0
        /\ thread_pc[w] = "register_read" =>
              /\ notification[w] # 0
              /\ \A e \in batch[w] : e.fd # NotificationFd

\* The inductive invariant.
IInv ==
    /\ TypeOK
    /\ HoldsFd
    /\ ServesClient
    /\ NotificationPending
    /\ OneToken
    /\ CapacityAccounting

USE MaxThreadsAssumption, MaxClientsAssumption, FDsAssumption

-----------------------------------------------------------------------------
\* The used slots of a worker are a finite set, no larger than its slots.
LEMMA UsedSlotsFinite ==
    ASSUME NEW w \in Workers
    PROVE  /\ IsFiniteSet(UsedSlots(w))
           /\ Cardinality(UsedSlots(w)) \in 0 .. MAX_CLIENTS_PER_THREAD
           /\ UsedSlots(w) # Slots => Cardinality(UsedSlots(w)) < MAX_CLIENTS_PER_THREAD
           /\ UsedSlots(w) = Slots => Cardinality(UsedSlots(w)) = MAX_CLIENTS_PER_THREAD
<1>1. IsFiniteSet(Slots) /\ Cardinality(Slots) = MAX_CLIENTS_PER_THREAD
    <2>1. 0 \in Int /\ MAX_CLIENTS_PER_THREAD - 1 \in Int
        OBVIOUS
    <2> QED BY <2>1, FS_Interval DEF Slots
<1>2. UsedSlots(w) \subseteq Slots
    BY DEF UsedSlots
<1>3. IsFiniteSet(UsedSlots(w)) /\ Cardinality(UsedSlots(w)) <= Cardinality(Slots)
      /\ (Cardinality(UsedSlots(w)) = Cardinality(Slots) => UsedSlots(w) = Slots)
    BY <1>1, <1>2, FS_Subset
<1>4. Cardinality(UsedSlots(w)) \in Nat
    BY <1>3, FS_CardinalityType
<1> QED BY <1>1, <1>3, <1>4

\* What the resets of worker_index and num_attempts need to be well typed.
LEMMA FirstWorker == 0 \in Workers /\ 0 \in 0 .. MAX_THREADS
BY MaxThreadsAssumption DEF Workers

\* The index after a worker's is its successor, or 0 after the last.
LEMMA NextWorkerValue ==
    ASSUME NEW w \in Workers
    PROVE  /\ NextWorker(w) \in Workers
           /\ NextWorker(w) = IF w = MAX_THREADS - 1 THEN 0 ELSE w + 1
<1>1. CASE w = MAX_THREADS - 1
    BY <1>1 DEF NextWorker, Workers
<1>2. CASE w # MAX_THREADS - 1
    BY <1>2 DEF NextWorker, Workers
<1> QED BY <1>1, <1>2

\* The invariant holds when the threads have been created.
LEMMA InitIInv == Init => IInv
<1> SUFFICES ASSUME Init PROVE IInv
    OBVIOUS
<1>1. 0 \in Workers /\ 0 \in Slots /\ MAX_CLIENTS_PER_THREAD >= 0
    BY DEF Workers, Slots
<1>2. TypeOK
    BY <1>1 DEF Init, TypeOK, MainPcs, ThreadPcs, NoFd
<1>3. HoldsFd /\ ServesClient /\ NotificationPending
    BY DEF Init, HoldsFd, ServesClient, NotificationPending, MainHolds, WorkerHolds
<1>4. OneToken
    BY DEF Init, OneToken, Bit, MainHasToken
<1>5. CapacityAccounting
    <2> SUFFICES ASSUME NEW w \in Workers
                 PROVE  num_of_clients[w] = Cardinality(UsedSlots(w)) + Reserved(w)
        BY DEF CapacityAccounting
    <2>1. UsedSlots(w) = {}
        BY DEF Init, UsedSlots
    <2>2. Reserved(w) = 0
        BY DEF Init, Reserved, Bit, MainReserved, WorkerReserved
    <2> QED BY <2>1, <2>2, FS_EmptySet DEF Init
<1> QED BY <1>2, <1>3, <1>4, <1>5 DEF IInv

\* The eventfd counters are numbers.
LEMMA NotificationNat ==
    TypeOK => \A u \in Workers : notification[u] \in Nat
<1> SUFFICES ASSUME TypeOK, NEW u \in Workers
             PROVE  notification[u] \in Nat
    OBVIOUS
<1>1. notification[u] \in FDs \cup {NoFd}
    BY DEF TypeOK
<1>2. CASE notification[u] = NoFd
    BY <1>2 DEF NoFd
<1>3. CASE notification[u] \in FDs
    BY <1>3
<1> QED BY <1>1, <1>2, <1>3

\* What main is about to write to an eventfd is not 0.
LEMMA WritesFd ==
    IInv /\ main_pc = "write" => client_fd \in FDs /\ client_fd \in Nat /\ client_fd # 0
BY DEF IInv, HoldsFd, MainHolds

\* While main is at its write, neither the semaphore nor the eventfd of the
\* worker it chose holds anything.
LEMMA MainTookToken ==
    ASSUME IInv, main_pc \in {"write", "write_error_post"}
    PROVE  new_client[selected_worker] = 0 /\ notification[selected_worker] = 0
<1>1. selected_worker \in Workers /\ new_client[selected_worker] \in {0, 1}
    BY DEF IInv, TypeOK
<1>2. MainHasToken(selected_worker)
    BY DEF MainHasToken
<1> QED BY <1>1, <1>2 DEF IInv, OneToken, Bit

-----------------------------------------------------------------------------
\* Every step keeps the token of each semaphore unique.
LEMMA TokenStep == IInv /\ [Next]_vars => OneToken'
<1> SUFFICES ASSUME IInv, [Next]_vars, NEW w \in Workers
             PROVE  (new_client[w] + Bit(MainHasToken(w)) + Bit(notification[w] # 0)
                        + Bit(thread_pc[w] = "register_post") = 1)'
    BY DEF OneToken
<1> USE DEF Bit, MainHasToken
<1>0. /\ new_client[w] + Bit(MainHasToken(w)) + Bit(notification[w] # 0)
            + Bit(thread_pc[w] = "register_post") = 1
      /\ new_client \in [Workers -> {0, 1}]
      /\ notification \in [Workers -> FDs \cup {NoFd}]
      /\ thread_pc \in [Workers -> ThreadPcs]
      /\ selected_worker \in Workers
      /\ main_pc \in MainPcs
    BY DEF IInv, TypeOK, OneToken
<1>1. CASE Accept
    BY <1>0, <1>1 DEF Accept, workerVars, sharedVars
<1>2. CASE KeepaliveOk \/ KeepaliveFails \/ ScanFull
    BY <1>0, <1>2 DEF KeepaliveOk, KeepaliveFails, ScanFull, workerVars, sharedVars
<1>3. CASE ScanTake
    BY <1>0, <1>3 DEF ScanTake, workerVars
<1>4. CASE Reject
    BY <1>0, <1>4 DEF Reject, workerVars, sharedVars
<1>5. CASE SemWait
    BY <1>0, <1>5 DEF SemWait, workerVars
<1>6. CASE Write
    <2>1. client_fd \in Nat /\ client_fd # 0
        BY <1>6, WritesFd DEF Write
    <2>2. \A u \in Workers : notification[u] \in Nat
        BY NotificationNat DEF IInv
    <2>3. CASE w = selected_worker
        <3>1. notification[w] = 0
            BY <1>0, <1>6, <2>3 DEF Write
        <3>2. notification'[w] = client_fd
            BY <1>0, <1>6, <2>1, <2>3, <3>1 DEF Write
        <3> QED BY <1>0, <1>6, <2>1, <2>3, <3>1, <3>2 DEF Write, workerVars
    <2>4. CASE w # selected_worker
        BY <1>0, <1>6, <2>4 DEF Write, workerVars
    <2> QED BY <2>3, <2>4
<1>7. CASE WriteFails
    BY <1>0, <1>7 DEF WriteFails, workerVars, sharedVars
<1>8. CASE WriteErrorPost
    BY <1>0, <1>8 DEF WriteErrorPost, workerVars
<1>9. CASE WriteErrorClose \/ WriteErrorRelease
    BY <1>0, <1>9 DEF WriteErrorClose, WriteErrorRelease, workerVars, sharedVars
<1>10. ASSUME NEW v \in Workers, WorkerStep(v)
       PROVE  (new_client[w] + Bit(MainHasToken(w)) + Bit(notification[w] # 0)
                  + Bit(thread_pc[w] = "register_post") = 1)'
    <2> USE DEF mainVars, sharedVars, Done, NextEvent
    <2>1. CASE Start(v) \/ EpollWait(v) \/ DispatchNotification(v)
        BY <1>0, <2>1 DEF Start, EpollWait, DispatchNotification
    <2>2. CASE DispatchClient(v)
        BY <1>0, <2>2 DEF DispatchClient
    <2>3. CASE Recv(v) \/ Serve(v)
        BY <1>0, <2>3 DEF Recv, Serve
    <2>4. CASE CleanupEpoll(v) \/ CleanupClose(v) \/ CleanupMemset(v) \/ CleanupRelease(v)
        BY <1>0, <2>4 DEF CleanupEpoll, CleanupClose, CleanupMemset, CleanupRelease
    <2>5. CASE RegisterRead(v)
        <3>1. notification[v] # 0
            BY <2>5 DEF RegisterRead, IInv, NotificationPending
        <3> QED BY <1>0, <2>5, <3>1 DEF RegisterRead
    <2>6. CASE RegisterPost(v)
        BY <1>0, <2>6 DEF RegisterPost
    <2>7. CASE RegisterAdd(v) \/ RegisterAddFails(v)
        BY <1>0, <2>7 DEF RegisterAdd, RegisterAddFails
    <2>8. CASE RegisterAllocate(v)
        BY <1>0, <2>8 DEF RegisterAllocate
    <2>9. CASE RegisterDrop(v) \/ RegisterWelcome(v)
        BY <1>0, <2>9 DEF RegisterDrop, RegisterWelcome
    <2> QED BY <1>10, <2>1, <2>2, <2>3, <2>4, <2>5, <2>6, <2>7, <2>8, <2>9
        DEF WorkerStep, HandlerStep, OwnStep
<1>11. CASE \E f \in FDs : PeerSend(f) \/ PeerClose(f)
    BY <1>0, <1>11 DEF PeerSend, PeerClose, mainVars, workerVars, sharedVars
<1>12. CASE UNCHANGED vars
    BY <1>0, <1>12 DEF vars, mainVars, workerVars, sharedVars
<1> QED
    BY <1>1, <1>2, <1>3, <1>4, <1>5, <1>6, <1>7, <1>8, <1>9, <1>10, <1>11, <1>12
       DEF Next, MainStep

-----------------------------------------------------------------------------
\* Filling a free slot adds one used slot, clearing a used one removes one.
LEMMA UsedSlotsChange ==
    ASSUME NEW w \in Workers, NEW v \in Workers, NEW i \in Slots, NEW f \in FDs \cup {NoFd},
           clients \in [Workers -> [Slots -> FDs \cup {NoFd}]],
           clients' = [clients EXCEPT ![v][i] = f]
    PROVE  /\ v # w => UsedSlots(w)' = UsedSlots(w)
           /\ v = w /\ f = NoFd => UsedSlots(w)' = UsedSlots(w) \ {i}
           /\ v = w /\ f # NoFd => UsedSlots(w)' = UsedSlots(w) \cup {i}
BY DEF UsedSlots

\* Every step keeps the counts of the workers exact.
LEMMA CapacityStep == IInv /\ [Next]_vars => CapacityAccounting'
<1> SUFFICES ASSUME IInv, [Next]_vars, NEW w \in Workers
             PROVE  (num_of_clients[w] = Cardinality(UsedSlots(w)) + Reserved(w))'
    BY DEF CapacityAccounting
<1> DEFINE n == Cardinality(UsedSlots(w))
<1>0. /\ num_of_clients[w] = n + Reserved(w)
      /\ n \in Nat
      /\ num_of_clients \in [Workers -> 0 .. MAX_CLIENTS_PER_THREAD]
      /\ notification \in [Workers -> FDs \cup {NoFd}]
      /\ thread_pc \in [Workers -> ThreadPcs]
      /\ selected_worker \in Workers
      /\ worker_index \in Workers
    BY UsedSlotsFinite DEF IInv, TypeOK, CapacityAccounting
<1>c. clients' = clients => n' = n
    BY DEF UsedSlots
<1> HIDE DEF n
<1> USE DEF Reserved, Bit, MainReserved, WorkerReserved
<1> SUFFICES num_of_clients'[w] = n' + Reserved(w)'
    BY DEF n
<1>1. CASE Accept
    BY <1>0, <1>c, <1>1 DEF Accept, workerVars, sharedVars
<1>2. CASE KeepaliveOk \/ KeepaliveFails \/ ScanFull
    BY <1>0, <1>c, <1>2 DEF KeepaliveOk, KeepaliveFails, ScanFull, workerVars, sharedVars
<1>3. CASE ScanTake
    BY <1>0, <1>c, <1>3 DEF ScanTake, workerVars
<1>4. CASE Reject
    BY <1>0, <1>c, <1>4 DEF Reject, workerVars, sharedVars
<1>5. CASE SemWait
    BY <1>0, <1>c, <1>5 DEF SemWait, workerVars
<1>6. CASE Write
    <2>1. client_fd \in Nat /\ client_fd # 0
        BY <1>6, WritesFd DEF Write
    <2>2. notification[selected_worker] = 0
        BY <1>6, MainTookToken DEF Write
    <2>3. CASE w = selected_worker
        <3>1. notification'[w] = client_fd
            BY <1>0, <1>6, <2>1, <2>2, <2>3 DEF Write
        <3> QED BY <1>0, <1>c, <1>6, <2>1, <2>2, <2>3, <3>1 DEF Write, workerVars
    <2>4. CASE w # selected_worker
        BY <1>0, <1>c, <1>6, <2>4 DEF Write, workerVars
    <2> QED BY <2>3, <2>4
<1>7. CASE WriteFails
    BY <1>0, <1>c, <1>7 DEF WriteFails, workerVars, sharedVars
<1>8. CASE WriteErrorPost
    BY <1>0, <1>c, <1>8 DEF WriteErrorPost, workerVars
<1>9. CASE WriteErrorClose
    BY <1>0, <1>c, <1>9 DEF WriteErrorClose, workerVars, sharedVars
<1>10. CASE WriteErrorRelease
    BY <1>0, <1>c, <1>10 DEF WriteErrorRelease, workerVars
<1>11. ASSUME NEW v \in Workers, WorkerStep(v)
       PROVE  num_of_clients'[w] = n' + Reserved(w)'
    <2> USE DEF mainVars, sharedVars, Done, NextEvent
    <2>1. CASE Start(v) \/ EpollWait(v) \/ DispatchNotification(v)
        BY <1>0, <1>c, <2>1 DEF Start, EpollWait, DispatchNotification
    <2>2. CASE DispatchClient(v)
        BY <1>0, <1>c, <2>2 DEF DispatchClient
    <2>3. CASE Recv(v) \/ Serve(v)
        BY <1>0, <1>c, <2>3 DEF Recv, Serve
    <2>4. CASE CleanupEpoll(v) \/ CleanupClose(v)
        BY <1>0, <1>c, <2>4 DEF CleanupEpoll, CleanupClose
    <2>5. CASE CleanupMemset(v)
        <3>1. CASE v = w
            <4>1. current[w] \in UsedSlots(w)
                BY <2>5, <3>1 DEF CleanupMemset, IInv, TypeOK, ServesClient, UsedSlots
            <4>2. UsedSlots(w)' = UsedSlots(w) \ {current[w]}
                BY <2>5, <3>1, <4>1, UsedSlotsChange DEF CleanupMemset, IInv, TypeOK
            <4>3. n' = n - 1
                BY <4>1, <4>2, UsedSlotsFinite, FS_RemoveElement DEF n
            <4> QED BY <1>0, <2>5, <3>1, <4>3 DEF CleanupMemset
        <3>2. CASE v # w
            <4>1. n' = n
                BY <2>5, <3>2, UsedSlotsChange DEF CleanupMemset, IInv, TypeOK, n
            <4> QED BY <1>0, <2>5, <3>2, <4>1 DEF CleanupMemset
        <3> QED BY <3>1, <3>2
    <2>6. CASE CleanupRelease(v)
        BY <1>0, <1>c, <2>6 DEF CleanupRelease
    <2>7. CASE RegisterRead(v)
        <3>1. notification[v] # 0
            BY <2>7 DEF RegisterRead, IInv, NotificationPending
        <3> QED BY <1>0, <1>c, <2>7, <3>1 DEF RegisterRead
    <2>8. CASE RegisterPost(v)
        BY <1>0, <1>c, <2>8 DEF RegisterPost
    <2>9. CASE RegisterAdd(v)
        BY <1>0, <1>c, <2>9 DEF RegisterAdd
    <2>10. CASE RegisterAddFails(v)
        BY <1>0, <1>c, <2>10 DEF RegisterAddFails
    <2>11. CASE RegisterAllocate(v)
        <3>1. CASE FreeSlots(v) = {}
            BY <1>0, <1>c, <2>11, <3>1 DEF RegisterAllocate
        <3>2. CASE FreeSlots(v) # {}
            <4>1. PICK i \in FreeSlots(v) : clients' = [clients EXCEPT ![v][i] = value[v]]
                BY <2>11, <3>2 DEF RegisterAllocate
            <4>2. i \in Slots /\ i \notin UsedSlots(v)
                BY <4>1 DEF FreeSlots
            <4>3. value[v] \in FDs /\ value[v] # NoFd
                BY <2>11 DEF RegisterAllocate, IInv, HoldsFd, WorkerHolds, NoFd
            <4>4. CASE v = w
                <5>1. UsedSlots(w)' = UsedSlots(w) \cup {i}
                    BY <4>1, <4>2, <4>3, <4>4, UsedSlotsChange DEF IInv, TypeOK
                <5>2. n' = n + 1
                    BY <4>2, <4>4, <5>1, UsedSlotsFinite, FS_AddElement DEF n
                <5> QED BY <1>0, <2>11, <3>2, <4>4, <5>2 DEF RegisterAllocate
            <4>5. CASE v # w
                <5>1. n' = n
                    BY <4>1, <4>2, <4>3, <4>5, UsedSlotsChange DEF IInv, TypeOK, n
                <5> QED BY <1>0, <2>11, <3>2, <4>5, <5>1 DEF RegisterAllocate
            <4> QED BY <4>4, <4>5
        <3> QED BY <3>1, <3>2
    <2>12. CASE RegisterDrop(v) \/ RegisterWelcome(v)
        BY <1>0, <1>c, <2>12 DEF RegisterDrop, RegisterWelcome
    <2> QED
        BY <1>11, <2>1, <2>2, <2>3, <2>4, <2>5, <2>6, <2>7, <2>8, <2>9, <2>10, <2>11, <2>12
           DEF WorkerStep, HandlerStep, OwnStep
<1>12. CASE \E f \in FDs : PeerSend(f) \/ PeerClose(f)
    BY <1>0, <1>c, <1>12 DEF PeerSend, PeerClose, mainVars, workerVars, sharedVars
<1>13. CASE UNCHANGED vars
    BY <1>0, <1>c, <1>13 DEF vars, mainVars, workerVars, sharedVars
<1> QED
    BY <1>1, <1>2, <1>3, <1>4, <1>5, <1>6, <1>7, <1>8, <1>9, <1>10, <1>11, <1>12, <1>13
       DEF Next, MainStep

-----------------------------------------------------------------------------
\* A count that is decremented is not 0: the place that is given back is one
\* that is counted.
LEMMA DecrementsAreCounted ==
    ASSUME IInv, NEW w \in Workers,
           MainReserved(w) \/ WorkerReserved(w)
    PROVE  num_of_clients[w] \in 1 .. MAX_CLIENTS_PER_THREAD
<1>1. num_of_clients[w] = Cardinality(UsedSlots(w)) + Reserved(w)
    BY DEF IInv, CapacityAccounting
<1>2. Cardinality(UsedSlots(w)) \in Nat
    BY UsedSlotsFinite
<1>3. Reserved(w) >= 1
    BY DEF Reserved, Bit
<1>4. num_of_clients[w] \in 0 .. MAX_CLIENTS_PER_THREAD
    BY DEF IInv, TypeOK
<1> QED BY <1>1, <1>2, <1>3, <1>4 DEF Reserved, Bit

\* Every step keeps the variables in their types. The bounds of the counts
\* follow from CapacityAccounting, those of the semaphore from OneToken.
LEMMA TypeStep == IInv /\ [Next]_vars => TypeOK'
<1> SUFFICES ASSUME IInv, [Next]_vars PROVE TypeOK'
    OBVIOUS
<1>0. TypeOK
    BY DEF IInv
<1> USE DEF TypeOK
<1>1. CASE Accept
    BY <1>0, <1>1 DEF Accept, workerVars, sharedVars, MainPcs
<1>2. CASE KeepaliveOk
    BY <1>0, <1>2 DEF KeepaliveOk, workerVars, sharedVars, kernelVars, MainPcs
<1>3. CASE KeepaliveFails
    BY <1>0, <1>3 DEF KeepaliveFails, workerVars, sharedVars, kernelVars, MainPcs
<1>4. CASE ScanFull
    BY <1>0, <1>4, NextWorkerValue DEF ScanFull, workerVars, sharedVars, kernelVars, MainPcs
<1>5. CASE ScanTake
    BY <1>0, <1>5, NextWorkerValue, FirstWorker DEF ScanTake, workerVars, kernelVars, MainPcs
<1>6. CASE Reject
    BY <1>0, <1>6, FirstWorker DEF Reject, Close, workerVars, sharedVars, MainPcs
<1>7. CASE SemWait
    BY <1>0, <1>7 DEF SemWait, workerVars, kernelVars, MainPcs
<1>8. CASE Write
    <2>1. notification[selected_worker] = 0
        BY <1>8, MainTookToken DEF Write
    <2>2. notification[selected_worker] + client_fd \in FDs
        BY <1>8, <2>1, WritesFd DEF Write
    <2> QED BY <1>0, <1>8, <2>2, FirstWorker DEF Write, workerVars, kernelVars, MainPcs
<1>9. CASE WriteFails
    BY <1>0, <1>9 DEF WriteFails, workerVars, sharedVars, kernelVars, MainPcs
<1>10. CASE WriteErrorPost
    <2>1. new_client[selected_worker] = 0
        BY <1>10, MainTookToken DEF WriteErrorPost
    <2> QED BY <1>0, <1>10, <2>1 DEF WriteErrorPost, workerVars, kernelVars, MainPcs
<1>11. CASE WriteErrorClose
    BY <1>0, <1>11 DEF WriteErrorClose, Close, workerVars, sharedVars, MainPcs
<1>12. CASE WriteErrorRelease
    <2>1. num_of_clients[selected_worker] \in 1 .. MAX_CLIENTS_PER_THREAD
        BY <1>0, <1>12, DecrementsAreCounted DEF WriteErrorRelease, MainReserved
    <2> QED BY <1>0, <1>12, <2>1, FirstWorker DEF WriteErrorRelease, workerVars, kernelVars, MainPcs
<1>13. ASSUME NEW v \in Workers, WorkerStep(v)
       PROVE  TypeOK'
    <2> USE DEF mainVars, sharedVars, Done, NextEvent
    <2>0. \A p \in ThreadPcs : [thread_pc EXCEPT ![v] = p] \in [Workers -> ThreadPcs]
        BY <1>0
    <2>1. CASE Start(v)
        BY <1>0, <2>0, <2>1 DEF Start, kernelVars, ThreadPcs
    <2>2. CASE EpollWait(v)
        <3>1. Ready(v) \subseteq Events
            <4> SUFFICES ASSUME NEW e \in Ready(v)
                         PROVE  e \in Events
                OBVIOUS
            <4>1. CASE \E f \in epoll[v] : e = [fd |-> f, hup |-> peer[f] = "closed"]
                <5>1. PICK f \in FDs : e = [fd |-> f, hup |-> peer[f] = "closed"]
                    BY <1>0, <4>1
                <5> QED BY <5>1 DEF Events
            <4>2. CASE e = [fd |-> NotificationFd, hup |-> FALSE]
                BY <4>2 DEF Events
            <4> QED BY <4>1, <4>2 DEF Ready
        <3> QED BY <1>0, <2>0, <2>2, <3>1 DEF EpollWait, kernelVars, ThreadPcs
    <2>3. CASE DispatchNotification(v)
        BY <1>0, <2>0, <2>3 DEF DispatchNotification, kernelVars, ThreadPcs
    <2>4. CASE DispatchClient(v)
        <3>1. PICK e \in batch[v] : batch' = [batch EXCEPT ![v] = @ \ {e}]
            BY <2>4 DEF DispatchClient
        <3>2. batch' \in [Workers -> SUBSET Events]
            BY <1>0, <3>1
        <3>3. current' \in [Workers -> Slots]
            <4>1. UNCHANGED current \/ \E i \in Slots : current' = [current EXCEPT ![v] = i]
                BY <2>4 DEF DispatchClient, IsFirst
            <4> QED BY <1>0, <4>1
        <3>4. thread_pc' \in [Workers -> ThreadPcs]
            <4>1. \E p \in ThreadPcs : thread_pc' = [thread_pc EXCEPT ![v] = p]
                BY <2>4, Zenon DEF DispatchClient, ThreadPcs
            <4> QED BY <2>0, <4>1
        <3> QED BY <1>0, <2>4, <3>2, <3>3, <3>4 DEF DispatchClient, kernelVars
    <2>5. CASE Recv(v)
        BY <1>0, <2>0, <2>5 DEF Recv, Consume, ThreadPcs
    <2>6. CASE Serve(v)
        BY <1>0, <2>0, <2>6 DEF Serve, kernelVars, ThreadPcs
    <2>7. CASE CleanupEpoll(v)
        BY <1>0, <2>0, <2>7 DEF CleanupEpoll, kernelVars, ThreadPcs
    <2>8. CASE CleanupClose(v)
        BY <1>0, <2>0, <2>8 DEF CleanupClose, Close, ThreadPcs
    <2>9. CASE CleanupMemset(v)
        BY <1>0, <2>0, <2>9 DEF CleanupMemset, kernelVars, ThreadPcs
    <2>10. CASE CleanupRelease(v)
        <3>1. num_of_clients[v] \in 1 .. MAX_CLIENTS_PER_THREAD
            BY <2>10, DecrementsAreCounted DEF CleanupRelease, WorkerReserved
        <3> QED BY <1>0, <2>0, <2>10, <3>1 DEF CleanupRelease, kernelVars, ThreadPcs
    <2>11. CASE RegisterRead(v)
        <3>1. notification[v] # 0
            BY <2>11 DEF RegisterRead, IInv, NotificationPending
        <3>2. notification' = [notification EXCEPT ![v] = NoFd]
            BY <2>11, <3>1 DEF RegisterRead, NoFd
        <3>3. notification' \in [Workers -> FDs \cup {NoFd}]
            BY <1>0, <3>2
        <3>4. value' \in [Workers -> FDs \cup {NoFd}]
            BY <1>0, <2>11, <3>1 DEF RegisterRead
        <3>5. thread_pc' \in [Workers -> ThreadPcs]
            BY <2>0, <2>11, <3>1 DEF RegisterRead, ThreadPcs
        <3> QED BY <1>0, <2>11, <3>1, <3>3, <3>4, <3>5 DEF RegisterRead, kernelVars
    <2>12. CASE RegisterPost(v)
        <3>1. new_client[v] = 0
            <4>1. new_client[v] \in {0, 1}
                BY <1>0
            <4> QED BY <1>0, <2>12, <4>1 DEF RegisterPost, IInv, OneToken, Bit
        <3> QED BY <1>0, <2>0, <2>12, <3>1 DEF RegisterPost, kernelVars, ThreadPcs
    <2>13. CASE RegisterAdd(v)
        <3>1. value[v] \in FDs
            BY <2>13 DEF RegisterAdd, IInv, HoldsFd, WorkerHolds
        <3> QED BY <1>0, <2>0, <2>13, <3>1 DEF RegisterAdd, kernelVars, ThreadPcs
    <2>14. CASE RegisterAddFails(v)
        <3>1. num_of_clients[v] \in 1 .. MAX_CLIENTS_PER_THREAD
            BY <2>14, DecrementsAreCounted DEF RegisterAddFails, WorkerReserved
        <3> QED BY <1>0, <2>0, <2>14, <3>1 DEF RegisterAddFails, kernelVars, ThreadPcs
    <2>15. CASE RegisterAllocate(v)
        <3>1. num_of_clients[v] \in 1 .. MAX_CLIENTS_PER_THREAD
            BY <2>15, DecrementsAreCounted DEF RegisterAllocate, WorkerReserved
        <3>2. clients' \in [Workers -> [Slots -> FDs \cup {NoFd}]]
            <4>1. value[v] \in FDs \cup {NoFd} /\ FreeSlots(v) \subseteq Slots
                BY <1>0 DEF FreeSlots
            <4>2. CASE FreeSlots(v) = {}
                BY <1>0, <2>15, <4>2 DEF RegisterAllocate
            <4>3. CASE FreeSlots(v) # {}
                <5>1. PICK i \in Slots : clients' = [clients EXCEPT ![v][i] = value[v]]
                    BY <2>15, <4>1, <4>3 DEF RegisterAllocate
                <5> QED BY <1>0, <4>1, <5>1
            <4> QED BY <4>2, <4>3
        <3>3. num_of_clients' \in [Workers -> 0 .. MAX_CLIENTS_PER_THREAD]
            <4>1. \/ UNCHANGED num_of_clients
                  \/ num_of_clients' = [num_of_clients EXCEPT ![v] = @ - 1]
                BY <2>15 DEF RegisterAllocate
            <4> QED BY <1>0, <3>1, <4>1
        <3>4. thread_pc' \in [Workers -> ThreadPcs]
            BY <2>0, <2>15 DEF RegisterAllocate, ThreadPcs
        <3> QED BY <1>0, <2>15, <3>2, <3>3, <3>4 DEF RegisterAllocate, kernelVars
    <2>16. CASE RegisterDrop(v)
        BY <1>0, <2>0, <2>16 DEF RegisterDrop, Close, ThreadPcs
    <2>17. CASE RegisterWelcome(v)
        BY <1>0, <2>0, <2>17 DEF RegisterWelcome, kernelVars, ThreadPcs
    <2> QED
        BY <1>13, <2>1, <2>2, <2>3, <2>4, <2>5, <2>6, <2>7, <2>8, <2>9, <2>10, <2>11,
           <2>12, <2>13, <2>14, <2>15, <2>16, <2>17
           DEF WorkerStep, HandlerStep, OwnStep
<1>14. CASE \E f \in FDs : PeerSend(f) \/ PeerClose(f)
    BY <1>0, <1>14 DEF PeerSend, PeerClose, mainVars, workerVars, sharedVars
<1>15. CASE UNCHANGED vars
    BY <1>0, <1>15 DEF vars, mainVars, workerVars, sharedVars, kernelVars
<1> QED
    BY <1>1, <1>2, <1>3, <1>4, <1>5, <1>6, <1>7, <1>8, <1>9, <1>10, <1>11, <1>12, <1>13,
       <1>14, <1>15
       DEF Next, MainStep

-----------------------------------------------------------------------------
\* A thread reaches a step that acts on a descriptor only with one in hand.
LEMMA HoldsFdStep == IInv /\ [Next]_vars => HoldsFd'
<1> SUFFICES ASSUME IInv, [Next]_vars PROVE HoldsFd'
    OBVIOUS
<1>0. HoldsFd
    BY DEF IInv
<1>t. thread_pc \in [Workers -> ThreadPcs] /\ value \in [Workers -> FDs \cup {NoFd}]
    BY DEF IInv, TypeOK
<1> USE DEF HoldsFd, MainHolds
<1>1. CASE Accept
    BY <1>0, <1>1 DEF Accept, workerVars
<1>2. CASE KeepaliveOk \/ KeepaliveFails \/ ScanFull \/ ScanTake
    BY <1>0, <1>2 DEF KeepaliveOk, KeepaliveFails, ScanFull, ScanTake, workerVars
<1>3. CASE Reject \/ SemWait \/ Write \/ WriteFails
    BY <1>0, <1>3 DEF Reject, SemWait, Write, WriteFails, workerVars
<1>4. CASE WriteErrorPost \/ WriteErrorClose \/ WriteErrorRelease
    BY <1>0, <1>4 DEF WriteErrorPost, WriteErrorClose, WriteErrorRelease, workerVars
<1>5. ASSUME NEW v \in Workers, WorkerStep(v)
      PROVE  HoldsFd'
    <2> USE DEF mainVars, WorkerHolds, Done, NextEvent
    <2>1. CASE Start(v) \/ EpollWait(v) \/ DispatchNotification(v)
        BY <1>0, <1>t, <2>1 DEF Start, EpollWait, DispatchNotification
    <2>2. CASE DispatchClient(v)
        BY <1>0, <1>t, <2>2 DEF DispatchClient
    <2>3. CASE Recv(v) \/ Serve(v)
        BY <1>0, <1>t, <2>3 DEF Recv, Serve
    <2>4. CASE CleanupEpoll(v) \/ CleanupClose(v) \/ CleanupMemset(v) \/ CleanupRelease(v)
        BY <1>0, <1>t, <2>4 DEF CleanupEpoll, CleanupClose, CleanupMemset, CleanupRelease
    <2>5. CASE RegisterRead(v)
        <3>1. notification[v] \in FDs
            BY <2>5 DEF RegisterRead, IInv, TypeOK, NotificationPending, NoFd
        <3> QED BY <1>0, <1>t, <2>5, <3>1 DEF RegisterRead
    <2>6. CASE RegisterPost(v) \/ RegisterAdd(v) \/ RegisterAddFails(v)
        BY <1>0, <1>t, <2>6 DEF RegisterPost, RegisterAdd, RegisterAddFails
    <2>7. CASE RegisterAllocate(v)
        BY <1>0, <1>t, <2>7 DEF RegisterAllocate
    <2>8. CASE RegisterDrop(v) \/ RegisterWelcome(v)
        BY <1>0, <1>t, <2>8 DEF RegisterDrop, RegisterWelcome
    <2> QED BY <1>5, <2>1, <2>2, <2>3, <2>4, <2>5, <2>6, <2>7, <2>8
        DEF WorkerStep, HandlerStep, OwnStep
<1>6. CASE \E f \in FDs : PeerSend(f) \/ PeerClose(f)
    BY <1>0, <1>6 DEF PeerSend, PeerClose, mainVars, workerVars
<1>7. CASE UNCHANGED vars
    BY <1>0, <1>7 DEF vars, mainVars, workerVars
<1> QED BY <1>1, <1>2, <1>3, <1>4, <1>5, <1>6, <1>7 DEF Next, MainStep

\* A worker serves a slot only while it is used: nobody else clears it.
LEMMA ServesClientStep == IInv /\ [Next]_vars => ServesClient'
<1> SUFFICES ASSUME IInv, [Next]_vars PROVE ServesClient'
    OBVIOUS
<1>0. ServesClient
    BY DEF IInv
<1>t. /\ thread_pc \in [Workers -> ThreadPcs]
      /\ current \in [Workers -> Slots]
      /\ clients \in [Workers -> [Slots -> FDs \cup {NoFd}]]
    BY DEF IInv, TypeOK
<1> USE DEF ServesClient
<1>1. CASE Accept \/ MainStep
    <2>1. UNCHANGED workerVars
        BY <1>1 DEF Accept, MainStep, KeepaliveOk, KeepaliveFails, ScanFull, ScanTake,
           Reject, SemWait, Write, WriteFails, WriteErrorPost, WriteErrorClose,
           WriteErrorRelease
    <2> QED BY <1>0, <2>1 DEF workerVars
<1>2. ASSUME NEW v \in Workers, WorkerStep(v)
      PROVE  ServesClient'
    <2> USE DEF Done, NextEvent
    <2>1. CASE Start(v) \/ EpollWait(v) \/ DispatchNotification(v)
        BY <1>0, <1>t, <2>1 DEF Start, EpollWait, DispatchNotification
    <2>2. CASE DispatchClient(v)
        <3>1. PICK e \in batch[v] :
                  /\ e.fd # NotificationFd
                  /\ LET found == {i \in Slots : clients[v][i] = e.fd} IN
                     \/ /\ thread_pc' = [thread_pc EXCEPT ![v] = NextEvent(batch[v] \ {e})]
                        /\ UNCHANGED current
                     \/ \E i \in found :
                           /\ current' = [current EXCEPT ![v] = i]
                           /\ thread_pc' = [thread_pc EXCEPT ![v] =
                                               IF e.hup THEN "cleanup_epoll" ELSE "recv"]
            BY <2>2, Zenon DEF DispatchClient, IsFirst
        <3>2. e.fd # NoFd
            <4>1. e.fd \in FDs \cup {NotificationFd}
                BY DEF IInv, TypeOK, Events
            <4> QED BY <3>1, <4>1 DEF NoFd
        <3> QED BY <1>0, <1>t, <2>2, <3>1, <3>2 DEF DispatchClient
    <2>3. CASE Recv(v) \/ Serve(v)
        BY <1>0, <1>t, <2>3 DEF Recv, Serve
    <2>4. CASE CleanupEpoll(v) \/ CleanupClose(v)
        BY <1>0, <1>t, <2>4 DEF CleanupEpoll, CleanupClose
    <2>5. CASE CleanupMemset(v)
        BY <1>0, <1>t, <2>5 DEF CleanupMemset
    <2>6. CASE CleanupRelease(v) \/ RegisterPost(v) \/ RegisterAdd(v) \/ RegisterAddFails(v)
        BY <1>0, <1>t, <2>6 DEF CleanupRelease, RegisterPost, RegisterAdd, RegisterAddFails
    <2>7. CASE RegisterRead(v)
        BY <1>0, <1>t, <2>7 DEF RegisterRead
    <2>8. CASE RegisterAllocate(v)
        <3>1. \/ UNCHANGED clients
              \/ \E i \in Slots : clients' = [clients EXCEPT ![v][i] = value[v]]
            BY <2>8 DEF RegisterAllocate, FreeSlots
        <3>2. /\ thread_pc' = [thread_pc EXCEPT ![v] = "register_drop"]
              \/ thread_pc' = [thread_pc EXCEPT ![v] = "register_welcome"]
            BY <2>8 DEF RegisterAllocate
        <3>3. UNCHANGED current
            BY <2>8 DEF RegisterAllocate
        <3> QED BY <1>0, <1>t, <3>1, <3>2, <3>3
    <2>9. CASE RegisterDrop(v) \/ RegisterWelcome(v)
        BY <1>0, <1>t, <2>9 DEF RegisterDrop, RegisterWelcome
    <2> QED BY <1>2, <2>1, <2>2, <2>3, <2>4, <2>5, <2>6, <2>7, <2>8, <2>9
        DEF WorkerStep, HandlerStep, OwnStep
<1>3. CASE \E f \in FDs : PeerSend(f) \/ PeerClose(f)
    BY <1>0, <1>3 DEF PeerSend, PeerClose, workerVars
<1>4. CASE UNCHANGED vars
    BY <1>0, <1>4 DEF vars, workerVars
<1> QED BY <1>1, <1>2, <1>3, <1>4 DEF Next

\* A notification stays true until the worker reads the eventfd: only the
\* worker empties it, and main only adds to it.
LEMMA NotificationPendingStep == IInv /\ [Next]_vars => NotificationPending'
<1> SUFFICES ASSUME IInv, [Next]_vars PROVE NotificationPending'
    OBVIOUS
<1>0. NotificationPending
    BY DEF IInv
<1>t. /\ thread_pc \in [Workers -> ThreadPcs]
      /\ batch \in [Workers -> SUBSET Events]
      /\ notification \in [Workers -> FDs \cup {NoFd}]
    BY DEF IInv, TypeOK
<1> USE DEF NotificationPending
<1>1. CASE Write
    <2>1. client_fd \in Nat /\ client_fd # 0
        BY <1>1, WritesFd DEF Write
    <2>2. notification[selected_worker] = 0 /\ selected_worker \in Workers
        BY <1>1, MainTookToken DEF Write, IInv, TypeOK
    <2>3. \A w \in Workers : notification[w] # 0 => notification'[w] # 0
        <3> SUFFICES ASSUME NEW w \in Workers, notification[w] # 0
                     PROVE  notification'[w] # 0
            OBVIOUS
        <3>1. w # selected_worker
            BY <2>2
        <3> QED BY <1>t, <1>1, <3>1 DEF Write
    <2> QED BY <1>0, <1>1, <2>3 DEF Write, workerVars
<1>2. CASE Accept \/ (MainStep /\ ~ Write)
    <2>1. UNCHANGED <<workerVars, notification>>
        BY <1>2 DEF Accept, MainStep, KeepaliveOk, KeepaliveFails, ScanFull, ScanTake,
           Reject, SemWait, WriteFails, WriteErrorPost, WriteErrorClose,
           WriteErrorRelease, sharedVars
    <2> QED BY <1>0, <2>1 DEF workerVars
<1>3. ASSUME NEW v \in Workers, WorkerStep(v)
      PROVE  NotificationPending'
    <2> USE DEF sharedVars, Done, NextEvent
    <2>1. CASE Start(v)
        BY <1>0, <1>t, <2>1 DEF Start
    <2>2. CASE EpollWait(v)
        <3>1. \A e \in Ready(v) : e.fd = NotificationFd => ~ e.hup /\ notification[v] # 0
            <4> SUFFICES ASSUME NEW e \in Ready(v), e.fd = NotificationFd
                         PROVE  ~ e.hup /\ notification[v] # 0
                OBVIOUS
            <4>1. CASE \E f \in epoll[v] : e = [fd |-> f, hup |-> peer[f] = "closed"]
                <5>1. PICK f \in FDs : e = [fd |-> f, hup |-> peer[f] = "closed"]
                    BY <4>1 DEF IInv, TypeOK
                <5>2. e.fd = f /\ f \in Nat
                    BY <5>1
                <5> QED BY <5>2 DEF NotificationFd
            <4>2. CASE e = [fd |-> NotificationFd, hup |-> FALSE] /\ notification[v] # 0
                BY <4>2
            <4> QED BY <4>1, <4>2 DEF Ready
        <3> QED BY <1>0, <1>t, <2>2, <3>1 DEF EpollWait
    <2>3. CASE DispatchNotification(v)
        <3>1. PICK e \in batch[v] : /\ e.fd = NotificationFd
                                    /\ batch' = [batch EXCEPT ![v] = @ \ {e}]
            BY <2>3 DEF DispatchNotification
        <3>2. notification[v] # 0
            BY <1>0, <3>1
        <3>3. ASSUME NEW d \in batch'[v]
              PROVE  d.fd # NotificationFd
            <4>1. d \in batch[v] /\ d # e
                BY <1>t, <3>1, <3>3
            <4>2. d \in Events /\ e \in Events
                BY <1>t, <4>1
            <4>3. d = [fd |-> d.fd, hup |-> d.hup] /\ e = [fd |-> e.fd, hup |-> e.hup]
                BY <4>2 DEF Events
            <4>4. CASE d.fd = NotificationFd
                <5>1. ~ d.hup /\ ~ e.hup
                    BY <1>0, <3>1, <4>1, <4>4
                <5>2. d.hup \in BOOLEAN /\ e.hup \in BOOLEAN
                    BY <4>2 DEF Events
                <5>3. d.hup = e.hup
                    BY <5>1, <5>2
                <5> QED BY <3>1, <4>1, <4>3, <4>4, <5>3
            <4> QED BY <4>4
        <3> QED BY <1>0, <1>t, <2>3, <3>1, <3>2, <3>3 DEF DispatchNotification
    <2>4. CASE DispatchClient(v)
        <3>1. PICK e \in batch[v] : batch' = [batch EXCEPT ![v] = @ \ {e}]
            BY <2>4 DEF DispatchClient
        <3>2. thread_pc'[v] # "register_read" /\ UNCHANGED notification
            BY <1>t, <2>4 DEF DispatchClient
        <3>3. \A w \in Workers : batch'[w] \subseteq batch[w]
            BY <1>t, <3>1
        <3>4. \A w \in Workers : thread_pc'[w] = "register_read" =>
                                     thread_pc[w] = "register_read"
            <4>1. \A w \in Workers \ {v} : thread_pc'[w] = thread_pc[w]
                BY <1>t, <2>4 DEF DispatchClient
            <4> QED BY <3>2, <4>1
        <3> QED BY <1>0, <3>2, <3>3, <3>4
    <2>5. CASE Recv(v) \/ Serve(v)
        BY <1>0, <1>t, <2>5 DEF Recv, Serve
    <2>6. CASE CleanupEpoll(v) \/ CleanupClose(v) \/ CleanupMemset(v) \/ CleanupRelease(v)
        BY <1>0, <1>t, <2>6 DEF CleanupEpoll, CleanupClose, CleanupMemset, CleanupRelease
    <2>7. CASE RegisterRead(v)
        <3>1. notification[v] # 0 /\ \A e \in batch[v] : e.fd # NotificationFd
            BY <1>0, <2>7 DEF RegisterRead
        <3>2. /\ notification' = [notification EXCEPT ![v] = 0]
              /\ thread_pc' = [thread_pc EXCEPT ![v] = "register_post"]
              /\ UNCHANGED batch
            BY <2>7, <3>1 DEF RegisterRead
        <3> QED BY <1>0, <1>t, <3>1, <3>2
    <2>8. CASE RegisterPost(v) \/ RegisterAdd(v) \/ RegisterAddFails(v)
        BY <1>0, <1>t, <2>8 DEF RegisterPost, RegisterAdd, RegisterAddFails
    <2>9. CASE RegisterAllocate(v)
        BY <1>0, <1>t, <2>9 DEF RegisterAllocate
    <2>10. CASE RegisterDrop(v) \/ RegisterWelcome(v)
        BY <1>0, <1>t, <2>10 DEF RegisterDrop, RegisterWelcome
    <2> QED BY <1>3, <2>1, <2>2, <2>3, <2>4, <2>5, <2>6, <2>7, <2>8, <2>9, <2>10
        DEF WorkerStep, HandlerStep, OwnStep
<1>4. CASE \E f \in FDs : PeerSend(f) \/ PeerClose(f)
    BY <1>0, <1>4 DEF PeerSend, PeerClose, workerVars, sharedVars
<1>5. CASE UNCHANGED vars
    BY <1>0, <1>5 DEF vars, workerVars, sharedVars
<1> QED BY <1>1, <1>2, <1>3, <1>4, <1>5 DEF Next

-----------------------------------------------------------------------------
\* The inductive invariant, from one lemma per conjunct.
LEMMA IInvInvariant == Spec => []IInv
<1>1. Init => IInv
    BY InitIInv
<1>2. IInv /\ [Next]_vars => IInv'
    BY TypeStep, HoldsFdStep, ServesClientStep, NotificationPendingStep, TokenStep,
       CapacityStep DEF IInv
<1> QED BY <1>1, <1>2, PTL DEF Spec

\* The variables keep their types: in particular num_of_clients never leaves
\* 0 .. MAX_CLIENTS_PER_THREAD and every eventfd holds one descriptor or none.
THEOREM TypeCorrect == Spec => []TypeOK
<1>1. IInv => TypeOK
    BY DEF IInv
<1> QED BY <1>1, IInvInvariant, PTL

\* distribute_client and register_new_client pass one token per worker, so
\* main never adds a second descriptor to an eventfd that holds one.
THEOREM TokenCorrect == Spec => []OneToken
<1>1. IInv => OneToken
    BY DEF IInv
<1> QED BY <1>1, IInvInvariant, PTL

\* num_of_clients counts the used slots and the connections in flight, on
\* every path that increments or decrements it.
THEOREM CapacityCorrect == Spec => []CapacityAccounting
<1>1. IInv => CapacityAccounting
    BY DEF IInv
<1> QED BY <1>1, IInvInvariant, PTL

\* A connection that is being allocated is counted and has no slot yet.
LEMMA SlotForAllocation == IInv => AllocationNeverFails
<1> SUFFICES ASSUME IInv, NEW w \in Workers, thread_pc[w] = "register_allocate"
             PROVE  FreeSlots(w) # {}
    BY DEF AllocationNeverFails
<1>1. num_of_clients[w] = Cardinality(UsedSlots(w)) + Reserved(w)
    BY DEF IInv, CapacityAccounting
<1>2. Cardinality(UsedSlots(w)) \in Nat
    BY UsedSlotsFinite
<1>3. Reserved(w) >= 1 /\ Reserved(w) \in Nat
    BY DEF Reserved, Bit, WorkerReserved
<1>4. num_of_clients[w] \in Nat /\ num_of_clients[w] <= MAX_CLIENTS_PER_THREAD
    BY DEF IInv, TypeOK
<1>5. Cardinality(UsedSlots(w)) < MAX_CLIENTS_PER_THREAD
    BY <1>1, <1>2, <1>3, <1>4
<1>6. UsedSlots(w) # Slots
    BY <1>5, UsedSlotsFinite
<1> QED BY <1>6 DEF FreeSlots, UsedSlots

\* allocate_client_slot always finds a slot, so its "Race condition" branch is
\* dead.
THEOREM AllocationCorrect == Spec => []AllocationNeverFails
<1> QED BY SlotForAllocation, IInvInvariant, PTL

-----------------------------------------------------------------------------
\* How many steps of the round robin ago the scan stood at worker w.
Back(w) == IF w < worker_index THEN worker_index - w
                               ELSE worker_index + MAX_THREADS - w

\* Only main increments, so a worker seen full now was full when the scan
\* began; the workers seen so far are the num_attempts last ones.
ScanCovers ==
    /\ main_pc \in {"scan", "reject"} =>
          /\ full_at_scan \subseteq Workers
          /\ \A w \in Workers :
                num_of_clients[w] >= MAX_CLIENTS_PER_THREAD => w \in full_at_scan
    /\ main_pc = "scan" =>
          \A w \in Workers : Back(w) <= num_attempts => w \in full_at_scan
    /\ main_pc = "reject" => full_at_scan = Workers

\* A worker's step increments no count.
LEMMA WorkersOnlyDecrement ==
    ASSUME IInv, NEW v \in Workers, WorkerStep(v)
    PROVE  \A w \in Workers : num_of_clients'[w] <= num_of_clients[w]
<1>1. num_of_clients \in [Workers -> 0 .. MAX_CLIENTS_PER_THREAD]
    BY DEF IInv, TypeOK
<1>2. UNCHANGED num_of_clients \/ num_of_clients' = [num_of_clients EXCEPT ![v] = @ - 1]
    BY DEF WorkerStep, HandlerStep, OwnStep,
       sharedVars, Start, EpollWait, DispatchNotification, DispatchClient,
       Recv, Serve, CleanupEpoll, CleanupClose, CleanupMemset,
       CleanupRelease, RegisterRead, RegisterPost, RegisterAdd, RegisterAddFails,
       RegisterAllocate, RegisterDrop, RegisterWelcome
<1> QED BY <1>1, <1>2

\* A step of main extends what the scan has covered; a worker only frees places,
\* which does not shrink full_at_scan.
LEMMA ScanCoversStep == IInv /\ ScanCovers /\ [Next]_vars => ScanCovers'
<1> SUFFICES ASSUME IInv, ScanCovers, [Next]_vars PROVE ScanCovers'
    OBVIOUS
<1>t. /\ num_of_clients \in [Workers -> 0 .. MAX_CLIENTS_PER_THREAD]
      /\ worker_index \in Workers
      /\ num_attempts \in 0 .. MAX_THREADS
    BY DEF IInv, TypeOK
<1> USE DEF ScanCovers
<1>1. CASE KeepaliveOk
    <2>1. \A w \in Workers : Back(w)' >= 1
        BY <1>t, <1>1 DEF KeepaliveOk, Back, Workers
    <2>2. num_attempts' = 0 /\ main_pc' = "scan"
        BY <1>1 DEF KeepaliveOk
    <2>3. /\ full_at_scan' = {w \in Workers : num_of_clients[w] >= MAX_CLIENTS_PER_THREAD}
          /\ num_of_clients' = num_of_clients
        BY <1>1 DEF KeepaliveOk, sharedVars
    <2>4. \A w \in Workers : ~ (Back(w)' <= num_attempts')
        <3> SUFFICES ASSUME NEW w \in Workers PROVE ~ (Back(w)' <= num_attempts')
            OBVIOUS
        <3>1. Back(w)' \in Int
            BY <1>t, <1>1 DEF KeepaliveOk, Back, Workers
        <3> QED BY <2>1, <2>2, <3>1
    <2> QED BY <2>2, <2>3, <2>4
<1>2. CASE ScanFull
    <2>1. worker_index \in full_at_scan /\ full_at_scan' = full_at_scan
        BY <1>t, <1>2 DEF ScanFull
    <2>2. /\ worker_index' = IF worker_index = MAX_THREADS - 1 THEN 0 ELSE worker_index + 1
          /\ num_of_clients' = num_of_clients
        BY <1>t, <1>2, NextWorkerValue DEF ScanFull, sharedVars
    <2>3. ASSUME NEW w \in Workers, w # worker_index
          PROVE  Back(w)' = Back(w) + 1 /\ Back(w) \in Int
        BY <1>t, <2>2, <2>3 DEF Back, Workers
    <2>4. ASSUME NEW w \in Workers
          PROVE  Back(w) \in 1 .. MAX_THREADS
        BY <1>t DEF Back, Workers
    <2>5. CASE num_attempts = MAX_THREADS
        <3>1. full_at_scan = Workers
            BY <1>2, <2>4, <2>5 DEF ScanFull
        <3> QED BY <1>2, <2>1, <2>2, <2>5, <3>1 DEF ScanFull
    <2>6. CASE num_attempts # MAX_THREADS
        <3>1. num_attempts' = num_attempts + 1 /\ main_pc' = "scan"
            BY <1>2, <2>6 DEF ScanFull
        <3>2. ASSUME NEW w \in Workers, Back(w)' <= num_attempts'
              PROVE  w \in full_at_scan
            BY <1>t, <1>2, <2>1, <2>3, <3>1, <3>2 DEF ScanFull
        <3> QED BY <1>2, <2>1, <2>2, <3>1, <3>2 DEF ScanFull
    <2> QED BY <2>5, <2>6
<1>3. CASE Accept \/ KeepaliveFails \/ ScanTake \/ Reject \/ SemWait \/ Write \/ WriteFails
           \/ WriteErrorPost \/ WriteErrorClose \/ WriteErrorRelease
    <2>1. main_pc' \notin {"scan", "reject"}
        BY <1>3 DEF Accept, KeepaliveFails, ScanTake, Reject, SemWait, Write, WriteFails,
           WriteErrorPost, WriteErrorClose, WriteErrorRelease
    <2> QED BY <2>1
<1>4. ASSUME NEW v \in Workers, WorkerStep(v)
      PROVE  ScanCovers'
    <2>1. UNCHANGED mainVars
        BY <1>4 DEF WorkerStep, HandlerStep, OwnStep,
           Start, EpollWait, DispatchNotification, DispatchClient,
           Recv, Serve, CleanupEpoll, CleanupClose, CleanupMemset,
           CleanupRelease, RegisterRead, RegisterPost, RegisterAdd, RegisterAddFails,
           RegisterAllocate, RegisterDrop, RegisterWelcome
    <2>2. \A w \in Workers : num_of_clients'[w] >= MAX_CLIENTS_PER_THREAD
                               => num_of_clients[w] >= MAX_CLIENTS_PER_THREAD
        <3> SUFFICES ASSUME NEW w \in Workers,
                            num_of_clients'[w] >= MAX_CLIENTS_PER_THREAD
                     PROVE  num_of_clients[w] >= MAX_CLIENTS_PER_THREAD
            OBVIOUS
        <3>1. num_of_clients'[w] <= num_of_clients[w]
            BY <1>4, WorkersOnlyDecrement
        <3>2. num_of_clients[w] \in Int /\ num_of_clients'[w] \in Int
            BY <1>t, TypeStep DEF TypeOK
        <3> QED BY <3>1, <3>2
    <2> QED BY <2>1, <2>2 DEF mainVars, Back
<1>5. CASE \E f \in FDs : PeerSend(f) \/ PeerClose(f)
    BY <1>5 DEF PeerSend, PeerClose, mainVars, sharedVars, Back
<1>6. CASE UNCHANGED vars
    BY <1>6 DEF vars, mainVars, sharedVars, Back
<1> QED BY <1>1, <1>2, <1>3, <1>4, <1>5, <1>6 DEF Next, MainStep

\* find_worker_not_at_capacity answers -1 only if all workers were at
\* capacity at one instant, whatever places they free during the scan.
THEOREM RejectCorrect == Spec => []RejectOnlyWhenFull
<1>1. Init => ScanCovers
    BY DEF Init, ScanCovers
<1>2. IInv /\ ScanCovers /\ [Next]_vars => ScanCovers'
    BY ScanCoversStep
<1>3. ScanCovers => RejectOnlyWhenFull
    BY DEF ScanCovers, RejectOnlyWhenFull
<1> QED BY <1>1, <1>2, <1>3, IInvInvariant, PTL DEF Spec

=============================================================================
