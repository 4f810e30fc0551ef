--------------------------- MODULE ClientHandoff ---------------------------
(***************************************************************************)
(* How an accepted connection becomes a client of a worker thread, and how *)
(* the worker gives its descriptor and its capacity back: src/server/      *)
(* main.c, client_distributor.c, connection_handler.c and the cleanup half *)
(* of client_state_manager.c.                                              *)
(*                                                                         *)
(* The main thread accepts, reserves a place in a worker's count, waits    *)
(* for the worker's semaphore and ADDS the descriptor to the worker's      *)
(* eventfd.  The worker reads the eventfd, posts the semaphore, registers  *)
(* the descriptor with its epoll instance and gives it a slot.             *)
(*                                                                         *)
(* Program counters stand between two steps of a thread wherever another   *)
(* thread, a peer or the kernel can tell the two apart.  A critical        *)
(* section of num_of_clients_lock is one step.  What a client says is      *)
(* abstracted to: it sent something, or it is gone.  What a worker does    *)
(* about it, with the room locks it waits for and the sends it retries     *)
(* without end, is one step that may never come; a send to a fresh socket  *)
(* does not block.  A client sends nothing after EXIT in the same segment: *)
(* what becomes of the counter then is in SessionReader (LeftIsCleanedUp). *)
(* A local variable that nothing will read again is reset.                 *)
(***************************************************************************)
EXTENDS Integers, FiniteSets

CONSTANTS
    MAX_THREADS,             \* worker threads
    MAX_CLIENTS_PER_THREAD,  \* slots of a worker
    FDs,                     \* descriptors accept4 may return (the ulimit)
    Faults                   \* system calls that may fail

ASSUME MaxThreadsAssumption == MAX_THREADS \in Nat \ {0}
ASSUME MaxClientsAssumption == MAX_CLIENTS_PER_THREAD \in Nat \ {0}
ASSUME FDsAssumption == FDs \subseteq Nat \ {0}
ASSUME FaultsAssumption == Faults \subseteq {"setsockopt", "write", "epoll_ctl"}

Workers == 0 .. MAX_THREADS - 1
Slots == 0 .. MAX_CLIENTS_PER_THREAD - 1

\* A slot the memset has cleared: in_use is false and client_fd is 0.
NoFd == 0
\* The tag epoll reports for a worker's own eventfd.
NotificationFd == -1

VARIABLES
    main_pc,          \* where the main thread is
    client_fd,        \* the descriptor it is distributing
    worker_index,     \* the static round-robin index
    num_attempts,     \* workers found full in this scan
    selected_worker,  \* the worker chosen by the last successful scan
    num_of_clients,   \* per worker: the count both threads update
    new_client,       \* per worker: the semaphore
    notification,     \* per worker: the eventfd counter
    thread_pc,        \* per worker: where it is
    value,            \* per worker: what it last read from the eventfd
    clients,          \* per worker and slot: client_fd, NoFd when not in use
    epoll,            \* per worker: client descriptors in its epoll instance
    batch,            \* per worker: events of the last epoll_wait still to do
    current,          \* per worker: the slot being served
    open,             \* descriptors the process has open
    peer,             \* per descriptor: what the other end has done
    full_at_scan      \* history: the workers that were full when the scan began

mainVars == <<main_pc, client_fd, worker_index, num_attempts, selected_worker,
              full_at_scan>>
workerVars == <<thread_pc, value, clients, epoll, batch, current>>
sharedVars == <<num_of_clients, new_client, notification>>
kernelVars == <<open, peer>>
vars == <<mainVars, workerVars, sharedVars, kernelVars>>

MainPcs == {"accept", "keepalive", "scan", "reject", "sem_wait", "write",
            "write_error_post", "write_error_close", "write_error_release"}
ThreadPcs == {"start", "epoll_wait", "dispatch", "recv", "serve",
              "cleanup_epoll", "cleanup_close", "cleanup_memset", "cleanup_release",
              "register_read", "register_post", "register_add",
              "register_allocate", "register_drop", "register_welcome"}

Events == [fd : FDs \cup {NotificationFd}, hup : BOOLEAN]

TypeOK ==
    /\ main_pc \in MainPcs
    /\ client_fd \in FDs \cup {NoFd}
    /\ worker_index \in Workers
    /\ num_attempts \in 0 .. MAX_THREADS
    /\ selected_worker \in Workers
    /\ num_of_clients \in [Workers -> 0 .. MAX_CLIENTS_PER_THREAD]
    /\ new_client \in [Workers -> {0, 1}]
    /\ notification \in [Workers -> FDs \cup {NoFd}]
    /\ thread_pc \in [Workers -> ThreadPcs]
    /\ value \in [Workers -> FDs \cup {NoFd}]
    /\ clients \in [Workers -> [Slots -> FDs \cup {NoFd}]]
    /\ epoll \in [Workers -> SUBSET FDs]
    /\ batch \in [Workers -> SUBSET Events]
    /\ current \in [Workers -> Slots]
    /\ open \subseteq FDs
    /\ peer \in [FDs -> {"idle", "sent", "closed"}]
    /\ full_at_scan \subseteq Workers

\* setup_threads: everything is zeroed and the semaphore starts at 1; the
\* workers are created here but have not run yet.
Init ==
    /\ main_pc = "accept"
    /\ client_fd = NoFd
    /\ worker_index = 0
    /\ num_attempts = 0
    /\ selected_worker = 0
    /\ num_of_clients = [w \in Workers |-> 0]
    /\ new_client = [w \in Workers |-> 1]
    /\ notification = [w \in Workers |-> 0]
    /\ thread_pc = [w \in Workers |-> "start"]
    /\ value = [w \in Workers |-> NoFd]
    /\ clients = [w \in Workers |-> [i \in Slots |-> NoFd]]
    /\ epoll = [w \in Workers |-> {}]
    /\ batch = [w \in Workers |-> {}]
    /\ current = [w \in Workers |-> 0]
    /\ open = {}
    /\ peer = [f \in FDs |-> "idle"]
    /\ full_at_scan = {}

-----------------------------------------------------------------------------
\* The kernel.

\* close(2): the number is free for the next accept4.
Close(f) ==
    /\ open' = open \ {f}
    /\ peer' = [peer EXCEPT ![f] = "idle"]

PeerSend(f) ==
    /\ f \in open /\ peer[f] = "idle"
    /\ peer' = [peer EXCEPT ![f] = "sent"]
    /\ UNCHANGED <<mainVars, workerVars, sharedVars, open>>

\* The peer closes, resets, or is given up by the keepalive probes.
PeerClose(f) ==
    /\ f \in open /\ peer[f] # "closed"
    /\ peer' = [peer EXCEPT ![f] = "closed"]
    /\ UNCHANGED <<mainVars, workerVars, sharedVars, open>>

-----------------------------------------------------------------------------
\* The main thread.

\* accept4 returns the lowest free descriptor.
Accept ==
    /\ main_pc = "accept"
    /\ \E f \in FDs \ open :
        /\ \A g \in FDs \ open : f <= g
        /\ client_fd' = f
        /\ open' = open \cup {f}
    /\ main_pc' = "keepalive"
    /\ UNCHANGED <<worker_index, num_attempts, selected_worker, full_at_scan,
                   workerVars, sharedVars, peer>>

KeepaliveOk ==
    /\ main_pc = "keepalive"
    /\ main_pc' = "scan"
    /\ num_attempts' = 0
    /\ full_at_scan' = {w \in Workers : num_of_clients[w] >= MAX_CLIENTS_PER_THREAD}
    /\ UNCHANGED <<client_fd, worker_index, selected_worker,
                   workerVars, sharedVars, kernelVars>>

\* The loop continues; nothing closes the descriptor.
KeepaliveFails ==
    /\ main_pc = "keepalive" /\ "setsockopt" \in Faults
    /\ main_pc' = "accept"
    /\ client_fd' = NoFd
    /\ UNCHANGED <<worker_index, num_attempts, selected_worker, full_at_scan,
                   workerVars, sharedVars, kernelVars>>

\* Mutants of NextWorker: the index leaves the array, or never moves.
NextWorkerNoModulo(w) == w + 1
NextWorkerStuck(w) == w

NextWorker(w) == (w + 1) % MAX_THREADS

ScanFull ==
    /\ main_pc = "scan"
    /\ num_of_clients[worker_index] >= MAX_CLIENTS_PER_THREAD
    /\ worker_index' = NextWorker(worker_index)
    /\ IF num_attempts = MAX_THREADS
       THEN main_pc' = "reject" /\ UNCHANGED num_attempts
       ELSE num_attempts' = num_attempts + 1 /\ UNCHANGED main_pc
    /\ UNCHANGED <<client_fd, selected_worker, full_at_scan,
                   workerVars, sharedVars, kernelVars>>

\* Mutant of ScanTake: admits one client too many.
ScanTakeOneMore ==
    /\ main_pc = "scan"
    /\ num_of_clients[worker_index] <= MAX_CLIENTS_PER_THREAD
    /\ num_of_clients' = [num_of_clients EXCEPT ![worker_index] = @ + 1]
    /\ selected_worker' = worker_index
    /\ num_attempts' = 0
    /\ worker_index' = NextWorker(worker_index)
    /\ main_pc' = "sem_wait"
    /\ full_at_scan' = {}
    /\ UNCHANGED <<client_fd, new_client, notification,
                   workerVars, kernelVars>>

ScanTake ==
    /\ main_pc = "scan"
    /\ num_of_clients[worker_index] < MAX_CLIENTS_PER_THREAD
    /\ num_of_clients' = [num_of_clients EXCEPT ![worker_index] = @ + 1]
    /\ selected_worker' = worker_index
    /\ num_attempts' = 0
    /\ worker_index' = NextWorker(worker_index)
    /\ main_pc' = "sem_wait"
    /\ full_at_scan' = {}
    /\ UNCHANGED <<client_fd, new_client, notification,
                   workerVars, kernelVars>>

\* ERR_SERVER_FULL, then close.
Reject ==
    /\ main_pc = "reject"
    /\ Close(client_fd)
    /\ client_fd' = NoFd
    /\ full_at_scan' = {}
    /\ main_pc' = "accept"
    /\ num_attempts' = 0
    /\ UNCHANGED <<worker_index, selected_worker,
                   workerVars, sharedVars>>

\* Mutant of SemWait: main does not wait for the worker.
SemWaitSkipped ==
    /\ main_pc = "sem_wait"
    /\ main_pc' = "write"
    /\ UNCHANGED <<client_fd, worker_index, num_attempts, selected_worker,
                   full_at_scan, sharedVars, workerVars, kernelVars>>

SemWait ==
    /\ main_pc = "sem_wait"
    /\ new_client[selected_worker] > 0
    /\ new_client' = [new_client EXCEPT ![selected_worker] = @ - 1]
    /\ main_pc' = "write"
    /\ UNCHANGED <<client_fd, worker_index, num_attempts, selected_worker,
                   full_at_scan, num_of_clients, notification,
                   workerVars, kernelVars>>

\* A write to an eventfd adds to its counter.
Write ==
    /\ main_pc = "write"
    /\ notification' = [notification EXCEPT ![selected_worker] = @ + client_fd]
    /\ client_fd' = NoFd
    /\ main_pc' = "accept"
    /\ selected_worker' = 0
    /\ UNCHANGED <<worker_index, num_attempts, full_at_scan,
                   num_of_clients, new_client, workerVars, kernelVars>>

WriteFails ==
    /\ main_pc = "write" /\ "write" \in Faults
    /\ main_pc' = "write_error_post"
    /\ UNCHANGED <<client_fd, worker_index, num_attempts, selected_worker,
                   full_at_scan, workerVars, sharedVars, kernelVars>>

WriteErrorPost ==
    /\ main_pc = "write_error_post"
    /\ new_client' = [new_client EXCEPT ![selected_worker] = @ + 1]
    /\ main_pc' = "write_error_close"
    /\ UNCHANGED <<client_fd, worker_index, num_attempts, selected_worker,
                   full_at_scan, num_of_clients, notification,
                   workerVars, kernelVars>>

\* Mutant of WriteErrorClose: the descriptor stays open.
WriteErrorKeepsOpen ==
    /\ main_pc = "write_error_close"
    /\ client_fd' = NoFd
    /\ main_pc' = "write_error_release"
    /\ UNCHANGED <<worker_index, num_attempts, selected_worker, full_at_scan,
                   workerVars, sharedVars, kernelVars>>

\* ERR_CONNECTING, then close.
WriteErrorClose ==
    /\ main_pc = "write_error_close"
    /\ Close(client_fd)
    /\ client_fd' = NoFd
    /\ main_pc' = "write_error_release"
    /\ UNCHANGED <<worker_index, num_attempts, selected_worker, full_at_scan,
                   workerVars, sharedVars>>

WriteErrorRelease ==
    /\ main_pc = "write_error_release"
    /\ num_of_clients' = [num_of_clients EXCEPT ![selected_worker] = @ - 1]
    /\ main_pc' = "accept"
    /\ selected_worker' = 0
    /\ UNCHANGED <<client_fd, worker_index, num_attempts,
                   full_at_scan, new_client, notification, workerVars, kernelVars>>

MainStep ==
    \/ KeepaliveOk \/ KeepaliveFails \/ ScanFull \/ ScanTake \/ Reject
    \/ SemWait \/ Write \/ WriteFails
    \/ WriteErrorPost \/ WriteErrorClose \/ WriteErrorRelease

-----------------------------------------------------------------------------
\* A worker thread.

UsedSlots(w) == {i \in Slots : clients[w][i] # NoFd}
FreeSlots(w) == Slots \ UsedSlots(w)

\* for (i = 0; ...) over the slots: the first one that satisfies the test.
IsFirst(i, S) == i \in S /\ \A j \in S : i <= j

\* epoll_create1 and the registration of the eventfd.
Start(w) ==
    /\ thread_pc[w] = "start"
    /\ thread_pc' = [thread_pc EXCEPT ![w] = "epoll_wait"]
    /\ UNCHANGED <<mainVars, sharedVars, kernelVars, value, clients, epoll,
                   batch, current>>

\* Mutant of Ready: descriptors are registered without EPOLLRDHUP and EPOLLHUP.
ReadyNoHup(w) ==
    {[fd |-> f, hup |-> FALSE] : f \in {g \in epoll[w] : peer[g] = "sent"}}
    \cup {[fd |-> g, hup |-> FALSE] : g \in {h \in {NotificationFd} : notification[w] # 0}}

\* What a level-triggered epoll_wait reports now; EPOLLRDHUP, EPOLLERR and
\* EPOLLHUP are one event here because process_epoll_events treats them alike.
Ready(w) ==
    {[fd |-> f, hup |-> peer[f] = "closed"] : f \in {g \in epoll[w] : peer[g] # "idle"}}
    \cup {[fd |-> g, hup |-> FALSE] : g \in {h \in {NotificationFd} : notification[w] # 0}}

EpollWait(w) ==
    /\ thread_pc[w] = "epoll_wait"
    /\ Ready(w) # {}
    /\ batch' = [batch EXCEPT ![w] = Ready(w)]
    /\ thread_pc' = [thread_pc EXCEPT ![w] = "dispatch"]
    /\ UNCHANGED <<mainVars, sharedVars, kernelVars, value, clients, epoll, current>>

\* Where the event loop goes once the event at hand is done.
NextEvent(B) == IF B = {} THEN "epoll_wait" ELSE "dispatch"
Done(w) == thread_pc' = [thread_pc EXCEPT ![w] = NextEvent(batch[w])]

DispatchNotification(w) ==
    /\ thread_pc[w] = "dispatch"
    /\ \E e \in batch[w] :
        /\ e.fd = NotificationFd
        /\ batch' = [batch EXCEPT ![w] = @ \ {e}]
    /\ thread_pc' = [thread_pc EXCEPT ![w] = "register_read"]
    /\ UNCHANGED <<mainVars, sharedVars, kernelVars, value, clients, epoll, current>>

\* Mutant of DispatchClient: the continue after the disconnection is missing.
DispatchClientFallsThrough(w) ==
    /\ thread_pc[w] = "dispatch"
    /\ \E e \in batch[w] :
        /\ e.fd # NotificationFd
        /\ batch' = [batch EXCEPT ![w] = IF e.hup THEN @ ELSE @ \ {e}]
        /\ \E i \in Slots : /\ clients[w][i] = e.fd
                            /\ current' = [current EXCEPT ![w] = i]
        /\ thread_pc' = [thread_pc EXCEPT ![w] = IF e.hup THEN "cleanup_epoll" ELSE "recv"]
    /\ UNCHANGED <<mainVars, sharedVars, kernelVars, value, clients, epoll>>

\* find_client_by_fd, then disconnection or a read.
DispatchClient(w) ==
    /\ thread_pc[w] = "dispatch"
    /\ \E e \in batch[w] :
        /\ e.fd # NotificationFd
        /\ batch' = [batch EXCEPT ![w] = @ \ {e}]
        /\ LET found == {i \in Slots : clients[w][i] = e.fd} IN
           IF found = {}
           THEN /\ thread_pc' = [thread_pc EXCEPT ![w] = NextEvent(batch[w] \ {e})]
                /\ UNCHANGED current
           ELSE /\ \E i \in found : /\ IsFirst(i, found)
                                    /\ current' = [current EXCEPT ![w] = i]
                /\ thread_pc' = [thread_pc EXCEPT ![w] =
                                    IF e.hup THEN "cleanup_epoll" ELSE "recv"]
    /\ UNCHANGED <<mainVars, sharedVars, kernelVars, value, clients, epoll>>

\* recv takes what the peer sent; a close that followed stays to be seen.
Consume(f) == peer' = [peer EXCEPT ![f] = IF @ = "sent" THEN "idle" ELSE @]

\* A peer that closed meanwhile makes recv fail, or return 0, which an errno
\* left over from an earlier call turns into a return.
Recv(w) ==
    LET f == clients[w][current[w]] IN
    /\ thread_pc[w] = "recv"
    /\ Consume(f)
    /\ \/ thread_pc' = [thread_pc EXCEPT ![w] = "serve"]
       \/ peer[f] = "closed" /\ thread_pc' = [thread_pc EXCEPT ![w] = "cleanup_epoll"]
       \/ peer[f] = "closed" /\ Done(w)
    /\ UNCHANGED <<mainVars, sharedVars, open, value, clients, epoll, batch, current>>

\* The commands of what was read: they keep the connection, or end with EXIT.
Serve(w) ==
    /\ thread_pc[w] = "serve"
    /\ Done(w) \/ thread_pc' = [thread_pc EXCEPT ![w] = "cleanup_epoll"]
    /\ UNCHANGED <<mainVars, sharedVars, kernelVars, value, clients, epoll, batch, current>>

\* handle_client_disconnection: leave_room, which only the rooms see, then
\* cleanup_client, four steps that main's accept4 can fall between.
CleanupEpoll(w) ==
    /\ thread_pc[w] = "cleanup_epoll"
    /\ epoll' = [epoll EXCEPT ![w] = @ \ {clients[w][current[w]]}]
    /\ thread_pc' = [thread_pc EXCEPT ![w] = "cleanup_close"]
    /\ UNCHANGED <<mainVars, sharedVars, kernelVars, value, clients, batch, current>>

CleanupClose(w) ==
    /\ thread_pc[w] = "cleanup_close"
    /\ Close(clients[w][current[w]])
    /\ thread_pc' = [thread_pc EXCEPT ![w] = "cleanup_memset"]
    /\ UNCHANGED <<mainVars, sharedVars, value, clients, epoll, batch, current>>

\* Mutant of CleanupMemset: only in_use is reset, find_client_by_fd still
\* finds the old descriptor.
CleanupMemsetKeepsFd(w) ==
    /\ thread_pc[w] = "cleanup_memset"
    /\ thread_pc' = [thread_pc EXCEPT ![w] = "cleanup_release"]
    /\ UNCHANGED <<mainVars, sharedVars, kernelVars, value, clients, epoll, batch, current>>

CleanupMemset(w) ==
    /\ thread_pc[w] = "cleanup_memset"
    /\ clients' = [clients EXCEPT ![w][current[w]] = NoFd]
    /\ thread_pc' = [thread_pc EXCEPT ![w] = "cleanup_release"]
    /\ UNCHANGED <<mainVars, sharedVars, kernelVars, value, epoll, batch, current>>

CleanupRelease(w) ==
    /\ thread_pc[w] = "cleanup_release"
    /\ num_of_clients' = [num_of_clients EXCEPT ![w] = @ - 1]
    /\ Done(w)
    /\ UNCHANGED <<mainVars, new_client, notification, kernelVars,
                   value, clients, epoll, batch, current>>

\* read takes the whole counter; on an empty one it fails, and the code gives
\* the place and the semaphore back.
RegisterRead(w) ==
    /\ thread_pc[w] = "register_read"
    /\ IF notification[w] = 0
       THEN /\ num_of_clients' = [num_of_clients EXCEPT ![w] = @ - 1]
            /\ new_client' = [new_client EXCEPT ![w] = @ + 1]
            /\ Done(w)
            /\ UNCHANGED <<value, notification>>
       ELSE /\ value' = [value EXCEPT ![w] = notification[w]]
            /\ notification' = [notification EXCEPT ![w] = 0]
            /\ thread_pc' = [thread_pc EXCEPT ![w] = "register_post"]
            /\ UNCHANGED <<num_of_clients, new_client>>
    /\ UNCHANGED <<mainVars, kernelVars, clients, epoll, batch, current>>

\* Mutant of RegisterPost: the worker never tells main it has the descriptor.
RegisterPostMissing(w) ==
    /\ thread_pc[w] = "register_post"
    /\ thread_pc' = [thread_pc EXCEPT ![w] = "register_add"]
    /\ UNCHANGED <<mainVars, sharedVars, kernelVars, value, clients, epoll, batch, current>>

RegisterPost(w) ==
    /\ thread_pc[w] = "register_post"
    /\ new_client' = [new_client EXCEPT ![w] = @ + 1]
    /\ thread_pc' = [thread_pc EXCEPT ![w] = "register_add"]
    /\ UNCHANGED <<mainVars, num_of_clients, notification, kernelVars,
                   value, clients, epoll, batch, current>>

RegisterAdd(w) ==
    /\ thread_pc[w] = "register_add"
    /\ epoll' = [epoll EXCEPT ![w] = @ \cup {value[w]}]
    /\ thread_pc' = [thread_pc EXCEPT ![w] = "register_allocate"]
    /\ UNCHANGED <<mainVars, sharedVars, kernelVars, value, clients, batch, current>>

\* Mutants of RegisterAddFails: the place is not given back, or the result
\* of register_with_epoll is ignored.
RegisterAddKeepsPlace(w) ==
    /\ thread_pc[w] = "register_add" /\ "epoll_ctl" \in Faults
    /\ thread_pc' = [thread_pc EXCEPT ![w] = "register_drop"]
    /\ UNCHANGED <<mainVars, sharedVars, kernelVars, value, clients, epoll, batch, current>>
RegisterAddIgnored(w) ==
    /\ thread_pc[w] = "register_add" /\ "epoll_ctl" \in Faults
    /\ thread_pc' = [thread_pc EXCEPT ![w] = "register_allocate"]
    /\ UNCHANGED <<mainVars, sharedVars, kernelVars, value, clients, epoll, batch, current>>

RegisterAddFails(w) ==
    /\ thread_pc[w] = "register_add" /\ "epoll_ctl" \in Faults
    /\ num_of_clients' = [num_of_clients EXCEPT ![w] = @ - 1]
    /\ thread_pc' = [thread_pc EXCEPT ![w] = "register_drop"]
    /\ UNCHANGED <<mainVars, new_client, notification, kernelVars,
                   value, clients, epoll, batch, current>>

\* allocate_client_slot; without a slot it gives the place back and closes.
RegisterAllocate(w) ==
    /\ thread_pc[w] = "register_allocate"
    /\ IF FreeSlots(w) = {}
       THEN /\ num_of_clients' = [num_of_clients EXCEPT ![w] = @ - 1]
            /\ thread_pc' = [thread_pc EXCEPT ![w] = "register_drop"]
            /\ UNCHANGED clients
       ELSE /\ \E i \in FreeSlots(w) :
                /\ IsFirst(i, FreeSlots(w))
                /\ clients' = [clients EXCEPT ![w][i] = value[w]]
            /\ thread_pc' = [thread_pc EXCEPT ![w] = "register_welcome"]
            /\ UNCHANGED num_of_clients
    /\ UNCHANGED <<mainVars, new_client, notification, kernelVars,
                   value, epoll, batch, current>>

\* close also takes the descriptor out of the epoll instance.
RegisterDrop(w) ==
    /\ thread_pc[w] = "register_drop"
    /\ Close(value[w])
    /\ epoll' = [epoll EXCEPT ![w] = @ \ {value[w]}]
    /\ value' = [value EXCEPT ![w] = NoFd]
    /\ Done(w)
    /\ UNCHANGED <<mainVars, sharedVars, clients, batch, current>>

RegisterWelcome(w) ==
    /\ thread_pc[w] = "register_welcome"
    /\ value' = [value EXCEPT ![w] = NoFd]
    /\ Done(w)
    /\ UNCHANGED <<mainVars, sharedVars, kernelVars, clients, epoll, batch, current>>

\* The steps that end a handler: they take room locks and send to clients.
HandlerStep(w) == Serve(w) \/ CleanupEpoll(w)

\* The steps that wait for nobody.
OwnStep(w) ==
    \/ Start(w) \/ EpollWait(w) \/ DispatchNotification(w) \/ DispatchClient(w)
    \/ Recv(w) \/ CleanupClose(w) \/ CleanupMemset(w) \/ CleanupRelease(w)
    \/ RegisterRead(w) \/ RegisterPost(w) \/ RegisterAdd(w) \/ RegisterAddFails(w)
    \/ RegisterAllocate(w) \/ RegisterDrop(w) \/ RegisterWelcome(w)

WorkerStep(w) == HandlerStep(w) \/ OwnStep(w)

-----------------------------------------------------------------------------
Next ==
    \/ Accept
    \/ MainStep
    \/ \E w \in Workers : WorkerStep(w)
    \/ \E f \in FDs : PeerSend(f) \/ PeerClose(f)

Spec == Init /\ [][Next]_vars

\* Every thread is a kernel thread: the scheduler runs it whenever it can run.
\* sem_wait and epoll_wait say themselves when that is. A handler may wait for
\* a room lock and retry a send for ever, so no fairness ends one; and nothing
\* obliges a peer to connect, to send or to close.
Fairness ==
    /\ WF_vars(MainStep)
    /\ \A w \in Workers : WF_vars(OwnStep(w))

FairSpec == Spec /\ Fairness

\* What peers that keep reading, and room locks that pass over nobody for ever,
\* bring about, and one client that does not read prevents (SlowReader of
\* RoomManager): no worker stays in a handler. What rests on it says so.
HandlersReturn ==
    \A w \in Workers : []<>(thread_pc[w] \notin {"serve", "cleanup_epoll"})

-----------------------------------------------------------------------------
\* The places that hold a descriptor and will still act on it.

MainHolds == {"keepalive", "scan", "reject", "sem_wait", "write",
              "write_error_post", "write_error_close"}
WorkerHolds == {"register_post", "register_add", "register_allocate", "register_drop"}

Owners(f) ==
    {<<"main", 0, 0>> : x \in {y \in {main_pc} : y \in MainHolds /\ client_fd = f}}
    \cup {<<"eventfd", w, 0>> : w \in {u \in Workers : notification[u] = f}}
    \cup {<<"worker", w, 0>> : w \in {u \in Workers : thread_pc[u] \in WorkerHolds
                                                       /\ value[u] = f}}
    \cup {<<"slot", s[1], s[2]>> : s \in {t \in Workers \X Slots :
              /\ clients[t[1]][t[2]] = f
              /\ ~ (thread_pc[t[1]] = "cleanup_memset" /\ current[t[1]] = t[2])}}

\* Every descriptor is held in at most one place, and only while it is open:
\* no two threads ever serve or close the same connection, although close
\* frees the number before cleanup_client has cleared the slot and main may
\* hand the number to another worker in between.
OneOwner ==
    \A f \in FDs : /\ Cardinality(Owners(f)) <= 1
                   /\ Owners(f) # {} => f \in open

\* Every open connection is held by somebody, so no descriptor is leaked.
NoFdLeak == \A f \in open : Owners(f) # {}

Bit(p) == IF p THEN 1 ELSE 0

\* The main thread has taken worker w's semaphore and not yet given it on.
MainHasToken(w) == selected_worker = w /\ main_pc \in {"write", "write_error_post"}

\* The semaphore passes one token around: it is in the semaphore, with main,
\* in the eventfd (as a descriptor the worker has not read) or with the worker
\* between its read and its sem_post. So an eventfd, which adds what is
\* written to it, never holds the sum of two descriptors.
OneToken ==
    \A w \in Workers :
        new_client[w] + Bit(MainHasToken(w)) + Bit(notification[w] # 0)
            + Bit(thread_pc[w] = "register_post") = 1

\* A place in w's count that no slot shows yet, or no longer shows.
MainReserved(w) ==
    /\ selected_worker = w
    /\ main_pc \in {"sem_wait", "write", "write_error_post", "write_error_close",
                    "write_error_release"}
WorkerReserved(w) ==
    thread_pc[w] \in {"register_post", "register_add", "register_allocate",
                      "cleanup_release"}
Reserved(w) == Bit(MainReserved(w)) + Bit(notification[w] # 0) + Bit(WorkerReserved(w))

\* num_of_clients, incremented by main and decremented by either thread on
\* five different paths, counts exactly the used slots and the connections on
\* their way to or from one: no place is lost and none is given away twice.
CapacityAccounting ==
    \A w \in Workers : num_of_clients[w] = Cardinality(UsedSlots(w)) + Reserved(w)

\* A worker that was handed a connection has a slot for it: the branch that
\* logs "Race condition" is never taken.
AllocationNeverFails ==
    \A w \in Workers : thread_pc[w] = "register_allocate" => FreeSlots(w) # {}

\* A connection is refused only if every worker was full at one instant,
\* the beginning of the scan, although the scan looks at the workers one
\* after the other while they free places.
RejectOnlyWhenFull == main_pc = "reject" => full_at_scan = Workers

\* What a worker's epoll instance watches is what its slots hold: a slot that
\* is not watched would never be served, a descriptor watched without a slot
\* would make the event loop spin on "Could not find client struct".
EpollMatchesSlots ==
    \A w \in Workers :
        epoll[w] = ({clients[w][i] : i \in UsedSlots(w)}
                       \ (IF thread_pc[w] \in {"cleanup_close", "cleanup_memset"}
                          THEN {clients[w][current[w]]} ELSE {}))
                   \cup (IF thread_pc[w] = "register_allocate" THEN {value[w]} ELSE {})

\* An event that waits in a worker's batch is still true when its turn comes:
\* the eventfd is readable and the client has a slot, whatever the events
\* before it in the same batch did.
BatchIsLive ==
    \A w \in Workers : \A e \in batch[w] :
        IF e.fd = NotificationFd
        THEN notification[w] # 0
        ELSE \E i \in UsedSlots(w) : clients[w][i] = e.fd

Welcomed(f) ==
    \E w \in Workers :
        /\ \E i \in Slots : clients[w][i] = f
        /\ ~ (thread_pc[w] = "register_welcome" /\ value[w] = f)

\* If handlers return, every accepted connection is eventually welcomed by a
\* worker or closed, with an error or because the peer went away.
EveryConnectionIsAnswered ==
    HandlersReturn => \A f \in FDs : f \in open ~> (f \notin open \/ Welcomed(f))

\* If handlers return, a connection whose peer is gone is eventually closed,
\* however many other clients of its worker are served in between.
DeadPeerIsReclaimed ==
    HandlersReturn => \A f \in FDs : (f \in open /\ peer[f] = "closed") ~> f \notin open

=============================================================================
