# A verification project for the Chat Application

The repository is a chat server in C (epoll, a main thread, four worker
threads) and an ncurses client. This directory holds TLA+ modules of the server
and of the client, the TLC configurations that check them on small instances,
and proofs checked by TLAPS. Paths below are relative to the repository's root; line
numbers of every definition are in `PROJECT.json` under `map`.

## 1. Inventory

| Component | State it keeps | Operations | Modelled in |
|---|---|---|---|
| Main thread (`server/main.c`) | listening socket, `client_fd` | `setup_threads`, `init_server_rooms`, the accept loop, `set_socket_keep_alive` | ClientHandoff |
| Client distributor (`server/client_distributor.c`) | static `worker_index` | `distribute_client`, `find_worker_not_at_capacity`, `handle_write_error` | ClientHandoff |
| Connection handler (`server/connection_handler.c`) | per worker: `num_of_clients`, `notification_fd`, `epoll_fd`, `clients[]`, semaphore `new_client` | event loop, `register_new_client`, `allocate_client_slot`, `find_client_by_fd` | ClientHandoff |
| Client state manager (`server/client_state_manager.c`) | per client: `state`, `room_index`, `current_msg` | one handler per state, error replies, disconnection, `cleanup_client` | RoomManager (commands), ClientHandoff and SessionReader (cleanup), Protocol |
| Message reader (same file, lines 46-85) | `current_msg` | splits the byte stream into commands | SessionReader, MessageStream |
| Sender (same file, lines 100-121) | none of its own; the socket | `send_message_to_client` | RoomManager |
| Room manager (`server/room_manager.c`) | `SERVER_ROOMS`: `clients[]`, `num_clients`, `in_use`, `room_lock` | create, join, leave, list, broadcast | RoomManager, ChatRooms |
| Client program (`client/main.c`) | `is_in_room`, `is_running` | an input and a receive thread, `exit_client` | ChatClient |
| UI, logger | - | output only | not modelled |

How they interact:

* main and a worker share `num_of_clients` (under `num_of_clients_lock`), the
  semaphore `new_client` and the eventfd `notification_fd`; main sends a
  descriptor *as a number added to the eventfd*;
* workers share `SERVER_ROOMS`, each room under its own lock, and write to each
  other's clients' sockets when they broadcast;
* the kernel recycles descriptor numbers, so `close` by a worker and `accept4`
  by main interact although no variable of the program connects them;
* peers connect, send, stop reading and vanish at any time; TCP keeps no message
  boundaries in either direction;
* the two threads of the client share `is_running`, `is_in_room` and the socket.

What is hard here: the hand-off protocol over an adding eventfd; a count updated
by two threads on six paths; descriptor numbers reused between two lines of
`cleanup_client`; epoll batches whose later events may be stale; room pointers
into structures that are cleared and reused; scans over the rooms that are not
atomic; sends that retry in a loop while a lock is held; two threads writing
to one socket; messages cut by `recv` anywhere, the terminator included; a loop
that goes on with a structure it has cleared; a client that can only be ended
by what the server does, and that sends EXIT for more lines than the one it
stops at. Every one is listed with its line in `PROJECT.json` under
`hazards`. Nothing is persisted and a crash ends the whole server, so there is
no recovery to model; no timer exists in the program (keepalive probes are the
kernel's and appear as a peer that closes).

What makes each component correct:

* hand-off: a descriptor has exactly one owner and is open while it has one;
  the count equals what it counts; a connection is refused only when the
  server is full; every connection is answered; dead peers are reclaimed;
* event loop: epoll watches what the slots hold; an event in a batch is still
  true when its turn comes;
* rooms: array, counter, `in_use` and the clients' own state agree; changes of
  place look atomic; a room's messages reach its members only, in one order;
* sender: at most one worker writes to a socket at a time, except for the
  replies named in section 4; every lock is released;
* reader: messages are routed once each and in order, however they are cut;
  `current_msg` has room for them; a structure is handed on clean;
* client: it knows whether it is in a room; it ends after `/exit` and when the
  server is lost, and not otherwise; nothing follows the line `/exit`.

## 2. Modules

**ClientHandoff** - main, the workers' event loops, registration and cleanup.
`main_pc` and `thread_pc` name the statement a thread is about to execute;
there is one action per step that another thread, a peer or the kernel can
observe. `main_pc` goes `accept -> keepalive -> scan -> sem_wait -> write`,
with the branches `reject` (three error lines of `distribute_client`) and
`write_error_*` (the four steps of `handle_write_error`). A worker goes
`epoll_wait -> dispatch -> register_* | recv -> serve | cleanup_*` and back.
`Serve` (the commands of one `recv`) and `CleanupEpoll` (`leave_room`, then the
first step of `cleanup_client`) are the steps that end a handler: what they stand
for takes room locks and sends to clients, and nothing in the model says that
they come. The eventfd
is a number: `Write` adds the descriptor to it and `RegisterRead` takes it all.
`open` is the kernel's table; `Accept` returns the lowest free number, as
`accept4` does. Descriptors of the process itself (listener, eventfds, epoll)
are not in `FDs`. `full_at_scan` is a history variable. `batch` is a set: the
order in which epoll reports events is arbitrary.

**RoomManager** - the rooms and the commands. A worker serves one command at a
time (`pc`, `client`, `room`, `slot` are its locals). Acquiring a room lock and
what follows up to the first send is one action; every send is one more,
because it may block and because other workers may write to the same socket.
The steps that send under a lock are `LockedPcs`. `send_message_to_client` is
`SendPart` (a part is taken, the socket is full) and `SendTo` (the rest is taken,
or the peer is gone). `link` is the state of a client's socket. `view`, `seen`,
`kept`, `was_full` and `garbled` are history variables used by properties only.

**ChatRooms** - the abstract specification: one variable, the place of every
client, and atomic moves. `RoomManager!ImplementsChatRooms` instantiates it with
`place` computed from the rooms' arrays.

**Protocol** - the commands, the states that admit them (`ValidCommands` is
`command_valid_for_state`) and what the handlers may answer (`Answers`), with
what depends on other clients left open. SessionReader and ChatClient extend
it; RoomManager has the same commands as actions, with the rooms in full.

**SessionReader** - `read_and_process_client_message`, `route_client_command` and
`cleanup_client`, as they treat one Client structure through the connections
that use it one after the other. A message on the wire is four pieces (code
and space, content, CR, LF) and `Recv(k)` takes any number of them up to
`MAX_MESSAGE_LEN_TO_SERVER` bytes; it does not cut inside a code or a content. `pc` goes `epoll_wait -> readable -> loop` and
back, or `closed` when the event says so. `temp` is the part of `read_buffer`
from the pointer `temp` on; `ProcessMessage` is one turn of the loop and
`SavePartial` what follows it. `in_room` says whether some room's array points
to the structure. `sent`, `joined`, `connections` and `after_exit` are history
variables; `joined` holds the messages whose terminator was not seen as one.

**MessageStream** - the abstract specification of a connection: a queue of
messages, routed from its head, of which a few may be routed as one. It is
implemented by SessionReader with the queue computed from `current_msg`, `temp`
and `wire` (`ImplementsMessageStream`): `Unrouted` is the three behind each other,
`Contents` picks the messages whose content is among some pieces, and `Pending` is
`Contents(Unrouted)`. `Contents` and `Length` (`strlen`) are recursive functions, so
that they can be reasoned about.

**ChatClient** - the client program, from the prompt for the user name on.
`input_pc` and `receive_pc` name the next statement of each thread; before
the threads exist the input thread stands for main. `lines` and `replies` are
the two directions of the connection, and `peer` is the server's end: open,
closed with everything read, or reset. `Serve` is the server, by `Protocol`;
`Tear` and `Merge` are what SessionReader says of a torn or missing terminator.
The loop compares the whole line with `/exit` (`main.c:391`), `handle_commands` only
its first word (`main.c:546`, `562`): `"EXIT_BLANK"` is the line that is EXIT to the
server and not the end to the client (`/exit` with a blank behind it; in a room,
with anything behind the blank).
`swallowed` and `unterminated` are history variables that name the exceptions
of the properties.

**MCClientHandoff**, **MCRoomManager**, **MCSessionReader** - the instances for TLC;
ChatClient needs none.

**ClientHandoffProofs**, which **ClientHandoffOwnersProofs** extends;
**RoomManagerProofs**, which **RoomPlacesProofs** and **RoomListProofs** extend;
**RoomRefinementProofs**, which extends RoomPlacesProofs; **SessionReaderProofs**;
**ChatClientProofs** - the proofs, section 5.

How they compose: ClientHandoff brings a descriptor to a slot and takes it
away again; SessionReader turns the bytes of that slot into commands;
RoomManager carries the commands out; ChatClient is the other end of the
socket. What one module assumes of another is a property of that other:
RoomManager assumes that a command is served once and on a structure in use
(`ImplementsMessageStream`, `SlotAgrees`). One assumption this client does *not*
fulfil: that nothing follows EXIT in the same segment, on which `SlotAgrees`, and
the counter of ClientHandoff (`CapacityAccounting`, `AllocationNeverFails`), rest.
`NothingAfterExit` shows it of the line `/exit`; after `/exit` with a blank behind it
the client goes on sending, and run SpeaksOn shows what the server makes of that.

The definitions whose comment begins with "Mutant" are broken variants of
the definition after them: each property of a passing run has one that
violates it, listed under `mutants`. They are used by nothing else.

## 3. What the passing runs show

| Run | Instance | Properties | Why these bounds |
|---|---|---|---|
| Handoff | 2 workers, 1 slot each, 3 descriptors, all faults | TypeOK, OneOwner, CapacityAccounting, RejectOnlyWhenFull, EpollMatchesSlots | both workers can be full while a third connection is scanned for; a number can be reused by the other worker while its first user is cleaned up |
| Answered | 1 worker, 2 slots, 3 descriptors, write and epoll_ctl may fail | OneToken, NoFdLeak, AllocationNeverFails, BatchIsLive, EveryConnectionIsAnswered, DeadPeerIsReclaimed | batches of three events (two clients and the eventfd), an eventfd written while its first reader is still registering |
| Rooms | 2 workers, 3 clients (two on one worker), 2 rooms of 2 places, peers that read | TypeOK, MembershipAgrees, RoomAccounting, OneSpeaker, ListIsHonest, ImplementsChatRooms, EveryLockIsReleased | a full room, a second room for the scans to be wrong about, a structure reused after a disconnection, a worker with two clients |
| SlowPeers | 2 clients on 2 workers, 2 rooms of 2 places, sockets that fill, peers that vanish | RecipientsKnow, OneSenderPerSocket | a broadcast that is stuck while every other command of the other worker is tried |
| Reader | 2 connections on one structure, 3 messages each of full or short length, the sizes of protocol.h, clients that speak on after EXIT or whose longest line lacks its line feed | TypeOK, BufferHolds, SlotAgrees, ImplementsMessageStream, EveryMessageIsRouted | three unseen terminators in a row are where `current_msg` ends; a second connection meets what the first left in the structure |
| Client | every command but JOIN (to the client it is as CREATE is), 2 lines and 3 replies on their way, a server that stops, torn terminators, a failing input | TypeOK, InStep, NothingAfterExit, DiesOnlyAtTheEnd, ExitEnds, ServerLossIsNoticed | a line that merges with the next; two replies in one recv and a third behind them |

`Handoff` sets `CHECK_DEADLOCK FALSE`, as does `LeakedConnection`: with failing
`setsockopt` calls all descriptors can leak, and then the system does stop. In
`Reader` the clients have said all they may, or `current_msg` has overflown; in
`Client` and `ExitHangs` the process ends.

Bounds on behaviour: a message of the server is cut into at most two parts
(`SendPart` needs `~ sending[w]`; `Receive` cuts no `"REST"`), and other members
leave the queue of replies room for one more (`RoomSpeaks`); everything else is
bounded by the constants alone.

Fairness. The specifications assume only that the scheduler runs a thread that
waits for nobody: `ClientHandoff!Fairness` has weak fairness of the main thread's
steps other than `Accept` (`SemWait` is enabled only when the semaphore is up) and
of each worker's `OwnStep`; `SessionReader!FairSpec` of the reader's `OwnStep`;
`ChatClient!Fairness` of the input thread, the receive thread, `exit_client` and the
end of main, but not of the user, who may stop typing for ever, nor of the
server; `RoomManager!FairSpec` of each worker, whose waits for locks and for
room in a socket are guards there. Nothing obliges a peer to connect, to read,
to send or to close.

No handler is obliged to end either: `send_message_to_client` retries for as long
as a socket is full (`client_state_manager.c:106-119`), handlers wait for room locks,
which are glibc mutexes and not fair, and SlowReader shows a worker that never
comes back. Where a liveness property needs that this does not happen, it says so
as its antecedent:

* `ClientHandoff!HandlersReturn` (no worker stays in a handler for ever) before
  `EveryConnectionIsAnswered` and `DeadPeerIsReclaimed`. Without it both fail, the
  first for all clients: main waits for the semaphore of the worker that does
  not come back;
* `SessionReader!HandlersReturn` (the worker comes to this client's events, and its
  handlers end) before `EveryMessageIsRouted`;
* `ChatClient!ServerServes` (the server serves what it is sent) before `ExitEnds`, and
  before `ExitTerminates`, which the code violates although it holds.
  `ServerLossIsNoticed` does without: it is about the server's end being closed.

All three hold if peers keep reading and no lock passes over a waiter for ever.
`EveryLockIsReleased` is claimed for peers that keep reading (`Peers`) and of the
worker that holds the lock, so it needs no fair lock.

## 4. What the violation runs show

Each refutes one sentence of the repository's own documentation; the quotation
is in `PROJECT.json` under `findings`.

* **LeakedConnection** (`EveryConnectionIsAnswered`): `main.c:65` continues
  without `close` when a `setsockopt` fails.
* **CapacityError** (`CapacityErrorIsHonest`): with three workers, a room freed
  behind `create_chat_room`'s scan and another taken ahead of it produce
  `ERR_ROOM_CAPACITY_FULL` although a room was free all the time.
* **MixedMessages** (`MessagesAreWhole`): a worker's error reply to a member of a
  room holds no lock, and lands between the two parts of a broadcast.
  `OneSenderPerSocket` shows that these error replies are the only exception.
* **SlowReader** (`EveryCommandEnds`): a client that does not read keeps its
  worker in the retry loop.
* **SpeaksOn** (`LeftIsCleanedUp`): two EXITs in one segment release a client
  twice: the loop of `read_and_process_client_message` goes on with the structure
  that `cleanup_client` has cleared, and `num_of_clients` is too low by one ever
  after. This client sends them when the user types `/exit` with a blank behind it
  and then `/exit`, and one `recv` returns both.
* **ExitHangs** (`ExitTerminates`): a text of 128 characters leaves the client
  without its line feed (`snprintf` into `formatted_command[132]`), so the server
  reads the `/exit` after it as more of the same text and answers with an error;
  the receive thread is back in `recv` before `is_running` is cleared, `close`
  does not wake it, and main joins it for ever. `ExitEnds` shows that a server
  that serves what it is sent brings the line `/exit` to its end whenever no
  line went without a visible terminator.

One more disagreement is harmless and has no run: `server/README.md:51` says that
workers post their semaphore during initialisation to let main start; in the
code it starts at 1 (`main.c:142`), and main may write to the eventfd of a worker
that has not started, which keeps the descriptor (`Start` in ClientHandoff, and
`EveryConnectionIsAnswered`).

Four things the passing runs say that a reader of the code may not expect:

* `InStep` holds only up to a reply about the place that shares a `recv` with an
  earlier one (`swallowed`): `parse_server_msg` looks at one byte per `recv`. A
  ROOM_LEAVE_OK behind a ROOM_MSG is displayed and not acted on, and the client
  goes on believing that it is in a room.
* `EveryMessageIsRouted` and `ImplementsMessageStream` except a terminator that is
  torn over two reads (`joined`): `strstr` never sees it, so the message waits for
  the next one and is routed with it as one. TLC finds three in a row to be
  what it takes to overrun `current_msg` (`BufferHolds` is sharp: with two reads'
  worth of space it fails).
* `DiesOnlyAtTheEnd` allows an end without `ui_cleanup` once the user has typed
  `/exit` or the server has closed, and it happens: `exit_client` closes the
  descriptor and the receive thread's next `recv` fails and calls `exit(1)`.
  main.c:59 speaks of "proper cleanup".
* After `/exit` with a blank behind it, and whenever the server is lost, the
  client notices (`ServerLossIsNoticed`: `is_running` goes down) but the process does
  not end: the input thread sits in `wgetnstr` and main joins it until the user
  enters one more line. `ExitEnds` is about the line `/exit` alone.

## 5. What is proved

Every theorem is proved for all values of the constants that satisfy the named
assumptions of the modules, which TLC evaluates in the runs.

**ClientHandoffProofs** (any number of workers, slots and descriptors):

* `TypeCorrect`: `Spec => []TypeOK`
* `TokenCorrect`: `Spec => []OneToken`
* `CapacityCorrect`: `Spec => []CapacityAccounting`
* `AllocationCorrect`: `Spec => []AllocationNeverFails`
* `RejectCorrect`: `Spec => []RejectOnlyWhenFull`

None of the first three is inductive alone. That an eventfd holds one descriptor
(`TypeOK`) needs that main writes only to an empty one (`OneToken`); that a count
never leaves its range needs that what is released was counted
(`CapacityAccounting`), and that needs that a worker reads its eventfd only
when there is something in it. The inductive invariant `IInv` is therefore the
conjunction of the three with

* `HoldsFd`: a thread at a step that acts on a descriptor has one in hand;
* `ServesClient`: a worker serves a slot that is in use;
* `NotificationPending`: an eventfd event in a batch, and a worker about to
  read, mean that the eventfd is not empty.

One lemma per conjunct (`TypeStep`, `TokenStep`, `CapacityStep`, `HoldsFdStep`,
`ServesClientStep`, `NotificationPendingStep`) shows that every action preserves
it; `UsedSlotsChange` carries the cardinality argument. `AllocationNeverFails`
follows: at `register_allocate` the count includes one place beyond the used
slots and is at most `MAX_CLIENTS_PER_THREAD`. `RejectOnlyWhenFull` has an
invariant of its own, `ScanCovers`: every worker that is full now, and every
worker the scan has already passed (those `Back(w) <= num_attempts` steps behind
the index), was full when the scan began. It is preserved because a worker's
step increments no count (`WorkersOnlyDecrement`), so a worker found full during
the scan was full all along; after `MAX_THREADS + 1` looks it covers them all.

**ClientHandoffOwnersProofs**, on top of it:

* `OneOwnerCorrect`: `Spec => []OneOwner`
* `NoLeakCorrect`: `Spec => []NoFdLeak`, assumed that `setsockopt` does not fail
* `WatchCorrect`: `Spec => []EpollMatchesSlots`
* `BatchCorrect`: `Spec => []BatchIsLive`

A descriptor is in main's hand, in an eventfd, in a worker's hand or in a slot
(`MainFd`, `notification`, `WorkerFd`, `SlotFd`). `MainPlaces` and `WorkerPlaces`
say which of these moves each action makes, so that `OwnerInv` (what one place
holds is open and no other place holds it) and `HeldInv` (what is open is in some
place) are shown once per move instead of once per action. The other two
theorems rest on `WorkerInv`, which speaks of one worker's own state: its slots
differ, its epoll instance watches each descriptor a slot answers for
(`Watches`), and what is left of the batch is of other clients than the one
being served. Other threads leave that state alone (`OthersLeaveAlone`), and a
new descriptor differs from those in the slots by `OwnerInv`.

**RoomManagerProofs** (any number of workers, clients, rooms and places):

* `TypeCorrect`: `Spec => []TypeOK`
* `AccountingCorrect`: `Spec => []RoomAccounting`
* `OneSpeakerCorrect`: `Spec => []OneSpeaker`

The inductive invariant is `TypeOK` with `ServesOwn` (a worker serves a client of
its own, and only while it is not idle), `LockInv` (a worker at a step that runs
under a lock holds the lock of its room, and a lock that is taken is held by such
a worker) and `AccountInv` (counter, `in_use` and array agree in every room, but
for the room whose last member is being taken leave of). Two facts make the
proof short: whoever changes a room holds its lock or takes it in that step
(`WorkerFrame`), and only four actions change one (`QuietFrame`; `CreateEffect`,
`JoinEffect`, `LeaveEffect` and `LeaveDoneEffect` say what they do to it).

**RoomPlacesProofs**, on top of these:

* `MembershipCorrect`: `Spec => []MembershipAgrees`
* `OneSenderCorrect`: `Spec => []OneSenderPerSocket`
* `RecipientsCorrect`: `Spec => []RecipientsKnow`

`Here(c)` is the room that should hold a client by what its worker and its
structure say: the one in `room_index`, unless the worker has already taken it
out, and the worker's `room` while it joins. `StateInv` says which state a client
has at which step of its worker, `PlaceInv` that the arrays hold a client at
`Here(c)` once and nowhere else. `MembershipAgrees` is `PlaceInv` for a client that
is not served; the other two also need `ViewInv`, what a client in a room, and
not being told something by its own worker, was last told.

**RoomListProofs**: `ListCorrect`: `Spec => []ListIsHonest`. During a scan, of the
rooms it has passed those kept are listed and those listed were seen
(`ListInv`); `Follows` says how a step of any other worker moves the two history
sets, together with `in_use`.

**RoomRefinementProofs**: `RefinementCorrect`: `Spec => ImplementsChatRooms`. By
`PlaceSays` the abstract place of a client is its `Here`; `MembersAre`, `NoMembers`
and `FewMembers` turn the tests of the code (`in_use`, a free slot) into the
guards of ChatRooms; `WorkerRefines` maps every action of a worker to a step or a
stutter: `CreateTake` is Create, `JoinEnter` is Join, `LeaveLock` is Leave,
`SubmitUsername` changes nothing abstract, `Cleanup` is Disconnect.

**SessionReaderProofs** (any lengths that keep to `ConformingAssumption`, any
clients, any cut of the stream between code, content, CR and LF):

* `TypeCorrect`: `Spec => []TypeOK`
* `SlotCorrect`: `Spec => []SlotAgrees`
* `BufferCorrect`: `Spec => []BufferHolds`
* `RefinementCorrect`: `Spec => ImplementsMessageStream`

`ConformingAssumption` is the message format of protocol.h: code, space, content
and terminator fit MAX_MESSAGE_LEN_TO_SERVER (132 bytes for a content of 128), and
the client refuses a text of more than MAX_CONTENT_LEN characters (main.c:457) and
asks for less than that elsewhere. Without it `BufferHolds` is not to be had: one message may then be longer
than `current_msg`.

All four rest on one inductive invariant, `IInv`, which follows the bytes:

* `StreamInv`: across `current_msg`, `temp` and the wire (`Unrouted`) the pieces
  form a chain. A piece is followed by the next piece of its message (`Follows`),
  or ends its message (`Ended`: a line feed, or the CR of a message of `joined`)
  and is followed by the head of the message numbered one higher. The chain
  starts with a head, its pieces are those of messages that were sent, and it
  ends with the last of these.
* `TornInv` and `SeenInv`: a terminator is missed exactly if `joined` says so.
  In `current_msg`, and at the end of `temp`, every CR is one of a message of
  `joined`; a terminator that is whole in `temp` or on the wire is not.
* `FreeInv`: unless a client spoke on after EXIT, a free structure has no bytes
  anywhere and only the last message sent can be EXIT.
* `Typed`, `PcInv` and `SlotAgrees` itself.

`SlotAgrees` needs all this because a structure stays clean only if the commands
behind an EXIT of the same segment do not exist (`after_exit` is the case that
they do, and SpeaksOn what then happens): `ExitIsLast` concludes from the
chain that once EXIT is routed `temp` has nothing left. `BufferHolds` follows from
`Behind` (in a chain without a seen terminator all messages but the last are in
`joined`, and each of them is there) and `ChainLength` (such a chain of k + 1
messages is no longer than k full lines and the last message up to its last
piece). The refinement follows from `ContentsAre`, which gives `PendingIs`: what is
pending is what was sent, from the message of the oldest piece on. `StreamSend`,
`StreamRecv`, `StreamProcess` and `StreamSave` say how a step changes `Unrouted`, and
the steps map thus: Connect is Open, HangUp is Leave, Send is Send, Recv is Join or
a stutter, Closed is Close, ProcessMessage is Route(k), or Close if what it
routes begins with EXIT, or a stutter when the structure has been cleared under
the loop, and Event and SavePartial are stutters.

The induction over data that `Length` and `Contents` call for is done without an
operator as a parameter. `MinOfNats` takes the least element of a set of naturals
from their well-foundedness; `CountingUp` is induction over an interval for the
members of a set; `Recursion` shows with it that a definition by recursion over
`0 .. n` has a solution; and `LengthOf` and `ContentsOf` give the two functions' equations.

**ChatClientProofs** (any commands, faults and bounds):

* `DiesCorrect`: `Spec => []DiesOnlyAtTheEnd`. `CloseInv` says that the descriptor
  is open and both threads are away from `exit_client` unless the user asked for
  it or the server has closed.
* `ExitOrderCorrect`: `Spec => []NothingAfterExit`. `OrderInv` adds that the input
  thread is past its loop once the EXIT of the line `/exit` is on its way, which
  the EXIT of `/exit` with a blank does not bring about; `MergeOrder` and
  `ServeOrder` carry the argument through the server's side.
* `InStepCorrect`: `Spec => []InStep`. `StepInv` restates it over `Believes`, what a
  client will think of its place when it has read what is on its way;
  `AnswerSays` says that a reply about the place names the state the server is
  in, `ReplyBehind` what one more reply changes, `ReplyRead` that a `recv` which
  swallows none leaves `Believes` as it is.
* `TypeCorrect`: `Spec => []TypeOK`. `OrderInv` and `StepInv` say what the two queues
  hold, `PlaceInv` where the threads are; `LinesBounded` and `RepliesBounded` count:
  the server answers with one reply at most (`AnswerSays`), and a `recv` takes one
  at least, of which it may leave a part.

**Only model-checked**: liveness (`EveryConnectionIsAnswered`, `DeadPeerIsReclaimed`,
`EveryLockIsReleased`, `EveryMessageIsRouted`, `ExitEnds`, `ServerLossIsNoticed`),
which with ENABLED is beyond the prover. Every invariant and the two refinements
of the passing runs are theorems. With a failing `setsockopt`, `NoFdLeak` is
false: the descriptor of run LeakedConnection is nobody's.

## 6. What is not modelled

* A start-up call that fails: the process exits.
* Blocking in three sends of ClientHandoff (`Reject`, `WriteErrorClose`,
  `RegisterWelcome`): they go to a fresh socket. The handlers of ClientHandoff and
  SessionReader may block for ever, RoomManager models where they do.
* In ClientHandoff: a command behind EXIT in the same segment, which releases
  the place a second time (SpeaksOn). In a server where that happened
  `CapacityAccounting` and `AllocationNeverFails` no longer hold.
* In SessionReader: a `recv` that cuts inside a code or a content. The two parts
  meet again in `current_msg`, and no property speaks of where they were cut.
* The contents of messages, names and lists. The lengths of messages, of their
  content and of `current_msg` are in SessionReader; those of names and of the
  room list are not. The sum for the list is in `PROJECT.json` under the hazard
  at `room_manager.c:100`: fifty rooms with the longest names need 1720 bytes
  and `MAX_MESSAGE_LEN_FROM_SERVER` is 1456.
* In SessionReader: messages too short or without their space (answered with an
  error, nothing changes); what happens once `current_msg` is overrun; what the
  loop sends to descriptor 0 and closes there when it goes on after EXIT (the
  structure's own fields and the worker's counter are followed). A recv that
  fails is in ClientHandoff.
* In ChatClient: connecting; the byte that `wgetnstr` writes behind the buffer
  for a text of 128 characters; a server that refuses the user name, which it
  does only for a length the client does not let through.
* `sem_wait` or `epoll_wait` interrupted by a signal: no handler is installed.
* The user interface and the logger: output only. The Java tests were read for
  what they promise.

## 7. Plan

Done: ClientHandoff, RoomManager, ChatRooms; SessionReader, MessageStream;
ChatClient; the theorems of section 5.

Left:

* the length of the room list, as an operator on the lengths of the names: the
  comment at `protocol.h:45-47` says that the list of all rooms fits, the sum in
  section 6 that it does not.
