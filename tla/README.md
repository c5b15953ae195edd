# A TLA+ model of tavernmx

tavernmx is a chat server with a graphical client. Clients talk TLS to the server and exchange
blocks of JSON messages. This directory holds a specification of the server, the client and the
connection between them, the TLC instances that check it and the proofs that TLAPS checks.

## The system

| Component | Source | State it keeps | Operations | Model |
|---|---|---|---|---|
| server worker | `src/src/server/workers/server-worker.cpp` | rooms, `room_history`, lists of one batch | one iteration of its loop: gather requests, announce, echo, clean up | `ChatServer` |
| client workers | `src/src/server/workers/client-worker.cpp` | per connection: `send_messages` of an iteration | HELLO, receive, answer heartbeats, send | `ChatServer` |
| connection manager | `src/src/server/clientconnection.cpp`, `server.h` | `accept_bio`, `active_connections` and its mutex | begin_accept, await_next_connection, cleanup, copy, shutdown | `ChatServer` (what it does), `ServerLifecycle` (its locking) |
| main, SIGINT | `src/src/server/main.cpp` | the accept loop | start, accept or reject, interrupt, end | `ServerLifecycle`; accepting also in `ChatServer` |
| thread pool (vendored) | `src/include/thread-pool/BS_thread_pool.hpp` | queue of tasks, `tasks_running`, threads, condition variables | detach, worker loop, wait, destroy | `ThreadPool` implements `TaskPool` |
| ring buffer | `ringbuffer.h` | slots, head, tail, iterators | insert, reset, size, iterate | `RingBuffer` implements `BoundedHistory` |
| room manager | `room.h` | rooms and their names | create, look up, mark, remove, clear | `RoomManager` implements `RoomSet` |
| messages | `messaging.h`, `messaging.cpp` | none | constructors, the history message | `Messages` |
| framing | `messaging.cpp`, `ssl.cpp`, `connection.cpp` | bytes on the wire, a block being read | pack, unpack, send, receive, wait_for | `Framing` |
| client session | `src/src/client/main.cpp`, `serverconnection.cpp`, `workers/serverconnection-worker.cpp`, `workers/connectscreen-worker.cpp` | screens, semaphores, connection, timers | connect, cancel, serve, heartbeat, lose, close, quit | `ClientSession` |
| chat window | `workers/chatwindow-worker.cpp`, `client-ui/chatwindow.cpp`, `client-rooms.h` | replica of rooms, displayed list, selection, transcripts | messages from the server, user's commands | `ChatWindow`; with the server in `TavernSystem` |
| user interface | `client-ui/` | stack of screens, deferred operations | push, pop, update, render | the stack and the buttons in `ClientSession`; drawing not modelled |
| queue, stack | `queue.h`, `stack.h` | container and mutex | push, pop, top | atomic steps where they are used |
| configuration, logging, utilities | `*configuration.cpp`, `logging.cpp`, `util.cpp` | - | reading files, formatting | not modelled: input and output; their results are constants (`InitialRooms`, `MaxClients`) or nothing |

How they interact. In the server the main thread accepts connections and gives each to a client
worker, a task of the thread pool. Client workers and the single server worker share two queues
per connection, `messages_in` and `messages_out`; the main thread, the server worker and the SIGINT
handler share `active_connections`, under a mutex, and `accept_bio`, without one. Three binary
semaphores tie the start and the end of the server worker to the main thread. Rooms refer to
connections by `weak_ptr`. In the client the main thread draws frames; a detached thread tries to
connect, another one serves the session, and they meet the main thread in globals that outlive every
session: the pointer `connection`, three semaphores, a flag and `client_rooms`. What is hard is
listed with its line in `PROJECT.json` under `hazards`.

## The modules

`RingBuffer`. `data`, `head`, `tail` are the class's members. One iterator is part of the state, made
by `begin()` or `rbegin()` and moved by `Step` or `StepBack`, so that the wrap of the iterators is
checked against the wrap of the indices; a write ends the walk, because no caller keeps an iterator
across one. `Contents` is what `begin() .. end()` ranges over, and the refinement mapping to
`BoundedHistory`: a log of which only the last `Limit` events are kept, with the one recorded last. The server worker's
histories and the window's transcripts are ring buffers; `ChatServer` and `ChatWindow` use them
through the same operator, `Recorded`.

`RoomManager`. The two vectors `active_rooms` and `room_names`; `create_room` tests one of them,
`lookup` (operator[]) searches the other. `RoomSet` is the abstract set of rooms they implement, and
the way `ChatServer` uses them (`room` is a function from the names in use). `Containers` puts the ring
buffer and the room manager side by side, for the proofs and the run about both.

`Messages`. Constructors and `get_room_history`. Texts, users and times are opaque.

`ChatServer`. Connections are numbered as they are accepted. An action per handler and loop step:

* main thread: `AcceptClient` and `RejectClient` (both reap the closed connections and list the new
  one), `Shutdown`;
* client workers: `StartTask`, `Hello`, `NoHello`, `ReceiveHeartbeat`, `QueueRequest`, `SendQueued`,
  `FinishTask`, `TaskThrows`; `BadBlock`, a block that does not unpack, whose exception ends the task and
  leaves the link open; `GetStuck`, a partial block or a write that never ends, on which the task
  stays although its link may go; the peer: `PeerLeaves`, with a close_notify (the link is
  "finished", `is_connected()` false) or without ("lost", `is_connected()` stays true);
* server worker: `StartBatch` copies the active connections, `NextClient` and one `Handle...` per
  message type gather, `Announce` is step 2a, `Echo` step 2b for one room (rooms in any order, as
  the messages of two rooms are only ordered by chance), `CleanUp` step 3; `StopServing` leaves the
  loop. Requests arrive and connections come and go between any two of these steps.

`joined[c]` counts the entries of `c` in `joined_clients`, so that a duplicate would echo twice.
`Owned(c)` says which `weak_ptr`s can be locked. `sent` and `messages_out` together (`Stream`) are all
a client was ever given, in order. Requests have the values their type needs: what a wrongly
typed value does, an exception inside the server worker's iteration, is in `ServerLifecycle`.

`ServerLifecycle`. The semaphores, the port, the mutex and the two threads at the granularity at which
they can interleave: a lock, its scope and its release are steps. `Interrupt(t)` runs the SIGINT
handler on thread `t`, which does not move until the handler has returned. `Failures` says what may
throw. The pool counts its threads as busy until they first run (`starting`), as the library does. A
task may get stuck in a block (`TaskGetsStuck`), also after its link was closed, and then need not end.

`ThreadPool`. The vendored pool in the build the server makes. What runs under `tasks_mutex` in one
piece is an action; a wait on a condition variable is two, before and after the sleep, and may end
spuriously. The worker's test of `waiting`, `tasks_running` and `tasks` after it unlocked is three
reads (`ReadWaiting`, `ReadRunning`, `ReadTasks`), between which anything may happen. `TaskPool` is what
the server expects: tasks start in order, once, and the pool closes when nothing is queued or runs.

`Framing`. One direction of a connection, in units of bytes: a block is a unit of header and size and
the units of its messages, `Records` is how TLS cuts it, `Chunk` what one read yields. `Send` is step
3 of both workers' loops, with the handshake's message in a block of its own; `FirstRead`, `ReadMore` and
`UseBlock` are `receive_message` and its callers. `Fault` stalls the link and loses a part of what is
on it, or closes it behind what was written.

`ClientSession`. An attempt to connect, the session it becomes, its threads and its screens bear the
number of the attempt. The main thread is a frame: `ProcessOp` takes the deferred pushes and pops,
an `Update...`, `Finish...` or `NoticeEnd` is the top screen's `update()`, and a `Press...`, `CloseWindow` or
`DrawOnly` its `render()`. `ConnectionThread` works on what the global pointer points at; `Worker` is
the loop of `server_message_worker` with its three ways to end. `Released` is a binary semaphore above
its maximum: undefined, so both what libstdc++ and what MSVC do. `silence` and `heartbeat_sent` say
whether `QUIET_TIMEOUT` has passed, as step 2 of the loop sees it.

`ChatWindow`. `window` is the replica `client_rooms`, the list displayed, the selection (index and name)
and the transcripts; one operator per message type, and the functions of `ChatWindowScreen` as
operators from window to window, because a handler calls several of them. `client_rooms` is a global:
`WindowInit` has any rooms of an earlier connection in it, in any order, joined or not.

`TavernSystem` composes `ChatServer` and `ChatWindow`: connection `Me` is the window's, what the server sends
on it is processed in order, what the window queues becomes requests. The other connections are those
of other clients, gathered before the window or after it, of which `PeerTypes` says what they send; what
the server has for them stays in their queues. All sessions are established and stay up: how they come and go is in `ClientSession` and
`ChatServer`.

Definitions whose names carry a suffix (`increment_NoWrap`) and a comment that starts with *Mutant* are
changed copies, each of which must violate the property it is paired with in `PROJECT.json`; no
specification uses them.

## What the runs check

| Run | Instance | Result |
|---|---|---|
| `Containers` | ring buffer of 4 slots and 3 values; room manager with 4 valid names and an invalid one | no empty slot is dereferenced, walks yield the contents in both directions and `size` tracks them, `BoundedHistory` is implemented; both vectors of the room manager agree and implement `RoomSet`. Four slots give every relative position of head and tail, and the wrap |
| `ChatEvents` | 2 clients, 5 requests: one client creates, destroys, talks and asks for history, the other joins and talks (2.4 million states) | memberships, echoes and histories agree and nothing outlives its room, also when a room is destroyed, created again and talked in |
| `ChatConnections` | 2 connections, 1 pool thread, 2 requests to list, create, talk, unhandled or a heartbeat, a peer that leaves or spoils a block, shutdown | types, the handshake before everything, and, under fairness, a list for each list request, unless the link goes or the task ends or is stuck |
| `Lifecycle` | 2 connections, 1 pool thread, SIGINT anywhere on any thread, every failure | order of startup, no lost stop signal, no thread left behind when main returns; under fairness an interrupt that finds main waiting for a connection gets it past its loop and its join, and ends the server unless a task stays stuck in a block for ever |
| `ThreadPool` | 2 threads, 3 tasks, spurious wake-ups | exact count of running tasks, `TaskPool` implemented, no lost notification, the destructor returns; no deadlock. A third task is queued while both threads are busy, and is enough for a thread to take a second task while the other one is anywhere in its loop |
| `Framing` | 5 messages of 1, 1, 6, 3, 1 units, buffer of 2, records of 3 | blocks of their own bytes, delivery in order, nothing lost by a close, under fairness arrival. Blocks take several records, records several reads, and both end together and apart |
| `ClientSession` | 2 attempts; the first peer may stall, the second be silent, both may leave | ownership of the connection, signals and screens, heartbeats; under fairness resolution of attempts, notice of lost sessions, end of closed ones unless another session's worker stops on their request; no deadlock |
| `TavernSystem` | the window between 2 other clients, 2 names, one room at first, both left over from an earlier session and one of them joined, 1 action of the user, 2 of the other clients (2.8 million states) | what the user sees against the server's state, and, from the first list on, that the selected room is joined |
| `HistoryCount`, `InterruptInMutex`, `LeftoverSignal`, `ReceiveSpins` | small | violations, below |

Bounds: `MaxConnections`, `MaxRequests`, `MaxDepartures`, `MaxUserActs` and `MaxPeerActs` stop the
environment, not the program, so that runs of `ChatServer` and `TavernSystem` end (no deadlock check);
so do `Len(Size)` in `Framing` and, in the ring buffer, nothing. `HistoryLimit` stands for 999 readable
slots and `HistoryMax` for 100 entries; 2 and 1 make both limits reachable with three events. In
`ChatEvents` five requests are what it takes to say something in a room that is shown, destroy the room, create it
again and say something in it; for them to be affordable the constraint `MCParts` gives the clients
their parts and leaves out ends of tasks and the shutdown, which `ChatConnections` has, with the peers'
departures. `MCOneJoined` in `TavernSystem` fixes the order of the two rooms left over, which is not seen, as
before the first list only the removal of one of them makes the window display anything, and has
just one of them joined; with both or none joined, and in both orders, the same invariants were
checked once outside the regular runs (4.1 million states).
`MaxAttempts` is 2 because what matters between sessions is what one leaves to the next; the kinds of
peers are split over the two to keep the run short. In `TavernSystem` three actions are a
creation, a destruction and a second creation or a line, spread over batches in every way, and
`MaxRequests` is beyond what they cause. With three names, where the selected room is not the first
of the list when it is made again, the same invariants were checked once with one other client, outside
the regular runs (4.3 million states). All rooms of the run are `Brief`: at most three events, which
neither reach `HistoryLimit` nor exceed `HistoryCount`, and which `TranscriptLimit` holds twice; that a
ring buffer drops its oldest event is `RingBuffer`'s concern. The other runs whose configuration
turns the deadlock check off end the process or stop for good in the violation they show.

Fairness. Threads that poll with bounded sleeps take an enabled iteration (`WF` on `ServerWorker`,
`SendQueued`, `FinishTask`, on the sender and the receiver of `Framing`, on frames, connection threads and
workers in `ClientSession`). In `ServerLifecycle` a thread waiting for the mutex gets it although
others take it again (`SF` on the waiting steps), because the server worker leaves it free for
most of every 20 ms. In `ThreadPool` a thread asleep takes no step until it is woken, and no
spurious wake-up is assumed; `DestructorReturns` has the return of every task as its premise. No client
has to say HELLO, send or leave, no user to press anything, no task of the pool to return, a thread
that reads from a peer that stopped for good need not go on, and SIGINT need not come. The link's end
ends a client worker that tests it (`WF` on `TaskEnds` of a running task in `ServerLifecycle`), not one
that is stuck in a block, as `ReceiveSpins` shows. So `InterruptStops` has two parts: main always gets
past its join; that the process ends has as its premise that no task stays stuck for ever. `ListIsAnswered`
counts: the request at the head of the queue of a client that was given n lists so far is followed by more than n
lists. `ClosedWindowEndsSession` too has two parts, because a session's closing has no request of its
own: a closed session ends unless its worker serves on and no request is there, and that
happens in no other step than one in which another session's worker stops.

## Where the program and its comments disagree

With a run of their own:

* `HistoryCount`: a request for 0 events is answered with all of them (`server-worker.cpp:50`
  compares for equality with a count that starts at 1). With assertions on, the server aborts once a
  history has more than 100 events (`messaging.cpp:139`).
* `InterruptInMutex`: the SIGINT handler locks a mutex its own thread may hold.
* `LeftoverSignal`: `connection_ended_signal` is a global. A session that ends by itself in the frame in
  which the user closes its window leaves it released, and the next session's window closes itself
  and reports a lost connection while its own is up.
* `ReceiveSpins`: a peer that stops in the middle of a block keeps `receive_message` in a loop without
  sleep, timeout or test of the connection (`ssl.cpp:89`).

Stated in the modules with the comment they quote, violated by the code, and without a run (put the
property in the place of those of the configuration named):

* `AtMostMaxClients` (`ChatConnections`): the test of `max_clients` (`server/main.cpp:59`) does not count
  queued tasks.
* `AcceptReapsEnded` (`ChatConnections`): a client worker that ends without HELLO, on a block that does
  not unpack, or on another exception, leaves its connection open; `cleanup_connections` keeps it and every broadcast is queued for it.
* `WorkerEndsServer` (`Lifecycle`): after an exception in the server worker, main waits in the
  destructor of the pool for clients that nothing disconnects.
* `ShutdownIsOwn` (`ClientSession`): a closed window's request to shut down is taken by whichever worker
  tests the semaphore first, also that of a session whose window is open.
* `ConnectScreenStays` (`ClientSession`): the loss of the connection and the closing of the window in
  one frame pop twice; the connect screen goes too, and an empty stack is drawn from then on.
* `HeldUntilPassedOn` (`ClientSession`): main returns 100 ms after the loop and destroys the connection
  that a connection thread may still use.
* `CurrentIsJoined` (`TavernSystem`; `SelectedIsJoined` without its condition): rooms of an earlier
  connection are left over in `client_rooms`, some not joined. When the destruction of one is the
  first that a new window is told of, another is shown; nothing was selected before, so that
  `chatwindow-worker.cpp:142` takes the branch that does not join. The first list repairs it.
* `TranscriptsOfRooms` (`TavernSystem`): an echo that arrives after the destruction of its room starts a
  transcript for a room that is not there.

Also in the models: SIGINT between the loop test and `await_next_connection` is undone, as
`begin_accept` creates the port again (`InterruptStops` is about an interrupt after that);
an exception of `begin_accept` in main destroys a joinable thread and ends in
`std::terminate` (`main = "terminated"`) instead of the catch clause; `RingBuffer::size()` reports one
element too many when Capacity - 1 were inserted (`ReadersSeeContents` says so); a history reply is
made of the oldest events (`server-worker.cpp:50`), so that in a room with more than `HistoryCount` events
the echoes that follow it leave a gap. `TranscriptIsHistory` is therefore about rooms that are `Brief`;
without that conjunct, and with a `HistoryCount` of 1, it is violated.

## What is proved

`SelectionProofs` has the lemmas about sequences that the others rest on. What a recursive function
computes for every input needs induction, and the library's induction theorems take an operator,
which the provers cannot instantiate. `WFMin`, behind them, takes a set: it gives `Least`, and from it
`UpTo` and `ByAppending` are induction over numbers and over sequences for the set of those that have a
property. With them `Picked(s, S)`, the elements of `s` that are in `S`, is shown to keep the order
(`PickedInOrder`), to keep all of them (`PickedHolds`), to distribute over concatenation, and so on. A
stream of messages *follows* a log when what it has of it is its end (`Follows`); the lemmas say that
it still does when an element is appended to both and the log drops its oldest
(`FollowsRecorded`), or when other messages are inserted.

`ContainerProofs`, for every capacity, set of values and set of names, from `CapacityAssumption` and
`NullAssumption`:

* `TypeCorrect`. Indices stay in the array; the key lemma, `WrapValue`, says that wrapping modulo the
  capacity and by comparison are the same.
* `ReadingIsSafe`. `ReadableSlotsAreOwned` is inductive relative to `TypeOK`: an insert fills the slot that
  enters the readable range (`InsertWidens`).
* `ImplementsHistory`. Every step of the ring buffer is one of `BoundedHistory` or changes nothing of
  `Contents`; `InsertRecords` has the arithmetic.
* `ReadersAgree`. A walk is at the slot its length says (`pos` is the tail advanced, or the head taken
  back, by what was visited), which is what tells the end of a walk from its beginning when both are
  the same slot.
* `VectorsAgree` and `ManagerIsASet`, about the room manager. The names are those of the rooms, in their
  order, and no two rooms have the same one (`ManagedRooms`); the last survives removal because
  what is left is a subsequence, and the names may stay as they are when nothing was removed because
  what is left is then as long, and so the same (`Kept`).

`ChatServerProofs`, for any number of connections, requests, rooms, threads and any limits, from
`BoundsAssumption` and `NamesAssumption`:

* `TypeCorrect`, by one lemma per thread. That the set `todo` is empty outside the gathering phase is
  needed to make it inductive, and part of `TypeOK` for that reason.
* `DoomedRooms`. The flags in the rooms and the names gathered in a batch agree; inductive with `TypeOK`.
* `HistoriesOfRooms`. `HistoryOnlyForRooms` alone is not inductive: the histories erased are those of the
  gathered names, the rooms removed are those that are marked. With `DoomedAreGathered` it is.
* `MembersOnce`. No connection is entered twice in a room.
* `HandshakesFirst`. Made inductive by what each position of a task says of its handshake
  (`HandshakeState`): a connection not yet accepted was sent nothing, one that waits was sent nothing,
  requests are queued only of those whose HELLO was acknowledged, under the name they gave in it.

* `RoomsStartAfresh`, that is `NothingOutlivesItsRoom`. The property speaks of the moments between two
  iterations; `HistoriesAreClean` is what holds at every step: while a batch is announced and echoed the
  rooms it destroys are excepted, and `CleanUp` erases just those. That an event recorded now was not
  shown earlier needs `LinesAreFresh`: texts are numbered as they are received, no two lines that wait
  have the same number, and no message in any stream, no history and no room has the number of a line
  that waits. The streams themselves are handled by `CleanAppends`, `CleanPrefix` and `CleanInsert`: a step
  appends to what a client is sent, drops its end (`TaskThrows`, `GetStuck`), or inserts acknowledgements before
  what is queued (`SendQueued`, `Hello`).
* `MembersHearHistory`, that is `EchoesFollowHistory`. It holds between iterations only: within one, an
  event is recorded when it is gathered and echoed later. `MembersHear` says of every step that the
  stream of a member, continued with the echoes of the events waiting in the room, follows the
  room's history, and that whoever is no member was shown nothing of it, so that a client that joins
  while events wait is told all of those, and none before. It needs that events wait only between
  gathering and echoing, that a history holds no event twice (`LinesAreFresh` again), that a member is
  entered once (`JoinedOnce`), and that the task of a member whose entry has expired is over.

`ServerLifecycleProofs`, for any number of connections and pool threads, wherever and on whichever
thread SIGINT is handled and whatever fails, from `BoundsAssumption`:

* `TypeCorrect` (no binary semaphore is released above one), `StartsInOrder`, `StopReachesMain` and
  `ExitsClean`, all from one inductive invariant, `IInv`. None of the four is inductive: that a
  semaphore is released once follows only from where the other thread is. `SemaphoresFollow` says so for
  each of the three, `PendingIsAccepted` that a connection is at hand while one is entered in the list,
  and `EndsInOrder` that the join precedes the wait for the pool.

`ThreadPoolProofs`, for any finite set of threads and any number of tasks, from `ThreadsAssumption`:

* `TypeCorrect` and `CountsBusyThreads`. That `tasks_running`, an unsigned number, never goes below
  zero needs `RunningIsCounted`: the thread that decrements it is one of those counted (`OneFewer`).
* `PoolImplementsTaskPool`. Closing needs that all tasks have returned, which `wait()` saw at an earlier
  step; `Drained` says that it stays true, although threads go on.

`ClientSessionProofs`, for any number of attempts and whichever peers stall or fall silent, from
`BoundsAssumption`:

* `TypeCorrect` (`connect_signal` is never released above one), `ConnectionsHaveOneOwner`, `PointerIsHeld`,
  `SignalsFindTheirScreens`. Nothing in the code locks the pointer that the connection thread uses. That
  the main thread does not touch it rests on what the user can press: while an attempt runs
  or its signal waits (`Busy`) the connecting screen is on top or about to be (`BusyIsShown`), only
  the latest attempt runs (`OneAttempt`), pops and pushes are done before a button can be pressed
  (`Deferred`), and the pointer holds that attempt (`Held`). None of the four properties is inductive
  without these.
* `HeartbeatsFollowSilence`.

`FramingProofs`, for any number of messages of any positive sizes, any buffer and record sizes of two units
or more and any faults, from `SizesAssumption`:

* `TypeCorrect`, `BlocksAreWhole` (`PayloadIsItsOwn`), `MessagesArriveInOrder` (`DeliveredInOrder`) and
  `NothingIsLostByClosing` (`CloseLosesNothing`), all from `FramingInvariant`. None is inductive: what a read
  returns is told by the records on the wire, those by what the sender packed. The units of all
  messages make one stream, in which a reader is at a *cursor*: behind so many units, with so many
  missing of the block it is in. `StreamIsWhole` says that the receiver is at a cursor, that the
  records on the wire lead from there to another, and the unwritten ones from that to the end of
  what was packed (`Leads`); after a stall only the first two matter. A read that takes part of a
  record is a record in two parts. That the loop, which takes whole buffers and tests afterwards,
  ends exactly where a block does rests on records that end with their block: a record either begins
  a block, and is read by one who misses nothing, or goes on with one, and is no longer than what is
  missing. That the messages of a block can be told from its units, and so that the block unpacks
  and that no message counts twice, rests on no encoding being empty, which makes the number of
  units of the first messages (`Before`) injective. The handshake is discarded, and nothing else, because
  it is a block of its own (`ReceivedInOrder`); `EndedIsComplete` keeps what a close was seen to leave.

`TavernSystemProofs`, for any number of other clients, names, requests and acts of the user, any rooms
at the start and any left over from an earlier session, from the assumptions of `ChatServer`,
`WindowAssumption` (valid names are finitely many, as their length is limited; the empty name is none)
and `SystemAssumption` (client and server agree on which names are valid, and the client asks for no more
events than a reply may have):

* `DisplayIsConsistent` and `SelectionIsJoined` (`SelectedIsJoined`), about the window. Neither is
  inductive: the selection points into the displayed list, which is not that of `client_rooms` until
  something is displayed, and an existing selection must have been joined. `WindowIsConsistent`
  distinguishes the window that shows nothing from the one that shows its rooms. Only a list
  makes a window `UpToDate`, with its rooms on display and the selected one joined, and everything
  after it keeps it so (`ListedIsUpToDate`): what is destroyed is then either not selected or
  followed by a join. Each handler prepares a window and makes one call at the end; `Settles` says
  what that call makes of it, for whichever order a list of rooms has.
* `DisplayShowsRooms` and `SelectionIsMember`, that is `WindowShowsRooms` and `SelectedIsMember`, which
  speak of the moments at which nothing is in flight. `Told` is what holds at every step. The last word
  that the unprocessed messages have on a room, or the display where they have none, is whether the
  window will show it (`Expected`). That agrees with the server's rooms, but for those that a
  batch has created and not announced and those it destroys, unless the window's first request for the
  list was not looked at yet. It is why creations are announced before destructions
  (`AnnouncedRooms`) and why a list in the middle of a batch does no harm (`ListKeepsTold`). A room that the
  window counts as joined (`MemberOf`) has it as a member, or the request to join is on its way, or
  a list or a destruction is, which takes the flag away; a request to join that finds no room is the
  case that needs the first part: the window will not show that room (`DenialUnseen`).
* `TranscriptTellsHistory`, that is `TranscriptIsHistory`: the transcript shows the room's history up to some
  event, which the reply brought, and then all events from the next or an earlier one on, whose echoes
  came after it. What an unread stream makes of a transcript would be a recursive definition; `ComesTo`
  says instead that a function on the places of the stream exists which starts at a place where the
  transcript is known (where the window is, or any unread reply, which rewrites it) and follows the
  messages from there. `Transcribed` holds at every step: for every room the window counts as joined, either
  the list, an end of the room or the reply to a request for its history is still to come (`Settling`), or
  the client is a member, and what the transcript comes to, followed by the lines that wait for their
  echo, retells the recorded history (`Retold`). A line said extends both (`RetellsMore`), an echo moves the
  waiting lines to the stream, and a reply starts again from the whole history, which with the end of it
  that waits is retold (`RetellsWhole`). `TranscriptInvariant` adds to this and to `SystemInvariant` what
  it rests on: no connection is entered twice in a room (`JoinedOnce`), or echoes would be doubled; every
  request to join is followed by one for the history (`JoinsFollowed`), in the window's queue and in the
  server's, or a room created by another client could be joined and never told; and lines wait only
  during a batch and are the end of the history (`LinesWait`).

Every safety property of the passing runs is proved, and so are the refinements. Only model-checked is
what TLAPS cannot do: liveness under fairness (`ListIsAnswered`, `InterruptStops`, `QueueIsServed`,
`DestructorReturns`, `EverythingArrives`, `AttemptIsResolved`, `EndIsNoticed`, `ClosedWindowEndsSession`).

## Not modelled

Undefined behaviour beyond a semaphore above its maximum: a freed `accept_bio` used by the main thread
while the handler resets it, `shutdown()` dropping a connection's BIO while its worker uses it,
`update_rooms` copying a name of n characters behind a '#' into n + 1 bytes. `waiting_on_server` is
written and read without a lock; it is a plain flag in the model. Error texts, and that
`connect_thread_error` may be shown for a later attempt. TLS handshakes, certificates, resolving of
names. Both ends blocked in `BIO_write` because neither reads. Time stamps, positions in a room list.
The HELLO timeout is a step that may happen at any time. The client's main() ending on an exception.
The pool's priorities, pausing, reset, purge, loops and futures, and `BS_thread_pool_utils.hpp`, are not
used by the program. Assigning queues is used by no code. Configuration, logging, tokenizing and drawing
are input and output.

## Plan

What would come next is `TavernSystem` with sessions that end and begin again, on the links of
`ChatServer`.
