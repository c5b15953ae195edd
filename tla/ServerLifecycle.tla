-------------------------- MODULE ServerLifecycle ---------------------------
(***************************************************************************)
(* Starting, interrupting and ending the server: the main thread of        *)
(* src/server/main.cpp, the server worker's thread, the thread pool and    *)
(* the SIGINT handler, with the three binary semaphores, the accept port   *)
(* and the mutex of ClientConnectionManager that tie them together.  What  *)
(* the server worker does with messages is ChatServer.tla.                 *)
(*                                                                         *)
(* A handler runs on some thread, which does not move until the handler    *)
(* has returned.                                                           *)
(***************************************************************************)
EXTENDS Integers, FiniteSets

CONSTANTS MaxConnections,    \* bound: connections ever accepted
          MaxClients,        \* config.max_clients, threads in the pool
          InterruptPoints,   \* where the main thread may be when SIGINT comes
          InterruptThreads,  \* threads the handler may run on
          Failures           \* what may throw: "port", "nak", "batch"

ASSUME BoundsAssumption == MaxConnections \in Nat /\ MaxClients \in Nat \ {0}
ASSUME FailuresAssumption == Failures \subseteq {"port", "nak", "batch"}
ASSUME ThreadsAssumption == InterruptThreads \subseteq {"main", "server", "other"}

VARIABLES
  main, server,         \* where the two threads are
  ready, accept, stop,  \* server_ready_, server_accept_, server_shutdown_signal
  port,                 \* accept_bio is not null
  mutex,                \* holder of active_connections_mutex
  sigint,               \* the handler: not called, waiting for the mutex, closing
  interrupted,          \* the thread the handler runs on
  starting,             \* pool threads that were created and have not run yet
  task,                 \* per connection: its client_worker
  open,                 \* connections with a live link
  active,               \* active_connections
  pending               \* the connection the main thread is accepting, or 0

signals == <<ready, accept, stop>>
handler == <<sigint, interrupted>>
pool    == <<starting, task>>
vars == <<main, server, signals, port, mutex, handler, pool, open, active, pending>>

Connections == 1 .. MaxConnections
WithTask(S) == {c \in Connections : task[c] \in S}

Init ==
    /\ main = "wait_ready" /\ server = "rooms"
    /\ ready = 0 /\ accept = 0 /\ stop = 0
    /\ port = FALSE
    /\ mutex = "free"
    /\ sigint = "none" /\ interrupted = "none"
    /\ starting = 0
    /\ task = [c \in Connections |-> "none"]
    /\ open = {} /\ active = {} /\ pending = 0

\* The process is gone, and with it every thread.
Ended == main \in {"exited", "terminated"}

\* A thread moves unless a handler has interrupted it.
Runs(t) == ~Ended /\ ~(sigint \in {"locking", "closing"} /\ interrupted = t)

-----------------------------------------------------------------------------
(***************************************************************************)
(* main().                                                                 *)
(***************************************************************************)
MainAt(from) == Runs("main") /\ main = from
GoTo(to) == main' = to

WaitReady ==
    /\ MainAt("wait_ready") /\ ready > 0
    /\ ready' = ready - 1
    /\ GoTo("begin_accept")
    /\ UNCHANGED <<server, accept, stop, port, mutex, handler, pool, open, active, pending>>

\* begin_accept creates accept_bio if there is none.  A failing BIO_do_accept
\* throws after accept_bio was set.
begin_accept(next) ==
    IF port THEN GoTo(next) /\ UNCHANGED port
    ELSE /\ port' = TRUE
         /\ \/ GoTo(next)
            \/ "port" \in Failures /\ GoTo("unwind")

BeginAccept ==
    /\ MainAt("begin_accept")
    /\ begin_accept("release_accept")
    /\ UNCHANGED <<server, signals, mutex, handler, pool, open, active, pending>>

ReleaseAccept ==
    /\ MainAt("release_accept")
    /\ accept' = accept + 1
    /\ GoTo("create_pool")
    /\ UNCHANGED <<server, ready, stop, port, mutex, handler, pool, open, active, pending>>

\* The pool counts every thread as busy until the thread first runs.
CreatePool ==
    /\ MainAt("create_pool")
    /\ starting' = MaxClients
    /\ GoTo("loop")
    /\ UNCHANGED <<server, signals, port, mutex, handler, task, open, active, pending>>

\* !server_shutdown_signal.try_acquire() && connections->is_accepting_connections()
TestLoop ==
    /\ MainAt("loop")
    /\ IF stop > 0 THEN stop' = stop - 1 /\ GoTo("join")
       ELSE UNCHANGED stop /\ GoTo(IF port THEN "await" ELSE "join")
    /\ UNCHANGED <<server, ready, accept, port, mutex, handler, pool, open, active, pending>>

\* await_next_connection starts with begin_accept, whatever closed the port.
Await ==
    /\ MainAt("await")
    /\ begin_accept("accepting")
    /\ UNCHANGED <<server, signals, mutex, handler, pool, open, active, pending>>

\* No connection is waiting (or the port is gone): sleep and return empty.
AcceptNothing ==
    /\ MainAt("accepting")
    /\ GoTo("loop")
    /\ UNCHANGED <<server, signals, port, mutex, handler, pool, open, active, pending>>

AcceptConnection(c) ==
    /\ MainAt("accepting") /\ port
    /\ task[c] = "none" /\ \A d \in Connections : d < c => task[d] # "none"
    /\ pending' = c
    /\ task' = [task EXCEPT ![c] = "accepted"]
    /\ open' = open \cup {c}
    /\ GoTo("lock_cleanup")
    /\ UNCHANGED <<server, signals, port, mutex, handler, starting, active>>

\* cleanup_connections and push_back each hold the mutex for their own scope.
Lock(from, to) ==
    /\ MainAt(from) /\ mutex = "free"
    /\ mutex' = "main"
    /\ GoTo(to)
    /\ UNCHANGED <<server, signals, port, handler, pool, open, active, pending>>

LockCleanup == Lock("lock_cleanup", "cleaning")
LockPush    == Lock("lock_push", "pushing")

Cleanup ==
    /\ MainAt("cleaning")
    /\ active' = active \cap open
    /\ mutex' = "free"
    /\ GoTo("lock_push")
    /\ UNCHANGED <<server, signals, port, handler, pool, open, pending>>

Push ==
    /\ MainAt("pushing")
    /\ active' = active \cup {pending}
    /\ mutex' = "free"
    /\ GoTo("dispatch")
    /\ UNCHANGED <<server, signals, port, handler, pool, open, pending>>

tasks_running == starting + Cardinality(WithTask({"running", "stuck"}))

Detach ==
    /\ MainAt("dispatch") /\ tasks_running < MaxClients
    /\ task' = [task EXCEPT ![pending] = "queued"]
    /\ pending' = 0
    /\ GoTo("loop")
    /\ UNCHANGED <<server, signals, port, mutex, handler, starting, open, active>>

\* Sending the NAK throws when the handler has closed the connection, and may when
\* its peer is gone ("nak").
Reject ==
    /\ MainAt("dispatch") /\ tasks_running >= MaxClients
    /\ \/ pending \in open /\ GoTo("loop")
       \/ pending \notin open /\ GoTo("unwind")
       \/ "nak" \in Failures /\ GoTo("unwind")
    /\ open' = open \ {pending}
    /\ task' = [task EXCEPT ![pending] = "done"]
    /\ pending' = 0
    /\ UNCHANGED <<server, signals, port, mutex, handler, starting, active>>

\* Mutant: the server worker's thread is not joined.
Join_NoJoin ==
    /\ MainAt("join")
    /\ GoTo("drain")
    /\ UNCHANGED <<server, signals, port, mutex, handler, pool, open, active, pending>>

Join ==
    /\ MainAt("join") /\ server = "stopped"
    /\ GoTo("drain")
    /\ UNCHANGED <<server, signals, port, mutex, handler, pool, open, active, pending>>

\* The pool's destructor waits for every task.  After it, an exception finds
\* server_thread still joinable, which ends the process through std::terminate.
LeaveMain ==
    /\ Runs("main") /\ main \in {"drain", "unwind"}
    /\ starting = 0 /\ WithTask({"queued", "running", "stuck"}) = {}
    /\ GoTo(IF main = "drain" THEN "exited" ELSE "terminated")
    /\ UNCHANGED <<server, signals, port, mutex, handler, pool, open, active, pending>>

-----------------------------------------------------------------------------
(***************************************************************************)
(* server_worker: one visit of "loop" to "work" is an iteration.           *)
(***************************************************************************)
mainSide == <<main, pool, open, active, pending>>

ServerAt(from) == Runs("server") /\ server = from

\* Mutant: the signal is released for each of two initial rooms.
PrepareRooms_EachRoom ==
    /\ ServerAt("rooms")
    /\ ready' = ready + 2
    /\ server' = "wait_accept"
    /\ UNCHANGED <<mainSide, accept, stop, port, mutex, handler>>

PrepareRooms ==
    /\ ServerAt("rooms")
    /\ ready' = ready + 1
    /\ server' = "wait_accept"
    /\ UNCHANGED <<mainSide, accept, stop, port, mutex, handler>>

\* Mutant: the loop starts without waiting for the main thread.
WaitAccept_NoWait ==
    /\ ServerAt("wait_accept")
    /\ server' = "loop"
    /\ UNCHANGED <<mainSide, signals, port, mutex, handler>>

WaitAccept ==
    /\ ServerAt("wait_accept") /\ accept > 0
    /\ accept' = accept - 1
    /\ server' = "loop"
    /\ UNCHANGED <<mainSide, ready, stop, port, mutex, handler>>

\* while (connections->is_accepting_connections()), read without the mutex.
TestPort ==
    /\ ServerAt("loop")
    /\ server' = IF port THEN "lock_copy" ELSE "release"
    /\ UNCHANGED <<mainSide, signals, port, mutex, handler>>

LockCopy ==
    /\ ServerAt("lock_copy") /\ mutex = "free"
    /\ mutex' = "server"
    /\ server' = "copying"
    /\ UNCHANGED <<mainSide, signals, port, handler>>

CopyActive ==
    /\ ServerAt("copying")
    /\ mutex' = "free"
    /\ server' = "work"
    /\ UNCHANGED <<mainSide, signals, port, handler>>

Work ==
    /\ ServerAt("work")
    /\ \/ server' = "loop"
       \/ "batch" \in Failures /\ server' = "release"
    /\ UNCHANGED <<mainSide, signals, port, mutex, handler>>

\* Mutant: the thread ends without telling the main thread.
Release_Silent ==
    /\ ServerAt("release")
    /\ server' = "stopped"
    /\ UNCHANGED <<mainSide, signals, port, mutex, handler>>

\* After the loop, or in the catch clause.
Release ==
    /\ ServerAt("release")
    /\ stop' = stop + 1
    /\ server' = "stopped"
    /\ UNCHANGED <<mainSide, ready, accept, port, mutex, handler>>

-----------------------------------------------------------------------------
(***************************************************************************)
(* The SIGINT handler: ClientConnectionManager::shutdown on a thread that  *)
(* may be anywhere, even inside a scope that holds the mutex.              *)
(***************************************************************************)
Interrupt(t) ==
    /\ sigint = "none" /\ ~Ended
    /\ main \in InterruptPoints
    /\ sigint' = "locking" /\ interrupted' = t
    /\ UNCHANGED <<main, server, signals, port, mutex, pool, open, active, pending>>

HandlerLocks ==
    /\ ~Ended /\ sigint = "locking" /\ mutex = "free"
    /\ mutex' = "handler" /\ sigint' = "closing"
    /\ UNCHANGED <<main, server, signals, port, interrupted, pool, open, active, pending>>

\* Mutant: the list is cleared, its connections are not shut down.
HandlerCloses_OnlyClears ==
    /\ ~Ended /\ sigint = "closing"
    /\ active' = {} /\ port' = FALSE /\ mutex' = "free" /\ sigint' = "handled"
    /\ UNCHANGED <<main, server, signals, interrupted, pool, open, pending>>

HandlerCloses ==
    /\ ~Ended /\ sigint = "closing"
    /\ open' = open \ active
    /\ active' = {}
    /\ port' = FALSE
    /\ mutex' = "free" /\ sigint' = "handled"
    /\ UNCHANGED <<main, server, signals, interrupted, pool, pending>>

-----------------------------------------------------------------------------
(***************************************************************************)
(* The pool's threads and the clients.                                     *)
(***************************************************************************)
poolFrame == <<main, server, signals, port, mutex, handler, active, pending>>

ThreadStarts ==
    /\ ~Ended /\ starting > 0
    /\ starting' = starting - 1
    /\ UNCHANGED <<poolFrame, task, open>>

TaskStarts(c) ==
    /\ ~Ended /\ task[c] = "queued" /\ \A d \in WithTask({"queued"}) : c <= d
    /\ tasks_running < MaxClients
    /\ task' = [task EXCEPT ![c] = "running"]
    /\ UNCHANGED <<poolFrame, starting, open>>

\* The peer's last block is not a whole one, or it does not read what it is sent:
\* the task stays in a loop of receive_message or send_message that does not look
\* at the link, which may be gone already when the task gets there.
TaskGetsStuck(c) ==
    /\ ~Ended /\ task[c] = "running"
    /\ task' = [task EXCEPT ![c] = "stuck"]
    /\ UNCHANGED <<poolFrame, starting, open>>

\* The task ends when its link does; without HELLO or on an exception, or when a block
\* is completed or written after all, also at another time.
TaskEnds(c) ==
    /\ ~Ended /\ task[c] \in {"running", "stuck"}
    /\ task' = [task EXCEPT ![c] = "done"]
    /\ UNCHANGED <<poolFrame, starting, open>>

\* A peer that leaves while it is being accepted matters to Reject only ("nak").
PeerLeaves(c) ==
    /\ ~Ended /\ c \in open /\ c # pending
    /\ open' = open \ {c}
    /\ UNCHANGED <<poolFrame, pool>>

-----------------------------------------------------------------------------
Main == \/ WaitReady \/ BeginAccept \/ ReleaseAccept \/ CreatePool \/ TestLoop
        \/ Await \/ AcceptNothing
        \/ \E c \in Connections : AcceptConnection(c)
        \/ LockCleanup \/ Cleanup \/ LockPush \/ Push
        \/ Detach \/ Reject \/ Join \/ LeaveMain

Server == PrepareRooms \/ WaitAccept \/ TestPort \/ LockCopy \/ CopyActive \/ Work \/ Release

Handler == HandlerLocks \/ HandlerCloses

Pool == ThreadStarts \/ \E c \in Connections : TaskStarts(c)

Stay == Ended /\ UNCHANGED vars

Next == \/ Main \/ Server \/ Handler \/ Pool
        \/ \E c \in Connections : TaskGetsStuck(c) \/ TaskEnds(c) \/ PeerLeaves(c)
        \/ \E t \in InterruptThreads : Interrupt(t)
        \/ Stay

Spec == Init /\ [][Next]_vars

(***************************************************************************)
(* The operating system runs every thread that can move, and a thread that *)
(* waits for the mutex gets it although others take it again and again:    *)
(* the server worker leaves it free while it works and sleeps, for most of *)
(* every 20 ms (strong fairness of the waiting steps).  No client has to   *)
(* leave, to say HELLO or to be heard of again.  A task that tests its     *)
(* link again and again ends when the link is closed; one that is stuck in *)
(* a block tests nothing and need not end.  SIGINT need not come.          *)
(***************************************************************************)
FairSpec ==
    /\ Spec
    /\ WF_vars(Main) /\ WF_vars(Server) /\ WF_vars(Handler) /\ WF_vars(Pool)
    /\ SF_vars(HandlerLocks) /\ SF_vars(LockCleanup \/ LockPush)
    /\ \A c \in Connections : WF_vars(c \notin open /\ task[c] = "running" /\ TaskEnds(c))

-----------------------------------------------------------------------------
(***************************************************************************)
(* Properties.                                                             *)
(***************************************************************************)
MainPoints == {"wait_ready", "begin_accept", "release_accept", "create_pool", "loop",
               "await", "accepting", "lock_cleanup", "cleaning", "lock_push", "pushing",
               "dispatch", "join", "drain", "unwind", "exited", "terminated"}

\* Types; a semaphore above one would be released beyond its maximum.
TypeOK ==
    /\ main \in MainPoints
    /\ server \in {"rooms", "wait_accept", "loop", "lock_copy", "copying", "work",
                   "release", "stopped"}
    /\ ready \in {0, 1} /\ accept \in {0, 1} /\ stop \in {0, 1}
    /\ port \in BOOLEAN
    /\ mutex \in {"free", "main", "server", "handler"}
    /\ sigint \in {"none", "locking", "closing", "handled"}
    /\ interrupted \in InterruptThreads \cup {"none"}
    /\ starting \in 0 .. MaxClients
    /\ task \in [Connections -> {"none", "accepted", "queued", "running", "stuck", "done"}]
    /\ open \subseteq Connections /\ active \subseteq Connections
    /\ pending \in Connections \cup {0}

\* The server worker's loop starts after the accept port was created, and the port
\* is created after the initial rooms exist.
StartupOrder ==
    /\ server \notin {"rooms", "wait_accept"} => main \notin {"wait_ready", "begin_accept"}
    /\ main # "wait_ready" => server # "rooms"

\* When the server worker has ended, the main thread is told, or was told already:
\* no wake-up is lost between its loop test and its blocking accept.
StopIsNotLost ==
    server = "stopped" =>
        stop = 1 \/ main \in {"join", "drain", "unwind", "exited", "terminated"}

\* The process returns from main only when no thread is left that uses the
\* connections.
CleanExit ==
    main = "exited" => server = "stopped" /\ WithTask({"queued", "running", "stuck"}) = {}

\* An interrupt that finds the main thread waiting for a connection brings it out of its
\* loop and past the join, whatever fails besides and although tasks may be stuck; and
\* it ends the server, unless a task stays stuck in a block for ever: the server worker
\* leaves its loop, every link is closed, every task that looks at its link ends.
Caught == sigint = "locking" /\ interrupted = "main" /\ main = "accepting"

InterruptStops ==
    /\ Caught ~> (main \in {"drain", "unwind"} \/ Ended)
    /\ \/ Caught ~> Ended
       \/ \E c \in Connections : <>[](task[c] = "stuck")

\* "Attempts to shutdown the accept port and all active client connections.": the
\* handler gets through shutdown().
HandlerReturns == (sigint = "locking") ~> (sigint = "handled")

\* "Signals that the server work thread would like the main server thread to
\* shutdown.": the main thread does so.
WorkerEndsServer == (server = "stopped") ~> Ended
=============================================================================
