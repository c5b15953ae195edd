--------------------------- MODULE ClientSession ----------------------------
(***************************************************************************)
(* Connecting, losing and closing in src/client: the main thread, which    *)
(* draws one frame after the other and owns the stack of screens; the      *)
(* detached thread that tries to connect; and the detached                 *)
(* server_message_worker of every session.  They meet in globals: the      *)
(* pointer `connection`, three binary semaphores and a flag, all of which  *)
(* outlive a session.  The error texts are left out.                       *)
(*                                                                         *)
(* An attempt to connect, the session it becomes, its threads and its      *)
(* screens bear the number of the attempt.  What the worker carries to     *)
(* and from the chat window is ChatWindow.tla.                             *)
(***************************************************************************)
EXTENDS Integers, Sequences

CONSTANTS MaxAttempts,    \* bound: how often Connect is pressed with usable input
          MayStall,       \* bound: peers that may stop in the middle of a block
          MayFallSilent   \* bound: peers that may be silent for long

ASSUME BoundsAssumption == /\ MaxAttempts \in Nat
                           /\ MayStall \subseteq 1 .. MaxAttempts
                           /\ MayFallSilent \subseteq 1 .. MaxAttempts

VARIABLES
  \* the main thread and its ClientUi
  main,              \* where in a frame it is, or in the end of main()
  screen_stack, op_queue,
  cancelled,         \* attempts whose connecting screen was cancelled
  window_closed,     \* sessions whose window_open is false
  attempts,          \* how many attempts were started
  \* connectscreen-worker.cpp
  connection,        \* the attempt whose connection the global pointer holds
  thread,            \* per attempt: connection_thread
  connect_signal,
  \* serverconnection-worker.cpp
  worker,            \* per session: server_message_worker
  ended_signal, shutdown_signal, waiting_on_server,
  silence,           \* per session: how long ago last_message_received is
  heartbeat_sent,    \* per session: likewise, or "none"
  \* the sockets
  link,              \* per attempt: what is_connected() and the socket know
  stalled            \* peers that stopped for good in the middle of a block

uiVars      == <<screen_stack, op_queue, cancelled, window_closed>>
connectVars == <<connection, thread, connect_signal>>
workerVars  == <<worker, waiting_on_server, silence, heartbeat_sent>>
netVars     == <<link, stalled>>
vars == <<main, uiVars, attempts, connectVars, workerVars, ended_signal,
          shutdown_signal, netVars>>

Attempts == 1 .. MaxAttempts
Nobody   == 0

Screen(kind, a) == [kind |-> kind, of |-> a]
connect_screen  == Screen("connect", Nobody)

Pop     == [op |-> "pop", screen |-> connect_screen]
Push(s) == [op |-> "push", screen |-> s]

top == screen_stack[Len(screen_stack)]
TopIs(kind) == screen_stack # << >> /\ top.kind = kind

\* The peer has gone when the link is "gone"; this side finds out by reading, after
\* which it is "finished".  shutdown() leaves no link.
is_connected(a) == link[a] \in {"open", "gone"}

\* release() of a binary semaphore.  Above one is undefined: libstdc++ counts on,
\* the MSVC library stays at one.
Released(n) == IF n = 0 THEN {1} ELSE {n, n + 1}

Init ==
    /\ main = "begin"
    /\ screen_stack = << >> /\ op_queue = <<Push(connect_screen)>>
    /\ cancelled = {} /\ window_closed = {} /\ attempts = 0
    /\ connection = Nobody
    /\ thread = [a \in Attempts |-> "none"]
    /\ connect_signal = 0
    /\ worker = [a \in Attempts |-> "none"]
    /\ ended_signal = 0 /\ shutdown_signal = 0 /\ waiting_on_server = FALSE
    /\ silence = [a \in Attempts |-> "short"]
    /\ heartbeat_sent = [a \in Attempts |-> "none"]
    /\ link = [a \in Attempts |-> "none"]
    /\ stalled = {}

\* The global pointer gets another value: the connection it held is destroyed, which
\* shuts its link down if there still is one.
Hold(a) ==
    /\ connection' = a
    /\ link' = [b \in Attempts |-> IF b = connection THEN "none" ELSE link[b]]

-----------------------------------------------------------------------------
(***************************************************************************)
(* The main loop: a frame takes the deferred operations on the stack, lets *)
(* the top screen update itself, and draws it, which is when the user      *)
(* acts.                                                                   *)
(***************************************************************************)
MainAt(from, to) == main = from /\ main' = to
othersVars == <<attempts, connectVars, workerVars, ended_signal, shutdown_signal, netVars>>

\* One round of `while (op_queue.pop())`.  std::stack::pop on nothing does nothing.
ProcessOp ==
    /\ MainAt("begin", "begin") /\ op_queue # << >>
    /\ op_queue' = Tail(op_queue)
    /\ screen_stack' =
          LET op == Head(op_queue)
          IN  IF op.op = "push" THEN Append(screen_stack, op.screen)
              ELSE IF screen_stack = << >> THEN << >>
              ELSE SubSeq(screen_stack, 1, Len(screen_stack) - 1)
    /\ UNCHANGED <<cancelled, window_closed, othersVars>>

StartFrame ==
    /\ MainAt("begin", "update") /\ op_queue = << >>
    /\ UNCHANGED <<uiVars, othersVars>>

\* Screens without an update handler, and an empty stack.
UpdateNothing ==
    /\ MainAt("update", "render")
    /\ ~TopIs("connecting") /\ ~TopIs("chat")
    /\ UNCHANGED <<uiVars, othersVars>>

\* connecting_screen_update: the attempt is still running.
UpdateConnecting ==
    /\ MainAt("update", "render")
    /\ TopIs("connecting") /\ connect_signal = 0
    /\ UNCHANGED <<uiVars, othersVars>>

\* The signal of a finished attempt is consumed by the connecting screen a.
Finish(a) ==
    /\ MainAt("update", "render")
    /\ TopIs("connecting") /\ top.of = a /\ connect_signal > 0
    /\ connect_signal' = connect_signal - 1
    /\ UNCHANGED <<screen_stack, cancelled, window_closed, attempts, thread,
                   waiting_on_server, silence, heartbeat_sent, ended_signal,
                   shutdown_signal, stalled>>

FinishCancelled(a) ==
    /\ Finish(a) /\ a \in cancelled
    /\ op_queue' = Append(op_queue, Pop)
    /\ Hold(Nobody)
    /\ UNCHANGED worker

\* Mutant: the worker gets a reference, the pointer stays.
FinishConnected_KeepsPointer(a) ==
    /\ Finish(a) /\ a \notin cancelled
    /\ connection # Nobody /\ is_connected(connection)
    /\ op_queue' = op_queue \o <<Pop, Push(Screen("chat", connection))>>
    /\ worker' = [worker EXCEPT ![connection] = "start"]
    /\ UNCHANGED <<connection, link>>

\* The connection moves to the session's worker; the chat window replaces the
\* connecting screen.
FinishConnected(a) ==
    /\ Finish(a) /\ a \notin cancelled
    /\ connection # Nobody /\ is_connected(connection)
    /\ op_queue' = op_queue \o <<Pop, Push(Screen("chat", connection))>>
    /\ worker' = [worker EXCEPT ![connection] = "start"]
    /\ connection' = Nobody
    /\ UNCHANGED link

\* Denied, failed or closed.
FinishFailed(a) ==
    /\ Finish(a) /\ a \notin cancelled
    /\ ~(connection # Nobody /\ is_connected(connection))
    /\ op_queue' = Append(op_queue, Pop)
    /\ UNCHANGED <<connection, worker, link>>

\* The chat window looks for the end of the connection before anything else.
UpdateChat(a) ==
    /\ MainAt("update", "render")
    /\ TopIs("chat") /\ top.of = a /\ ended_signal = 0
    /\ UNCHANGED <<uiVars, othersVars>>

NoticeEnd(a) ==
    /\ MainAt("update", "render")
    /\ TopIs("chat") /\ top.of = a /\ ended_signal > 0
    /\ ended_signal' = ended_signal - 1
    /\ op_queue' = Append(op_queue, Pop)
    /\ UNCHANGED <<screen_stack, cancelled, window_closed, attempts, connectVars,
                   workerVars, shutdown_signal, netVars>>

\* The end of a frame, in which the user may act.  The window system may have asked the
\* program to quit before the frame, which is drawn nevertheless.
LastOfFrame == main = "render" /\ main' \in {"begin", "quit"}

\* The user does nothing, or submits what try_submit refuses.
DrawOnly ==
    /\ LastOfFrame
    /\ UNCHANGED <<uiVars, othersVars>>

\* MSG_CONNECT_BUTTON: the old connection is dropped, a new one made, its thread
\* started and the connecting screen pushed.
PressConnect(a) ==
    /\ LastOfFrame
    /\ TopIs("connect") /\ a = attempts + 1 /\ a \in Attempts
    /\ attempts' = a
    /\ Hold(a)
    /\ thread' = [thread EXCEPT ![a] = "connect"]
    /\ op_queue' = Append(op_queue, Push(Screen("connecting", a)))
    /\ UNCHANGED <<screen_stack, cancelled, window_closed, connect_signal, workerVars,
                   ended_signal, shutdown_signal, stalled>>

\* The port is out of range, a certificate cannot be loaded, no thread can be had.
PressConnectFails ==
    /\ LastOfFrame
    /\ TopIs("connect")
    /\ Hold(Nobody)
    /\ UNCHANGED <<screen_stack, op_queue, cancelled, window_closed, attempts,
                   thread, connect_signal, workerVars, ended_signal,
                   shutdown_signal, stalled>>

\* Mutant: the connecting screen goes at once, its thread's signal comes later.
PressCancel_Pops(a) ==
    /\ LastOfFrame
    /\ TopIs("connecting") /\ top.of = a /\ a \notin cancelled
    /\ cancelled' = cancelled \cup {a}
    /\ op_queue' = Append(op_queue, Pop)
    /\ UNCHANGED <<screen_stack, window_closed, othersVars>>

\* Mutant: the connection is dropped at once.
PressCancel_Resets(a) ==
    /\ LastOfFrame
    /\ TopIs("connecting") /\ top.of = a /\ a \notin cancelled
    /\ cancelled' = cancelled \cup {a}
    /\ Hold(Nobody)
    /\ UNCHANGED <<screen_stack, op_queue, window_closed, attempts,
                   thread, connect_signal, workerVars, ended_signal,
                   shutdown_signal, stalled>>

PressCancel(a) ==
    /\ LastOfFrame
    /\ TopIs("connecting") /\ top.of = a /\ a \notin cancelled
    /\ cancelled' = cancelled \cup {a}
    /\ UNCHANGED <<screen_stack, op_queue, window_closed, othersVars>>

\* Mutant: the window goes and the worker is not told.
CloseWindow_NoSignal(a) ==
    /\ LastOfFrame
    /\ TopIs("chat") /\ top.of = a /\ a \notin window_closed
    /\ window_closed' = window_closed \cup {a}
    /\ op_queue' = Append(op_queue, Pop)
    /\ UNCHANGED <<screen_stack, cancelled, othersVars>>

\* MSG_CHAT_CLOSED: in the frame in which update() noticed the end, it is called too.
CloseWindow(a) ==
    /\ LastOfFrame
    /\ TopIs("chat") /\ top.of = a /\ a \notin window_closed
    /\ window_closed' = window_closed \cup {a}
    /\ op_queue' = Append(op_queue, Pop)
    /\ shutdown_signal' \in Released(shutdown_signal)
    /\ UNCHANGED <<screen_stack, cancelled, attempts, connectVars,
                   workerVars, ended_signal, netVars>>

\* After the loop: ask a worker to stop, whether or not there is one.
QuitLoop ==
    /\ MainAt("quit", "sleep")
    /\ shutdown_signal' \in Released(shutdown_signal)
    /\ UNCHANGED <<uiVars, attempts, connectVars, workerVars, ended_signal, netVars>>

\* 100 ms later main returns: the globals are destroyed and all threads end.
ExitMain ==
    /\ MainAt("sleep", "exited")
    /\ Hold(Nobody)
    /\ UNCHANGED <<uiVars, attempts, thread, connect_signal,
                   workerVars, ended_signal, shutdown_signal, stalled>>

MainThread ==
    \/ ProcessOp \/ StartFrame
    \/ UpdateNothing \/ UpdateConnecting
    \/ \E a \in Attempts : \/ FinishCancelled(a) \/ FinishConnected(a) \/ FinishFailed(a)
                           \/ UpdateChat(a) \/ NoticeEnd(a)
                           \/ PressConnect(a) \/ PressCancel(a) \/ CloseWindow(a)
    \/ DrawOnly \/ PressConnectFails
    \/ QuitLoop \/ ExitMain

-----------------------------------------------------------------------------
(***************************************************************************)
(* connection_thread: it works on what the global pointer points at.       *)
(* Connecting gives up after a time, a TLS handshake or a read of a block  *)
(* that the peer has stopped in the middle of never does.                  *)
(***************************************************************************)
connectFrame == <<main, uiVars, attempts, connection, workerVars, ended_signal,
                  shutdown_signal, stalled>>

ThreadAt(a, from, to) ==
    /\ main # "exited" /\ thread[a] = from
    /\ thread' = [thread EXCEPT ![a] = to]
    /\ UNCHANGED connectFrame

\* connect(): resolving, TCP, TLS and the server's certificate.
Connect(a) ==
    /\ ThreadAt(a, "connect", "hello")
    /\ a \notin stalled
    /\ link' = [link EXCEPT ![a] = "open"]
    /\ UNCHANGED connect_signal

\* The HELLO is sent: writing to a peer that has gone may still succeed.
SendHello(a) ==
    /\ ThreadAt(a, "hello", "wait")
    /\ a \notin stalled
    /\ UNCHANGED <<connect_signal, link>>

\* The first ACK or NAK decides.
ReceiveAck(a) ==
    /\ ThreadAt(a, "wait", "release")
    /\ a \notin stalled /\ link[a] = "open"
    /\ UNCHANGED <<connect_signal, link>>

ReceiveNak(a) ==
    /\ ThreadAt(a, "wait", "release")
    /\ a \notin stalled /\ link[a] = "open"
    /\ link' = [link EXCEPT ![a] = "none"]
    /\ UNCHANGED connect_signal

\* Mutant: the failure is signalled here and again at the end.
ConnectFails_ReleasesToo(a) ==
    /\ \E from \in {"connect", "hello", "wait"} : ThreadAt(a, from, "release")
    /\ a \notin stalled
    /\ link' = [link EXCEPT ![a] = "none"]
    /\ connect_signal' \in Released(connect_signal)

\* An exception anywhere, or no answer in time: the link is shut down, if there is one.
ConnectFails(a) ==
    /\ \E from \in {"connect", "hello", "wait"} : ThreadAt(a, from, "release")
    /\ a \notin stalled
    /\ link' = [link EXCEPT ![a] = "none"]
    /\ UNCHANGED connect_signal

\* Mutant: a failed attempt returns from its catch clause without the signal.
ReleaseConnect_OnSuccess(a) ==
    /\ ThreadAt(a, "release", "ended")
    /\ connect_signal' \in IF link[a] = "none" THEN {connect_signal}
                                               ELSE Released(connect_signal)
    /\ UNCHANGED link

ReleaseConnect(a) ==
    /\ ThreadAt(a, "release", "ended")
    /\ connect_signal' \in Released(connect_signal)
    /\ UNCHANGED link

ConnectionThread(a) ==
    \/ Connect(a) \/ SendHello(a) \/ ReceiveAck(a) \/ ReceiveNak(a)
    \/ ConnectFails(a) \/ ReleaseConnect(a)

-----------------------------------------------------------------------------
(***************************************************************************)
(* server_message_worker.  Reads and writes may find the peer gone: a read *)
(* may learn it politely (close_notify), or either may throw.              *)
(***************************************************************************)
workerFrame == <<main, uiVars, attempts, connectVars, stalled>>

WorkerAt(a, from, to) ==
    /\ main # "exited" /\ worker[a] = from
    /\ worker' = [worker EXCEPT ![a] = to]
    /\ UNCHANGED workerFrame

timers == <<waiting_on_server, silence, heartbeat_sent>>

\* Sending the request for the room list.
WorkerStarts(a) ==
    /\ WorkerAt(a, "start", "loop")
    /\ a \notin stalled
    /\ UNCHANGED <<timers, ended_signal, shutdown_signal, link>>

\* A read or a write throws, or a block that was read does not unpack.
WorkerThrows(a) ==
    /\ \E from \in {"start", "read", "send"} : WorkerAt(a, from, "release")
    /\ \/ link[a] \in {"gone", "finished"}
       \/ worker[a] = "read" /\ link[a] = "open" /\ a \notin stalled
    /\ UNCHANGED <<timers, ended_signal, shutdown_signal, link>>

\* while (server->is_connected())
LoopEnds(a) ==
    /\ WorkerAt(a, "loop", "release")
    /\ ~is_connected(a)
    /\ UNCHANGED <<timers, ended_signal, shutdown_signal, link>>

\* A requested shutdown releases no signal: nobody waits for it.
ShutDown(a) ==
    /\ WorkerAt(a, "loop", "stopped")
    /\ is_connected(a) /\ shutdown_signal > 0
    /\ shutdown_signal' = shutdown_signal - 1
    /\ link' = [link EXCEPT ![a] = "none"]
    /\ UNCHANGED <<timers, ended_signal>>

LoopOn(a) ==
    /\ WorkerAt(a, "loop", "read")
    /\ is_connected(a) /\ shutdown_signal = 0
    /\ UNCHANGED <<timers, ended_signal, shutdown_signal, link>>

\* Mutant: heartbeat_sent is not reset.
ReadBlock_KeepsHeartbeat(a) ==
    /\ WorkerAt(a, "read", "beat")
    /\ a \notin stalled /\ link[a] = "open"
    /\ silence' = [silence EXCEPT ![a] = "short"]
    /\ waiting_on_server' = FALSE
    /\ UNCHANGED <<heartbeat_sent, ended_signal, shutdown_signal, link>>

\* Anything the server sends ends the silence.
ReadBlock(a) ==
    /\ WorkerAt(a, "read", "beat")
    /\ a \notin stalled /\ link[a] = "open"
    /\ silence' = [silence EXCEPT ![a] = "short"]
    /\ heartbeat_sent' = [heartbeat_sent EXCEPT ![a] = "none"]
    /\ waiting_on_server' = FALSE
    /\ UNCHANGED <<ended_signal, shutdown_signal, link>>

\* Nothing is there, or a close_notify, which ends the loop at its next test.
ReadNothing(a) ==
    /\ WorkerAt(a, "read", "beat")
    /\ a \notin stalled
    /\ link' = [link EXCEPT ![a] = IF @ = "gone" THEN "finished" ELSE @]
    /\ UNCHANGED <<timers, ended_signal, shutdown_signal>>

\* Step 2 of the loop: neither the server nor the answer is overdue.
NoHeartbeat(a) ==
    /\ WorkerAt(a, "beat", "send")
    /\ silence[a] = "short" \/ heartbeat_sent[a] = "short"
    /\ UNCHANGED <<timers, ended_signal, shutdown_signal, link>>

SendHeartbeat(a) ==
    /\ WorkerAt(a, "beat", "send")
    /\ silence[a] = "long" /\ heartbeat_sent[a] = "none"
    /\ heartbeat_sent' = [heartbeat_sent EXCEPT ![a] = "short"]
    /\ waiting_on_server' = TRUE
    /\ UNCHANGED <<silence, ended_signal, shutdown_signal, link>>

\* "Server did not respond to heartbeat."
GiveUp(a) ==
    /\ WorkerAt(a, "beat", "release")
    /\ silence[a] = "long" /\ heartbeat_sent[a] = "long"
    /\ UNCHANGED <<timers, ended_signal, shutdown_signal, link>>

\* Step 3 and the sleep: with nothing to send the link is not looked at.
SendQueued(a) ==
    /\ WorkerAt(a, "send", "loop")
    /\ a \notin stalled
    /\ UNCHANGED <<timers, ended_signal, shutdown_signal, link>>

\* Mutant: the catch clause only logs.
ReleaseEnded_NotOnError(a) ==
    /\ WorkerAt(a, "release", "ended")
    /\ ended_signal' \in IF link[a] = "gone" THEN {ended_signal} ELSE Released(ended_signal)
    /\ link' = [link EXCEPT ![a] = "none"]
    /\ UNCHANGED <<timers, shutdown_signal>>

\* After the loop or in the catch clause; then the connection goes out of scope.
ReleaseEnded(a) ==
    /\ WorkerAt(a, "release", "ended")
    /\ ended_signal' \in Released(ended_signal)
    /\ link' = [link EXCEPT ![a] = "none"]
    /\ UNCHANGED <<timers, shutdown_signal>>

Worker(a) ==
    \/ WorkerStarts(a) \/ WorkerThrows(a) \/ LoopEnds(a) \/ ShutDown(a) \/ LoopOn(a)
    \/ ReadBlock(a) \/ ReadNothing(a) \/ NoHeartbeat(a) \/ SendHeartbeat(a) \/ GiveUp(a)
    \/ SendQueued(a) \/ ReleaseEnded(a)

-----------------------------------------------------------------------------
(***************************************************************************)
(* The peer and the clock.                                                 *)
(***************************************************************************)
world == <<main, uiVars, attempts, connectVars, worker, waiting_on_server,
           ended_signal, shutdown_signal>>

PeerLeaves(a) ==
    /\ main # "exited" /\ link[a] = "open"
    /\ link' = [link EXCEPT ![a] = "gone"]
    /\ UNCHANGED <<world, silence, heartbeat_sent, stalled>>

PeerStalls(a) ==
    /\ main # "exited" /\ a \in MayStall \ stalled
    /\ thread[a] = "connect" \/ link[a] = "open"
    /\ stalled' = stalled \cup {a}
    /\ UNCHANGED <<world, silence, heartbeat_sent, link>>

\* QUIET_TIMEOUT passes since the last message and since the heartbeat, if one was sent.
\* Only step 2 of the worker's loop looks at the clock: it may pass just before.
TimePasses(a) ==
    /\ main # "exited" /\ a \in MayFallSilent /\ worker[a] = "beat"
    /\ silence' = [silence EXCEPT ![a] = "long"]
    /\ heartbeat_sent' = [heartbeat_sent EXCEPT ![a] = IF @ = "none" THEN "none" ELSE "long"]
    /\ UNCHANGED <<world, netVars>>

-----------------------------------------------------------------------------
Exited == main = "exited" /\ UNCHANGED vars

Next == \/ MainThread
        \/ \E a \in Attempts : \/ ConnectionThread(a) \/ Worker(a)
                               \/ PeerLeaves(a) \/ PeerStalls(a) \/ TimePasses(a)
        \/ Exited

Spec == Init /\ [][Next]_vars

(***************************************************************************)
(* The main thread draws frames until it is told to quit, and the          *)
(* operating system runs the other threads.  A thread that reads from or   *)
(* writes to a peer that has stopped for good is not assumed to return.    *)
(* Nothing makes the user act, a peer leave or the program quit.           *)
(***************************************************************************)
FairSpec == /\ Spec
            /\ WF_vars(MainThread)
            /\ \A a \in Attempts : WF_vars(ConnectionThread(a)) /\ WF_vars(Worker(a))

-----------------------------------------------------------------------------
(***************************************************************************)
(* Properties.                                                             *)
(***************************************************************************)
Connecting == {"connect", "hello", "wait", "release"}
Serving    == {"start", "loop", "read", "beat", "send", "release"}
Screens    == {connect_screen} \cup [kind : {"connecting", "chat"}, of : Attempts]

\* Types of all variables.  connect_signal is never released above its maximum.
TypeOK ==
    /\ main \in {"begin", "update", "render", "quit", "sleep", "exited"}
    /\ screen_stack \in Seq(Screens)
    /\ op_queue \in Seq([op : {"pop", "push"}, screen : Screens])
    /\ cancelled \subseteq Attempts /\ window_closed \subseteq Attempts
    /\ attempts \in 0 .. MaxAttempts
    /\ connection \in Attempts \cup {Nobody}
    /\ thread \in [Attempts -> Connecting \cup {"none", "ended"}]
    /\ connect_signal \in {0, 1}
    /\ worker \in [Attempts -> Serving \cup {"none", "stopped", "ended"}]
    /\ ended_signal \in Nat /\ shutdown_signal \in Nat /\ waiting_on_server \in BOOLEAN
    /\ silence \in [Attempts -> {"short", "long"}]
    /\ heartbeat_sent \in [Attempts -> {"none", "short", "long"}]
    /\ link \in [Attempts -> {"none", "open", "gone", "finished"}]
    /\ stalled \subseteq Attempts

\* A connection belongs to one thread at a time: while a connection thread works
\* through the global pointer, the pointer holds that thread's connection and no
\* worker has it; once a worker has it the pointer holds another one or none.
OneOwner ==
    main # "exited" => \A a \in Attempts :
        /\ thread[a] \in Connecting => connection = a /\ worker[a] = "none"
        /\ worker[a] # "none" => connection # a

\* While a connection thread runs, the main thread neither drops nor replaces the
\* connection it works on, whatever the user presses: cancelling waits for the thread.
\* (Until main returns: then the global is destroyed under a thread that still runs.)
HeldWhileConnecting ==
    [][(main' # "exited" /\ \E a \in Attempts : thread[a] \in Connecting)
            => connection' = connection]_vars

\* The signal of a finished attempt always finds the connecting screen of that attempt.
SignalFindsItsScreen ==
    connect_signal > 0 /\ TopIs("connecting") =>
        thread[top.of] = "ended" /\ worker[top.of] = "none"

\* A heartbeat is outstanding only as long as nothing was heard since it was sent: a
\* worker gives up after two full periods of silence, the second one asked for.  The
\* window shows that it waits for the server only when some heartbeat was not answered.
HeartbeatEndsWithSilence ==
    /\ \A a \in Attempts : heartbeat_sent[a] # "none" => silence[a] = "long"
    /\ waiting_on_server => \E a \in Attempts : heartbeat_sent[a] # "none"

OnStack(kind, a) == \E i \in DOMAIN screen_stack : screen_stack[i] = Screen(kind, a)

\* An attempt is resolved: its connecting screen goes, unless its peer stalls.
AttemptIsResolved ==
    \A a \in Attempts : (thread[a] = "connect") ~>
        \/ thread[a] = "ended" /\ ~OnStack("connecting", a)
        \/ a \in stalled \/ main = "exited"

\* A session that ended by itself does not leave its window on the screen.
EndIsNoticed ==
    \A a \in Attempts : (worker[a] = "ended") ~> (~OnStack("chat", a) \/ main = "exited")

\* The window of a session was closed, its worker runs, and nothing asks it to stop.
Unasked(a) == a \in window_closed /\ worker[a] \in Serving /\ shutdown_signal = 0

\* Closing a window ends the session's worker, unless its peer stalls or the request is
\* gone; and the request of a closed window goes in one way only, when the worker of
\* another session stops on it.  (A request that comes before an earlier one was taken
\* is above the semaphore's maximum, and may be one with it.)
ClosedWindowEndsSession ==
    /\ \A a \in Attempts : (a \in window_closed) ~>
           (worker[a] \in {"stopped", "ended"} \/ a \in stalled \/ Unasked(a) \/ main = "exited")
    /\ [][\A a \in Attempts : ~Unasked(a) /\ Unasked(a)' =>
              \E b \in Attempts \ {a} : worker[b] \in Serving /\ worker'[b] = "stopped"]_vars

\* "Signals that the connection to the server has been ended.": a window that goes
\* because of the signal had lost its own connection.
EndedSignalIsOwn ==
    [][ended_signal' < ended_signal => worker[top.of] = "ended"]_vars

\* "Signals that the connection to the server should be cleanly shutdown.": the
\* connection that is shut down is one whose window was closed.
ShutdownIsOwn ==
    [][shutdown_signal' < shutdown_signal =>
          main \in {"sleep", "exited"} \/ \A a \in Attempts :
              worker'[a] = "stopped" => a \in window_closed]_vars

\* "Pops the top screen off the stack.": a chat window pops itself, so that the connect
\* screen below it is shown again.
ConnectScreenStays ==
    main \in {"update", "render"} =>
        screen_stack # << >> /\ screen_stack[1] = connect_screen

\* "Holds on to the server connection until it's passed off to the chat worker."
HeldUntilPassedOn ==
    [][(\E a \in Attempts : thread[a] \in Connecting) => connection' = connection]_vars
=============================================================================
