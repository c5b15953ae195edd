------------------------ MODULE ClientSessionProofs -------------------------
(***************************************************************************)
(* Proofs about ClientSession for any number of attempts to connect,       *)
(* whichever peers stall, fall silent or leave.                            *)
(***************************************************************************)
EXTENDS ClientSession, TLAPS

-----------------------------------------------------------------------------
(***************************************************************************)
(* The inductive invariant.  From the press of Connect to the frame in     *)
(* which the connecting screen takes its signal the client is busy with    *)
(* the latest attempt, whose screen is on its way to the top of the stack  *)
(* or there: the user has no button that replaces the connection.          *)
(***************************************************************************)
Running == \E a \in Attempts : thread[a] \in Connecting
Busy    == connect_signal > 0 \/ Running

\* Only the latest attempt runs, and it has signalled when it does no more.
OneAttempt ==
    /\ \A a \in Attempts : a > attempts => thread[a] = "none" /\ worker[a] = "none"
    /\ \A a \in Attempts : thread[a] \in Connecting => a = attempts /\ connect_signal = 0
    /\ connect_signal > 0 => attempts \in Attempts /\ thread[attempts] = "ended"

ScreenToCome == /\ op_queue = <<Push(Screen("connecting", attempts))>>
                /\ main \notin {"update", "render"}
                /\ TopIs("connect")
ScreenShown  == /\ op_queue = << >>
                /\ TopIs("connecting") /\ top.of = attempts

BusyIsShown == Busy => ScreenToCome \/ ScreenShown

\* Deferred operations are carried out before a screen is updated, and the connect screen
\* has none to defer.
Deferred == /\ main = "update" => op_queue = << >>
            /\ main = "render" /\ TopIs("connect") => op_queue = << >>

\* The pointer holds the connection of the attempt that runs, and none that has a worker.
Held == /\ Busy => worker[attempts] = "none"
        /\ Busy /\ main # "exited" => connection = attempts
        /\ connection # Nobody => worker[connection] = "none"

IInv == TypeOK /\ OneAttempt /\ BusyIsShown /\ Deferred /\ Held /\ HeartbeatEndsWithSilence

USE BoundsAssumption DEF BoundsAssumption, Attempts, Nobody

\* What the main thread shares with the threads of the sessions.
sessions == <<attempts, connectVars, workerVars>>

-----------------------------------------------------------------------------
Operations == [op : {"pop", "push"}, screen : Screens]

LEMMA ButLast ==
    ASSUME NEW S, NEW s \in Seq(S), s # << >>
    PROVE  SubSeq(s, 1, Len(s) - 1) \in Seq(S)
<1>1. Len(s) \in Nat /\ \A i \in 1 .. Len(s) : s[i] \in S
  OBVIOUS
<1>. QED  BY <1>1

LEMMA LastAppended ==
    ASSUME NEW S, NEW s \in Seq(S), NEW x \in S
    PROVE  Append(s, x) # << >> /\ Append(s, x)[Len(Append(s, x))] = x
<1>1. Append(s, x) \in Seq(S) /\ Len(Append(s, x)) = Len(s) + 1 /\ Len(s) \in Nat
  OBVIOUS
<1>2. Append(s, x)[Len(s) + 1] = x
  OBVIOUS
<1>. QED  BY <1>1, <1>2

LEMMA TwoMore ==
    ASSUME NEW S, NEW s \in Seq(S), NEW x \in S, NEW y \in S
    PROVE  s \o <<x, y>> \in Seq(S)
<1>1. <<x, y>> \in Seq(S)
  OBVIOUS
<1>. QED  BY <1>1

\* Deferred operations of the right types leave a stack of screens.
LEMMA StackTypes ==
    ASSUME TypeOK, ProcessOp
    PROVE  screen_stack' \in Seq(Screens) /\ op_queue' \in Seq(Operations)
<1>1. screen_stack \in Seq(Screens) /\ op_queue \in Seq(Operations) /\ op_queue # << >>
  BY DEF TypeOK, ProcessOp, Operations
<1>2. Head(op_queue) \in Operations /\ Tail(op_queue) \in Seq(Operations)
  BY <1>1
<1>3. Head(op_queue).screen \in Screens
  BY <1>2 DEF Operations
<1>4. /\ Append(screen_stack, Head(op_queue).screen) \in Seq(Screens)
      /\ << >> \in Seq(Screens)
      /\ screen_stack # << >> => SubSeq(screen_stack, 1, Len(screen_stack) - 1) \in Seq(Screens)
  BY <1>1, <1>3, ButLast
<1>. QED  BY <1>2, <1>4 DEF ProcessOp

\* What the main loop defers is well-formed.
LEMMA OperationTypes ==
    /\ Pop \in Operations
    /\ \A kind \in {"connecting", "chat"}, a \in Attempts : Push(Screen(kind, a)) \in Operations
BY DEF Pop, Push, Screen, Screens, connect_screen, Operations

\* Nothing the main thread or the connection threads look at is disturbed by steps that
\* leave these alone.
LEMMA OthersKeep ==
    ASSUME IInv, UNCHANGED <<main, uiVars, attempts, connectVars>>,
           \A a \in Attempts : worker'[a] = "none" <=> worker[a] = "none"
    PROVE  OneAttempt' /\ BusyIsShown' /\ Deferred' /\ Held'
<1>. USE DEF IInv, TypeOK, uiVars, connectVars
<1>1. OneAttempt'
  BY DEF OneAttempt
<1>2. Busy' <=> Busy
  BY DEF Busy, Running
<1>3. BusyIsShown' /\ Deferred'
  BY <1>2 DEF BusyIsShown, Deferred, ScreenToCome, ScreenShown, TopIs, top
<1>4. Busy => attempts \in Attempts
  BY DEF Busy, Running, OneAttempt
<1>5. Held'
  BY <1>2, <1>4 DEF Held
<1>. QED  BY <1>1, <1>3, <1>5

\* The server worker of a session.
LEMMA WorkerStep == ASSUME IInv, NEW a \in Attempts, Worker(a) PROVE IInv'
<1>. DEFINE Ends == {"release", "ended", "stopped", "loop", "read", "beat", "send"}
<1>1. /\ UNCHANGED workerFrame /\ worker[a] # "none"
      /\ \E to \in Ends : worker' = [worker EXCEPT ![a] = to]
  BY DEF Worker, WorkerStarts, WorkerThrows, LoopEnds, ShutDown, LoopOn, ReadBlock, ReadNothing,
         NoHeartbeat, SendHeartbeat, GiveUp, SendQueued, ReleaseEnded, WorkerAt
<1>2. OneAttempt' /\ BusyIsShown' /\ Deferred' /\ Held'
  BY <1>1, OthersKeep DEF workerFrame, IInv, TypeOK
<1>3. /\ silence' \in [Attempts -> {"short", "long"}]
      /\ heartbeat_sent' \in [Attempts -> {"none", "short", "long"}]
      /\ waiting_on_server' \in BOOLEAN
      /\ HeartbeatEndsWithSilence'
  <2>1. CASE ReadBlock(a)
    BY <2>1 DEF ReadBlock, IInv, TypeOK, HeartbeatEndsWithSilence
  <2>2. CASE SendHeartbeat(a)
    BY <2>2 DEF SendHeartbeat, IInv, TypeOK, HeartbeatEndsWithSilence
  <2>3. CASE UNCHANGED timers
    BY <2>3 DEF timers, IInv, TypeOK, HeartbeatEndsWithSilence
  <2>. QED  BY <2>1, <2>2, <2>3 DEF Worker, WorkerStarts, WorkerThrows, LoopEnds, ShutDown,
                 LoopOn, ReadNothing, NoHeartbeat, GiveUp, SendQueued, ReleaseEnded
<1>4. link' \in [Attempts -> {"none", "open", "gone", "finished"}]
  BY DEF Worker, WorkerStarts, WorkerThrows, LoopEnds, ShutDown, LoopOn, ReadBlock, ReadNothing,
         NoHeartbeat, SendHeartbeat, GiveUp, SendQueued, ReleaseEnded, IInv, TypeOK
<1>5. ended_signal' \in Nat /\ shutdown_signal' \in Nat
  BY DEF Worker, WorkerStarts, WorkerThrows, LoopEnds, ShutDown, LoopOn, ReadBlock, ReadNothing,
         NoHeartbeat, SendHeartbeat, GiveUp, SendQueued, ReleaseEnded, Released, IInv, TypeOK
<1>6. worker' \in [Attempts -> Serving \cup {"none", "stopped", "ended"}]
  BY <1>1 DEF IInv, TypeOK, Serving
<1>7. TypeOK'
  BY <1>1, <1>3, <1>4, <1>5, <1>6 DEF workerFrame, uiVars, connectVars, IInv, TypeOK
<1>. QED  BY <1>2, <1>3, <1>7 DEF IInv

\* The peers and the clock.
LEMMA WorldStep ==
    ASSUME IInv, NEW a \in Attempts, PeerLeaves(a) \/ PeerStalls(a) \/ TimePasses(a)
    PROVE  IInv'
<1>1. UNCHANGED world
  BY DEF PeerLeaves, PeerStalls, TimePasses
<1>2. OneAttempt' /\ BusyIsShown' /\ Deferred' /\ Held'
  BY <1>1, OthersKeep DEF world
<1>3. /\ silence' \in [Attempts -> {"short", "long"}]
      /\ heartbeat_sent' \in [Attempts -> {"none", "short", "long"}]
      /\ HeartbeatEndsWithSilence'
  <2>. USE DEF IInv, TypeOK, HeartbeatEndsWithSilence
  <2>1. CASE PeerLeaves(a) \/ PeerStalls(a)
    <3>1. UNCHANGED <<silence, heartbeat_sent, waiting_on_server>>
      BY <2>1 DEF PeerLeaves, PeerStalls, world
    <3>. QED  BY <3>1
  <2>2. CASE TimePasses(a)
    <3>1. /\ silence' = [silence EXCEPT ![a] = "long"]
          /\ heartbeat_sent' = [heartbeat_sent EXCEPT ![a] = IF @ = "none" THEN "none" ELSE "long"]
          /\ waiting_on_server' = waiting_on_server
      BY <2>2 DEF TimePasses, world
    <3>. QED  BY <3>1
  <2>. QED  BY <2>1, <2>2
<1>4. link' \in [Attempts -> {"none", "open", "gone", "finished"}] /\ stalled' \subseteq Attempts
  BY DEF PeerLeaves, PeerStalls, TimePasses, netVars, IInv, TypeOK
<1>5. TypeOK'
  BY <1>1, <1>3, <1>4 DEF world, uiVars, connectVars, IInv, TypeOK
<1>. QED  BY <1>2, <1>3, <1>5 DEF IInv

-----------------------------------------------------------------------------
\* The connection thread of an attempt.
LEMMA ConnectionStep == ASSUME IInv, NEW a \in Attempts, ConnectionThread(a) PROVE IInv'
<1>1. /\ UNCHANGED connectFrame /\ main # "exited"
      /\ thread[a] \in Connecting
      /\ \/ /\ UNCHANGED connect_signal
            /\ \E to \in Connecting : thread' = [thread EXCEPT ![a] = to]
         \/ /\ thread[a] = "release" /\ connect_signal' \in Released(connect_signal)
            /\ thread' = [thread EXCEPT ![a] = "ended"]
  BY DEF ConnectionThread, Connect, SendHello, ReceiveAck, ReceiveNak, ConnectFails,
         ReleaseConnect, ThreadAt, Connecting
<1>2. a = attempts /\ connect_signal = 0
  BY <1>1 DEF IInv, OneAttempt
<1>3. \/ UNCHANGED connect_signal /\ thread'[a] \in Connecting
      \/ connect_signal' = 1 /\ thread'[a] = "ended"
  BY <1>1, <1>2 DEF Released, IInv, TypeOK
<1>4. \A b \in Attempts \ {a} : thread'[b] = thread[b]
  BY <1>1 DEF IInv, TypeOK
<1>5. OneAttempt'
  BY <1>1, <1>2, <1>3, <1>4 DEF connectFrame, workerVars, OneAttempt, IInv, Connecting
<1>6. Busy /\ Busy'
  BY <1>1, <1>3 DEF Busy, Running
<1>7. BusyIsShown' /\ Deferred' /\ Held'
  BY <1>1, <1>6 DEF IInv, BusyIsShown, ScreenToCome, ScreenShown, TopIs, top, Deferred, Held,
                    connectFrame, uiVars, workerVars
<1>8. link' \in [Attempts -> {"none", "open", "gone", "finished"}]
  BY DEF ConnectionThread, Connect, SendHello, ReceiveAck, ReceiveNak, ConnectFails,
         ReleaseConnect, IInv, TypeOK
<1>9. thread' \in [Attempts -> Connecting \cup {"none", "ended"}] /\ connect_signal' \in {0, 1}
  BY <1>1, <1>2, <1>3 DEF IInv, TypeOK
<1>10. TypeOK' /\ HeartbeatEndsWithSilence'
  BY <1>1, <1>8, <1>9 DEF connectFrame, uiVars, workerVars, IInv, TypeOK, HeartbeatEndsWithSilence
<1>. QED  BY <1>5, <1>7, <1>10 DEF IInv

-----------------------------------------------------------------------------
(***************************************************************************)
(* The main thread, action by action: what each of its steps does to the   *)
(* stack and to the connection, and that TypeOK is kept.                   *)
(***************************************************************************)

\* Steps that defer nothing and leave the stack and the connection alone.
LEMMA QuietStep ==
    ASSUME IInv, UNCHANGED <<screen_stack, op_queue, sessions, stalled>>,
           main' \in {"begin", "update", "render", "quit", "sleep"},
           main # "exited",
           main' = "update" => op_queue = << >>,
           main' = "render" => main = "update",
           cancelled' \subseteq Attempts, window_closed' \subseteq Attempts,
           ended_signal' \in Nat, shutdown_signal' \in Nat,
           link' \in [Attempts -> {"none", "open", "gone", "finished"}]
    PROVE  IInv'
<1>. USE DEF sessions, connectVars, workerVars, IInv
<1>1. Busy' <=> Busy
  BY DEF Busy, Running
<1>2. OneAttempt' /\ HeartbeatEndsWithSilence'
  BY DEF OneAttempt, HeartbeatEndsWithSilence
<1>3. Held'
  BY <1>1 DEF Held
<1>4. Deferred'
  BY DEF Deferred, TypeOK
<1>5. BusyIsShown'
  <2>1. ScreenToCome => op_queue # << >>
    BY DEF ScreenToCome
  <2>2. ScreenToCome => ScreenToCome'
    BY <2>1 DEF ScreenToCome, TopIs, top
  <2>3. ScreenShown => ScreenShown'
    BY DEF ScreenShown, TopIs, top
  <2>. QED  BY <1>1, <2>2, <2>3 DEF BusyIsShown
<1>6. TypeOK'
  BY DEF TypeOK
<1>. QED  BY <1>2, <1>3, <1>4, <1>5, <1>6

\* A running attempt is the latest one, and exists.
LEMMA BusyAttempt == ASSUME IInv, Busy PROVE attempts \in Attempts
BY DEF IInv, Busy, Running, OneAttempt, TypeOK

\* A frame's operations: the connecting screen of the attempt that runs comes on top.
LEMMA ProcessOpKeeps == ASSUME IInv, ProcessOp PROVE IInv'
<1>1. /\ main = "begin" /\ main' = "begin" /\ op_queue # << >>
      /\ op_queue' = Tail(op_queue)
      /\ UNCHANGED <<cancelled, window_closed, othersVars>>
  BY DEF ProcessOp, MainAt
<1>2. Busy' <=> Busy
  BY <1>1 DEF Busy, Running, othersVars, connectVars
<1>3. OneAttempt' /\ HeartbeatEndsWithSilence' /\ Held'
  BY <1>1, <1>2 DEF IInv, OneAttempt, HeartbeatEndsWithSilence, Held, othersVars, connectVars,
                    workerVars
<1>4. TypeOK'
  BY <1>1, StackTypes DEF IInv, TypeOK, othersVars, connectVars, workerVars, netVars, Operations
<1>5. BusyIsShown'
  <2>1. SUFFICES ASSUME Busy PROVE ScreenShown'
    BY <1>2 DEF BusyIsShown
  <2>2. op_queue = <<Push(Screen("connecting", attempts))>>
    BY <1>1, <2>1 DEF IInv, BusyIsShown, ScreenToCome, ScreenShown
  <2>3. /\ Head(op_queue) = Push(Screen("connecting", attempts))
        /\ op_queue' = << >>
    BY <1>1, <2>2
  <2>4. screen_stack' = Append(screen_stack, Screen("connecting", attempts))
    BY <2>3 DEF ProcessOp, Push
  <2>5. screen_stack \in Seq(Screens) /\ Screen("connecting", attempts) \in Screens
    BY <2>1, BusyAttempt DEF IInv, TypeOK, Screen, Screens
  <2>6. screen_stack' # << >> /\ top' = Screen("connecting", attempts)
    BY <2>4, <2>5, LastAppended DEF top
  <2>. QED  BY <1>1, <2>3, <2>6 DEF ScreenShown, TopIs, Screen, othersVars
<1>. QED  BY <1>1, <1>3, <1>4, <1>5 DEF IInv, Deferred

\* The signal is consumed: the attempt is over, and its connection is dropped, kept until
\* the next one or given to a worker.
LEMMA FinishKeeps ==
    ASSUME IInv, NEW a \in Attempts, FinishCancelled(a) \/ FinishConnected(a) \/ FinishFailed(a)
    PROVE  IInv'
<1>1. /\ main = "update" /\ main' = "render" /\ TopIs("connecting")
      /\ connect_signal > 0 /\ connect_signal' = connect_signal - 1
      /\ UNCHANGED <<screen_stack, cancelled, window_closed, attempts, thread, waiting_on_server,
                     silence, heartbeat_sent, ended_signal, shutdown_signal, stalled>>
  BY DEF FinishCancelled, FinishConnected, FinishFailed, Finish, MainAt
<1>2. /\ attempts \in Attempts /\ connection = attempts
      /\ connect_signal' = 0
      /\ \A b \in Attempts : thread[b] \notin Connecting
  BY <1>1, BusyAttempt DEF Busy, IInv, Held, OneAttempt, TypeOK
<1>3. ~Busy'
  BY <1>1, <1>2 DEF Busy, Running
<1>4. \/ UNCHANGED worker /\ (UNCHANGED connection \/ connection' = Nobody)
      \/ worker' = [worker EXCEPT ![attempts] = "start"] /\ connection' = Nobody
  BY <1>2 DEF FinishCancelled, FinishConnected, FinishFailed, Hold
<1>5. worker' \in [Attempts -> Serving \cup {"none", "stopped", "ended"}]
  BY <1>2, <1>4 DEF IInv, TypeOK, Serving
<1>6. OneAttempt' /\ HeartbeatEndsWithSilence' /\ Held'
  BY <1>1, <1>2, <1>3, <1>4 DEF IInv, TypeOK, OneAttempt, HeartbeatEndsWithSilence, Held
<1>7. BusyIsShown' /\ Deferred'
  BY <1>1, <1>3 DEF BusyIsShown, Deferred, TopIs, top
<1>8. op_queue' \in Seq(Operations)
  <2>1. op_queue \in Seq(Operations)
    BY DEF IInv, TypeOK, Operations
  <2>2. /\ Pop \in Operations
        /\ Push(Screen("chat", connection)) \in Operations
    BY <1>2, OperationTypes
  <2>3. \/ op_queue' = Append(op_queue, Pop)
        \/ op_queue' = op_queue \o <<Pop, Push(Screen("chat", connection))>>
    BY DEF FinishCancelled, FinishConnected, FinishFailed
  <2>4. /\ Append(op_queue, Pop) \in Seq(Operations)
        /\ op_queue \o <<Pop, Push(Screen("chat", connection))>> \in Seq(Operations)
    BY <2>1, <2>2, TwoMore
  <2>. QED  BY <2>3, <2>4
<1>9. link' \in [Attempts -> {"none", "open", "gone", "finished"}]
  BY DEF FinishCancelled, FinishConnected, FinishFailed, Hold, IInv, TypeOK
<1>10. TypeOK'
  BY <1>1, <1>2, <1>4, <1>5, <1>8, <1>9 DEF IInv, TypeOK, Operations
<1>. QED  BY <1>6, <1>7, <1>10 DEF IInv

\* The chat window pops itself: nobody is connecting meanwhile.
LEMMA PopKeeps ==
    ASSUME IInv, NEW a \in Attempts, NoticeEnd(a) \/ CloseWindow(a)
    PROVE  IInv'
<1>1. /\ TopIs("chat") /\ op_queue' = Append(op_queue, Pop)
      /\ main \in {"update", "render"} /\ main' \in {"render", "begin", "quit"}
      /\ UNCHANGED <<screen_stack, cancelled, attempts, connectVars, workerVars, netVars>>
  BY DEF NoticeEnd, CloseWindow, MainAt, LastOfFrame
<1>2. ~Busy
  BY <1>1 DEF IInv, BusyIsShown, ScreenToCome, ScreenShown, TopIs
<1>3. ~Busy'
  BY <1>1, <1>2 DEF Busy, Running, connectVars
<1>4. BusyIsShown' /\ Deferred'
  BY <1>1, <1>3 DEF BusyIsShown, Deferred, TopIs, top
<1>5. OneAttempt' /\ HeartbeatEndsWithSilence' /\ Held'
  BY <1>1, <1>2, <1>3 DEF IInv, OneAttempt, HeartbeatEndsWithSilence, Held, connectVars, workerVars
<1>6. op_queue' \in Seq(Operations)
  <2>1. op_queue \in Seq(Operations)
    BY DEF IInv, TypeOK, Operations
  <2>. QED  BY <1>1, <2>1, OperationTypes
<1>7. /\ window_closed' \subseteq Attempts
      /\ ended_signal' \in Nat /\ shutdown_signal' \in Nat
  <2>1. CASE NoticeEnd(a)
    BY <2>1 DEF NoticeEnd, IInv, TypeOK
  <2>2. CASE CloseWindow(a)
    BY <2>2 DEF CloseWindow, Released, IInv, TypeOK
  <2>. QED  BY <2>1, <2>2
<1>8. TypeOK'
  BY <1>1, <1>6, <1>7 DEF IInv, TypeOK, Operations, connectVars, workerVars, netVars
<1>. QED  BY <1>4, <1>5, <1>8 DEF IInv

\* Connect can be pressed only when no attempt runs.
LEMMA IdleAtConnect ==
    ASSUME IInv, main = "render", TopIs("connect")
    PROVE  ~Busy /\ op_queue = << >>
BY DEF IInv, BusyIsShown, ScreenToCome, ScreenShown, TopIs, Deferred

LEMMA PressKeeps ==
    ASSUME IInv, NEW a \in Attempts, PressConnect(a)
    PROVE  IInv'
<1>1. /\ main = "render" /\ main' \in {"begin", "quit"} /\ TopIs("connect")
      /\ a = attempts + 1 /\ attempts' = a
      /\ connection' = a
      /\ thread' = [thread EXCEPT ![a] = "connect"]
      /\ op_queue' = Append(op_queue, Push(Screen("connecting", a)))
      /\ UNCHANGED <<screen_stack, cancelled, window_closed, connect_signal, workerVars,
                     ended_signal, shutdown_signal, stalled>>
  BY DEF PressConnect, LastOfFrame, Hold
<1>2. ~Busy /\ op_queue = << >>
  BY <1>1, IdleAtConnect
<1>3. op_queue' = <<Push(Screen("connecting", a))>>
  BY <1>1, <1>2
<1>4. connect_signal = 0 /\ \A b \in Attempts : thread[b] \notin Connecting
  BY <1>2 DEF Busy, Running, IInv, TypeOK
<1>5. worker[a] = "none"
  BY <1>1 DEF IInv, OneAttempt, TypeOK
<1>6. OneAttempt'
  BY <1>1, <1>4 DEF OneAttempt, IInv, TypeOK, workerVars, Connecting
<1>7. BusyIsShown' /\ Deferred'
  <2>1. ScreenToCome'
    BY <1>1, <1>3 DEF ScreenToCome, TopIs, top
  <2>. QED  BY <1>1, <2>1 DEF BusyIsShown, Deferred
<1>8. Held' /\ HeartbeatEndsWithSilence'
  BY <1>1, <1>5 DEF Held, HeartbeatEndsWithSilence, IInv, workerVars
<1>9. op_queue' \in Seq(Operations)
  BY <1>3, OperationTypes
<1>10. link' \in [Attempts -> {"none", "open", "gone", "finished"}]
  BY DEF PressConnect, Hold, IInv, TypeOK
<1>11. thread' \in [Attempts -> Connecting \cup {"none", "ended"}]
  BY <1>1 DEF IInv, TypeOK, Connecting
<1>12. attempts' \in 0 .. MaxAttempts /\ connection' \in Attempts
  BY <1>1
<1>13. /\ main' \in {"begin", "quit"}
       /\ UNCHANGED <<screen_stack, cancelled, window_closed, connect_signal, workerVars,
                      ended_signal, shutdown_signal, stalled>>
  BY <1>1
<1>14. TypeOK'
  BY <1>9, <1>10, <1>11, <1>12, <1>13 DEF IInv, TypeOK, Operations, workerVars
<1>. QED  BY <1>6, <1>7, <1>8, <1>14 DEF IInv

\* What drops the connection: a press of Connect that fails, and the end of main().
LEMMA DropKeeps == ASSUME IInv, PressConnectFails \/ ExitMain PROVE IInv'
<1>1. /\ connection' = Nobody
      /\ link' \in [Attempts -> {"none", "open", "gone", "finished"}]
      /\ UNCHANGED <<uiVars, attempts, thread, connect_signal, workerVars, ended_signal,
                     shutdown_signal, stalled>>
  BY DEF PressConnectFails, ExitMain, Hold, uiVars, IInv, TypeOK
<1>2. \/ main = "render" /\ TopIs("connect") /\ main' \in {"begin", "quit"}
      \/ main' = "exited"
  BY DEF PressConnectFails, ExitMain, LastOfFrame, MainAt
<1>3. Busy' => Busy /\ main' = "exited"
  BY <1>1, <1>2, IdleAtConnect DEF Busy, Running
<1>4. BusyIsShown' /\ Deferred'
  BY <1>1, <1>2, <1>3 DEF IInv, BusyIsShown, Deferred, ScreenToCome, ScreenShown, TopIs, top, uiVars
<1>5. OneAttempt' /\ HeartbeatEndsWithSilence' /\ Held'
  BY <1>1, <1>3 DEF IInv, OneAttempt, HeartbeatEndsWithSilence, Held, workerVars
<1>6. TypeOK'
  BY <1>1, <1>2 DEF IInv, TypeOK, uiVars, workerVars
<1>. QED  BY <1>4, <1>5, <1>6 DEF IInv

LEMMA MainStep == ASSUME IInv, MainThread PROVE IInv'
<1>. USE DEF MainAt, LastOfFrame, uiVars, othersVars, netVars
<1>1. CASE StartFrame \/ UpdateNothing \/ UpdateConnecting \/ DrawOnly
  BY <1>1, QuietStep DEF StartFrame, UpdateNothing, UpdateConnecting, DrawOnly, sessions,
                         IInv, TypeOK
<1>2. ASSUME NEW a \in Attempts, UpdateChat(a) \/ PressCancel(a)
      PROVE  IInv'
  BY <1>2, QuietStep DEF UpdateChat, PressCancel, sessions, IInv, TypeOK
<1>3. CASE QuitLoop
  BY <1>3, QuietStep DEF QuitLoop, Released, sessions, IInv, TypeOK
<1>. QED  BY <1>1, <1>2, <1>3, ProcessOpKeeps, FinishKeeps, PopKeeps, PressKeeps, DropKeeps
             DEF MainThread

LEMMA Initially == ASSUME Init PROVE IInv
<1>1. screen_stack \in Seq(Screens)
  BY DEF Init
<1>2. op_queue \in Seq([op : {"pop", "push"}, screen : Screens])
  BY DEF Init, Push, Screens
<1>3. TypeOK
  <2>1. /\ thread \in [Attempts -> Connecting \cup {"none", "ended"}]
        /\ worker \in [Attempts -> Serving \cup {"none", "stopped", "ended"}]
        /\ silence \in [Attempts -> {"short", "long"}]
        /\ heartbeat_sent \in [Attempts -> {"none", "short", "long"}]
        /\ link \in [Attempts -> {"none", "open", "gone", "finished"}]
    BY DEF Init
  <2>2. /\ main \in {"begin", "update", "render", "quit", "sleep", "exited"}
        /\ connection \in Attempts \cup {Nobody}
        /\ connect_signal \in {0, 1} /\ ended_signal \in Nat /\ shutdown_signal \in Nat
    BY DEF Init
  <2>3. attempts \in 0 .. MaxAttempts
    BY DEF Init
  <2>4. waiting_on_server \in BOOLEAN
    BY DEF Init
  <2>5. cancelled \subseteq Attempts /\ window_closed \subseteq Attempts /\ stalled \subseteq Attempts
    BY DEF Init
  <2>. QED  BY <1>1, <1>2, <2>1, <2>2, <2>3, <2>4, <2>5 DEF TypeOK
<1>4. ~Busy
  BY DEF Init, Busy, Running, Connecting
<1>. QED  BY <1>3, <1>4 DEF Init, IInv, OneAttempt, BusyIsShown, Deferred, Held,
                            HeartbeatEndsWithSilence, Connecting

LEMMA Stutters == ASSUME IInv, UNCHANGED vars PROVE IInv'
<1>1. main = "render" => main # "exited" /\ main' = "render"
  BY DEF vars
<1>2. (Busy' <=> Busy) /\ OneAttempt' /\ Held'
  BY DEF vars, connectVars, workerVars, IInv, Busy, Running, OneAttempt, Held
<1>3. BusyIsShown' /\ Deferred'
  BY <1>2 DEF vars, uiVars, IInv, BusyIsShown, ScreenToCome, ScreenShown, TopIs, top, Deferred
<1>4. TypeOK' /\ HeartbeatEndsWithSilence'
  BY DEF vars, uiVars, connectVars, workerVars, netVars, IInv, TypeOK, HeartbeatEndsWithSilence
<1>. QED  BY <1>2, <1>3, <1>4 DEF IInv

LEMMA Inductive == Spec => []IInv
<1>1. IInv /\ [Next]_vars => IInv'
  BY MainStep, ConnectionStep, WorkerStep, WorldStep, Stutters DEF Next, Exited
<1>. QED  BY Initially, <1>1, PTL DEF Spec

-----------------------------------------------------------------------------
\* The client's globals, screens and threads are well-formed, and connect_signal is never
\* released above its maximum, which is undefined.
THEOREM TypeCorrect == Spec => []TypeOK
<1>1. IInv => TypeOK
  BY DEF IInv
<1>. QED  BY Inductive, <1>1, PTL

\* A connection is used by one thread at a time, from its making in connectscreen-worker.cpp
\* to the worker it is moved to.
THEOREM ConnectionsHaveOneOwner == Spec => []OneOwner
<1>1. IInv => OneOwner
  <2>1. SUFFICES ASSUME IInv, main # "exited", NEW a \in Attempts
                 PROVE  /\ thread[a] \in Connecting => connection = a /\ worker[a] = "none"
                        /\ worker[a] # "none" => connection # a
    BY DEF OneOwner
  <2>2. thread[a] \in Connecting => Busy /\ a = attempts
    BY <2>1 DEF IInv, OneAttempt, Busy, Running
  <2>. QED  BY <2>1, <2>2 DEF IInv, Held
<1>. QED  BY Inductive, <1>1, PTL

\* While connection_thread works through the global pointer, no press of a button drops or
\* replaces the connection it points at.
THEOREM PointerIsHeld == Spec => HeldWhileConnecting
<1>1. ASSUME IInv, [Next]_vars, main' # "exited", NEW a \in Attempts, thread[a] \in Connecting
      PROVE  connection' = connection
  <2>1. Busy /\ connect_signal = 0
    BY <1>1 DEF IInv, OneAttempt, Busy, Running
  <2>2. ~PressConnectFails /\ \A b \in Attempts : ~PressConnect(b)
    BY <1>1, <2>1, IdleAtConnect DEF PressConnectFails, PressConnect, LastOfFrame
  <2>3. \A b \in Attempts : ~FinishCancelled(b) /\ ~FinishConnected(b) /\ ~FinishFailed(b)
    BY <2>1 DEF FinishCancelled, FinishConnected, FinishFailed, Finish
  <2>4. ~ExitMain
    BY <1>1 DEF ExitMain, MainAt
  <2>5. ASSUME MainThread PROVE UNCHANGED connection
    BY <2>2, <2>3, <2>4, <2>5 DEF MainThread, ProcessOp, StartFrame, UpdateNothing,
       UpdateConnecting, UpdateChat, NoticeEnd, PressCancel, CloseWindow, DrawOnly, QuitLoop,
       othersVars, connectVars
  <2>6. ASSUME NEW b \in Attempts, ConnectionThread(b) \/ Worker(b)
        PROVE  UNCHANGED connection
    BY <2>6 DEF ConnectionThread, Connect, SendHello, ReceiveAck, ReceiveNak, ConnectFails,
       ReleaseConnect, ThreadAt, connectFrame, Worker, WorkerStarts, WorkerThrows, LoopEnds,
       ShutDown, LoopOn, ReadBlock, ReadNothing, NoHeartbeat, SendHeartbeat, GiveUp, SendQueued,
       ReleaseEnded, WorkerAt, workerFrame, connectVars
  <2>7. ASSUME NEW b \in Attempts, PeerLeaves(b) \/ PeerStalls(b) \/ TimePasses(b)
        PROVE  UNCHANGED connection
    BY <2>7 DEF PeerLeaves, PeerStalls, TimePasses, world, connectVars
  <2>8. CASE UNCHANGED vars
    BY <2>8 DEF vars, connectVars
  <2>. QED  BY <1>1, <2>5, <2>6, <2>7, <2>8 DEF Next, Exited
<1>2. IInv /\ [Next]_vars =>
          [(main' # "exited" /\ \E a \in Attempts : thread[a] \in Connecting)
              => connection' = connection]_vars
  BY <1>1
<1>. QED  BY Inductive, <1>2, PTL DEF Spec, HeldWhileConnecting

\* The connecting screen that takes connect_signal is that of the attempt that released it.
THEOREM SignalsFindTheirScreens == Spec => []SignalFindsItsScreen
<1>1. IInv => SignalFindsItsScreen
  <2>1. SUFFICES ASSUME IInv, connect_signal > 0, TopIs("connecting")
                 PROVE  thread[top.of] = "ended" /\ worker[top.of] = "none"
    BY DEF SignalFindsItsScreen
  <2>2. ScreenShown
    BY <2>1 DEF IInv, BusyIsShown, Busy, ScreenToCome, TopIs
  <2>. QED  BY <2>1, <2>2 DEF ScreenShown, IInv, OneAttempt, Held, Busy
<1>. QED  BY Inductive, <1>1, PTL

\* The worker's give-up needs two periods of silence in a row: an answer takes back the
\* heartbeat it answers, however late it comes.
THEOREM HeartbeatsFollowSilence == Spec => []HeartbeatEndsWithSilence
<1>1. IInv => HeartbeatEndsWithSilence
  BY DEF IInv
<1>. QED  BY Inductive, <1>1, PTL
=============================================================================
