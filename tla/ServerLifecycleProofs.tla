------------------------ MODULE ServerLifecycleProofs -----------------------
(***************************************************************************)
(* Proofs about ServerLifecycle for any number of connections and pool     *)
(* threads, wherever and on whichever thread SIGINT is handled, and        *)
(* whatever fails.                                                         *)
(***************************************************************************)
EXTENDS ServerLifecycle, TLAPS

-----------------------------------------------------------------------------
(***************************************************************************)
(* The inductive invariant.  The two threads pass each other's semaphores  *)
(* at most once, in one order, so that each semaphore's value follows from *)
(* where they are.                                                         *)
(***************************************************************************)
Starting  == {"wait_ready", "begin_accept", "release_accept"}
Accepting == {"lock_cleanup", "cleaning", "lock_push", "pushing", "dispatch"}
Leaving   == {"join", "drain", "unwind", "exited", "terminated"}

SemaphoresFollow ==
    /\ main # "wait_ready" => ready = 0 /\ server # "rooms"
    /\ server = "rooms" => ready = 0
    /\ main \in Starting => accept = 0 /\ server \in {"rooms", "wait_accept"}
    /\ server \notin {"rooms", "wait_accept"} => accept = 0
    /\ server # "stopped" => stop = 0
    /\ server = "stopped" => stop = 1 \/ main \in Leaving

PendingIsAccepted == main \in Accepting => pending \in Connections

EndsInOrder ==
    /\ main \in {"drain", "exited"} => server = "stopped"
    /\ main = "exited" => WithTask({"queued", "running", "stuck"}) = {}

IInv == TypeOK /\ SemaphoresFollow /\ PendingIsAccepted /\ EndsInOrder

\* A step of the main thread keeps it.
LEMMA MainStep == ASSUME IInv, Main PROVE IInv'
<1>. USE DEF IInv, TypeOK, SemaphoresFollow, PendingIsAccepted, EndsInOrder, Starting,
             Accepting, Leaving, MainPoints, WithTask, MainAt, GoTo, signals, handler, pool
<1>1. CASE WaitReady
  BY <1>1 DEF WaitReady
<1>2. CASE BeginAccept
  BY <1>2 DEF BeginAccept, begin_accept
<1>3. CASE ReleaseAccept
  BY <1>3 DEF ReleaseAccept
<1>4. CASE CreatePool
  BY <1>4, BoundsAssumption DEF CreatePool
<1>5. CASE TestLoop
  BY <1>5 DEF TestLoop
<1>6. CASE Await
  <2>1. main = "await" /\ main' \in {"accepting", "unwind"} /\ port' \in BOOLEAN
    BY <1>6 DEF Await, begin_accept
  <2>2. UNCHANGED <<server, signals, mutex, handler, pool, open, active, pending>>
    BY <1>6 DEF Await
  <2>. QED  BY <2>1, <2>2
<1>7. CASE AcceptNothing
  BY <1>7 DEF AcceptNothing
<1>8. ASSUME NEW c \in Connections, AcceptConnection(c)
      PROVE  IInv'
  BY <1>8 DEF AcceptConnection
<1>9. CASE LockCleanup
  BY <1>9 DEF LockCleanup, Lock
<1>10. CASE Cleanup
  BY <1>10 DEF Cleanup
<1>11. CASE LockPush
  BY <1>11 DEF LockPush, Lock
<1>12. CASE Push
  BY <1>12 DEF Push
<1>13. CASE Detach
  BY <1>13 DEF Detach
<1>14. CASE Reject
  BY <1>14 DEF Reject
<1>15. CASE Join
  BY <1>15 DEF Join
<1>16. CASE LeaveMain
  BY <1>16 DEF LeaveMain
<1>. QED  BY <1>1, <1>2, <1>3, <1>4, <1>5, <1>6, <1>7, <1>8, <1>9, <1>10, <1>11, <1>12,
             <1>13, <1>14, <1>15, <1>16 DEF Main

\* So does a step of the server worker.
LEMMA ServerStep == ASSUME IInv, Server PROVE IInv'
<1>. USE DEF IInv, TypeOK, SemaphoresFollow, PendingIsAccepted, EndsInOrder, Starting,
             Accepting, Leaving, WithTask, ServerAt, mainSide, signals, handler, pool
<1>1. CASE PrepareRooms
  BY <1>1 DEF PrepareRooms
<1>2. CASE WaitAccept
  BY <1>2 DEF WaitAccept
<1>3. CASE TestPort
  BY <1>3 DEF TestPort
<1>4. CASE LockCopy
  BY <1>4 DEF LockCopy
<1>5. CASE CopyActive
  BY <1>5 DEF CopyActive
<1>6. CASE Work
  BY <1>6 DEF Work
<1>7. CASE Release
  BY <1>7 DEF Release
<1>. QED  BY <1>1, <1>2, <1>3, <1>4, <1>5, <1>6, <1>7 DEF Server

\* So do the SIGINT handler, the pool's threads, the clients and the end of the process.
LEMMA OtherStep ==
    ASSUME IInv,
           \/ Handler \/ Pool \/ UNCHANGED vars
           \/ \E c \in Connections : TaskGetsStuck(c) \/ TaskEnds(c) \/ PeerLeaves(c)
           \/ \E t \in InterruptThreads : Interrupt(t)
    PROVE  IInv'
<1>. USE DEF IInv, TypeOK, SemaphoresFollow, PendingIsAccepted, EndsInOrder, Starting,
             Accepting, Leaving, WithTask, signals, handler, pool, poolFrame
<1>1. CASE Handler
  <2>1. CASE HandlerLocks
    BY <2>1 DEF HandlerLocks
  <2>2. CASE HandlerCloses
    BY <2>2 DEF HandlerCloses
  <2>. QED  BY <1>1, <2>1, <2>2 DEF Handler
<1>2. CASE ThreadStarts
  <2>1. starting' \in 0 .. MaxClients
    BY <1>2, BoundsAssumption DEF ThreadStarts
  <2>. QED  BY <1>2, <2>1 DEF ThreadStarts
<1>3. ASSUME NEW c \in Connections, TaskStarts(c)
      PROVE  IInv'
  BY <1>3 DEF TaskStarts, Ended
<1>4. ASSUME NEW c \in Connections, TaskGetsStuck(c) \/ TaskEnds(c)
      PROVE  IInv'
  BY <1>4 DEF TaskGetsStuck, TaskEnds, Ended
<1>5. ASSUME NEW c \in Connections, PeerLeaves(c)
      PROVE  IInv'
  BY <1>5 DEF PeerLeaves
<1>6. ASSUME NEW t \in InterruptThreads, Interrupt(t)
      PROVE  IInv'
  BY <1>6 DEF Interrupt
<1>7. CASE UNCHANGED vars
  BY <1>7 DEF vars
<1>. QED  BY <1>1, <1>2, <1>3, <1>4, <1>5, <1>6, <1>7 DEF Pool

\* The inductive invariant holds always.
THEOREM Inductive == Spec => []IInv
<1>1. Init => IInv
  <2>. SUFFICES ASSUME Init PROVE IInv
    OBVIOUS
  <2>1. starting \in 0 .. MaxClients
    BY BoundsAssumption DEF Init
  <2>2. TypeOK
    BY <2>1 DEF Init, TypeOK, MainPoints
  <2>. QED
    BY <2>2 DEF Init, IInv, SemaphoresFollow, PendingIsAccepted, EndsInOrder, Starting,
                Accepting, Leaving
<1>2. IInv /\ [Next]_vars => IInv'
  BY MainStep, ServerStep, OtherStep DEF Next, Stay
<1>. QED  BY <1>1, <1>2, PTL DEF Spec

-----------------------------------------------------------------------------
(***************************************************************************)
(* What it implies.                                                        *)
(***************************************************************************)

\* No semaphore is released beyond its maximum of one: the behaviour of a
\* std::binary_semaphore would be undefined.
THEOREM TypeCorrect == Spec => []TypeOK
<1>1. IInv => TypeOK
  BY DEF IInv
<1>. QED  BY <1>1, Inductive, PTL

\* The port exists before the server worker's loop starts, and the initial rooms before
\* the port.
THEOREM StartsInOrder == Spec => []StartupOrder
<1>1. IInv => StartupOrder
  BY DEF IInv, SemaphoresFollow, Starting, StartupOrder
<1>. QED  BY <1>1, Inductive, PTL

\* However the server worker ends, the main thread learns of it.
THEOREM StopReachesMain == Spec => []StopIsNotLost
<1>1. IInv => StopIsNotLost
  BY DEF IInv, SemaphoresFollow, Leaving, StopIsNotLost
<1>. QED  BY <1>1, Inductive, PTL

\* Returning from main leaves no thread behind.
THEOREM ExitsClean == Spec => []CleanExit
<1>1. IInv => CleanExit
  BY DEF IInv, EndsInOrder, CleanExit
<1>. QED  BY <1>1, Inductive, PTL
=============================================================================
