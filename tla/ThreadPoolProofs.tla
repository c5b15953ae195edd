-------------------------- MODULE ThreadPoolProofs --------------------------
(***************************************************************************)
(* Proofs about ThreadPool for any number of threads and tasks.            *)
(***************************************************************************)
EXTENDS ThreadPool, FiniteSetTheorems, TLAPS

-----------------------------------------------------------------------------
(***************************************************************************)
(* The inductive invariant.  That tasks_running does not go below zero     *)
(* needs RunningIsCounted: the thread that decrements it is counted.       *)
(***************************************************************************)
Closed == owner \in {"destroy", "notify_all", "join", "gone"}

\* Nothing runs before the threads are counted; what is taken was queued.
Taken ==
    /\ owner = "construct" => \A t \in Threads : worker[t] = "none"
    /\ \A t \in Threads : worker[t] = "task" => task[t] # NoTask
    /\ submitted <= MaxTasks

\* What wait() saw stays true: a thread without a task cannot get one any more.
Drained == Closed => tasks = << >> /\ Counted = {}

IInv == TypeOK /\ RunningIsCounted /\ Taken /\ Drained

USE ThreadsAssumption DEF ThreadsAssumption

LEMMA CountedIsFinite == IsFiniteSet(Counted)
BY FS_Subset, FS_EmptySet DEF Counted

\* A thread that is counted accounts for one.
LEMMA OneFewer ==
    ASSUME RunningIsCounted, NEW t \in Counted
    PROVE  /\ tasks_running - 1 \in Nat
           /\ Cardinality(Counted \ {t}) = tasks_running - 1
<1>1. /\ IsFiniteSet(Counted \ {t})
      /\ Cardinality(Counted \ {t}) = Cardinality(Counted) - 1
  BY CountedIsFinite, FS_RemoveElement
<1>2. Cardinality(Counted \ {t}) \in Nat
  BY <1>1, FS_CardinalityType
<1>. QED  BY <1>1, <1>2 DEF RunningIsCounted

\* One that is not adds one.
LEMMA OneMore ==
    ASSUME RunningIsCounted, NEW t, t \notin Counted
    PROVE  Cardinality(Counted \cup {t}) = tasks_running + 1
BY CountedIsFinite, FS_AddElement DEF RunningIsCounted

\* AllDone is the end of all tasks.
LEMMA NoneCounted ==
    ASSUME RunningIsCounted, tasks_running = 0
    PROVE  Counted = {}
BY CountedIsFinite, FS_EmptySet DEF RunningIsCounted

\* The owner's steps keep it.
LEMMA OwnerStep == ASSUME IInv, Owner PROVE IInv'
<1>. USE DEF IInv, Taken, Drained, Closed
<1>1. CASE CreateThreads
  <2>1. Counted' = Threads
    BY <1>1 DEF CreateThreads, Counted
  <2>2. Cardinality(Threads) \in Nat
    BY FS_CardinalityType
  <2>. QED  BY <1>1, <2>1, <2>2 DEF CreateThreads, TypeOK, RunningIsCounted, OwnerStates
<1>2. ASSUME NEW t \in Threads, StartThread(t) PROVE IInv'
  <2>1. owner = "start" /\ owner' \in {"start", "idle"} /\ worker[t] = "none"
    BY <1>2 DEF StartThread
  <2>2. worker' = [worker EXCEPT ![t] = "new"]
    BY <1>2 DEF StartThread
  <2>3. Counted' = Counted
    BY <2>1, <2>2 DEF Counted, TypeOK
  <2>4. UNCHANGED <<tasks, tasks_running, waiting, workers_running, task, submitted>>
    BY <1>2 DEF StartThread
  <2>. QED  BY <2>1, <2>2, <2>3, <2>4 DEF TypeOK, RunningIsCounted, OwnerStates, WorkerStates
<1>3. CASE DetachTask
  <2>1. Counted' = Counted
    BY <1>3 DEF DetachTask, Counted
  <2>2. tasks' \in Seq(Nat \ {NoTask}) /\ submitted' \in Nat /\ submitted' <= MaxTasks
    BY <1>3 DEF DetachTask, TypeOK, NoTask
  <2>. QED  BY <1>3, <2>1, <2>2 DEF DetachTask, TypeOK, RunningIsCounted, OwnerStates
<1>4. CASE NotifyOne
  <2>1. /\ owner = "notify_one" /\ owner' = "idle"
        /\ UNCHANGED <<tasks, tasks_running, waiting, workers_running, task, submitted>>
    BY <1>4 DEF NotifyOne
  <2>2. \/ UNCHANGED worker
        \/ \E t \in Asleep : worker' = [worker EXCEPT ![t] = "woken"]
    BY <1>4 DEF NotifyOne
  <2>3. Counted' = Counted
    BY <2>1, <2>2 DEF Counted, Asleep, TypeOK
  <2>. QED  BY <2>1, <2>2, <2>3 DEF TypeOK, RunningIsCounted, OwnerStates, WorkerStates, Asleep
<1>5. CASE Wait \/ WaitWoken
  <2>1. /\ owner' \in {"destroy", "asleep"} /\ owner \in {"idle", "woken"}
        /\ owner' = "destroy" => AllDone
        /\ waiting' \in BOOLEAN
        /\ UNCHANGED <<tasks, tasks_running, workers_running, worker, task, submitted>>
    BY <1>5 DEF Wait, WaitWoken, AllDone
  <2>2. Counted' = Counted
    BY <2>1 DEF Counted
  <2>3. owner' = "destroy" => tasks' = << >> /\ Counted' = {}
    BY <2>1, <2>2, NoneCounted DEF AllDone
  <2>. QED  BY <2>1, <2>2, <2>3 DEF TypeOK, RunningIsCounted, OwnerStates
<1>6. CASE DestroyThreads
  <2>1. Counted' = Counted
    BY <1>6 DEF DestroyThreads, Counted
  <2>. QED  BY <1>6, <2>1 DEF DestroyThreads, TypeOK, RunningIsCounted, OwnerStates
<1>7. CASE NotifyAll
  <2>1. Counted' = Counted
    BY <1>7 DEF NotifyAll, Counted, Asleep, TypeOK
  <2>. QED  BY <1>7, <2>1 DEF NotifyAll, TypeOK, RunningIsCounted, OwnerStates, WorkerStates, Asleep
<1>8. CASE Join
  <2>1. Counted' = Counted
    BY <1>8 DEF Join, Counted
  <2>. QED  BY <1>8, <2>1 DEF Join, TypeOK, RunningIsCounted, OwnerStates
<1>. QED  BY <1>1, <1>2, <1>3, <1>4, <1>5, <1>6, <1>7, <1>8 DEF Owner

\* So do a thread's, and spurious wake-ups.
LEMMA WorkerStep == ASSUME IInv, NEW t \in Threads, Worker(t) PROVE IInv'
<1>. USE DEF IInv, Taken, Drained, Closed
<1>1. CASE Release(t)
  <2>1. /\ worker[t] \in {"new", "returned"}
        /\ worker' = [worker EXCEPT ![t] = "read waiting"]
        /\ tasks_running' = tasks_running - 1
        /\ UNCHANGED <<tasks, waiting, workers_running, owner, task, submitted>>
    BY <1>1 DEF Release
  <2>2. t \in Counted /\ Counted' = Counted \ {t}
    BY <2>1 DEF Counted, TypeOK
  <2>3. tasks_running - 1 \in Nat /\ Cardinality(Counted \ {t}) = tasks_running - 1
    BY <2>2, OneFewer
  <2>4. tasks_running' \in Nat
    BY <2>1, <2>3
  <2>5. RunningIsCounted'
    BY <2>1, <2>2, <2>3, Zenon DEF RunningIsCounted
  <2>. QED  BY <2>1, <2>2, <2>4, <2>5 DEF TypeOK, WorkerStates
<1>2. CASE ReadWaiting(t) \/ ReadRunning(t) \/ ReadTasks(t)
  <2>1. \E next \in {"read running", "read tasks", "notify", "lock"} :
            worker' = [worker EXCEPT ![t] = next]
    BY <1>2 DEF ReadWaiting, ReadRunning, ReadTasks, Reads
  <2>2. /\ worker[t] \in {"read waiting", "read running", "read tasks"}
        /\ UNCHANGED <<tasks, tasks_running, waiting, workers_running, owner, task, submitted>>
    BY <1>2 DEF ReadWaiting, ReadRunning, ReadTasks, Reads
  <2>3. Counted' = Counted
    BY <2>1, <2>2 DEF Counted, TypeOK
  <2>. QED  BY <2>1, <2>2, <2>3 DEF TypeOK, RunningIsCounted, WorkerStates
<1>3. CASE NotifyDone(t)
  <2>1. Counted' = Counted
    BY <1>3 DEF NotifyDone, Counted, TypeOK
  <2>. QED  BY <1>3, <2>1 DEF NotifyDone, TypeOK, RunningIsCounted, WorkerStates, OwnerStates
<1>4. CASE Sleep(t) \/ Exit(t)
  <2>1. /\ worker[t] \in {"lock", "woken"}
        /\ \E next \in {"asleep", "exited"} : worker' = [worker EXCEPT ![t] = next]
        /\ UNCHANGED <<tasks, tasks_running, waiting, workers_running, owner, task, submitted>>
    BY <1>4 DEF Sleep, Exit
  <2>2. Counted' = Counted
    BY <2>1 DEF Counted, TypeOK
  <2>. QED  BY <2>1, <2>2 DEF TypeOK, RunningIsCounted, WorkerStates
<1>5. CASE TakeTask(t)
  <2>1. /\ worker[t] \in {"lock", "woken"} /\ tasks # << >>
        /\ worker' = [worker EXCEPT ![t] = "task"]
        /\ task' = [task EXCEPT ![t] = Head(tasks)]
        /\ tasks' = Tail(tasks)
        /\ tasks_running' = tasks_running + 1
        /\ UNCHANGED <<waiting, workers_running, owner, submitted>>
    BY <1>5 DEF TakeTask
  <2>2. t \notin Counted /\ owner # "construct" /\ ~Closed
    BY <2>1 DEF Counted, TypeOK
  <2>3. Counted' = Counted \cup {t}
    BY <2>1, <2>2 DEF Counted, TypeOK
  <2>4. tasks_running' \in Nat /\ tasks_running' = Cardinality(Counted')
    BY <2>1, <2>2, <2>3, OneMore DEF TypeOK
  <2>5. Head(tasks) \in Nat \ {NoTask} /\ Tail(tasks) \in Seq(Nat \ {NoTask})
    BY <2>1 DEF TypeOK
  <2>. QED  BY <2>1, <2>2, <2>4, <2>5 DEF TypeOK, RunningIsCounted, WorkerStates
<1>6. CASE TaskReturns(t)
  <2>1. Counted' = Counted
    BY <1>6 DEF TaskReturns, Counted, TypeOK
  <2>. QED  BY <1>6, <2>1 DEF TaskReturns, TypeOK, RunningIsCounted, WorkerStates
<1>. QED  BY <1>1, <1>2, <1>3, <1>4, <1>5, <1>6 DEF Worker, Loop

LEMMA SpuriousStep == ASSUME IInv, Spurious PROVE IInv'
<1>. USE DEF IInv, Taken, Drained, Closed
<1>1. /\ UNCHANGED <<tasks, tasks_running, waiting, workers_running, task, submitted>>
      /\ \/ UNCHANGED worker
         \/ \E t \in Asleep : worker' = [worker EXCEPT ![t] = "woken"]
      /\ UNCHANGED owner \/ (owner = "asleep" /\ owner' = "woken")
  BY DEF Spurious
<1>2. Counted' = Counted
  BY <1>1 DEF Counted, Asleep, TypeOK
<1>. QED  BY <1>1, <1>2 DEF TypeOK, RunningIsCounted, OwnerStates, WorkerStates, Asleep

LEMMA Initially == ASSUME Init PROVE IInv
<1>1. Counted = {}
  BY DEF Init, Counted
<1>2. RunningIsCounted
  BY <1>1, FS_EmptySet DEF Init, RunningIsCounted
<1>3. TypeOK
  <2>1. tasks \in Seq(Nat \ {NoTask}) /\ tasks_running \in Nat /\ submitted \in Nat
    BY DEF Init
  <2>2. worker \in [Threads -> WorkerStates] /\ task \in [Threads -> Nat]
    BY DEF Init, WorkerStates, NoTask
  <2>. QED  BY <2>1, <2>2 DEF Init, TypeOK, OwnerStates
<1>4. Taken /\ Drained
  BY DEF Init, Taken, Drained, Closed
<1>. QED  BY <1>2, <1>3, <1>4 DEF IInv

LEMMA Stutters == ASSUME IInv, UNCHANGED vars PROVE IInv'
BY DEF IInv, TypeOK, RunningIsCounted, Taken, Drained, Closed, Counted, vars

LEMMA Inductive == Spec => []IInv
<1>1. IInv /\ [Next]_vars => IInv'
  BY OwnerStep, WorkerStep, SpuriousStep, Stutters DEF Next, Destroyed
<1>. QED  BY Initially, <1>1, PTL DEF Spec

-----------------------------------------------------------------------------
\* The queue and the counters of BS_thread_pool.hpp are well-formed, and tasks_running,
\* an unsigned number there, is never decremented from zero.
THEOREM TypeCorrect == Spec => []TypeOK
<1>1. IInv => TypeOK
  BY DEF IInv
<1>. QED  BY Inductive, <1>1, PTL

\* get_tasks_running(), with which main.cpp admits connections, is at any moment the number
\* of threads that cannot take a task.
THEOREM CountsBusyThreads == Spec => []RunningIsCounted
<1>1. IInv => RunningIsCounted
  BY DEF IInv
<1>. QED  BY Inductive, <1>1, PTL

-----------------------------------------------------------------------------
(***************************************************************************)
(* Every step of the pool is one of TaskPool's or none.                    *)
(***************************************************************************)
poolVars == <<tasks, doing, Closed>>

\* The actions of TaskPool under the refinement.
LEMMA StepRefines ==
    ASSUME IInv, IInv', Next
    PROVE  Pool!Next \/ UNCHANGED poolVars
<1>. USE DEF IInv, TypeOK, poolVars, Closed, doing
<1>1. CASE DetachTask
  <2>1. submitted' \in 1 .. MaxTasks
    BY <1>1 DEF DetachTask, Taken
  <2>2. Pool!Queue(submitted')
    BY <1>1 DEF DetachTask, Pool!Queue
  <2>. QED  BY <2>1, <2>2 DEF Pool!Next
<1>2. ASSUME NEW t \in Threads, TakeTask(t) PROVE Pool!Next
  <2>1. Pool!Start(t)
    BY <1>2 DEF TakeTask, Pool!Start, WorkerStates
  <2>. QED  BY <2>1 DEF Pool!Next
<1>3. ASSUME NEW t \in Threads, TaskReturns(t) PROVE Pool!Next
  <2>1. Pool!Finish(t)
    BY <1>3 DEF TaskReturns, Pool!Finish, Taken, WorkerStates
  <2>. QED  BY <2>1 DEF Pool!Next
<1>4. CASE Wait \/ WaitWoken
  <2>1. UNCHANGED <<tasks, worker, task>> /\ ~Closed
    BY <1>4 DEF Wait, WaitWoken
  <2>2. CASE owner' = "destroy"
    <3>1. Closed' /\ Drained'
      BY <2>2
    <3>2. tasks = << >> /\ \A t \in Threads : worker[t] # "task"
      BY <2>1, <2>2, <3>1 DEF Drained, Counted
    <3>. QED  BY <2>1, <2>2, <3>2 DEF Pool!Next, Pool!Close
  <2>3. CASE owner' # "destroy"
    BY <1>4, <2>1, <2>3 DEF Wait, WaitWoken
  <2>. QED  BY <2>2, <2>3
<1>5. CASE CreateThreads \/ DestroyThreads \/ Join \/ Destroyed
  BY <1>5 DEF CreateThreads, DestroyThreads, Join, Destroyed, vars
<1>6. CASE NotifyOne \/ NotifyAll \/ Spurious
  BY <1>6 DEF NotifyOne, NotifyAll, Spurious, Asleep
<1>7. ASSUME NEW t \in Threads,
             \/ StartThread(t) \/ Release(t) \/ ReadWaiting(t) \/ ReadRunning(t)
             \/ ReadTasks(t) \/ NotifyDone(t) \/ Sleep(t) \/ Exit(t)
      PROVE  UNCHANGED poolVars
  <2>1. /\ UNCHANGED <<tasks, task>>
        /\ \/ UNCHANGED owner
           \/ owner = "start" /\ owner' = "idle"
           \/ owner = "asleep" /\ owner' = "woken"
    BY <1>7 DEF StartThread, Release, ReadWaiting, ReadRunning, ReadTasks, Reads, NotifyDone,
                Sleep, Exit
  <2>2. /\ \E next \in WorkerStates \ {"task"} : worker' = [worker EXCEPT ![t] = next]
        /\ worker[t] # "task"
    BY <1>7 DEF StartThread, Release, ReadWaiting, ReadRunning, ReadTasks, Reads, NotifyDone,
                Sleep, Exit, WorkerStates
  <2>. QED  BY <2>1, <2>2
<1>. QED  BY <1>1, <1>2, <1>3, <1>4, <1>5, <1>6, <1>7 DEF Next, Owner, Worker, Loop

\* The vendored pool does what the server expects of it: tasks start in the order in which
\* they were queued, once each, on a thread that has none, and the destructor ends the
\* threads only when every task queued has returned.
THEOREM PoolImplementsTaskPool == Spec => ImplementsTaskPool
<1>1. Init => Pool!Init
  BY DEF Init, Pool!Init, doing
<1>2. IInv /\ IInv' /\ [Next]_vars => [Pool!Next]_poolVars
  <2>1. UNCHANGED vars => UNCHANGED poolVars
    BY DEF vars, poolVars, doing, Closed
  <2>. QED  BY <2>1, StepRefines
<1>. QED  BY Inductive, <1>1, <1>2, PTL DEF Spec, ImplementsTaskPool, Pool!Spec, poolVars, Closed
=============================================================================
