----------------------------- MODULE ThreadPool -----------------------------
(***************************************************************************)
(* The vendored BS::thread_pool, in the build the server makes (no pause,  *)
(* no priorities), as the server's main thread uses it: constructed once,  *)
(* given one task per accepted connection, and destroyed, which waits for  *)
(* all tasks.                                                              *)
(*                                                                         *)
(* Whatever runs under tasks_mutex in one piece is one action: a wait on a *)
(* condition variable is two, the test that puts the thread to sleep and   *)
(* the test when it was woken.  What the worker reads without the mutex is *)
(* read one member at a time.  Condition variables wake up spuriously.     *)
(***************************************************************************)
EXTENDS Integers, Sequences, FiniteSets

CONSTANTS Threads,    \* the worker threads; thread_count of them
          MaxTasks    \* bound: tasks are numbered as they are queued

\* determine_thread_count yields one at least.
ThreadsAssumption == IsFiniteSet(Threads) /\ Threads # {} /\ MaxTasks \in Nat

ASSUME ThreadsAssumption

VARIABLES
  tasks,             \* queue of tasks
  tasks_running,
  waiting,           \* somebody waits for all tasks
  workers_running,
  owner,             \* what the owning thread is about to do
  worker,            \* what each thread is about to do
  task,              \* the task a thread took last
  submitted          \* tasks queued so far

vars == <<tasks, tasks_running, waiting, workers_running, owner, worker, task, submitted>>

NoTask == 0

Init ==
    /\ tasks = << >> /\ tasks_running = 0
    /\ waiting = FALSE /\ workers_running = FALSE
    /\ owner = "construct"
    /\ worker = [t \in Threads |-> "none"]
    /\ task = [t \in Threads |-> NoTask]
    /\ submitted = 0

Asleep == {t \in Threads : worker[t] = "asleep"}

-----------------------------------------------------------------------------
(***************************************************************************)
(* The owner.                                                              *)
(***************************************************************************)

\* Mutant: threads count themselves.
CreateThreads_Uncounted ==
    /\ owner = "construct"
    /\ workers_running' = TRUE
    /\ owner' = "start"
    /\ UNCHANGED <<tasks, tasks_running, waiting, worker, task, submitted>>

\* All threads are counted as running before the first one exists.
CreateThreads ==
    /\ owner = "construct"
    /\ tasks_running' = Cardinality(Threads)
    /\ workers_running' = TRUE
    /\ owner' = "start"
    /\ UNCHANGED <<tasks, waiting, worker, task, submitted>>

StartThread(t) ==
    /\ owner = "start" /\ worker[t] = "none"
    /\ worker' = [worker EXCEPT ![t] = "new"]
    /\ owner' = IF \A u \in Threads \ {t} : worker[u] # "none" THEN "idle" ELSE owner
    /\ UNCHANGED <<tasks, tasks_running, waiting, workers_running, task, submitted>>

DetachTask ==
    /\ owner = "idle" /\ submitted < MaxTasks
    /\ submitted' = submitted + 1
    /\ tasks' = Append(tasks, submitted')
    /\ owner' = "notify_one"
    /\ UNCHANGED <<tasks_running, waiting, workers_running, worker, task>>

\* Mutant: nobody is notified.
NotifyOne_Nobody ==
    /\ owner = "notify_one"
    /\ owner' = "idle"
    /\ UNCHANGED <<tasks, tasks_running, waiting, workers_running, worker, task, submitted>>

NotifyOne ==
    /\ owner = "notify_one"
    /\ owner' = "idle"
    /\ IF Asleep = {} THEN UNCHANGED worker
       ELSE \E t \in Asleep : worker' = [worker EXCEPT ![t] = "woken"]
    /\ UNCHANGED <<tasks, tasks_running, waiting, workers_running, task, submitted>>

\* Mutant: only the queue is looked at.
AllDone_QueueOnly == tasks = << >>

AllDone == tasks_running = 0 /\ tasks = << >>

\* Mutant: the flag is not set.
Wait_NotFlagged ==
    /\ owner = "idle"
    /\ owner' = IF AllDone THEN "destroy" ELSE "asleep"
    /\ UNCHANGED <<tasks, tasks_running, waiting, workers_running, worker, task, submitted>>

\* The destructor calls wait().
Wait ==
    /\ owner = "idle"
    /\ waiting' = ~AllDone
    /\ owner' = IF AllDone THEN "destroy" ELSE "asleep"
    /\ UNCHANGED <<tasks, tasks_running, workers_running, worker, task, submitted>>

WaitWoken ==
    /\ owner = "woken"
    /\ waiting' = ~AllDone
    /\ owner' = IF AllDone THEN "destroy" ELSE "asleep"
    /\ UNCHANGED <<tasks, tasks_running, workers_running, worker, task, submitted>>

\* destroy_threads()
DestroyThreads ==
    /\ owner = "destroy"
    /\ workers_running' = FALSE
    /\ owner' = "notify_all"
    /\ UNCHANGED <<tasks, tasks_running, waiting, worker, task, submitted>>

NotifyAll ==
    /\ owner = "notify_all"
    /\ worker' = [t \in Threads |-> IF t \in Asleep THEN "woken" ELSE worker[t]]
    /\ owner' = "join"
    /\ UNCHANGED <<tasks, tasks_running, waiting, workers_running, task, submitted>>

Join ==
    /\ owner = "join" /\ \A t \in Threads : worker[t] = "exited"
    /\ owner' = "gone"
    /\ UNCHANGED <<tasks, tasks_running, waiting, workers_running, worker, task, submitted>>

-----------------------------------------------------------------------------
(***************************************************************************)
(* worker().                                                               *)
(***************************************************************************)

\* --tasks_running, when a thread starts and after every task.
Release(t) ==
    /\ worker[t] \in {"new", "returned"}
    /\ tasks_running' = tasks_running - 1
    /\ worker' = [worker EXCEPT ![t] = "read waiting"]
    /\ UNCHANGED <<tasks, waiting, workers_running, owner, task, submitted>>

\* if (waiting && tasks_running == 0 && tasks.empty()), after the mutex was unlocked.
Reads(t, at, holds, next) ==
    /\ worker[t] = at
    /\ worker' = [worker EXCEPT ![t] = IF holds THEN next ELSE "lock"]
    /\ UNCHANGED <<tasks, tasks_running, waiting, workers_running, owner, task, submitted>>

ReadWaiting(t) == Reads(t, "read waiting", waiting, "read running")
ReadRunning(t) == Reads(t, "read running", tasks_running = 0, "read tasks")
ReadTasks(t)   == Reads(t, "read tasks", tasks = << >>, "notify")

\* tasks_done_cv.notify_all()
NotifyDone(t) ==
    /\ worker[t] = "notify"
    /\ worker' = [worker EXCEPT ![t] = "lock"]
    /\ owner' = IF owner = "asleep" THEN "woken" ELSE owner
    /\ UNCHANGED <<tasks, tasks_running, waiting, workers_running, task, submitted>>

\* The wait for a task, on entry and when woken: with the mutex the thread sleeps, leaves
\* or takes the oldest task.
Sleep(t) ==
    /\ worker[t] \in {"lock", "woken"} /\ tasks = << >> /\ workers_running
    /\ worker' = [worker EXCEPT ![t] = "asleep"]
    /\ UNCHANGED <<tasks, tasks_running, waiting, workers_running, owner, task, submitted>>

Exit(t) ==
    /\ worker[t] \in {"lock", "woken"} /\ ~workers_running
    /\ worker' = [worker EXCEPT ![t] = "exited"]
    /\ UNCHANGED <<tasks, tasks_running, waiting, workers_running, owner, task, submitted>>

\* Mutant: the task is not counted.
TakeTask_Uncounted(t) ==
    /\ worker[t] \in {"lock", "woken"} /\ tasks # << >> /\ workers_running
    /\ task' = [task EXCEPT ![t] = Head(tasks)]
    /\ tasks' = Tail(tasks)
    /\ worker' = [worker EXCEPT ![t] = "task"]
    /\ UNCHANGED <<tasks_running, waiting, workers_running, owner, submitted>>

TakeTask(t) ==
    /\ worker[t] \in {"lock", "woken"} /\ tasks # << >> /\ workers_running
    /\ task' = [task EXCEPT ![t] = Head(tasks)]
    /\ tasks' = Tail(tasks)
    /\ tasks_running' = tasks_running + 1
    /\ worker' = [worker EXCEPT ![t] = "task"]
    /\ UNCHANGED <<waiting, workers_running, owner, submitted>>

TaskReturns(t) ==
    /\ worker[t] = "task"
    /\ worker' = [worker EXCEPT ![t] = "returned"]
    /\ UNCHANGED <<tasks, tasks_running, waiting, workers_running, owner, task, submitted>>

Spurious ==
    /\ \/ /\ owner = "asleep" /\ owner' = "woken"
          /\ UNCHANGED worker
       \/ /\ \E t \in Asleep : worker' = [worker EXCEPT ![t] = "woken"]
          /\ UNCHANGED owner
    /\ UNCHANGED <<tasks, tasks_running, waiting, workers_running, task, submitted>>

Owner == \/ CreateThreads \/ (\E t \in Threads : StartThread(t)) \/ DetachTask \/ NotifyOne
         \/ Wait \/ WaitWoken \/ DestroyThreads \/ NotifyAll \/ Join

Loop(t) == \/ Release(t) \/ ReadWaiting(t) \/ ReadRunning(t) \/ ReadTasks(t) \/ NotifyDone(t)
           \/ Sleep(t) \/ Exit(t) \/ TakeTask(t)

Worker(t) == Loop(t) \/ TaskReturns(t)

\* After the destructor nothing is left to do.
Destroyed == owner = "gone" /\ UNCHANGED vars

Next == Owner \/ (\E t \in Threads : Worker(t)) \/ Spurious \/ Destroyed

Spec == Init /\ [][Next]_vars

(***************************************************************************)
(* A thread that can take a step does, and gets the mutex, which nobody    *)
(* keeps.  A thread that sleeps takes no step, and nothing is assumed of   *)
(* spurious wake-ups, of tasks, or of the owner's decision to end: an idle *)
(* owner may stay idle.                                                    *)
(***************************************************************************)
Fairness == /\ WF_vars(Owner /\ owner # "idle")
            /\ \A t \in Threads : WF_vars(Loop(t))

FairSpec == Spec /\ Fairness

-----------------------------------------------------------------------------
(***************************************************************************)
(* Properties.                                                             *)
(***************************************************************************)

OwnerStates == {"construct", "start", "idle", "notify_one", "asleep", "woken",
                "destroy", "notify_all", "join", "gone"}

WorkerStates == {"none", "new", "read waiting", "read running", "read tasks", "notify",
                 "lock", "asleep", "woken", "task", "returned", "exited"}

\* Types of all variables.  tasks_running is unsigned: it never goes below zero.
TypeOK ==
    /\ tasks \in Seq(Nat \ {NoTask})
    /\ tasks_running \in Nat
    /\ waiting \in BOOLEAN /\ workers_running \in BOOLEAN
    /\ owner \in OwnerStates
    /\ worker \in [Threads -> WorkerStates]
    /\ task \in [Threads -> Nat]
    /\ submitted \in Nat

\* The threads that are counted: those that have not begun and those that have a task.
Counted ==
    IF owner = "construct" THEN {}
    ELSE {t \in Threads : worker[t] \in {"none", "new", "task", "returned"}}

\* get_tasks_running(), by which the server admits connections, is the number of threads
\* that cannot take a task now, at any moment of the threads' start, tasks and sleep: no
\* thread is counted twice, missed or left counted.
RunningIsCounted == tasks_running = Cardinality(Counted)

\* What a thread does, as an abstract pool sees it.
doing == [t \in Threads |-> IF worker[t] = "task" THEN task[t] ELSE NoTask]

Pool == INSTANCE TaskPool WITH Tasks <- 1 .. MaxTasks,
                               queued <- tasks,
                               closed <- owner \in {"destroy", "notify_all", "join", "gone"}

\* "Waits for all tasks to complete, then destroys all threads": tasks are started in order,
\* each once, and the threads are ended when every task queued has returned.
ImplementsTaskPool == Pool!Spec

\* No task waits for ever while a thread is free: a notification is never lost, whatever
\* the thread it wakes was about to do.
QueueIsServed == []<>(tasks = << >> \/ \A t \in Threads : worker[t] = "task")

\* Once it waits for the tasks the destructor returns, if all tasks do: the last thread
\* to finish sees that somebody waits, although it looks without the mutex.
DestructorReturns ==
    (\A t \in Threads : worker[t] = "task" ~> worker[t] # "task")
        => (owner \in {"asleep", "woken", "destroy"} ~> owner = "gone")
=============================================================================
