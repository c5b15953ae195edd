------------------------------ MODULE TaskPool ------------------------------
(***************************************************************************)
(* What the server expects of its thread pool: tasks are started in the    *)
(* order in which they were queued, each once and by a thread that has     *)
(* none, and the pool is closed, that is its destructor goes on to end the *)
(* threads, only when nothing is queued and nothing runs.                  *)
(***************************************************************************)
EXTENDS Sequences

CONSTANTS Threads, Tasks, NoTask

VARIABLES queued,   \* tasks nobody has started, oldest first
          doing,    \* the task a thread runs, or NoTask
          closed

Init == queued = << >> /\ doing = [t \in Threads |-> NoTask] /\ closed = FALSE

Queue(k) == /\ ~closed
            /\ queued' = Append(queued, k)
            /\ UNCHANGED <<doing, closed>>

Start(t) == /\ queued # << >> /\ doing[t] = NoTask
            /\ doing' = [doing EXCEPT ![t] = Head(queued)]
            /\ queued' = Tail(queued)
            /\ UNCHANGED closed

Finish(t) == /\ doing[t] # NoTask
             /\ doing' = [doing EXCEPT ![t] = NoTask]
             /\ UNCHANGED <<queued, closed>>

Close == /\ queued = << >> /\ \A t \in Threads : doing[t] = NoTask
         /\ closed' = TRUE
         /\ UNCHANGED <<queued, doing>>

Next == \/ \E k \in Tasks : Queue(k)
        \/ \E t \in Threads : Start(t) \/ Finish(t)
        \/ Close

Spec == Init /\ [][Next]_<<queued, doing, closed>>
=============================================================================
