---------------------------- MODULE MCThreadPool ----------------------------
(***************************************************************************)
(* Two threads and a task more than threads.                               *)
(***************************************************************************)
EXTENDS ThreadPool

CONSTANTS t1, t2

MCThreads == {t1, t2}
=============================================================================
