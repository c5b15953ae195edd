------------------------- MODULE MCServerLifecycle --------------------------
(***************************************************************************)
(* Where SIGINT may find the main thread, and on which thread it is        *)
(* handled, in the instances of the server's life cycle.  The kernel       *)
(* delivers a process-directed signal to the main thread when it can.      *)
(***************************************************************************)
EXTENDS ServerLifecycle

MCMainThread   == {"main"}
MCHoldingMutex == {"cleaning", "pushing"}
MCAnywhere     == MainPoints \ {"wait_ready", "exited", "terminated"}
MCAnyThread    == {"main", "server", "other"}

MCNoFailure    == {}
MCAllFail      == {"port", "nak", "batch"}
=============================================================================
