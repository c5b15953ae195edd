-------------------------- MODULE MCClientSession ---------------------------
(***************************************************************************)
(* Two attempts to connect, enough for what one session leaves behind to   *)
(* meet the next one.  The first peer may stop in the middle of a block,   *)
(* the second may fall silent; either may leave at any time.               *)
(***************************************************************************)
EXTENDS ClientSession

MCFirst  == {1}
MCSecond == {2}
MCNone   == {}
=============================================================================
