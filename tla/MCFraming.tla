----------------------------- MODULE MCFraming ------------------------------
(***************************************************************************)
(* A message that fills a buffer, one of several records, and short ones:  *)
(* blocks of one and of several messages, that end with a record and a     *)
(* buffer, with one of them and with neither.                              *)
(***************************************************************************)
EXTENDS Framing

MCSizes    == <<1, 1, 6, 3, 1>>
MCAnyFault == {"stall", "close"}
=============================================================================
