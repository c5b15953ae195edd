----------------------------- MODULE Histories ------------------------------
(***************************************************************************)
(* Sequences of which only the most recent elements are kept.              *)
(***************************************************************************)
EXTENDS Integers, Sequences

\* The last n elements of a sequence: all of it when it is not longer than n.
LastOf(s, n) ==
    LET dropped == IF Len(s) > n THEN Len(s) - n ELSE 0
    IN  [i \in 1 .. Len(s) - dropped |-> s[i + dropped]]

\* Recording e in a history that keeps n elements.
Recorded(s, e, n) == LastOf(Append(s, e), n)
=============================================================================
