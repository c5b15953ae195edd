----------------------------- MODULE Selections -----------------------------
(***************************************************************************)
(* The elements of a sequence, and those of them that are in a set, in     *)
(* their order.  The latter are what SelectSeq computes, with a set in     *)
(* place of an operator.                                                   *)
(***************************************************************************)
EXTENDS Integers, Sequences

Elements(s) == {s[i] : i \in DOMAIN s}

Picked(s, S) ==
    LET upTo[i \in 0 .. Len(s)] ==
            IF i = 0 THEN << >>
            ELSE IF s[i] \in S THEN Append(upTo[i - 1], s[i]) ELSE upTo[i - 1]
    IN  upTo[Len(s)]
=============================================================================
