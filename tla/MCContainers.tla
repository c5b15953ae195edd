---------------------------- MODULE MCContainers ----------------------------
(***************************************************************************)
(* One of the two containers is exercised in a behaviour.  A ring buffer   *)
(* of four slots and three distinguishable values: enough to fill it, to   *)
(* wrap head and tail past the end of the array several times and to reset *)
(* it at every position.  A room manager with four valid names and an      *)
(* invalid one: rooms before, between and after destroyed ones.            *)
(***************************************************************************)
EXTENDS Containers

CONSTANTS a, b, c, r1, r2, r3, r4, bad

VARIABLE container

MCValues == {a, b, c}
MCValid  == {r1, r2, r3, r4}
MCNames  == MCValid \cup {bad}

MCInit == Init /\ Manager!Init /\ container \in {"history", "rooms"}

MCNext ==
    /\ UNCHANGED container
    /\ \/ container = "history" /\ Next /\ UNCHANGED <<active_rooms, room_names>>
       \/ container = "rooms" /\ Manager!Next /\ UNCHANGED vars
=============================================================================
