------------------------------ MODULE RoomSet -------------------------------
(***************************************************************************)
(* What a RoomManager promises: a set of rooms with distinct names, some   *)
(* of them marked for destruction.  ChatServer.tla uses rooms in this way. *)
(***************************************************************************)
CONSTANTS Names, ValidNames

VARIABLES names,    \* names of the existing rooms
          doomed    \* those whose destruction was requested

Init == names = {} /\ doomed = {}

Create(r) == /\ r \in ValidNames \ names
             /\ names' = names \cup {r}
             /\ UNCHANGED doomed

RequestDestroy(r) == /\ r \in names
                     /\ doomed' = doomed \cup {r}
                     /\ UNCHANGED names

RemoveDestroyed == names' = names \ doomed /\ doomed' = {}

Clear == names' = {} /\ doomed' = {}

Next == \/ \E r \in Names : Create(r) \/ RequestDestroy(r)
        \/ RemoveDestroyed \/ Clear

Spec == Init /\ [][Next]_<<names, doomed>>
=============================================================================
