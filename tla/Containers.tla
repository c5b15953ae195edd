----------------------------- MODULE Containers -----------------------------
(***************************************************************************)
(* The server's two containers side by side: a RingBuffer (the history of  *)
(* a room) and a RoomManager.  Nothing is shared between them.             *)
(***************************************************************************)
EXTENDS RingBuffer

CONSTANTS Names,        \* strings a caller may pass for a room's name
          ValidNames    \* those of them that are valid

VARIABLES active_rooms, room_names

Manager == INSTANCE RoomManager

\* The two vectors of the room manager never disagree: the names are those of the rooms,
\* in their order, and a name can be created exactly while a look-up does not find it.
NamesMirrorRooms == Manager!NamesMirrorRooms

\* Together the two vectors are the set of rooms of RoomSet.
BehavesAsSet == Manager!BehavesAsSet
=============================================================================
