---------------------------- MODULE RoomManager -----------------------------
(***************************************************************************)
(* RoomManager<T> of include/tavernmx/room.h, used by the server worker    *)
(* and by the client's chat window.  It keeps two vectors, the rooms and   *)
(* their names: create_room checks uniqueness against the names, look-ups  *)
(* by name go through the rooms, and ROOM_LIST replies are made from the   *)
(* names, so the two must never disagree.                                  *)
(***************************************************************************)
EXTENDS Selections, FiniteSets

CONSTANTS Names,        \* strings a caller may pass
          ValidNames    \* those of them for which is_valid_room_name is true

VARIABLES active_rooms,   \* vector of rooms
          room_names      \* vector of their names (_room_names)

vars == <<active_rooms, room_names>>

Room(r) == [room_name |-> r, destroy_requested |-> FALSE]

Init == active_rooms = << >> /\ room_names = << >>

\* The null pointer is returned, and nothing changes, unless both tests pass.
create_room(r) ==
    /\ r \in ValidNames
    /\ r \notin Elements(room_names)
    /\ room_names' = Append(room_names, r)
    /\ active_rooms' = Append(active_rooms, Room(r))

\* operator[] returns the first room with this name, or the null pointer.
lookup(r) == {i \in DOMAIN active_rooms :
                /\ active_rooms[i].room_name = r
                /\ \A j \in 1 .. i - 1 : active_rooms[j].room_name # r}

\* request_destroy() of the room a look-up returned.
request_destroy(r) ==
    \E i \in lookup(r) :
        /\ active_rooms' = [active_rooms EXCEPT ![i].destroy_requested = TRUE]
        /\ UNCHANGED room_names

NameOf(s) == [i \in DOMAIN s |-> s[i].room_name]

\* What std::erase_if leaves: the rooms that are not marked.
Unmarked == {room \in Elements(active_rooms) : ~room.destroy_requested}

\* Mutants: the names of what was removed are kept; only the first room marked goes.
remove_destroyed_rooms_KeepsNames ==
    /\ active_rooms' = Picked(active_rooms, Unmarked)
    /\ UNCHANGED room_names

remove_destroyed_rooms_FirstOnly ==
    LET keep(i) == \/ ~active_rooms[i].destroy_requested
                   \/ \E j \in 1 .. i - 1 : active_rooms[j].destroy_requested
        n    == Cardinality({i \in DOMAIN active_rooms : keep(i)})
        kept == [i \in 1 .. n |->
                   active_rooms[CHOOSE k \in DOMAIN active_rooms :
                                  keep(k) /\ Cardinality({j \in 1 .. k : keep(j)}) = i]]
    IN  active_rooms' = kept /\ room_names' = NameOf(kept)

\* The names are made again only when some room was erased.
remove_destroyed_rooms ==
    LET kept == Picked(active_rooms, Unmarked)
    IN  /\ active_rooms' = kept
        /\ room_names' = IF Len(kept) < Len(active_rooms) THEN NameOf(kept) ELSE room_names

clear == active_rooms' = << >> /\ room_names' = << >>

Next == \/ \E r \in Names : create_room(r) \/ request_destroy(r)
        \/ remove_destroyed_rooms
        \/ clear

Spec == Init /\ [][Next]_vars

-----------------------------------------------------------------------------
\* Types: the vectors hold valid rooms and names.
Rooms  == [room_name : ValidNames, destroy_requested : BOOLEAN]
TypeOK == /\ active_rooms \in Seq(Rooms)
          /\ room_names \in Seq(ValidNames)

\* The two vectors list the same rooms in the same order, no name twice: a name is
\* refused by create_room exactly while a look-up finds it, also while the room is
\* only marked for destruction.
NamesMirrorRooms ==
    /\ room_names = NameOf(active_rooms)
    /\ \A i, j \in DOMAIN room_names : room_names[i] = room_names[j] => i = j
    /\ \A r \in Names : (lookup(r) = {}) <=> (r \notin Elements(room_names))

\* The two vectors together behave as one set of rooms.
Set == INSTANCE RoomSet WITH
         names  <- {active_rooms[i].room_name : i \in DOMAIN active_rooms},
         doomed <- {active_rooms[i].room_name :
                      i \in {k \in DOMAIN active_rooms : active_rooms[k].destroy_requested}}

\* Every operation creates, marks, removes or clears rooms as RoomSet does.
BehavesAsSet == Set!Spec
=============================================================================
