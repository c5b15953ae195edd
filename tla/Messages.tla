------------------------------ MODULE Messages ------------------------------
(***************************************************************************)
(* The messages of include/tavernmx/messaging.h and their constructors.    *)
(* A message is a record of its MessageType and of the json values it      *)
(* carries.  Texts, user names and errors are opaque; time stamps are left *)
(* out.  The values of a room list are the room names: their positions,    *)
(* which are the json keys, are left out too.                              *)
(***************************************************************************)
EXTENDS Integers, Sequences

create_ack       == [type |-> "ACK"]
create_nak       == [type |-> "NAK"]
create_hello(u)  == [type |-> "HELLO", user |-> u]
create_heartbeat == [type |-> "HEARTBEAT"]

\* A client asks for the list with no values and is sent one that has the names.
room_list_request        == [type |-> "ROOM_LIST"]
create_room_list(names)  == [type |-> "ROOM_LIST", rooms |-> names]

create_room_create(r)    == [type |-> "ROOM_CREATE",  room |-> r]
create_room_join(r)      == [type |-> "ROOM_JOIN",    room |-> r]
create_room_destroy(r)   == [type |-> "ROOM_DESTROY", room |-> r]
create_room_history(r, n) ==
    [type |-> "ROOM_HISTORY", room |-> r, event_count |-> n, events |-> << >>]

create_chat_send(r, text) == [type |-> "CHAT_SEND", room |-> r, text |-> text]
create_chat_echo(r, e)    == [type |-> "CHAT_ECHO", room |-> r, event |-> e]

\* A RoomEvent: who said what.
RoomEvent(origin, text) == [origin |-> origin, text |-> text]

(***************************************************************************)
(* Filling a history message.  add_room_history_event appends one event    *)
(* and returns the new count; the loop of get_room_history stops as soon   *)
(* as the count it got back EQUALS max, which the count never does when    *)
(* max is 0.                                                               *)
(***************************************************************************)
history_message(r, events) ==
    [type |-> "ROOM_HISTORY", room |-> r, event_count |-> Len(events), events |-> events]

get_room_history(r, log, max) ==
    history_message(r, IF max \in 1 .. Len(log) THEN SubSeq(log, 1, max) ELSE log)
=============================================================================
