--------------------------- MODULE MCTavernSystem ---------------------------
(***************************************************************************)
(* One room that exists from the start and one that may be created; the    *)
(* window's globals still hold both of an earlier connection, each joined  *)
(* or not.  The window has the second of three connections: requests of    *)
(* one client are gathered before its own and those of the other after     *)
(* them.                                                                   *)
(***************************************************************************)
EXTENDS TavernSystem

CONSTANTS lobby, den

MCNames     == {lobby, den}
MCLobby     == {lobby}
MCCounts    == {4}
MCTypes     == {"ROOM_LIST", "ROOM_CREATE", "ROOM_JOIN", "ROOM_DESTROY", "ROOM_HISTORY", "CHAT_SEND"}
MCPeerTypes == {"ROOM_CREATE", "ROOM_DESTROY", "CHAT_SEND"}

\* Bound: of the two rooms left over the lobby is the first, and one of them was joined.  Their
\* order is not seen: before the first list only the removal of one of them makes the window
\* display anything.
MCOneJoined == Len(window.client_rooms) = 2 /\ window.room_names = << >>
                   => /\ window.client_rooms[1].name = lobby
                      /\ window.client_rooms[1].is_joined # window.client_rooms[2].is_joined
=============================================================================
