---------------------------- MODULE MCChatServer ----------------------------
(***************************************************************************)
(* Instances of the chat server: one room that exists from the start and   *)
(* may be destroyed and created again, and an invalid name.                *)
(*                                                                         *)
(* The instance of ChatEvents gives its clients parts, so that there can   *)
(* be requests enough to destroy a room in which something was said, to    *)
(* create it again and to talk in it: the first client creates, destroys,  *)
(* talks and asks for history, the second joins and talks.                 *)
(***************************************************************************)
EXTENDS ChatServer

CONSTANTS lobby, bad

MCSomeNames == {lobby, bad}
MCOneName   == {lobby}
MCOneCount  == {1}
MCZeroCount == {0}

MCChatTypes == {"ROOM_CREATE", "ROOM_JOIN", "ROOM_DESTROY", "ROOM_HISTORY", "CHAT_SEND"}
MCLinkTypes == {"ROOM_LIST", "ROOM_CREATE", "CHAT_SEND", "HEARTBEAT", "HELLO"}

MCPart(c) == IF c = 1 THEN MCChatTypes \ {"ROOM_JOIN"} ELSE {"ROOM_JOIN", "CHAT_SEND"}

\* Bound of ChatEvents: both clients stay, the server runs, and each plays its part.
MCParts == /\ listening
           /\ \A c \in Connections : worker[c] # "done"
           /\ \A c \in Connections : \A i \in DOMAIN messages_in[c] :
                 messages_in[c][i].type \in MCPart(c)
=============================================================================
