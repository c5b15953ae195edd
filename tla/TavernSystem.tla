---------------------------- MODULE TavernSystem ----------------------------
(***************************************************************************)
(* A chat window and the server together.  One connection is that of the   *)
(* window: what the server sends on it the window processes in order, and  *)
(* what the window queues becomes the server's requests, in order.         *)
(* The other connections are those of other clients, which create, destroy *)
(* and join rooms and talk as they like; the server gathers the requests   *)
(* of some of them before the window's and those of others after.  All     *)
(* have said HELLO; nobody leaves.                                         *)
(***************************************************************************)
EXTENDS ChatServer, ChatWindow

CONSTANTS Me,            \* the window's connection
          MaxUserActs,   \* bound: commands, texts and changes of room by the user
          MaxPeerActs,   \* bound: requests of the other clients
          PeerTypes      \* message types the other clients send

\* Client and server decide with the same function which names are valid, and the limits
\* on requests are those of the users who cause them.
ASSUME SystemAssumption ==
    /\ Me \in Connections
    /\ MaxUserActs \in Nat /\ MaxPeerActs \in Nat
    /\ MaxUserActs + MaxPeerActs <= MaxRequests
    /\ WindowNames = ValidNames
    /\ HistoryCount \in EventCounts /\ HistoryCount <= HistoryMax
    /\ {"ROOM_LIST", "ROOM_CREATE", "ROOM_JOIN", "ROOM_DESTROY", "ROOM_HISTORY", "CHAT_SEND"}
          \subseteq RequestTypes

VARIABLES seen,          \* how much of sent[Me] the window has processed
          user_acts, peer_acts

system == <<vars, windowVars, seen, user_acts, peer_acts>>

\* All handshakes are over.
SystemInit ==
    /\ listening = TRUE
    /\ accepted = MaxConnections /\ active = Connections
    /\ link = [c \in Connections |-> "open"]
    /\ worker = [c \in Connections |-> "serving"]
    /\ user = [c \in Connections |-> c]
    /\ messages_in = [c \in Connections |-> << >>]
    /\ messages_out = [c \in Connections |-> << >>]
    /\ replies = [c \in Connections |-> << >>]
    /\ sent = [c \in Connections |-> <<create_ack>>]
    /\ requests = 0
    /\ pc = "sleep"
    /\ clients = {} /\ todo = {}
    /\ new_rooms = << >> /\ destroyed_rooms = << >>
    /\ unsent = {}
    /\ room = [r \in InitialRooms \cap ValidNames |-> NewRoom]
    /\ history = [r \in {} |-> << >>]
    /\ WindowInit
    /\ seen = 1 /\ user_acts = 0 /\ peer_acts = 0

\* The window's update handler takes the next message of its queue.
ProcessNext ==
    /\ seen < Len(sent[Me])
    /\ seen' = seen + 1
    /\ Process(sent[Me][seen + 1])
    /\ UNCHANGED <<vars, user_acts, peer_acts>>

\* The two workers carry the next message of the window to the server's queue.
Carry ==
    /\ out_queue # << >>
    /\ out_queue' = Tail(out_queue)
    /\ QueueRequest(Me, Head(out_queue))
    /\ UNCHANGED <<window, seen, user_acts, peer_acts>>

\* The user acts when update() has processed what there was.  The text of a line is its
\* number; those of the other clients are numbered after the user's.
UserActs ==
    /\ user_acts < MaxUserActs
    /\ user_acts' = user_acts + 1
    /\ \/ \E i \in 1 .. Cardinality(WindowNames) : ChangeRoom(i)
       \/ SubmitText(user_acts + 1)
       \/ \E r \in WindowNames : \E command \in {"/create_room", "/destroy_room"} :
             SubmitCommand(command, r)
    /\ UNCHANGED <<vars, seen, peer_acts>>

PeerActs ==
    /\ peer_acts < MaxPeerActs
    /\ peer_acts' = peer_acts + 1
    /\ \E c \in Connections \ {Me}, m \in Request(MaxUserActs + peer_acts + 1) :
          m.type \in PeerTypes /\ QueueRequest(c, m)
    /\ UNCHANGED <<windowVars, seen, user_acts>>

\* The server's own steps.  What it has for the other clients stays in their queues.
Serve ==
    /\ ServerWorker \/ SendQueued(Me)
    /\ UNCHANGED <<windowVars, seen, user_acts, peer_acts>>

SystemNext == ProcessNext \/ Carry \/ UserActs \/ PeerActs \/ Serve

SystemSpec == SystemInit /\ [][SystemNext]_system

-----------------------------------------------------------------------------
(***************************************************************************)
(* Properties.                                                             *)
(***************************************************************************)

\* The window has processed a list of the server's rooms.
Listed == \E i \in 1 .. seen : sent[Me][i].type = "ROOM_LIST"

\* From the first list of rooms on the selected room has been joined, however it came to be
\* selected: what the user reads and writes goes to a room whose echoes were asked for.
SelectedIsJoined == Listed => CurrentIsJoined

\* Nothing is in flight between the window and the server.
Quiet == /\ pc = "sleep" /\ out_queue = << >> /\ seen = Len(sent[Me])
         /\ \A c \in Connections : messages_in[c] = << >>
         /\ messages_out[Me] = << >>

\* When nothing is in flight the window displays the rooms that exist, whatever was left
\* over from an earlier connection and whichever announcements overtook the list.
WindowShowsRooms == Quiet => Elements(window.room_names) = rooms

\* When nothing is in flight the server has the client as a member of the selected room,
\* although the room may have been destroyed and created again while it was asked for.
SelectedIsMember ==
    Quiet /\ window.current_room_name # NoRoom =>
        room[window.current_room_name].joined[Me] > 0

\* A transcript retells a history: it has the events up to some event, which are those of
\* the reply, and then all events from the next one on or from an earlier one, which are
\* those of the echoes that came after the reply.
Retells(t, h) == \E n \in 0 .. Len(h) : \E k \in 1 .. n + 1 :
                    t = SubSeq(h, 1, n) \o SubSeq(h, k, Len(h))

\* So little was said in a room that no limit was met: the log lost nothing, a reply has all
\* of it, and a transcript can show every event twice.
Brief(r) == /\ Len(recorded(r)) < HistoryLimit
            /\ Len(recorded(r)) <= HistoryCount
            /\ 2 * Len(recorded(r)) <= TranscriptLimit

\* When nothing is in flight the transcript of the selected room shows the room's history
\* and nothing else, in order and without a gap.  An event may be shown twice: a history
\* reply contains events whose echoes are still to come.
TranscriptIsHistory ==
    LET r == window.current_room_name
    IN  Quiet /\ r # NoRoom /\ Brief(r) =>
            /\ r \in DOMAIN window.chat_room_history
            /\ Retells(window.chat_room_history[r], recorded(r))

\* "clean up history structure in case a room no longer exists": when nothing is in flight
\* there are transcripts of existing rooms only.
TranscriptsOfRooms == Quiet => DOMAIN window.chat_room_history \subseteq rooms
=============================================================================
