----------------------------- MODULE ChatServer -----------------------------
(***************************************************************************)
(* The chat server of src/server: the main thread that accepts and cleans  *)
(* up connections, one client_worker task per connection in a thread pool, *)
(* and the single server_worker thread that owns the rooms.  The threads   *)
(* share, per connection, the queues messages_in and messages_out, and the *)
(* list of active connections.                                             *)
(*                                                                         *)
(* Connections are numbered in the order in which they are accepted.  The  *)
(* vector active_connections is appended to at the back and only erased    *)
(* from, so the set of its members in increasing order is that vector.     *)
(*                                                                         *)
(* A shared_ptr to a connection is held by active_connections, by the      *)
(* server worker's copy of that list and by the connection's task; a       *)
(* weak_ptr in a room has expired once none of them holds it (Owned).      *)
(***************************************************************************)
EXTENDS Messages, Histories, Selections, FiniteSets

CONSTANTS MaxConnections,  \* bound: connections ever accepted
          MaxRequests,     \* bound: messages ever received from clients
          MaxDepartures,   \* bound: peers that leave or spoil a block
          RequestTypes,    \* message types the clients of an instance send
          MaxClients,      \* config.max_clients, threads in the pool
          RoomNames,       \* strings clients and the configuration may use
          ValidNames,      \* those for which is_valid_room_name is true
          InitialRooms,    \* config.initial_rooms
          HistoryLimit,    \* elements CHAT_ROOM_HISTORY_SIZE slots can hold
          HistoryMax,      \* ROOM_HISTORY_MAX_ENTRIES
          EventCounts      \* event counts clients may ask for

ASSUME BoundsAssumption == /\ MaxConnections \in Nat
                           /\ MaxRequests \in Nat
                           /\ MaxDepartures \in Nat
                           /\ MaxClients \in Nat \ {0}
                           /\ HistoryLimit \in Nat
                           /\ HistoryMax \in Nat
                           /\ EventCounts \subseteq Int
ASSUME NamesAssumption == /\ ValidNames \subseteq RoomNames
                          /\ InitialRooms \subseteq RoomNames

VARIABLES
  \* connections and client workers
  listening,      \* accept_bio exists
  accepted,       \* how many connections were accepted so far
  active,         \* active_connections
  link,           \* what is_connected() and the socket know of the peer
  worker,         \* where the connection's client_worker task is
  user,           \* connected_user_name
  messages_in,    \* per connection: requests for the server worker
  messages_out,   \* per connection: messages for the client
  replies,        \* per connection: send_messages of the current iteration
  sent,           \* per connection: everything written to the socket
  requests,       \* how many messages were received, over all connections
  \* the server worker
  pc,             \* where its loop is
  clients,        \* its copy of the active connections
  todo,           \* those of them whose messages are not gathered yet
  new_rooms, destroyed_rooms,
  unsent,         \* rooms whose events this iteration has not distributed
  room,           \* the RoomManager: a room for each name in use
  history         \* room_history: a bounded log for some names

netVars   == <<listening, accepted, active, link>>
taskVars  == <<worker, user, replies, sent, requests>>
batchVars == <<pc, clients, todo, new_rooms, destroyed_rooms, unsent>>
roomVars  == <<room, history>>
vars == <<netVars, taskVars, messages_in, messages_out, batchVars, roomVars>>

Connections == 1 .. MaxConnections
Accepted    == 1 .. accepted
NoUser      == 0

rooms == DOMAIN room

\* A ServerRoom as create_room makes it.  joined_clients is a vector: joined
\* says how often each connection occurs in it.
NewRoom == [joined |-> [c \in Connections |-> 0],
            events |-> << >>,
            destroy_requested |-> FALSE]

\* A function with one more argument, or with another value for it.
With(f, x, v)  == [y \in DOMAIN f \cup {x} |-> IF y = x THEN v ELSE f[y]]
Without(f, S)  == [y \in DOMAIN f \ S |-> f[y]]

Init ==
    /\ listening = TRUE
    /\ accepted = 0
    /\ active = {}
    /\ link = [c \in Connections |-> "none"]
    /\ worker = [c \in Connections |-> "none"]
    /\ user = [c \in Connections |-> NoUser]
    /\ messages_in = [c \in Connections |-> << >>]
    /\ messages_out = [c \in Connections |-> << >>]
    /\ replies = [c \in Connections |-> << >>]
    /\ sent = [c \in Connections |-> << >>]
    /\ requests = 0
    /\ pc = "sleep"
    /\ clients = {} /\ todo = {}
    /\ new_rooms = << >> /\ destroyed_rooms = << >>
    /\ unsent = {}
    /\ room = [r \in InitialRooms \cap ValidNames |-> NewRoom]
    /\ history = [r \in {} |-> << >>]

-----------------------------------------------------------------------------
(***************************************************************************)
(* The main thread.  link[c]: "open" while data flows; "finished" once the *)
(* peer's close_notify was read; "lost" when the peer is gone without one; *)
(* "closed" once this side called shutdown() and dropped the BIO.          *)
(***************************************************************************)
is_connected(c) == link[c] \in {"open", "lost"}

\* BS::thread_pool counts the tasks its threads have picked up.
tasks_running == Cardinality({c \in Accepted : worker[c] \in {"hello", "serving", "stuck"}})

\* cleanup_connections, then push_back of the new connection c.
AddConnection(c) ==
    /\ listening
    /\ accepted < MaxConnections
    /\ c = accepted + 1
    /\ accepted' = c
    /\ active' = {d \in active : is_connected(d)} \cup {c}
    /\ UNCHANGED <<listening, user, messages_in, messages_out, replies, requests,
                   batchVars, roomVars>>

AcceptClient(c) ==
    /\ AddConnection(c)
    /\ tasks_running < MaxClients
    /\ link' = [link EXCEPT ![c] = "open"]
    /\ worker' = [worker EXCEPT ![c] = "queued"]
    /\ UNCHANGED sent

\* "Too many connections.": NAK and close, but the connection stays listed.
RejectClient(c) ==
    /\ AddConnection(c)
    /\ tasks_running >= MaxClients
    /\ link' = [link EXCEPT ![c] = "closed"]
    /\ sent' = [sent EXCEPT ![c] = <<create_nak>>]
    /\ UNCHANGED worker

\* ClientConnectionManager::shutdown, from the SIGINT handler.
Shutdown ==
    /\ listening
    /\ listening' = FALSE
    /\ link' = [c \in Connections |-> IF c \in active THEN "closed" ELSE link[c]]
    /\ active' = {}
    /\ UNCHANGED <<accepted, taskVars, messages_in, messages_out, batchVars, roomVars>>

\* Peers that went away, or whose last block was not a whole and well-formed one.
Departed == {c \in Connections : \/ link[c] \in {"finished", "lost"}
                                 \/ worker[c] = "stuck"
                                 \/ worker[c] = "done" /\ user[c] # NoUser}

\* The peer goes away, politely or not.
PeerLeaves(c) ==
    /\ link[c] = "open"
    /\ Cardinality(Departed \cup {c}) <= MaxDepartures
    /\ \E l \in {"finished", "lost"} : link' = [link EXCEPT ![c] = l]
    /\ UNCHANGED <<listening, accepted, active, taskVars, messages_in, messages_out,
                   batchVars, roomVars>>

-----------------------------------------------------------------------------
(***************************************************************************)
(* client_worker.  A task waits in the pool's queue, then for HELLO, then  *)
(* serves its connection until it is done.                                 *)
(***************************************************************************)
serverSide == <<batchVars, roomVars>>

StartTask(c) ==
    /\ worker[c] = "queued"
    /\ \A d \in Accepted : worker[d] = "queued" => c <= d
    /\ tasks_running < MaxClients
    /\ worker' = [worker EXCEPT ![c] = "hello"]
    /\ UNCHANGED <<netVars, user, replies, sent, requests, messages_in, messages_out,
                   serverSide>>

\* Mutant: the ACK goes through the queue, behind broadcasts already waiting there.
Hello_QueuesAck(c) ==
    /\ worker[c] = "hello" /\ link[c] = "open"
    /\ user' = [user EXCEPT ![c] = c]
    /\ messages_out' = [messages_out EXCEPT ![c] = Append(@, create_ack)]
    /\ worker' = [worker EXCEPT ![c] = "serving"]
    /\ UNCHANGED <<netVars, replies, sent, requests, messages_in, serverSide>>

\* The user name a client sends is its connection number.
Hello(c) ==
    /\ worker[c] = "hello" /\ link[c] = "open"
    /\ user' = [user EXCEPT ![c] = c]
    /\ sent' = [sent EXCEPT ![c] = Append(@, create_ack)]
    /\ worker' = [worker EXCEPT ![c] = "serving"]
    /\ UNCHANGED <<netVars, replies, requests, messages_in, messages_out, serverSide>>

\* No HELLO in time, or an exception while waiting for it.
NoHello(c) ==
    /\ worker[c] = "hello"
    /\ worker' = [worker EXCEPT ![c] = "done"]
    /\ UNCHANGED <<netVars, user, replies, sent, requests, messages_in, messages_out,
                   serverSide>>

\* One message of a received block.
Received(c) ==
    /\ worker[c] = "serving" /\ link[c] = "open"
    /\ requests < MaxRequests
    /\ requests' = requests + 1
    /\ UNCHANGED <<netVars, worker, user, sent, messages_out, serverSide>>

\* A heartbeat is answered by this thread, ahead of the queued messages.
ReceiveHeartbeat(c) ==
    /\ Received(c)
    /\ create_heartbeat.type \in RequestTypes
    /\ replies' = [replies EXCEPT ![c] = Append(@, create_ack)]
    /\ UNCHANGED messages_in

\* Messages a client may send for the server worker; the text of a chat line
\* is the number of the request.  A second HELLO stands for the types the
\* server worker does not handle.
Request(n) ==
    {m \in {room_list_request, create_hello(0)}
             \cup {create_room_create(r)  : r \in RoomNames}
             \cup {create_room_join(r)    : r \in RoomNames}
             \cup {create_room_destroy(r) : r \in RoomNames}
             \cup {create_room_history(r, k) : r \in RoomNames, k \in EventCounts}
             \cup {create_chat_send(r, n) : r \in RoomNames}
        : m.type \in RequestTypes}

QueueRequest(c, m) ==
    /\ Received(c)
    /\ messages_in' = [messages_in EXCEPT ![c] = Append(@, m)]
    /\ UNCHANGED replies

\* Mutant: an iteration that has replies forgets the messages it popped.
SendQueued_RepliesOnly(c) ==
    /\ worker[c] = "serving" /\ link[c] = "open"
    /\ replies[c] \o messages_out[c] # << >>
    /\ sent' = [sent EXCEPT ![c] =
                  @ \o (IF replies[c] # << >> THEN replies[c] ELSE messages_out[c])]
    /\ replies' = [replies EXCEPT ![c] = << >>]
    /\ messages_out' = [messages_out EXCEPT ![c] = << >>]
    /\ UNCHANGED <<netVars, worker, user, requests, messages_in, serverSide>>

\* The end of an iteration: everything queued goes out after the replies.
SendQueued(c) ==
    /\ worker[c] = "serving" /\ link[c] = "open"
    /\ replies[c] \o messages_out[c] # << >>
    /\ sent' = [sent EXCEPT ![c] = @ \o replies[c] \o messages_out[c]]
    /\ replies' = [replies EXCEPT ![c] = << >>]
    /\ messages_out' = [messages_out EXCEPT ![c] = << >>]
    /\ UNCHANGED <<netVars, worker, user, requests, messages_in, serverSide>>

\* The loop ends because the peer closed or the server shut the link down.
FinishTask(c) ==
    /\ worker[c] = "serving" /\ ~is_connected(c)
    /\ worker' = [worker EXCEPT ![c] = "done"]
    /\ UNCHANGED <<netVars, user, replies, sent, requests, messages_in, messages_out,
                   serverSide>>

\* An exception ends the task: while reading, or while writing what it has
\* already taken out of the queue.  The link is left as it is.
TaskThrows(c) ==
    /\ worker[c] \in {"serving", "stuck"} /\ link[c] # "open"
    /\ worker' = [worker EXCEPT ![c] = "done"]
    /\ \/ UNCHANGED messages_out
       \/ messages_out' = [messages_out EXCEPT ![c] = << >>]
    /\ UNCHANGED <<netVars, user, replies, sent, requests, messages_in, serverSide>>

\* A block that does not unpack: the exception ends the task before any message of
\* the block is looked at, and leaves an open link behind.
BadBlock(c) ==
    /\ worker[c] = "serving" /\ link[c] = "open" /\ replies[c] = << >>
    /\ Cardinality(Departed \cup {c}) <= MaxDepartures
    /\ worker' = [worker EXCEPT ![c] = "done"]
    /\ UNCHANGED <<netVars, user, replies, sent, requests, messages_in, messages_out,
                   serverSide>>

\* The peer sends a part of a block and no more, or does not read what it is sent:
\* the task stays in a loop of receive_message or send_message that does not look
\* at the link, be it open or not.
GetStuck(c) ==
    /\ worker[c] = "serving" /\ is_connected(c)
    /\ Cardinality(Departed \cup {c}) <= MaxDepartures
    /\ worker' = [worker EXCEPT ![c] = "stuck"]
    /\ \/ UNCHANGED messages_out
       \/ messages_out' = [messages_out EXCEPT ![c] = << >>]
    /\ UNCHANGED <<netVars, user, replies, sent, requests, messages_in, serverSide>>

-----------------------------------------------------------------------------
(***************************************************************************)
(* server_worker.  An iteration copies the active connections, gathers     *)
(* their requests connection by connection, announces created and          *)
(* destroyed rooms, distributes room events and cleans up.                 *)
(***************************************************************************)
clientSide == <<netVars, taskVars>>

StartBatch ==
    /\ pc = "sleep" /\ listening
    /\ pc' = "gather"
    /\ clients' = active /\ todo' = active
    /\ new_rooms' = << >> /\ destroyed_rooms' = << >>
    /\ UNCHANGED <<clientSide, messages_in, messages_out, unsent, roomVars>>

StopServing ==
    /\ pc = "sleep" /\ ~listening
    /\ pc' = "stopped"
    /\ UNCHANGED <<clientSide, messages_in, messages_out, clients, todo, new_rooms,
                   destroyed_rooms, unsent, roomVars>>

\* c is the connection whose messages are being gathered.
Gathering(c) == pc = "gather" /\ c \in todo /\ \A d \in todo : c <= d

NextClient(c) ==
    /\ Gathering(c)
    /\ messages_in[c] = << >>
    /\ todo' = todo \ {c}
    /\ UNCHANGED <<clientSide, messages_in, messages_out, pc, clients, new_rooms,
                   destroyed_rooms, unsent, roomVars>>

\* The next message of c, of the given type.
Pop(c, type) ==
    /\ Gathering(c)
    /\ messages_in[c] # << >>
    /\ Head(messages_in[c]).type = type
    /\ messages_in' = [messages_in EXCEPT ![c] = Tail(@)]
    /\ UNCHANGED <<clientSide, pc, clients, todo, unsent>>

Reply(c, m) == messages_out' = [messages_out EXCEPT ![c] = Append(@, m)]

HandleRoomList(c) ==
    /\ Pop(c, "ROOM_LIST")
    /\ Reply(c, create_room_list(rooms))
    /\ UNCHANGED <<new_rooms, destroyed_rooms, roomVars>>

\* Mutant: create_room does not validate the name.
HandleRoomCreate_AnyName(c) ==
    /\ Pop(c, "ROOM_CREATE")
    /\ LET r == Head(messages_in[c]).room
       IN  IF r \notin rooms
           THEN /\ room' = With(room, r, [NewRoom EXCEPT !.joined[c] = 1])
                /\ new_rooms' = Append(new_rooms, r)
           ELSE UNCHANGED <<room, new_rooms>>
    /\ UNCHANGED <<messages_out, destroyed_rooms, history>>

HandleRoomCreate(c) ==
    /\ Pop(c, "ROOM_CREATE")
    /\ LET r == Head(messages_in[c]).room
       IN  IF r \in ValidNames \ rooms
           THEN /\ room' = With(room, r, [NewRoom EXCEPT !.joined[c] = 1])
                /\ new_rooms' = Append(new_rooms, r)
           ELSE UNCHANGED <<room, new_rooms>>
    /\ UNCHANGED <<messages_out, destroyed_rooms, history>>

\* Mutant: joining adds to joined_clients directly.
HandleRoomJoin_NoDuplicateCheck(c) ==
    /\ Pop(c, "ROOM_JOIN")
    /\ LET r == Head(messages_in[c]).room
       IN  IF r \in rooms
           THEN room' = [room EXCEPT ![r].joined[c] = @ + 1]
           ELSE UNCHANGED room
    /\ UNCHANGED <<messages_out, new_rooms, destroyed_rooms, history>>

HandleRoomJoin(c) ==
    /\ Pop(c, "ROOM_JOIN")
    /\ LET r == Head(messages_in[c]).room
       IN  IF r \in rooms /\ room[r].joined[c] = 0
           THEN room' = [room EXCEPT ![r].joined[c] = 1]
           ELSE UNCHANGED room
    /\ UNCHANGED <<messages_out, new_rooms, destroyed_rooms, history>>

\* The room is only marked: it exists until the end of the iteration.
HandleRoomDestroy(c) ==
    /\ Pop(c, "ROOM_DESTROY")
    /\ LET r == Head(messages_in[c]).room
       IN  IF r \in rooms
           THEN /\ room' = [room EXCEPT ![r].destroy_requested = TRUE]
                /\ destroyed_rooms' = Append(destroyed_rooms, r)
           ELSE UNCHANGED <<room, destroyed_rooms>>
    /\ UNCHANGED <<messages_out, new_rooms, history>>

recorded(r) == IF r \in DOMAIN history THEN history[r] ELSE << >>

HandleRoomHistory(c) ==
    /\ Pop(c, "ROOM_HISTORY")
    /\ LET m == Head(messages_in[c])
       IN  IF m.event_count \in 0 .. HistoryMax /\ m.room \in rooms
           THEN Reply(c, get_room_history(m.room, recorded(m.room), m.event_count))
           ELSE UNCHANGED messages_out
    /\ UNCHANGED <<new_rooms, destroyed_rooms, roomVars>>

\* Mutant: the event is recorded before the room is looked up.
HandleChatSend_RecordsFirst(c) ==
    /\ Pop(c, "CHAT_SEND")
    /\ LET m == Head(messages_in[c])
           e == RoomEvent(user[c], m.text)
       IN  /\ history' = With(history, m.room,
                              Recorded(recorded(m.room), e, HistoryLimit))
           /\ IF m.room \in rooms
              THEN room' = [room EXCEPT ![m.room].events = Append(@, e)]
              ELSE UNCHANGED room
    /\ UNCHANGED <<messages_out, new_rooms, destroyed_rooms>>

HandleChatSend(c) ==
    /\ Pop(c, "CHAT_SEND")
    /\ LET m == Head(messages_in[c])
           e == RoomEvent(user[c], m.text)
       IN  IF m.room \in rooms
           THEN /\ history' = With(history, m.room,
                                   Recorded(recorded(m.room), e, HistoryLimit))
                /\ room' = [room EXCEPT ![m.room].events = Append(@, e)]
           ELSE UNCHANGED roomVars
    /\ UNCHANGED <<messages_out, new_rooms, destroyed_rooms>>

HandleOther(c) ==
    /\ Pop(c, "HELLO")
    /\ UNCHANGED <<messages_out, new_rooms, destroyed_rooms, roomVars>>

Handle(c) == \/ HandleRoomList(c) \/ HandleRoomCreate(c) \/ HandleRoomJoin(c)
             \/ HandleRoomDestroy(c) \/ HandleRoomHistory(c) \/ HandleChatSend(c)
             \/ HandleOther(c)

\* Mutant: destroyed rooms are announced first.
announcements_DestroyedFirst ==
    [i \in DOMAIN destroyed_rooms |-> create_room_destroy(destroyed_rooms[i])] \o
    [i \in DOMAIN new_rooms |-> create_room_create(new_rooms[i])]

\* Step 2a: every connection of the copy is told of the rooms created and then
\* of the rooms destroyed.
announcements ==
    [i \in DOMAIN new_rooms |-> create_room_create(new_rooms[i])] \o
    [i \in DOMAIN destroyed_rooms |-> create_room_destroy(destroyed_rooms[i])]

Announce ==
    /\ pc = "gather" /\ todo = {}
    /\ pc' = "echo"
    /\ messages_out' = [c \in Connections |->
           messages_out[c] \o (IF c \in clients THEN announcements ELSE << >>)]
    /\ unsent' = rooms
    /\ UNCHANGED <<clientSide, messages_in, clients, todo, new_rooms, destroyed_rooms,
                   roomVars>>

\* Some shared_ptr to the connection exists: a weak_ptr to it can be locked.
Owned(c) == c \in active \cup clients \/ worker[c] \in {"queued", "hello", "serving", "stuck"}

\* The messages `echoes`, n times over.
Times(n, echoes) == [i \in 1 .. n * Len(echoes) |-> echoes[((i - 1) % Len(echoes)) + 1]]

\* Mutant: the events are read without being popped.
Echo_KeepsEvents(r) ==
    /\ pc = "echo" /\ r \in unsent
    /\ unsent' = unsent \ {r}
    /\ LET joined == [c \in Connections |-> IF Owned(c) THEN room[r].joined[c] ELSE 0]
           events == room[r].events
           echoes == [i \in DOMAIN events |-> create_chat_echo(r, events[i])]
       IN  /\ room' = [room EXCEPT ![r].joined = joined]
           /\ messages_out' = [c \in Connections |->
                                 messages_out[c] \o Times(joined[c], echoes)]
    /\ UNCHANGED <<clientSide, messages_in, pc, clients, todo, new_rooms,
                   destroyed_rooms, history>>

\* Step 2b for one room: each entry of joined_clients gets all its events.
Echo(r) ==
    /\ pc = "echo" /\ r \in unsent
    /\ unsent' = unsent \ {r}
    /\ LET joined == [c \in Connections |-> IF Owned(c) THEN room[r].joined[c] ELSE 0]
           events == room[r].events
           echoes == [i \in DOMAIN events |-> create_chat_echo(r, events[i])]
       IN  /\ room' = [room EXCEPT ![r].joined = joined, ![r].events = << >>]
           /\ messages_out' = [c \in Connections |->
                                 messages_out[c] \o Times(joined[c], echoes)]
    /\ UNCHANGED <<clientSide, messages_in, pc, clients, todo, new_rooms,
                   destroyed_rooms, history>>

\* Mutant: the history of a destroyed room is not erased.
CleanUp_KeepsHistory ==
    /\ pc = "echo" /\ unsent = {}
    /\ pc' = "sleep"
    /\ room' = Without(room, {r \in rooms : room[r].destroy_requested})
    /\ clients' = {}
    /\ new_rooms' = << >> /\ destroyed_rooms' = << >>
    /\ UNCHANGED <<clientSide, messages_in, messages_out, todo, unsent, history>>

\* Step 3, and the end of the iteration, where the copy goes out of scope.
CleanUp ==
    /\ pc = "echo" /\ unsent = {}
    /\ pc' = "sleep"
    /\ history' = Without(history, Elements(destroyed_rooms))
    /\ room' = Without(room, {r \in rooms : room[r].destroy_requested})
    /\ clients' = {}
    /\ new_rooms' = << >> /\ destroyed_rooms' = << >>
    /\ UNCHANGED <<clientSide, messages_in, messages_out, todo, unsent>>

-----------------------------------------------------------------------------
MainThread == Shutdown \/ \E c \in Connections : AcceptClient(c) \/ RejectClient(c)

ClientTask(c) ==
    \/ StartTask(c) \/ Hello(c) \/ NoHello(c)
    \/ ReceiveHeartbeat(c)
    \/ \E m \in Request(requests + 1) : QueueRequest(c, m)
    \/ SendQueued(c) \/ FinishTask(c) \/ TaskThrows(c) \/ BadBlock(c) \/ GetStuck(c)

ServerWorker ==
    \/ StartBatch \/ StopServing
    \/ \E c \in Connections : NextClient(c) \/ Handle(c)
    \/ Announce
    \/ \E r \in rooms : Echo(r)
    \/ CleanUp

Next == \/ MainThread
        \/ ServerWorker
        \/ \E c \in Connections : ClientTask(c) \/ PeerLeaves(c)

Spec == Init /\ [][Next]_vars

(***************************************************************************)
(* Both kinds of thread loop with bounded sleeps, so an enabled iteration  *)
(* is eventually run; a task that is stuck runs none.  Nothing makes a     *)
(* peer send, leave or say HELLO.                                          *)
(***************************************************************************)
FairSpec == /\ Spec
            /\ WF_vars(ServerWorker)
            /\ \A c \in Connections : WF_vars(SendQueued(c)) /\ WF_vars(FinishTask(c))

-----------------------------------------------------------------------------
(***************************************************************************)
(* Properties.                                                             *)
(***************************************************************************)

Events == [origin : Connections \cup {NoUser}, text : 1 .. MaxRequests]

ServerRooms == [joined : [Connections -> Nat],
                events : Seq(Events),
                destroy_requested : BOOLEAN]

Requests == UNION {Request(n) : n \in 1 .. MaxRequests}

ServerMessages ==
    {create_ack, create_nak}
      \cup [type : {"ROOM_LIST"}, rooms : SUBSET ValidNames]
      \cup [type : {"ROOM_CREATE", "ROOM_DESTROY"}, room : ValidNames]
      \cup [type : {"ROOM_HISTORY"}, room : ValidNames, event_count : Nat, events : Seq(Events)]
      \cup [type : {"CHAT_ECHO"}, room : ValidNames, event : Events]

NetTypes ==
    /\ listening \in BOOLEAN
    /\ accepted \in 0 .. MaxConnections
    /\ active \subseteq Accepted
    /\ link \in [Connections -> {"none", "open", "finished", "lost", "closed"}]

TaskTypes ==
    /\ worker \in [Connections -> {"none", "queued", "hello", "serving", "stuck", "done"}]
    /\ user \in [Connections -> Connections \cup {NoUser}]
    /\ replies \in [Connections -> Seq(ServerMessages)]
    /\ sent \in [Connections -> Seq(ServerMessages)]
    /\ requests \in 0 .. MaxRequests

QueueTypes ==
    /\ messages_in \in [Connections -> Seq(Requests)]
    /\ messages_out \in [Connections -> Seq(ServerMessages)]

BatchTypes ==
    /\ pc \in {"sleep", "gather", "echo", "stopped"}
    /\ clients \subseteq Accepted /\ todo \subseteq clients
    /\ pc # "gather" => todo = {}
    /\ new_rooms \in Seq(rooms) /\ destroyed_rooms \in Seq(rooms)
    /\ unsent \subseteq rooms

RoomTypes ==
    /\ rooms \subseteq ValidNames /\ room \in [rooms -> ServerRooms]
    /\ history \in [DOMAIN history -> Seq(Events)]

\* Types of all variables; the server worker's copies and lists refer to accepted
\* connections and existing rooms.
TypeOK == NetTypes /\ TaskTypes /\ QueueTypes /\ BatchTypes /\ RoomTypes

\* Everything the server has produced for a client, whether sent or still queued.
Stream(c) == sent[c] \o messages_out[c]

\* A connection that is listed and whose task is running.
Served(c) == c \in active /\ worker[c] = "serving"

\* Between two iterations, the echoes of a room's recorded events that a member
\* was sent are the latest events of the room's history, in order: no gap, no
\* repetition, nothing of an earlier room of the same name in between.
EchoesFollowHistory ==
    pc = "sleep" => \A c \in Connections, r \in rooms :
        LET echoes == Picked(Stream(c), {create_chat_echo(r, e) : e \in Elements(recorded(r))})
        IN  Served(c) /\ room[r].joined[c] > 0
                => [i \in DOMAIN echoes |-> echoes[i].event]
                       = LastOf(recorded(r), Len(echoes))

\* History is kept for existing rooms only, although it is stored apart from them
\* and erased by the names gathered in destroyed_rooms rather than with the room.
HistoryOnlyForRooms == DOMAIN history \subseteq rooms

\* The rooms that will be removed at the end of an iteration are those whose removal
\* it announces and whose history it erases: the flags kept in the rooms agree with
\* the names kept in destroyed_rooms, and between iterations there are none.
DoomedAreGathered ==
    /\ {r \in rooms : room[r].destroy_requested} = Elements(destroyed_rooms)
    /\ pc = "sleep" => destroyed_rooms = << >>

\* What a client was shown of a room before being told of its destruction is in no
\* history between iterations: a room created again under the name starts afresh.
Shows(m, r, e) == \/ m = create_chat_echo(r, e)
                  \/ m.type = "ROOM_HISTORY" /\ m.room = r /\ e \in Elements(m.events)

NothingOutlivesItsRoom ==
    pc = "sleep" => \A c \in Connections, r \in DOMAIN history :
        \A e \in Elements(history[r]), j \in DOMAIN Stream(c) :
            Stream(c)[j] = create_room_destroy(r)
                => \A i \in 1 .. j : ~Shows(Stream(c)[i], r, e)

\* The first thing a client is ever sent is the outcome of its handshake: a NAK and
\* nothing more, or an ACK; and no event is recorded for a client before its ACK,
\* although broadcasts are queued for a connection as soon as it is accepted.
HandshakeFirst ==
    /\ \A c \in Connections : sent[c] # << >> =>
           IF worker[c] = "none" THEN sent[c] = <<create_nak>>
                                 ELSE sent[c][1] = create_ack
    /\ \A r \in DOMAIN history : \A e \in Elements(history[r]) :
           e.origin # NoUser /\ sent[e.origin] # << >>

\* The note on create_room_history: "event_count must be between 0 and
\* ROOM_HISTORY_MAX_ENTRIES (inclusive)", for the replies the server sends.
HistoryReplyWithinMax ==
    \A c \in Connections : \A i \in DOMAIN Stream(c) :
        LET m == Stream(c)[i]
        IN  m.type = "ROOM_HISTORY" => /\ m.event_count \in 0 .. HistoryMax
                                       /\ m.event_count = Len(m.events)

\* A membership is recorded once per connection, so that nothing is echoed twice.
JoinedOnce == \A r \in rooms, c \in Connections : room[r].joined[c] \in {0, 1}

\* Every request for the room list that the server worker has reached in a queue is
\* answered by a list of its own, if the task of the connection goes on to run and
\* its link stays open: each request counts on one list more than the server had
\* produced for the connection before it.
Lists(s) == Cardinality({i \in DOMAIN s : s[i].type = "ROOM_LIST"})

ListIsAnswered ==
    \A c \in Connections, n \in 0 .. MaxRequests - 1 :
        (/\ messages_in[c] # << >> /\ Head(messages_in[c]).type = "ROOM_LIST"
         /\ Lists(Stream(c)) = n)
            ~> (Lists(sent[c]) > n \/ worker[c] # "serving" \/ link[c] # "open")

\* "Max number of simultaneous client connections to support."
AtMostMaxClients ==
    Cardinality({c \in Accepted : worker[c] \in {"queued", "hello", "serving", "stuck"}})
        <= MaxClients

\* "Removes client connections that are no longer active.": an accepted connection
\* leaves no connection listed whose task has ended.
AcceptReapsEnded ==
    [][accepted' # accepted => \A c \in active' : worker[c] # "done"]_vars
=============================================================================
