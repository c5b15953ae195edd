-------------------------- MODULE ChatServerProofs --------------------------
(***************************************************************************)
(* Proofs about ChatServer for any number of connections, requests, rooms, *)
(* pool threads and history entries.                                       *)
(***************************************************************************)
EXTENDS ChatServer, SelectionProofs

-----------------------------------------------------------------------------
(***************************************************************************)
(* What the constructors and the helpers return.                           *)
(***************************************************************************)

\* Clients put requests of the expected shape into the queue.
LEMMA RequestFields ==
    ASSUME NEW m \in Requests
    PROVE  /\ m.type \in {"ROOM_CREATE", "ROOM_JOIN", "ROOM_DESTROY", "ROOM_HISTORY",
                          "CHAT_SEND"} => m.room \in RoomNames
           /\ m.type = "ROOM_HISTORY" => m.event_count \in EventCounts
           /\ m.type = "CHAT_SEND" => m.text \in 1 .. MaxRequests
<1>1. PICK n \in 1 .. MaxRequests : m \in Request(n)
  BY DEF Requests
<1>. QED  BY <1>1 DEF Request, room_list_request, create_hello, create_room_create,
                      create_room_join, create_room_destroy, create_room_history,
                      create_chat_send

\* What the server constructs are messages that a server sends.
LEMMA MessagesTyped ==
    /\ create_ack \in ServerMessages /\ create_nak \in ServerMessages
    /\ \A S \in SUBSET ValidNames : create_room_list(S) \in ServerMessages
    /\ \A r \in ValidNames : /\ create_room_create(r) \in ServerMessages
                             /\ create_room_destroy(r) \in ServerMessages
                             /\ \A e \in Events : create_chat_echo(r, e) \in ServerMessages
BY DEF ServerMessages, create_ack, create_nak, create_room_list, create_room_create,
       create_room_destroy, create_chat_echo

\* So is the reply to a history request.
LEMMA HistoryMessageTyped ==
    ASSUME NEW r \in ValidNames, NEW log \in Seq(Events), NEW max \in Nat
    PROVE  get_room_history(r, log, max) \in ServerMessages
<1>. DEFINE events == IF max \in 1 .. Len(log) THEN SubSeq(log, 1, max) ELSE log
<1>1. events \in Seq(Events)
  OBVIOUS
<1>2. get_room_history(r, log, max) =
        [type |-> "ROOM_HISTORY", room |-> r, event_count |-> Len(events), events |-> events]
  BY DEF get_room_history, history_message
<1>. HIDE DEF events
<1>. QED  BY <1>1, <1>2 DEF ServerMessages

\* An index into the repeated echoes is an index into the echoes.
LEMMA IndexWraps ==
    ASSUME NEW i \in Nat \ {0}, NEW n \in Nat \ {0}
    PROVE  ((i - 1) % n) + 1 \in 1 .. n
<1>1. (i - 1) % n \in 0 .. n - 1
  BY SMT
<1>. QED  BY <1>1

\* Repeating messages gives messages.
LEMMA TimesTyped ==
    ASSUME NEW S, NEW s \in Seq(S), NEW n \in Nat
    PROVE  Times(n, s) \in Seq(S)
<1>1. n * Len(s) \in Nat
  BY SMT
<1>2. ASSUME NEW i \in 1 .. n * Len(s)
      PROVE  s[((i - 1) % Len(s)) + 1] \in S
  <2>1. Len(s) \in Nat \ {0}
    BY <1>2, SMT
  <2>2. ((i - 1) % Len(s)) + 1 \in 1 .. Len(s)
    BY <2>1, <1>1, IndexWraps
  <2>. QED  BY <2>2
<1>3. [i \in 1 .. n * Len(s) |-> s[((i - 1) % Len(s)) + 1]] \in
          [1 .. n * Len(s) -> S]
  BY <1>2, Zenon
<1>4. \A m \in Nat : \A f \in [1 .. m -> S] : f \in Seq(S)
  OBVIOUS
<1>. QED  BY <1>1, <1>3, <1>4 DEF Times
-----------------------------------------------------------------------------
(***************************************************************************)
(* Types.                                                                  *)
(***************************************************************************)
\* A step of the main thread or of the network keeps the types.
LEMMA MainTypes ==
    ASSUME TypeOK,
           \/ Shutdown
           \/ \E c \in Connections : AcceptClient(c) \/ RejectClient(c) \/ PeerLeaves(c)
    PROVE  TypeOK'
<1>. USE DEF TypeOK, netVars, taskVars, batchVars, roomVars
<1>1. CASE Shutdown
  <2>1. NetTypes'
    BY <1>1 DEF Shutdown, NetTypes, Accepted
  <2>2. UNCHANGED <<taskVars, messages_in, messages_out, batchVars, roomVars, accepted>>
    BY <1>1 DEF Shutdown
  <2>. QED  BY <2>1, <2>2 DEF TaskTypes, QueueTypes, BatchTypes, RoomTypes, Accepted, rooms
<1>2. ASSUME NEW c \in Connections, AcceptClient(c) \/ RejectClient(c)
      PROVE  TypeOK'
  <2>1. /\ accepted' \in 1 .. MaxConnections /\ accepted' = accepted + 1
        /\ active' \subseteq active \cup {accepted'}
        /\ UNCHANGED <<listening, user, messages_in, messages_out, replies, requests,
                       batchVars, roomVars>>
    BY <1>2, BoundsAssumption
    DEF AcceptClient, RejectClient, AddConnection, NetTypes, Connections
  <2>2. Accepted \subseteq Accepted' /\ accepted' \in Accepted'
    BY <2>1, BoundsAssumption DEF Accepted, NetTypes
  <2>3. link' \in [Connections -> {"none", "open", "finished", "lost", "closed"}]
    BY <1>2 DEF AcceptClient, RejectClient, NetTypes
  <2>4. NetTypes'
    BY <2>1, <2>2, <2>3 DEF NetTypes
  <2>5. TaskTypes'
    <3>1. worker' \in [Connections -> {"none", "queued", "hello", "serving", "stuck", "done"}]
      BY <1>2 DEF AcceptClient, RejectClient, TaskTypes
    <3>2. sent' \in [Connections -> Seq(ServerMessages)]
      <4>1. <<create_nak>> \in Seq(ServerMessages)
        BY MessagesTyped
      <4>2. sent' \in {sent, [sent EXCEPT ![c] = <<create_nak>>]}
        BY <1>2 DEF AcceptClient, RejectClient
      <4>. QED  BY <4>1, <4>2 DEF TaskTypes
    <3>. QED  BY <3>1, <3>2, <2>1 DEF TaskTypes
  <2>6. BatchTypes'
    BY <2>1, <2>2 DEF BatchTypes, rooms
  <2>. QED  BY <2>1, <2>4, <2>5, <2>6 DEF QueueTypes, RoomTypes, rooms
<1>3. ASSUME NEW c \in Connections, PeerLeaves(c)
      PROVE  TypeOK'
  <2>1. NetTypes'
    BY <1>3 DEF PeerLeaves, NetTypes, Accepted
  <2>2. UNCHANGED <<taskVars, messages_in, messages_out, batchVars, roomVars, accepted>>
    BY <1>3 DEF PeerLeaves
  <2>. QED  BY <2>1, <2>2 DEF TaskTypes, QueueTypes, BatchTypes, RoomTypes, Accepted, rooms
<1>. QED  BY <1>1, <1>2, <1>3

\* A step of a client worker keeps the types.
LEMMA TaskStepTypes ==
    ASSUME TypeOK, NEW c \in Connections, ClientTask(c)
    PROVE  TypeOK'
<1>. USE DEF TypeOK, netVars, batchVars, roomVars, serverSide
<1>1. UNCHANGED <<netVars, batchVars, roomVars>>
  BY DEF ClientTask, StartTask, Hello, NoHello, Received, ReceiveHeartbeat, QueueRequest,
         SendQueued, FinishTask, TaskThrows, BadBlock, GetStuck
<1>2. TaskTypes' /\ QueueTypes'
  <2>. USE DEF TaskTypes, QueueTypes
  <2>1. CASE \/ StartTask(c) \/ NoHello(c) \/ FinishTask(c)
             \/ TaskThrows(c) \/ BadBlock(c) \/ GetStuck(c)
    <3>1. worker' \in [Connections -> {"none", "queued", "hello", "serving", "stuck", "done"}]
      BY <2>1 DEF StartTask, NoHello, FinishTask, TaskThrows, BadBlock, GetStuck
    <3>2. messages_out' \in [Connections -> Seq(ServerMessages)]
      <4>1. << >> \in Seq(ServerMessages)
        OBVIOUS
      <4>2. messages_out' \in {messages_out, [messages_out EXCEPT ![c] = << >>]}
        BY <2>1 DEF StartTask, NoHello, FinishTask, TaskThrows, BadBlock, GetStuck
      <4>. QED  BY <4>1, <4>2
    <3>3. UNCHANGED <<user, replies, sent, requests, messages_in>>
      BY <2>1 DEF StartTask, NoHello, FinishTask, TaskThrows, BadBlock, GetStuck
    <3>. QED  BY <3>1, <3>2, <3>3
  <2>2. CASE Hello(c)
    BY <2>2, MessagesTyped DEF Hello
  <2>3. CASE ReceiveHeartbeat(c)
    BY <2>3, MessagesTyped, BoundsAssumption DEF ReceiveHeartbeat, Received
  <2>4. ASSUME NEW m \in Request(requests + 1), QueueRequest(c, m)
        PROVE  TaskTypes' /\ QueueTypes'
    <3>1. requests + 1 \in 1 .. MaxRequests
      BY <2>4, BoundsAssumption DEF QueueRequest, Received
    <3>2. m \in Requests
      BY <3>1 DEF Requests
    <3>. QED  BY <2>4, <3>1, <3>2 DEF QueueRequest, Received
  <2>5. CASE SendQueued(c)
    BY <2>5 DEF SendQueued
  <2>. QED  BY <2>1, <2>2, <2>3, <2>4, <2>5 DEF ClientTask
<1>. QED  BY <1>1, <1>2 DEF NetTypes, BatchTypes, RoomTypes, Accepted, rooms
\* Popping a request leaves a queue of requests, and the popped one has its fields.
LEMMA PopTypes ==
    ASSUME TypeOK, NEW c \in Connections, NEW type, Pop(c, type)
    PROVE  /\ messages_in' \in [Connections -> Seq(Requests)]
           /\ Head(messages_in[c]) \in Requests
           /\ Head(messages_in[c]).type = type
           /\ UNCHANGED <<clientSide, pc, clients, todo, unsent>>
<1>1. messages_in[c] \in Seq(Requests) /\ messages_in[c] # << >>
  BY DEF TypeOK, QueueTypes, Pop
<1>2. Tail(messages_in[c]) \in Seq(Requests) /\ Head(messages_in[c]) \in Requests
  BY <1>1
<1>. QED  BY <1>2 DEF Pop, TypeOK, QueueTypes

\* A log can be looked up under every name.
LEMMA LogTyped == ASSUME TypeOK, NEW r PROVE recorded(r) \in Seq(Events)
<1>1. << >> \in Seq(Events)
  OBVIOUS
<1>. QED  BY <1>1 DEF TypeOK, RoomTypes, recorded

\* A step that handles a request keeps the types.
LEMMA HandlerTypes ==
    ASSUME TypeOK, NEW c \in Connections, Handle(c)
    PROVE  TypeOK'
<1>. DEFINE m == Head(messages_in[c])
<1>. USE DEF TypeOK
<1>1. /\ UNCHANGED <<clientSide, pc, clients, todo, unsent>>
      /\ messages_in' \in [Connections -> Seq(Requests)]
      /\ m \in Requests
  BY PopTypes DEF Handle, HandleRoomList, HandleRoomCreate, HandleRoomJoin,
                  HandleRoomDestroy, HandleRoomHistory, HandleChatSend, HandleOther
<1>2. SUFFICES /\ messages_out' \in [Connections -> Seq(ServerMessages)]
               /\ rooms \subseteq rooms'
               /\ new_rooms' \in Seq(rooms') /\ destroyed_rooms' \in Seq(rooms')
               /\ RoomTypes'
  BY <1>1 DEF NetTypes, TaskTypes, QueueTypes, BatchTypes, Accepted,
              clientSide, netVars, taskVars
<1>. USE DEF roomVars
<1>3. CASE HandleRoomList(c)
  BY <1>3, MessagesTyped
  DEF HandleRoomList, Reply, QueueTypes, BatchTypes, RoomTypes, rooms
<1>4. CASE HandleRoomCreate(c)
  <2>1. UNCHANGED <<messages_out, destroyed_rooms, history>> /\ m.room \in RoomNames
    BY <1>1, <1>4, PopTypes, RequestFields DEF HandleRoomCreate
  <2>2. CASE UNCHANGED <<room, new_rooms>>
    BY <2>1, <2>2 DEF QueueTypes, BatchTypes, RoomTypes, rooms
  <2>3. CASE /\ m.room \in ValidNames \ rooms
             /\ room' = With(room, m.room, [NewRoom EXCEPT !.joined[c] = 1])
             /\ new_rooms' = Append(new_rooms, m.room)
    <3>1. [NewRoom EXCEPT !.joined[c] = 1] \in ServerRooms
      <4>1. << >> \in Seq(Events)
        OBVIOUS
      <4>. QED  BY <4>1 DEF NewRoom, ServerRooms
    <3>2. rooms' = rooms \cup {m.room}
      BY <2>3 DEF With, rooms
    <3>3. room' \in [rooms' -> ServerRooms]
      BY <2>3, <3>1, <3>2 DEF With, rooms, RoomTypes
    <3>4. new_rooms' \in Seq(rooms') /\ destroyed_rooms' \in Seq(rooms')
      BY <2>1, <2>3, <3>2, SeqWidens DEF BatchTypes
    <3>. QED  BY <2>1, <2>3, <3>2, <3>3, <3>4 DEF QueueTypes, RoomTypes
  <2>. QED  BY <1>4, <2>2, <2>3 DEF HandleRoomCreate
<1>5. CASE HandleRoomJoin(c)
  <2>1. UNCHANGED <<messages_out, new_rooms, destroyed_rooms, history>>
    BY <1>5 DEF HandleRoomJoin
  <2>2. room' = room \/ (m.room \in rooms /\ room' = [room EXCEPT ![m.room].joined[c] = 1])
    BY <1>5 DEF HandleRoomJoin
  <2>3. rooms' = rooms /\ room' \in [rooms -> ServerRooms]
    <3>1. \A x \in ServerRooms : [x EXCEPT !.joined[c] = 1] \in ServerRooms
      BY DEF ServerRooms
    <3>. QED  BY <2>2, <3>1 DEF RoomTypes, rooms
  <2>. QED  BY <2>1, <2>3 DEF QueueTypes, BatchTypes, RoomTypes
<1>6. CASE HandleRoomDestroy(c)
  <2>1. UNCHANGED <<messages_out, new_rooms, history>>
    BY <1>6 DEF HandleRoomDestroy
  <2>2. \/ UNCHANGED <<room, destroyed_rooms>>
        \/ /\ m.room \in rooms
           /\ room' = [room EXCEPT ![m.room].destroy_requested = TRUE]
           /\ destroyed_rooms' = Append(destroyed_rooms, m.room)
    BY <1>6 DEF HandleRoomDestroy
  <2>. HIDE DEF m
  <2>3. rooms' = rooms /\ room' \in [rooms -> ServerRooms]
    <3>1. \A x \in ServerRooms : [x EXCEPT !.destroy_requested = TRUE] \in ServerRooms
      BY DEF ServerRooms
    <3>. QED  BY <2>2, <3>1 DEF RoomTypes, rooms
  <2>4. destroyed_rooms' \in Seq(rooms)
    <3>1. \A s \in Seq(rooms), r \in rooms : Append(s, r) \in Seq(rooms)
      OBVIOUS
    <3>2. destroyed_rooms \in Seq(rooms)
      BY DEF BatchTypes
    <3>. QED  BY <2>2, <3>1, <3>2
  <2>. QED  BY <2>1, <2>3, <2>4 DEF QueueTypes, BatchTypes, RoomTypes
<1>7. CASE HandleRoomHistory(c)
  <2>1. UNCHANGED <<new_rooms, destroyed_rooms, room, history>>
    BY <1>7 DEF HandleRoomHistory
  <2>2. CASE UNCHANGED messages_out
    BY <2>1, <2>2 DEF QueueTypes, BatchTypes, RoomTypes, rooms
  <2>3. CASE /\ m.event_count \in 0 .. HistoryMax /\ m.room \in rooms
             /\ Reply(c, get_room_history(m.room, recorded(m.room), m.event_count))
    <3>1. m.event_count \in Nat /\ m.room \in ValidNames
      BY <2>3, BoundsAssumption DEF RoomTypes
    <3>2. get_room_history(m.room, recorded(m.room), m.event_count) \in ServerMessages
      BY <3>1, HistoryMessageTyped, LogTyped
    <3>. QED  BY <2>1, <2>3, <3>2 DEF Reply, QueueTypes, BatchTypes, RoomTypes, rooms
  <2>. QED  BY <1>7, <2>2, <2>3 DEF HandleRoomHistory
<1>8. CASE HandleChatSend(c)
  <2>. DEFINE e == RoomEvent(user[c], m.text)
  <2>1. UNCHANGED <<messages_out, new_rooms, destroyed_rooms>>
    BY <1>8 DEF HandleChatSend
  <2>2. e \in Events
    <3>1. m.text \in 1 .. MaxRequests
      BY <1>1, <1>8, PopTypes, RequestFields DEF HandleChatSend
    <3>. QED  BY <3>1 DEF RoomEvent, Events, TaskTypes
  <2>3. CASE UNCHANGED roomVars
    BY <2>1, <2>3 DEF QueueTypes, BatchTypes, RoomTypes, rooms
  <2>4. CASE /\ m.room \in rooms
             /\ history' = With(history, m.room,
                                Recorded(recorded(m.room), e, HistoryLimit))
             /\ room' = [room EXCEPT ![m.room].events = Append(@, e)]
    <3>1. rooms' = rooms /\ room' \in [rooms -> ServerRooms]
      <4>. HIDE DEF e
      <4>1. Append(room[m.room].events, e) \in Seq(Events)
        BY <2>2, <2>4 DEF RoomTypes, ServerRooms
      <4>. QED  BY <2>4, <4>1 DEF RoomTypes, ServerRooms, rooms
    <3>2. Recorded(recorded(m.room), e, HistoryLimit) \in Seq(Events)
      BY <2>2, LogTyped, RecordedTyped, BoundsAssumption
    <3>3. history' \in [DOMAIN history' -> Seq(Events)]
      BY <2>4, <3>2 DEF With, RoomTypes
    <3>. QED  BY <2>1, <3>1, <3>3 DEF QueueTypes, BatchTypes, RoomTypes
  <2>. QED  BY <1>8, <2>3, <2>4 DEF HandleChatSend
<1>9. CASE HandleOther(c)
  BY <1>9 DEF HandleOther, QueueTypes, BatchTypes, RoomTypes, rooms
<1>. QED  BY <1>3, <1>4, <1>5, <1>6, <1>7, <1>8, <1>9 DEF Handle
\* So does every other step of the server worker.
LEMMA BatchStepTypes ==
    ASSUME TypeOK,
           \/ StartBatch \/ StopServing \/ Announce \/ CleanUp
           \/ \E c \in Connections : NextClient(c)
           \/ \E r \in rooms : Echo(r)
    PROVE  TypeOK'
<1>. USE DEF TypeOK
<1>1. UNCHANGED <<clientSide, messages_in>>
  BY DEF StartBatch, StopServing, Announce, CleanUp, NextClient, Echo
<1>2. SUFFICES /\ messages_out' \in [Connections -> Seq(ServerMessages)]
               /\ BatchTypes' /\ RoomTypes'
  BY <1>1 DEF NetTypes, TaskTypes, QueueTypes, Accepted, clientSide, netVars, taskVars
<1>3. Accepted' = Accepted
  BY <1>1 DEF clientSide, netVars, Accepted
<1>. USE DEF QueueTypes, BatchTypes, RoomTypes
<1>4. CASE StartBatch \/ StopServing \/ \E c \in Connections : NextClient(c)
  <2>1. /\ UNCHANGED <<messages_out, room, history, unsent>>
        /\ rooms' = rooms
    BY <1>4 DEF StartBatch, StopServing, NextClient, roomVars, rooms
  <2>2. BatchTypes'
    <3>1. CASE StartBatch
      <4>1. << >> \in Seq(rooms)
        OBVIOUS
      <4>. QED  BY <3>1, <2>1, <1>3, <4>1 DEF StartBatch, NetTypes
    <3>2. CASE StopServing
      BY <3>2, <2>1, <1>3 DEF StopServing
    <3>3. ASSUME NEW c \in Connections, NextClient(c)
          PROVE  BatchTypes'
      BY <3>3, <2>1, <1>3 DEF NextClient, Gathering
    <3>. QED  BY <1>4, <3>1, <3>2, <3>3
  <2>. QED  BY <2>1, <2>2
<1>5. CASE Announce
  <2>1. announcements \in Seq(ServerMessages)
    <3>1. \A i \in DOMAIN new_rooms : create_room_create(new_rooms[i]) \in ServerMessages
      BY MessagesTyped
    <3>2. \A i \in DOMAIN destroyed_rooms :
             create_room_destroy(destroyed_rooms[i]) \in ServerMessages
      BY MessagesTyped
    <3>3. [i \in DOMAIN new_rooms |-> create_room_create(new_rooms[i])]
             \in Seq(ServerMessages)
      BY <3>1
    <3>4. [i \in DOMAIN destroyed_rooms |-> create_room_destroy(destroyed_rooms[i])]
             \in Seq(ServerMessages)
      BY <3>2, MapTyped
    <3>. QED  BY <3>3, <3>4 DEF announcements
  <2>2. messages_out' \in [Connections -> Seq(ServerMessages)]
    <3>1. << >> \in Seq(ServerMessages)
      OBVIOUS
    <3>. QED  BY <1>5, <2>1, <3>1 DEF Announce
  <2>. QED  BY <1>5, <1>3, <2>2 DEF Announce, rooms, roomVars
<1>6. ASSUME NEW r \in rooms, Echo(r)
      PROVE  /\ messages_out' \in [Connections -> Seq(ServerMessages)]
             /\ BatchTypes' /\ RoomTypes'
  <2>. DEFINE joined == [c \in Connections |-> IF Owned(c) THEN room[r].joined[c] ELSE 0]
              events == room[r].events
              echoes == [i \in DOMAIN events |-> create_chat_echo(r, events[i])]
  <2>1. room[r] \in ServerRooms /\ r \in ValidNames
    OBVIOUS
  <2>2. joined \in [Connections -> Nat] /\ events \in Seq(Events)
    BY <2>1 DEF ServerRooms
  <2>3. echoes \in Seq(ServerMessages)
    <3>1. \A i \in DOMAIN events : create_chat_echo(r, events[i]) \in ServerMessages
      BY <2>1, <2>2, MessagesTyped
    <3>. QED  BY <2>2, <3>1, MapTyped
  <2>4. /\ room' = [room EXCEPT ![r].joined = joined, ![r].events = << >>]
        /\ messages_out' = [c \in Connections |-> messages_out[c] \o Times(joined[c], echoes)]
        /\ unsent' = unsent \ {r}
        /\ UNCHANGED <<pc, clients, todo, new_rooms, destroyed_rooms, history>>
    BY <1>6 DEF Echo
  <2>. HIDE DEF joined, events, echoes
  <2>5. messages_out' \in [Connections -> Seq(ServerMessages)]
    <3>1. \A c \in Connections : Times(joined[c], echoes) \in Seq(ServerMessages)
      BY <2>2, <2>3, TimesTyped
    <3>. QED  BY <2>4, <3>1
  <2>6. rooms' = rooms /\ room' \in [rooms -> ServerRooms]
    <3>1. [room[r] EXCEPT !.joined = joined, !.events = << >>] \in ServerRooms
      <4>1. << >> \in Seq(Events)
        OBVIOUS
      <4>. QED  BY <2>1, <2>2, <4>1 DEF ServerRooms
    <3>. QED  BY <2>4, <3>1 DEF rooms
  <2>. QED  BY <2>4, <2>5, <2>6, <1>3
<1>7. CASE CleanUp
  <2>1. rooms' \subseteq rooms /\ room' \in [rooms' -> ServerRooms]
    BY <1>7 DEF CleanUp, Without, rooms
  <2>2. history' \in [DOMAIN history' -> Seq(Events)]
    BY <1>7 DEF CleanUp, Without
  <2>3. BatchTypes'
    <3>1. << >> \in Seq(rooms')
      OBVIOUS
    <3>. QED  BY <1>7, <3>1, <1>3 DEF CleanUp
  <2>. QED  BY <1>7, <2>1, <2>2, <2>3 DEF CleanUp
<1>. QED  BY <1>4, <1>5, <1>6, <1>7

\* All variables keep their types: queues hold well-formed messages of valid rooms,
\* the batch lists name existing rooms, room events come from known origins.
THEOREM TypeCorrect == Spec => []TypeOK
<1>1. Init => TypeOK
  <2>. SUFFICES ASSUME Init
                PROVE  TypeOK
    OBVIOUS
  <2>1. << >> \in Seq(Events) /\ << >> \in Seq(ServerMessages) /\ << >> \in Seq(Requests)
    OBVIOUS
  <2>2. NetTypes /\ TaskTypes /\ QueueTypes
    BY <2>1, BoundsAssumption DEF Init, NetTypes, TaskTypes, QueueTypes, Accepted
  <2>3. rooms = InitialRooms \cap ValidNames /\ NewRoom \in ServerRooms
    BY <2>1 DEF Init, rooms, NewRoom, ServerRooms
  <2>4. RoomTypes
    BY <2>3 DEF Init, RoomTypes
  <2>5. BatchTypes
    BY DEF Init, BatchTypes
  <2>. QED  BY <2>2, <2>4, <2>5 DEF TypeOK
<1>2. TypeOK /\ [Next]_vars => TypeOK'
  <2>. SUFFICES ASSUME TypeOK, [Next]_vars
                PROVE  TypeOK'
    OBVIOUS
  <2>1. CASE UNCHANGED vars
    BY <2>1 DEF TypeOK, vars, netVars, taskVars, batchVars, roomVars, NetTypes, TaskTypes,
                QueueTypes, BatchTypes, RoomTypes, Accepted, rooms
  <2>2. CASE MainThread \/ \E c \in Connections : PeerLeaves(c)
    BY <2>2, MainTypes DEF MainThread
  <2>3. CASE \E c \in Connections : ClientTask(c)
    BY <2>3, TaskStepTypes
  <2>4. CASE ServerWorker
    BY <2>4, HandlerTypes, BatchStepTypes DEF ServerWorker
  <2>. QED  BY <2>1, <2>2, <2>3, <2>4 DEF Next
<1>. QED  BY <1>1, <1>2, PTL DEF Spec
-----------------------------------------------------------------------------
(***************************************************************************)
(* Destroyed rooms and their histories.                                    *)
(***************************************************************************)

\* Only the server worker touches the rooms, its lists and its own position.
LEMMA OthersLeaveRooms ==
    ASSUME \/ MainThread \/ UNCHANGED vars
           \/ \E c \in Connections : ClientTask(c) \/ PeerLeaves(c)
    PROVE  UNCHANGED <<pc, destroyed_rooms, room, history, rooms>>
BY DEF MainThread, Shutdown, AcceptClient, RejectClient, AddConnection, PeerLeaves,
       ClientTask, StartTask, Hello, NoHello, Received, ReceiveHeartbeat, QueueRequest,
       SendQueued, FinishTask, TaskThrows, BadBlock, GetStuck, vars, batchVars, roomVars,
       serverSide, rooms

\* A step keeps the marks of the rooms and the names gathered together.
LEMMA DoomedStayGathered == TypeOK /\ DoomedAreGathered /\ [Next]_vars => DoomedAreGathered'
<1>. SUFFICES ASSUME TypeOK, DoomedAreGathered, [Next]_vars
              PROVE  DoomedAreGathered'
  OBVIOUS
<1>. DEFINE Doomed == {r \in rooms : room[r].destroy_requested}
<1>1. CASE \/ MainThread \/ UNCHANGED vars
           \/ \E c \in Connections : ClientTask(c) \/ PeerLeaves(c)
  BY <1>1, OthersLeaveRooms DEF DoomedAreGathered
<1>2. CASE StartBatch
  BY <1>2 DEF StartBatch, DoomedAreGathered, roomVars, rooms, Elements
<1>3. CASE StopServing
  BY <1>3 DEF StopServing, DoomedAreGathered, roomVars, rooms
<1>4. CASE CleanUp
  <2>1. Doomed' = {}
    BY <1>4 DEF CleanUp, Without, rooms
  <2>. QED  BY <1>4, <2>1 DEF CleanUp, DoomedAreGathered, Elements
<1>5. CASE Announce
  BY <1>5 DEF Announce, DoomedAreGathered, roomVars, rooms
<1>6. ASSUME NEW r \in rooms, Echo(r)
      PROVE  DoomedAreGathered'
  <2>1. rooms' = rooms /\ \A q \in rooms :
                room'[q].destroy_requested = room[q].destroy_requested
    BY <1>6 DEF Echo, rooms, TypeOK, RoomTypes, ServerRooms
  <2>. QED  BY <1>6, <2>1 DEF Echo, DoomedAreGathered
<1>7. ASSUME NEW c \in Connections, NextClient(c) \/ Handle(c)
      PROVE  DoomedAreGathered'
  <2>1. pc' # "sleep"
    BY <1>7 DEF NextClient, Handle, HandleRoomList, HandleRoomCreate, HandleRoomJoin,
                HandleRoomDestroy, HandleRoomHistory, HandleChatSend, HandleOther, Pop,
                Gathering
  <2>. SUFFICES Doomed' = Elements(destroyed_rooms')
    BY <2>1 DEF DoomedAreGathered
  <2>2. CASE HandleRoomDestroy(c)
    <3>. DEFINE q == Head(messages_in[c]).room
    <3>1. \/ UNCHANGED <<room, destroyed_rooms>>
          \/ /\ q \in rooms
             /\ room' = [room EXCEPT ![q].destroy_requested = TRUE]
             /\ destroyed_rooms' = Append(destroyed_rooms, q)
      BY <2>2 DEF HandleRoomDestroy
    <3>. HIDE DEF q
    <3>2. CASE UNCHANGED <<room, destroyed_rooms>>
      BY <3>2 DEF DoomedAreGathered, rooms
    <3>3. CASE /\ q \in rooms
               /\ room' = [room EXCEPT ![q].destroy_requested = TRUE]
               /\ destroyed_rooms' = Append(destroyed_rooms, q)
      <4>1. Doomed' = Doomed \cup {q}
        BY <3>3 DEF rooms, TypeOK, RoomTypes, ServerRooms
      <4>2. Elements(destroyed_rooms') = Elements(destroyed_rooms) \cup {q}
        BY <3>3 DEF Elements, TypeOK, BatchTypes
      <4>. QED  BY <4>1, <4>2 DEF DoomedAreGathered
    <3>. QED  BY <3>1, <3>2, <3>3
  <2>3. CASE HandleRoomCreate(c)
    <3>1. destroyed_rooms' = destroyed_rooms /\
          \/ room' = room
          \/ \E q \in ValidNames \ rooms :
                room' = With(room, q, [NewRoom EXCEPT !.joined[c] = 1])
      BY <2>3 DEF HandleRoomCreate
    <3>2. Doomed' = Doomed
      BY <3>1 DEF With, rooms, NewRoom
    <3>. QED  BY <3>1, <3>2 DEF DoomedAreGathered
  <2>4. CASE HandleRoomJoin(c) \/ HandleChatSend(c)
    <3>1. rooms' = rooms /\ \A q \in rooms :
                room'[q].destroy_requested = room[q].destroy_requested
      <4>. DEFINE m == Head(messages_in[c])
      <4>1. \/ UNCHANGED room
            \/ room' = [room EXCEPT ![m.room].joined[c] = 1]
            \/ \E e : room' = [room EXCEPT ![m.room].events = Append(@, e)]
        BY <2>4 DEF HandleRoomJoin, HandleChatSend, roomVars
      <4>2. \A x \in ServerRooms : \A e :
               /\ [x EXCEPT !.joined[c] = 1].destroy_requested = x.destroy_requested
               /\ [x EXCEPT !.events = Append(@, e)].destroy_requested
                     = x.destroy_requested
        BY DEF ServerRooms
      <4>. HIDE DEF m
      <4>3. CASE UNCHANGED room
        BY <4>3 DEF rooms
      <4>4. CASE room' = [room EXCEPT ![m.room].joined[c] = 1]
        BY <4>2, <4>4 DEF rooms, TypeOK, RoomTypes
      <4>5. ASSUME NEW e, room' = [room EXCEPT ![m.room].events = Append(@, e)]
            PROVE  rooms' = rooms /\ \A q \in rooms :
                room'[q].destroy_requested = room[q].destroy_requested
        BY <4>2, <4>5 DEF rooms, TypeOK, RoomTypes
      <4>. QED  BY <4>1, <4>3, <4>4, <4>5
    <3>2. destroyed_rooms' = destroyed_rooms
      BY <2>4 DEF HandleRoomJoin, HandleChatSend
    <3>. QED  BY <3>1, <3>2 DEF DoomedAreGathered
  <2>5. CASE \/ NextClient(c) \/ HandleRoomList(c) \/ HandleRoomHistory(c)
             \/ HandleOther(c)
    BY <2>5 DEF NextClient, HandleRoomList, HandleRoomHistory, HandleOther,
                DoomedAreGathered, roomVars, rooms
  <2>. QED  BY <1>7, <2>2, <2>3, <2>4, <2>5 DEF Handle
<1>. QED  BY <1>1, <1>2, <1>3, <1>4, <1>5, <1>6, <1>7 DEF Next, ServerWorker

\* A room is marked for destruction exactly when its name was gathered; when a batch
\* ends no mark and no name is left.
THEOREM DoomedRooms == Spec => []DoomedAreGathered
<1>1. Init => DoomedAreGathered
  BY DEF Init, DoomedAreGathered, Elements, rooms, NewRoom
<1>2. TypeOK /\ DoomedAreGathered /\ [Next]_vars => DoomedAreGathered'
  BY DoomedStayGathered
<1>. QED  BY <1>1, <1>2, TypeCorrect, PTL DEF Spec

\* No history is kept under a name that is not that of a room: events are recorded
\* for existing rooms, and the names whose histories are erased are, by the theorem
\* above, those of the rooms that are removed.
THEOREM HistoriesOfRooms == Spec => []HistoryOnlyForRooms
<1>1. Init => HistoryOnlyForRooms
  BY DEF Init, HistoryOnlyForRooms
<1>2. DoomedAreGathered /\ HistoryOnlyForRooms /\ [Next]_vars => HistoryOnlyForRooms'
  <2>. SUFFICES ASSUME DoomedAreGathered, HistoryOnlyForRooms, [Next]_vars
                PROVE  HistoryOnlyForRooms'
    OBVIOUS
  <2>. USE DEF HistoryOnlyForRooms, rooms
  <2>1. CASE \/ MainThread \/ UNCHANGED vars
             \/ \E c \in Connections : ClientTask(c) \/ PeerLeaves(c)
    BY <2>1, OthersLeaveRooms
  <2>2. CASE StartBatch \/ StopServing \/ Announce \/ \E c \in Connections : NextClient(c)
    BY <2>2 DEF StartBatch, StopServing, Announce, NextClient, roomVars
  <2>3. ASSUME NEW c \in Connections, Handle(c)
        PROVE  HistoryOnlyForRooms'
    <3>1. CASE \/ HandleRoomList(c) \/ HandleRoomJoin(c) \/ HandleRoomDestroy(c)
               \/ HandleRoomHistory(c) \/ HandleOther(c)
      BY <3>1 DEF HandleRoomList, HandleRoomJoin, HandleRoomDestroy, HandleRoomHistory,
                  HandleOther, roomVars
    <3>2. CASE HandleRoomCreate(c)
      BY <3>2 DEF HandleRoomCreate, With
    <3>3. CASE HandleChatSend(c)
      BY <3>3 DEF HandleChatSend, With, roomVars
    <3>. QED  BY <2>3, <3>1, <3>2, <3>3 DEF Handle
  <2>4. CASE \E r \in rooms : Echo(r)
    BY <2>4 DEF Echo
  <2>5. CASE CleanUp
    BY <2>5 DEF CleanUp, Without, DoomedAreGathered
  <2>. QED  BY <2>1, <2>2, <2>3, <2>4, <2>5 DEF Next, ServerWorker
<1>. QED  BY <1>1, <1>2, DoomedRooms, PTL DEF Spec
-----------------------------------------------------------------------------
(***************************************************************************)
(* Memberships.                                                            *)
(***************************************************************************)

\* No step enters a connection twice in a room.
LEMMA MembershipsStayOnce == TypeOK /\ JoinedOnce /\ [Next]_vars => JoinedOnce'
<1>. SUFFICES ASSUME TypeOK, JoinedOnce, [Next]_vars
              PROVE  JoinedOnce'
  OBVIOUS
<1>1. CASE \/ MainThread \/ UNCHANGED vars
           \/ \E c \in Connections : ClientTask(c) \/ PeerLeaves(c)
  BY <1>1, OthersLeaveRooms DEF JoinedOnce
<1>2. CASE StartBatch \/ StopServing \/ Announce \/ \E c \in Connections : NextClient(c)
  BY <1>2 DEF StartBatch, StopServing, Announce, NextClient, roomVars, JoinedOnce, rooms
<1>3. CASE CleanUp
  BY <1>3 DEF CleanUp, Without, JoinedOnce, rooms
<1>4. ASSUME NEW r \in rooms, Echo(r)
      PROVE  JoinedOnce'
  <2>1. rooms' = rooms /\ \A q \in rooms, c \in Connections :
                room'[q].joined[c] \in {0, room[q].joined[c]}
    <3>. DEFINE joined == [c \in Connections |-> IF Owned(c) THEN room[r].joined[c] ELSE 0]
    <3>1. \A c \in Connections : joined[c] \in {0, room[r].joined[c]}
      OBVIOUS
    <3>2. room' = [room EXCEPT ![r].joined = joined, ![r].events = << >>]
      BY <1>4 DEF Echo
    <3>. HIDE DEF joined
    <3>3. \A x \in ServerRooms :
            [x EXCEPT !.joined = joined, !.events = << >>].joined = joined
      BY DEF ServerRooms
    <3>. QED  BY <3>1, <3>2, <3>3 DEF rooms, TypeOK, RoomTypes
  <2>. QED  BY <2>1 DEF JoinedOnce
<1>5. ASSUME NEW c \in Connections, Handle(c)
      PROVE  JoinedOnce'
  <2>. DEFINE m == Head(messages_in[c])
  <2>1. CASE \/ HandleRoomList(c) \/ HandleRoomHistory(c) \/ HandleOther(c)
    BY <2>1 DEF HandleRoomList, HandleRoomHistory, HandleOther, roomVars, JoinedOnce, rooms
  <2>2. CASE HandleRoomCreate(c)
    <3>1. \/ UNCHANGED room
          \/ \E q \in ValidNames \ rooms :
                room' = With(room, q, [NewRoom EXCEPT !.joined[c] = 1])
      BY <2>2 DEF HandleRoomCreate
    <3>2. \A d \in Connections : [NewRoom EXCEPT !.joined[c] = 1].joined[d] \in {0, 1}
      BY DEF NewRoom
    <3>3. CASE UNCHANGED room
      BY <3>3 DEF JoinedOnce, rooms
    <3>4. ASSUME NEW q \in ValidNames \ rooms,
                 room' = With(room, q, [NewRoom EXCEPT !.joined[c] = 1])
          PROVE  JoinedOnce'
      <4>1. \A r \in rooms' : \/ r = q /\ room'[r] = [NewRoom EXCEPT !.joined[c] = 1]
                              \/ r \in rooms /\ room'[r] = room[r]
        BY <3>4 DEF With, rooms
      <4>. QED  BY <3>2, <4>1 DEF JoinedOnce
    <3>. QED  BY <3>1, <3>3, <3>4
  <2>3. CASE HandleRoomJoin(c)
    <3>1. UNCHANGED room \/ room' = [room EXCEPT ![m.room].joined[c] = 1]
      BY <2>3 DEF HandleRoomJoin
    <3>2. \A x \in ServerRooms, d \in Connections :
            [x EXCEPT !.joined[c] = 1].joined[d] \in {1, x.joined[d]}
      BY DEF ServerRooms
    <3>. HIDE DEF m
    <3>3. CASE UNCHANGED room
      BY <3>3 DEF JoinedOnce, rooms
    <3>4. CASE room' = [room EXCEPT ![m.room].joined[c] = 1]
      <4>1. rooms' = rooms /\ \A r \in rooms, d \in Connections :
                room'[r].joined[d] \in {1, room[r].joined[d]}
        BY <3>2, <3>4 DEF rooms, TypeOK, RoomTypes
      <4>. QED  BY <4>1 DEF JoinedOnce
    <3>. QED  BY <3>1, <3>3, <3>4
  <2>4. CASE HandleRoomDestroy(c)
    <3>1. UNCHANGED room \/ room' = [room EXCEPT ![m.room].destroy_requested = TRUE]
      BY <2>4 DEF HandleRoomDestroy
    <3>2. \A x \in ServerRooms : [x EXCEPT !.destroy_requested = TRUE].joined = x.joined
      BY DEF ServerRooms
    <3>. HIDE DEF m
    <3>3. CASE UNCHANGED room
      BY <3>3 DEF JoinedOnce, rooms
    <3>4. CASE room' = [room EXCEPT ![m.room].destroy_requested = TRUE]
      <4>1. rooms' = rooms /\ \A r \in rooms, d \in Connections :
                room'[r].joined[d] = room[r].joined[d]
        BY <3>2, <3>4 DEF rooms, TypeOK, RoomTypes
      <4>. QED  BY <4>1 DEF JoinedOnce
    <3>. QED  BY <3>1, <3>3, <3>4
  <2>5. CASE HandleChatSend(c)
    <3>1. \/ UNCHANGED room
          \/ \E e : room' = [room EXCEPT ![m.room].events = Append(@, e)]
      BY <2>5 DEF HandleChatSend, roomVars
    <3>2. \A x \in ServerRooms : \A e :
            [x EXCEPT !.events = Append(@, e)].joined = x.joined
      BY DEF ServerRooms
    <3>. HIDE DEF m
    <3>3. CASE UNCHANGED room
      BY <3>3 DEF JoinedOnce, rooms
    <3>4. ASSUME NEW e, room' = [room EXCEPT ![m.room].events = Append(@, e)]
          PROVE  JoinedOnce'
      <4>1. rooms' = rooms /\ \A r \in rooms, d \in Connections :
                room'[r].joined[d] = room[r].joined[d]
        BY <3>2, <3>4 DEF rooms, TypeOK, RoomTypes
      <4>. QED  BY <4>1 DEF JoinedOnce
    <3>. QED  BY <3>1, <3>3, <3>4
  <2>. QED  BY <1>5, <2>1, <2>2, <2>3, <2>4, <2>5 DEF Handle
<1>. QED  BY <1>1, <1>2, <1>3, <1>4, <1>5 DEF Next, ServerWorker

\* No connection is entered twice in a room, whatever it asks for and however often.
THEOREM MembersOnce == Spec => []JoinedOnce
<1>1. Init => JoinedOnce
  BY DEF Init, JoinedOnce, NewRoom, rooms
<1>. QED  BY <1>1, MembershipsStayOnce, TypeCorrect, PTL DEF Spec
-----------------------------------------------------------------------------
(***************************************************************************)
(* Handshakes.  HandshakeFirst speaks of what was sent and of the recorded *)
(* events; it is inductive together with what each position of a task says *)
(* of its handshake, and with the fact that requests wait only for those   *)
(* who completed theirs, under the name they gave in it.                   *)
(***************************************************************************)
Acked(c) == sent[c] # << >> /\ sent[c][1] = create_ack

HandshakeState(c) ==
    /\ c > accepted => worker[c] = "none" /\ sent[c] = << >>
    /\ worker[c] = "none" => sent[c] \in {<< >>, <<create_nak>>}
    /\ worker[c] \in {"queued", "hello"} => sent[c] = << >>
    /\ worker[c] \in {"serving", "stuck"} => Acked(c) /\ user[c] = c
    /\ worker[c] = "done" => sent[c] = << >> \/ Acked(c)
    /\ messages_in[c] # << >> => Acked(c) /\ user[c] = c

\* The events of clients whose handshake is complete.
AckedEvents == {e \in Events : e.origin \in Connections /\ Acked(e.origin)}

Handshaken ==
    /\ \A c \in Connections : HandshakeState(c)
    /\ history \in [DOMAIN history -> Seq(AckedEvents)]

\* The strengthened invariant says what is wanted.
LEMMA HandshakenSuffices == TypeOK /\ Handshaken => HandshakeFirst
<1>. SUFFICES ASSUME TypeOK, Handshaken
              PROVE  HandshakeFirst
  OBVIOUS
<1>1. ASSUME NEW c \in Connections, sent[c] # << >>, worker[c] = "none"
      PROVE  sent[c] = <<create_nak>>
  BY <1>1 DEF Handshaken, HandshakeState
<1>2. ASSUME NEW c \in Connections, sent[c] # << >>, worker[c] # "none"
      PROVE  sent[c][1] = create_ack
  BY <1>2 DEF Handshaken, HandshakeState, Acked, TypeOK, TaskTypes
<1>3. ASSUME NEW r \in DOMAIN history, NEW e \in Elements(history[r])
      PROVE  e.origin # NoUser /\ sent[e.origin] # << >>
  <2>1. e \in AckedEvents
    BY <1>3 DEF Handshaken, Elements
  <2>. QED  BY <2>1 DEF AckedEvents, Acked, Connections, NoUser
<1>. QED  BY <1>1, <1>2, <1>3 DEF HandshakeFirst

\* An event that was recorded for an ACKed client stays one, whatever else is sent.
LEMMA HistoriesStayAcked ==
    ASSUME Handshaken, \A c \in Connections : Acked(c) => Acked(c)',
           history' = history
    PROVE  history' \in [DOMAIN history' -> Seq(AckedEvents')]
<1>1. AckedEvents \subseteq AckedEvents'
  BY DEF AckedEvents, Events
<1>2. Seq(AckedEvents) \subseteq Seq(AckedEvents')
  BY <1>1, SeqWidens
<1>. QED  BY <1>2 DEF Handshaken

\* Accepting, rejecting, shutting down and losing peers.
LEMMA MainKeepsHandshakes ==
    ASSUME TypeOK, Handshaken,
           \/ Shutdown
           \/ \E c \in Connections : AcceptClient(c) \/ RejectClient(c) \/ PeerLeaves(c)
    PROVE  Handshaken'
<1>1. CASE Shutdown \/ \E c \in Connections : PeerLeaves(c)
  <2>1. UNCHANGED <<accepted, worker, user, sent, messages_in, history>>
    BY <1>1 DEF Shutdown, PeerLeaves, taskVars, roomVars
  <2>. QED  BY <2>1 DEF Handshaken, HandshakeState, Acked, AckedEvents
<1>2. ASSUME NEW c \in Connections, AcceptClient(c) \/ RejectClient(c)
      PROVE  Handshaken'
  <2>1. /\ accepted' = accepted + 1 /\ c = accepted + 1 /\ accepted \in Nat
        /\ UNCHANGED <<user, messages_in, history>>
    BY <1>2, BoundsAssumption
    DEF AcceptClient, RejectClient, AddConnection, TypeOK, NetTypes, roomVars
  <2>2. worker[c] = "none" /\ sent[c] = << >> /\ messages_in[c] = << >>
    BY <2>1 DEF Handshaken, HandshakeState, Acked
  <2>3. \/ worker' = [worker EXCEPT ![c] = "queued"] /\ sent' = sent
        \/ worker' = worker /\ sent' = [sent EXCEPT ![c] = <<create_nak>>]
    BY <1>2 DEF AcceptClient, RejectClient
  <2>4. \A d \in Connections : Acked(d) => Acked(d)'
    BY <2>2, <2>3 DEF Acked, TypeOK, TaskTypes
  <2>5. ASSUME NEW d \in Connections
        PROVE  HandshakeState(d)'
    <3>1. CASE d = c
      BY <2>1, <2>2, <2>3, <3>1 DEF HandshakeState, TypeOK, TaskTypes
    <3>2. CASE d # c
      <4>1. worker'[d] = worker[d] /\ sent'[d] = sent[d]
        BY <2>3, <3>2 DEF TypeOK, TaskTypes
      <4>2. d > accepted' => d > accepted
        BY <2>1 DEF Connections
      <4>. QED  BY <2>1, <4>1, <4>2 DEF Handshaken, HandshakeState, Acked
    <3>. QED  BY <3>1, <3>2
  <2>. QED  BY <2>1, <2>4, <2>5, HistoriesStayAcked DEF Handshaken
<1>. QED  BY <1>1, <1>2

\* The steps of a client worker.
LEMMA TaskKeepsHandshakes ==
    ASSUME TypeOK, Handshaken, NEW c \in Connections, ClientTask(c)
    PROVE  Handshaken'
<1>1. accepted' = accepted /\ history' = history
  BY DEF ClientTask, StartTask, Hello, NoHello, Received, ReceiveHeartbeat, QueueRequest,
         SendQueued, FinishTask, TaskThrows, BadBlock, GetStuck, netVars, roomVars, serverSide
<1>2. ASSUME NEW d \in Connections \ {c}
      PROVE  /\ worker'[d] = worker[d] /\ user'[d] = user[d]
             /\ sent'[d] = sent[d] /\ messages_in'[d] = messages_in[d]
  BY DEF ClientTask, StartTask, Hello, NoHello, Received, ReceiveHeartbeat, QueueRequest,
         SendQueued, FinishTask, TaskThrows, BadBlock, GetStuck, TypeOK, TaskTypes, QueueTypes
<1>3. SUFFICES HandshakeState(c)' /\ (Acked(c) => Acked(c)')
  <2>1. \A d \in Connections : Acked(d) => Acked(d)'
    BY <1>2, <1>3 DEF Acked
  <2>2. \A d \in Connections : HandshakeState(d)'
    BY <1>1, <1>2, <1>3 DEF Handshaken, HandshakeState, Acked
  <2>. QED  BY <1>1, <2>1, <2>2, HistoriesStayAcked DEF Handshaken
<1>4. HandshakeState(c)
  BY DEF Handshaken
<1>. USE DEF TypeOK, TaskTypes, QueueTypes
<1>5. CASE StartTask(c)
  BY <1>1, <1>4, <1>5 DEF StartTask, HandshakeState, Acked
<1>6. CASE Hello(c)
  <2>1. /\ sent[c] = << >> /\ ~(c > accepted) /\ messages_in[c] = << >>
    BY <1>4, <1>6 DEF Hello, HandshakeState, Acked
  <2>2. /\ sent'[c] = <<create_ack>> /\ user'[c] = c /\ worker'[c] = "serving"
        /\ messages_in' = messages_in
    BY <1>6, <2>1 DEF Hello
  <2>. QED  BY <1>1, <2>1, <2>2 DEF HandshakeState, Acked
<1>7. CASE NoHello(c) \/ FinishTask(c) \/ TaskThrows(c) \/ BadBlock(c) \/ GetStuck(c)
  <2>1. /\ worker[c] \in {"hello", "serving", "stuck"} /\ worker'[c] \in {"stuck", "done"}
        /\ worker'[c] = "stuck" => worker[c] = "serving"
        /\ UNCHANGED <<user, sent, messages_in>>
    BY <1>7 DEF NoHello, FinishTask, TaskThrows, BadBlock, GetStuck
  <2>. QED  BY <1>1, <1>4, <2>1 DEF HandshakeState, Acked
<1>8. CASE ReceiveHeartbeat(c) \/ \E m \in Request(requests + 1) : QueueRequest(c, m)
  <2>1. worker[c] = "serving" /\ UNCHANGED <<worker, user, sent>>
    BY <1>8 DEF ReceiveHeartbeat, QueueRequest, Received
  <2>. QED  BY <1>1, <1>4, <2>1 DEF HandshakeState, Acked
<1>9. CASE SendQueued(c)
  <2>1. /\ worker[c] = "serving" /\ UNCHANGED <<worker, user, messages_in>>
        /\ sent'[c] = sent[c] \o replies[c] \o messages_out[c]
    BY <1>9 DEF SendQueued
  <2>2. Acked(c)
    BY <1>4, <2>1 DEF HandshakeState
  <2>3. ASSUME NEW s \in Seq(ServerMessages), NEW t \in Seq(ServerMessages), s # << >>
        PROVE  s \o t \in Seq(ServerMessages) /\ s \o t # << >> /\ (s \o t)[1] = s[1]
    BY <2>3
  <2>4. Acked(c)'
    BY <2>1, <2>2, <2>3 DEF Acked
  <2>. QED  BY <1>1, <1>4, <2>1, <2>4 DEF HandshakeState
<1>. QED  BY <1>5, <1>6, <1>7, <1>8, <1>9 DEF ClientTask

\* The steps of the server worker: it takes requests away, and it records events
\* only for the client whose request it has taken.
LEMMA ServerKeepsHandshakes ==
    ASSUME TypeOK, Handshaken, ServerWorker
    PROVE  Handshaken'
<1>1. UNCHANGED clientSide
  BY DEF ServerWorker, StartBatch, StopServing, NextClient, Handle, HandleRoomList,
         HandleRoomCreate, HandleRoomJoin, HandleRoomDestroy, HandleRoomHistory,
         HandleChatSend, HandleOther, Pop, Announce, Echo, CleanUp
<1>2. UNCHANGED <<accepted, worker, user, sent>>
  BY <1>1 DEF clientSide, netVars, taskVars
<1>3. AckedEvents' = AckedEvents
  BY <1>2 DEF AckedEvents, Acked
<1>4. \A c \in Connections : messages_in'[c] # << >> => messages_in[c] # << >>
  BY DEF ServerWorker, StartBatch, StopServing, NextClient, Handle, HandleRoomList,
         HandleRoomCreate, HandleRoomJoin, HandleRoomDestroy, HandleRoomHistory,
         HandleChatSend, HandleOther, Pop, Announce, Echo, CleanUp, TypeOK, QueueTypes
<1>5. \A c \in Connections : HandshakeState(c)'
  BY <1>2, <1>4 DEF Handshaken, HandshakeState, Acked
<1>6. history' \in [DOMAIN history' -> Seq(AckedEvents)]
  <2>1. CASE history' = history
    BY <2>1 DEF Handshaken
  <2>2. CASE CleanUp
    BY <2>2 DEF CleanUp, Without, Handshaken
  <2>3. ASSUME NEW c \in Connections, HandleChatSend(c)
        PROVE  history' \in [DOMAIN history' -> Seq(AckedEvents)]
    <3>. DEFINE m == Head(messages_in[c])
                e == RoomEvent(user[c], m.text)
    <3>1. m.text \in 1 .. MaxRequests
      BY <2>3, PopTypes, RequestFields DEF HandleChatSend
    <3>2. Acked(c) /\ user[c] = c
      BY <2>3 DEF HandleChatSend, Pop, Handshaken, HandshakeState
    <3>3. e \in AckedEvents
      BY <3>1, <3>2 DEF RoomEvent, AckedEvents, Events
    <3>4. recorded(m.room) \in Seq(AckedEvents)
      <4>1. << >> \in Seq(AckedEvents)
        OBVIOUS
      <4>. QED  BY <4>1 DEF recorded, Handshaken
    <3>5. \/ history' = history
          \/ history' = With(history, m.room,
                             Recorded(recorded(m.room), e, HistoryLimit))
      BY <2>3 DEF HandleChatSend, roomVars
    <3>. HIDE DEF m, e
    <3>6. Recorded(recorded(m.room), e, HistoryLimit) \in Seq(AckedEvents)
      BY <3>3, <3>4, RecordedTyped, BoundsAssumption
    <3>. QED  BY <3>5, <3>6 DEF With, Handshaken
  <2>4. \/ history' = history \/ CleanUp
        \/ \E c \in Connections : HandleChatSend(c)
    BY DEF ServerWorker, StartBatch, StopServing, NextClient, Handle, HandleRoomList,
           HandleRoomCreate, HandleRoomJoin, HandleRoomDestroy, HandleRoomHistory,
           HandleOther, Announce, Echo, roomVars
  <2>. QED  BY <2>1, <2>2, <2>3, <2>4
<1>. QED  BY <1>3, <1>5, <1>6 DEF Handshaken

\* The invariant holds at the start,
LEMMA HandshakenInit == Init => Handshaken
<1>. SUFFICES ASSUME Init
              PROVE  Handshaken
  OBVIOUS
<1>1. \A c \in Connections : HandshakeState(c)
  BY DEF Init, HandshakeState
<1>. QED  BY <1>1 DEF Init, Handshaken

\* and after every step.
LEMMA HandshakenStep == TypeOK /\ Handshaken /\ [Next]_vars => Handshaken'
<1>1. CASE UNCHANGED vars
  BY <1>1 DEF vars, netVars, taskVars, roomVars, Handshaken, HandshakeState, Acked,
              AckedEvents
<1>. QED  BY <1>1, MainKeepsHandshakes, TaskKeepsHandshakes, ServerKeepsHandshakes
          DEF Next, MainThread

\* Whatever the server worker broadcasts meanwhile, the first message a client gets
\* answers its handshake, and no event of a client is recorded before its ACK.
THEOREM HandshakesFirst == Spec => []HandshakeFirst
BY HandshakenInit, HandshakenStep, HandshakenSuffices, TypeCorrect, PTL DEF Spec

-----------------------------------------------------------------------------
(***************************************************************************)
(* Nothing outlives its room, and members hear the end of its history.     *)
(*                                                                         *)
(* The text of a chat line is the number of its request, so that a line is *)
(* told from every other.  The proof needs that a line that still waits    *)
(* for the server worker was shown to nobody (LinesAreFresh): the event    *)
(* that is recorded for it cannot have been shown before its room was      *)
(* destroyed.  HistoriesAreClean says of every step, not only between      *)
(* iterations, which histories are free of what was shown before.          *)
(*                                                                         *)
(* A stream follows a history when what it has of it is its end.  That     *)
(* holds between iterations only: within one, events are recorded before   *)
(* they are echoed.  MembersHear therefore says that the stream of a       *)
(* member, followed by the echoes of the events that wait in the room,     *)
(* follows the history, and that others were shown nothing of it.          *)
(***************************************************************************)

-----------------------------------------------------------------------------
(***************************************************************************)
(* The parts of the invariant.                                             *)
(***************************************************************************)
\* No event is shown before the destruction of its room is announced.
Clean(s, r, e) == \A j \in DOMAIN s : s[j] = create_room_destroy(r)
                                         => \A i \in 1 .. j : ~Shows(s[i], r, e)

EventsBut(n) == {e \in Events : e.text # n}

\* The messages that show nobody the chat line n.
Silent(n) == {m \in ServerMessages :
                /\ m.type = "CHAT_ECHO" => m.event.text # n
                /\ m.type = "ROOM_HISTORY" => m.events \in Seq(EventsBut(n))}

Fresh(n) ==
    /\ history \in [DOMAIN history -> Seq(EventsBut(n))]
    /\ \A r \in rooms : room[r].events \in Seq(EventsBut(n))
    /\ \A c \in Connections : sent[c] \in Seq(Silent(n)) /\ messages_out[c] \in Seq(Silent(n))

\* The chat lines that wait in the queue of c, by their positions.
Lines(c) == {i \in DOMAIN messages_in[c] : messages_in[c][i].type = "CHAT_SEND"}

Pending(n) == \/ n > requests
              \/ \E c \in Connections : \E i \in Lines(c) : messages_in[c][i].text = n

LinesAreFresh ==
    /\ \A c \in Connections : replies[c] \in Seq({create_ack})
    /\ \A n \in 1 .. MaxRequests : Pending(n) => Fresh(n)
    /\ \A c \in Connections : \A i \in Lines(c) : messages_in[c][i].text <= requests
    /\ \A c, d \in Connections : \A i \in Lines(c), j \in Lines(d) :
          messages_in[c][i].text = messages_in[d][j].text => c = d /\ i = j

\* While a batch is announced and echoed, the rooms it destroys are excepted.
HistoriesAreClean ==
    \A r \in DOMAIN history, c \in Connections :
        \/ pc = "echo" /\ r \in Elements(destroyed_rooms)
        \/ \A e \in Elements(history[r]) : Clean(Stream(c), r, e)

-----------------------------------------------------------------------------
(***************************************************************************)
(* Streams of messages that stay clean, and messages that show no line.    *)
(***************************************************************************)
\* Streams stay clean of an event when no destruction of its room is appended,
LEMMA CleanAppends ==
    ASSUME NEW s \in Seq(ServerMessages), NEW t \in Seq(ServerMessages), NEW r, NEW e,
           Clean(s, r, e), \A i \in DOMAIN t : t[i] # create_room_destroy(r)
    PROVE  Clean(s \o t, r, e)
<1>. SUFFICES ASSUME NEW j \in DOMAIN (s \o t), (s \o t)[j] = create_room_destroy(r),
                     NEW i \in 1 .. j
              PROVE  ~Shows((s \o t)[i], r, e)
  BY DEF Clean
<1>1. j \in DOMAIN s
  <2>1. j > Len(s) => j - Len(s) \in DOMAIN t /\ (s \o t)[j] = t[j - Len(s)]
    OBVIOUS
  <2>. QED  BY <2>1
<1>2. (s \o t)[j] = s[j] /\ (s \o t)[i] = s[i]
  BY <1>1
<1>. QED  BY <1>1, <1>2 DEF Clean

\* when their ends are dropped,
LEMMA CleanPrefix ==
    ASSUME NEW s \in Seq(ServerMessages), NEW t \in Seq(ServerMessages), NEW r, NEW e,
           Clean(s \o t, r, e)
    PROVE  Clean(s, r, e)
<1>1. \A j \in DOMAIN s : j \in DOMAIN (s \o t) /\ (s \o t)[j] = s[j]
  OBVIOUS
<1>2. \A j \in DOMAIN s : \A i \in 1 .. j : i \in DOMAIN s
  OBVIOUS
<1>. QED  BY <1>1, <1>2 DEF Clean

\* and when the outcome of a handshake or acknowledgements overtake what is queued.
LEMMA CleanInsert ==
    ASSUME NEW s \in Seq(ServerMessages), NEW t \in Seq(ServerMessages), NEW r, NEW e,
           NEW a \in Seq({create_ack, create_nak}), Clean(s \o t, r, e)
    PROVE  Clean(s \o a \o t, r, e)
<1>. DEFINE x == s \o a \o t
            Shift(k) == IF k <= Len(s) THEN k ELSE k - Len(a)
            Inserted(k) == Len(s) < k /\ k <= Len(s) + Len(a)
<1>1. ASSUME NEW k \in DOMAIN x, ~Inserted(k)
      PROVE  Shift(k) \in DOMAIN (s \o t) /\ x[k] = (s \o t)[Shift(k)]
  BY <1>1
<1>2. ASSUME NEW k \in DOMAIN x, Inserted(k)
      PROVE  x[k] \in {create_ack, create_nak}
  <2>1. x[k] = a[k - Len(s)] /\ k - Len(s) \in DOMAIN a
    BY <1>2
  <2>2. \A i \in DOMAIN a : a[i] \in {create_ack, create_nak}
    OBVIOUS
  <2>. QED  BY <2>1, <2>2
<1>3. \A m \in {create_ack, create_nak} : m # create_room_destroy(r) /\ ~Shows(m, r, e)
  BY DEF create_ack, create_nak, create_room_destroy, create_chat_echo, Shows
<1>. SUFFICES ASSUME NEW j \in DOMAIN x, x[j] = create_room_destroy(r), NEW i \in 1 .. j
              PROVE  ~Shows(x[i], r, e)
  BY DEF Clean
<1>4. i \in DOMAIN x
  OBVIOUS
<1>5. CASE Inserted(i)
  BY <1>2, <1>3, <1>4, <1>5
<1>6. CASE ~Inserted(i)
  <2>1. ~Inserted(j)
    BY <1>2, <1>3
  <2>2. Shift(i) \in 1 .. Shift(j)
    BY <1>4, <1>6, <2>1
  <2>3. /\ Shift(j) \in DOMAIN (s \o t) /\ (s \o t)[Shift(j)] = create_room_destroy(r)
        /\ x[i] = (s \o t)[Shift(i)]
    BY <1>1, <1>4, <1>6, <2>1
  <2>. HIDE DEF x, Shift, Inserted
  <2>. QED  BY <2>2, <2>3 DEF Clean
<1>. QED  BY <1>5, <1>6

\* A stream that shows nobody the text of an event is clean of it.
LEMMA SilentIsClean ==
    ASSUME NEW e \in Events, NEW s \in Seq(Silent(e.text)), NEW r
    PROVE  Clean(s, r, e)
<1>1. ASSUME NEW m \in Silent(e.text)
      PROVE  ~Shows(m, r, e)
  <2>1. m # create_chat_echo(r, e)
    BY <1>1 DEF Silent, create_chat_echo
  <2>2. m.type = "ROOM_HISTORY" => e \notin Elements(m.events)
    BY <1>1 DEF Silent, Elements, EventsBut
  <2>. QED  BY <2>1, <2>2 DEF Shows
<1>2. \A i \in DOMAIN s : s[i] \in Silent(e.text)
  OBVIOUS
<1>3. \A j \in DOMAIN s : \A i \in 1 .. j : i \in DOMAIN s
  OBVIOUS
<1>. QED  BY <1>1, <1>2, <1>3 DEF Clean

\* What the server sends apart from echoes and histories shows no chat line.
LEMMA SilentMessages ==
    ASSUME NEW n
    PROVE  /\ create_ack \in Silent(n) /\ create_nak \in Silent(n)
           /\ \A S \in SUBSET ValidNames : create_room_list(S) \in Silent(n)
           /\ \A r \in ValidNames : /\ create_room_create(r) \in Silent(n)
                                    /\ create_room_destroy(r) \in Silent(n)
                                    /\ \A e \in EventsBut(n) : create_chat_echo(r, e) \in Silent(n)
<1>1. EventsBut(n) \subseteq Events
  BY DEF EventsBut
<1>. QED  BY <1>1, MessagesTyped
          DEF Silent, EventsBut, create_ack, create_nak, create_room_list, create_room_create,
              create_room_destroy, create_chat_echo

\* Echoes and histories show the lines they are made of.
LEMMA SilentHistory ==
    ASSUME NEW n, NEW r \in ValidNames, NEW log \in Seq(EventsBut(n)), NEW max \in Nat
    PROVE  get_room_history(r, log, max) \in Silent(n)
<1>. DEFINE events == IF max \in 1 .. Len(log) THEN SubSeq(log, 1, max) ELSE log
<1>1. events \in Seq(EventsBut(n))
  OBVIOUS
<1>2. get_room_history(r, log, max) =
        [type |-> "ROOM_HISTORY", room |-> r, event_count |-> Len(events), events |-> events]
  BY DEF get_room_history, history_message
<1>3. log \in Seq(Events)
  <2>1. EventsBut(n) \subseteq Events
    BY DEF EventsBut
  <2>. QED  BY <2>1, SeqWidens
<1>4. get_room_history(r, log, max) \in ServerMessages
  BY <1>3, HistoryMessageTyped
<1>. HIDE DEF events
<1>. QED  BY <1>1, <1>2, <1>4 DEF Silent

-----------------------------------------------------------------------------
(***************************************************************************)
(* Which steps show a line.                                                *)
(***************************************************************************)
\* A step of the main thread, of the network or of a client worker shows no new line.
LEMMA OthersShowNothing ==
    ASSUME TypeOK, LinesAreFresh, NEW n, Fresh(n),
           \/ Shutdown
           \/ \E c \in Connections : AcceptClient(c) \/ RejectClient(c) \/ PeerLeaves(c)
           \/ \E c \in Connections : ClientTask(c)
    PROVE  Fresh(n)'
<1>1. UNCHANGED <<room, history, rooms>>
  BY OthersLeaveRooms DEF MainThread
<1>2. << >> \in Seq(Silent(n)) /\ create_ack \in Silent(n) /\ create_nak \in Silent(n)
  BY SilentMessages
<1>. SUFFICES \A c \in Connections :
                 sent'[c] \in Seq(Silent(n)) /\ messages_out'[c] \in Seq(Silent(n))
  BY <1>1 DEF Fresh, Silent, EventsBut
<1>3. \A c \in Connections : sent[c] \in Seq(Silent(n)) /\ messages_out[c] \in Seq(Silent(n))
  BY DEF Fresh
<1>4. DOMAIN sent = Connections /\ DOMAIN messages_out = Connections
  BY DEF TypeOK, TaskTypes, QueueTypes
<1>5. CASE Shutdown \/ \E c \in Connections : AcceptClient(c) \/ RejectClient(c) \/ PeerLeaves(c)
  <2>1. /\ messages_out' = messages_out
        /\ \/ sent' = sent
           \/ \E c \in Connections : sent' = [sent EXCEPT ![c] = <<create_nak>>]
    BY <1>5 DEF Shutdown, AcceptClient, RejectClient, AddConnection, PeerLeaves, taskVars
  <2>2. <<create_nak>> \in Seq(Silent(n))
    BY <1>2
  <2>. QED  BY <1>3, <1>4, <2>1, <2>2
<1>6. ASSUME NEW c \in Connections, ClientTask(c)
      PROVE  \A d \in Connections : sent'[d] \in Seq(Silent(n)) /\ messages_out'[d] \in Seq(Silent(n))
  <2>1. CASE Hello(c)
    <3>1. messages_out' = messages_out /\ sent' = [sent EXCEPT ![c] = Append(@, create_ack)]
      BY <2>1 DEF Hello
    <3>2. Append(sent[c], create_ack) \in Seq(Silent(n))
      BY <1>2, <1>3
    <3>. QED  BY <1>3, <1>4, <3>1, <3>2
  <2>2. CASE SendQueued(c)
    <3>1. /\ sent' = [sent EXCEPT ![c] = @ \o replies[c] \o messages_out[c]]
          /\ messages_out' = [messages_out EXCEPT ![c] = << >>]
      BY <2>2 DEF SendQueued
    <3>2. replies[c] \in Seq(Silent(n))
      <4>1. {create_ack} \subseteq Silent(n)
        BY <1>2
      <4>. QED  BY <4>1, SeqWidens DEF LinesAreFresh
    <3>3. sent[c] \o replies[c] \o messages_out[c] \in Seq(Silent(n))
      BY <1>3, <3>2
    <3>. QED  BY <1>2, <1>3, <1>4, <3>1, <3>3
  <2>3. CASE ~Hello(c) /\ ~SendQueued(c)
    <3>1. sent' = sent /\ messages_out' \in {messages_out, [messages_out EXCEPT ![c] = << >>]}
      BY <1>6, <2>3 DEF ClientTask, StartTask, NoHello, Received, ReceiveHeartbeat,
                        QueueRequest, FinishTask, TaskThrows, BadBlock, GetStuck
    <3>. QED  BY <1>2, <1>3, <1>4, <3>1
  <2>. QED  BY <2>1, <2>2, <2>3
<1>. QED  BY <1>5, <1>6

\* The step of the server worker that records the line n.
Records(n) == \E c \in Connections : HandleChatSend(c) /\ Head(messages_in[c]).text = n

\* No other handler shows the line.
LEMMA HandlersShowNothing ==
    ASSUME TypeOK, NEW n, Fresh(n), NEW c \in Connections, Handle(c), ~Records(n)
    PROVE  Fresh(n)'
<1>. DEFINE m == Head(messages_in[c])
<1>1. /\ sent' = sent /\ m \in Requests
  BY PopTypes DEF Handle, HandleRoomList, HandleRoomCreate, HandleRoomJoin, HandleRoomDestroy,
                  HandleRoomHistory, HandleChatSend, HandleOther, clientSide, taskVars
<1>2. << >> \in Seq(EventsBut(n)) /\ \A r : recorded(r) \in Seq(EventsBut(n))
  BY DEF recorded, Fresh
<1>. SUFFICES /\ history' \in [DOMAIN history' -> Seq(EventsBut(n))]
              /\ \A r \in rooms' : room'[r].events \in Seq(EventsBut(n))
              /\ \A d \in Connections : messages_out'[d] \in Seq(Silent(n))
  BY <1>1 DEF Fresh, Silent, EventsBut
<1>. USE DEF Fresh
<1>3. DOMAIN messages_out = Connections /\ rooms \subseteq ValidNames /\ DOMAIN room = rooms
  BY DEF TypeOK, QueueTypes, RoomTypes
<1>4. ASSUME NEW q \in Silent(n), Reply(c, q)
      PROVE  \A d \in Connections : messages_out'[d] \in Seq(Silent(n))
  <2>1. Append(messages_out[c], q) \in Seq(Silent(n))
    OBVIOUS
  <2>. QED  BY <1>3, <1>4, <2>1 DEF Reply
<1>5. CASE HandleRoomList(c)
  BY <1>3, <1>4, <1>5, SilentMessages DEF HandleRoomList, roomVars, rooms
<1>6. CASE HandleOther(c)
  BY <1>6 DEF HandleOther, roomVars, rooms
<1>7. CASE HandleRoomHistory(c)
  <2>1. UNCHANGED <<room, history, rooms>>
    BY <1>7 DEF HandleRoomHistory, roomVars, rooms
  <2>2. CASE UNCHANGED messages_out
    BY <2>1, <2>2
  <2>3. CASE /\ m.event_count \in 0 .. HistoryMax /\ m.room \in rooms
             /\ Reply(c, get_room_history(m.room, recorded(m.room), m.event_count))
    <3>1. get_room_history(m.room, recorded(m.room), m.event_count) \in Silent(n)
      BY <1>2, <1>3, <2>3, SilentHistory, BoundsAssumption
    <3>. QED  BY <1>4, <2>1, <2>3, <3>1
  <2>. QED  BY <1>7, <2>2, <2>3 DEF HandleRoomHistory
<1>8. CASE HandleRoomCreate(c)
  <2>1. /\ UNCHANGED <<messages_out, history>>
        /\ \/ UNCHANGED room
           \/ \E q : room' = With(room, q, [NewRoom EXCEPT !.joined[c] = 1])
    BY <1>8 DEF HandleRoomCreate
  <2>2. [NewRoom EXCEPT !.joined[c] = 1].events = << >>
    BY DEF NewRoom
  <2>3. CASE UNCHANGED room
    BY <2>1, <2>3 DEF rooms
  <2>4. ASSUME NEW q, room' = With(room, q, [NewRoom EXCEPT !.joined[c] = 1])
        PROVE  \A r \in rooms' : room'[r].events \in Seq(EventsBut(n))
    <3>1. \A r \in rooms' : \/ r \in rooms /\ room'[r] = room[r]
                            \/ room'[r] = [NewRoom EXCEPT !.joined[c] = 1]
      BY <2>4 DEF With, rooms
    <3>. QED  BY <1>2, <2>2, <3>1
  <2>. QED  BY <2>1, <2>3, <2>4
<1>9. CASE HandleRoomJoin(c) \/ HandleRoomDestroy(c)
  <2>1. /\ UNCHANGED <<messages_out, history>>
        /\ \/ UNCHANGED room
           \/ room' = [room EXCEPT ![m.room].joined[c] = 1]
           \/ room' = [room EXCEPT ![m.room].destroy_requested = TRUE]
    BY <1>9 DEF HandleRoomJoin, HandleRoomDestroy
  <2>2. \A x \in ServerRooms : /\ [x EXCEPT !.joined[c] = 1].events = x.events
                               /\ [x EXCEPT !.destroy_requested = TRUE].events = x.events
    BY DEF ServerRooms
  <2>. HIDE DEF m
  <2>3. rooms' = rooms /\ \A r \in rooms : room'[r].events = room[r].events
    <3>1. \A r \in rooms : room[r] \in ServerRooms
      BY DEF TypeOK, RoomTypes
    <3>2. CASE UNCHANGED room
      BY <3>2 DEF rooms
    <3>3. CASE room' = [room EXCEPT ![m.room].joined[c] = 1]
      BY <2>2, <3>1, <3>3 DEF rooms
    <3>4. CASE room' = [room EXCEPT ![m.room].destroy_requested = TRUE]
      BY <2>2, <3>1, <3>4 DEF rooms
    <3>. QED  BY <2>1, <3>2, <3>3, <3>4
  <2>. QED  BY <2>1, <2>3
<1>10. CASE HandleChatSend(c)
  <2>. DEFINE e == RoomEvent(user[c], m.text)
  <2>1. UNCHANGED messages_out
    BY <1>10 DEF HandleChatSend
  <2>2. e \in EventsBut(n)
    <3>1. m.text \in 1 .. MaxRequests
      BY <1>1, <1>10, PopTypes, RequestFields DEF HandleChatSend
    <3>2. m.text # n
      BY <1>10 DEF Records
    <3>. QED  BY <3>1, <3>2 DEF RoomEvent, Events, EventsBut, TypeOK, TaskTypes
  <2>3. CASE UNCHANGED roomVars
    BY <2>1, <2>3 DEF roomVars, rooms
  <2>4. CASE /\ m.room \in rooms
             /\ history' = With(history, m.room, Recorded(recorded(m.room), e, HistoryLimit))
             /\ room' = [room EXCEPT ![m.room].events = Append(@, e)]
    <3>. HIDE DEF e, m
    <3>1. Recorded(recorded(m.room), e, HistoryLimit) \in Seq(EventsBut(n))
      BY <1>2, <2>2, RecordedTyped, BoundsAssumption
    <3>2. history' \in [DOMAIN history' -> Seq(EventsBut(n))]
      BY <2>4, <3>1 DEF With
    <3>3. \A x \in ServerRooms : [x EXCEPT !.events = Append(@, e)].events = Append(x.events, e)
      BY DEF ServerRooms
    <3>4. Append(room[m.room].events, e) \in Seq(EventsBut(n))
      BY <2>2, <2>4
    <3>5. \A r \in rooms' : \/ r \in rooms /\ room'[r] = room[r]
                            \/ room'[r].events = Append(room[m.room].events, e)
      BY <2>4, <3>3 DEF rooms, TypeOK, RoomTypes
    <3>. QED  BY <2>1, <3>2, <3>4, <3>5
  <2>. QED  BY <1>10, <2>3, <2>4 DEF HandleChatSend
<1>. QED  BY <1>5, <1>6, <1>7, <1>8, <1>9, <1>10 DEF Handle

\* Neither does any other step of the server worker.
LEMMA BatchShowsNothing ==
    ASSUME TypeOK, NEW n, Fresh(n),
           \/ StartBatch \/ StopServing \/ Announce \/ CleanUp
           \/ \E c \in Connections : NextClient(c)
           \/ \E r \in rooms : Echo(r)
    PROVE  Fresh(n)'
<1>1. UNCHANGED sent
  BY DEF StartBatch, StopServing, Announce, CleanUp, NextClient, Echo, clientSide, taskVars
<1>. SUFFICES /\ history' \in [DOMAIN history' -> Seq(EventsBut(n))]
              /\ \A r \in rooms' : room'[r].events \in Seq(EventsBut(n))
              /\ \A d \in Connections : messages_out'[d] \in Seq(Silent(n))
  BY <1>1 DEF Fresh, Silent, EventsBut
<1>. USE DEF Fresh
<1>2. << >> \in Seq(Silent(n)) /\ << >> \in Seq(EventsBut(n)) /\ rooms \subseteq ValidNames
  BY DEF TypeOK, RoomTypes
<1>3. CASE StartBatch \/ StopServing \/ \E c \in Connections : NextClient(c)
  BY <1>3 DEF StartBatch, StopServing, NextClient, roomVars, rooms
<1>4. CASE CleanUp
  BY <1>4 DEF CleanUp, Without, rooms
<1>5. CASE Announce
  <2>1. /\ \A i \in DOMAIN new_rooms : create_room_create(new_rooms[i]) \in Silent(n)
        /\ \A i \in DOMAIN destroyed_rooms : create_room_destroy(destroyed_rooms[i]) \in Silent(n)
    BY <1>2, SilentMessages DEF TypeOK, BatchTypes
  <2>2. /\ [i \in DOMAIN new_rooms |-> create_room_create(new_rooms[i])] \in Seq(Silent(n))
        /\ [i \in DOMAIN destroyed_rooms |-> create_room_destroy(destroyed_rooms[i])]
              \in Seq(Silent(n))
    BY <2>1, MapTyped DEF TypeOK, BatchTypes
  <2>3. announcements \in Seq(Silent(n))
    BY <2>2 DEF announcements
  <2>4. \A c \in Connections : messages_out'[c] \in Seq(Silent(n))
    BY <1>2, <1>5, <2>3 DEF Announce
  <2>. QED  BY <1>5, <2>4 DEF Announce, roomVars, rooms
<1>6. ASSUME NEW r \in rooms, Echo(r)
      PROVE  /\ history' \in [DOMAIN history' -> Seq(EventsBut(n))]
             /\ \A q \in rooms' : room'[q].events \in Seq(EventsBut(n))
             /\ \A d \in Connections : messages_out'[d] \in Seq(Silent(n))
  <2>. DEFINE joined == [c \in Connections |-> IF Owned(c) THEN room[r].joined[c] ELSE 0]
              events == room[r].events
              echoes == [i \in DOMAIN events |-> create_chat_echo(r, events[i])]
  <2>1. joined \in [Connections -> Nat] /\ events \in Seq(EventsBut(n))
    BY DEF TypeOK, RoomTypes, ServerRooms
  <2>2. echoes \in Seq(Silent(n))
    <3>1. \A i \in DOMAIN events : create_chat_echo(r, events[i]) \in Silent(n)
      BY <1>2, <2>1, SilentMessages
    <3>. QED  BY <2>1, <3>1, MapTyped
  <2>3. /\ room' = [room EXCEPT ![r].joined = joined, ![r].events = << >>]
        /\ messages_out' = [c \in Connections |-> messages_out[c] \o Times(joined[c], echoes)]
        /\ history' = history
    BY <1>6 DEF Echo
  <2>. HIDE DEF joined, events, echoes
  <2>4. \A c \in Connections : Times(joined[c], echoes) \in Seq(Silent(n))
    BY <2>1, <2>2, TimesTyped
  <2>5. \A x \in ServerRooms : [x EXCEPT !.joined = joined, !.events = << >>].events = << >>
    BY DEF ServerRooms
  <2>6. \A q \in rooms' : \/ q \in rooms /\ room'[q] = room[q]
                          \/ room'[q].events = << >>
    BY <2>3, <2>5 DEF rooms, TypeOK, RoomTypes
  <2>7. \A q \in rooms' : room'[q].events \in Seq(EventsBut(n))
    BY <1>2, <2>6
  <2>8. \A d \in Connections : messages_out'[d] \in Seq(Silent(n))
    <3>1. \A d \in Connections : messages_out[d] \in Seq(Silent(n))
      OBVIOUS
    <3>. QED  BY <2>3, <2>4, <3>1
  <2>. QED  BY <2>3, <2>7, <2>8
<1>. QED  BY <1>3, <1>4, <1>5, <1>6

-----------------------------------------------------------------------------
(***************************************************************************)
(* Lines that wait.                                                        *)
(***************************************************************************)
\* Taking the head of a queue shifts what waits behind it.
LEMMA LinesMove ==
    ASSUME TypeOK, NEW c \in Connections,
           messages_in[c] # << >>, messages_in' = [messages_in EXCEPT ![c] = Tail(@)]
    PROVE  \A d \in Connections : \A i \in Lines(d)' :
              LET j == IF d = c THEN i + 1 ELSE i
              IN  j \in Lines(d) /\ messages_in'[d][i] = messages_in[d][j]
<1>. USE DEF TypeOK, QueueTypes
<1>1. messages_in'[c] = Tail(messages_in[c]) /\ messages_in[c] \in Seq(Requests)
  OBVIOUS
<1>2. ASSUME NEW i \in DOMAIN messages_in'[c]
      PROVE  i + 1 \in DOMAIN messages_in[c] /\ messages_in'[c][i] = messages_in[c][i + 1]
  BY <1>1, <1>2
<1>3. \A d \in Connections \ {c} : messages_in'[d] = messages_in[d]
  OBVIOUS
<1>. QED  BY <1>2, <1>3 DEF Lines

\* A chat line that is recorded waits no more: it was the head of its queue, and no
\* other line has its number.
LEMMA RecordedWaitsNoMore ==
    ASSUME TypeOK, LinesAreFresh, NEW n \in 1 .. MaxRequests, Records(n)
    PROVE  ~Pending(n)'
<1>1. PICK d \in Connections : HandleChatSend(d) /\ Head(messages_in[d]).text = n
  BY DEF Records
<1>2. /\ messages_in[d] # << >> /\ messages_in' = [messages_in EXCEPT ![d] = Tail(@)]
      /\ Head(messages_in[d]).type = "CHAT_SEND" /\ requests' = requests
  BY <1>1 DEF HandleChatSend, Pop, clientSide, taskVars
<1>3. 1 \in Lines(d) /\ messages_in[d][1].text = n
  <2>1. messages_in[d] \in Seq(Requests)
    BY DEF TypeOK, QueueTypes
  <2>. QED  BY <1>1, <1>2, <2>1 DEF Lines
<1>4. ~(n > requests)
  <2>1. requests \in Nat /\ n <= requests
    BY <1>3, BoundsAssumption DEF LinesAreFresh, TypeOK, TaskTypes
  <2>. QED  BY <2>1
<1>5. ASSUME NEW b \in Connections, NEW i \in Lines(b)', messages_in'[b][i].text = n
      PROVE  FALSE
  <2>1. i \in Nat \ {0}
    <3>1. messages_in' \in [Connections -> Seq(Requests)]
      <4>1. Tail(messages_in[d]) \in Seq(Requests)
        BY <1>2 DEF TypeOK, QueueTypes
      <4>. QED  BY <1>2, <4>1 DEF TypeOK, QueueTypes
    <3>. QED  BY <1>5, <3>1 DEF Lines
  <2>. DEFINE j == IF b = d THEN i + 1 ELSE i
  <2>2. j \in Lines(b) /\ messages_in'[b][i] = messages_in[b][j]
    <3>1. \A a \in Connections : \A k \in Lines(a)' :
             LET l == IF a = d THEN k + 1 ELSE k
             IN  l \in Lines(a) /\ messages_in'[a][k] = messages_in[a][l]
      BY <1>2, LinesMove
    <3>. QED  BY <1>5, <3>1
  <2>3. messages_in[b][j].text = messages_in[d][1].text
    BY <1>3, <1>5, <2>2
  <2>4. b = d /\ j = 1
    BY <1>3, <2>2, <2>3 DEF LinesAreFresh
  <2>. QED  BY <2>1, <2>4
<1>. QED  BY <1>2, <1>4, <1>5 DEF Pending

\* A step other than its recording shows a waiting line to nobody.
LEMMA WaitingStaysFresh ==
    ASSUME TypeOK, LinesAreFresh,
           \/ MainThread \/ ServerWorker
           \/ \E c \in Connections : PeerLeaves(c) \/ ClientTask(c),
           NEW n \in 1 .. MaxRequests, Pending(n), ~Records(n)
    PROVE  Fresh(n)'
<1>1. Fresh(n)
  BY DEF LinesAreFresh
<1>. QED  BY <1>1, OthersShowNothing, HandlersShowNothing, BatchShowsNothing
          DEF MainThread, ServerWorker

\* Handling a request.
LEMMA HandledLinesFresh ==
    ASSUME TypeOK, LinesAreFresh, NEW c \in Connections, Handle(c)
    PROVE  LinesAreFresh'
<1>1. /\ messages_in[c] # << >> /\ messages_in' = [messages_in EXCEPT ![c] = Tail(@)]
      /\ replies' = replies /\ requests' = requests
  BY DEF Handle, HandleRoomList, HandleRoomCreate, HandleRoomJoin, HandleRoomDestroy,
         HandleRoomHistory, HandleChatSend, HandleOther, Pop, clientSide, taskVars
<1>. DEFINE from(d, i) == IF d = c THEN i + 1 ELSE i
<1>2. \A d \in Connections : \A i \in Lines(d)' :
         /\ from(d, i) \in Lines(d)
         /\ messages_in'[d][i].text = messages_in[d][from(d, i)].text
  <2>1. \A d \in Connections : \A i \in Lines(d)' :
           LET j == IF d = c THEN i + 1 ELSE i
           IN  j \in Lines(d) /\ messages_in'[d][i] = messages_in[d][j]
    BY <1>1, LinesMove
  <2>. QED  BY <2>1
<1>3. \A d \in Connections : \A i \in Lines(d)' : i \in Nat
  <2>1. Tail(messages_in[c]) \in Seq(Requests)
    BY <1>1 DEF TypeOK, QueueTypes
  <2>2. messages_in' \in [Connections -> Seq(Requests)]
    BY <1>1, <2>1 DEF TypeOK, QueueTypes
  <2>. QED  BY <2>2 DEF Lines
<1>4. \A d \in Connections : \A i, j \in Lines(d)' : from(d, i) = from(d, j) => i = j
  <2>1. \A d : \A i, j \in Nat : from(d, i) = from(d, j) => i = j
    OBVIOUS
  <2>. QED  BY <1>3, <2>1
<1>. HIDE DEF from
<1>5. ASSUME NEW n, Pending(n)'
      PROVE  Pending(n)
  <2>1. CASE n > requests'
    BY <1>1, <2>1 DEF Pending
  <2>2. ASSUME NEW d \in Connections, NEW i \in Lines(d)', messages_in'[d][i].text = n
        PROVE  Pending(n)
    <3>1. from(d, i) \in Lines(d) /\ messages_in[d][from(d, i)].text = n
      BY <1>2, <2>2
    <3>. QED  BY <3>1 DEF Pending
  <2>. QED  BY <1>5, <2>1, <2>2 DEF Pending
<1>6. \A n \in 1 .. MaxRequests : Pending(n)' => Fresh(n)'
  BY <1>5, RecordedWaitsNoMore, WaitingStaysFresh DEF ServerWorker
<1>7. ASSUME NEW d \in Connections, NEW i \in Lines(d)'
      PROVE  messages_in'[d][i].text <= requests'
  <2>1. messages_in[d][from(d, i)].text <= requests
    BY <1>2 DEF LinesAreFresh
  <2>. QED  BY <1>1, <1>2, <2>1
<1>8. \A a, b \in Connections : \A i \in Lines(a)', j \in Lines(b)' :
         messages_in'[a][i].text = messages_in'[b][j].text => a = b /\ i = j
  <2>1. \A a, b \in Connections : \A i \in Lines(a)', j \in Lines(b)' :
           messages_in'[a][i].text = messages_in'[b][j].text
               => a = b /\ from(a, i) = from(b, j)
    BY <1>2 DEF LinesAreFresh
  <2>. QED  BY <1>4, <2>1
<1>. QED  BY <1>1, <1>6, <1>7, <1>8 DEF LinesAreFresh

\* A line that arrives has the next number.
LEMMA ReceivedLinesFresh ==
    ASSUME TypeOK, LinesAreFresh, NEW c \in Connections,
           NEW m \in Request(requests + 1), QueueRequest(c, m)
    PROVE  LinesAreFresh'
<1>1. /\ messages_in' = [messages_in EXCEPT ![c] = Append(@, m)]
      /\ requests' = requests + 1 /\ replies' = replies
  BY DEF QueueRequest, Received
<1>2. /\ requests \in Nat /\ messages_in[c] \in Seq(Requests)
      /\ messages_in \in [Connections -> Seq(Requests)]
  BY BoundsAssumption DEF TypeOK, TaskTypes, QueueTypes
<1>3. m.type = "CHAT_SEND" => m.text = requests + 1
  BY DEF Request, room_list_request, create_hello, create_room_create, create_room_join,
         create_room_destroy, create_room_history, create_chat_send
<1>4. messages_in'[c] = Append(messages_in[c], m)
      /\ \A d \in Connections \ {c} : messages_in'[d] = messages_in[d]
  BY <1>1, <1>2
<1>5. ASSUME NEW d \in Connections, NEW i \in Lines(d)'
      PROVE  \/ i \in Lines(d) /\ messages_in'[d][i].text = messages_in[d][i].text
             \/ /\ d = c /\ i = Len(messages_in[c]) + 1
                /\ messages_in'[d][i].text = requests + 1
  <2>1. CASE d # c
    BY <1>4, <1>5, <2>1 DEF Lines
  <2>2. CASE d = c
    <3>1. i \in DOMAIN Append(messages_in[c], m)
          /\ Append(messages_in[c], m)[i].type = "CHAT_SEND"
      BY <1>4, <1>5, <2>2 DEF Lines
    <3>2. CASE i \in DOMAIN messages_in[c]
      BY <1>2, <1>4, <2>2, <3>1, <3>2 DEF Lines
    <3>3. CASE i = Len(messages_in[c]) + 1
      BY <1>2, <1>3, <1>4, <2>2, <3>1, <3>3
    <3>. QED  BY <1>2, <3>1, <3>2, <3>3
  <2>. QED  BY <2>1, <2>2
<1>6. ASSUME NEW d \in Connections, NEW i \in Lines(d)
      PROVE  messages_in[d][i].text \in Nat /\ messages_in[d][i].text <= requests
  <2>1. messages_in[d][i] \in Requests /\ messages_in[d][i].type = "CHAT_SEND"
    BY <1>2, <1>6 DEF Lines
  <2>. QED  BY <1>6, <2>1, RequestFields, BoundsAssumption DEF LinesAreFresh
<1>7. ASSUME NEW n \in 1 .. MaxRequests, Pending(n)'
      PROVE  Pending(n)
  <2>1. CASE n > requests'
    <3>1. n > requests
      BY <1>1, <1>2, <2>1
    <3>. QED  BY <3>1 DEF Pending
  <2>2. ASSUME NEW d \in Connections, NEW i \in Lines(d)', messages_in'[d][i].text = n
        PROVE  Pending(n)
    <3>1. CASE i \in Lines(d) /\ messages_in'[d][i].text = messages_in[d][i].text
      BY <2>2, <3>1 DEF Pending
    <3>2. CASE messages_in'[d][i].text = requests + 1
      <4>1. n > requests
        BY <1>2, <2>2, <3>2
      <4>. QED  BY <4>1 DEF Pending
    <3>. QED  BY <1>5, <3>1, <3>2
  <2>. QED  BY <1>7, <2>1, <2>2 DEF Pending
<1>8. \A n : ~Records(n)
  <2>1. \A d \in Connections : HandleChatSend(d) => requests' = requests
    BY DEF HandleChatSend, Pop, clientSide, taskVars
  <2>. QED  BY <1>1, <1>2, <2>1 DEF Records
<1>9. \A n \in 1 .. MaxRequests : Pending(n)' => Fresh(n)'
  BY <1>7, <1>8, WaitingStaysFresh DEF ClientTask
<1>10. ASSUME NEW d \in Connections, NEW i \in Lines(d)'
       PROVE  messages_in'[d][i].text <= requests'
  <2>1. CASE i \in Lines(d) /\ messages_in'[d][i].text = messages_in[d][i].text
    <3>1. messages_in[d][i].text <= requests + 1
      BY <1>2, <1>6, <2>1
    <3>. QED  BY <1>1, <2>1, <3>1
  <2>2. CASE messages_in'[d][i].text = requests + 1
    <3>1. requests + 1 <= requests + 1
      BY <1>2
    <3>. QED  BY <1>1, <2>2, <3>1
  <2>. QED  BY <1>5, <2>1, <2>2
<1>11. ASSUME NEW a \in Connections, NEW b \in Connections,
              NEW i \in Lines(a)', NEW j \in Lines(b)',
              messages_in'[a][i].text = messages_in'[b][j].text
       PROVE  a = b /\ i = j
  <2>1. CASE i \in Lines(a) /\ j \in Lines(b)
             /\ messages_in[a][i].text = messages_in[b][j].text
    BY <2>1 DEF LinesAreFresh
  <2>2. CASE a = c /\ b = c /\ i = Len(messages_in[c]) + 1 /\ j = Len(messages_in[c]) + 1
    BY <2>2
  <2>3. (requests + 1 <= requests) = FALSE
    BY <1>2
  <2>. QED  BY <1>5, <1>6, <1>11, <2>1, <2>2, <2>3
<1>. QED  BY <1>1, <1>9, <1>10, <1>11 DEF LinesAreFresh

\* Steps that leave the queues of requests alone.
LEMMA OtherLinesFresh ==
    ASSUME TypeOK, LinesAreFresh, messages_in' = messages_in,
           \/ MainThread \/ ServerWorker
           \/ \E c \in Connections : PeerLeaves(c) \/ ClientTask(c)
    PROVE  LinesAreFresh'
<1>1. requests \in Nat /\ requests' \in {requests, requests + 1}
      /\ \A c \in Connections : replies'[c] \in Seq({create_ack})
  <2>1. /\ << >> \in Seq({create_ack})
        /\ \A c \in Connections : Append(replies[c], create_ack) \in Seq({create_ack})
    BY DEF LinesAreFresh
  <2>2. /\ requests' \in {requests, requests + 1}
        /\ \/ replies' = replies
           \/ \E c \in Connections :
                 replies' \in {[replies EXCEPT ![c] = Append(@, create_ack)],
                               [replies EXCEPT ![c] = << >>]}
    <3>1. CASE MainThread \/ \E c \in Connections : PeerLeaves(c)
      BY <3>1 DEF MainThread, Shutdown, AcceptClient, RejectClient, AddConnection, PeerLeaves,
                  taskVars
    <3>2. CASE ServerWorker
      <4>1. UNCHANGED clientSide
        BY <3>2 DEF ServerWorker, StartBatch, StopServing, NextClient, Handle, HandleRoomList,
                    HandleRoomCreate, HandleRoomJoin, HandleRoomDestroy, HandleRoomHistory,
                    HandleChatSend, HandleOther, Pop, Announce, Echo, CleanUp
      <4>. QED  BY <4>1 DEF clientSide, taskVars
    <3>3. ASSUME NEW c \in Connections, ClientTask(c)
          PROVE  /\ requests' \in {requests, requests + 1}
                 /\ \/ replies' = replies
                    \/ replies' \in {[replies EXCEPT ![c] = Append(@, create_ack)],
                                     [replies EXCEPT ![c] = << >>]}
      BY <3>3 DEF ClientTask, StartTask, Hello, NoHello, ReceiveHeartbeat, QueueRequest,
                  Received, SendQueued, FinishTask, TaskThrows, BadBlock, GetStuck
    <3>. QED  BY <3>1, <3>2, <3>3
  <2>3. requests \in Nat /\ DOMAIN replies = Connections
    BY BoundsAssumption DEF TypeOK, TaskTypes
  <2>4. \A c \in Connections : replies'[c] \in Seq({create_ack})
    <3>1. \A c \in Connections : replies[c] \in Seq({create_ack})
      BY DEF LinesAreFresh
    <3>2. CASE replies' = replies
      BY <3>1, <3>2
    <3>3. ASSUME NEW d \in Connections, NEW s \in Seq({create_ack}),
                 replies' = [replies EXCEPT ![d] = s]
          PROVE  \A c \in Connections : replies'[c] \in Seq({create_ack})
      BY <2>3, <3>1, <3>3
    <3>. QED  BY <2>1, <2>2, <3>2, <3>3
  <2>. QED  BY <2>2, <2>3, <2>4
<1>2. \A c \in Connections : Lines(c)' = Lines(c)
  BY DEF Lines
<1>3. \A n \in 1 .. MaxRequests : Pending(n)' => Pending(n)
  BY <1>1, <1>2 DEF Pending
<1>4. \A n : ~Records(n)
  <2>1. \A d \in Connections : messages_in[d] # << >> => messages_in[d] # Tail(messages_in[d])
    <3>1. \A s \in Seq(Requests) : s # << >> => Len(Tail(s)) # Len(s)
      OBVIOUS
    <3>. QED  BY <3>1 DEF TypeOK, QueueTypes
  <2>. QED  BY <2>1 DEF Records, HandleChatSend, Pop, TypeOK, QueueTypes
<1>5. \A n \in 1 .. MaxRequests : Pending(n)' => Fresh(n)'
  BY <1>3, <1>4, WaitingStaysFresh
<1>6. \A c \in Connections : \A i \in Lines(c)' : messages_in'[c][i].text <= requests'
  <2>1. \A c \in Connections : \A i \in Lines(c) : messages_in[c][i].text \in Nat
    <3>1. \A c \in Connections : \A i \in Lines(c) :
             messages_in[c][i] \in Requests /\ messages_in[c][i].type = "CHAT_SEND"
      BY DEF Lines, TypeOK, QueueTypes
    <3>. QED  BY <3>1, RequestFields, BoundsAssumption
  <2>2. \A c \in Connections : \A i \in Lines(c) : messages_in[c][i].text <= requests
    BY DEF LinesAreFresh
  <2>3. \A t \in Nat : t <= requests => t <= requests'
    BY <1>1
  <2>. QED  BY <1>2, <2>1, <2>2, <2>3
<1>7. \A a, b \in Connections : \A i \in Lines(a)', j \in Lines(b)' :
         messages_in'[a][i].text = messages_in'[b][j].text => a = b /\ i = j
  BY <1>2 DEF LinesAreFresh
<1>. QED  BY <1>1, <1>5, <1>6, <1>7 DEF LinesAreFresh

\* Requests are numbered as they are received, and a line is shown only once it has
\* left its queue.
LEMMA LinesStayFresh ==
    ASSUME TypeOK, LinesAreFresh, [Next]_vars
    PROVE  LinesAreFresh'
<1>1. CASE UNCHANGED vars
  <2>1. /\ UNCHANGED <<messages_in, messages_out, replies, requests, sent, room, history, rooms>>
        /\ \A c \in Connections : Lines(c)' = Lines(c)
    BY <1>1 DEF vars, taskVars, roomVars, Lines, rooms
  <2>2. \A n : Pending(n)' = Pending(n) /\ Fresh(n)' = Fresh(n)
    BY <2>1 DEF Pending, Fresh, Silent, EventsBut
  <2>. QED  BY <2>1, <2>2 DEF LinesAreFresh
<1>2. CASE \E c \in Connections : Handle(c)
  BY <1>2, HandledLinesFresh
<1>3. CASE \E c \in Connections : \E m \in Request(requests + 1) : QueueRequest(c, m)
  BY <1>3, ReceivedLinesFresh
<1>4. \/ messages_in' = messages_in \/ \E c \in Connections : Handle(c)
      \/ \E c \in Connections : \E m \in Request(requests + 1) : QueueRequest(c, m)
  BY DEF Next, vars, MainThread, Shutdown, AcceptClient, RejectClient, AddConnection, PeerLeaves,
         ClientTask, StartTask, Hello, NoHello, ReceiveHeartbeat, SendQueued, FinishTask,
         TaskThrows, BadBlock, GetStuck, ServerWorker, StartBatch, StopServing, NextClient, Announce,
         Echo, CleanUp
<1>. QED  BY <1>1, <1>2, <1>3, <1>4, OtherLinesFresh DEF Next

-----------------------------------------------------------------------------
(***************************************************************************)
(* What a step does to the stream of a client.                             *)
(***************************************************************************)
\* A step of the main thread, of the network or of a client worker keeps what a client
\* is shown in order: it inserts the outcome of the handshake or acknowledgements, or
\* drops what is queued when the task ends or gets stuck.
LEMMA OthersKeepStreams ==
    ASSUME TypeOK, Handshaken, LinesAreFresh, NEW c \in Connections,
           \/ MainThread
           \/ \E d \in Connections : PeerLeaves(d) \/ ClientTask(d)
    PROVE  \/ worker'[c] \in {"stuck", "done"} /\ sent'[c] \o messages_out'[c] = sent[c]
           \/ \E a \in Seq({create_ack, create_nak}) :
                 sent'[c] \o messages_out'[c] = sent[c] \o a \o messages_out[c]
<1>. DEFINE Acks == {create_ack, create_nak}
<1>1. /\ sent[c] \in Seq(ServerMessages) /\ messages_out[c] \in Seq(ServerMessages)
      /\ DOMAIN sent = Connections /\ DOMAIN messages_out = Connections
  BY DEF TypeOK, TaskTypes, QueueTypes
<1>2. CASE sent'[c] = sent[c] /\ messages_out'[c] = messages_out[c]
  <2>1. << >> \in Seq(Acks) /\ sent[c] \o messages_out[c] = sent[c] \o << >> \o messages_out[c]
    BY <1>1
  <2>. QED  BY <1>2, <2>1
<1>3. CASE MainThread \/ \E d \in Connections : PeerLeaves(d)
  <2>1. /\ messages_out' = messages_out
        /\ \/ sent' = sent
           \/ \E d \in Connections : d > accepted /\ sent' = [sent EXCEPT ![d] = <<create_nak>>]
    <3>1. accepted \in Nat
      BY BoundsAssumption DEF TypeOK, NetTypes
    <3>2. ASSUME NEW d \in Connections, RejectClient(d)
          PROVE  d > accepted
      BY <3>1, <3>2 DEF RejectClient, AddConnection
    <3>. QED  BY <1>3, <3>2 DEF MainThread, Shutdown, AcceptClient, RejectClient,
                                AddConnection, PeerLeaves, taskVars
  <2>2. CASE c > accepted /\ sent' = [sent EXCEPT ![c] = <<create_nak>>]
    <3>1. sent[c] = << >> /\ sent'[c] = <<create_nak>>
      BY <1>1, <2>2 DEF Handshaken, HandshakeState
    <3>2. <<create_nak>> \in Seq(Acks)
      OBVIOUS
    <3>3. <<create_nak>> \o messages_out[c] = << >> \o <<create_nak>> \o messages_out[c]
      BY <1>1
    <3>. QED  BY <2>1, <3>1, <3>2, <3>3
  <2>. QED  BY <1>1, <1>2, <2>1, <2>2
<1>4. ASSUME NEW d \in Connections, ClientTask(d)
      PROVE  \/ worker'[c] \in {"stuck", "done"} /\ sent'[c] \o messages_out'[c] = sent[c]
             \/ \E a \in Seq(Acks) :
                   sent'[c] \o messages_out'[c] = sent[c] \o a \o messages_out[c]
  <2>1. CASE Hello(d) /\ d = c
    <3>1. sent'[c] = Append(sent[c], create_ack) /\ messages_out'[c] = messages_out[c]
      BY <1>1, <2>1 DEF Hello
    <3>2. Append(sent[c], create_ack) = sent[c] \o <<create_ack>>
      BY <1>1, MessagesTyped
    <3>3. <<create_ack>> \in Seq(Acks)
      OBVIOUS
    <3>4. sent'[c] \o messages_out'[c] = sent[c] \o <<create_ack>> \o messages_out[c]
      BY <3>1, <3>2
    <3>. QED  BY <3>3, <3>4
  <2>2. CASE SendQueued(d) /\ d = c
    <3>1. sent'[c] = sent[c] \o replies[c] \o messages_out[c] /\ messages_out'[c] = << >>
      BY <1>1, <2>2 DEF SendQueued
    <3>2. replies[c] \in Seq({create_ack}) /\ replies[c] \in Seq(ServerMessages)
      BY DEF LinesAreFresh, TypeOK, TaskTypes
    <3>3. replies[c] \in Seq(Acks)
      BY <3>2
    <3>4. sent'[c] \in Seq(ServerMessages)
      BY <1>1, <3>1, <3>2
    <3>5. sent'[c] \o << >> = sent'[c]
      BY <3>4
    <3>. QED  BY <3>1, <3>3, <3>5
  <2>3. CASE (TaskThrows(d) \/ GetStuck(d)) /\ d = c /\ messages_out'[c] = << >>
    <3>1. sent'[c] = sent[c] /\ worker'[c] \in {"stuck", "done"}
      BY <2>3 DEF TaskThrows, BadBlock, GetStuck, TypeOK, TaskTypes
    <3>. QED  BY <1>1, <2>3, <3>1
  <2>4. \/ sent'[c] = sent[c] /\ messages_out'[c] = messages_out[c]
        \/ d = c /\ \/ Hello(d) \/ SendQueued(d)
                    \/ (TaskThrows(d) \/ GetStuck(d)) /\ messages_out'[c] = << >>
    BY <1>1, <1>4 DEF ClientTask, StartTask, Hello, NoHello, Received, ReceiveHeartbeat,
                      QueueRequest, SendQueued, FinishTask, TaskThrows, BadBlock, GetStuck
  <2>. QED  BY <1>2, <2>1, <2>2, <2>3, <2>4
<1>. QED  BY <1>3, <1>4

\* A step of the server worker appends to what it queues for a client.  A destruction
\* is among it only when it is announced, an echo only when a room's events are echoed,
\* and anything about which rooms there are only when they are announced or listed.
LEMMA ServerAppends ==
    ASSUME TypeOK, NEW c \in Connections, ServerWorker
    PROVE  \E t \in Seq(ServerMessages) :
              /\ messages_out'[c] = messages_out[c] \o t
              /\ \A r : (\E i \in DOMAIN t : t[i] = create_room_destroy(r))
                           => Announce /\ r \in Elements(destroyed_rooms)
              /\ (\E i \in DOMAIN t : t[i].type = "CHAT_ECHO") => \E r \in rooms : Echo(r)
              /\ (\E i \in DOMAIN t : t[i].type \in {"ROOM_LIST", "ROOM_CREATE", "ROOM_DESTROY"})
                    => Announce \/ HandleRoomList(c)
<1>. DEFINE Appends(t) ==
              /\ messages_out'[c] = messages_out[c] \o t
              /\ \A r : (\E i \in DOMAIN t : t[i] = create_room_destroy(r))
                           => Announce /\ r \in Elements(destroyed_rooms)
              /\ (\E i \in DOMAIN t : t[i].type = "CHAT_ECHO") => \E r \in rooms : Echo(r)
              /\ (\E i \in DOMAIN t : t[i].type \in {"ROOM_LIST", "ROOM_CREATE", "ROOM_DESTROY"})
                    => Announce \/ HandleRoomList(c)
<1>. SUFFICES \E t \in Seq(ServerMessages) : Appends(t)
  OBVIOUS
<1>1. /\ messages_out[c] \in Seq(ServerMessages) /\ DOMAIN messages_out = Connections
      /\ rooms \subseteq ValidNames
  BY DEF TypeOK, QueueTypes, RoomTypes
<1>2. CASE messages_out'[c] = messages_out[c]
  <2>1. << >> \in Seq(ServerMessages) /\ Appends(<< >>)
    BY <1>1, <1>2
  <2>. QED  BY <2>1
<1>3. ASSUME NEW m \in ServerMessages, Reply(c, m),
             \/ m.type = "ROOM_HISTORY"
             \/ m.type = "ROOM_LIST" /\ HandleRoomList(c)
      PROVE  \E t \in Seq(ServerMessages) : Appends(t)
  <2>1. messages_out'[c] = messages_out[c] \o <<m>> /\ <<m>> \in Seq(ServerMessages)
    BY <1>1, <1>3 DEF Reply
  <2>2. \A r : m # create_room_destroy(r)
    BY <1>3 DEF create_room_destroy
  <2>3. Appends(<<m>>)
    <3>1. \A i \in DOMAIN <<m>> : <<m>>[i] = m
      OBVIOUS
    <3>2. \A i \in DOMAIN <<m>> : <<m>>[i].type = m.type
      BY <3>1
    <3>. QED  BY <1>3, <2>1, <2>2, <3>1, <3>2
  <2>. QED  BY <2>1, <2>3
<1>4. CASE \E d \in Connections : HandleRoomList(d)
  <2>1. \A S : create_room_list(S).type = "ROOM_LIST"
    BY DEF create_room_list
  <2>2. CASE HandleRoomList(c)
    <3>1. Reply(c, create_room_list(rooms)) /\ create_room_list(rooms) \in ServerMessages
      BY <1>1, <2>2, MessagesTyped DEF HandleRoomList
    <3>. QED  BY <1>3, <2>1, <2>2, <3>1
  <2>3. CASE ~HandleRoomList(c)
    BY <1>1, <1>2, <1>4, <2>3 DEF HandleRoomList, Reply
  <2>. QED  BY <2>2, <2>3
<1>5. ASSUME NEW d \in Connections, HandleRoomHistory(d)
      PROVE  \E t \in Seq(ServerMessages) : Appends(t)
  <2>. DEFINE m == Head(messages_in[d])
  <2>1. CASE d = c /\ m.event_count \in 0 .. HistoryMax /\ m.room \in rooms
             /\ Reply(d, get_room_history(m.room, recorded(m.room), m.event_count))
    <3>1. get_room_history(m.room, recorded(m.room), m.event_count) \in ServerMessages
      BY <1>1, <2>1, HistoryMessageTyped, LogTyped, BoundsAssumption
    <3>2. get_room_history(m.room, recorded(m.room), m.event_count).type = "ROOM_HISTORY"
      BY DEF get_room_history, history_message
    <3>. QED  BY <1>3, <2>1, <3>1, <3>2
  <2>2. CASE d # c \/ UNCHANGED messages_out
    BY <1>1, <1>2, <1>5, <2>2 DEF HandleRoomHistory, Reply
  <2>. QED  BY <1>5, <2>1, <2>2 DEF HandleRoomHistory
<1>6. CASE Announce
  <2>. DEFINE created == [i \in DOMAIN new_rooms |-> create_room_create(new_rooms[i])]
              gone == [i \in DOMAIN destroyed_rooms |-> create_room_destroy(destroyed_rooms[i])]
  <2>1. created \in Seq(ServerMessages) /\ gone \in Seq(ServerMessages)
    <3>1. /\ \A i \in DOMAIN new_rooms : create_room_create(new_rooms[i]) \in ServerMessages
          /\ \A i \in DOMAIN destroyed_rooms :
                create_room_destroy(destroyed_rooms[i]) \in ServerMessages
      BY <1>1, MessagesTyped DEF TypeOK, BatchTypes
    <3>. QED  BY <3>1, MapTyped DEF TypeOK, BatchTypes
  <2>2. /\ \A r : \A i \in DOMAIN created : created[i] # create_room_destroy(r)
        /\ \A r : \A i \in DOMAIN gone :
              gone[i] = create_room_destroy(r) => r \in Elements(destroyed_rooms)
        /\ \A i \in DOMAIN created : created[i].type # "CHAT_ECHO"
        /\ \A i \in DOMAIN gone : gone[i].type # "CHAT_ECHO"
    BY DEF create_room_create, create_room_destroy, Elements
  <2>. HIDE DEF created, gone
  <2>3. /\ created \o gone \in Seq(ServerMessages)
        /\ \A i \in DOMAIN (created \o gone) :
              \/ i \in DOMAIN created /\ (created \o gone)[i] = created[i]
              \/ /\ i - Len(created) \in DOMAIN gone
                 /\ (created \o gone)[i] = gone[i - Len(created)]
    BY <2>1
  <2>4. \/ messages_out'[c] = messages_out[c] \o (created \o gone)
        \/ messages_out'[c] = messages_out[c] \o << >>
    BY <1>6 DEF Announce, announcements, created, gone
  <2>5. CASE messages_out'[c] = messages_out[c] \o (created \o gone)
    <3>1. Appends(created \o gone)
      BY <1>6, <2>2, <2>3, <2>5
    <3>. QED  BY <2>3, <3>1
  <2>6. CASE messages_out'[c] = messages_out[c] \o << >>
    BY <1>1, <1>2, <2>6
  <2>. QED  BY <2>4, <2>5, <2>6
<1>7. ASSUME NEW r \in rooms, Echo(r)
      PROVE  \E t \in Seq(ServerMessages) : Appends(t)
  <2>. DEFINE joined == [d \in Connections |-> IF Owned(d) THEN room[r].joined[d] ELSE 0]
              events == room[r].events
              echoes == [i \in DOMAIN events |-> create_chat_echo(r, events[i])]
              Echoes == {m \in ServerMessages : m.type = "CHAT_ECHO"}
  <2>1. joined \in [Connections -> Nat] /\ events \in Seq(Events)
    BY DEF TypeOK, RoomTypes, ServerRooms
  <2>2. echoes \in Seq(Echoes)
    <3>1. \A i \in DOMAIN events : create_chat_echo(r, events[i]) \in ServerMessages
      BY <1>1, <2>1, MessagesTyped
    <3>2. \A i \in DOMAIN events : create_chat_echo(r, events[i]) \in Echoes
      BY <3>1 DEF create_chat_echo
    <3>. QED  BY <2>1, <3>2, MapTyped
  <2>3. messages_out'[c] = messages_out[c] \o Times(joined[c], echoes)
    BY <1>7 DEF Echo
  <2>. HIDE DEF joined, echoes, events
  <2>4. Times(joined[c], echoes) \in Seq(Echoes)
    BY <2>1, <2>2, TimesTyped
  <2>5. \A m \in Echoes : \A q : m # create_room_destroy(q)
    BY DEF create_room_destroy
  <2>6. ASSUME NEW t \in Seq(Echoes), messages_out'[c] = messages_out[c] \o t
        PROVE  t \in Seq(ServerMessages) /\ Appends(t)
    <3>1. Echoes \subseteq ServerMessages /\ \A i \in DOMAIN t : t[i] \in Echoes
      OBVIOUS
    <3>2. t \in Seq(ServerMessages)
      BY <3>1, SeqWidens
    <3>. QED  BY <1>7, <2>5, <2>6, <3>1, <3>2
  <2>. QED  BY <2>3, <2>4, <2>6
<1>. QED  BY <1>2, <1>4, <1>5, <1>6, <1>7
     DEF ServerWorker, StartBatch, StopServing, NextClient, Handle, HandleRoomCreate,
         HandleRoomJoin, HandleRoomDestroy, HandleChatSend, HandleOther, CleanUp

-----------------------------------------------------------------------------
(***************************************************************************)
(* Histories.                                                              *)
(***************************************************************************)
\* An event in a history after a step of the server worker was in it before, or it is
\* the line of the request that was handled.
LEMMA HistoryGrows ==
    ASSUME TypeOK, ServerWorker, NEW r \in DOMAIN history', NEW e \in Elements(history'[r])
    PROVE  \/ r \in DOMAIN history /\ e \in Elements(history[r])
           \/ \E c \in Connections : /\ HandleChatSend(c)
                                     /\ e = RoomEvent(user[c], Head(messages_in[c]).text)
<1>1. CASE history' = history
  BY <1>1
<1>2. CASE CleanUp
  BY <1>2 DEF CleanUp, Without
<1>3. ASSUME NEW c \in Connections, HandleChatSend(c), history' # history
      PROVE  \/ r \in DOMAIN history /\ e \in Elements(history[r])
             \/ e = RoomEvent(user[c], Head(messages_in[c]).text)
  <2>. DEFINE m == Head(messages_in[c])
              new == RoomEvent(user[c], m.text)
              OldOrNew == Elements(recorded(m.room)) \cup {new}
  <2>1. history' = With(history, m.room, Recorded(recorded(m.room), new, HistoryLimit))
    BY <1>3 DEF HandleChatSend, roomVars
  <2>2. recorded(m.room) \in Seq(OldOrNew)
    <3>1. recorded(m.room) \in Seq(Events)
      BY LogTyped
    <3>. QED  BY <3>1 DEF Elements
  <2>. HIDE DEF m, new
  <2>3. Recorded(recorded(m.room), new, HistoryLimit) \in Seq(OldOrNew)
    BY <2>2, RecordedTyped, BoundsAssumption
  <2>4. CASE r = m.room
    <3>1. history'[r] \in Seq(OldOrNew)
      BY <2>1, <2>3, <2>4 DEF With
    <3>2. e \in OldOrNew
      BY <3>1 DEF Elements
    <3>. QED  BY <2>4, <3>2 DEF recorded, Elements, new, m
  <2>5. CASE r # m.room
    BY <2>1, <2>5 DEF With
  <2>. QED  BY <2>4, <2>5
<1>4. \/ history' = history \/ CleanUp
      \/ \E c \in Connections : HandleChatSend(c)
  BY DEF ServerWorker, StartBatch, StopServing, NextClient, Handle, HandleRoomList,
         HandleRoomCreate, HandleRoomJoin, HandleRoomDestroy, HandleRoomHistory,
         HandleOther, Announce, Echo, roomVars
<1>. QED  BY <1>1, <1>2, <1>3, <1>4

\* What was recorded is clean of what every client is shown, except for the rooms
\* whose destruction is being announced.
LEMMA HistoriesStayClean ==
    ASSUME TypeOK, Handshaken, LinesAreFresh, HistoriesAreClean, [Next]_vars
    PROVE  HistoriesAreClean'
<1>. DEFINE Excepted(r) == pc = "echo" /\ r \in Elements(destroyed_rooms)
<1>1. \A c \in Connections : /\ sent[c] \in Seq(ServerMessages)
                             /\ messages_out[c] \in Seq(ServerMessages)
  BY DEF TypeOK, TaskTypes, QueueTypes
<1>2. \A r \in DOMAIN history, c \in Connections : \A e \in Elements(history[r]) :
         ~Excepted(r) => Clean(sent[c] \o messages_out[c], r, e)
  BY DEF HistoriesAreClean, Stream
<1>3. SUFFICES ASSUME NEW r \in DOMAIN history', NEW c \in Connections, ~Excepted(r)',
                      NEW e \in Elements(history'[r])
               PROVE  Clean(sent'[c] \o messages_out'[c], r, e)
  <2>1. \A q, f : \A x \in Connections :
           Clean(Stream(x), q, f)' = Clean(sent'[x] \o messages_out'[x], q, f)
    BY DEF Stream, Clean, Shows, Elements, create_room_destroy, create_chat_echo
  <2>2. \A q : Elements(history[q])' = Elements(history'[q])
    BY DEF Elements
  <2>. QED  BY <1>3, <2>1, <2>2 DEF HistoriesAreClean
<1>4. CASE \/ MainThread
           \/ \E d \in Connections : PeerLeaves(d) \/ ClientTask(d)
  <2>1. UNCHANGED <<pc, destroyed_rooms, history>>
    BY <1>4, OthersLeaveRooms
  <2>2. Clean(sent[c] \o messages_out[c], r, e)
    BY <1>2, <1>3, <2>1 DEF Elements
  <2>3. CASE sent'[c] \o messages_out'[c] = sent[c]
    BY <1>1, <2>2, <2>3, CleanPrefix
  <2>4. ASSUME NEW a \in Seq({create_ack, create_nak}),
               sent'[c] \o messages_out'[c] = sent[c] \o a \o messages_out[c]
        PROVE  Clean(sent'[c] \o messages_out'[c], r, e)
    BY <1>1, <2>2, <2>4, CleanInsert
  <2>. QED  BY <1>4, <2>3, <2>4, OthersKeepStreams
<1>5. CASE ServerWorker
  <2>1. PICK t \in Seq(ServerMessages) :
           /\ messages_out'[c] = messages_out[c] \o t
           /\ \A q : (\E i \in DOMAIN t : t[i] = create_room_destroy(q))
                        => Announce /\ q \in Elements(destroyed_rooms)
    BY <1>5, ServerAppends
  <2>2. sent' = sent
    BY <1>5 DEF ServerWorker, StartBatch, StopServing, NextClient, Handle, HandleRoomList,
                HandleRoomCreate, HandleRoomJoin, HandleRoomDestroy, HandleRoomHistory,
                HandleChatSend, HandleOther, Pop, Announce, Echo, CleanUp, clientSide, taskVars
  <2>3. sent'[c] \o messages_out'[c] = (sent[c] \o messages_out[c]) \o t
    <3>1. \A x, y, z \in Seq(ServerMessages) : x \o (y \o z) = (x \o y) \o z
      OBVIOUS
    <3>2. sent'[c] \o messages_out'[c] = sent[c] \o (messages_out[c] \o t)
      BY <2>1, <2>2
    <3>3. sent[c] \o (messages_out[c] \o t) = (sent[c] \o messages_out[c]) \o t
      BY <1>1, <3>1
    <3>. QED  BY <3>2, <3>3
  <2>4. \A i \in DOMAIN t : t[i] # create_room_destroy(r)
    <3>1. Announce => pc' = "echo" /\ destroyed_rooms' = destroyed_rooms
      BY DEF Announce
    <3>. QED  BY <1>3, <2>1, <3>1 DEF Elements
  <2>5. CASE r \in DOMAIN history /\ e \in Elements(history[r])
    <3>1. ~Excepted(r)
      <4>1. pc = "echo" => \/ CleanUp
                           \/ pc' = pc /\ destroyed_rooms' = destroyed_rooms
        BY <1>5 DEF ServerWorker, StartBatch, StopServing, NextClient, Handle, HandleRoomList,
                    HandleRoomCreate, HandleRoomJoin, HandleRoomDestroy, HandleRoomHistory,
                    HandleChatSend, HandleOther, Pop, Gathering, Announce, Echo
      <4>2. CleanUp => r \notin Elements(destroyed_rooms)
        BY <1>3 DEF CleanUp, Without
      <4>. QED  BY <1>3, <4>1, <4>2 DEF Elements
    <3>2. Clean(sent[c] \o messages_out[c], r, e)
      BY <1>2, <2>5, <3>1
    <3>3. sent[c] \o messages_out[c] \in Seq(ServerMessages)
      BY <1>1
    <3>. QED  BY <2>3, <2>4, <3>2, <3>3, CleanAppends
  <2>6. ASSUME NEW d \in Connections, HandleChatSend(d),
               e = RoomEvent(user[d], Head(messages_in[d]).text)
        PROVE  Clean(sent'[c] \o messages_out'[c], r, e)
    <3>. DEFINE n == Head(messages_in[d]).text
    <3>1. /\ messages_in[d] # << >> /\ messages_in[d] \in Seq(Requests)
          /\ Head(messages_in[d]).type = "CHAT_SEND"
      BY <2>6 DEF HandleChatSend, Pop, TypeOK, QueueTypes
    <3>2. n \in 1 .. MaxRequests
      BY <3>1, RequestFields
    <3>3. e \in Events /\ e.text = n
      BY <2>6, <3>2 DEF RoomEvent, Events, TypeOK, TaskTypes
    <3>4. Pending(n)
      <4>1. 1 \in Lines(d) /\ messages_in[d][1].text = n
        BY <3>1 DEF Lines
      <4>. QED  BY <4>1 DEF Pending
    <3>5. sent[c] \in Seq(Silent(n)) /\ messages_out[c] \in Seq(Silent(n))
      BY <3>2, <3>4 DEF LinesAreFresh, Fresh
    <3>6. messages_out' = messages_out
      BY <2>6 DEF HandleChatSend
    <3>7. sent'[c] \o messages_out'[c] \in Seq(Silent(e.text))
      BY <2>2, <3>3, <3>5, <3>6
    <3>. QED  BY <3>3, <3>7, SilentIsClean
  <2>. QED  BY <1>5, <2>5, <2>6, HistoryGrows
<1>6. CASE UNCHANGED vars
  <2>1. UNCHANGED <<pc, destroyed_rooms, history, sent, messages_out>>
    BY <1>6 DEF vars, taskVars, batchVars, roomVars
  <2>. QED  BY <1>2, <1>3, <2>1 DEF Elements
<1>. QED  BY <1>4, <1>5, <1>6 DEF Next

\* Nothing is said yet.
LEMMA LinesFreshInit == Init => LinesAreFresh
<1>. SUFFICES ASSUME Init
              PROVE  LinesAreFresh
  OBVIOUS
<1>1. \A n : Fresh(n)
  <2>1. \A n : << >> \in Seq(EventsBut(n)) /\ << >> \in Seq(Silent(n))
    OBVIOUS
  <2>. QED  BY <2>1 DEF Init, Fresh, rooms, NewRoom
<1>2. \A c \in Connections : Lines(c) = {}
  BY DEF Init, Lines
<1>3. << >> \in Seq({create_ack})
  OBVIOUS
<1>. QED  BY <1>1, <1>2, <1>3 DEF Init, LinesAreFresh

\* However clients destroy, create again and write to rooms of one name, and whatever
\* is announced and echoed in between, a history holds no line that a client was shown
\* before it was told that the room is gone.
THEOREM RoomsStartAfresh == Spec => []NothingOutlivesItsRoom
<1>. DEFINE IInv == Handshaken /\ LinesAreFresh /\ HistoriesAreClean
<1>1. Init => IInv
  <2>1. Init => HistoriesAreClean
    BY DEF Init, HistoriesAreClean
  <2>. QED  BY <2>1, HandshakenInit, LinesFreshInit
<1>2. TypeOK /\ IInv /\ [Next]_vars => IInv'
  BY HandshakenStep, LinesStayFresh, HistoriesStayClean
<1>3. IInv => NothingOutlivesItsRoom
  BY DEF HistoriesAreClean, Clean, NothingOutlivesItsRoom
<1>. HIDE DEF IInv
<1>. QED  BY <1>1, <1>2, <1>3, TypeCorrect, PTL DEF Spec

-----------------------------------------------------------------------------
(***************************************************************************)
(* What members hear.                                                      *)
(***************************************************************************)
\* The echoes of a room's events.
EchoesOf(r, s) == [i \in DOMAIN s |-> create_chat_echo(r, s[i])]

Waiting(r) == EchoesOf(r, room[r].events)
Logged(r)  == EchoesOf(r, recorded(r))

EchoesInOrder(c, r) ==
    worker[c] \notin {"stuck", "done"} => Hears(room[r].joined[c], Stream(c), Waiting(r), Logged(r))

\* Events wait only while a batch is gathered and until they are echoed, a log holds no
\* event twice, and connections without a task are in no room.
RoomInOrder(r) ==
    /\ room[r].events # << >> => pc = "gather" \/ (pc = "echo" /\ r \in unsent)
    /\ Distinct(Logged(r)) /\ Len(Logged(r)) <= HistoryLimit
    /\ Follows(Waiting(r), Logged(r))
    /\ \A c \in Connections : worker[c] = "none" => room[r].joined[c] = 0

MembersHear == \A r \in rooms : RoomInOrder(r) /\ \A c \in Connections : EchoesInOrder(c, r)

\* Echoes of the same events, in the same order.
LEMMA EchoesTyped ==
    ASSUME NEW r \in ValidNames, NEW s \in Seq(Events)
    PROVE  /\ EchoesOf(r, s) \in Seq(ServerMessages)
           /\ DOMAIN EchoesOf(r, s) = DOMAIN s /\ Len(EchoesOf(r, s)) = Len(s)
<1>1. \A i \in DOMAIN s : create_chat_echo(r, s[i]) \in ServerMessages
  BY MessagesTyped
<1>2. EchoesOf(r, s) \in Seq(ServerMessages)
  BY <1>1, MapTyped DEF EchoesOf
<1>3. DOMAIN EchoesOf(r, s) = DOMAIN s
  BY DEF EchoesOf
<1>4. \A t \in Seq(ServerMessages), u \in Seq(Events) : DOMAIN t = DOMAIN u => Len(t) = Len(u)
  OBVIOUS
<1>. QED  BY <1>2, <1>3, <1>4

LEMMA EchoesAppend ==
    ASSUME NEW r, NEW D, NEW s \in Seq(D), NEW e \in D
    PROVE  EchoesOf(r, Append(s, e)) = Append(EchoesOf(r, s), create_chat_echo(r, e))
<1>. DEFINE x == create_chat_echo(r, e)
            E == {create_chat_echo(r, f) : f \in D}
            u == EchoesOf(r, s)
            t == Append(s, e)
            v == EchoesOf(r, t)
<1>1. /\ DOMAIN s = 1 .. Len(s) /\ DOMAIN t = 1 .. Len(s) + 1 /\ Len(s) \in Nat
      /\ t[Len(s) + 1] = e /\ \A i \in 1 .. Len(s) : t[i] = s[i]
  OBVIOUS
<1>2. u \in Seq(E) /\ Len(u) = Len(s) /\ \A i \in 1 .. Len(s) : u[i] = create_chat_echo(r, s[i])
  <2>1. u = [i \in 1 .. Len(s) |-> create_chat_echo(r, s[i])]
    BY <1>1 DEF EchoesOf
  <2>2. \A i \in 1 .. Len(s) : create_chat_echo(r, s[i]) \in E
    OBVIOUS
  <2>. HIDE DEF E, u
  <2>. QED  BY <1>1, <2>1, <2>2
<1>3. /\ v \in Seq(E) /\ Len(v) = Len(s) + 1
      /\ \A i \in 1 .. Len(s) + 1 : v[i] = create_chat_echo(r, t[i])
  <2>1. v = [i \in 1 .. Len(s) + 1 |-> create_chat_echo(r, t[i])]
    BY <1>1 DEF EchoesOf
  <2>2. \A i \in 1 .. Len(s) + 1 : create_chat_echo(r, t[i]) \in E
    OBVIOUS
  <2>. HIDE DEF E, v, t
  <2>. QED  BY <1>1, <2>1, <2>2
<1>4. x \in E
  OBVIOUS
<1>. HIDE DEF E, u, t, v, x
<1>5. /\ Append(u, x) \in Seq(E) /\ Len(Append(u, x)) = Len(s) + 1
      /\ Append(u, x)[Len(s) + 1] = x /\ \A i \in 1 .. Len(s) : Append(u, x)[i] = u[i]
  BY <1>2, <1>4
<1>6. \A i \in 1 .. Len(s) + 1 : v[i] = Append(u, x)[i]
  <2>1. v[Len(s) + 1] = x
    BY <1>1, <1>3 DEF x
  <2>2. \A i \in 1 .. Len(s) : v[i] = u[i]
    BY <1>1, <1>2, <1>3
  <2>. QED  BY <1>1, <1>5, <2>1, <2>2
<1>7. v = Append(u, x)
  BY <1>3, <1>5, <1>6
<1>. QED  BY <1>7 DEF u, t, v, x

LEMMA EchoesRecorded ==
    ASSUME NEW r \in ValidNames, NEW s \in Seq(Events), NEW e \in Events, NEW n \in Nat
    PROVE  EchoesOf(r, Recorded(s, e, n)) = Recorded(EchoesOf(r, s), create_chat_echo(r, e), n)
<1>. DEFINE t == Append(s, e)
            u == EchoesOf(r, t)
            d == IF Len(t) > n THEN Len(t) - n ELSE 0
<1>1. t \in Seq(Events)
  OBVIOUS
<1>2. /\ u = Append(EchoesOf(r, s), create_chat_echo(r, e))
      /\ Len(u) = Len(t) /\ u = [i \in DOMAIN t |-> create_chat_echo(r, t[i])]
  BY <1>1, EchoesAppend, EchoesTyped DEF EchoesOf
<1>3. Recorded(s, e, n) = [i \in 1 .. Len(t) - d |-> t[i + d]]
  BY DEF Recorded, LastOf
<1>4. Recorded(EchoesOf(r, s), create_chat_echo(r, e), n) = [i \in 1 .. Len(t) - d |-> u[i + d]]
  <2>1. Recorded(EchoesOf(r, s), create_chat_echo(r, e), n) = LastOf(u, n)
    BY <1>2 DEF Recorded
  <2>. HIDE DEF u, t
  <2>. QED  BY <1>2, <2>1 DEF LastOf
<1>5. \A i \in 1 .. Len(t) - d : i + d \in DOMAIN t
  <2>1. Len(t) \in Nat /\ DOMAIN t = 1 .. Len(t) /\ d \in Nat
    BY <1>1
  <2>. HIDE DEF t, d
  <2>. QED  BY <2>1
<1>. HIDE DEF t, u, d
<1>6. \A i \in 1 .. Len(t) - d : u[i + d] = create_chat_echo(r, t[i + d])
  BY <1>2, <1>5
<1>. DEFINE g == Recorded(s, e, n)
<1>7. DOMAIN g = 1 .. Len(t) - d /\ \A i \in 1 .. Len(t) - d : g[i] = t[i + d]
  BY <1>3
<1>8. EchoesOf(r, g) = [i \in 1 .. Len(t) - d |-> create_chat_echo(r, g[i])]
  <2>. HIDE DEF g
  <2>. QED  BY <1>7 DEF EchoesOf
<1>. HIDE DEF g
<1>9. EchoesOf(r, g) = [i \in 1 .. Len(t) - d |-> u[i + d]]
  BY <1>6, <1>7, <1>8
<1>. QED  BY <1>4, <1>9 DEF g

LEMMA EchoElements ==
    ASSUME NEW r, NEW s
    PROVE  Elements(EchoesOf(r, s)) = {create_chat_echo(r, e) : e \in Elements(s)}
BY DEF EchoesOf, Elements

\* Messages that are no echoes are echoes of no room.
LEMMA NotEchoed ==
    ASSUME NEW r, NEW s, NEW h, NEW t, \A i \in DOMAIN t : t[i].type # "CHAT_ECHO"
    PROVE  Absent(t, EchoesOf(r, s), EchoesOf(r, h))
<1>1. \A m \in Elements(EchoesOf(r, s)) \cup Elements(EchoesOf(r, h)) : m.type = "CHAT_ECHO"
  BY EchoElements DEF create_chat_echo
<1>. QED  BY <1>1 DEF Absent

LEMMA RoomsTyped ==
    ASSUME TypeOK
    PROVE  /\ \A c \in Connections : /\ sent[c] \in Seq(ServerMessages)
                                     /\ messages_out[c] \in Seq(ServerMessages)
           /\ \A r \in rooms : /\ Waiting(r) \in Seq(ServerMessages)
                               /\ Logged(r) \in Seq(ServerMessages)
                               /\ r \in ValidNames /\ room[r] \in ServerRooms
                               /\ room[r].events \in Seq(Events)
<1>1. \A c \in Connections : /\ sent[c] \in Seq(ServerMessages)
                             /\ messages_out[c] \in Seq(ServerMessages)
  BY DEF TypeOK, TaskTypes, QueueTypes
<1>2. \A r \in rooms : r \in ValidNames /\ room[r] \in ServerRooms /\ room[r].events \in Seq(Events)
  BY DEF TypeOK, RoomTypes, ServerRooms
<1>3. ASSUME NEW r \in rooms
      PROVE  Waiting(r) \in Seq(ServerMessages) /\ Logged(r) \in Seq(ServerMessages)
  <2>1. recorded(r) \in Seq(Events)
    BY LogTyped
  <2>. QED  BY <1>2, <2>1, EchoesTyped DEF Waiting, Logged
<1>. QED  BY <1>1, <1>2, <1>3

\* Primed, the parts are about the primed variables.
LEMMA PrimedParts ==
    /\ \A c : Stream(c)' = sent'[c] \o messages_out'[c]
    /\ \A r : Waiting(r)' = EchoesOf(r, room'[r].events)
    /\ \A r : Logged(r)' = EchoesOf(r, recorded(r)')
    /\ \A c, r : EchoesInOrder(c, r)' <=>
          (worker'[c] \notin {"stuck", "done"} =>
               Hears(room'[r].joined[c], Stream(c)', Waiting(r)', Logged(r)'))
BY DEF Stream, Waiting, Logged, EchoesInOrder

\* A room that a step leaves as it is stays in order as long as its events may wait.
LEMMA RoomKept ==
    ASSUME NEW r, RoomInOrder(r),
           room'[r].events = room[r].events, recorded(r)' = recorded(r),
           room[r].events # << >> => pc' = "gather" \/ (pc' = "echo" /\ r \in unsent'),
           \A c \in Connections : worker'[c] = "none" => room'[r].joined[c] = 0
    PROVE  RoomInOrder(r)' /\ Waiting(r)' = Waiting(r) /\ Logged(r)' = Logged(r)
<1>1. Waiting(r)' = Waiting(r) /\ Logged(r)' = Logged(r)
  BY PrimedParts DEF Waiting, Logged
<1>. QED  BY <1>1 DEF RoomInOrder

\* Steps of the main thread, of the network and of client workers.
LEMMA OthersKeepHearing ==
    ASSUME TypeOK, Handshaken, LinesAreFresh, MembersHear,
           \/ MainThread
           \/ \E d \in Connections : PeerLeaves(d) \/ ClientTask(d)
    PROVE  MembersHear'
<1>1. UNCHANGED <<pc, unsent, room, history, rooms>>
  <2>1. UNCHANGED unsent
    BY DEF MainThread, Shutdown, AcceptClient, RejectClient, AddConnection, PeerLeaves,
           ClientTask, StartTask, Hello, NoHello, Received, ReceiveHeartbeat, QueueRequest,
           SendQueued, FinishTask, TaskThrows, BadBlock, GetStuck, serverSide, batchVars
  <2>. QED  BY <2>1, OthersLeaveRooms
<1>2. \A c \in Connections : /\ worker'[c] = "none" => worker[c] = "none"
                             /\ worker'[c] \notin {"stuck", "done"} => worker[c] \notin {"stuck", "done"}
  <2>1. \/ worker' = worker
        \/ \E c \in Connections : /\ worker' = [worker EXCEPT ![c] = "queued"]
                                  /\ c = accepted + 1
        \/ \E c \in Connections : worker' = [worker EXCEPT ![c] = "hello"] /\ worker[c] = "queued"
        \/ \E c \in Connections : worker' = [worker EXCEPT ![c] = "serving"] /\ worker[c] = "hello"
        \/ \E c \in Connections : /\ worker' = [worker EXCEPT ![c] = "stuck"]
                                  /\ worker[c] = "serving"
        \/ \E c \in Connections : worker' = [worker EXCEPT ![c] = "done"]
    BY DEF MainThread, Shutdown, AcceptClient, RejectClient, AddConnection, PeerLeaves,
           ClientTask, StartTask, Hello, NoHello, Received, ReceiveHeartbeat, QueueRequest,
           SendQueued, FinishTask, TaskThrows, BadBlock, GetStuck, taskVars
  <2>2. \A c \in Connections : c = accepted + 1 => worker[c] = "none"
    <3>1. accepted \in Nat
      BY BoundsAssumption DEF TypeOK, NetTypes
    <3>2. accepted + 1 > accepted
      BY <3>1
    <3>. QED  BY <3>2 DEF Handshaken, HandshakeState
  <2>3. DOMAIN worker = Connections
    BY DEF TypeOK, TaskTypes
  <2>. QED  BY <2>1, <2>2, <2>3
<1>3. \A r \in rooms : recorded(r)' = recorded(r)
  BY <1>1 DEF recorded
<1>4. \A r \in rooms : RoomInOrder(r)' /\ Waiting(r)' = Waiting(r) /\ Logged(r)' = Logged(r)
  <2>. SUFFICES ASSUME NEW r \in rooms
                PROVE  RoomInOrder(r)' /\ Waiting(r)' = Waiting(r) /\ Logged(r)' = Logged(r)
    OBVIOUS
  <2>1. RoomInOrder(r)
    BY DEF MembersHear
  <2>2. \A c \in Connections : worker'[c] = "none" => room'[r].joined[c] = 0
    BY <1>1, <1>2, <2>1 DEF RoomInOrder
  <2>3. room[r].events # << >> => pc' = "gather" \/ (pc' = "echo" /\ r \in unsent')
    BY <1>1, <2>1 DEF RoomInOrder
  <2>. QED  BY <1>1, <1>3, <2>1, <2>2, <2>3, RoomKept
<1>5. ASSUME NEW r \in rooms, NEW c \in Connections, worker'[c] \notin {"stuck", "done"}
      PROVE  Hears(room[r].joined[c], Stream(c)', Waiting(r), Logged(r))
  <2>1. Hears(room[r].joined[c], Stream(c), Waiting(r), Logged(r))
    BY <1>2, <1>5 DEF MembersHear, EchoesInOrder
  <2>2. PICK a \in Seq({create_ack, create_nak}) :
           sent'[c] \o messages_out'[c] = sent[c] \o a \o messages_out[c]
    BY <1>5, OthersKeepStreams
  <2>3. \A i \in DOMAIN a : a[i].type # "CHAT_ECHO"
    <3>1. \A i \in DOMAIN a : a[i] \in {create_ack, create_nak}
      OBVIOUS
    <3>. QED  BY <3>1 DEF create_ack, create_nak
  <2>4. Absent(a, Waiting(r), Logged(r))
    BY <2>3, NotEchoed DEF Waiting, Logged
  <2>5. a \in Seq(ServerMessages)
    <3>1. {create_ack, create_nak} \subseteq ServerMessages
      BY MessagesTyped
    <3>. QED  BY <3>1, SeqWidens
  <2>6. /\ Waiting(r) \in Seq(ServerMessages) /\ Logged(r) \in Seq(ServerMessages)
        /\ sent[c] \in Seq(ServerMessages) /\ messages_out[c] \in Seq(ServerMessages)
    BY RoomsTyped
  <2>7. Hears(room[r].joined[c], sent[c] \o messages_out[c], Waiting(r), Logged(r))
    BY <2>1 DEF Stream
  <2>8. Hears(room[r].joined[c], (sent[c] \o a) \o messages_out[c], Waiting(r), Logged(r))
    BY <2>4, <2>5, <2>6, <2>7, HearsInserted
  <2>. QED  BY <2>2, <2>8, PrimedParts
<1>6. ASSUME NEW r \in rooms, NEW c \in Connections
      PROVE  EchoesInOrder(c, r)'
  BY <1>1, <1>4, <1>5, PrimedParts
<1>. QED  BY <1>1, <1>4, <1>6 DEF MembersHear

-----------------------------------------------------------------------------
(***************************************************************************)
(* Steps of the server worker.                                             *)
(***************************************************************************)
\* The server worker writes to no socket and starts or ends no task.
LEMMA ServerLeavesTasks ==
    ASSUME ServerWorker
    PROVE  sent' = sent /\ worker' = worker
BY DEF ServerWorker, StartBatch, StopServing, NextClient, Handle, HandleRoomList,
       HandleRoomCreate, HandleRoomJoin, HandleRoomDestroy, HandleRoomHistory,
       HandleChatSend, HandleOther, Pop, Announce, Echo, CleanUp, clientSide, taskVars

\* What is appended to a stream and is no echo of a room makes no difference to it.
LEMMA HearsAppended ==
    ASSUME TypeOK, NEW c \in Connections, NEW r \in rooms, NEW n,
           Hears(n, Stream(c), Waiting(r), Logged(r)),
           NEW t \in Seq(ServerMessages), Absent(t, Waiting(r), Logged(r)),
           sent'[c] = sent[c], messages_out'[c] = messages_out[c] \o t
    PROVE  Hears(n, Stream(c)', Waiting(r), Logged(r))
<1>1. /\ Waiting(r) \in Seq(ServerMessages) /\ Logged(r) \in Seq(ServerMessages)
      /\ sent[c] \in Seq(ServerMessages) /\ messages_out[c] \in Seq(ServerMessages)
  BY RoomsTyped
<1>2. PICK z \in Seq(ServerMessages) : z = sent[c] \o messages_out[c]
  <2>1. sent[c] \o messages_out[c] \in Seq(ServerMessages)
    BY <1>1
  <2>. QED  BY <2>1
<1>3. z = Stream(c)
  BY <1>2 DEF Stream
<1>4. PICK u \in Seq(ServerMessages) : u = << >>
  <2>1. << >> \in Seq(ServerMessages)
    OBVIOUS
  <2>. QED  BY <2>1
<1>5. z \o u = z /\ (z \o t) \o u = z \o t
  <2>1. \A y \in Seq(ServerMessages) : y \o << >> = y
    OBVIOUS
  <2>2. z \o t \in Seq(ServerMessages)
    OBVIOUS
  <2>. QED  BY <1>4, <2>1, <2>2
<1>6. Hears(n, z \o u, Waiting(r), Logged(r))
  BY <1>3, <1>5
<1>7. Hears(n, (z \o t) \o u, Waiting(r), Logged(r))
  BY <1>1, <1>6, HearsInserted
<1>8. Stream(c)' = z \o t
  <2>1. \A x, y \in Seq(ServerMessages) : x \o (y \o t) = (x \o y) \o t
    OBVIOUS
  <2>2. sent[c] \o (messages_out[c] \o t) = (sent[c] \o messages_out[c]) \o t
    BY <1>1, <2>1
  <2>. QED  BY <1>2, <2>2, PrimedParts
<1>. QED  BY <1>5, <1>7, <1>8

\* Only echoes make a difference to what is heard of a room whose events and log stay
\* as they are; clients may join it.
LEMMA UnechoedRoom ==
    ASSUME TypeOK, MembersHear, ServerWorker, \A q \in rooms : ~Echo(q), NEW r \in rooms,
           room'[r].events = room[r].events, recorded(r)' = recorded(r),
           room[r].events # << >> => pc' = "gather" \/ (pc' = "echo" /\ r \in unsent'),
           \A c \in Connections : \/ room'[r].joined[c] = room[r].joined[c]
                                  \/ room'[r].joined[c] # 0 /\ worker[c] # "none"
    PROVE  RoomInOrder(r)' /\ \A c \in Connections : EchoesInOrder(c, r)'
<1>1. sent' = sent /\ worker' = worker
  BY ServerLeavesTasks
<1>2. RoomInOrder(r) /\ \A c \in Connections : EchoesInOrder(c, r)
  BY DEF MembersHear
<1>3. \A c \in Connections : worker'[c] = "none" => room'[r].joined[c] = 0
  BY <1>1, <1>2 DEF RoomInOrder
<1>4. RoomInOrder(r)' /\ Waiting(r)' = Waiting(r) /\ Logged(r)' = Logged(r)
  BY <1>2, <1>3, RoomKept
<1>5. ASSUME NEW c \in Connections, worker'[c] \notin {"stuck", "done"}
      PROVE  Hears(room'[r].joined[c], Stream(c)', Waiting(r), Logged(r))
  <2>1. Hears(room[r].joined[c], Stream(c), Waiting(r), Logged(r))
    BY <1>1, <1>2, <1>5 DEF EchoesInOrder
  <2>2. PICK t \in Seq(ServerMessages) :
           /\ messages_out'[c] = messages_out[c] \o t
           /\ \A i \in DOMAIN t : t[i].type # "CHAT_ECHO"
    BY ServerAppends
  <2>3. Absent(t, Waiting(r), Logged(r))
    BY <2>2, NotEchoed DEF Waiting, Logged
  <2>4. Hears(room[r].joined[c], Stream(c)', Waiting(r), Logged(r))
    BY <1>1, <2>1, <2>2, <2>3, HearsAppended
  <2>5. CASE room'[r].joined[c] = room[r].joined[c]
    BY <2>4, <2>5
  <2>6. CASE room'[r].joined[c] # 0
    <3>1. /\ Waiting(r) \in Seq(ServerMessages) /\ Logged(r) \in Seq(ServerMessages)
          /\ Follows(Waiting(r), Logged(r))
      BY <1>2, RoomsTyped DEF RoomInOrder
    <3>2. Stream(c)' \in Seq(ServerMessages)
      <4>1. /\ sent[c] \in Seq(ServerMessages) /\ messages_out[c] \in Seq(ServerMessages)
        BY RoomsTyped
      <4>2. messages_out[c] \o t \in Seq(ServerMessages)
        BY <4>1
      <4>3. \A y \in Seq(ServerMessages) : sent[c] \o y \in Seq(ServerMessages)
        BY <4>1
      <4>4. sent[c] \o (messages_out[c] \o t) \in Seq(ServerMessages)
        BY <4>2, <4>3
      <4>. QED  BY <1>1, <2>2, <4>4, PrimedParts
    <3>3. \A n : n # 0 => Hears(n, Stream(c)', Waiting(r), Logged(r))
      BY <2>4, <3>1, <3>2, HearsJoined
    <3>. QED  BY <2>6, <3>3
  <2>. QED  BY <2>5, <2>6
<1>6. \A c \in Connections : EchoesInOrder(c, r)'
  BY <1>4, <1>5, PrimedParts
<1>. QED  BY <1>4, <1>6

\* Steps of a batch that leave the rooms as they are, announcements among them.
LEMMA BatchKeepsHearing ==
    ASSUME TypeOK, MembersHear,
           \/ StartBatch \/ StopServing \/ Announce
           \/ \E c \in Connections : \/ NextClient(c) \/ HandleRoomList(c)
                                     \/ HandleRoomHistory(c) \/ HandleOther(c)
    PROVE  MembersHear'
<1>1. UNCHANGED <<room, history, rooms>>
  BY DEF StartBatch, StopServing, Announce, NextClient, HandleRoomList, HandleRoomHistory,
         HandleOther, roomVars, rooms
<1>2. ServerWorker
  BY DEF ServerWorker, Handle
<1>3. \A q \in rooms : ~Echo(q)
  BY DEF StartBatch, StopServing, Announce, NextClient, HandleRoomList, HandleRoomHistory,
         HandleOther, Pop, Gathering, Echo
<1>4. /\ StopServing => pc = "sleep"
      /\ ~StopServing => \/ pc' = "gather"
                         \/ pc' = "echo" /\ unsent' = rooms
  BY DEF StartBatch, StopServing, Announce, NextClient, HandleRoomList, HandleRoomHistory,
         HandleOther, Pop, Gathering
<1>5. \A r \in rooms : recorded(r)' = recorded(r)
  BY <1>1 DEF recorded
<1>6. ASSUME NEW r \in rooms
      PROVE  RoomInOrder(r)' /\ \A c \in Connections : EchoesInOrder(c, r)'
  <2>1. room[r].events # << >> => pc' = "gather" \/ (pc' = "echo" /\ r \in unsent')
    BY <1>4 DEF MembersHear, RoomInOrder
  <2>. QED  BY <1>1, <1>2, <1>3, <1>5, <2>1, UnechoedRoom
<1>. QED  BY <1>1, <1>6 DEF MembersHear

\* A room that is joined or marked.
LEMMA MarkingKeepsHearing ==
    ASSUME TypeOK, Handshaken, MembersHear, NEW d \in Connections,
           HandleRoomJoin(d) \/ HandleRoomDestroy(d)
    PROVE  MembersHear'
<1>. DEFINE q == Head(messages_in[d]).room
<1>1. ServerWorker
  BY DEF ServerWorker, Handle
<1>2. /\ UNCHANGED <<messages_out, history>> /\ Gathering(d) /\ messages_in[d] # << >>
      /\ pc' = pc
      /\ \/ UNCHANGED room
         \/ room' = [room EXCEPT ![q].joined[d] = 1]
         \/ room' = [room EXCEPT ![q].destroy_requested = TRUE]
  BY DEF HandleRoomJoin, HandleRoomDestroy, Pop
<1>3. \A r \in rooms : ~Echo(r)
  BY <1>2 DEF Gathering, Echo
<1>4. worker[d] # "none"
  BY <1>2 DEF Handshaken, HandshakeState, Acked, create_ack, create_nak
<1>. HIDE DEF q
<1>5. ASSUME NEW x \in ServerRooms
      PROVE  /\ [x EXCEPT !.joined[d] = 1].events = x.events
             /\ [x EXCEPT !.destroy_requested = TRUE].events = x.events
             /\ [x EXCEPT !.destroy_requested = TRUE].joined = x.joined
             /\ \A c \in Connections : [x EXCEPT !.joined[d] = 1].joined[c] =
                                          IF c = d THEN 1 ELSE x.joined[c]
  BY DEF ServerRooms
<1>6. /\ rooms' = rooms
      /\ \A r \in rooms :
            /\ room'[r].events = room[r].events
            /\ \A c \in Connections : \/ room'[r].joined[c] = room[r].joined[c]
                                      \/ room'[r].joined[c] # 0 /\ worker[c] # "none"
  <2>1. \A r \in rooms : room[r] \in ServerRooms
    BY RoomsTyped
  <2>2. CASE UNCHANGED room
    BY <2>2 DEF rooms
  <2>3. CASE room' = [room EXCEPT ![q].joined[d] = 1]
    BY <1>4, <1>5, <2>1, <2>3 DEF rooms
  <2>4. CASE room' = [room EXCEPT ![q].destroy_requested = TRUE]
    BY <1>5, <2>1, <2>4 DEF rooms
  <2>. QED  BY <1>2, <2>2, <2>3, <2>4
<1>7. \A r \in rooms : recorded(r)' = recorded(r)
  BY <1>2 DEF recorded
<1>8. pc' = "gather"
  BY <1>2 DEF Gathering
<1>9. ASSUME NEW r \in rooms
      PROVE  RoomInOrder(r)' /\ \A c \in Connections : EchoesInOrder(c, r)'
  BY <1>1, <1>3, <1>6, <1>7, <1>8, UnechoedRoom
<1>. QED  BY <1>6, <1>9 DEF MembersHear

\* A room of which nothing was said yet.
LEMMA NothingHeard ==
    ASSUME NEW S, NEW z \in Seq(S), NEW n
    PROVE  Follows(<< >>, << >>) /\ Distinct(<< >>) /\ Hears(n, z, << >>, << >>)
<1>1. Elements(<< >>) = {}
  BY DEF Elements
<1>2. << >> \in Seq(S) /\ z \o << >> = z
  OBVIOUS
<1>3. Follows(z, << >>) /\ Follows(<< >>, << >>)
  BY <1>1, <1>2, FollowsNothing
<1>. QED  BY <1>1, <1>2, <1>3 DEF Hears, Absent, Distinct

\* A room that is created.
LEMMA CreatingKeepsHearing ==
    ASSUME TypeOK, Handshaken, HistoryOnlyForRooms, MembersHear, NEW d \in Connections,
           HandleRoomCreate(d)
    PROVE  MembersHear'
<1>0. PICK q : q = Head(messages_in[d]).room
  OBVIOUS
<1>. DEFINE new == [NewRoom EXCEPT !.joined[d] = 1]
<1>1. ServerWorker
  BY DEF ServerWorker, Handle
<1>2. /\ UNCHANGED <<messages_out, history>> /\ Gathering(d) /\ messages_in[d] # << >>
      /\ pc' = pc
      /\ \/ UNCHANGED room
         \/ q \notin rooms /\ room' = With(room, q, new)
  BY <1>0 DEF HandleRoomCreate, Pop
<1>3. \A r \in rooms : ~Echo(r)
  BY <1>2 DEF Gathering, Echo
<1>4. worker[d] # "none" /\ worker' = worker /\ sent' = sent
  BY <1>1, <1>2, ServerLeavesTasks DEF Handshaken, HandshakeState, Acked, create_ack, create_nak
<1>5. new.events = << >> /\ \A c \in Connections : new.joined[c] = IF c = d THEN 1 ELSE 0
  BY DEF NewRoom
<1>6. \A r \in rooms : recorded(r)' = recorded(r)
  BY <1>2 DEF recorded
<1>7. pc' = "gather"
  BY <1>2 DEF Gathering
<1>. HIDE DEF new
<1>8. ASSUME NEW r \in rooms, room'[r] = room[r]
      PROVE  RoomInOrder(r)' /\ \A c \in Connections : EchoesInOrder(c, r)'
  BY <1>1, <1>3, <1>6, <1>7, <1>8, UnechoedRoom
<1>9. CASE UNCHANGED room
  BY <1>8, <1>9 DEF MembersHear, rooms
<1>10. CASE q \notin rooms /\ room' = With(room, q, new)
  <2>1. /\ rooms' = rooms \cup {q} /\ room'[q] = new
        /\ \A r \in rooms : room'[r] = room[r]
    BY <1>10 DEF With, rooms
  <2>2. recorded(q)' = << >>
    BY <1>2, <1>10 DEF recorded, HistoryOnlyForRooms
  <2>3. Waiting(q)' = << >> /\ Logged(q)' = << >>
    <3>1. EchoesOf(q, << >>) = << >>
      BY DEF EchoesOf
    <3>. QED  BY <1>5, <2>1, <2>2, <3>1, PrimedParts
  <2>4. \A c \in Connections : Stream(c)' \in Seq(ServerMessages)
    <3>1. \A c \in Connections : /\ sent[c] \in Seq(ServerMessages)
                                 /\ messages_out[c] \in Seq(ServerMessages)
      BY RoomsTyped
    <3>2. \A x, y \in Seq(ServerMessages) : x \o y \in Seq(ServerMessages)
      OBVIOUS
    <3>. QED  BY <1>2, <1>4, <3>1, <3>2, PrimedParts
  <2>5. RoomInOrder(q)'
    <3>1. /\ Distinct(Logged(q)') /\ Len(Logged(q)') <= HistoryLimit
          /\ Follows(Waiting(q)', Logged(q)')
      <4>1. << >> \in Seq(ServerMessages) /\ Len(<< >>) <= HistoryLimit
        BY BoundsAssumption
      <4>. QED  BY <2>3, <4>1, NothingHeard
    <3>2. \A c \in Connections : worker'[c] = "none" => room'[q].joined[c] = 0
      BY <1>4, <1>5, <2>1 
    <3>. QED  BY <1>5, <1>7, <2>1, <3>1, <3>2 DEF RoomInOrder
  <2>6. ASSUME NEW c \in Connections
        PROVE  EchoesInOrder(c, q)'
    BY <2>3, <2>4, NothingHeard, PrimedParts
  <2>. QED  BY <1>8, <2>1, <2>5, <2>6 DEF MembersHear
<1>. QED  BY <1>2, <1>9, <1>10

\* The end of a batch.
LEMMA CleaningKeepsHearing ==
    ASSUME TypeOK, DoomedAreGathered, MembersHear, CleanUp
    PROVE  MembersHear'
<1>1. ServerWorker /\ \A r \in rooms : ~Echo(r)
  BY DEF ServerWorker, CleanUp, Echo
<1>2. \A r \in rooms' : r \in rooms /\ room'[r] = room[r] /\ ~room[r].destroy_requested
  BY DEF CleanUp, Without, rooms
<1>3. \A r \in rooms' : recorded(r)' = recorded(r)
  <2>1. \A r \in rooms' : r \notin Elements(destroyed_rooms)
    BY <1>2 DEF DoomedAreGathered
  <2>2. history' = Without(history, Elements(destroyed_rooms))
    BY DEF CleanUp
  <2>. QED  BY <2>1, <2>2 DEF recorded, Without
<1>4. \A r \in rooms : room[r].events = << >>
  BY DEF CleanUp, MembersHear, RoomInOrder
<1>5. ASSUME NEW r \in rooms'
      PROVE  RoomInOrder(r)' /\ \A c \in Connections : EchoesInOrder(c, r)'
  BY <1>1, <1>2, <1>3, <1>4, UnechoedRoom
<1>. QED  BY <1>5 DEF MembersHear

\* A line that is recorded waits, was shown to nobody, and is in no log.
LEMMA LineIsNew ==
    ASSUME TypeOK, LinesAreFresh, NEW d \in Connections, HandleChatSend(d), NEW r \in rooms
    PROVE  LET e == RoomEvent(user[d], Head(messages_in[d]).text)
               x == create_chat_echo(r, e)
           IN  /\ e \in Events /\ x \in ServerMessages
               /\ x \notin Elements(Logged(r))
               /\ \A i \in DOMAIN Waiting(r) : Waiting(r)[i] # x
               /\ \A c \in Connections : \A i \in DOMAIN Stream(c) : Stream(c)[i] # x
<1>. DEFINE n == Head(messages_in[d]).text
            e == RoomEvent(user[d], n)
            x == create_chat_echo(r, e)
<1>1. /\ messages_in[d] # << >> /\ messages_in[d] \in Seq(Requests)
      /\ Head(messages_in[d]).type = "CHAT_SEND"
  BY DEF HandleChatSend, Pop, TypeOK, QueueTypes
<1>2. n \in 1 .. MaxRequests
  BY <1>1, RequestFields
<1>3. e \in Events /\ e.text = n
  BY <1>2 DEF RoomEvent, Events, TypeOK, TaskTypes
<1>4. Fresh(n)
  <2>1. 1 \in Lines(d) /\ messages_in[d][1].text = n
    BY <1>1 DEF Lines
  <2>2. Pending(n)
    BY <2>1 DEF Pending
  <2>. QED  BY <1>2, <2>2 DEF LinesAreFresh
<1>5. x \in ServerMessages
  BY <1>3, RoomsTyped, MessagesTyped
<1>. HIDE DEF n, e
<1>6. \A s \in Seq(EventsBut(n)) : \A i \in DOMAIN s : s[i] # e
  <2>1. e \notin EventsBut(n)
    BY <1>3 DEF EventsBut
  <2>2. \A s \in Seq(EventsBut(n)) : \A i \in DOMAIN s : s[i] \in EventsBut(n)
    OBVIOUS
  <2>. QED  BY <2>1, <2>2
<1>7. recorded(r) \in Seq(EventsBut(n)) /\ room[r].events \in Seq(EventsBut(n))
  <2>1. << >> \in Seq(EventsBut(n))
    OBVIOUS
  <2>. QED  BY <1>4, <2>1 DEF Fresh, recorded
<1>8. \A f : create_chat_echo(r, f) = x => f = e
  BY DEF create_chat_echo
<1>9. x \notin Elements(Logged(r)) /\ \A i \in DOMAIN Waiting(r) : Waiting(r)[i] # x
  <2>1. e \notin Elements(recorded(r)) /\ e \notin Elements(room[r].events)
    BY <1>6, <1>7 DEF Elements
  <2>2. x \notin Elements(Logged(r)) /\ x \notin Elements(Waiting(r))
    BY <1>8, <2>1, EchoElements DEF Logged, Waiting
  <2>. QED  BY <2>2 DEF Elements
<1>10. ASSUME NEW c \in Connections, NEW i \in DOMAIN Stream(c)
       PROVE  Stream(c)[i] # x
  <2>1. sent[c] \in Seq(Silent(n)) /\ messages_out[c] \in Seq(Silent(n))
    BY <1>4 DEF Fresh
  <2>2. Stream(c) \in Seq(Silent(n))
    BY <2>1 DEF Stream
  <2>3. \A s \in Seq(Silent(n)) : \A j \in DOMAIN s : s[j] \in Silent(n)
    OBVIOUS
  <2>4. Stream(c)[i] \in Silent(n)
    BY <2>2, <2>3
  <2>5. x \notin Silent(n)
    BY <1>3 DEF Silent, create_chat_echo
  <2>. QED  BY <2>4, <2>5
<1>. QED  BY <1>3, <1>5, <1>9, <1>10 DEF n, e

\* A line that is recorded.
LEMMA RecordingKeepsHearing ==
    ASSUME TypeOK, LinesAreFresh, MembersHear, NEW d \in Connections, HandleChatSend(d)
    PROVE  MembersHear'
<1>0. PICK q, e : /\ q = Head(messages_in[d]).room
                  /\ e = RoomEvent(user[d], Head(messages_in[d]).text)
  OBVIOUS
<1>. DEFINE x == create_chat_echo(q, e)
            log == Recorded(recorded(q), e, HistoryLimit)
<1>1. ServerWorker
  BY DEF ServerWorker, Handle
<1>2. /\ UNCHANGED messages_out /\ pc' = "gather" /\ pc = "gather"
      /\ \/ UNCHANGED <<room, history>>
         \/ /\ q \in rooms /\ history' = With(history, q, log)
            /\ room' = [room EXCEPT ![q].events = Append(@, e)]
  BY <1>0 DEF HandleChatSend, Pop, Gathering, roomVars
<1>3. \A r \in rooms : ~Echo(r)
  BY <1>2 DEF Echo
<1>4. sent' = sent /\ worker' = worker
  BY <1>1, ServerLeavesTasks
<1>5. q \in rooms =>
         /\ e \in Events /\ x \in ServerMessages
         /\ x \notin Elements(Logged(q))
         /\ \A i \in DOMAIN Waiting(q) : Waiting(q)[i] # x
         /\ \A c \in Connections : \A i \in DOMAIN Stream(c) : Stream(c)[i] # x
  BY <1>0, LineIsNew
<1>. HIDE DEF log
<1>6. ASSUME NEW r \in rooms, room'[r] = room[r], recorded(r)' = recorded(r)
      PROVE  RoomInOrder(r)' /\ \A c \in Connections : EchoesInOrder(c, r)'
  BY <1>1, <1>2, <1>3, <1>6, UnechoedRoom
<1>7. CASE UNCHANGED <<room, history>>
  <2>1. \A r \in rooms : recorded(r)' = recorded(r)
    BY <1>7 DEF recorded
  <2>. QED  BY <1>6, <1>7, <2>1 DEF MembersHear, rooms
<1>8. CASE /\ q \in rooms /\ history' = With(history, q, log)
           /\ room' = [room EXCEPT ![q].events = Append(@, e)]
  <2>1. \A y \in ServerRooms : /\ [y EXCEPT !.events = Append(@, e)].events = Append(y.events, e)
                               /\ [y EXCEPT !.events = Append(@, e)].joined = y.joined
    BY DEF ServerRooms
  <2>2. /\ rooms' = rooms
        /\ room'[q].events = Append(room[q].events, e) /\ room'[q].joined = room[q].joined
        /\ \A r \in rooms : r # q => room'[r] = room[r]
    <3>1. \A r \in rooms : room[r] \in ServerRooms
      BY RoomsTyped
    <3>. QED  BY <1>8, <2>1, <3>1 DEF rooms
  <2>3. /\ recorded(q)' = log
        /\ \A r \in rooms : r # q => recorded(r)' = recorded(r)
    BY <1>8 DEF recorded, With
  <2>4. /\ q \in ValidNames /\ recorded(q) \in Seq(Events) /\ room[q].events \in Seq(Events)
        /\ HistoryLimit \in Nat
        /\ Waiting(q) \in Seq(ServerMessages) /\ Logged(q) \in Seq(ServerMessages)
    BY <1>8, RoomsTyped, LogTyped, BoundsAssumption
  <2>5. Waiting(q)' = Append(Waiting(q), x) /\ Logged(q)' = Recorded(Logged(q), x, HistoryLimit)
    <3>1. EchoesOf(q, Append(room[q].events, e)) = Append(Waiting(q), x)
      BY <1>5, <1>8, <2>4, EchoesAppend DEF Waiting
    <3>2. EchoesOf(q, log) = Recorded(Logged(q), x, HistoryLimit)
      BY <1>5, <1>8, <2>4, EchoesRecorded DEF Logged, log
    <3>. QED  BY <2>2, <2>3, <3>1, <3>2, PrimedParts
  <2>. HIDE DEF x
  <2>6. RoomInOrder(q) /\ \A c \in Connections : EchoesInOrder(c, q)
    BY <1>8 DEF MembersHear
  <2>7. RoomInOrder(q)'
    <3>1. Len(Logged(q)) <= HistoryLimit /\ Distinct(Logged(q)) /\ Follows(Waiting(q), Logged(q))
      BY <2>6 DEF RoomInOrder
    <3>2. Distinct(Logged(q)') /\ Len(Logged(q)') <= HistoryLimit
      BY <1>5, <1>8, <2>4, <2>5, <3>1, RecordedDistinct
    <3>3. Follows(Waiting(q)', Logged(q)')
      BY <1>5, <1>8, <2>4, <2>5, <3>1, FollowsRecorded
    <3>4. \A c \in Connections : worker'[c] = "none" => room'[q].joined[c] = 0
      BY <1>4, <2>2, <2>6 DEF RoomInOrder
    <3>. QED  BY <1>2, <3>2, <3>3, <3>4 DEF RoomInOrder
  <2>8. ASSUME NEW c \in Connections, worker[c] \notin {"stuck", "done"}
        PROVE  Hears(room[q].joined[c], Stream(c), Waiting(q)', Logged(q)')
    <3>1. Hears(room[q].joined[c], Stream(c), Waiting(q), Logged(q))
      BY <2>6, <2>8 DEF EchoesInOrder
    <3>2. Stream(c) \in Seq(ServerMessages)
      <4>1. sent[c] \in Seq(ServerMessages) /\ messages_out[c] \in Seq(ServerMessages)
        BY RoomsTyped
      <4>. QED  BY <4>1 DEF Stream
    <3>3. Len(Logged(q)) <= HistoryLimit /\ Distinct(Logged(q))
      BY <2>6 DEF RoomInOrder
    <3>. QED  BY <1>5, <1>8, <2>4, <2>5, <3>1, <3>2, <3>3, HearsRecorded
  <2>9. \A c \in Connections : Stream(c)' = Stream(c)
    BY <1>2, <1>4 DEF Stream
  <2>10. \A c \in Connections : EchoesInOrder(c, q)'
    BY <1>4, <2>2, <2>8, <2>9, PrimedParts
  <2>. QED  BY <1>6, <2>2, <2>3, <2>7, <2>10 DEF MembersHear
<1>. QED  BY <1>2, <1>7, <1>8

LEMMA TimesOnce ==
    ASSUME NEW S, NEW s \in Seq(S)
    PROVE  Times(0, s) = << >> /\ Times(1, s) = s
<1>1. Len(s) \in Nat /\ 0 * Len(s) = 0 /\ 1 * Len(s) = Len(s) /\ s = [i \in 1 .. Len(s) |-> s[i]]
  OBVIOUS
<1>2. \A i \in 1 .. Len(s) : ((i - 1) % Len(s)) + 1 = i
  <2>1. \A l, i \in Nat : i > 0 /\ i <= l => ((i - 1) % l) + 1 = i
    OBVIOUS
  <2>2. \A i \in 1 .. Len(s) : i \in Nat /\ i > 0 /\ i <= Len(s)
    OBVIOUS
  <2>. QED  BY <1>1, <2>1, <2>2
<1>3. Times(0, s) = [i \in 1 .. 0 |-> s[((i - 1) % Len(s)) + 1]]
  BY <1>1 DEF Times
<1>4. Times(1, s) = [i \in 1 .. Len(s) |-> s[((i - 1) % Len(s)) + 1]]
  BY <1>1 DEF Times
<1>5. [i \in 1 .. Len(s) |-> s[((i - 1) % Len(s)) + 1]] = [i \in 1 .. Len(s) |-> s[i]]
  BY <1>2
<1>. QED  BY <1>1, <1>3, <1>4, <1>5

\* A room's events are echoed: they wait no longer, and members have heard them.
LEMMA EchoingKeepsHearing ==
    ASSUME TypeOK, JoinedOnce, MembersHear, NEW r \in rooms, Echo(r)
    PROVE  MembersHear'
<1>. DEFINE joined == [c \in Connections |-> IF Owned(c) THEN room[r].joined[c] ELSE 0]
<1>1. /\ pc = "echo" /\ pc' = "echo" /\ unsent' = unsent \ {r}
      /\ room' = [room EXCEPT ![r].joined = joined, ![r].events = << >>]
      /\ \A c \in Connections : messages_out'[c] = messages_out[c] \o Times(joined[c], Waiting(r))
      /\ history' = history /\ sent' = sent /\ worker' = worker
  BY DEF Echo, Waiting, EchoesOf, clientSide, taskVars
<1>2. \A c \in Connections : joined[c] \in {0, 1} /\ joined[c] \in {0, room[r].joined[c]}
  BY DEF JoinedOnce
<1>3. \A c \in Connections : worker[c] \notin {"stuck", "done"} => joined[c] = room[r].joined[c]
  <2>1. \A c \in Connections : worker[c] \in {"none", "queued", "hello", "serving", "stuck", "done"}
    BY DEF TypeOK, TaskTypes
  <2>2. \A c \in Connections : worker[c] = "none" => room[r].joined[c] = 0
    BY DEF MembersHear, RoomInOrder
  <2>. QED  BY <2>1, <2>2 DEF Owned
<1>. HIDE DEF joined
<1>4. /\ rooms' = rooms /\ \A q \in rooms : q # r => room'[q] = room[q]
      /\ room'[r].joined = joined /\ room'[r].events = << >>
  <2>1. \A x \in ServerRooms : /\ [x EXCEPT !.joined = joined, !.events = << >>].events = << >>
                               /\ [x EXCEPT !.joined = joined, !.events = << >>].joined = joined
    BY DEF ServerRooms
  <2>2. room[r] \in ServerRooms
    BY RoomsTyped
  <2>. QED  BY <1>1, <2>1, <2>2 DEF rooms
<1>5. \A q \in rooms : recorded(q)' = recorded(q) /\ Logged(q)' = Logged(q)
  BY <1>1, PrimedParts DEF recorded, Logged
<1>6. /\ Waiting(r) \in Seq(ServerMessages) /\ Logged(r) \in Seq(ServerMessages)
      /\ \A c \in Connections : /\ sent[c] \in Seq(ServerMessages)
                                /\ messages_out[c] \in Seq(ServerMessages)
  BY RoomsTyped
<1>7. \A c \in Connections :
         \/ joined[c] = 0 /\ messages_out'[c] = messages_out[c] \o << >>
         \/ joined[c] = 1 /\ messages_out'[c] = messages_out[c] \o Waiting(r)
  BY <1>1, <1>2, <1>6, TimesOnce
<1>8. ASSUME NEW q \in rooms, q # r
      PROVE  RoomInOrder(q)' /\ \A c \in Connections : EchoesInOrder(c, q)'
  <2>1. RoomInOrder(q) /\ \A c \in Connections : EchoesInOrder(c, q)
    BY DEF MembersHear
  <2>2. \A c \in Connections : worker'[c] = "none" => room'[q].joined[c] = 0
    BY <1>1, <1>4, <1>8, <2>1 DEF RoomInOrder
  <2>3. room[q].events # << >> => pc' = "echo" /\ q \in unsent'
    BY <1>1, <1>8, <2>1 DEF RoomInOrder
  <2>4. RoomInOrder(q)' /\ Waiting(q)' = Waiting(q) /\ Logged(q)' = Logged(q)
    BY <1>4, <1>5, <1>8, <2>1, <2>2, <2>3, RoomKept
  <2>5. Absent(Waiting(r), Waiting(q), Logged(q)) /\ Absent(<< >>, Waiting(q), Logged(q))
    <3>1. \A m \in Elements(Waiting(q)) \cup Elements(Logged(q)) : m.room = q
      BY EchoElements DEF Waiting, Logged, create_chat_echo
    <3>2. \A i \in DOMAIN Waiting(r) : Waiting(r)[i].room = r
      BY DEF Waiting, EchoesOf, create_chat_echo
    <3>. QED  BY <1>8, <3>1, <3>2 DEF Absent
  <2>6. << >> \in Seq(ServerMessages)
    OBVIOUS
  <2>7. ASSUME NEW c \in Connections, worker[c] \notin {"stuck", "done"}
        PROVE  Hears(room[q].joined[c], Stream(c)', Waiting(q), Logged(q))
    <3>1. Hears(room[q].joined[c], Stream(c), Waiting(q), Logged(q))
      BY <2>1, <2>7 DEF EchoesInOrder
    <3>. QED  BY <1>1, <1>6, <1>7, <2>5, <2>6, <3>1, HearsAppended
  <2>. QED  BY <1>1, <1>4, <1>8, <2>4, <2>7, PrimedParts
<1>9. RoomInOrder(r) /\ \A c \in Connections : EchoesInOrder(c, r)
  BY DEF MembersHear
<1>10. Waiting(r)' = << >>
  <2>1. EchoesOf(r, << >>) = << >>
    BY DEF EchoesOf
  <2>. QED  BY <1>4, <2>1, PrimedParts
<1>11. RoomInOrder(r)'
  <2>1. Follows(<< >>, Logged(r))
    <3>1. << >> \in Seq(ServerMessages) /\ DOMAIN << >> = {}
      OBVIOUS
    <3>. QED  BY <1>6, <3>1, FollowsNothing
  <2>2. Distinct(Logged(r)) /\ Len(Logged(r)) <= HistoryLimit
    BY <1>9 DEF RoomInOrder
  <2>3. \A c \in Connections : worker'[c] = "none" => room'[r].joined[c] = 0
    BY <1>1, <1>3, <1>4, <1>9 DEF RoomInOrder
  <2>. QED  BY <1>4, <1>5, <1>10, <2>1, <2>2, <2>3 DEF RoomInOrder
<1>12. ASSUME NEW c \in Connections, worker[c] \notin {"stuck", "done"}
       PROVE  Hears(joined[c], Stream(c)', << >>, Logged(r))
  <2>1. Hears(joined[c], Stream(c), Waiting(r), Logged(r))
    BY <1>3, <1>9, <1>12 DEF EchoesInOrder
  <2>2. Stream(c) \in Seq(ServerMessages)
    BY <1>6 DEF Stream
  <2>3. CASE joined[c] = 0 /\ messages_out'[c] = messages_out[c] \o << >>
    <3>1. messages_out'[c] = messages_out[c]
      BY <1>6, <2>3
    <3>2. Stream(c)' = Stream(c)
      BY <1>1, <3>1 DEF Stream
    <3>. QED  BY <1>6, <2>1, <2>2, <2>3, <3>2, HearsEchoed
  <2>4. CASE joined[c] = 1 /\ messages_out'[c] = messages_out[c] \o Waiting(r)
    <3>1. Stream(c)' = Stream(c) \o Waiting(r)
      <4>1. \A x, y, z \in Seq(ServerMessages) : x \o (y \o z) = (x \o y) \o z
        OBVIOUS
      <4>2. sent[c] \o (messages_out[c] \o Waiting(r)) = (sent[c] \o messages_out[c]) \o Waiting(r)
        BY <1>6, <4>1
      <4>. QED  BY <1>1, <2>4, <4>2, PrimedParts DEF Stream
    <3>2. Hears(joined[c], Stream(c) \o Waiting(r), << >>, Logged(r))
      BY <1>6, <2>1, <2>2, <2>4, HearsEchoed
    <3>. QED  BY <3>1, <3>2
  <2>. QED  BY <1>7, <2>3, <2>4
<1>13. ASSUME NEW c \in Connections
       PROVE  EchoesInOrder(c, r)'
  BY <1>1, <1>4, <1>5, <1>10, <1>12, PrimedParts
<1>. QED  BY <1>4, <1>8, <1>11, <1>13 DEF MembersHear

-----------------------------------------------------------------------------
\* Between iterations nothing waits.
LEMMA HearingSuffices ==
    ASSUME TypeOK, MembersHear
    PROVE  EchoesFollowHistory
<1>. SUFFICES ASSUME pc = "sleep", NEW c \in Connections, NEW r \in rooms,
                     Served(c), room[r].joined[c] > 0
              PROVE  LET echoes == Picked(Stream(c),
                                          {create_chat_echo(r, e) : e \in Elements(recorded(r))})
                     IN  [i \in DOMAIN echoes |-> echoes[i].event]
                            = LastOf(recorded(r), Len(echoes))
  BY DEF EchoesFollowHistory
<1>. DEFINE echoes == Picked(Stream(c), {create_chat_echo(r, e) : e \in Elements(recorded(r))})
            log == recorded(r)
<1>1. echoes = Picked(Stream(c), Elements(Logged(r)))
  BY EchoElements DEF Logged
<1>2. /\ log \in Seq(Events) /\ Logged(r) \in Seq(ServerMessages)
      /\ DOMAIN Logged(r) = DOMAIN log /\ Len(Logged(r)) = Len(log)
      /\ \A i \in DOMAIN log : Logged(r)[i] = create_chat_echo(r, log[i])
  <2>1. log \in Seq(Events) /\ r \in ValidNames
    BY LogTyped, RoomsTyped
  <2>. QED  BY <2>1, EchoesTyped, RoomsTyped DEF Logged, EchoesOf
<1>3. Follows(Stream(c), Logged(r))
  <2>1. room[r].joined[c] # 0 /\ worker[c] \notin {"stuck", "done"}
    <3>1. room[r].joined[c] \in Nat
      BY DEF TypeOK, RoomTypes, ServerRooms
    <3>. QED  BY <3>1 DEF Served
  <2>2. RoomInOrder(r) /\ EchoesInOrder(c, r)
    BY DEF MembersHear
  <2>3. Waiting(r) = << >>
    BY <2>2 DEF RoomInOrder, Waiting, EchoesOf
  <2>4. Stream(c) \o << >> = Stream(c)
    <3>1. sent[c] \in Seq(ServerMessages) /\ messages_out[c] \in Seq(ServerMessages)
      BY RoomsTyped
    <3>2. Stream(c) \in Seq(ServerMessages)
      BY <3>1 DEF Stream
    <3>. QED  BY <3>2
  <2>. QED  BY <2>1, <2>2, <2>3, <2>4 DEF EchoesInOrder, Hears
<1>. HIDE DEF echoes, log
<1>4. PICK k \in 0 .. Len(Logged(r)) : echoes = LastOf(Logged(r), k)
  BY <1>1, <1>3 DEF Follows
<1>5. /\ Len(echoes) = k /\ DOMAIN echoes = 1 .. k
      /\ \A i \in 1 .. k : echoes[i] = Logged(r)[i + (Len(log) - k)]
  <2>1. /\ echoes \in Seq(ServerMessages) /\ Len(echoes) = k
        /\ \A i \in 1 .. k : echoes[i] = Logged(r)[i + (Len(Logged(r)) - k)]
    BY <1>2, <1>4, LastOfPlaces
  <2>. QED  BY <1>2, <2>1
<1>6. /\ LastOf(log, k) \in Seq(Events) /\ Len(LastOf(log, k)) = k
      /\ \A i \in 1 .. k : LastOf(log, k)[i] = log[i + (Len(log) - k)]
  BY <1>2, <1>4, LastOfPlaces
<1>7. \A i \in 1 .. k : i + (Len(log) - k) \in DOMAIN log
  BY <1>2, <1>4
<1>8. \A i \in 1 .. k : echoes[i].event = LastOf(log, k)[i]
  <2>1. \A e : create_chat_echo(r, e).event = e
    BY DEF create_chat_echo
  <2>2. \A i \in 1 .. k : echoes[i] = create_chat_echo(r, log[i + (Len(log) - k)])
    BY <1>2, <1>5, <1>7
  <2>. QED  BY <1>6, <2>1, <2>2
<1>9. \A s \in Seq(Events) : s = [i \in 1 .. Len(s) |-> s[i]]
  OBVIOUS
<1>10. [i \in DOMAIN echoes |-> echoes[i].event] = LastOf(log, k)
  BY <1>5, <1>6, <1>8, <1>9
<1>. QED  BY <1>5, <1>10 DEF echoes, log

\* Whatever the order in which clients join, write and leave and batches are gathered
\* and echoed, what a member was shown of the history of its room is the end of it.
THEOREM MembersHearHistory == Spec => []EchoesFollowHistory
<1>. DEFINE IInv == Handshaken /\ LinesAreFresh /\ MembersHear
<1>1. Init => MembersHear
  <2>. SUFFICES ASSUME Init, NEW r \in rooms
                PROVE  RoomInOrder(r) /\ \A c \in Connections : EchoesInOrder(c, r)
    BY DEF MembersHear
  <2>1. room[r] = NewRoom /\ recorded(r) = << >>
    BY DEF Init, rooms, recorded
  <2>2. Waiting(r) = << >> /\ Logged(r) = << >>
    BY <2>1 DEF Waiting, Logged, EchoesOf, NewRoom
  <2>3. << >> \in Seq(ServerMessages) /\ Len(<< >>) <= HistoryLimit /\ << >> \o << >> = << >>
    BY BoundsAssumption
  <2>4. \A c \in Connections : Stream(c) = << >>
    BY <2>3 DEF Init, Stream
  <2>5. \A n : Follows(<< >>, << >>) /\ Distinct(<< >>) /\ Hears(n, << >>, << >>, << >>)
    BY <2>3, NothingHeard
  <2>6. NewRoom.events = << >> /\ \A c \in Connections : NewRoom.joined[c] = 0
    BY DEF NewRoom
  <2>7. RoomInOrder(r)
    BY <2>1, <2>2, <2>3, <2>5, <2>6 DEF RoomInOrder
  <2>. QED  BY <2>2, <2>4, <2>5, <2>7 DEF EchoesInOrder
<1>2. Init => IInv
  BY <1>1, HandshakenInit, LinesFreshInit
<1>3. TypeOK /\ DoomedAreGathered /\ HistoryOnlyForRooms /\ JoinedOnce /\ IInv /\ [Next]_vars
         => IInv'
  <2>. SUFFICES ASSUME TypeOK, DoomedAreGathered, HistoryOnlyForRooms, JoinedOnce,
                       Handshaken, LinesAreFresh, MembersHear, [Next]_vars
                PROVE  MembersHear'
    BY HandshakenStep, LinesStayFresh
  <2>1. CASE MainThread \/ \E d \in Connections : PeerLeaves(d) \/ ClientTask(d)
    BY <2>1, OthersKeepHearing
  <2>2. CASE ServerWorker
    BY <2>2, BatchKeepsHearing, MarkingKeepsHearing, CreatingKeepsHearing, RecordingKeepsHearing,
       EchoingKeepsHearing, CleaningKeepsHearing DEF ServerWorker, Handle
  <2>3. CASE UNCHANGED vars
    <3>1. UNCHANGED <<pc, unsent, room, rooms, history, sent, messages_out, worker>>
      BY <2>3 DEF vars, taskVars, batchVars, roomVars, rooms
    <3>2. ASSUME NEW r \in rooms, NEW c \in Connections
          PROVE  EchoesInOrder(c, r)'
      <4>1. EchoesInOrder(c, r)
        BY DEF MembersHear
      <4>. QED  BY <3>1, <4>1 DEF EchoesInOrder, Stream, Waiting, Logged, recorded
    <3>3. ASSUME NEW r \in rooms
          PROVE  RoomInOrder(r)'
      <4>1. RoomInOrder(r)
        BY DEF MembersHear
      <4>. QED  BY <3>1, <4>1 DEF RoomInOrder, Waiting, Logged, recorded
    <3>. QED  BY <3>1, <3>2, <3>3 DEF MembersHear
  <2>. QED  BY <2>1, <2>2, <2>3 DEF Next
<1>4. TypeOK /\ IInv => EchoesFollowHistory
  BY HearingSuffices
<1>. HIDE DEF IInv
<1>. QED  BY <1>2, <1>3, <1>4, TypeCorrect, DoomedRooms, HistoriesOfRooms, MembersOnce, PTL
          DEF Spec
=============================================================================
