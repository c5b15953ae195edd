----------------------------- MODULE ChatWindow -----------------------------
(***************************************************************************)
(* The client's chat window: the handlers of chatwindow-worker.cpp and the *)
(* parts of ChatWindowScreen they call.  The window keeps a replica of the *)
(* server's rooms (client_rooms), the list it displays, a selection, and a *)
(* transcript per room; it answers messages from the server and the user's *)
(* actions by putting messages into the queue to the server.               *)
(*                                                                         *)
(* All of it runs on the main thread.  A handler changes several parts of  *)
(* the state one after the other, so the state is one record, `window`,    *)
(* and the functions the handlers call are operators on such records.      *)
(***************************************************************************)
EXTENDS Messages, Histories, Selections, FiniteSets

CONSTANTS NoRoom,           \* the empty name: nothing is selected
          WindowNames,      \* names for which is_valid_room_name is true
          TranscriptLimit,  \* events CHAT_ROOM_HISTORY_SIZE slots can hold
          HistoryCount,     \* ROOM_HISTORY_MAX_ENTRIES, the default count
          LeftOver          \* client_rooms as an earlier connection left it

ASSUME WindowAssumption == /\ NoRoom \notin WindowNames
                           /\ IsFiniteSet(WindowNames)
                           /\ TranscriptLimit \in Nat
                           /\ HistoryCount \in Nat
                           /\ LeftOver \subseteq WindowNames

VARIABLES
  window,      \* client_rooms and the ChatWindowScreen
  out_queue    \* messages_out of the client's connection

windowVars == <<window, out_queue>>

\* All orders of a set of names.
Orders(S) == {s \in [1 .. Cardinality(S) -> S] : \A i, j \in DOMAIN s : s[i] = s[j] => i = j}

\* Mutant: a new room counts as joined.
ClientRoom_Joined(r) == [name |-> r, is_joined |-> TRUE]

ClientRoom(r) == [name |-> r, is_joined |-> FALSE]

\* client_rooms is a global (chatwindow-worker.cpp:18), everything else belongs to the new
\* window.  A room that an earlier connection left over is joined or not, as it was then.
WindowInit ==
    /\ \E order \in Orders(LeftOver), joined \in [LeftOver -> BOOLEAN] :
          window = [client_rooms |-> [i \in DOMAIN order |->
                                        [name |-> order[i], is_joined |-> joined[order[i]]]],
                    room_names |-> << >>,
                    current_room_index |-> 0,
                    current_room_name |-> NoRoom,
                    chat_room_history |-> [r \in {} |-> << >>]]
    /\ out_queue = <<room_list_request>>

-----------------------------------------------------------------------------
(***************************************************************************)
(* ChatWindowScreen.  Rooms are numbered from zero in the code.            *)
(***************************************************************************)

\* client_rooms.room_names()
names(w) == [i \in DOMAIN w.client_rooms |-> w.client_rooms[i].name]

HasRoom(w, r) == r \in Elements(names(w))

\* The first displayed room of that name is selected; if there is none, nothing changes.
select_room_by_name(w, r) ==
    IF r \notin Elements(w.room_names) THEN w
    ELSE [w EXCEPT !.current_room_index =
                       (CHOOSE i \in DOMAIN w.room_names :
                           w.room_names[i] = r /\ \A j \in 1 .. i - 1 : w.room_names[j] # r) - 1,
                   !.current_room_name = r]

\* The display is made anew, the first room selected, and transcripts of rooms that are
\* not listed are dropped.
update_rooms(w) ==
    [w EXCEPT !.room_names = names(w),
              !.current_room_index = 0,
              !.current_room_name = IF w.client_rooms = << >> THEN NoRoom
                                                              ELSE w.client_rooms[1].name,
              !.chat_room_history = [r \in DOMAIN @ \cap Elements(names(w)) |-> @[r]]]

\* Mutant: the transcript is not emptied first.
rewrite_chat_history_Appends(w, r, events) ==
    [w EXCEPT !.chat_room_history =
        [q \in DOMAIN @ \cup {r} |->
            IF q = r THEN LastOf((IF r \in DOMAIN @ THEN @[r] ELSE << >>) \o events,
                                 TranscriptLimit)
                     ELSE @[q]]]

rewrite_chat_history(w, r, events) ==
    [w EXCEPT !.chat_room_history =
        [q \in DOMAIN @ \cup {r} |->
            IF q = r THEN LastOf(events, TranscriptLimit) ELSE @[q]]]

\* A transcript is started for any name, listed or not.
insert_chat_history_event(w, r, e) ==
    [w EXCEPT !.chat_room_history =
        [q \in DOMAIN @ \cup {r} |->
            IF q = r THEN Recorded(IF r \in DOMAIN @ THEN @[r] ELSE << >>, e, TranscriptLimit)
                     ELSE @[q]]]

-----------------------------------------------------------------------------
(***************************************************************************)
(* chatwindow-worker.cpp.                                                  *)
(***************************************************************************)

\* client_rooms[r], where there is one and it is not joined, is asked for and marked.
Unjoined(w) == {i \in DOMAIN w.client_rooms :
                   /\ w.client_rooms[i].name = w.current_room_name
                   /\ ~w.client_rooms[i].is_joined}

\* The last call of every handler that may change the selection; the handler's new
\* window is w, and its current room is joined.
issue_room_join_if_needed(w) ==
    /\ window' = [w EXCEPT !.client_rooms =
                      [i \in DOMAIN @ |-> IF i \in Unjoined(w) THEN [@[i] EXCEPT !.is_joined = TRUE]
                                                               ELSE @[i]]]
    /\ out_queue' = IF Unjoined(w) = {} THEN out_queue
                    ELSE out_queue \o <<create_room_join(w.current_room_name),
                                        create_room_history(w.current_room_name, HistoryCount)>>

WindowStays == UNCHANGED windowVars

\* client_rooms.clear(), then create_room for every name of the list.
OnRoomList(m) ==
    \E order \in Orders(m.rooms \cap WindowNames) :
        LET listed == update_rooms([window EXCEPT !.client_rooms =
                                       [i \in DOMAIN order |-> ClientRoom(order[i])]])
        IN  issue_room_join_if_needed(select_room_by_name(listed, window.current_room_name))

\* Mutant: the room of an existing name is made again.
OnRoomCreate_NotUnique(m) ==
    LET created == update_rooms([window EXCEPT !.client_rooms = Append(@, ClientRoom(m.room))])
    IN  issue_room_join_if_needed(select_room_by_name(created, window.current_room_name))

OnRoomCreate(m) ==
    IF m.room \notin WindowNames \/ HasRoom(window, m.room) THEN WindowStays
    ELSE LET created == update_rooms([window EXCEPT !.client_rooms = Append(@, ClientRoom(m.room))])
         IN  issue_room_join_if_needed(select_room_by_name(created, window.current_room_name))

\* The rooms that stay when the one of this name is removed.
OtherThan(r) == {q \in Elements(window.client_rooms) : q.name # r}

\* Mutant: the first room is shown without being joined.
OnRoomDestroy_NoJoin(m) ==
    IF ~HasRoom(window, m.room) THEN WindowStays
    ELSE /\ LET removed == update_rooms([window EXCEPT !.client_rooms = Picked(@, OtherThan(m.room))])
            IN  window' = select_room_by_name(removed, window.current_room_name)
         /\ UNCHANGED out_queue

\* Only the destruction of the selected room selects, and joins, another one.
OnRoomDestroy(m) ==
    IF ~HasRoom(window, m.room) THEN WindowStays
    ELSE LET removed == update_rooms([window EXCEPT !.client_rooms = Picked(@, OtherThan(m.room))])
         IN  IF window.current_room_name = m.room
             THEN issue_room_join_if_needed(removed)
             ELSE /\ window' = select_room_by_name(removed, window.current_room_name)
                  /\ UNCHANGED out_queue

OnRoomHistory(m) ==
    /\ window' = IF HasRoom(window, m.room) THEN rewrite_chat_history(window, m.room, m.events)
                                            ELSE window
    /\ UNCHANGED out_queue

OnChatEcho(m) ==
    /\ window' = insert_chat_history_event(window, m.room, m.event)
    /\ UNCHANGED out_queue

\* MSG_UPDATE for one message.  ACK and NAK do not reach the window.
Process(m) ==
    CASE m.type = "ROOM_LIST"    -> OnRoomList(m)
      [] m.type = "ROOM_CREATE"  -> OnRoomCreate(m)
      [] m.type = "ROOM_DESTROY" -> OnRoomDestroy(m)
      [] m.type = "ROOM_HISTORY" -> OnRoomHistory(m)
      [] m.type = "CHAT_ECHO"    -> OnChatEcho(m)
      [] OTHER                   -> WindowStays

\* The user selects entry i of the list: MSG_ROOM_CHANGED.
ChangeRoom(i) ==
    /\ i \in DOMAIN window.room_names /\ i # window.current_room_index + 1
    /\ issue_room_join_if_needed([window EXCEPT !.current_room_index = i - 1,
                                                !.current_room_name = window.room_names[i]])

\* MSG_CHAT_SUBMIT with a line of text.  Without a selected room nothing is sent.
SubmitText(text) ==
    /\ window.current_room_name # NoRoom
    /\ out_queue' = Append(out_queue, create_chat_send(window.current_room_name, text))
    /\ UNCHANGED window

\* "/create_room r" and "/destroy_room r"; anything else is refused.
SubmitCommand(command, r) ==
    /\ \/ /\ command = "/create_room" /\ r \in WindowNames
          /\ out_queue' = Append(out_queue, create_room_create(r))
       \/ /\ command = "/destroy_room" /\ HasRoom(window, r)
          /\ out_queue' = Append(out_queue, create_room_destroy(r))
    /\ UNCHANGED window

-----------------------------------------------------------------------------
(***************************************************************************)
(* Properties of the window alone.                                         *)
(***************************************************************************)

\* The displayed list is client_rooms, once a list was made for this window, names every
\* room once, and the selection is the entry it points at: the index is into the list that
\* is shown, not into an earlier one, after any sequence of lists, creations and
\* destructions.
SelectionMatchesList ==
    /\ window.room_names # << >> => window.room_names = names(window)
    /\ Cardinality(Elements(window.room_names)) = Len(window.room_names)
    /\ IF window.room_names = << >>
       THEN window.current_room_name = NoRoom
       ELSE /\ window.current_room_index + 1 \in DOMAIN window.room_names
            /\ window.room_names[window.current_room_index + 1] = window.current_room_name

\* "Any time the room list is altered, we may need to rejoin a requested room"
\* (chatwindow-worker.cpp:21): the selected room has been joined, however it came to be
\* selected.  It does not hold: when the first thing a new window is told is that a room left
\* over from an earlier connection is destroyed, the first of the others is shown, and joined
\* only if the destroyed room was the selected one.
CurrentIsJoined ==
    window.current_room_name # NoRoom =>
        \E i \in DOMAIN window.client_rooms :
            /\ window.client_rooms[i].name = window.current_room_name
            /\ window.client_rooms[i].is_joined
=============================================================================
