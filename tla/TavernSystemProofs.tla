------------------------- MODULE TavernSystemProofs -------------------------
(***************************************************************************)
(* The display and the selection of the chat window agree with its rooms,  *)
(* and, when nothing is in flight, with those of the server: for any       *)
(* number of other clients, room names, requests, acts of the user and     *)
(* history entries, any room names configured and any that an earlier      *)
(* connection has left over.                                               *)
(*                                                                         *)
(* WindowIsConsistent is about the window alone.  A handler prepares a     *)
(* window and its last call joins the selected room: Settles says what     *)
(* becomes of the prepared window, and ProcessSettles what a message makes *)
(* of the rooms, whatever the order in which a list names them.            *)
(*                                                                         *)
(* What the window will show is told by what it shows and by the messages  *)
(* it has not processed: Expected is the last word on a room.  Told says   *)
(* of every step, not only when nothing is in flight, that this is what    *)
(* the server has, but for the rooms a batch has not announced yet; and    *)
(* that a room the window counts as joined has it as a member, is about to *)
(* be asked for it, or is about to be taken off the window.                *)
(*                                                                         *)
(* The second half is about the transcripts.  A transcript is rewritten by *)
(* a reply and grows with every echo: ComesTo says what it comes to when   *)
(* the rest of the stream is read, and Transcribed of every step that this *)
(* followed by the lines that wait for their echo retells the history,     *)
(* unless a reply is still to come (JoinsFollowed: whoever is joined has   *)
(* asked for the history after it asked to join).                          *)
(***************************************************************************)
EXTENDS TavernSystem, ChatServerProofs, FiniteSetTheorems

-----------------------------------------------------------------------------
(***************************************************************************)
(* Sequences and their elements.                                           *)
(***************************************************************************)
LEMMA HeadAndTail ==
    ASSUME NEW S, NEW s \in Seq(S), s # << >>
    PROVE  Elements(s) \subseteq Elements(Tail(s)) \cup {Head(s)}
<1>. SUFFICES ASSUME NEW i \in DOMAIN s PROVE s[i] \in Elements(Tail(s)) \cup {Head(s)}
  BY DEF Elements
<1>1. CASE i = 1
  BY <1>1
<1>2. CASE i # 1
  <2>1. i - 1 \in DOMAIN Tail(s) /\ Tail(s)[i - 1] = s[i]
    BY <1>2
  <2>. QED  BY <2>1 DEF Elements
<1>. QED  BY <1>1, <1>2

LEMMA ConcatElements ==
    ASSUME NEW S, NEW s \in Seq(S), NEW u \in Seq(S)
    PROVE  Elements(s) \cup Elements(u) \subseteq Elements(s \o u)
<1>1. /\ \A i \in DOMAIN s : i \in DOMAIN (s \o u) /\ (s \o u)[i] = s[i]
      /\ \A i \in DOMAIN u : Len(s) + i \in DOMAIN (s \o u) /\ (s \o u)[Len(s) + i] = u[i]
  OBVIOUS
<1>. QED  BY <1>1 DEF Elements

LEMMA AppendElements ==
    ASSUME NEW S, NEW s \in Seq(S), NEW x \in S
    PROVE  Elements(Append(s, x)) = Elements(s) \cup {x}
<1>1. /\ Len(s) + 1 \in DOMAIN Append(s, x) /\ Append(s, x)[Len(s) + 1] = x
      /\ \A i \in DOMAIN s : i \in DOMAIN Append(s, x) /\ Append(s, x)[i] = s[i]
      /\ \A i \in DOMAIN Append(s, x) : i \in DOMAIN s \/ i = Len(s) + 1
  OBVIOUS
<1>. QED  BY <1>1 DEF Elements

LEMMA ConcatAssociates ==
    ASSUME NEW a \in Seq(ServerMessages), NEW b \in Seq(ServerMessages),
           NEW d \in Seq(ServerMessages)
    PROVE  a \o (b \o d) = (a \o b) \o d
OBVIOUS

-----------------------------------------------------------------------------
(***************************************************************************)
(* The window.                                                             *)
(***************************************************************************)
ClientRooms == [name : WindowNames, is_joined : BOOLEAN]

\* The fields of a window.  What its transcripts are does not matter to the selection.
Windows(h) == [client_rooms       : Seq(ClientRooms),
               room_names         : Seq(WindowNames),
               current_room_index : Nat,
               current_room_name  : WindowNames \cup {NoRoom},
               chat_room_history  : {h}]

IsWindow(w) == \E h : w \in Windows(h)

Joined(w, r) == \E i \in DOMAIN w.client_rooms :
                   w.client_rooms[i].name = r /\ w.client_rooms[i].is_joined

\* Before the first list of a window its rooms are those of an earlier connection, and
\* nothing is displayed or selected.
NothingShown(w) == w.room_names = << >> /\ w.current_room_name = NoRoom

\* From then on the display is that of the rooms, and the room selected is one of them.
Shown(w) == /\ w.room_names = names(w)
            /\ w.current_room_index + 1 \in DOMAIN w.room_names
            /\ w.room_names[w.current_room_index + 1] = w.current_room_name

Consistent(w) == IsWindow(w) /\ Distinct(names(w)) /\ (NothingShown(w) \/ Shown(w))

ShowsJoined(w) == w.current_room_name # NoRoom => Joined(w, w.current_room_name)

WindowIsConsistent == Consistent(window)

\* A window that was given a list displays its rooms, and has joined the one selected.  One
\* that was not may select, unjoined, a room that an earlier connection has left over.
UpToDate(w) == w.room_names = names(w) /\ ShowsJoined(w)

\* An order of a finite set has each of its elements once.
LEMMA OrdersList ==
    ASSUME NEW S, IsFiniteSet(S), NEW s \in Orders(S)
    PROVE  s \in Seq(S) /\ Elements(s) = S /\ Distinct(s)
<1>1. Cardinality(S) \in Nat
  BY FS_CardinalityType
<1>2. s \in [1 .. Cardinality(S) -> S] /\ \A i, j \in DOMAIN s : s[i] = s[j] => i = j
  BY DEF Orders
<1>3. s \in Injection(1 .. Cardinality(S), S)
  BY <1>2 DEF Injection, IsInjective
<1>4. Cardinality(1 .. Cardinality(S)) = Cardinality(S)
  BY <1>1, FS_Interval
<1>5. s \in Surjection(1 .. Cardinality(S), S)
  BY <1>3, <1>4, FS_Injection
<1>6. \A x \in S : \E i \in 1 .. Cardinality(S) : s[i] = x
  BY <1>5 DEF Surjection
<1>. QED  BY <1>1, <1>2, <1>6 DEF Elements, Distinct

\* A sequence without repetition has as many elements as positions.
LEMMA DistinctCounts ==
    ASSUME NEW S, NEW s \in Seq(S), Distinct(s)
    PROVE  Cardinality(Elements(s)) = Len(s)
<1>1. Len(s) \in Nat /\ DOMAIN s = 1 .. Len(s) /\ s \in [1 .. Len(s) -> Elements(s)]
  BY DEF Elements
<1>2. s \in Bijection(1 .. Len(s), Elements(s))
  <2>1. s \in Injection(1 .. Len(s), Elements(s))
    BY <1>1 DEF Distinct, Injection, IsInjective
  <2>2. s \in Surjection(1 .. Len(s), Elements(s))
    BY <1>1 DEF Elements, Surjection
  <2>. QED  BY <2>1, <2>2 DEF Bijection
<1>3. IsFiniteSet(1 .. Len(s)) /\ Cardinality(1 .. Len(s)) = Len(s)
  BY <1>1, FS_Interval
<1>. QED  BY <1>2, <1>3, FS_Bijection DEF ExistsBijection

\* The names of a window's rooms.
LEMMA NamesOfWindow ==
    ASSUME NEW w, IsWindow(w)
    PROVE  /\ names(w) \in Seq(WindowNames)
           /\ DOMAIN names(w) = DOMAIN w.client_rooms
           /\ Len(names(w)) = Len(w.client_rooms)
           /\ \A i \in DOMAIN w.client_rooms : names(w)[i] = w.client_rooms[i].name
           /\ (names(w) = << >>) <=> (w.client_rooms = << >>)
<1>1. w.client_rooms \in Seq(ClientRooms)
  BY DEF IsWindow, Windows
<1>2. \A i \in DOMAIN w.client_rooms : w.client_rooms[i].name \in WindowNames
  <2>1. \A i \in DOMAIN w.client_rooms : w.client_rooms[i] \in ClientRooms
    BY <1>1
  <2>. QED  BY <2>1 DEF ClientRooms
<1>. QED  BY <1>1, <1>2 DEF names

\* update_rooms displays the rooms and selects the first.
LEMMA UpdateShows ==
    ASSUME NEW w, IsWindow(w)
    PROVE  LET u == update_rooms(w)
           IN  /\ IsWindow(u)
               /\ u.client_rooms = w.client_rooms /\ u.room_names = names(w)
               /\ names(u) = names(w)
               /\ u.current_room_name # NoRoom => Shown(u)
               /\ u.current_room_name = NoRoom => u.client_rooms = << >> /\ NothingShown(u)
<1>. DEFINE u == update_rooms(w)
<1>1. PICK h : w \in Windows(h)
  BY DEF IsWindow
<1>2. /\ w.client_rooms \in Seq(ClientRooms) /\ names(w) \in Seq(WindowNames)
      /\ Len(names(w)) = Len(w.client_rooms)
      /\ \A i \in DOMAIN w.client_rooms : names(w)[i] = w.client_rooms[i].name
  BY <1>1, NamesOfWindow DEF Windows
<1>3. PICK g : g = [r \in DOMAIN w.chat_room_history \cap Elements(names(w)) |-> w.chat_room_history[r]]
  OBVIOUS
<1>4. PICK first : first = IF w.client_rooms = << >> THEN NoRoom ELSE w.client_rooms[1].name
  OBVIOUS
<1>5. PICK s : s = names(w)
  OBVIOUS
<1>6. u = [w EXCEPT !.room_names = s, !.current_room_index = 0, !.current_room_name = first,
                    !.chat_room_history = g]
  BY <1>3, <1>4, <1>5 DEF update_rooms
<1>7. first \in WindowNames \cup {NoRoom}
  <2>1. w.client_rooms # << >> => w.client_rooms[1] \in ClientRooms
    BY <1>2
  <2>. QED  BY <1>4, <2>1 DEF ClientRooms
<1>8. /\ u \in Windows(g)
      /\ u.client_rooms = w.client_rooms /\ u.room_names = s
      /\ u.current_room_index = 0 /\ u.current_room_name = first
  <2>1. s \in Seq(WindowNames) /\ 0 \in Nat
    BY <1>2, <1>5
  <2>. HIDE DEF u
  <2>. QED  BY <1>1, <1>6, <1>7, <2>1 DEF Windows
<1>. HIDE DEF u
<1>9. names(u) = names(w)
  BY <1>8 DEF names
<1>10. (first = NoRoom) <=> (w.client_rooms = << >>)
  <2>1. w.client_rooms # << >> => w.client_rooms[1] \in ClientRooms
    BY <1>2
  <2>. QED  BY <1>4, <2>1, WindowAssumption DEF ClientRooms
<1>11. CASE w.client_rooms = << >>
  <2>1. s = << >>
    BY <1>2, <1>5, <1>11
  <2>. QED  BY <1>5, <1>8, <1>9, <1>10, <1>11, <2>1 DEF IsWindow, NothingShown, u
<1>12. CASE w.client_rooms # << >>
  <2>1. 1 \in DOMAIN w.client_rooms /\ 1 \in DOMAIN s /\ s[1] = first
    BY <1>2, <1>4, <1>5, <1>12
  <2>2. Shown(u)
    BY <1>5, <1>8, <1>9, <2>1 DEF Shown
  <2>. QED  BY <1>5, <1>8, <1>9, <1>10, <1>12, <2>2 DEF IsWindow, u
<1>. QED  BY <1>11, <1>12

\* select_room_by_name selects the room, if it is displayed.
LEMMA SelectShows ==
    ASSUME NEW w, IsWindow(w), NEW r
    PROVE  LET u == select_room_by_name(w, r)
           IN  /\ IsWindow(u)
               /\ u.client_rooms = w.client_rooms /\ u.room_names = w.room_names
               /\ names(u) = names(w)
               /\ r \notin Elements(w.room_names) => u = w
               /\ r \in Elements(w.room_names) /\ w.room_names = names(w)
                     => u.current_room_name = r /\ Shown(u)
<1>. DEFINE u == select_room_by_name(w, r)
            Places == {i \in DOMAIN w.room_names : w.room_names[i] = r}
<1>1. PICK h : w \in Windows(h)
  BY DEF IsWindow
<1>2. w.room_names \in Seq(WindowNames)
  BY <1>1 DEF Windows
<1>3. CASE r \notin Elements(w.room_names)
  BY <1>3 DEF select_room_by_name
<1>4. CASE r \in Elements(w.room_names)
  <2>. DEFINE first == CHOOSE i \in DOMAIN w.room_names :
                           w.room_names[i] = r /\ \A j \in 1 .. i - 1 : w.room_names[j] # r
  <2>1. first \in DOMAIN w.room_names /\ w.room_names[first] = r
    <3>1. Places \in SUBSET Nat /\ Places # {}
      BY <1>2, <1>4 DEF Elements
    <3>2. PICK m \in Places : \A k \in Places : m <= k
      BY <3>1, Least
    <3>3. ASSUME NEW j \in 1 .. m - 1
          PROVE  w.room_names[j] # r
      <4>1. j \in DOMAIN w.room_names /\ ~(m <= j)
        BY <1>2, <3>2
      <4>. QED  BY <3>2, <4>1
    <3>. QED  BY <3>2, <3>3
  <2>. HIDE DEF first
  <2>2. first - 1 \in Nat /\ (first - 1) + 1 = first /\ r \in WindowNames
    BY <1>2, <2>1
  <2>3. u = [w EXCEPT !.current_room_index = first - 1, !.current_room_name = r]
    BY <1>4 DEF select_room_by_name, first
  <2>4. /\ u \in Windows(h)
        /\ u.client_rooms = w.client_rooms /\ u.room_names = w.room_names
        /\ u.current_room_index = first - 1 /\ u.current_room_name = r
    BY <1>1, <2>2, <2>3 DEF Windows
  <2>. HIDE DEF u
  <2>5. names(u) = names(w)
    BY <2>4 DEF names
  <2>6. w.room_names = names(w) => Shown(u)
    BY <2>1, <2>2, <2>4, <2>5 DEF Shown
  <2>. QED  BY <1>4, <2>4, <2>5, <2>6 DEF IsWindow, u
<1>. QED  BY <1>1, <1>3, <1>4 DEF IsWindow

\* issue_room_join_if_needed leaves all but the flag of the selected room, and asks for
\* the room if the flag was not set.
LEMMA JoinKeeps ==
    ASSUME NEW w, IsWindow(w), issue_room_join_if_needed(w)
    PROVE  /\ IsWindow(window') /\ names(window') = names(w)
           /\ window'.room_names = w.room_names
           /\ window'.current_room_index = w.current_room_index
           /\ window'.current_room_name = w.current_room_name
           /\ \A i \in DOMAIN w.client_rooms :
                 window'.client_rooms[i].is_joined
                    = (w.client_rooms[i].is_joined \/ w.client_rooms[i].name = w.current_room_name)
<1>1. PICK h : w \in Windows(h)
  BY DEF IsWindow
<1>2. w.client_rooms \in Seq(ClientRooms)
  BY <1>1 DEF Windows
<1>. DEFINE after == [i \in DOMAIN w.client_rooms |->
                        IF i \in Unjoined(w) THEN [w.client_rooms[i] EXCEPT !.is_joined = TRUE]
                                             ELSE w.client_rooms[i]]
<1>3. window' = [w EXCEPT !.client_rooms = after]
  BY DEF issue_room_join_if_needed
<1>4. \A x \in ClientRooms : /\ [x EXCEPT !.is_joined = TRUE] \in ClientRooms
                             /\ [x EXCEPT !.is_joined = TRUE].name = x.name
                             /\ [x EXCEPT !.is_joined = TRUE].is_joined = TRUE
                             /\ x.is_joined \in BOOLEAN
  BY DEF ClientRooms
<1>5. \A i \in DOMAIN w.client_rooms : w.client_rooms[i] \in ClientRooms
  BY <1>2
<1>6. /\ after \in Seq(ClientRooms) /\ DOMAIN after = DOMAIN w.client_rooms
      /\ \A i \in DOMAIN after : after[i].name = w.client_rooms[i].name
  BY <1>2, <1>4, <1>5
<1>7. ASSUME NEW i \in DOMAIN w.client_rooms
      PROVE  after[i].is_joined
                = (w.client_rooms[i].is_joined \/ w.client_rooms[i].name = w.current_room_name)
  <2>1. w.client_rooms[i].is_joined \in BOOLEAN
    BY <1>4, <1>5
  <2>2. CASE i \in Unjoined(w)
    <3>1. after[i].is_joined = TRUE
      BY <1>4, <1>5, <2>2
    <3>. QED  BY <2>2, <3>1 DEF Unjoined
  <2>3. CASE i \notin Unjoined(w)
    <3>1. after[i] = w.client_rooms[i]
      BY <2>3
    <3>. QED  BY <2>1, <2>3, <3>1 DEF Unjoined
  <2>. QED  BY <2>2, <2>3
<1>. HIDE DEF after
<1>8. /\ window' \in Windows(h) /\ window'.client_rooms = after
      /\ window'.room_names = w.room_names
      /\ window'.current_room_index = w.current_room_index
      /\ window'.current_room_name = w.current_room_name
  BY <1>1, <1>3, <1>6 DEF Windows
<1>9. names(window') = names(w)
  BY <1>6, <1>8 DEF names
<1>. QED  BY <1>7, <1>8, <1>9 DEF IsWindow

\* The rooms a window counts as joined.
JoinsOf(w) == {r \in WindowNames : Joined(w, r)}

\* What is put into the queue when a room is joined.
Asks(r) == <<create_room_join(r), create_room_history(r, HistoryCount)>>

\* What a handler's last call makes of the window w it has prepared: at most one room is
\* joined that was not, and it is asked for.
Settles(w) ==
    /\ WindowIsConsistent'
    /\ names(window') = names(w) /\ window'.room_names = w.room_names
    /\ UpToDate(window) => ShowsJoined(window')
    /\ \/ out_queue' = out_queue /\ JoinsOf(window') \subseteq JoinsOf(w)
       \/ \E r \in WindowNames : /\ out_queue' = out_queue \o Asks(r)
                                 /\ JoinsOf(window') \subseteq JoinsOf(w) \cup {r}

\* The last call of a handler, for a window that is consistent but for the flag it sets.
LEMMA JoinSettles ==
    ASSUME NEW w, Consistent(w), issue_room_join_if_needed(w)
    PROVE  Settles(w) /\ ShowsJoined(window')
<1>1. PICK h : w \in Windows(h)
  BY DEF Consistent, IsWindow
<1>2. /\ IsWindow(w) /\ w.client_rooms \in Seq(ClientRooms)
      /\ \A i \in DOMAIN w.client_rooms : w.client_rooms[i] \in ClientRooms
  BY <1>1 DEF IsWindow, Windows
<1>3. /\ IsWindow(window') /\ names(window') = names(w)
      /\ window'.room_names = w.room_names
      /\ window'.current_room_index = w.current_room_index
      /\ window'.current_room_name = w.current_room_name
      /\ \A i \in DOMAIN w.client_rooms :
            window'.client_rooms[i].is_joined
               = (w.client_rooms[i].is_joined \/ w.client_rooms[i].name = w.current_room_name)
  BY <1>2, JoinKeeps
<1>4. /\ DOMAIN window'.client_rooms = DOMAIN w.client_rooms
      /\ \A i \in DOMAIN w.client_rooms : window'.client_rooms[i].name = w.client_rooms[i].name
  <2>1. /\ DOMAIN names(window') = DOMAIN window'.client_rooms
        /\ \A i \in DOMAIN window'.client_rooms : names(window')[i] = window'.client_rooms[i].name
    BY <1>3, NamesOfWindow
  <2>2. /\ DOMAIN names(w) = DOMAIN w.client_rooms
        /\ \A i \in DOMAIN w.client_rooms : names(w)[i] = w.client_rooms[i].name
    BY <1>2, NamesOfWindow
  <2>. QED  BY <1>3, <2>1, <2>2
<1>5. NothingShown(w) => NothingShown(window')
  BY <1>3, <1>4 DEF NothingShown
<1>6. Shown(w) => Shown(window') /\ Joined(window', window'.current_room_name)
  <2>1. ASSUME Shown(w)
        PROVE  Shown(window')
    BY <1>3, <2>1 DEF Shown
  <2>2. ASSUME Shown(w)
        PROVE  Joined(window', window'.current_room_name)
    <3>1. PICK i \in DOMAIN w.client_rooms : w.client_rooms[i].name = w.current_room_name
      BY <1>2, <2>2, NamesOfWindow DEF Shown
    <3>2. window'.client_rooms[i].is_joined = TRUE
      BY <1>3, <3>1
    <3>. QED  BY <1>3, <1>4, <3>1, <3>2 DEF Joined
  <2>. QED  BY <2>1, <2>2
<1>7. WindowIsConsistent' /\ ShowsJoined(window')
  BY <1>3, <1>5, <1>6 DEF WindowIsConsistent, Consistent, ShowsJoined, NothingShown
<1>8. JoinsOf(window') \subseteq JoinsOf(w) \cup {w.current_room_name}
  <2>1. ASSUME NEW r \in JoinsOf(window'), r # w.current_room_name
        PROVE  r \in JoinsOf(w)
    <3>1. PICK i \in DOMAIN w.client_rooms :
             w.client_rooms[i].name = r /\ window'.client_rooms[i].is_joined
      BY <1>4, <2>1 DEF JoinsOf, Joined
    <3>2. w.client_rooms[i].is_joined = TRUE
      <4>1. w.client_rooms[i].is_joined \in BOOLEAN
        BY <1>2 DEF ClientRooms
      <4>. QED  BY <1>3, <2>1, <3>1, <4>1
    <3>. QED  BY <2>1, <3>1, <3>2 DEF JoinsOf, Joined
  <2>. QED  BY <2>1
<1>9. CASE Unjoined(w) = {}
  <2>1. out_queue' = out_queue
    BY <1>9 DEF issue_room_join_if_needed
  <2>2. ASSUME w.current_room_name \in JoinsOf(window')
        PROVE  w.current_room_name \in JoinsOf(w)
    <3>1. PICK i \in DOMAIN w.client_rooms : w.client_rooms[i].name = w.current_room_name
      BY <1>4, <2>2 DEF JoinsOf, Joined
    <3>2. w.client_rooms[i].is_joined
      BY <1>9, <3>1 DEF Unjoined
    <3>. QED  BY <2>2, <3>1, <3>2 DEF JoinsOf, Joined
  <2>3. JoinsOf(window') \subseteq JoinsOf(w)
    BY <1>8, <2>2
  <2>. QED  BY <1>3, <1>7, <2>1, <2>3 DEF Settles
<1>10. CASE Unjoined(w) # {}
  <2>1. PICK i : i \in Unjoined(w)
    BY <1>10
  <2>2. w.current_room_name \in WindowNames
    <3>1. w.client_rooms[i] \in ClientRooms /\ w.client_rooms[i].name = w.current_room_name
      BY <1>2, <2>1 DEF Unjoined
    <3>. QED  BY <3>1 DEF ClientRooms
  <2>3. out_queue' = out_queue \o Asks(w.current_room_name)
    BY <1>10 DEF issue_room_join_if_needed, Asks
  <2>. QED  BY <1>3, <1>7, <1>8, <2>2, <2>3 DEF Settles
<1>. QED  BY <1>9, <1>10

\* A handler that lists the rooms anew and keeps the selection where it can.
LEMMA Relisted ==
    ASSUME NEW w, IsWindow(w), Distinct(names(w)), NEW r
    PROVE  LET u == select_room_by_name(update_rooms(w), r)
           IN  /\ Consistent(u)
               /\ names(u) = names(w) /\ u.room_names = names(w)
               /\ u.client_rooms = w.client_rooms
               /\ r \in Elements(names(w)) => u.current_room_name = r
               /\ r \notin Elements(names(w)) => u = update_rooms(w)
<1>. DEFINE v == update_rooms(w)
            u == select_room_by_name(v, r)
<1>1. /\ IsWindow(v) /\ v.client_rooms = w.client_rooms
      /\ v.room_names = names(w) /\ names(v) = names(w)
      /\ v.current_room_name # NoRoom => Shown(v)
      /\ v.current_room_name = NoRoom => NothingShown(v)
  BY UpdateShows
<1>. HIDE DEF v
<1>2. /\ IsWindow(u)
      /\ u.client_rooms = v.client_rooms /\ u.room_names = v.room_names
      /\ names(u) = names(v)
      /\ r \notin Elements(v.room_names) => u = v
      /\ r \in Elements(v.room_names) /\ v.room_names = names(v)
            => u.current_room_name = r /\ Shown(u)
  BY <1>1, SelectShows
<1>. HIDE DEF u
<1>3. Consistent(u)
  BY <1>1, <1>2 DEF Consistent
<1>. QED  BY <1>1, <1>2, <1>3 DEF u, v

\* The window with other rooms.
WithRooms(w, s) == [w EXCEPT !.client_rooms = s]

\* The other fields do not change.
LEMMA Replaced ==
    ASSUME NEW w, IsWindow(w), NEW s \in Seq(ClientRooms)
    PROVE  /\ IsWindow(WithRooms(w, s))
           /\ WithRooms(w, s).client_rooms = s
           /\ names(WithRooms(w, s)) = [i \in DOMAIN s |-> s[i].name]
<1>1. PICK h : w \in Windows(h)
  BY DEF IsWindow
<1>2. PICK u : u = WithRooms(w, s)
  OBVIOUS
<1>3. u \in Windows(h) /\ u.client_rooms = s
  BY <1>1, <1>2 DEF Windows, WithRooms
<1>4. IsWindow(u) /\ names(u) = [i \in DOMAIN s |-> s[i].name]
  BY <1>3 DEF IsWindow, names
<1>. QED  BY <1>2, <1>3, <1>4

\* client_rooms is cleared and made of the names of the list.
LEMMA ListSettles ==
    ASSUME WindowIsConsistent, NEW m, OnRoomList(m)
    PROVE  \E w : /\ Settles(w) /\ w.room_names = names(w) /\ ShowsJoined(window')
                  /\ Elements(names(w)) = m.rooms \cap WindowNames
                  /\ JoinsOf(w) = {}
<1>. DEFINE S == m.rooms \cap WindowNames
            selected == window.current_room_name
<1>1. IsFiniteSet(S)
  BY WindowAssumption, FS_Subset
<1>2. PICK order \in Orders(S) :
         issue_room_join_if_needed(select_room_by_name(
            update_rooms([window EXCEPT !.client_rooms = [i \in DOMAIN order |-> ClientRoom(order[i])]]),
            selected))
  BY DEF OnRoomList
<1>. HIDE DEF selected
<1>3. order \in Seq(S) /\ Elements(order) = S /\ Distinct(order)
  BY <1>1, OrdersList
<1>. DEFINE fresh == [i \in DOMAIN order |-> ClientRoom(order[i])]
<1>4. /\ fresh \in Seq(ClientRooms) /\ DOMAIN fresh = DOMAIN order
      /\ \A i \in DOMAIN order : fresh[i].name = order[i] /\ fresh[i].is_joined = FALSE
  <2>1. \A i \in DOMAIN order : order[i] \in WindowNames
    BY <1>3
  <2>2. \A r \in WindowNames : /\ ClientRoom(r) \in ClientRooms
                               /\ ClientRoom(r).name = r /\ ClientRoom(r).is_joined = FALSE
    BY DEF ClientRoom, ClientRooms
  <2>3. \A i \in DOMAIN order : ClientRoom(order[i]) \in ClientRooms
    BY <2>1, <2>2
  <2>4. fresh \in Seq(ClientRooms)
    BY <1>3, <2>3
  <2>. QED  BY <2>1, <2>2, <2>4
<1>. HIDE DEF fresh
<1>5. PICK w : w = WithRooms(window, fresh)
  OBVIOUS
<1>6. IsWindow(w) /\ w.client_rooms = fresh /\ names(w) = order
  <2>1. IsWindow(w) /\ w.client_rooms = fresh /\ names(w) = [i \in DOMAIN fresh |-> fresh[i].name]
    BY <1>4, <1>5, Replaced DEF WindowIsConsistent, Consistent
  <2>2. [i \in DOMAIN fresh |-> fresh[i].name] = order
    BY <1>3, <1>4
  <2>. QED  BY <2>1, <2>2
<1>7. PICK u : u = select_room_by_name(update_rooms(w), selected)
  OBVIOUS
<1>8. /\ Consistent(u) /\ names(u) = order /\ u.room_names = order /\ u.client_rooms = fresh
  BY <1>3, <1>6, <1>7, Relisted
<1>9. Settles(u) /\ ShowsJoined(window')
  BY <1>2, <1>5, <1>7, <1>8, JoinSettles DEF fresh, WithRooms
<1>10. JoinsOf(u) = {}
  BY <1>4, <1>8 DEF JoinsOf, Joined
<1>. QED  BY <1>3, <1>8, <1>9, <1>10

\* A room is added at the end of client_rooms.
LEMMA CreateSettles ==
    ASSUME WindowIsConsistent, NEW m, OnRoomCreate(m),
           ~(m.room \notin WindowNames \/ HasRoom(window, m.room))
    PROVE  \E w : /\ Settles(w) /\ w.room_names = names(w)
                  /\ Elements(names(w)) = Elements(names(window)) \cup {m.room}
                  /\ JoinsOf(w) \subseteq JoinsOf(window)
<1>. DEFINE selected == window.current_room_name
<1>1. PICK r \in WindowNames : r = m.room /\ r \notin Elements(names(window))
  BY DEF HasRoom
<1>2. IsWindow(window) /\ window.client_rooms \in Seq(ClientRooms) /\ Distinct(names(window))
  BY DEF WindowIsConsistent, Consistent, IsWindow, Windows
<1>3. PICK s : s = Append(window.client_rooms, ClientRoom(r))
  OBVIOUS
<1>4. issue_room_join_if_needed(select_room_by_name(
         update_rooms([window EXCEPT !.client_rooms = s]), selected))
  BY <1>1, <1>3 DEF OnRoomCreate
<1>. HIDE DEF selected
<1>. DEFINE n == Len(window.client_rooms)
<1>5. /\ s \in Seq(ClientRooms) /\ DOMAIN s = 1 .. n + 1 /\ n \in Nat
      /\ DOMAIN window.client_rooms = 1 .. n
      /\ s[n + 1].name = r /\ s[n + 1].is_joined = FALSE
      /\ \A i \in 1 .. n : s[i] = window.client_rooms[i]
  <2>1. ClientRoom(r) \in ClientRooms /\ ClientRoom(r).name = r /\ ClientRoom(r).is_joined = FALSE
    BY DEF ClientRoom, ClientRooms
  <2>2. s \in Seq(ClientRooms) /\ DOMAIN s = 1 .. n + 1 /\ n \in Nat /\ s[n + 1] = ClientRoom(r)
        /\ DOMAIN window.client_rooms = 1 .. n
        /\ \A i \in 1 .. n : s[i] = window.client_rooms[i]
    BY <1>2, <1>3, <2>1
  <2>. QED  BY <2>1, <2>2
<1>. HIDE DEF n
<1>6. PICK w : w = WithRooms(window, s)
  OBVIOUS
<1>7. IsWindow(w) /\ w.client_rooms = s /\ names(w) = [i \in 1 .. n + 1 |-> s[i].name]
  <2>1. s \in Seq(ClientRooms) /\ DOMAIN s = 1 .. n + 1
    BY <1>5
  <2>0. IsWindow(window)
    BY <1>2
  <2>2. /\ IsWindow(w) /\ w.client_rooms = s
        /\ names(w) = [i \in DOMAIN s |-> s[i].name]
    BY <1>6, <2>0, <2>1, Replaced
  <2>. QED  BY <2>1, <2>2
<1>8. /\ DOMAIN names(window) = 1 .. n
      /\ \A i \in 1 .. n : names(w)[i] = names(window)[i]
      /\ names(w)[n + 1] = r /\ DOMAIN names(w) = 1 .. n + 1
  <2>1. /\ DOMAIN names(window) = 1 .. n
        /\ \A i \in 1 .. n : names(window)[i] = window.client_rooms[i].name
    BY <1>2, <1>5, NamesOfWindow
  <2>2. n + 1 \in 1 .. n + 1 /\ \A i \in 1 .. n : i \in 1 .. n + 1
    BY <1>5
  <2>. QED  BY <1>5, <1>7, <2>1, <2>2
<1>9. \A i \in 1 .. n + 1 : i \in 1 .. n \/ i = n + 1
  BY <1>5
<1>10. Elements(names(w)) = Elements(names(window)) \cup {r}
  <2>1. n + 1 \in 1 .. n + 1 /\ \A i \in 1 .. n : i \in 1 .. n + 1
    BY <1>5
  <2>. QED  BY <1>8, <1>9, <2>1 DEF Elements
<1>11. Distinct(names(w))
  <2>1. \A i \in 1 .. n : names(w)[i] # r
    BY <1>1, <1>8 DEF Elements
  <2>. QED  BY <1>2, <1>8, <1>9, <2>1 DEF Distinct
<1>12. PICK u : u = select_room_by_name(update_rooms(w), selected)
  OBVIOUS
<1>13. /\ Consistent(u) /\ names(u) = names(w) /\ u.room_names = names(w) /\ u.client_rooms = s
  BY <1>7, <1>11, <1>12, Relisted
<1>14. Settles(u)
  BY <1>4, <1>6, <1>12, <1>13, JoinSettles DEF WithRooms
<1>15. JoinsOf(u) \subseteq JoinsOf(window)
  <2>1. ASSUME NEW q \in WindowNames, Joined(u, q)
        PROVE  Joined(window, q)
    <3>1. PICK i \in DOMAIN s : s[i].name = q /\ s[i].is_joined
      BY <1>13, <2>1 DEF Joined
    <3>2. i \in 1 .. n
      BY <1>5, <1>9, <3>1
    <3>. QED  BY <1>5, <3>1, <3>2 DEF Joined
  <2>. QED  BY <2>1 DEF JoinsOf
<1>. QED  BY <1>1, <1>10, <1>13, <1>14, <1>15

\* The rooms of a name are removed from client_rooms, in their order.
LEMMA RemovedRooms ==
    ASSUME WindowIsConsistent, NEW r, NEW w,
           w = WithRooms(window, Picked(window.client_rooms, OtherThan(r)))
    PROVE  /\ IsWindow(w) /\ Distinct(names(w))
           /\ Elements(names(w)) = Elements(names(window)) \ {r}
           /\ JoinsOf(w) = JoinsOf(window) \ {r}
<1>. DEFINE q == window.client_rooms
            S == OtherThan(r)
            s == Picked(q, S)
<1>1. IsWindow(window) /\ q \in Seq(ClientRooms) /\ Distinct(names(window))
  BY DEF WindowIsConsistent, Consistent, IsWindow, Windows
<1>2. s \in Seq(ClientRooms \cap S)
  BY <1>1, PickedTyped
<1>3. s \in Seq(ClientRooms) /\ \A i \in DOMAIN s : s[i] \in S
  BY <1>2
<1>4. PICK h \in [DOMAIN s -> DOMAIN q] :
         /\ \A i \in DOMAIN s : s[i] = q[h[i]]
         /\ \A i, j \in DOMAIN s : i < j => h[i] < h[j]
  BY <1>1, PickedInOrder
<1>5. \A i \in DOMAIN q : q[i] \in S => \E j \in DOMAIN s : s[j] = q[i]
  BY <1>1, PickedHolds
<1>6. \A i \in DOMAIN q : q[i] \in S <=> q[i].name # r
  BY DEF OtherThan, Elements
<1>7. \A i \in DOMAIN s : s[i].name # r
  BY <1>3 DEF OtherThan
<1>8. w = WithRooms(window, s)
  OBVIOUS
<1>. HIDE DEF s, S
<1>9. IsWindow(w) /\ w.client_rooms = s /\ names(w) = [i \in DOMAIN s |-> s[i].name]
  <2>1. IsWindow(window) /\ s \in Seq(ClientRooms)
    BY <1>1, <1>3
  <2>. QED  BY <1>8, <2>1, Replaced
<1>10. /\ DOMAIN names(window) = DOMAIN q
       /\ \A i \in DOMAIN q : names(window)[i] = q[i].name
  BY <1>1, NamesOfWindow
<1>11. Distinct(names(w))
  <2>1. ASSUME NEW i \in DOMAIN s, NEW j \in DOMAIN s, s[i].name = s[j].name
        PROVE  i = j
    <3>1. h[i] = h[j]
      BY <1>1, <1>4, <1>10, <2>1 DEF Distinct
    <3>2. i \in Nat /\ j \in Nat /\ h[i] \in Nat /\ h[j] \in Nat
      BY <1>1, <1>3, <1>4
    <3>. QED  BY <1>4, <3>1, <3>2
  <2>. QED  BY <1>9, <2>1 DEF Distinct
<1>12. Elements(names(w)) = Elements(names(window)) \ {r}
  <2>1. ASSUME NEW i \in DOMAIN s
        PROVE  s[i].name \in Elements(names(window)) \ {r}
    <3>1. h[i] \in DOMAIN q /\ s[i].name = q[h[i]].name
      BY <1>4
    <3>. QED  BY <1>7, <1>10, <3>1 DEF Elements
  <2>2. ASSUME NEW i \in DOMAIN q, q[i].name # r
        PROVE  q[i].name \in Elements(names(w))
    <3>1. PICK j \in DOMAIN s : s[j] = q[i]
      BY <1>5, <1>6, <2>2
    <3>. QED  BY <1>9, <3>1 DEF Elements
  <2>3. /\ \A x \in Elements(names(w)) : \E i \in DOMAIN s : x = s[i].name
        /\ \A x \in Elements(names(window)) : \E i \in DOMAIN q : x = q[i].name
    BY <1>9, <1>10 DEF Elements
  <2>. QED  BY <2>1, <2>2, <2>3
<1>13. JoinsOf(w) = JoinsOf(window) \ {r}
  <2>1. ASSUME NEW x \in WindowNames, Joined(w, x)
        PROVE  Joined(window, x) /\ x # r
    <3>1. PICK i \in DOMAIN s : s[i].name = x /\ s[i].is_joined
      BY <1>9, <2>1 DEF Joined
    <3>. QED  BY <1>4, <1>7, <3>1 DEF Joined
  <2>2. ASSUME NEW x \in WindowNames, Joined(window, x), x # r
        PROVE  Joined(w, x)
    <3>1. PICK i \in DOMAIN q : q[i].name = x /\ q[i].is_joined
      BY <2>2 DEF Joined
    <3>2. PICK j \in DOMAIN s : s[j] = q[i]
      BY <1>5, <1>6, <2>2, <3>1
    <3>. QED  BY <1>9, <3>1, <3>2 DEF Joined
  <2>. QED  BY <2>1, <2>2 DEF JoinsOf
<1>. QED  BY <1>9, <1>11, <1>12, <1>13

\* The room selected by name is joined, and stays so unless it is the one destroyed.
LEMMA DestroySettles ==
    ASSUME WindowIsConsistent, NEW m, OnRoomDestroy(m), HasRoom(window, m.room)
    PROVE  \E w : /\ Settles(w) /\ w.room_names = names(w)
                  /\ Elements(names(w)) = Elements(names(window)) \ {m.room}
                  /\ JoinsOf(w) \subseteq JoinsOf(window) \ {m.room}
<1>. DEFINE selected == window.current_room_name
<1>1. PICK w : w = WithRooms(window, Picked(window.client_rooms, OtherThan(m.room)))
  OBVIOUS
<1>2. /\ IsWindow(w) /\ Distinct(names(w))
      /\ Elements(names(w)) = Elements(names(window)) \ {m.room}
      /\ JoinsOf(w) = JoinsOf(window) \ {m.room}
  BY <1>1, RemovedRooms
<1>3. CASE selected = m.room
  <2>1. PICK u : u = update_rooms(w)
    OBVIOUS
  <2>2. issue_room_join_if_needed(u)
    BY <1>1, <1>3, <2>1 DEF OnRoomDestroy, WithRooms
  <2>3. /\ IsWindow(u) /\ u.client_rooms = w.client_rooms
        /\ u.room_names = names(w) /\ names(u) = names(w)
        /\ u.current_room_name # NoRoom => Shown(u)
        /\ u.current_room_name = NoRoom => NothingShown(u)
    BY <1>2, <2>1, UpdateShows
  <2>4. Consistent(u)
    BY <1>2, <2>3 DEF Consistent
  <2>5. JoinsOf(u) = JoinsOf(w)
    BY <2>3 DEF JoinsOf, Joined
  <2>. QED  BY <1>2, <2>2, <2>3, <2>4, <2>5, JoinSettles
<1>4. CASE selected # m.room
  <2>1. PICK u : u = select_room_by_name(update_rooms(w), selected)
    OBVIOUS
  <2>2. window' = u /\ out_queue' = out_queue
    BY <1>1, <1>4, <2>1 DEF OnRoomDestroy, WithRooms
  <2>3. /\ Consistent(u) /\ names(u) = names(w) /\ u.room_names = names(w)
        /\ u.client_rooms = w.client_rooms
        /\ selected \in Elements(names(w)) => u.current_room_name = selected
    BY <1>2, <2>1, Relisted
  <2>4. JoinsOf(u) = JoinsOf(w)
    BY <2>3 DEF JoinsOf, Joined
  <2>5. ASSUME UpToDate(window)
        PROVE  ShowsJoined(u)
    <3>1. Shown(window)
      <4>1. names(window) # << >>
        BY DEF HasRoom, Elements
      <4>. QED  BY <2>5, <4>1 DEF UpToDate, WindowIsConsistent, Consistent, NothingShown
    <3>2. selected \in Elements(names(window))
      BY <3>1 DEF Shown, Elements
    <3>3. selected \in WindowNames
      <4>1. names(window) \in Seq(WindowNames)
        BY NamesOfWindow DEF WindowIsConsistent, Consistent
      <4>. QED  BY <3>2, <4>1 DEF Elements
    <3>4. selected \in JoinsOf(window)
      BY <2>5, <3>3, WindowAssumption DEF UpToDate, ShowsJoined, JoinsOf
    <3>5. u.current_room_name = selected /\ selected \in JoinsOf(u)
      BY <1>2, <1>4, <2>3, <2>4, <3>2, <3>4
    <3>. QED  BY <3>5 DEF ShowsJoined, JoinsOf
  <2>6. Settles(u)
    <3>1. WindowIsConsistent'
      BY <2>2, <2>3 DEF WindowIsConsistent
    <3>. QED  BY <2>2, <2>5, <3>1 DEF Settles
  <2>. QED  BY <1>2, <2>3, <2>4, <2>6
<1>. QED  BY <1>3, <1>4

\* A window whose transcripts alone change.
LEMMA TranscriptsSettle ==
    ASSUME WindowIsConsistent, NEW h,
           window' = window \/ window' = [window EXCEPT !.chat_room_history = h],
           out_queue' = out_queue
    PROVE  Settles(window)
<1>1. PICK g : window \in Windows(g)
  BY DEF WindowIsConsistent, Consistent, IsWindow
<1>2. /\ window' \in Windows(g) \cup Windows(h)
      /\ window'.client_rooms = window.client_rooms
      /\ window'.room_names = window.room_names
      /\ window'.current_room_index = window.current_room_index
      /\ window'.current_room_name = window.current_room_name
  BY <1>1 DEF Windows
<1>3. names(window') = names(window)
  BY <1>2 DEF names
<1>4. Consistent(window')
  <2>1. IsWindow(window')
    BY <1>2 DEF IsWindow
  <2>. QED  BY <1>2, <1>3, <2>1 DEF WindowIsConsistent, Consistent, Shown, NothingShown
<1>5. UpToDate(window) => ShowsJoined(window')
  BY <1>2 DEF UpToDate, ShowsJoined, Joined
<1>6. JoinsOf(window') = JoinsOf(window)
  BY <1>2 DEF JoinsOf, Joined
<1>. QED  BY <1>2, <1>3, <1>4, <1>5, <1>6 DEF WindowIsConsistent, Settles

\* What a message from the server says of a room.
Says(m, r)   == \/ m.type = "ROOM_LIST" /\ r \in m.rooms
                \/ m.type = "ROOM_CREATE" /\ m.room = r
Denies(m, r) == \/ m.type = "ROOM_LIST" /\ r \notin m.rooms
                \/ m.type = "ROOM_DESTROY" /\ m.room = r

Displayed(w) == Elements(names(w))

\* At most one room is joined that was not, and it is asked for.
AsksForJoins(joins) ==
    \/ out_queue' = out_queue /\ JoinsOf(window') \subseteq joins
    \/ \E r \in WindowNames : /\ out_queue' = out_queue \o Asks(r)
                              /\ JoinsOf(window') \subseteq joins \cup {r}

\* A message makes of the rooms of the window what it says, and keeps the others.
LEMMA ProcessSettles ==
    ASSUME WindowIsConsistent, NEW m, Process(m)
    PROVE  /\ WindowIsConsistent'
           /\ m.type = "ROOM_LIST" \/ UpToDate(window) => UpToDate(window')
           /\ \A r \in WindowNames :
                 r \in Displayed(window') <=> Says(m, r) \/ (r \in Displayed(window) /\ ~Denies(m, r))
           /\ AsksForJoins({r \in JoinsOf(window) :
                 m.type # "ROOM_LIST" /\ ~(m.type = "ROOM_DESTROY" /\ m.room = r)})
<1>. DEFINE left == {r \in JoinsOf(window) :
                       m.type # "ROOM_LIST" /\ ~(m.type = "ROOM_DESTROY" /\ m.room = r)}
<1>0. Displayed(window) \subseteq WindowNames
  <2>1. names(window) \in Seq(WindowNames)
    BY NamesOfWindow DEF WindowIsConsistent, Consistent
  <2>. QED  BY <2>1 DEF Displayed, Elements
<1>1. CASE m.type = "ROOM_LIST"
  <2>1. OnRoomList(m)
    BY <1>1 DEF Process
  <2>2. PICK w : /\ Settles(w) /\ w.room_names = names(w) /\ ShowsJoined(window')
                 /\ Elements(names(w)) = m.rooms \cap WindowNames
                 /\ JoinsOf(w) = {}
    BY <2>1, ListSettles
  <2>3. AsksForJoins(left)
    BY <2>2 DEF Settles, AsksForJoins
  <2>4. Displayed(window') = m.rooms \cap WindowNames
    BY <2>2 DEF Settles, Displayed
  <2>. QED  BY <1>1, <2>2, <2>3, <2>4 DEF Settles, UpToDate, Says, Denies
<1>2. ASSUME Settles(window), left = JoinsOf(window), m.type # "ROOM_LIST",
             \A r \in WindowNames : /\ Says(m, r) => r \in Displayed(window)
                                    /\ Denies(m, r) => r \notin Displayed(window)
      PROVE  /\ WindowIsConsistent' /\ AsksForJoins(left)
             /\ UpToDate(window) => UpToDate(window')
             /\ \A r \in WindowNames :
                   r \in Displayed(window')
                      <=> Says(m, r) \/ (r \in Displayed(window) /\ ~Denies(m, r))
  BY <1>2 DEF Settles, UpToDate, AsksForJoins, Displayed
<1>3. CASE m.type = "ROOM_CREATE"
  <2>1. OnRoomCreate(m)
    BY <1>3 DEF Process
  <2>2. left = JoinsOf(window)
    BY <1>3
  <2>3. CASE m.room \notin WindowNames \/ HasRoom(window, m.room)
    <3>1. window' = window /\ out_queue' = out_queue
      BY <2>1, <2>3 DEF OnRoomCreate, WindowStays, windowVars
    <3>2. Settles(window)
      BY <3>1, TranscriptsSettle
    <3>. QED  BY <1>2, <1>3, <2>2, <2>3, <3>2 DEF Says, Denies, HasRoom, Displayed
  <2>4. CASE ~(m.room \notin WindowNames \/ HasRoom(window, m.room))
    <3>1. PICK w : /\ Settles(w) /\ w.room_names = names(w)
                   /\ Elements(names(w)) = Elements(names(window)) \cup {m.room}
                   /\ JoinsOf(w) \subseteq JoinsOf(window)
      BY <2>1, <2>4, CreateSettles
    <3>2. AsksForJoins(left)
      BY <2>2, <3>1 DEF Settles, AsksForJoins
    <3>. QED  BY <1>3, <3>1, <3>2 DEF Settles, UpToDate, Says, Denies, Displayed
  <2>. QED  BY <2>3, <2>4
<1>4. CASE m.type = "ROOM_DESTROY"
  <2>1. OnRoomDestroy(m)
    BY <1>4 DEF Process
  <2>2. CASE ~HasRoom(window, m.room)
    <3>1. window' = window /\ out_queue' = out_queue
      BY <2>1, <2>2 DEF OnRoomDestroy, WindowStays, windowVars
    <3>2. Settles(window)
      BY <3>1, TranscriptsSettle
    <3>3. left = JoinsOf(window)
      <4>1. ASSUME NEW i \in DOMAIN window.client_rooms
            PROVE  window.client_rooms[i].name # m.room
        <5>1. names(window)[i] = window.client_rooms[i].name /\ i \in DOMAIN names(window)
          BY NamesOfWindow DEF WindowIsConsistent, Consistent
        <5>. QED  BY <2>2, <5>1 DEF HasRoom, Elements
      <4>. QED  BY <1>4, <4>1 DEF JoinsOf, Joined
    <3>. QED  BY <1>2, <1>4, <2>2, <3>2, <3>3 DEF Says, Denies, HasRoom, Displayed
  <2>3. CASE HasRoom(window, m.room)
    <3>1. PICK w : /\ Settles(w) /\ w.room_names = names(w)
                   /\ Elements(names(w)) = Elements(names(window)) \ {m.room}
                   /\ JoinsOf(w) \subseteq JoinsOf(window) \ {m.room}
      BY <2>1, <2>3, DestroySettles
    <3>2. JoinsOf(w) \subseteq left
      BY <1>4, <3>1
    <3>3. AsksForJoins(left)
      BY <3>1, <3>2 DEF Settles, AsksForJoins
    <3>. QED  BY <1>4, <3>1, <3>3 DEF Settles, UpToDate, Says, Denies, Displayed
  <2>. QED  BY <2>2, <2>3
<1>5. CASE m.type \notin {"ROOM_LIST", "ROOM_CREATE", "ROOM_DESTROY"}
  <2>1. /\ out_queue' = out_queue
        /\ \/ window' = window
           \/ \E h : window' = [window EXCEPT !.chat_room_history = h]
    BY <1>5 DEF Process, OnRoomHistory, OnChatEcho, WindowStays, windowVars,
                rewrite_chat_history, insert_chat_history_event
  <2>2. Settles(window)
    BY <2>1, TranscriptsSettle
  <2>3. left = JoinsOf(window)
    BY <1>5
  <2>. QED  BY <1>2, <1>5, <2>2, <2>3 DEF Says, Denies
<1>. QED  BY <1>1, <1>3, <1>4, <1>5

\* What the user's commands and lines put into the queue.
UserRequests == {create_room_create(r)  : r \in WindowNames}
                  \cup {create_room_destroy(r) : r \in WindowNames}
                  \cup {create_chat_send(r, n) : r \in WindowNames, n \in 1 .. MaxUserActs}

\* The user changes the selection, or asks the server for something.
LEMMA UserSettles ==
    ASSUME WindowIsConsistent, user_acts \in 0 .. MaxUserActs, UserActs
    PROVE  \/ Settles(window)
           \/ window' = window /\ \E m \in UserRequests : out_queue' = Append(out_queue, m)
<1>1. IsWindow(window) /\ window.room_names \in Seq(WindowNames)
  BY DEF WindowIsConsistent, Consistent, IsWindow, Windows
<1>2. ASSUME NEW i, ChangeRoom(i)
      PROVE  Settles(window)
  <2>1. PICK h : window \in Windows(h)
    BY <1>1 DEF IsWindow
  <2>2. i \in DOMAIN window.room_names /\ i - 1 \in Nat /\ (i - 1) + 1 = i
        /\ window.room_names[i] \in WindowNames
    BY <1>1, <1>2 DEF ChangeRoom
  <2>3. PICK w : w = [window EXCEPT !.current_room_index = i - 1,
                                    !.current_room_name = window.room_names[i]]
    OBVIOUS
  <2>4. /\ w \in Windows(h) /\ w.client_rooms = window.client_rooms
        /\ w.room_names = window.room_names
        /\ w.current_room_index = i - 1 /\ w.current_room_name = window.room_names[i]
    BY <2>1, <2>2, <2>3 DEF Windows
  <2>5. names(w) = names(window) /\ JoinsOf(w) = JoinsOf(window)
    BY <2>4 DEF names, JoinsOf, Joined
  <2>6. Shown(window)
    BY <2>2 DEF WindowIsConsistent, Consistent, NothingShown
  <2>7. Consistent(w)
    <3>1. Shown(w)
      BY <2>2, <2>4, <2>5, <2>6 DEF Shown
    <3>2. IsWindow(w)
      BY <2>4 DEF IsWindow
    <3>. QED  BY <2>5, <3>1, <3>2 DEF WindowIsConsistent, Consistent
  <2>8. Settles(w)
    BY <1>2, <2>3, <2>7, JoinSettles DEF ChangeRoom
  <2>. QED  BY <2>4, <2>5, <2>8 DEF Settles
<1>3. ASSUME SubmitText(user_acts + 1), user_acts < MaxUserActs
      PROVE  window' = window /\ \E m \in UserRequests : out_queue' = Append(out_queue, m)
  <2>1. window.current_room_name \in WindowNames
    BY <1>1, <1>3 DEF SubmitText, IsWindow, Windows
  <2>2. user_acts + 1 \in 1 .. MaxUserActs
    BY <1>3, SystemAssumption
  <2>. QED  BY <1>3, <2>1, <2>2 DEF SubmitText, UserRequests
<1>4. ASSUME NEW r \in WindowNames, NEW command, SubmitCommand(command, r)
      PROVE  window' = window /\ \E m \in UserRequests : out_queue' = Append(out_queue, m)
  BY <1>4 DEF SubmitCommand, UserRequests
<1>. QED  BY <1>2, <1>3, <1>4 DEF UserActs

\* What was left over from an earlier connection, joined or not, is not shown.
LEMMA WindowStartsConsistent ==
    ASSUME WindowInit
    PROVE  WindowIsConsistent /\ out_queue = <<room_list_request>>
<1>1. PICK order \in Orders(LeftOver), joined \in [LeftOver -> BOOLEAN] :
         window = [client_rooms |-> [i \in DOMAIN order |->
                                       [name |-> order[i], is_joined |-> joined[order[i]]]],
                   room_names |-> << >>,
                   current_room_index |-> 0,
                   current_room_name |-> NoRoom,
                   chat_room_history |-> [r \in {} |-> << >>]]
  BY DEF WindowInit
<1>2. order \in Seq(LeftOver) /\ Distinct(order)
  BY WindowAssumption, FS_Subset, OrdersList
<1>3. PICK h : h = [r \in {} |-> << >>]
  OBVIOUS
<1>. DEFINE s == [i \in DOMAIN order |-> [name |-> order[i], is_joined |-> joined[order[i]]]]
<1>4. s \in Seq(ClientRooms)
  <2>1. \A i \in DOMAIN order : order[i] \in WindowNames /\ joined[order[i]] \in BOOLEAN
    BY <1>2, WindowAssumption
  <2>2. \A i \in DOMAIN order : [name |-> order[i], is_joined |-> joined[order[i]]] \in ClientRooms
    BY <2>1 DEF ClientRooms
  <2>. QED  BY <1>2, <2>2
<1>5. DOMAIN s = DOMAIN order /\ \A i \in DOMAIN s : s[i].name = order[i]
  OBVIOUS
<1>. HIDE DEF s
<1>6. /\ window \in Windows(h) /\ window.client_rooms = s
      /\ window.room_names = << >> /\ window.current_room_name = NoRoom
  <2>1. window = [client_rooms |-> s, room_names |-> << >>, current_room_index |-> 0,
                  current_room_name |-> NoRoom, chat_room_history |-> h]
    BY <1>1, <1>3 DEF s
  <2>2. << >> \in Seq(WindowNames) /\ 0 \in Nat /\ NoRoom \in WindowNames \cup {NoRoom}
    OBVIOUS
  <2>. QED  BY <1>4, <2>1, <2>2 DEF Windows
<1>7. NothingShown(window)
  BY <1>6 DEF NothingShown
<1>8. Distinct(names(window))
  BY <1>2, <1>5, <1>6 DEF Distinct, names
<1>. QED  BY <1>6, <1>7, <1>8 DEF WindowInit, WindowIsConsistent, Consistent, IsWindow

\* No step of the window, and none of anything else, leaves it inconsistent.
LEMMA WindowStaysConsistent ==
    ASSUME WindowIsConsistent, user_acts \in 0 .. MaxUserActs, [SystemNext]_system
    PROVE  WindowIsConsistent' /\ user_acts' \in 0 .. MaxUserActs
<1>1. MaxUserActs \in Nat
  BY SystemAssumption
<1>2. CASE ProcessNext
  <2>1. Process(sent[Me][seen + 1]) /\ user_acts' = user_acts
    BY <1>2 DEF ProcessNext
  <2>. QED  BY <2>1, ProcessSettles
<1>3. CASE UserActs
  <2>1. user_acts' \in 0 .. MaxUserActs
    BY <1>1, <1>3 DEF UserActs
  <2>2. CASE Settles(window)
    BY <2>1, <2>2 DEF Settles
  <2>3. CASE window' = window
    BY <2>1, <2>3 DEF WindowIsConsistent
  <2>. QED  BY <1>3, <2>2, <2>3, UserSettles
<1>4. CASE Carry \/ PeerActs \/ Serve \/ UNCHANGED system
  <2>1. window' = window /\ user_acts' = user_acts
    BY <1>4 DEF Carry, PeerActs, Serve, system, windowVars
  <2>. QED  BY <2>1 DEF WindowIsConsistent
<1>. QED  BY <1>2, <1>3, <1>4 DEF SystemNext

LEMMA WindowInvariant == SystemSpec => []WindowIsConsistent
<1>. DEFINE Inv == WindowIsConsistent /\ user_acts \in 0 .. MaxUserActs
<1>1. SystemInit => Inv
  BY WindowStartsConsistent, SystemAssumption DEF SystemInit
<1>2. Inv /\ [SystemNext]_system => Inv'
  BY WindowStaysConsistent
<1>. QED  BY <1>1, <1>2, PTL DEF SystemSpec

\* The display, the selection and the list of rooms agree, after any sequence of lists,
\* creations, destructions and choices of the user, whatever the number of rooms.
THEOREM DisplayIsConsistent == SystemSpec => []SelectionMatchesList
<1>1. WindowIsConsistent => SelectionMatchesList
  <2>. SUFFICES ASSUME WindowIsConsistent
                PROVE  SelectionMatchesList
    OBVIOUS
  <2>1. /\ IsWindow(window) /\ Distinct(names(window))
        /\ window.room_names \in Seq(WindowNames)
        /\ NothingShown(window) \/ Shown(window)
    BY DEF WindowIsConsistent, Consistent, IsWindow, Windows
  <2>2. CASE NothingShown(window)
    <3>1. Elements(<< >>) = {} /\ Cardinality({}) = 0
      BY FS_EmptySet DEF Elements
    <3>. QED  BY <2>2, <3>1 DEF NothingShown, SelectionMatchesList
  <2>3. CASE Shown(window)
    <3>1. Cardinality(Elements(window.room_names)) = Len(window.room_names)
      BY <2>1, <2>3, DistinctCounts DEF Shown
    <3>2. window.room_names # << >>
      BY <2>3 DEF Shown
    <3>. QED  BY <2>3, <3>1, <3>2 DEF Shown, SelectionMatchesList
  <2>. QED  BY <2>1, <2>2, <2>3
<1>. QED  BY <1>1, WindowInvariant, PTL

-----------------------------------------------------------------------------
(***************************************************************************)
(* What the window will show.                                              *)
(***************************************************************************)
\* Whether a client that shows the rooms of `shown` and has read n messages of the stream s
\* will show r when it has read all of it.
Expected(s, n, shown, r) ==
    \/ \E i \in DOMAIN s : /\ i > n /\ Says(s[i], r)
                           /\ \A j \in DOMAIN s : j > i => ~Denies(s[j], r)
    \/ r \in shown /\ \A j \in DOMAIN s : j > n => ~Denies(s[j], r)

\* What is appended to a stream decides, or leaves it as it was.
LEMMA ExpectedAppends ==
    ASSUME NEW D, NEW s \in Seq(D), NEW t \in Seq(D), NEW n \in 0 .. Len(s), NEW shown, NEW r
    PROVE  Expected(s \o t, n, shown, r)
              <=> \/ \E i \in DOMAIN t : /\ Says(t[i], r)
                                         /\ \A j \in DOMAIN t : j > i => ~Denies(t[j], r)
                  \/ /\ Expected(s, n, shown, r)
                     /\ \A j \in DOMAIN t : ~Denies(t[j], r)
<1>. DEFINE u == s \o t
            k == Len(s)
            Ends(i) == \A j \in DOMAIN u : j > i => ~Denies(u[j], r)
            Late == \E i \in DOMAIN t : /\ Says(t[i], r)
                                        /\ \A j \in DOMAIN t : j > i => ~Denies(t[j], r)
            Allows == \A j \in DOMAIN t : ~Denies(t[j], r)
<1>1. /\ k \in Nat /\ n \in 0 .. k /\ Len(t) \in Nat
      /\ DOMAIN s = 1 .. k /\ DOMAIN t = 1 .. Len(t) /\ DOMAIN u = 1 .. k + Len(t)
      /\ \A i \in 1 .. k : u[i] = s[i]
      /\ \A i \in 1 .. Len(t) : u[k + i] = t[i]
  OBVIOUS
<1>. HIDE DEF u, k
<1>2. \A i \in DOMAIN s : i \in DOMAIN u
  BY <1>1
<1>3. \A i \in DOMAIN t : k + i \in DOMAIN u /\ k + i > k
  BY <1>1
<1>4. \A i \in DOMAIN u : \/ i \in DOMAIN s /\ i <= k
                          \/ i > k /\ i - k \in DOMAIN t /\ u[i] = t[i - k]
  <2>. SUFFICES ASSUME NEW i \in DOMAIN u, i > k
                PROVE  i - k \in DOMAIN t /\ u[i] = t[i - k]
    BY <1>1
  <2>1. i - k \in 1 .. Len(t) /\ k + (i - k) = i
    BY <1>1
  <2>. QED  BY <1>1, <2>1
\* What no message denies after position i <= k.
<1>5. ASSUME NEW i \in 0 .. k
      PROVE  Ends(i) <=> Allows /\ \A j \in DOMAIN s : j > i => ~Denies(s[j], r)
  <2>1. ASSUME Ends(i)
        PROVE  Allows /\ \A j \in DOMAIN s : j > i => ~Denies(s[j], r)
    <3>1. ASSUME NEW j \in DOMAIN t
          PROVE  ~Denies(t[j], r)
      <4>1. k + j \in DOMAIN u /\ k + j > i /\ u[k + j] = t[j]
        BY <1>1, <1>3
      <4>. QED  BY <2>1, <4>1
    <3>2. ASSUME NEW j \in DOMAIN s, j > i
          PROVE  ~Denies(s[j], r)
      BY <1>1, <1>2, <2>1, <3>2
    <3>. QED  BY <3>1, <3>2
  <2>2. ASSUME Allows, \A j \in DOMAIN s : j > i => ~Denies(s[j], r)
        PROVE  Ends(i)
    <3>. SUFFICES ASSUME NEW j \in DOMAIN u, j > i
                  PROVE  ~Denies(u[j], r)
      OBVIOUS
    <3>. QED  BY <1>1, <1>4, <2>2
  <2>. QED  BY <2>1, <2>2
<1>6. ASSUME NEW i \in DOMAIN t
      PROVE  Ends(k + i) <=> \A j \in DOMAIN t : j > i => ~Denies(t[j], r)
  <2>1. ASSUME Ends(k + i), NEW j \in DOMAIN t, j > i
        PROVE  ~Denies(t[j], r)
    <3>1. k + j \in DOMAIN u /\ k + j > k + i /\ u[k + j] = t[j]
      BY <1>1, <1>3, <2>1
    <3>. QED  BY <2>1, <3>1
  <2>2. ASSUME \A j \in DOMAIN t : j > i => ~Denies(t[j], r),
               NEW j \in DOMAIN u, j > k + i
        PROVE  ~Denies(u[j], r)
    <3>1. j - k \in DOMAIN t /\ u[j] = t[j - k] /\ j - k > i
      BY <1>1, <1>4, <2>2
    <3>. QED  BY <2>2, <3>1
  <2>. QED  BY <2>1, <2>2
<1>. HIDE DEF Ends, Allows
<1>7. Expected(u, n, shown, r)
         <=> \/ \E i \in DOMAIN u : i > n /\ Says(u[i], r) /\ Ends(i)
             \/ r \in shown /\ Ends(n)
  BY DEF Expected, Ends
<1>8. ASSUME Late PROVE Expected(u, n, shown, r)
  <2>1. PICK i \in DOMAIN t : Says(t[i], r) /\ Ends(k + i)
    BY <1>6, <1>8
  <2>2. k + i \in DOMAIN u /\ k + i > n /\ u[k + i] = t[i]
    BY <1>1, <1>3
  <2>. QED  BY <1>7, <2>1, <2>2
<1>9. ASSUME Expected(s, n, shown, r), Allows PROVE Expected(u, n, shown, r)
  <2>1. ASSUME NEW i \in DOMAIN s, i > n, Says(s[i], r),
               \A j \in DOMAIN s : j > i => ~Denies(s[j], r)
        PROVE  Expected(u, n, shown, r)
    <3>1. i \in 0 .. k /\ i \in DOMAIN u /\ u[i] = s[i]
      BY <1>1, <1>2
    <3>2. Ends(i)
      BY <1>5, <1>9, <2>1, <3>1
    <3>. QED  BY <1>7, <2>1, <3>1, <3>2
  <2>2. ASSUME r \in shown, \A j \in DOMAIN s : j > n => ~Denies(s[j], r)
        PROVE  Expected(u, n, shown, r)
    BY <1>1, <1>5, <1>7, <1>9, <2>2
  <2>. QED  BY <1>9, <2>1, <2>2 DEF Expected
<1>10. ASSUME Expected(u, n, shown, r), ~Late PROVE Expected(s, n, shown, r) /\ Allows
  <2>1. ASSUME NEW i \in DOMAIN u, i > n, Says(u[i], r), Ends(i)
        PROVE  Expected(s, n, shown, r) /\ Allows
    <3>1. CASE i \in DOMAIN s /\ i <= k
      <4>1. i \in 0 .. k /\ u[i] = s[i]
        BY <1>1, <3>1
      <4>. QED  BY <1>5, <2>1, <3>1, <4>1 DEF Expected
    <3>2. CASE i > k /\ i - k \in DOMAIN t /\ u[i] = t[i - k]
      <4>1. k + (i - k) = i
        BY <1>1
      <4>2. Ends(k + (i - k))
        BY <2>1, <4>1
      <4>. QED  BY <1>6, <1>10, <2>1, <3>2, <4>2
    <3>. QED  BY <1>4, <3>1, <3>2
  <2>2. ASSUME r \in shown, Ends(n)
        PROVE  Expected(s, n, shown, r) /\ Allows
    BY <1>1, <1>5, <2>2 DEF Expected
  <2>. QED  BY <1>7, <1>10, <2>1, <2>2
<1>. QED  BY <1>8, <1>9, <1>10 DEF u, Allows

\* Reading one more message changes nothing of what will be shown.
LEMMA ExpectedStays ==
    ASSUME NEW D, NEW s \in Seq(D), NEW n \in 0 .. Len(s) - 1, NEW r, NEW shown, NEW next,
           r \in next <=> Says(s[n + 1], r) \/ (r \in shown /\ ~Denies(s[n + 1], r))
    PROVE  Expected(s, n + 1, next, r) <=> Expected(s, n, shown, r)
<1>. DEFINE Ends(i) == \A j \in DOMAIN s : j > i => ~Denies(s[j], r)
<1>1. /\ Len(s) \in Nat /\ n \in Nat /\ n + 1 \in Nat /\ n + 1 \in DOMAIN s /\ n + 1 > n
      /\ DOMAIN s \subseteq Nat
  OBVIOUS
<1>2. \A i \in DOMAIN s : i > n <=> i = n + 1 \/ i > n + 1
  BY <1>1
<1>3. Ends(n) <=> Ends(n + 1) /\ ~Denies(s[n + 1], r)
  BY <1>1, <1>2
<1>4. \A m : Expected(s, n, shown, r)
         <=> \/ \E i \in DOMAIN s : i > n /\ Says(s[i], r) /\ Ends(i)
             \/ r \in shown /\ Ends(n)
  BY DEF Expected
<1>5. Expected(s, n + 1, next, r)
         <=> \/ \E i \in DOMAIN s : i > n + 1 /\ Says(s[i], r) /\ Ends(i)
             \/ r \in next /\ Ends(n + 1)
  BY DEF Expected
<1>. HIDE DEF Ends
<1>6. (\E i \in DOMAIN s : i > n /\ Says(s[i], r) /\ Ends(i))
         <=> \/ \E i \in DOMAIN s : i > n + 1 /\ Says(s[i], r) /\ Ends(i)
             \/ Says(s[n + 1], r) /\ Ends(n + 1)
  BY <1>1, <1>2
<1>. QED  BY <1>3, <1>4, <1>5, <1>6

\* What the window has asked the server for and the server has not looked at yet, and what
\* the server has for the window and the window has not processed.
Requested == Elements(out_queue) \cup Elements(messages_in[Me])
Unseen    == {Stream(Me)[i] : i \in seen + 1 .. Len(Stream(Me))}

Asked      == room_list_request \in Requested
ListUnseen == \E m \in Unseen : m.type = "ROOM_LIST"

\* Whether the window will show r when it has processed what there is for it.
WillShow(r) == Expected(Stream(Me), seen, Displayed(window), r)

\* Unless the window still has to be given its first list, what it will show are the rooms:
\* but for those the batch has created and not announced, and for those it destroys.
ToldOf(r) ==
    \/ Asked
    \/ /\ pc = "gather"
       /\ \/ r \in Elements(destroyed_rooms)
          \/ r \in rooms <=> r \in Elements(new_rooms) \/ WillShow(r)
    \/ /\ pc # "gather"
       /\ WillShow(r) <=> r \in rooms \ Elements(destroyed_rooms)

\* A room the window counts as joined is one the server has its client in, or the server
\* will be asked, or something on its way removes the room or makes the window ask again.
MemberOf(r) == \/ Asked \/ ListUnseen
               \/ create_room_join(r) \in Requested
               \/ create_room_destroy(r) \in Unseen
               \/ r \in rooms /\ room[r].joined[Me] > 0

ListComes == Asked \/ ListUnseen \/ UpToDate(window)

Told == /\ ListComes
        /\ \A r \in WindowNames : ToldOf(r)
        /\ \A r \in JoinsOf(window) : MemberOf(r)

Progress == seen \in 0 .. Len(sent[Me])

\* The stream to the window, and how far the window has read it.
LEMMA StreamTyped ==
    ASSUME TypeOK, Progress
    PROVE  /\ Me \in Connections
           /\ Stream(Me) \in Seq(ServerMessages) /\ Len(Stream(Me)) \in Nat
           /\ Len(sent[Me]) \in 0 .. Len(Stream(Me))
           /\ seen \in 0 .. Len(Stream(Me))
           /\ \A i \in 1 .. Len(sent[Me]) : Stream(Me)[i] = sent[Me][i]
<1>1. Me \in Connections
  BY SystemAssumption
<1>2. sent[Me] \in Seq(ServerMessages) /\ messages_out[Me] \in Seq(ServerMessages)
  BY <1>1 DEF TypeOK, TaskTypes, QueueTypes
<1>3. PICK a \in Seq(ServerMessages) : a = sent[Me]
  BY <1>2
<1>4. PICK b \in Seq(ServerMessages) : b = messages_out[Me]
  BY <1>2
<1>5. /\ a \o b \in Seq(ServerMessages) /\ Len(a \o b) \in Nat
      /\ Len(a) \in 0 .. Len(a \o b)
      /\ \A i \in 1 .. Len(a) : (a \o b)[i] = a[i]
  OBVIOUS
<1>6. seen \in 0 .. Len(a \o b)
  BY <1>3, <1>5 DEF Progress
<1>. QED  BY <1>1, <1>3, <1>4, <1>5, <1>6 DEF Stream

\* What is unseen stays so while the stream grows and nothing is processed.
LEMMA UnseenGrows ==
    ASSUME TypeOK, Progress, NEW t \in Seq(ServerMessages),
           Stream(Me)' = Stream(Me) \o t, seen' = seen
    PROVE  Unseen \subseteq Unseen' /\ \A i \in DOMAIN t : t[i] \in Unseen'
<1>. DEFINE s == Stream(Me)
            u == s \o t
            k == Len(s)
<1>1. s \in Seq(ServerMessages) /\ k \in Nat /\ seen \in 0 .. k
  BY StreamTyped
<1>2. Unseen' = {u[i] : i \in seen + 1 .. Len(u)}
  BY DEF Unseen
<1>3. /\ Len(u) = k + Len(t) /\ Len(t) \in Nat /\ DOMAIN t = 1 .. Len(t)
      /\ \A i \in 1 .. k : u[i] = s[i]
      /\ \A i \in 1 .. Len(t) : u[k + i] = t[i]
  BY <1>1
<1>4. Unseen = {s[i] : i \in seen + 1 .. k}
  BY DEF Unseen
<1>. HIDE DEF u, s, k
<1>5. \A i \in seen + 1 .. k : i \in 1 .. k /\ i \in seen + 1 .. Len(u)
  BY <1>1, <1>3
<1>6. \A i \in DOMAIN t : k + i \in seen + 1 .. Len(u)
  BY <1>1, <1>3
<1>. QED  BY <1>2, <1>3, <1>4, <1>5, <1>6

\* A room the window shows and will not show is denied by something unseen.
LEMMA DenialUnseen ==
    ASSUME TypeOK, Progress, NEW r \in JoinsOf(window), ~WillShow(r), WindowIsConsistent
    PROVE  ListUnseen \/ create_room_destroy(r) \in Unseen
<1>1. Stream(Me) \in Seq(ServerMessages) /\ seen \in 0 .. Len(Stream(Me))
  BY StreamTyped
<1>2. r \in Displayed(window)
  <2>1. PICK i \in DOMAIN window.client_rooms : window.client_rooms[i].name = r
    BY DEF JoinsOf, Joined
  <2>. QED  BY <2>1, NamesOfWindow DEF WindowIsConsistent, Consistent, Displayed, Elements
<1>3. PICK j \in DOMAIN Stream(Me) : j > seen /\ Denies(Stream(Me)[j], r)
  BY <1>2 DEF WillShow, Expected
<1>4. Stream(Me)[j] \in Unseen /\ Stream(Me)[j] \in ServerMessages
  <2>1. j \in seen + 1 .. Len(Stream(Me)) /\ Stream(Me)[j] \in ServerMessages
    BY <1>1, <1>3
  <2>. QED  BY <2>1 DEF Unseen
<1>5. ASSUME NEW m \in ServerMessages, m.type = "ROOM_DESTROY", m.room = r
      PROVE  m = create_room_destroy(r)
  <2>1. m \in [type : {"ROOM_CREATE", "ROOM_DESTROY"}, room : ValidNames]
    BY <1>5 DEF ServerMessages, create_ack, create_nak
  <2>2. m = [type |-> m.type, room |-> m.room]
    BY <2>1
  <2>. QED  BY <1>5, <2>2 DEF create_room_destroy
<1>. QED  BY <1>3, <1>4, <1>5 DEF Denies, ListUnseen

\* A step that tells the window nothing about rooms and takes no room away.
LEMMA SilentKeepsTold ==
    ASSUME Told, TypeOK, Progress, WindowIsConsistent,
           seen' = seen, names(window') = names(window), UpToDate(window) => UpToDate(window'),
           \A r \in JoinsOf(window') : r \in JoinsOf(window) \/ create_room_join(r) \in Requested',
           NEW t \in Seq(ServerMessages), Stream(Me)' = Stream(Me) \o t,
           \A i \in DOMAIN t : t[i].type \notin {"ROOM_LIST", "ROOM_CREATE", "ROOM_DESTROY"},
           pc' = pc, rooms' = rooms, new_rooms' = new_rooms,
           \/ destroyed_rooms' = destroyed_rooms
           \/ pc = "gather" /\ Elements(destroyed_rooms) \subseteq Elements(destroyed_rooms'),
           \A r \in rooms : room[r].joined[Me] > 0 => room'[r].joined[Me] > 0,
           NEW h, Requested \subseteq Requested' \cup {h}, h # room_list_request,
           \A r : h = create_room_join(r)
                     => pc = "gather" /\ (r \in rooms => room'[r].joined[Me] > 0)
    PROVE  Told'
<1>1. Asked => Asked'
  BY DEF Asked
<1>2. Unseen \subseteq Unseen'
  BY UnseenGrows
<1>3. ListUnseen => ListUnseen'
  BY <1>2 DEF ListUnseen
<1>4. ListComes'
  <2>1. UpToDate(window)' <=> UpToDate(window')
    BY DEF UpToDate, ShowsJoined, Joined, names
  <2>. QED  BY <1>1, <1>3, <2>1 DEF Told, ListComes
<1>5. ASSUME NEW r
      PROVE  WillShow(r)' <=> WillShow(r)
  <2>1. \A i \in DOMAIN t : ~Says(t[i], r) /\ ~Denies(t[i], r)
    BY DEF Says, Denies
  <2>2. Stream(Me) \in Seq(ServerMessages) /\ seen \in 0 .. Len(Stream(Me))
    BY StreamTyped
  <2>3. Expected(Stream(Me) \o t, seen, Displayed(window), r) <=> WillShow(r)
    BY <2>1, <2>2, ExpectedAppends DEF WillShow
  <2>4. Displayed(window') = Displayed(window)
    BY DEF Displayed
  <2>. QED  BY <2>3, <2>4 DEF WillShow
<1>6. ASSUME NEW r \in WindowNames
      PROVE  ToldOf(r)'
  <2>1. ToldOf(r)
    BY DEF Told
  <2>. QED  BY <1>1, <1>5, <2>1 DEF ToldOf
<1>7. ASSUME NEW r \in JoinsOf(window'), r \in JoinsOf(window)
      PROVE  MemberOf(r)'
  <2>1. MemberOf(r) /\ ToldOf(r) /\ r \in WindowNames
    BY <1>7 DEF Told, JoinsOf
  <2>2. CASE create_room_join(r) \in Requested /\ h = create_room_join(r) /\ r \notin rooms
    <3>1. r \notin Elements(destroyed_rooms)
      BY <2>2 DEF TypeOK, BatchTypes, Elements
    <3>2. Asked \/ ~WillShow(r)
      BY <2>1, <2>2, <3>1 DEF ToldOf
    <3>3. Asked \/ ListUnseen \/ create_room_destroy(r) \in Unseen
      BY <1>7, <3>2, DenialUnseen
    <3>. QED  BY <1>1, <1>2, <1>3, <3>3 DEF MemberOf
  <2>3. CASE create_room_join(r) \in Requested /\ h = create_room_join(r) /\ r \in rooms
    BY <2>3 DEF MemberOf
  <2>. QED  BY <1>1, <1>2, <1>3, <2>1, <2>2, <2>3 DEF MemberOf
<1>8. ASSUME NEW r \in JoinsOf(window')
      PROVE  MemberOf(r)'
  <2>1. CASE r \in JoinsOf(window)
    BY <1>7, <2>1
  <2>2. CASE create_room_join(r) \in Requested'
    BY <2>2 DEF MemberOf
  <2>. QED  BY <2>1, <2>2
<1>. QED  BY <1>4, <1>6, <1>8 DEF Told

-----------------------------------------------------------------------------
(***************************************************************************)
(* Types, and what does not change while the server runs.                  *)
(***************************************************************************)
\* All that the window puts into its queue.
WindowRequests ==
    UserRequests \cup {room_list_request}
      \cup {create_room_join(r) : r \in WindowNames}
      \cup {create_room_history(r, HistoryCount) : r \in WindowNames}

SystemTypes ==
    /\ TypeOK /\ Progress
    /\ out_queue \in Seq(WindowRequests)
    /\ user_acts \in 0 .. MaxUserActs
    /\ peer_acts \in 0 .. MaxPeerActs

\* The server goes on, and its copy of the connections has all of them.
Running == /\ listening /\ active = Connections /\ replies[Me] = << >>
           /\ pc # "stopped"
           /\ pc # "sleep" => clients = Connections

\* What the window puts into its queue are requests that the server knows.
LEMMA RequestsFit ==
    ASSUME NEW m \in WindowRequests, MaxRequests \in Nat \ {0}
    PROVE  m \in Requests
<1>1. \A r \in WindowNames : r \in RoomNames
  BY SystemAssumption, NamesAssumption
<1>2. 1 \in 1 .. MaxRequests /\ \A n \in 1 .. MaxUserActs : n \in 1 .. MaxRequests
  BY SystemAssumption
<1>3. /\ "ROOM_LIST" \in RequestTypes /\ "ROOM_CREATE" \in RequestTypes
      /\ "ROOM_JOIN" \in RequestTypes /\ "ROOM_DESTROY" \in RequestTypes
      /\ "ROOM_HISTORY" \in RequestTypes /\ "CHAT_SEND" \in RequestTypes
      /\ HistoryCount \in EventCounts
  BY SystemAssumption
<1>4. CASE m = room_list_request
  <2>1. m \in Request(1)
    BY <1>3, <1>4 DEF Request, room_list_request
  <2>. QED  BY <1>2, <2>1 DEF Requests
<1>5. ASSUME NEW r \in WindowNames,
             m \in {create_room_create(r), create_room_destroy(r), create_room_join(r),
                    create_room_history(r, HistoryCount)}
      PROVE  m \in Requests
  <2>1. m \in Request(1)
    BY <1>1, <1>3, <1>5 DEF Request, create_room_create, create_room_destroy, create_room_join,
                            create_room_history
  <2>. QED  BY <1>2, <2>1 DEF Requests
<1>6. ASSUME NEW r \in WindowNames, NEW n \in 1 .. MaxUserActs, m = create_chat_send(r, n)
      PROVE  m \in Requests
  <2>1. m \in Request(n)
    BY <1>1, <1>3, <1>6 DEF Request, create_chat_send
  <2>. QED  BY <1>2, <2>1 DEF Requests
<1>. QED  BY <1>4, <1>5, <1>6 DEF WindowRequests, UserRequests

\* A request that arrives keeps the server's types.
LEMMA ReceivingTypes ==
    ASSUME TypeOK, NEW c \in Connections, NEW m, QueueRequest(c, m),
           MaxRequests \in Nat \ {0} => m \in Requests
    PROVE  TypeOK'
<1>1. requests < MaxRequests /\ requests' = requests + 1 /\ requests \in 0 .. MaxRequests
  BY DEF QueueRequest, Received, TypeOK, TaskTypes
<1>2. requests' \in 0 .. MaxRequests /\ m \in Requests
  BY <1>1, BoundsAssumption
<1>3. messages_in' \in [Connections -> Seq(Requests)]
  <2>1. messages_in[c] \in Seq(Requests) /\ messages_in \in [Connections -> Seq(Requests)]
    BY DEF TypeOK, QueueTypes
  <2>2. Append(messages_in[c], m) \in Seq(Requests)
    BY <1>2, <2>1
  <2>. QED  BY <2>1, <2>2 DEF QueueRequest
<1>4. UNCHANGED <<netVars, worker, user, sent, replies, messages_out, batchVars, roomVars>>
  BY DEF QueueRequest, Received, serverSide
<1>. QED  BY <1>2, <1>3, <1>4 DEF TypeOK, netVars, batchVars, roomVars, NetTypes, TaskTypes,
                QueueTypes, BatchTypes, RoomTypes, Accepted, rooms

LEMMA UnchangedTypes == ASSUME TypeOK, UNCHANGED vars PROVE TypeOK'
BY DEF TypeOK, vars, netVars, taskVars, batchVars, roomVars, NetTypes, TaskTypes,
       QueueTypes, BatchTypes, RoomTypes, Accepted, rooms

\* The window's queue keeps its type.
LEMMA AskingTypes ==
    ASSUME out_queue \in Seq(WindowRequests),
           \/ out_queue' = out_queue
           \/ \E r \in WindowNames : out_queue' = out_queue \o Asks(r)
           \/ \E m \in UserRequests : out_queue' = Append(out_queue, m)
           \/ out_queue # << >> /\ out_queue' = Tail(out_queue)
    PROVE  out_queue' \in Seq(WindowRequests)
<1>1. ASSUME NEW r \in WindowNames PROVE Asks(r) \in Seq(WindowRequests)
  <2>1. create_room_join(r) \in WindowRequests /\ create_room_history(r, HistoryCount) \in WindowRequests
    BY DEF WindowRequests
  <2>. QED  BY <2>1 DEF Asks
<1>2. \A m \in UserRequests : m \in WindowRequests
  BY DEF WindowRequests
<1>3. \A s \in Seq(WindowRequests) : out_queue \o s \in Seq(WindowRequests)
  OBVIOUS
<1>4. \A m \in WindowRequests : Append(out_queue, m) \in Seq(WindowRequests)
  OBVIOUS
<1>5. out_queue # << >> => Tail(out_queue) \in Seq(WindowRequests)
  OBVIOUS
<1>. QED  BY <1>1, <1>2, <1>3, <1>4, <1>5

LEMMA SystemStartsTyped ==
    ASSUME SystemInit
    PROVE  SystemTypes /\ Running /\ DoomedAreGathered
<1>1. Me \in Connections
  BY SystemAssumption
<1>2. TypeOK
  <2>1. << >> \in Seq(Events) /\ << >> \in Seq(ServerMessages) /\ << >> \in Seq(Requests)
        /\ <<create_ack>> \in Seq(ServerMessages)
    BY MessagesTyped
  <2>2. NetTypes /\ TaskTypes /\ QueueTypes
    BY <2>1, BoundsAssumption DEF SystemInit, NetTypes, TaskTypes, QueueTypes, Accepted, Connections
  <2>3. rooms = InitialRooms \cap ValidNames /\ NewRoom \in ServerRooms
    BY <2>1 DEF SystemInit, rooms, NewRoom, ServerRooms
  <2>4. RoomTypes
    BY <2>3 DEF SystemInit, RoomTypes
  <2>5. BatchTypes
    BY DEF SystemInit, BatchTypes
  <2>. QED  BY <2>2, <2>4, <2>5 DEF TypeOK
<1>3. out_queue \in Seq(WindowRequests)
  <2>1. room_list_request \in WindowRequests
    BY DEF WindowRequests
  <2>2. out_queue = <<room_list_request>>
    BY WindowStartsConsistent DEF SystemInit
  <2>. QED  BY <2>1, <2>2
<1>4. Progress
  BY <1>1 DEF SystemInit, Progress
<1>5. DoomedAreGathered
  BY DEF SystemInit, DoomedAreGathered, Elements, rooms, NewRoom
<1>. QED  BY <1>1, <1>2, <1>3, <1>4, <1>5, SystemAssumption DEF SystemInit, SystemTypes, Running

\* The server's own steps leave the links and the client workers but for what is sent.
LEMMA ServingRuns ==
    ASSUME TypeOK, Running, ServerWorker \/ SendQueued(Me)
    PROVE  TypeOK' /\ Running'
<1>1. Me \in Connections
  BY SystemAssumption
<1>2. CASE SendQueued(Me)
  <2>1. TypeOK'
    BY <1>1, <1>2, TaskStepTypes DEF ClientTask
  <2>2. Running'
    BY <1>1, <1>2 DEF Running, SendQueued, netVars, serverSide, batchVars, TypeOK, TaskTypes
  <2>. QED  BY <2>1, <2>2
<1>3. CASE ServerWorker
  <2>1. TypeOK'
    BY <1>3, HandlerTypes, BatchStepTypes DEF ServerWorker
  <2>2. UNCHANGED <<listening, active, replies>>
    BY <1>3 DEF ServerWorker, StartBatch, StopServing, NextClient, Handle, HandleRoomList,
          HandleRoomCreate, HandleRoomJoin, HandleRoomDestroy, HandleRoomHistory,
          HandleChatSend, HandleOther, Pop, Announce, Echo, CleanUp, clientSide, netVars, taskVars
  <2>3. pc' # "stopped" /\ (pc' # "sleep" => clients' = Connections)
    <3>1. CASE StartBatch
      BY <3>1 DEF StartBatch, Running
    <3>2. CASE StopServing
      BY <3>2 DEF StopServing, Running
    <3>3. CASE CleanUp
      BY <3>3 DEF CleanUp
    <3>4. CASE Announce
      BY <3>4 DEF Announce, Running
    <3>5. CASE \E r \in rooms : Echo(r)
      BY <3>5 DEF Echo, Running
    <3>6. CASE \E c \in Connections : NextClient(c) \/ Handle(c)
      BY <3>6 DEF NextClient, Handle, HandleRoomList, HandleRoomCreate, HandleRoomJoin,
            HandleRoomDestroy, HandleRoomHistory, HandleChatSend, HandleOther, Pop, Running,
            Gathering
    <3>. QED  BY <1>3, <3>1, <3>2, <3>3, <3>4, <3>5, <3>6 DEF ServerWorker
  <2>. QED  BY <2>1, <2>2, <2>3 DEF Running
<1>. QED  BY <1>2, <1>3

LEMMA SystemStaysTyped ==
    ASSUME SystemTypes, Running, DoomedAreGathered, WindowIsConsistent, [SystemNext]_system
    PROVE  SystemTypes' /\ Running' /\ DoomedAreGathered'
<1>1. /\ Me \in Connections /\ MaxRequests \in Nat
      /\ MaxUserActs \in Nat /\ MaxPeerActs \in Nat /\ MaxUserActs + MaxPeerActs <= MaxRequests
  BY SystemAssumption, BoundsAssumption
<1>2. /\ TypeOK /\ Progress /\ out_queue \in Seq(WindowRequests)
      /\ user_acts \in 0 .. MaxUserActs /\ peer_acts \in 0 .. MaxPeerActs
  BY DEF SystemTypes
<1>3. ASSUME UNCHANGED vars
      PROVE  TypeOK' /\ Running' /\ DoomedAreGathered'
  <2>1. Running' /\ DoomedAreGathered'
    BY <1>3 DEF vars, netVars, taskVars, batchVars, roomVars, Running, DoomedAreGathered, rooms
  <2>. QED  BY <1>2, <1>3, <2>1, UnchangedTypes
<1>4. ASSUME NEW c \in Connections, NEW m, QueueRequest(c, m)
      PROVE  Running' /\ DoomedAreGathered' /\ sent' = sent
  BY <1>4 DEF QueueRequest, Received, netVars, serverSide, batchVars, roomVars, Running,
              DoomedAreGathered, rooms
<1>5. CASE ProcessNext
  <2>1. UNCHANGED <<vars, user_acts, peer_acts>> /\ Process(sent[Me][seen + 1])
        /\ seen' = seen + 1 /\ seen < Len(sent[Me])
    BY <1>5 DEF ProcessNext
  <2>2. out_queue' \in Seq(WindowRequests)
    BY <1>2, <2>1, ProcessSettles, AskingTypes DEF AsksForJoins
  <2>3. Progress'
    <3>1. sent' = sent
      BY <2>1 DEF vars, taskVars
    <3>2. Len(sent[Me]) \in Nat
      BY <1>1, <1>2 DEF TypeOK, TaskTypes
    <3>. QED  BY <1>2, <2>1, <3>1, <3>2 DEF Progress
  <2>. QED  BY <1>2, <1>3, <2>1, <2>2, <2>3 DEF SystemTypes
<1>6. CASE Carry
  <2>1. out_queue # << >> /\ out_queue' = Tail(out_queue) /\ QueueRequest(Me, Head(out_queue))
        /\ UNCHANGED <<window, seen, user_acts, peer_acts>>
    BY <1>6 DEF Carry
  <2>2. Head(out_queue) \in WindowRequests
    BY <1>2, <2>1
  <2>3. TypeOK'
    BY <1>1, <1>2, <2>1, <2>2, RequestsFit, ReceivingTypes
  <2>4. out_queue' \in Seq(WindowRequests)
    BY <1>2, <2>1, AskingTypes
  <2>. QED  BY <1>1, <1>2, <1>4, <2>1, <2>3, <2>4 DEF SystemTypes, Progress
<1>7. CASE UserActs
  <2>1. UNCHANGED <<vars, seen, peer_acts>> /\ user_acts < MaxUserActs /\ user_acts' = user_acts + 1
    BY <1>7 DEF UserActs
  <2>2. out_queue' \in Seq(WindowRequests)
    BY <1>2, <1>7, UserSettles, AskingTypes DEF Settles
  <2>3. Progress' /\ user_acts' \in 0 .. MaxUserActs
    BY <1>1, <1>2, <2>1 DEF Progress, vars, taskVars
  <2>. QED  BY <1>2, <1>3, <2>1, <2>2, <2>3 DEF SystemTypes
<1>8. CASE PeerActs
  <2>1. UNCHANGED <<windowVars, seen, user_acts>>
        /\ peer_acts < MaxPeerActs /\ peer_acts' = peer_acts + 1
    BY <1>8 DEF PeerActs
  <2>2. PICK c \in Connections, m \in Request(MaxUserActs + peer_acts + 1) : QueueRequest(c, m)
    BY <1>8 DEF PeerActs
  <2>3. MaxUserActs + peer_acts + 1 \in 1 .. MaxRequests
    BY <1>1, <1>2, <2>1
  <2>4. m \in Requests
    BY <2>3 DEF Requests
  <2>5. TypeOK'
    BY <1>2, <2>2, <2>4, ReceivingTypes
  <2>6. Running' /\ DoomedAreGathered' /\ sent' = sent
    BY <1>4, <2>2
  <2>7. peer_acts' \in 0 .. MaxPeerActs
    BY <1>1, <1>2, <2>1
  <2>. QED  BY <1>2, <2>1, <2>5, <2>6, <2>7 DEF SystemTypes, Progress, windowVars
<1>9. CASE Serve
  <2>1. UNCHANGED <<windowVars, seen, user_acts, peer_acts>> /\ (ServerWorker \/ SendQueued(Me))
    BY <1>9 DEF Serve
  <2>2. TypeOK' /\ Running'
    BY <1>2, <2>1, ServingRuns
  <2>3. DoomedAreGathered'
    <3>1. [Next]_vars
      BY <1>1, <2>1 DEF Next, ClientTask
    <3>. QED  BY <1>2, <3>1, DoomedStayGathered
  <2>4. Progress'
    <3>1. CASE ServerWorker
      <4>1. sent' = sent
        BY <3>1 DEF ServerWorker, StartBatch, StopServing, NextClient, Handle, HandleRoomList,
          HandleRoomCreate, HandleRoomJoin, HandleRoomDestroy, HandleRoomHistory,
          HandleChatSend, HandleOther, Pop, Announce, Echo, CleanUp, clientSide, taskVars
      <4>. QED  BY <1>2, <2>1, <4>1 DEF Progress
    <3>2. CASE SendQueued(Me)
      <4>1. /\ sent[Me] \in Seq(ServerMessages) /\ replies[Me] \in Seq(ServerMessages)
            /\ messages_out[Me] \in Seq(ServerMessages) /\ DOMAIN sent = Connections
        BY <1>1, <1>2 DEF TypeOK, TaskTypes, QueueTypes
      <4>2. sent'[Me] = sent[Me] \o replies[Me] \o messages_out[Me]
        BY <1>1, <3>2, <4>1 DEF SendQueued
      <4>3. \A a, b, d \in Seq(ServerMessages) :
               Len(a \o b \o d) >= Len(a) /\ Len(a \o b \o d) \in Nat /\ Len(a) \in Nat
        OBVIOUS
      <4>4. Len(sent'[Me]) >= Len(sent[Me]) /\ Len(sent'[Me]) \in Nat /\ Len(sent[Me]) \in Nat
        BY <4>1, <4>2, <4>3
      <4>. QED  BY <1>2, <2>1, <4>4 DEF Progress
    <3>. QED  BY <2>1, <3>1, <3>2
  <2>. QED  BY <1>2, <2>1, <2>2, <2>3, <2>4 DEF SystemTypes, windowVars
<1>10. CASE UNCHANGED system
  <2>1. UNCHANGED <<vars, out_queue, seen, user_acts, peer_acts>>
    BY <1>10 DEF system, windowVars
  <2>2. Progress'
    BY <1>2, <2>1 DEF Progress, vars, taskVars
  <2>. QED  BY <1>2, <1>3, <2>1, <2>2 DEF SystemTypes
<1>. QED  BY <1>5, <1>6, <1>7, <1>8, <1>9, <1>10 DEF SystemNext

-----------------------------------------------------------------------------
(***************************************************************************)
(* Every step leaves the window to be told the truth.                      *)
(***************************************************************************)
\* What a connection's queue and the list of requested rooms lose when a request is taken.
LEMMA HeadTaken ==
    ASSUME TypeOK, NEW c \in Connections, NEW type, Pop(c, type), out_queue' = out_queue
    PROVE  /\ c # Me => Requested' = Requested
           /\ Requested \subseteq Requested' \cup {Head(messages_in[c])}
           /\ Head(messages_in[c]).type = type /\ pc = "gather" /\ pc' = pc
<1>1. /\ messages_in[c] \in Seq(Requests) /\ messages_in[c] # << >>
      /\ DOMAIN messages_in = Connections
      /\ messages_in' = [messages_in EXCEPT ![c] = Tail(@)]
      /\ Head(messages_in[c]).type = type /\ pc = "gather" /\ pc' = pc
  BY DEF Pop, Gathering, TypeOK, QueueTypes
<1>2. Me \in Connections
  BY SystemAssumption
<1>3. c # Me => messages_in'[Me] = messages_in[Me]
  BY <1>1, <1>2
<1>4. CASE c = Me
  <2>1. messages_in'[Me] = Tail(messages_in[Me])
    BY <1>1, <1>2, <1>4
  <2>2. Elements(messages_in[c]) \subseteq Elements(Tail(messages_in[c])) \cup {Head(messages_in[c])}
    BY <1>1, HeadAndTail
  <2>. QED  BY <1>1, <1>4, <2>1, <2>2 DEF Requested
<1>. QED  BY <1>1, <1>3, <1>4 DEF Requested

\* A step of the server that answers no request to join and no request for the list.
LEMMA KeepsTold ==
    ASSUME Told, TypeOK, Progress, WindowIsConsistent, window' = window, seen' = seen,
           NEW t \in Seq(ServerMessages), Stream(Me)' = Stream(Me) \o t,
           NEW h, Requested \subseteq Requested' \cup {h}, h # room_list_request,
           \A r : h # create_room_join(r),
           \A r \in WindowNames : ToldOf(r) => ToldOf(r)',
           \A r \in rooms : room[r].joined[Me] > 0
              => (r \in rooms' /\ room'[r].joined[Me] > 0) \/ Asked \/ ~WillShow(r)
    PROVE  Told'
<1>1. Asked => Asked'
  BY DEF Asked
<1>2. Unseen \subseteq Unseen'
  BY UnseenGrows
<1>3. ListUnseen => ListUnseen'
  BY <1>2 DEF ListUnseen
<1>4. ListComes'
  <2>1. UpToDate(window)' <=> UpToDate(window)
    BY DEF UpToDate, ShowsJoined, Joined, names
  <2>. QED  BY <1>1, <1>3, <2>1 DEF Told, ListComes
<1>5. ASSUME NEW r \in JoinsOf(window)
      PROVE  MemberOf(r)'
  <2>1. MemberOf(r)
    BY DEF Told
  <2>2. CASE r \in rooms /\ room[r].joined[Me] > 0 /\ ~WillShow(r)
    <3>1. ListUnseen \/ create_room_destroy(r) \in Unseen
      BY <2>2, DenialUnseen
    <3>. QED  BY <1>2, <1>3, <3>1 DEF MemberOf
  <2>. QED  BY <1>1, <1>2, <1>3, <2>1, <2>2 DEF MemberOf
<1>6. JoinsOf(window') = JoinsOf(window)
  BY DEF JoinsOf
<1>. QED  BY <1>4, <1>5, <1>6 DEF Told

\* The same for a step that leaves the stream.
LEMMA KeepsToldOnly ==
    ASSUME Told, TypeOK, Progress, WindowIsConsistent, UNCHANGED <<windowVars, seen>>,
           Stream(Me)' = Stream(Me),
           NEW h, Requested \subseteq Requested' \cup {h}, h # room_list_request,
           \A r : h # create_room_join(r),
           \A r \in WindowNames : ToldOf(r) => ToldOf(r)',
           \A r \in rooms : room[r].joined[Me] > 0
              => (r \in rooms' /\ room'[r].joined[Me] > 0) \/ Asked \/ ~WillShow(r)
    PROVE  Told'
<1>1. Stream(Me) \in Seq(ServerMessages)
  BY StreamTyped
<1>2. << >> \in Seq(ServerMessages) /\ Stream(Me)' = Stream(Me) \o << >>
  BY <1>1
<1>3. window' = window /\ seen' = seen
  BY DEF windowVars
<1>. QED  BY <1>2, <1>3, KeepsTold

\* The same for a step that takes no request either.
LEMMA StillTold ==
    ASSUME Told, TypeOK, Progress, WindowIsConsistent, UNCHANGED <<windowVars, seen, messages_in>>,
           Stream(Me)' = Stream(Me),
           \A r \in WindowNames : ToldOf(r) => ToldOf(r)',
           \A r \in rooms : room[r].joined[Me] > 0
              => (r \in rooms' /\ room'[r].joined[Me] > 0) \/ Asked \/ ~WillShow(r)
    PROVE  Told'
<1>1. Requested' = Requested
  BY DEF Requested, windowVars
<1>2. create_ack # room_list_request /\ \A r : create_ack # create_room_join(r)
  BY DEF create_ack, room_list_request, create_room_join
<1>. QED  BY <1>1, <1>2, KeepsToldOnly

LEMMA StartKeepsTold ==
    ASSUME Told, TypeOK, Progress, WindowIsConsistent, DoomedAreGathered,
           UNCHANGED <<windowVars, seen>>, StartBatch
    PROVE  Told'
<1>1. /\ pc = "sleep" /\ pc' = "gather" /\ new_rooms' = << >> /\ destroyed_rooms' = << >>
      /\ UNCHANGED <<clientSide, messages_in, messages_out, roomVars>>
  BY DEF StartBatch
<1>2. destroyed_rooms = << >> /\ Elements(<< >>) = {}
  BY <1>1 DEF DoomedAreGathered, Elements
<1>3. Stream(Me)' = Stream(Me) /\ rooms' = rooms /\ room' = room
  BY <1>1 DEF Stream, clientSide, taskVars, roomVars, rooms
<1>4. Asked' <=> Asked
  BY <1>1 DEF Asked, Requested, windowVars
<1>5. \A r : WillShow(r)' <=> WillShow(r)
  BY <1>3 DEF WillShow, windowVars
<1>6. \A r \in WindowNames : ToldOf(r) => ToldOf(r)'
  BY <1>1, <1>2, <1>3, <1>4, <1>5 DEF ToldOf
<1>. QED  BY <1>1, <1>3, <1>6, StillTold

LEMMA CleanUpKeepsTold ==
    ASSUME Told, TypeOK, Progress, WindowIsConsistent, DoomedAreGathered,
           UNCHANGED <<windowVars, seen>>, CleanUp
    PROVE  Told'
<1>1. /\ pc = "echo" /\ pc' = "sleep" /\ destroyed_rooms' = << >>
      /\ room' = Without(room, {r \in rooms : room[r].destroy_requested})
      /\ UNCHANGED <<clientSide, messages_in, messages_out>>
  BY DEF CleanUp
<1>2. {r \in rooms : room[r].destroy_requested} = Elements(destroyed_rooms)
  BY DEF DoomedAreGathered
<1>3. rooms' = rooms \ Elements(destroyed_rooms) /\ \A r \in rooms' : room'[r] = room[r]
  BY <1>1, <1>2 DEF Without, rooms
<1>4. Stream(Me)' = Stream(Me)
  BY <1>1 DEF Stream, clientSide, taskVars
<1>5. Asked' <=> Asked
  BY <1>1 DEF Asked, Requested, windowVars
<1>6. \A r : WillShow(r)' <=> WillShow(r)
  BY <1>4 DEF WillShow, windowVars
<1>7. Elements(<< >>) = {}
  BY DEF Elements
<1>8. \A r \in WindowNames : ToldOf(r) => ToldOf(r)'
  BY <1>1, <1>3, <1>5, <1>6, <1>7 DEF ToldOf
<1>9. rooms \subseteq WindowNames
  BY SystemAssumption DEF TypeOK, RoomTypes
<1>10. \A r \in rooms : r \in Elements(destroyed_rooms) => Asked \/ ~WillShow(r)
  BY <1>1, <1>9 DEF Told, ToldOf
<1>11. \A r \in rooms : room[r].joined[Me] > 0
          => (r \in rooms' /\ room'[r].joined[Me] > 0) \/ Asked \/ ~WillShow(r)
  BY <1>3, <1>10
<1>. QED  BY <1>1, <1>4, <1>8, <1>11, StillTold

\* A room is created: it is to be announced, or it existed before.
LEMMA CreateKeepsTold ==
    ASSUME Told, TypeOK, Progress, WindowIsConsistent, UNCHANGED <<windowVars, seen>>,
           NEW c \in Connections, HandleRoomCreate(c)
    PROVE  Told'
<1>. DEFINE h == Head(messages_in[c])
<1>1. /\ Pop(c, "ROOM_CREATE")
      /\ UNCHANGED <<messages_out, destroyed_rooms>>
      /\ \/ /\ h.room \in ValidNames \ rooms
            /\ room' = With(room, h.room, [NewRoom EXCEPT !.joined[c] = 1])
            /\ new_rooms' = Append(new_rooms, h.room)
         \/ UNCHANGED <<room, new_rooms>>
  BY DEF HandleRoomCreate
<1>2. /\ Requested \subseteq Requested' \cup {h} /\ h.type = "ROOM_CREATE"
      /\ pc = "gather" /\ pc' = pc
  BY <1>1, HeadTaken DEF windowVars
<1>3. h # room_list_request /\ \A r : h # create_room_join(r)
  BY <1>2 DEF room_list_request, create_room_join
<1>4. Stream(Me)' = Stream(Me)
  BY <1>1 DEF Stream, Pop, clientSide, taskVars
<1>5. Asked => Asked'
  BY <1>2, <1>3 DEF Asked
<1>6. \A r : WillShow(r)' <=> WillShow(r)
  BY <1>4 DEF WillShow, windowVars
<1>7. new_rooms \in Seq(rooms) /\ \A r \in Elements(destroyed_rooms) : r \in rooms
  BY DEF TypeOK, BatchTypes, Elements
<1>8. CASE UNCHANGED <<room, new_rooms>>
  <2>1. \A r \in WindowNames : ToldOf(r) => ToldOf(r)'
    BY <1>1, <1>2, <1>5, <1>6, <1>8 DEF ToldOf, rooms
  <2>2. \A r \in rooms : room[r].joined[Me] > 0 => r \in rooms' /\ room'[r].joined[Me] > 0
    BY <1>8 DEF rooms
  <2>. QED  BY <1>2, <1>3, <1>4, <2>1, <2>2, KeepsToldOnly
<1>9. ASSUME NEW q \in ValidNames, q = h.room, q \notin rooms,
             room' = With(room, q, [NewRoom EXCEPT !.joined[c] = 1]),
             new_rooms' = Append(new_rooms, q)
      PROVE  Told'
  <2>1. rooms' = rooms \cup {q} /\ \A r \in rooms : room'[r] = room[r]
    BY <1>9 DEF With, rooms
  <2>2. Elements(new_rooms') = Elements(new_rooms) \cup {q}
    <3>1. new_rooms \in Seq(ValidNames)
      <4>1. rooms \subseteq ValidNames
        BY DEF TypeOK, RoomTypes
      <4>. QED  BY <1>7, <4>1, SeqWidens
    <3>. QED  BY <1>9, <3>1, AppendElements
  <2>3. \A r \in WindowNames : ToldOf(r) => ToldOf(r)'
    <3>. SUFFICES ASSUME NEW r \in WindowNames, ToldOf(r) PROVE ToldOf(r)'
      OBVIOUS
    <3>. QED  BY <1>1, <1>2, <1>5, <1>6, <2>1, <2>2 DEF ToldOf
  <2>4. \A r \in rooms : room[r].joined[Me] > 0 => r \in rooms' /\ room'[r].joined[Me] > 0
    BY <2>1
  <2>. QED  BY <1>2, <1>3, <1>4, <2>3, <2>4, KeepsToldOnly
<1>. QED  BY <1>1, <1>8, <1>9

\* A list that is sent to the window is the list of the rooms there are.
LEMMA ListKeepsTold ==
    ASSUME Told, TypeOK, Progress, UNCHANGED <<windowVars, seen>>, HandleRoomList(Me)
    PROVE  Told'
<1>. DEFINE m == create_room_list(rooms)
<1>1. /\ Pop(Me, "ROOM_LIST") /\ Reply(Me, m)
      /\ UNCHANGED <<new_rooms, destroyed_rooms, room>>
  BY DEF HandleRoomList, roomVars
<1>2. pc = "gather" /\ pc' = "gather" /\ sent' = sent
  BY <1>1 DEF Pop, Gathering, clientSide, taskVars
<1>3. /\ Me \in Connections /\ Stream(Me) \in Seq(ServerMessages)
      /\ seen \in 0 .. Len(Stream(Me))
  BY StreamTyped
<1>4. m \in ServerMessages /\ m.type = "ROOM_LIST" /\ m.rooms = rooms
  BY MessagesTyped DEF TypeOK, RoomTypes, create_room_list
<1>5. Stream(Me)' = Stream(Me) \o <<m>> /\ <<m>> \in Seq(ServerMessages)
  <2>1. messages_out'[Me] = Append(messages_out[Me], m)
    BY <1>1, <1>3 DEF Reply, TypeOK, QueueTypes
  <2>2. sent[Me] \in Seq(ServerMessages) /\ messages_out[Me] \in Seq(ServerMessages)
    BY <1>3 DEF TypeOK, TaskTypes, QueueTypes
  <2>3. Append(messages_out[Me], m) = messages_out[Me] \o <<m>> /\ <<m>> \in Seq(ServerMessages)
    BY <1>4, <2>2, AppendIsConcat
  <2>4. sent[Me] \o (messages_out[Me] \o <<m>>) = (sent[Me] \o messages_out[Me]) \o <<m>>
    BY <2>2, <2>3, ConcatAssociates
  <2>. QED  BY <1>2, <2>1, <2>3, <2>4 DEF Stream
<1>. HIDE DEF m
<1>6. ListUnseen'
  <2>1. seen' = seen /\ 1 \in DOMAIN <<m>> /\ <<m>>[1] = m
    OBVIOUS
  <2>2. m \in Unseen'
    BY <1>5, <2>1, UnseenGrows
  <2>. QED  BY <1>4, <2>2 DEF ListUnseen
<1>7. ASSUME NEW r
      PROVE  WillShow(r)' <=> r \in rooms
  <2>1. Says(m, r) <=> r \in rooms
    BY <1>4 DEF Says
  <2>2. Denies(m, r) <=> r \notin rooms
    BY <1>4 DEF Denies
  <2>3. DOMAIN <<m>> = {1} /\ <<m>>[1] = m
    OBVIOUS
  <2>4. Expected(Stream(Me) \o <<m>>, seen, Displayed(window), r)
           <=> Says(m, r) \/ (Expected(Stream(Me), seen, Displayed(window), r) /\ ~Denies(m, r))
    <3>1. Expected(Stream(Me) \o <<m>>, seen, Displayed(window), r)
             <=> \/ \E i \in DOMAIN <<m>> : /\ Says(<<m>>[i], r)
                                            /\ \A j \in DOMAIN <<m>> : j > i => ~Denies(<<m>>[j], r)
                 \/ /\ Expected(Stream(Me), seen, Displayed(window), r)
                    /\ \A j \in DOMAIN <<m>> : ~Denies(<<m>>[j], r)
      BY <1>3, <1>5, ExpectedAppends
    <3>. QED  BY <2>3, <3>1
  <2>. QED  BY <1>5, <2>1, <2>2, <2>4 DEF WillShow, windowVars
<1>8. rooms' = rooms /\ \A r \in Elements(new_rooms') : r \in rooms
  BY <1>1 DEF TypeOK, BatchTypes, rooms, Elements
<1>9. \A r \in WindowNames : ToldOf(r)'
  BY <1>2, <1>7, <1>8 DEF ToldOf
<1>. QED  BY <1>6, <1>9 DEF Told, ListComes, MemberOf

\* The announcements of a batch that has created the rooms a and destroys the rooms b.
Announced(a, b) == [i \in DOMAIN a |-> create_room_create(a[i])] \o
                   [i \in DOMAIN b |-> create_room_destroy(b[i])]

\* They name the created rooms before the destroyed ones.
LEMMA AnnouncedRooms ==
    ASSUME NEW a \in Seq(ValidNames), NEW b \in Seq(ValidNames), NEW r,
           NEW t, t = Announced(a, b)
    PROVE  /\ t \in Seq(ServerMessages)
           /\ \A i \in DOMAIN t : ~Denies(t[i], r) \/ r \in Elements(b)
           /\ r \in Elements(b) => \E j \in DOMAIN t : Denies(t[j], r)
           /\ (\E i \in DOMAIN t : /\ Says(t[i], r)
                                   /\ \A j \in DOMAIN t : j > i => ~Denies(t[j], r))
                 <=> r \in Elements(a) \ Elements(b)
<1>. DEFINE ca == [i \in DOMAIN a |-> create_room_create(a[i])]
            db == [i \in DOMAIN b |-> create_room_destroy(b[i])]
            k == Len(a)
<1>1. /\ k \in Nat /\ Len(b) \in Nat /\ DOMAIN a = 1 .. k /\ DOMAIN b = 1 .. Len(b)
      /\ \A i \in DOMAIN a : a[i] \in ValidNames
      /\ \A i \in DOMAIN b : b[i] \in ValidNames
  OBVIOUS
<1>2. /\ \A i \in DOMAIN a : create_room_create(a[i]) \in ServerMessages
      /\ \A i \in DOMAIN b : create_room_destroy(b[i]) \in ServerMessages
  BY <1>1, MessagesTyped
<1>3. /\ ca \in Seq(ServerMessages) /\ Len(ca) = k
      /\ db \in Seq(ServerMessages) /\ Len(db) = Len(b)
  BY <1>1, <1>2
<1>. HIDE DEF ca, db
<1>4. /\ ca \o db \in Seq(ServerMessages) /\ DOMAIN (ca \o db) = 1 .. k + Len(b)
      /\ \A i \in 1 .. k : (ca \o db)[i] = ca[i]
      /\ \A i \in 1 .. Len(b) : (ca \o db)[k + i] = db[i]
  <2>1. ASSUME NEW x \in Seq(ServerMessages), NEW y \in Seq(ServerMessages)
        PROVE  /\ x \o y \in Seq(ServerMessages) /\ DOMAIN (x \o y) = 1 .. Len(x) + Len(y)
               /\ \A i \in 1 .. Len(x) : (x \o y)[i] = x[i]
               /\ \A i \in 1 .. Len(y) : (x \o y)[Len(x) + i] = y[i]
    OBVIOUS
  <2>2. /\ ca \o db \in Seq(ServerMessages) /\ DOMAIN (ca \o db) = 1 .. Len(ca) + Len(db)
        /\ \A i \in 1 .. Len(ca) : (ca \o db)[i] = ca[i]
        /\ \A i \in 1 .. Len(db) : (ca \o db)[Len(ca) + i] = db[i]
    BY <1>3, <2>1
  <2>. QED  BY <1>3, <2>2
<1>5. /\ t \in Seq(ServerMessages) /\ DOMAIN t = 1 .. k + Len(b)
      /\ \A i \in DOMAIN a : t[i] = create_room_create(a[i])
      /\ \A i \in DOMAIN b : t[k + i] = create_room_destroy(b[i])
  BY <1>1, <1>4 DEF ca, db, Announced
<1>. HIDE DEF k
<1>6. \A q : /\ Says(create_room_create(q), r) <=> q = r
             /\ ~Denies(create_room_create(q), r)
             /\ Denies(create_room_destroy(q), r) <=> q = r
             /\ ~Says(create_room_destroy(q), r)
  BY DEF Says, Denies, create_room_create, create_room_destroy
<1>7. \A i \in DOMAIN t : i \in DOMAIN a \/ (i > k /\ i - k \in DOMAIN b /\ t[i] = t[k + (i - k)])
  BY <1>1, <1>5
<1>8. \A i \in DOMAIN t : Denies(t[i], r) => i > k /\ i - k \in DOMAIN b /\ b[i - k] = r
  <2>. SUFFICES ASSUME NEW i \in DOMAIN t, Denies(t[i], r)
                PROVE  i > k /\ i - k \in DOMAIN b /\ b[i - k] = r
    OBVIOUS
  <2>. QED  BY <1>5, <1>6, <1>7
<1>9. \A i \in DOMAIN t : Says(t[i], r) => i \in DOMAIN a /\ a[i] = r
  <2>. SUFFICES ASSUME NEW i \in DOMAIN t, Says(t[i], r)
                PROVE  i \in DOMAIN a /\ a[i] = r
    OBVIOUS
  <2>. QED  BY <1>5, <1>6, <1>7
<1>10. \A i \in DOMAIN t : ~Denies(t[i], r) \/ r \in Elements(b)
  BY <1>8 DEF Elements
<1>11. ASSUME NEW n \in DOMAIN b, b[n] = r
       PROVE  k + n \in DOMAIN t /\ Denies(t[k + n], r)
  BY <1>1, <1>5, <1>6, <1>11
<1>12. r \in Elements(b) => \E j \in DOMAIN t : Denies(t[j], r)
  BY <1>11 DEF Elements
<1>13. ASSUME NEW i \in DOMAIN t, Says(t[i], r), \A j \in DOMAIN t : j > i => ~Denies(t[j], r)
       PROVE  r \in Elements(a) \ Elements(b)
  <2>1. i \in DOMAIN a /\ a[i] = r
    BY <1>9, <1>13
  <2>2. ASSUME NEW n \in DOMAIN b, b[n] = r
        PROVE  FALSE
    <3>1. k + n > i
      BY <1>1, <2>1
    <3>. QED  BY <1>11, <1>13, <2>2, <3>1
  <2>. QED  BY <2>1, <2>2 DEF Elements
<1>14. ASSUME r \in Elements(a), r \notin Elements(b)
       PROVE  \E i \in DOMAIN t : /\ Says(t[i], r)
                                  /\ \A j \in DOMAIN t : j > i => ~Denies(t[j], r)
  <2>1. PICK i \in DOMAIN a : a[i] = r
    BY <1>14 DEF Elements
  <2>2. i \in DOMAIN t /\ Says(t[i], r)
    BY <1>1, <1>5, <1>6, <2>1
  <2>. QED  BY <1>10, <1>14, <2>2
<1>. QED  BY <1>5, <1>10, <1>12, <1>13, <1>14

LEMMA AnnounceKeepsTold ==
    ASSUME Told, TypeOK, Progress, WindowIsConsistent, Running,
           UNCHANGED <<windowVars, seen>>, Announce
    PROVE  Told'
<1>1. /\ pc = "gather" /\ pc' = "echo" /\ Me \in clients /\ Me \in Connections
      /\ messages_out' = [c \in Connections |->
             messages_out[c] \o (IF c \in clients THEN announcements ELSE << >>)]
      /\ UNCHANGED <<clientSide, messages_in, new_rooms, destroyed_rooms, room>>
  BY StreamTyped DEF Announce, Running, roomVars
<1>2. PICK t : t = announcements
  OBVIOUS
<1>3. new_rooms \in Seq(ValidNames) /\ destroyed_rooms \in Seq(ValidNames)
  <2>1. rooms \subseteq ValidNames /\ new_rooms \in Seq(rooms) /\ destroyed_rooms \in Seq(rooms)
    BY DEF TypeOK, RoomTypes, BatchTypes
  <2>. QED  BY <2>1, SeqWidens
<1>4. /\ t \in Seq(ServerMessages)
      /\ \A r : /\ \A i \in DOMAIN t : ~Denies(t[i], r) \/ r \in Elements(destroyed_rooms)
                /\ r \in Elements(destroyed_rooms) => \E j \in DOMAIN t : Denies(t[j], r)
                /\ (\E i \in DOMAIN t : /\ Says(t[i], r)
                                        /\ \A j \in DOMAIN t : j > i => ~Denies(t[j], r))
                      <=> r \in Elements(new_rooms) \ Elements(destroyed_rooms)
  <2>1. t = Announced(new_rooms, destroyed_rooms)
    BY <1>2 DEF announcements, Announced
  <2>2. ASSUME NEW r
        PROVE  /\ t \in Seq(ServerMessages)
               /\ \A i \in DOMAIN t : ~Denies(t[i], r) \/ r \in Elements(destroyed_rooms)
               /\ r \in Elements(destroyed_rooms) => \E j \in DOMAIN t : Denies(t[j], r)
               /\ (\E i \in DOMAIN t : /\ Says(t[i], r)
                                       /\ \A j \in DOMAIN t : j > i => ~Denies(t[j], r))
                     <=> r \in Elements(new_rooms) \ Elements(destroyed_rooms)
    BY <1>3, <2>1, AnnouncedRooms
  <2>. QED  BY <2>2
<1>5. Stream(Me)' = Stream(Me) \o t
  <2>1. messages_out'[Me] = messages_out[Me] \o t /\ sent' = sent
    BY <1>1, <1>2 DEF clientSide, taskVars
  <2>2. sent[Me] \in Seq(ServerMessages) /\ messages_out[Me] \in Seq(ServerMessages)
    BY <1>1 DEF TypeOK, TaskTypes, QueueTypes
  <2>3. sent[Me] \o (messages_out[Me] \o t) = (sent[Me] \o messages_out[Me]) \o t
    BY <1>4, <2>2, ConcatAssociates
  <2>. QED  BY <2>1, <2>3 DEF Stream
<1>6. ASSUME NEW r
      PROVE  WillShow(r)' <=> \/ r \in Elements(new_rooms) \ Elements(destroyed_rooms)
                              \/ WillShow(r) /\ r \notin Elements(destroyed_rooms)
  <2>1. Stream(Me) \in Seq(ServerMessages) /\ seen \in 0 .. Len(Stream(Me))
    BY StreamTyped
  <2>2. Expected(Stream(Me) \o t, seen, Displayed(window), r)
           <=> \/ \E i \in DOMAIN t : /\ Says(t[i], r)
                                      /\ \A j \in DOMAIN t : j > i => ~Denies(t[j], r)
               \/ WillShow(r) /\ \A j \in DOMAIN t : ~Denies(t[j], r)
    BY <1>4, <2>1, ExpectedAppends DEF WillShow
  <2>. QED  BY <1>4, <1>5, <2>2 DEF WillShow, windowVars
<1>7. Requested' = Requested /\ (Asked' <=> Asked)
  BY <1>1 DEF Requested, Asked, windowVars
<1>8. rooms' = rooms /\ \A r \in Elements(new_rooms) : r \in rooms
  BY <1>1 DEF TypeOK, BatchTypes, rooms, Elements
<1>9. \A r \in WindowNames : ToldOf(r) => ToldOf(r)'
  BY <1>1, <1>6, <1>7, <1>8 DEF ToldOf
<1>10. create_ack # room_list_request /\ \A r : create_ack # create_room_join(r)
  BY DEF create_ack, room_list_request, create_room_join
<1>11. \A r \in rooms : room[r].joined[Me] > 0 => r \in rooms' /\ room'[r].joined[Me] > 0
  BY <1>1, <1>8
<1>12. window' = window /\ seen' = seen
  BY DEF windowVars
<1>. QED  BY <1>4, <1>5, <1>7, <1>9, <1>10, <1>11, <1>12, KeepsTold

\* A message is processed.
LEMMA ProcessKeepsTold ==
    ASSUME Told, TypeOK, Progress, WindowIsConsistent, out_queue \in Seq(WindowRequests), ProcessNext
    PROVE  Told'
<1>1. /\ seen < Len(sent[Me]) /\ seen' = seen + 1 /\ Process(sent[Me][seen + 1])
      /\ UNCHANGED vars
  BY DEF ProcessNext
<1>2. /\ UNCHANGED <<room, pc, new_rooms, destroyed_rooms, messages_in>> /\ rooms' = rooms
      /\ Stream(Me)' = Stream(Me)
  BY <1>1 DEF vars, taskVars, batchVars, roomVars, Stream, rooms
<1>3. PICK m : m = sent[Me][seen + 1]
  OBVIOUS
<1>4. /\ Stream(Me) \in Seq(ServerMessages) /\ seen \in 0 .. Len(Stream(Me)) - 1
      /\ Stream(Me)[seen + 1] = m
  <2>1. /\ Len(sent[Me]) \in 0 .. Len(Stream(Me)) /\ Len(Stream(Me)) \in Nat
        /\ seen \in 0 .. Len(Stream(Me))
        /\ \A i \in 1 .. Len(sent[Me]) : Stream(Me)[i] = sent[Me][i]
        /\ Stream(Me) \in Seq(ServerMessages)
    BY StreamTyped
  <2>2. seen + 1 \in 1 .. Len(sent[Me])
    BY <1>1, <2>1
  <2>. QED  BY <1>1, <1>3, <2>1, <2>2
<1>5. /\ m.type = "ROOM_LIST" \/ UpToDate(window) => UpToDate(window')
      /\ \A r \in WindowNames :
            r \in Displayed(window') <=> Says(m, r) \/ (r \in Displayed(window) /\ ~Denies(m, r))
      /\ AsksForJoins({r \in JoinsOf(window) :
            m.type # "ROOM_LIST" /\ ~(m.type = "ROOM_DESTROY" /\ m.room = r)})
  BY <1>1, <1>3, ProcessSettles
<1>6. ASSUME NEW r \in WindowNames
      PROVE  WillShow(r)' <=> WillShow(r)
  <2>1. Expected(Stream(Me), seen + 1, Displayed(window'), r)
           <=> Expected(Stream(Me), seen, Displayed(window), r)
    BY <1>4, <1>5, ExpectedStays
  <2>2. WillShow(r)' <=> Expected(Stream(Me), seen + 1, Displayed(window'), r)
    BY <1>1, <1>2 DEF WillShow, Displayed, names
  <2>. QED  BY <2>1, <2>2 DEF WillShow
<1>7. Requested \subseteq Requested'
  <2>1. \A s, u \in Seq(WindowRequests) : Elements(s) \subseteq Elements(s \o u)
    BY ConcatElements
  <2>2. \A r \in WindowNames : Asks(r) \in Seq(WindowRequests)
    <3>1. \A r \in WindowNames : create_room_join(r) \in WindowRequests
                                 /\ create_room_history(r, HistoryCount) \in WindowRequests
      BY DEF WindowRequests
    <3>. QED  BY <3>1 DEF Asks
  <2>3. Elements(out_queue) \subseteq Elements(out_queue')
    BY <1>5, <2>1, <2>2 DEF AsksForJoins
  <2>. QED  BY <1>2, <2>3 DEF Requested
<1>8. Asked => Asked'
  BY <1>7 DEF Asked
<1>9. Unseen \subseteq Unseen' \cup {m}
  <2>1. Unseen = {Stream(Me)[i] : i \in seen + 1 .. Len(Stream(Me))}
    BY DEF Unseen
  <2>2. Unseen' = {Stream(Me)[i] : i \in seen + 1 + 1 .. Len(Stream(Me))}
    BY <1>1, <1>2 DEF Unseen
  <2>3. \A i \in seen + 1 .. Len(Stream(Me)) : i = seen + 1 \/ i \in seen + 1 + 1 .. Len(Stream(Me))
    BY <1>4
  <2>. QED  BY <1>4, <2>1, <2>2, <2>3
<1>10. ListUnseen => m.type = "ROOM_LIST" \/ ListUnseen'
  BY <1>9 DEF ListUnseen
<1>11. ListComes'
  <2>1. UpToDate(window)' <=> UpToDate(window')
    BY DEF UpToDate, ShowsJoined, Joined, names
  <2>. QED  BY <1>5, <1>8, <1>10, <2>1 DEF Told, ListComes
<1>12. \A r \in WindowNames : ToldOf(r)'
  BY <1>2, <1>6, <1>8 DEF Told, ToldOf
<1>13. ASSUME NEW r \in JoinsOf(window')
       PROVE  MemberOf(r)'
  <2>1. CASE create_room_join(r) \in Requested'
    BY <2>1 DEF MemberOf
  <2>2. CASE /\ r \in JoinsOf(window) /\ m.type # "ROOM_LIST"
             /\ ~(m.type = "ROOM_DESTROY" /\ m.room = r)
    <3>1. MemberOf(r)
      BY <2>2 DEF Told
    <3>2. m # create_room_destroy(r)
      BY <2>2 DEF create_room_destroy
    <3>. QED  BY <1>2, <1>7, <1>8, <1>9, <1>10, <2>2, <3>1, <3>2 DEF MemberOf
  <2>3. \A q \in WindowNames : out_queue' = out_queue \o Asks(q) => create_room_join(q) \in Requested'
    <3>. SUFFICES ASSUME NEW q \in WindowNames, out_queue' = out_queue \o Asks(q)
                  PROVE  create_room_join(q) \in Elements(out_queue')
      BY DEF Requested
    <3>1. Asks(q)[1] = create_room_join(q) /\ Len(Asks(q)) = 2 /\ Asks(q) \in Seq(WindowRequests)
      <4>1. create_room_join(q) \in WindowRequests
             /\ create_room_history(q, HistoryCount) \in WindowRequests
        BY DEF WindowRequests
      <4>. QED  BY <4>1 DEF Asks
    <3>2. ASSUME NEW s \in Seq(WindowRequests), NEW u \in Seq(WindowRequests)
          PROVE  \A i \in 1 .. Len(u) : /\ Len(s) + i \in DOMAIN (s \o u)
                                        /\ (s \o u)[Len(s) + i] = u[i]
      OBVIOUS
    <3>3. 1 \in 1 .. Len(Asks(q))
      BY <3>1
    <3>4. /\ Len(out_queue) + 1 \in DOMAIN out_queue'
          /\ out_queue'[Len(out_queue) + 1] = create_room_join(q)
      BY <3>1, <3>2, <3>3
    <3>. QED  BY <3>4 DEF Elements
  <2>. QED  BY <1>5, <2>1, <2>2, <2>3 DEF AsksForJoins
<1>14. JoinsOf(window)' = JoinsOf(window')
  BY DEF JoinsOf, Joined
<1>. QED  BY <1>11, <1>12, <1>13, <1>14 DEF Told

\* A step of the server that announces nothing to the window and sends it no list.
LEMMA ServedKeepsTold ==
    ASSUME Told, TypeOK, Progress, WindowIsConsistent, UNCHANGED <<windowVars, seen>>,
           ServerWorker, ~Announce, ~HandleRoomList(Me),
           pc' = pc, rooms' = rooms, new_rooms' = new_rooms,
           \/ destroyed_rooms' = destroyed_rooms
           \/ pc = "gather" /\ Elements(destroyed_rooms) \subseteq Elements(destroyed_rooms'),
           \A r \in rooms : room[r].joined[Me] > 0 => room'[r].joined[Me] > 0,
           NEW h, Requested \subseteq Requested' \cup {h}, h # room_list_request,
           \A r : h = create_room_join(r)
                     => pc = "gather" /\ (r \in rooms => room'[r].joined[Me] > 0)
    PROVE  Told'
<1>1. Me \in Connections
  BY StreamTyped
<1>2. PICK t \in Seq(ServerMessages) :
         /\ messages_out'[Me] = messages_out[Me] \o t
         /\ (\E i \in DOMAIN t : t[i].type \in {"ROOM_LIST", "ROOM_CREATE", "ROOM_DESTROY"})
               => Announce \/ HandleRoomList(Me)
  BY <1>1, ServerAppends
<1>3. Stream(Me)' = Stream(Me) \o t
  <2>1. sent' = sent
    BY ServerLeavesTasks
  <2>2. sent[Me] \in Seq(ServerMessages) /\ messages_out[Me] \in Seq(ServerMessages)
    BY <1>1 DEF TypeOK, TaskTypes, QueueTypes
  <2>3. sent[Me] \o (messages_out[Me] \o t) = (sent[Me] \o messages_out[Me]) \o t
    BY <2>2, ConcatAssociates
  <2>. QED  BY <1>2, <2>1, <2>3 DEF Stream
<1>4. \A i \in DOMAIN t : t[i].type \notin {"ROOM_LIST", "ROOM_CREATE", "ROOM_DESTROY"}
  BY <1>2
<1>5. /\ window' = window /\ names(window') = names(window) /\ JoinsOf(window') = JoinsOf(window)
      /\ (UpToDate(window) => UpToDate(window')) /\ seen' = seen
  BY DEF windowVars
<1>. QED  BY <1>3, <1>4, <1>5, SilentKeepsTold

\* A step that leaves the rooms, the batch and the stream, and takes no request.
LEMMA ElsewhereKeepsTold ==
    ASSUME Told, TypeOK, Progress, WindowIsConsistent, seen' = seen,
           names(window') = names(window), UpToDate(window) => UpToDate(window'),
           \A r \in JoinsOf(window') : r \in JoinsOf(window) \/ create_room_join(r) \in Requested',
           Stream(Me)' = Stream(Me), UNCHANGED <<pc, new_rooms, destroyed_rooms, room>>,
           Requested \subseteq Requested'
    PROVE  Told'
<1>1. Stream(Me) \in Seq(ServerMessages)
  BY StreamTyped
<1>2. << >> \in Seq(ServerMessages) /\ Stream(Me)' = Stream(Me) \o << >>
  BY <1>1
<1>3. create_ack # room_list_request /\ \A r : create_ack # create_room_join(r)
  BY DEF create_ack, room_list_request, create_room_join
<1>4. /\ rooms' = rooms /\ pc' = pc /\ new_rooms' = new_rooms /\ destroyed_rooms' = destroyed_rooms
      /\ \A r \in rooms : room[r].joined[Me] > 0 => room'[r].joined[Me] > 0
  BY DEF rooms
<1>5. PICK t \in Seq(ServerMessages) : t = << >>
  BY <1>2
<1>6. \A i \in DOMAIN t : t[i].type \notin {"ROOM_LIST", "ROOM_CREATE", "ROOM_DESTROY"}
  BY <1>5
<1>. QED  BY <1>2, <1>3, <1>4, <1>5, <1>6, SilentKeepsTold

LEMMA TaskKeepsTold ==
    ASSUME Told, TypeOK, Progress, Running, WindowIsConsistent, UNCHANGED <<windowVars, seen>>,
           SendQueued(Me)
    PROVE  Told'
<1>1. Me \in Connections
  BY StreamTyped
<1>2. /\ sent[Me] \in Seq(ServerMessages) /\ messages_out[Me] \in Seq(ServerMessages)
      /\ DOMAIN sent = Connections /\ DOMAIN messages_out = Connections
  BY <1>1 DEF TypeOK, TaskTypes, QueueTypes
<1>3. /\ sent'[Me] = sent[Me] \o << >> \o messages_out[Me] /\ messages_out'[Me] = << >>
      /\ UNCHANGED <<pc, new_rooms, destroyed_rooms, room, messages_in>>
  BY <1>1, <1>2 DEF SendQueued, Running, serverSide, batchVars, roomVars
<1>4. ASSUME NEW a \in Seq(ServerMessages), NEW b \in Seq(ServerMessages)
      PROVE  (a \o << >> \o b) \o << >> = a \o b
  OBVIOUS
<1>5. Stream(Me)' = Stream(Me)
  <2>1. (sent[Me] \o << >> \o messages_out[Me]) \o << >> = sent[Me] \o messages_out[Me]
    BY <1>2, <1>4
  <2>. QED  BY <1>3, <2>1 DEF Stream
<1>6. Requested' = Requested
  BY <1>3 DEF Requested, windowVars
<1>7. /\ seen' = seen /\ names(window') = names(window)
      /\ UpToDate(window) => UpToDate(window')
      /\ JoinsOf(window') = JoinsOf(window)
  BY DEF windowVars
<1>. QED  BY <1>3, <1>5, <1>6, <1>7, ElsewhereKeepsTold

\* A request of another client, or the window's own on its way.
LEMMA RequestKeepsTold ==
    ASSUME Told, TypeOK, Progress, WindowIsConsistent, out_queue \in Seq(WindowRequests),
           Carry \/ PeerActs
    PROVE  Told'
<1>1. Me \in Connections
  BY StreamTyped
<1>2. /\ messages_in[Me] \in Seq(Requests) /\ DOMAIN messages_in = Connections
  BY <1>1 DEF TypeOK, QueueTypes
<1>3. window' = window /\ seen' = seen
  BY DEF Carry, PeerActs, windowVars
<1>4. ASSUME NEW c \in Connections, NEW m, QueueRequest(c, m)
      PROVE  /\ UNCHANGED <<sent, messages_out, pc, new_rooms, destroyed_rooms, room>>
             /\ messages_in' = [messages_in EXCEPT ![c] = Append(@, m)]
  BY <1>4 DEF QueueRequest, Received, serverSide, batchVars, roomVars
<1>5. CASE Carry
  <2>1. out_queue # << >> /\ out_queue' = Tail(out_queue) /\ QueueRequest(Me, Head(out_queue))
    BY <1>5 DEF Carry
  <2>2. messages_in'[Me] = Append(messages_in[Me], Head(out_queue))
    BY <1>1, <1>2, <1>4, <2>1
  <2>3. Requested \subseteq Requested'
    <3>1. Elements(out_queue) \subseteq Elements(out_queue') \cup {Head(out_queue)}
      BY <2>1, HeadAndTail
    <3>2. Elements(messages_in[Me]) \cup {Head(out_queue)} \subseteq Elements(messages_in'[Me])
      <4>1. PICK S : S = Requests \cup {Head(out_queue)}
        OBVIOUS
      <4>2. messages_in[Me] \in Seq(S) /\ Head(out_queue) \in S
        BY <1>2, <4>1, SeqWidens
      <4>. QED  BY <2>2, <4>2, AppendElements
    <3>. QED  BY <3>1, <3>2 DEF Requested
  <2>4. Stream(Me)' = Stream(Me)
    BY <1>1, <1>4, <2>1 DEF Stream
  <2>. QED  BY <1>1, <1>3, <1>4, <2>1, <2>3, <2>4, ElsewhereKeepsTold
<1>6. CASE PeerActs
  <2>1. PICK c \in Connections \ {Me} :
           \E m \in Request(MaxUserActs + peer_acts + 1) : QueueRequest(c, m)
    BY <1>6 DEF PeerActs
  <2>2. PICK m : QueueRequest(c, m)
    BY <2>1
  <2>3. messages_in'[Me] = messages_in[Me]
    BY <1>1, <1>2, <1>4, <2>1, <2>2
  <2>4. out_queue' = out_queue
    BY <1>6 DEF PeerActs, windowVars
  <2>5. Requested' = Requested
    BY <2>3, <2>4 DEF Requested
  <2>6. Stream(Me)' = Stream(Me)
    BY <1>4, <2>1, <2>2 DEF Stream
  <2>. QED  BY <1>3, <1>4, <2>1, <2>2, <2>5, <2>6, ElsewhereKeepsTold
<1>. QED  BY <1>5, <1>6

LEMMA UserKeepsTold ==
    ASSUME Told, TypeOK, Progress, WindowIsConsistent, out_queue \in Seq(WindowRequests),
           user_acts \in 0 .. MaxUserActs, UserActs
    PROVE  Told'
<1>1. UNCHANGED vars /\ seen' = seen
  BY DEF UserActs
<1>2. UNCHANGED <<sent, messages_out, messages_in, pc, new_rooms, destroyed_rooms, room>>
  BY <1>1 DEF vars, taskVars, batchVars, roomVars
<1>3. Stream(Me)' = Stream(Me)
  BY <1>2 DEF Stream
<1>4. ASSUME NEW s \in Seq(WindowRequests), NEW u \in Seq(WindowRequests)
      PROVE  Elements(s) \cup Elements(u) \subseteq Elements(s \o u)
  BY ConcatElements
<1>5. ASSUME NEW r \in WindowNames
      PROVE  Asks(r) \in Seq(WindowRequests) /\ create_room_join(r) \in Elements(Asks(r))
  <2>1. create_room_join(r) \in WindowRequests /\ create_room_history(r, HistoryCount) \in WindowRequests
    BY DEF WindowRequests
  <2>2. 1 \in DOMAIN Asks(r) /\ Asks(r)[1] = create_room_join(r)
    BY <2>1 DEF Asks
  <2>. QED  BY <2>1, <2>2 DEF Asks, Elements
<1>6. CASE out_queue' = out_queue /\ window' = window
  <2>1. Requested' = Requested
    BY <1>2, <1>6 DEF Requested
  <2>. QED  BY <1>1, <1>2, <1>3, <1>6, <2>1, ElsewhereKeepsTold
<1>7. CASE Settles(window)
  <2>1. /\ names(window') = names(window) /\ (UpToDate(window) => UpToDate(window'))
        /\ \/ out_queue' = out_queue /\ JoinsOf(window') \subseteq JoinsOf(window)
           \/ \E r \in WindowNames : /\ out_queue' = out_queue \o Asks(r)
                                     /\ JoinsOf(window') \subseteq JoinsOf(window) \cup {r}
    BY <1>7 DEF Settles, UpToDate
  <2>2. CASE out_queue' = out_queue /\ JoinsOf(window') \subseteq JoinsOf(window)
    <3>1. Requested' = Requested
      BY <1>2, <2>2 DEF Requested
    <3>. QED  BY <1>1, <1>2, <1>3, <2>1, <2>2, <3>1, ElsewhereKeepsTold
  <2>3. ASSUME NEW r \in WindowNames, out_queue' = out_queue \o Asks(r),
               JoinsOf(window') \subseteq JoinsOf(window) \cup {r}
        PROVE  Told'
    <3>1. Elements(out_queue) \cup Elements(Asks(r)) \subseteq Elements(out_queue')
      BY <1>4, <1>5, <2>3
    <3>2. Requested \subseteq Requested' /\ create_room_join(r) \in Requested'
      BY <1>2, <1>5, <3>1 DEF Requested
    <3>. QED  BY <1>1, <1>2, <1>3, <2>1, <2>3, <3>2, ElsewhereKeepsTold
  <2>. QED  BY <2>1, <2>2, <2>3
<1>8. ASSUME NEW m \in UserRequests, out_queue' = Append(out_queue, m), window' = window
      PROVE  Told'
  <2>1. m \in WindowRequests
    BY DEF WindowRequests
  <2>2. out_queue' = out_queue \o <<m>> /\ <<m>> \in Seq(WindowRequests)
    BY <1>8, <2>1, AppendIsConcat
  <2>3. Elements(out_queue) \subseteq Elements(out_queue')
    BY <1>4, <2>2
  <2>4. Requested \subseteq Requested'
    BY <1>2, <2>3 DEF Requested
  <2>. QED  BY <1>1, <1>2, <1>3, <1>8, <2>4, ElsewhereKeepsTold
<1>. QED  BY <1>7, <1>8, UserSettles

\* A request that is looked at by the server, and one that is no request to join, to
\* create or for the list.
LEMMA HandleKeepsTold ==
    ASSUME Told, TypeOK, Progress, WindowIsConsistent, UNCHANGED <<windowVars, seen>>,
           NEW c \in Connections, Handle(c)
    PROVE  Told'
<1>. DEFINE h == Head(messages_in[c])
<1>1. ServerWorker
  BY DEF ServerWorker
<1>2. Me \in Connections
  BY StreamTyped
<1>3. /\ messages_in[c] \in Seq(Requests)
      /\ rooms = DOMAIN room /\ \A r \in rooms : room[r] \in ServerRooms
  BY DEF TypeOK, QueueTypes, RoomTypes, rooms
<1>4. create_ack # room_list_request /\ \A r : create_ack # create_room_join(r)
  BY DEF create_ack, room_list_request, create_room_join
<1>5. ASSUME NEW type, Pop(c, type)
      PROVE  /\ c # Me => Requested' = Requested
             /\ Requested \subseteq Requested' \cup {h} /\ h.type = type
             /\ pc = "gather" /\ pc' = pc
             /\ ~Announce /\ (type # "ROOM_LIST" => ~HandleRoomList(Me))
  <2>1. /\ c # Me => Requested' = Requested
        /\ Requested \subseteq Requested' \cup {h} /\ h.type = type /\ pc = "gather" /\ pc' = pc
    BY <1>5, HeadTaken DEF windowVars
  <2>2. ~Announce
    BY <2>1 DEF Announce
  <2>3. HandleRoomList(Me) => c = Me
    BY <1>5, SystemAssumption DEF HandleRoomList, Pop, Gathering, Connections
  <2>4. HandleRoomList(Me) => Head(messages_in[Me]).type = "ROOM_LIST"
    BY DEF HandleRoomList, Pop
  <2>. QED  BY <2>1, <2>2, <2>3, <2>4
<1>. HIDE DEF h
<1>6. CASE HandleRoomList(c)
  <2>1. CASE c = Me
    BY <1>6, <2>1, ListKeepsTold
  <2>2. CASE c # Me
    <3>1. Pop(c, "ROOM_LIST") /\ UNCHANGED <<new_rooms, destroyed_rooms, room>>
      BY <1>6 DEF HandleRoomList, roomVars
    <3>2. ~HandleRoomList(Me)
      BY <1>2, <2>2, <3>1 DEF HandleRoomList, Pop, Gathering, Connections
    <3>3. Requested' = Requested /\ pc' = pc /\ ~Announce
      BY <1>5, <2>2, <3>1
    <3>4. rooms' = rooms /\ \A r \in rooms : room[r].joined[Me] > 0 => room'[r].joined[Me] > 0
      BY <3>1 DEF rooms
    <3>. QED  BY <1>1, <1>4, <3>1, <3>2, <3>3, <3>4, ServedKeepsTold
  <2>. QED  BY <2>1, <2>2
<1>7. CASE HandleRoomCreate(c)
  BY <1>7, CreateKeepsTold
<1>8. CASE HandleRoomJoin(c)
  <2>1. /\ Pop(c, "ROOM_JOIN") /\ UNCHANGED <<new_rooms, destroyed_rooms>>
        /\ IF h.room \in rooms /\ room[h.room].joined[c] = 0
           THEN room' = [room EXCEPT ![h.room].joined[c] = 1]
           ELSE UNCHANGED room
    BY <1>8 DEF HandleRoomJoin, h
  <2>2. /\ c # Me => Requested' = Requested
        /\ Requested \subseteq Requested' \cup {h} /\ h.type = "ROOM_JOIN"
        /\ pc = "gather" /\ pc' = pc /\ ~Announce /\ ~HandleRoomList(Me)
    BY <1>5, <2>1
  <2>3. rooms' = rooms
    BY <2>1 DEF rooms
  <2>4. \A r \in rooms : room[r].joined \in [Connections -> Nat]
    BY <1>3 DEF ServerRooms
  <2>5. ASSUME NEW r \in rooms
        PROVE  /\ room[r].joined[Me] > 0 => room'[r].joined[Me] > 0
               /\ r = h.room /\ c = Me => room'[r].joined[Me] > 0
    <3>1. CASE h.room \in rooms /\ room[h.room].joined[c] = 0
      <4>1. room' = [room EXCEPT ![h.room].joined[c] = 1] /\ room[h.room] \in ServerRooms
        BY <1>3, <2>1, <3>1
      <4>2. r # h.room => room'[r] = room[r]
        BY <1>3, <4>1
      <4>3. room'[h.room].joined = [room[h.room].joined EXCEPT ![c] = 1]
        BY <1>3, <3>1, <4>1 DEF ServerRooms
      <4>4. room'[h.room].joined[c] = 1 /\ (c # Me => room'[h.room].joined[Me] = room[h.room].joined[Me])
        BY <1>2, <2>4, <3>1, <4>3
      <4>5. r = h.room /\ c = Me => room'[r].joined[Me] = 1
        BY <4>4
      <4>. QED  BY <3>1, <4>2, <4>4, <4>5
    <3>2. CASE ~(h.room \in rooms /\ room[h.room].joined[c] = 0)
      BY <1>2, <2>1, <2>4, <3>2
    <3>. QED  BY <3>1, <3>2
  <2>6. CASE c # Me
    BY <1>1, <1>4, <2>1, <2>2, <2>3, <2>5, <2>6, ServedKeepsTold
  <2>7. CASE c = Me
    <3>1. h # room_list_request
      BY <2>2 DEF room_list_request
    <3>2. \A r : h = create_room_join(r) => r = h.room
      BY DEF create_room_join
    <3>3. \A r : h = create_room_join(r)
                   => pc = "gather" /\ (r \in rooms => room'[r].joined[Me] > 0)
      BY <2>2, <2>5, <2>7, <3>2
    <3>. QED  BY <1>1, <2>1, <2>2, <2>3, <2>5, <3>1, <3>3, ServedKeepsTold
  <2>. QED  BY <2>6, <2>7
\* What the other requests leave.
<1>9. ASSUME NEW type \in {"ROOM_DESTROY", "ROOM_HISTORY", "CHAT_SEND", "HELLO"}, Pop(c, type),
             new_rooms' = new_rooms, rooms' = rooms,
             destroyed_rooms' = destroyed_rooms
                \/ Elements(destroyed_rooms) \subseteq Elements(destroyed_rooms'),
             \A r \in rooms : room'[r].joined = room[r].joined
      PROVE  Told'
  <2>1. /\ Requested \subseteq Requested' \cup {h} /\ h.type = type
        /\ pc = "gather" /\ pc' = pc /\ ~Announce /\ ~HandleRoomList(Me)
    BY <1>5, <1>9
  <2>2. h # room_list_request /\ \A r : h # create_room_join(r)
    BY <1>9, <2>1 DEF room_list_request, create_room_join
  <2>3. \A r \in rooms : room[r].joined[Me] > 0 => room'[r].joined[Me] > 0
    BY <1>9
  <2>. QED  BY <1>1, <1>9, <2>1, <2>2, <2>3, ServedKeepsTold
<1>10. CASE HandleRoomDestroy(c)
  <2>1. /\ Pop(c, "ROOM_DESTROY") /\ UNCHANGED new_rooms
        /\ \/ /\ h.room \in rooms
              /\ room' = [room EXCEPT ![h.room].destroy_requested = TRUE]
              /\ destroyed_rooms' = Append(destroyed_rooms, h.room)
           \/ UNCHANGED <<room, destroyed_rooms>>
    BY <1>10 DEF HandleRoomDestroy, h
  <2>2. CASE UNCHANGED <<room, destroyed_rooms>>
    <3>1. rooms' = rooms /\ \A r \in rooms : room'[r].joined = room[r].joined
      BY <2>2 DEF rooms
    <3>. QED  BY <1>9, <2>1, <2>2, <3>1
  <2>3. ASSUME h.room \in rooms, room' = [room EXCEPT ![h.room].destroy_requested = TRUE],
               destroyed_rooms' = Append(destroyed_rooms, h.room)
        PROVE  Told'
    <3>1. rooms' = rooms /\ \A r \in rooms : room'[r].joined = room[r].joined
      BY <1>3, <2>3 DEF rooms, ServerRooms
    <3>2. Elements(destroyed_rooms) \subseteq Elements(destroyed_rooms')
      <4>1. destroyed_rooms \in Seq(rooms)
        BY DEF TypeOK, BatchTypes
      <4>2. \A i \in DOMAIN destroyed_rooms : /\ i \in DOMAIN destroyed_rooms'
                                              /\ destroyed_rooms'[i] = destroyed_rooms[i]
        BY <2>3, <4>1
      <4>. QED  BY <4>2 DEF Elements
    <3>. QED  BY <1>9, <2>1, <3>1, <3>2
  <2>. QED  BY <2>1, <2>2, <2>3
<1>11. CASE HandleRoomHistory(c)
  <2>1. Pop(c, "ROOM_HISTORY") /\ UNCHANGED <<new_rooms, destroyed_rooms, room>>
    BY <1>11 DEF HandleRoomHistory, roomVars
  <2>2. rooms' = rooms /\ \A r \in rooms : room'[r].joined = room[r].joined
    BY <2>1 DEF rooms
  <2>. QED  BY <1>9, <2>1, <2>2
<1>12. CASE HandleChatSend(c)
  <2>1. /\ Pop(c, "CHAT_SEND") /\ UNCHANGED <<new_rooms, destroyed_rooms>>
        /\ \/ \E e : room' = [room EXCEPT ![h.room].events = Append(@, e)]
           \/ UNCHANGED room
    BY <1>12 DEF HandleChatSend, h, roomVars
  <2>2. rooms' = rooms /\ \A r \in rooms : room'[r].joined = room[r].joined
    <3>1. ASSUME NEW e, room' = [room EXCEPT ![h.room].events = Append(@, e)]
          PROVE  rooms' = rooms /\ \A r \in rooms : room'[r].joined = room[r].joined
      BY <1>3, <3>1 DEF rooms, ServerRooms
    <3>. QED  BY <2>1, <3>1 DEF rooms
  <2>. QED  BY <1>9, <2>1, <2>2
<1>13. CASE HandleOther(c)
  <2>1. Pop(c, "HELLO") /\ UNCHANGED <<new_rooms, destroyed_rooms, room>>
    BY <1>13 DEF HandleOther, roomVars
  <2>2. rooms' = rooms /\ \A r \in rooms : room'[r].joined = room[r].joined
    BY <2>1 DEF rooms
  <2>. QED  BY <1>9, <2>1, <2>2
<1>. QED  BY <1>6, <1>7, <1>8, <1>10, <1>11, <1>12, <1>13 DEF Handle

LEMMA ServerKeepsTold ==
    ASSUME Told, TypeOK, Progress, Running, DoomedAreGathered, WindowIsConsistent,
           UNCHANGED <<windowVars, seen>>, ServerWorker
    PROVE  Told'
<1>1. create_ack # room_list_request /\ \A r : create_ack # create_room_join(r)
  BY DEF create_ack, room_list_request, create_room_join
<1>2. CASE StartBatch
  BY <1>2, StartKeepsTold
<1>3. CASE StopServing
  BY <1>3 DEF StopServing, Running
<1>4. CASE Announce
  BY <1>4, AnnounceKeepsTold
<1>5. CASE CleanUp
  BY <1>5, CleanUpKeepsTold
<1>6. ASSUME NEW c \in Connections, NextClient(c)
      PROVE  Told'
  <2>1. /\ UNCHANGED <<messages_in, messages_out, pc, new_rooms, destroyed_rooms, room>>
        /\ UNCHANGED sent
    BY <1>6 DEF NextClient, clientSide, taskVars, roomVars
  <2>2. Stream(Me)' = Stream(Me) /\ Requested' = Requested
    BY <2>1 DEF Stream, Requested, windowVars
  <2>3. /\ seen' = seen /\ names(window') = names(window)
        /\ (UpToDate(window) => UpToDate(window')) /\ JoinsOf(window') = JoinsOf(window)
    BY DEF windowVars
  <2>. QED  BY <2>1, <2>2, <2>3, ElsewhereKeepsTold
<1>7. ASSUME NEW r \in rooms, Echo(r)
      PROVE  Told'
  <2>1. /\ pc = "echo" /\ UNCHANGED <<messages_in, pc, new_rooms, destroyed_rooms>>
        /\ \E joined : /\ joined = [c \in Connections |-> IF Owned(c) THEN room[r].joined[c] ELSE 0]
                       /\ room' = [room EXCEPT ![r].joined = joined, ![r].events = << >>]
    BY <1>7 DEF Echo
  <2>2. PICK joined : /\ joined = [c \in Connections |-> IF Owned(c) THEN room[r].joined[c] ELSE 0]
                      /\ room' = [room EXCEPT ![r].joined = joined, ![r].events = << >>]
    BY <2>1
  <2>3. Me \in Connections /\ Owned(Me)
    BY StreamTyped DEF Owned, Running
  <2>4. joined[Me] = room[r].joined[Me]
    BY <2>2, <2>3
  <2>5. \A q \in rooms : room[q] \in ServerRooms
    BY DEF TypeOK, RoomTypes, rooms
  <2>6. /\ rooms' = rooms
        /\ \A q \in rooms : room[q].joined[Me] > 0 => room'[q].joined[Me] > 0
    BY <2>2, <2>4, <2>5 DEF rooms, ServerRooms
  <2>7. Requested' = Requested
    BY <2>1 DEF Requested, windowVars
  <2>8. ~Announce /\ ~HandleRoomList(Me)
    BY <2>1 DEF Announce, HandleRoomList, Pop, Gathering
  <2>9. ServerWorker
    OBVIOUS
  <2>. QED  BY <1>1, <2>1, <2>6, <2>7, <2>8, <2>9, ServedKeepsTold
<1>. QED  BY <1>2, <1>3, <1>4, <1>5, <1>6, <1>7, HandleKeepsTold DEF ServerWorker

-----------------------------------------------------------------------------
(***************************************************************************)
(* The theorems about window and server.                                   *)
(***************************************************************************)
\* The inductive invariant.
SystemInvariant == SystemTypes /\ Running /\ DoomedAreGathered /\ WindowIsConsistent /\ Told

LEMMA SystemStarts == SystemInit => SystemInvariant
<1>. SUFFICES ASSUME SystemInit
              PROVE  SystemInvariant
  OBVIOUS
<1>1. SystemTypes /\ Running /\ DoomedAreGathered
  BY SystemStartsTyped
<1>2. WindowIsConsistent /\ out_queue = <<room_list_request>>
  BY WindowStartsConsistent DEF SystemInit
<1>3. Asked
  <2>1. 1 \in DOMAIN <<room_list_request>> /\ <<room_list_request>>[1] = room_list_request
    OBVIOUS
  <2>. QED  BY <1>2, <2>1 DEF Asked, Requested, Elements
<1>4. Told
  BY <1>3 DEF Told, ListComes, ToldOf, MemberOf
<1>. QED  BY <1>1, <1>2, <1>4 DEF SystemInvariant

LEMMA ToldWhereUnchanged ==
    ASSUME Told, TypeOK, Progress, WindowIsConsistent, UNCHANGED system
    PROVE  Told'
<1>1. /\ UNCHANGED <<sent, messages_out, messages_in, out_queue>>
      /\ UNCHANGED <<pc, new_rooms, destroyed_rooms, room>>
      /\ window' = window /\ seen' = seen
  BY DEF system, vars, taskVars, batchVars, roomVars, windowVars
<1>2. Stream(Me)' = Stream(Me) /\ Requested' = Requested
  BY <1>1 DEF Stream, Requested
<1>. QED  BY <1>1, <1>2, ElsewhereKeepsTold

LEMMA SystemStays == SystemInvariant /\ [SystemNext]_system => SystemInvariant'
<1>. SUFFICES ASSUME SystemInvariant, [SystemNext]_system
              PROVE  SystemInvariant'
  OBVIOUS
<1>1. SystemTypes /\ Running /\ DoomedAreGathered /\ WindowIsConsistent /\ Told
  BY DEF SystemInvariant
<1>2. /\ TypeOK /\ Progress /\ out_queue \in Seq(WindowRequests)
      /\ user_acts \in 0 .. MaxUserActs
  BY <1>1 DEF SystemTypes
<1>3. SystemTypes' /\ Running' /\ DoomedAreGathered'
  BY <1>1, SystemStaysTyped
<1>4. WindowIsConsistent'
  BY <1>1, <1>2, WindowStaysConsistent
<1>5. Told'
  <2>1. CASE ProcessNext
    BY <1>1, <1>2, <2>1, ProcessKeepsTold
  <2>2. CASE Carry \/ PeerActs
    BY <1>1, <1>2, <2>2, RequestKeepsTold
  <2>3. CASE UserActs
    BY <1>1, <1>2, <2>3, UserKeepsTold
  <2>4. CASE Serve
    <3>1. UNCHANGED <<windowVars, seen>> /\ (ServerWorker \/ SendQueued(Me))
      BY <2>4 DEF Serve
    <3>. QED  BY <1>1, <1>2, <3>1, ServerKeepsTold, TaskKeepsTold
  <2>5. CASE UNCHANGED system
    BY <1>1, <1>2, <2>5, ToldWhereUnchanged
  <2>. QED  BY <2>1, <2>2, <2>3, <2>4, <2>5 DEF SystemNext
<1>. QED  BY <1>3, <1>4, <1>5 DEF SystemInvariant

LEMMA SystemInvariantHolds == SystemSpec => []SystemInvariant
BY SystemStarts, SystemStays, PTL DEF SystemSpec

\* What the window has read of the stream to it stays as it is.
LEMMA ReadStays ==
    ASSUME TypeOK, Progress, Running, [SystemNext]_system
    PROVE  /\ \A i \in 1 .. seen : sent'[Me][i] = sent[Me][i]
           /\ seen' = seen \/ ProcessNext
<1>1. Me \in Connections /\ sent[Me] \in Seq(ServerMessages) /\ seen \in 0 .. Len(sent[Me])
  BY StreamTyped DEF TypeOK, TaskTypes, Progress
<1>2. CASE ProcessNext \/ UserActs \/ UNCHANGED system
  BY <1>2 DEF ProcessNext, UserActs, system, vars, taskVars
<1>3. CASE Carry \/ PeerActs
  BY <1>3 DEF Carry, PeerActs, QueueRequest, Received
<1>4. CASE Serve
  <2>1. CASE ServerWorker
    BY <1>4, <2>1, ServerLeavesTasks DEF Serve
  <2>2. CASE SendQueued(Me)
    <3>1. messages_out[Me] \in Seq(ServerMessages) /\ DOMAIN sent = Connections
      BY <1>1 DEF TypeOK, TaskTypes, QueueTypes
    <3>2. sent'[Me] = sent[Me] \o << >> \o messages_out[Me]
      BY <1>1, <2>2, <3>1 DEF SendQueued, Running
    <3>3. \A i \in 1 .. seen : (sent[Me] \o << >> \o messages_out[Me])[i] = sent[Me][i]
      BY <1>1, <3>1
    <3>. QED  BY <1>4, <3>2, <3>3 DEF Serve
  <2>. QED  BY <1>4, <2>1, <2>2 DEF Serve
<1>. QED  BY <1>2, <1>3, <1>4 DEF SystemNext

\* A window that has read a list is up to date, and whatever it reads or the user does
\* afterwards keeps it so.
LEMMA ListedIsUpToDate == SystemSpec => [](Listed => UpToDate(window))
<1>. DEFINE Inv == Listed => UpToDate(window)
<1>1. SystemInit => Inv
  <2>. SUFFICES ASSUME SystemInit
                PROVE  ~Listed
    OBVIOUS
  <2>1. seen = 1 /\ Me \in Connections /\ sent[Me] = <<create_ack>>
    BY SystemAssumption DEF SystemInit
  <2>. QED  BY <2>1 DEF Listed, create_ack
<1>2. SystemInvariant /\ Inv /\ [SystemNext]_system => Inv'
  <2>. SUFFICES ASSUME SystemInvariant, Inv, [SystemNext]_system, Listed'
                PROVE  UpToDate(window')
    BY DEF UpToDate, ShowsJoined, Joined, names
  <2>1. /\ TypeOK /\ Progress /\ Running /\ WindowIsConsistent
        /\ user_acts \in 0 .. MaxUserActs
    BY DEF SystemInvariant, SystemTypes
  <2>2. /\ \A i \in 1 .. seen : sent'[Me][i] = sent[Me][i]
        /\ seen' = seen \/ ProcessNext
    BY <2>1, ReadStays
  <2>3. PICK i \in 1 .. seen' : sent'[Me][i].type = "ROOM_LIST"
    BY DEF Listed
  <2>4. CASE ProcessNext
    <3>1. seen' = seen + 1 /\ sent' = sent /\ Process(sent[Me][seen + 1])
      BY <2>4 DEF ProcessNext, vars, taskVars
    <3>2. i \in 1 .. seen \/ i = seen + 1
      BY <2>1, <2>3, <3>1 DEF Progress
    <3>3. UpToDate(window) \/ sent[Me][seen + 1].type = "ROOM_LIST"
      BY <2>3, <3>1, <3>2 DEF Listed
    <3>. QED  BY <2>1, <3>1, <3>3, ProcessSettles
  <2>5. CASE ~ProcessNext
    <3>1. UpToDate(window)
      BY <2>2, <2>3, <2>5 DEF Listed
    <3>2. window' = window \/ Settles(window)
      <4>1. CASE UserActs
        BY <2>1, <4>1, UserSettles
      <4>2. CASE ~UserActs
        BY <2>5, <4>2 DEF SystemNext, Carry, PeerActs, Serve, system, windowVars
      <4>. QED  BY <4>1, <4>2
    <3>. QED  BY <3>1, <3>2 DEF Settles, UpToDate
  <2>. QED  BY <2>4, <2>5
<1>. QED  BY <1>1, <1>2, SystemInvariantHolds, PTL DEF SystemSpec

\* From the first list on the selected room has been joined, by whichever way it came to be
\* selected, whatever rooms were left over and whether they were joined.
THEOREM SelectionIsJoined == SystemSpec => []SelectedIsJoined
<1>1. (Listed => UpToDate(window)) => SelectedIsJoined
  BY DEF UpToDate, ShowsJoined, Joined, SelectedIsJoined, CurrentIsJoined
<1>. QED  BY <1>1, ListedIsUpToDate, PTL

\* When nothing is in flight nothing is asked for and nothing unseen.
LEMMA NothingInFlight ==
    ASSUME SystemInvariant, Quiet
    PROVE  /\ ~Asked /\ Unseen = {} /\ Requested = {}
           /\ UpToDate(window)
           /\ \A r \in WindowNames : r \in Displayed(window) <=> r \in rooms
<1>1. SystemTypes /\ Running /\ DoomedAreGathered /\ WindowIsConsistent /\ Told
  BY DEF SystemInvariant
<1>2. TypeOK /\ Progress
  BY <1>1 DEF SystemTypes
<1>3. Me \in Connections
  BY <1>2, StreamTyped
<1>4. Requested = {}
  BY <1>3 DEF Quiet, Requested, Elements
<1>5. Stream(Me) \in Seq(ServerMessages) /\ seen = Len(Stream(Me))
  <2>1. sent[Me] \in Seq(ServerMessages)
    BY <1>2, <1>3 DEF TypeOK, TaskTypes
  <2>2. Stream(Me) = sent[Me]
    BY <2>1 DEF Quiet, Stream
  <2>. QED  BY <2>1, <2>2 DEF Quiet
<1>6. Unseen = {}
  BY <1>5 DEF Unseen
<1>7. ~Asked /\ ~ListUnseen
  BY <1>4, <1>6 DEF Asked, ListUnseen
<1>8. \A r : WillShow(r) <=> r \in Displayed(window)
  <2>1. \A i \in DOMAIN Stream(Me) : ~(i > seen)
    BY <1>5
  <2>. QED  BY <2>1 DEF WillShow, Expected
<1>9. Elements(destroyed_rooms) = {} /\ pc = "sleep"
  BY <1>1 DEF DoomedAreGathered, Quiet, Elements
<1>. QED  BY <1>1, <1>4, <1>6, <1>7, <1>8, <1>9 DEF Told, ListComes, ToldOf

\* When nothing is in flight the window displays the rooms that exist, whatever was left
\* over from an earlier connection and whichever announcements overtook the list.
THEOREM DisplayShowsRooms == SystemSpec => []WindowShowsRooms
<1>1. SystemInvariant => WindowShowsRooms
  <2>. SUFFICES ASSUME SystemInvariant, Quiet
                PROVE  Elements(window.room_names) = rooms
    BY DEF WindowShowsRooms
  <2>1. rooms \subseteq WindowNames
    BY SystemAssumption DEF SystemInvariant, SystemTypes, TypeOK, RoomTypes
  <2>2. Displayed(window) \subseteq WindowNames
    <3>1. names(window) \in Seq(WindowNames)
      BY NamesOfWindow DEF SystemInvariant, WindowIsConsistent, Consistent
    <3>. QED  BY <3>1 DEF Displayed, Elements
  <2>3. Elements(window.room_names) = Displayed(window)
    BY NothingInFlight DEF Displayed, UpToDate
  <2>. QED  BY <2>1, <2>2, <2>3, NothingInFlight
<1>. QED  BY <1>1, SystemInvariantHolds, PTL

\* When nothing is in flight the server has the client as a member of the selected room,
\* although the room may have been destroyed and created again while it was asked for.
THEOREM SelectionIsMember == SystemSpec => []SelectedIsMember
<1>1. SystemInvariant => SelectedIsMember
  <2>. SUFFICES ASSUME SystemInvariant, Quiet, window.current_room_name # NoRoom
                PROVE  room[window.current_room_name].joined[Me] > 0
    BY DEF SelectedIsMember
  <2>1. Joined(window, window.current_room_name) /\ IsWindow(window)
    BY NothingInFlight DEF UpToDate, SystemInvariant, WindowIsConsistent, ShowsJoined, Consistent
  <2>2. window.current_room_name \in WindowNames
    <3>1. PICK i \in DOMAIN window.client_rooms :
             window.client_rooms[i].name = window.current_room_name
      BY <2>1 DEF Joined
    <3>2. names(window) \in Seq(WindowNames) /\ i \in DOMAIN names(window)
          /\ names(window)[i] = window.current_room_name
      BY <2>1, <3>1, NamesOfWindow
    <3>. QED  BY <3>2
  <2>3. MemberOf(window.current_room_name)
    BY <2>1, <2>2 DEF SystemInvariant, Told, JoinsOf
  <2>. QED  BY <2>3, NothingInFlight DEF MemberOf, ListUnseen
<1>. QED  BY <1>1, SystemInvariantHolds, PTL

-----------------------------------------------------------------------------
(***************************************************************************)
(* Retelling a history.                                                    *)
(***************************************************************************)
\* What SubSeq is, as a function.
LEMMA SubSeqIs ==
    ASSUME NEW D, NEW h \in Seq(D), NEW k \in 1 .. Len(h) + 1, NEW n \in k - 1 .. Len(h)
    PROVE  /\ SubSeq(h, k, n) \in Seq(D) /\ Len(SubSeq(h, k, n)) = n - k + 1
           /\ \A i \in 1 .. n - k + 1 : SubSeq(h, k, n)[i] = h[k + i - 1]
OBVIOUS

\* Sequences are equal when they are so at every place.
LEMMA SeqEqual ==
    ASSUME NEW D, NEW a \in Seq(D), NEW b \in Seq(D), Len(a) = Len(b),
           \A i \in 1 .. Len(a) : a[i] = b[i]
    PROVE  a = b
OBVIOUS

\* What Append is, as a function.
LEMMA AppendIs ==
    ASSUME NEW D, NEW s \in Seq(D), NEW e \in D
    PROVE  /\ Append(s, e) \in Seq(D) /\ Len(Append(s, e)) = Len(s) + 1 /\ Len(s) \in Nat
           /\ \A i \in 1 .. Len(s) : Append(s, e)[i] = s[i]
           /\ Append(s, e)[Len(s) + 1] = e
OBVIOUS

\* What concatenation is, as a function.
LEMMA ConcatIs ==
    ASSUME NEW D, NEW s \in Seq(D), NEW u \in Seq(D)
    PROVE  /\ s \o u \in Seq(D) /\ Len(s \o u) = Len(s) + Len(u)
           /\ Len(s) \in Nat /\ Len(u) \in Nat
           /\ \A i \in 1 .. Len(s) : (s \o u)[i] = s[i]
           /\ \A i \in 1 .. Len(u) : (s \o u)[Len(s) + i] = u[i]
OBVIOUS

\* An element appended to the second of two parts is appended to both.
LEMMA AppendConcat ==
    ASSUME NEW D, NEW s \in Seq(D), NEW u \in Seq(D), NEW e \in D
    PROVE  s \o Append(u, e) = Append(s \o u, e)
<1>1. PICK v \in Seq(D) : v = Append(u, e) /\ Len(v) = Len(u) + 1
                          /\ (\A i \in 1 .. Len(u) : v[i] = u[i]) /\ v[Len(u) + 1] = e
  BY AppendIs
<1>2. PICK w \in Seq(D) : w = s \o u /\ Len(w) = Len(s) + Len(u)
                          /\ (\A i \in 1 .. Len(s) : w[i] = s[i])
                          /\ \A i \in 1 .. Len(u) : w[Len(s) + i] = u[i]
  <2>1. /\ s \o u \in Seq(D) /\ Len(s \o u) = Len(s) + Len(u)
        /\ \A i \in 1 .. Len(s) : (s \o u)[i] = s[i]
        /\ \A i \in 1 .. Len(u) : (s \o u)[Len(s) + i] = u[i]
    BY ConcatIs
  <2>. QED  BY <2>1
<1>3. PICK x \in Seq(D) : x = s \o v /\ Len(x) = Len(s) + Len(v)
                          /\ (\A i \in 1 .. Len(s) : x[i] = s[i])
                          /\ \A i \in 1 .. Len(v) : x[Len(s) + i] = v[i]
  <2>1. /\ s \o v \in Seq(D) /\ Len(s \o v) = Len(s) + Len(v)
        /\ \A i \in 1 .. Len(s) : (s \o v)[i] = s[i]
        /\ \A i \in 1 .. Len(v) : (s \o v)[Len(s) + i] = v[i]
    BY ConcatIs
  <2>. QED  BY <2>1
<1>4. PICK y \in Seq(D) : y = Append(w, e) /\ Len(y) = Len(w) + 1
                          /\ (\A i \in 1 .. Len(w) : y[i] = w[i]) /\ y[Len(w) + 1] = e
  BY AppendIs
<1>5. Len(s) \in Nat /\ Len(u) \in Nat
  OBVIOUS
<1>6. ASSUME NEW i \in 1 .. Len(x)
      PROVE  x[i] = y[i]
  <2>1. CASE i \in 1 .. Len(s)
    BY <1>2, <1>3, <1>4, <1>5, <2>1
  <2>2. CASE i \notin 1 .. Len(s)
    <3>1. PICK j \in 1 .. Len(u) + 1 : i = Len(s) + j
      <4>1. i - Len(s) \in 1 .. Len(u) + 1 /\ i = Len(s) + (i - Len(s))
        BY <1>1, <1>3, <1>5, <2>2
      <4>. QED  BY <4>1
    <3>2. x[i] = v[j]
      BY <1>1, <1>3, <3>1
    <3>3. CASE j = Len(u) + 1
      BY <1>1, <1>2, <1>4, <1>5, <3>1, <3>2, <3>3
    <3>4. CASE j \in 1 .. Len(u)
      <4>1. Len(s) + j \in 1 .. Len(w)
        BY <1>2, <1>5, <3>4
      <4>. QED  BY <1>1, <1>2, <1>4, <3>1, <3>2, <3>4, <4>1
    <3>. QED  BY <1>5, <3>1, <3>3, <3>4
  <2>. QED  BY <2>1, <2>2
<1>7. x = y
  BY <1>1, <1>2, <1>3, <1>4, <1>5, <1>6, SeqEqual
<1>. QED  BY <1>1, <1>2, <1>3, <1>4, <1>7

\* A part that goes to the end grows with the sequence; one from the start does not.
LEMMA SubSeqAppended ==
    ASSUME NEW D, NEW h \in Seq(D), NEW e \in D, NEW k \in 1 .. Len(h) + 1
    PROVE  /\ SubSeq(Append(h, e), k, Len(Append(h, e))) = Append(SubSeq(h, k, Len(h)), e)
           /\ \A n \in 0 .. Len(h) : SubSeq(Append(h, e), 1, n) = SubSeq(h, 1, n)
<1>1. PICK g \in Seq(D) : g = Append(h, e) /\ Len(g) = Len(h) + 1
                          /\ (\A i \in 1 .. Len(h) : g[i] = h[i]) /\ g[Len(h) + 1] = e
  BY AppendIs
<1>2. Len(h) \in Nat
  OBVIOUS
<1>3. PICK a \in Seq(D) : a = SubSeq(g, k, Len(g)) /\ Len(a) = Len(g) - k + 1
                          /\ \A i \in 1 .. Len(g) - k + 1 : a[i] = g[k + i - 1]
  <2>1. k \in 1 .. Len(g) + 1 /\ Len(g) \in k - 1 .. Len(g)
    BY <1>1, <1>2
  <2>2. /\ SubSeq(g, k, Len(g)) \in Seq(D) /\ Len(SubSeq(g, k, Len(g))) = Len(g) - k + 1
        /\ \A i \in 1 .. Len(g) - k + 1 : SubSeq(g, k, Len(g))[i] = g[k + i - 1]
    BY <2>1, SubSeqIs
  <2>. QED  BY <2>2
<1>4. PICK b \in Seq(D) : b = SubSeq(h, k, Len(h)) /\ Len(b) = Len(h) - k + 1
                          /\ \A i \in 1 .. Len(h) - k + 1 : b[i] = h[k + i - 1]
  <2>1. Len(h) \in k - 1 .. Len(h)
    BY <1>2
  <2>2. /\ SubSeq(h, k, Len(h)) \in Seq(D) /\ Len(SubSeq(h, k, Len(h))) = Len(h) - k + 1
        /\ \A i \in 1 .. Len(h) - k + 1 : SubSeq(h, k, Len(h))[i] = h[k + i - 1]
    BY <2>1, SubSeqIs
  <2>. QED  BY <2>2
<1>5. PICK d \in Seq(D) : d = Append(b, e) /\ Len(d) = Len(b) + 1
                          /\ (\A i \in 1 .. Len(b) : d[i] = b[i]) /\ d[Len(b) + 1] = e
  BY AppendIs
<1>6. ASSUME NEW i \in 1 .. Len(a)
      PROVE  a[i] = d[i]
  <2>1. CASE i = Len(h) - k + 2
    <3>1. k + i - 1 = Len(h) + 1 /\ i \in 1 .. Len(g) - k + 1 /\ Len(b) + 1 = i
      BY <1>1, <1>2, <1>4, <2>1
    <3>. QED  BY <1>1, <1>3, <1>5, <3>1
  <2>2. CASE i # Len(h) - k + 2
    <3>1. /\ i \in 1 .. Len(h) - k + 1 /\ k + i - 1 \in 1 .. Len(h)
          /\ i \in 1 .. Len(g) - k + 1 /\ i \in 1 .. Len(b)
      BY <1>1, <1>2, <1>3, <1>4, <2>2
    <3>. QED  BY <1>1, <1>3, <1>4, <1>5, <3>1
  <2>. QED  BY <2>1, <2>2
<1>7. a = d
  BY <1>1, <1>2, <1>3, <1>4, <1>5, <1>6, SeqEqual
<1>8. ASSUME NEW n \in 0 .. Len(h)
      PROVE  SubSeq(g, 1, n) = SubSeq(h, 1, n)
  BY <1>1
<1>. QED  BY <1>1, <1>3, <1>4, <1>5, <1>7, <1>8

\* All events and then those from some place on retell a history.
LEMMA RetellsWhole ==
    ASSUME NEW D, NEW h \in Seq(D), NEW k \in 1 .. Len(h) + 1
    PROVE  Retells(h \o SubSeq(h, k, Len(h)), h)
<1>1. Len(h) \in 0 .. Len(h) /\ SubSeq(h, 1, Len(h)) = h
  OBVIOUS
<1>. QED  BY <1>1 DEF Retells

\* The two parts of a transcript.
Parts(p, h, n, k, a, b) ==
    /\ a = SubSeq(h, 1, n) /\ Len(a) = n
    /\ b = SubSeq(h, k, Len(h)) /\ Len(b) = Len(h) - k + 1
    /\ k \in 1 .. Len(h) + 1 /\ p = a \o b

\* The two parts of a transcript that retells a history.
LEMMA RetellsParts ==
    ASSUME NEW D, NEW h \in Seq(D), NEW p, Retells(p, h)
    PROVE  \E n \in 0 .. Len(h) : \E k \in 1 .. n + 1 : \E a \in Seq(D) : \E b \in Seq(D) :
              Parts(p, h, n, k, a, b)
<1>1. PICK n \in 0 .. Len(h) : \E k \in 1 .. n + 1 :
         p = SubSeq(h, 1, n) \o SubSeq(h, k, Len(h))
  BY DEF Retells
<1>2. PICK k \in 1 .. n + 1 : p = SubSeq(h, 1, n) \o SubSeq(h, k, Len(h))
  BY <1>1
<1>3. /\ Len(h) \in Nat /\ k \in 1 .. Len(h) + 1 /\ Len(h) \in k - 1 .. Len(h)
      /\ 1 \in 1 .. Len(h) + 1 /\ n \in 1 - 1 .. Len(h) /\ n - 1 + 1 = n
  OBVIOUS
<1>4. PICK a \in Seq(D) : a = SubSeq(h, 1, n) /\ Len(a) = n
  <2>1. SubSeq(h, 1, n) \in Seq(D) /\ Len(SubSeq(h, 1, n)) = n - 1 + 1
    BY <1>3, SubSeqIs
  <2>. QED  BY <1>3, <2>1
<1>5. PICK b \in Seq(D) : b = SubSeq(h, k, Len(h)) /\ Len(b) = Len(h) - k + 1
  <2>1. SubSeq(h, k, Len(h)) \in Seq(D) /\ Len(SubSeq(h, k, Len(h))) = Len(h) - k + 1
    BY <1>3, SubSeqIs
  <2>. QED  BY <2>1
<1>6. Parts(p, h, n, k, a, b)
  BY <1>2, <1>3, <1>4, <1>5 DEF Parts
<1>. QED  BY <1>6

\* What retells a history retells the longer one when the new event is added to both.
LEMMA RetellsMore ==
    ASSUME NEW D, NEW h \in Seq(D), NEW t \in Seq(D), NEW u \in Seq(D), NEW e \in D,
           Retells(t \o u, h)
    PROVE  Retells(t \o Append(u, e), Append(h, e))
<1>1. PICK p : p = t \o u
  OBVIOUS
<1>0. Retells(p, h)
  BY <1>1
<1>2. \E n \in 0 .. Len(h) : \E k \in 1 .. n + 1 : \E a \in Seq(D) : \E b \in Seq(D) :
         Parts(p, h, n, k, a, b)
  BY <1>0, RetellsParts
<1>3. PICK n \in 0 .. Len(h) : \E k \in 1 .. n + 1 : \E a \in Seq(D) : \E b \in Seq(D) :
         Parts(p, h, n, k, a, b)
  BY <1>2
<1>31. PICK k \in 1 .. n + 1 : \E a \in Seq(D) : \E b \in Seq(D) : Parts(p, h, n, k, a, b)
  BY <1>3
<1>4. PICK a \in Seq(D), b \in Seq(D) : Parts(p, h, n, k, a, b)
  BY <1>31
<1>5. Len(Append(h, e)) = Len(h) + 1 /\ Len(h) \in Nat /\ n \in 0 .. Len(Append(h, e))
  OBVIOUS
<1>6. t \o Append(u, e) = a \o Append(b, e)
  <2>1. t \o Append(u, e) = Append(t \o u, e)
    BY AppendConcat
  <2>2. a \o Append(b, e) = Append(a \o b, e)
    BY AppendConcat
  <2>. QED  BY <1>1, <1>4, <2>1, <2>2 DEF Parts
<1>7. /\ a = SubSeq(Append(h, e), 1, n)
      /\ Append(b, e) = SubSeq(Append(h, e), k, Len(Append(h, e)))
  BY <1>4, SubSeqAppended DEF Parts
<1>. QED  BY <1>5, <1>6, <1>7 DEF Retells

\* A transcript has every event twice at most.
LEMMA RetellsShort ==
    ASSUME NEW D, NEW h \in Seq(D), NEW t \in Seq(D), NEW u \in Seq(D), Retells(t \o u, h)
    PROVE  Len(t) + Len(u) <= 2 * Len(h)
<1>1. PICK p : p = t \o u
  OBVIOUS
<1>0. Retells(p, h)
  BY <1>1
<1>2. \E n \in 0 .. Len(h) : \E k \in 1 .. n + 1 : \E a \in Seq(D) : \E b \in Seq(D) :
         Parts(p, h, n, k, a, b)
  BY <1>0, RetellsParts
<1>3. PICK n \in 0 .. Len(h) : \E k \in 1 .. n + 1 : \E a \in Seq(D) : \E b \in Seq(D) :
         Parts(p, h, n, k, a, b)
  BY <1>2
<1>31. PICK k \in 1 .. n + 1 : \E a \in Seq(D) : \E b \in Seq(D) : Parts(p, h, n, k, a, b)
  BY <1>3
<1>4. PICK a \in Seq(D), b \in Seq(D) : Parts(p, h, n, k, a, b)
  BY <1>31
<1>5. Len(t \o u) = Len(t) + Len(u)
  BY ConcatIs
<1>8. Len(a \o b) = Len(a) + Len(b)
  BY ConcatIs
<1>6. Len(h) \in Nat /\ Len(t) \in Nat /\ Len(u) \in Nat
  OBVIOUS
<1>7. Len(t) + Len(u) = n + (Len(h) - k + 1)
  BY <1>1, <1>4, <1>5, <1>8 DEF Parts
<1>. QED  BY <1>6, <1>7

-----------------------------------------------------------------------------
(***************************************************************************)
(* What a transcript comes to when the rest of a stream is read.           *)
(***************************************************************************)
Rewrites(m, r) == m.type = "ROOM_HISTORY" /\ m.room = r
Echoes(m, r)   == m.type = "CHAT_ECHO" /\ m.room = r

\* What the transcript t of r becomes when m is processed.
AfterReading(t, m, r) ==
    IF Rewrites(m, r) THEN LastOf(m.events, TranscriptLimit)
    ELSE IF Echoes(m, r) THEN Recorded(t, m.event, TranscriptLimit)
    ELSE t

\* f says what the transcript of r is after each message of s from the n-th on.  It starts
\* as the one there is in the transcripts h when k messages are read, or at a reply to come.
Starts(s, k, h, r, n, e) ==
    IF n = k THEN r \in DOMAIN h /\ e = h[r]
             ELSE Rewrites(s[n], r) /\ e = LastOf(s[n].events, TranscriptLimit)

Follow(s, r, n, f) == \A i \in n + 1 .. Len(s) : f[i] = AfterReading(f[i - 1], s[i], r)

ComesTo(s, k, h, r, t) ==
    \E n \in k .. Len(s) : \E f \in [n .. Len(s) -> Seq(Events)] :
        Starts(s, k, h, r, n, f[n]) /\ Follow(s, r, n, f) /\ f[Len(s)] = t

\* What a transcript comes to is a sequence of events.
LEMMA ComesTyped ==
    ASSUME NEW s \in Seq(ServerMessages), NEW k \in 0 .. Len(s), NEW h, NEW r, NEW t,
           ComesTo(s, k, h, r, t)
    PROVE  t \in Seq(Events)
<1>1. PICK n \in k .. Len(s) : \E f \in [n .. Len(s) -> Seq(Events)] : f[Len(s)] = t
  BY DEF ComesTo
<1>2. Len(s) \in n .. Len(s)
  OBVIOUS
<1>. QED  BY <1>1, <1>2

\* When all is read the transcript is there.
LEMMA ComesRead ==
    ASSUME NEW s \in Seq(ServerMessages), NEW h, NEW r, NEW t, ComesTo(s, Len(s), h, r, t)
    PROVE  r \in DOMAIN h /\ h[r] = t
<1>1. PICK n \in Len(s) .. Len(s) : \E f \in [n .. Len(s) -> Seq(Events)] :
        Starts(s, Len(s), h, r, n, f[n]) /\ Follow(s, r, n, f) /\ f[Len(s)] = t
  BY DEF ComesTo
<1>2. n = Len(s)
  OBVIOUS
<1>. QED  BY <1>1, <1>2 DEF Starts

\* What is appended to the stream is read after it.
LEMMA ComesAppended ==
    ASSUME NEW s \in Seq(ServerMessages), NEW u \in Seq(ServerMessages), NEW k \in 0 .. Len(s),
           NEW h, NEW r, NEW t, ComesTo(s, k, h, r, t),
           NEW g \in [0 .. Len(u) -> Seq(Events)], g[0] = t, Follow(u, r, 0, g)
    PROVE  ComesTo(s \o u, k, h, r, g[Len(u)])
<1>1. PICK n \in k .. Len(s) : \E f \in [n .. Len(s) -> Seq(Events)] :
        Starts(s, k, h, r, n, f[n]) /\ Follow(s, r, n, f) /\ f[Len(s)] = t
  BY DEF ComesTo
<1>2. PICK f \in [n .. Len(s) -> Seq(Events)] :
        Starts(s, k, h, r, n, f[n]) /\ Follow(s, r, n, f) /\ f[Len(s)] = t
  BY <1>1
<1>3. PICK z \in Seq(ServerMessages) : /\ z = s \o u /\ Len(z) = Len(s) + Len(u)
                                       /\ \A i \in 1 .. Len(s) : z[i] = s[i]
                                       /\ \A i \in 1 .. Len(u) : z[Len(s) + i] = u[i]
  <2>1. /\ s \o u \in Seq(ServerMessages) /\ Len(s \o u) = Len(s) + Len(u)
        /\ \A i \in 1 .. Len(s) : (s \o u)[i] = s[i]
        /\ \A i \in 1 .. Len(u) : (s \o u)[Len(s) + i] = u[i]
    BY ConcatIs
  <2>. QED  BY <2>1
<1>4. /\ Len(s) \in Nat /\ Len(u) \in Nat /\ k \in Nat /\ n \in Nat /\ n <= Len(s)
      /\ n \in k .. Len(z) /\ n \in n .. Len(s) /\ Len(s) \in n .. Len(s)
  BY <1>3
<1>. DEFINE e == [i \in n .. Len(z) |-> IF i <= Len(s) THEN f[i] ELSE g[i - Len(s)]]
<1>5. ASSUME NEW i \in n .. Len(z)
      PROVE  \/ i <= Len(s) /\ i \in n .. Len(s) /\ e[i] = f[i]
             \/ i > Len(s) /\ i - Len(s) \in 1 .. Len(u) /\ e[i] = g[i - Len(s)]
  BY <1>3, <1>4
<1>6. e \in [n .. Len(z) -> Seq(Events)]
  <2>1. \A i \in n .. Len(z) : e[i] \in Seq(Events)
    <3>1. \A i \in 1 .. Len(u) : i \in 0 .. Len(u)
      OBVIOUS
    <3>2. \A i \in n .. Len(s) : f[i] \in Seq(Events)
      BY <1>2
    <3>3. \A i \in 0 .. Len(u) : g[i] \in Seq(Events)
      OBVIOUS
    <3>. HIDE DEF e
    <3>. QED  BY <1>5, <3>1, <3>2, <3>3
  <2>. QED  BY <2>1
<1>11. \A i \in n .. Len(s) : e[i] = f[i]
  BY <1>3, <1>4
<1>12. \A j \in 1 .. Len(u) : e[Len(s) + j] = g[j]
  <2>. SUFFICES ASSUME NEW j \in 1 .. Len(u)
                PROVE  e[Len(s) + j] = g[j]
    OBVIOUS
  <2>1. Len(s) + j \in n .. Len(z) /\ ~(Len(s) + j <= Len(s)) /\ Len(s) + j - Len(s) = j
    BY <1>3, <1>4
  <2>. QED  BY <2>1
<1>. HIDE DEF e
<1>7. Starts(z, k, h, r, n, e[n])
  <2>1. e[n] = f[n]
    BY <1>4, <1>11
  <2>2. n # k => n \in 1 .. Len(s) /\ z[n] = s[n]
    BY <1>3, <1>4
  <2>. QED  BY <1>2, <2>1, <2>2 DEF Starts
<1>8. Follow(z, r, n, e)
  <2>. SUFFICES ASSUME NEW i \in n + 1 .. Len(z)
                PROVE  e[i] = AfterReading(e[i - 1], z[i], r)
    BY DEF Follow
  <2>1. i \in n .. Len(z) /\ i - 1 \in n .. Len(z) /\ i \in Nat
    BY <1>3, <1>4
  <2>2. CASE i <= Len(s)
    <3>1. i - 1 <= Len(s) /\ i \in n + 1 .. Len(s) /\ i \in 1 .. Len(s)
      BY <1>4, <2>1, <2>2
    <3>2. i \in n .. Len(s) /\ i - 1 \in n .. Len(s)
      BY <1>4, <2>1, <3>1
    <3>3. e[i] = f[i] /\ e[i - 1] = f[i - 1] /\ z[i] = s[i]
      BY <1>3, <1>11, <3>1, <3>2
    <3>. QED  BY <1>2, <3>1, <3>3 DEF Follow
  <2>3. CASE i = Len(s) + 1
    <3>1. i - 1 = Len(s) /\ i - Len(s) = 1 /\ i > Len(s) /\ 1 \in 0 + 1 .. Len(u) /\ 1 - 1 = 0
      BY <1>3, <1>4, <2>1, <2>3
    <3>2. e[i - 1] = f[Len(s)] /\ e[i] = g[1] /\ z[i] = u[1]
      BY <1>3, <1>4, <1>5, <2>1, <2>3, <3>1
    <3>3. g[1] = AfterReading(g[0], u[1], r)
      BY <3>1 DEF Follow
    <3>. QED  BY <1>2, <3>2, <3>3
  <2>4. CASE i > Len(s) + 1
    <3>1. PICK j \in Nat : i = Len(s) + j
      <4>1. i - Len(s) \in Nat /\ i = Len(s) + (i - Len(s))
        BY <1>4, <2>1, <2>4
      <4>. QED  BY <4>1
    <3>2. /\ j \in 0 + 1 .. Len(u) /\ j \in 1 .. Len(u) /\ j - 1 \in 1 .. Len(u)
          /\ i - 1 = Len(s) + (j - 1)
      BY <1>3, <1>4, <2>1, <2>4, <3>1
    <3>3. e[i - 1] = g[j - 1] /\ e[i] = g[j] /\ z[i] = u[j]
      BY <1>3, <1>12, <3>1, <3>2
    <3>4. g[j] = AfterReading(g[j - 1], u[j], r)
      BY <3>2 DEF Follow
    <3>. QED  BY <3>3, <3>4
  <2>5. i <= Len(s) \/ i = Len(s) + 1 \/ i > Len(s) + 1
    BY <1>4, <2>1
  <2>. QED  BY <2>2, <2>3, <2>4, <2>5
<1>9. e[Len(z)] = g[Len(u)]
  <2>1. Len(z) \in n .. Len(z) /\ Len(z) - Len(s) = Len(u)
    BY <1>3, <1>4
  <2>2. CASE Len(u) = 0
    <3>1. Len(z) = Len(s)
      BY <1>3, <1>4, <2>2
    <3>. QED  BY <1>2, <1>4, <1>5, <2>1, <2>2, <3>1
  <2>3. CASE Len(u) # 0
    <3>1. ~(Len(z) <= Len(s))
      BY <1>3, <1>4, <2>3
    <3>. QED  BY <1>5, <2>1, <3>1
  <2>. QED  BY <2>2, <2>3
<1>10. ComesTo(z, k, h, r, g[Len(u)])
  BY <1>4, <1>6, <1>7, <1>8, <1>9 DEF ComesTo
<1>. QED  BY <1>3, <1>10

\* Messages that are no reply and no echo of the room change nothing.
LEMMA ComesSilently ==
    ASSUME NEW s \in Seq(ServerMessages), NEW u \in Seq(ServerMessages), NEW k \in 0 .. Len(s),
           NEW h, NEW r, NEW t, ComesTo(s, k, h, r, t),
           \A i \in DOMAIN u : ~Rewrites(u[i], r) /\ ~Echoes(u[i], r)
    PROVE  ComesTo(s \o u, k, h, r, t)
<1>. DEFINE g == [i \in 0 .. Len(u) |-> t]
<1>1. t \in Seq(Events)
  BY ComesTyped
<1>2. /\ g \in [0 .. Len(u) -> Seq(Events)] /\ g[0] = t /\ g[Len(u)] = t
      /\ \A i \in 0 + 1 .. Len(u) : g[i] = t /\ g[i - 1] = t /\ i \in DOMAIN u
  BY <1>1
<1>. HIDE DEF g
<1>3. Follow(u, r, 0, g)
  BY <1>2 DEF Follow, AfterReading
<1>. QED  BY <1>2, <1>3, ComesAppended

\* Echoes of the room are added, while the transcript has space.
LEMMA ComesEchoed ==
    ASSUME NEW s \in Seq(ServerMessages), NEW k \in 0 .. Len(s), NEW r \in ValidNames,
           NEW h, NEW t, ComesTo(s, k, h, r, t),
           NEW w \in Seq(Events), Len(t) + Len(w) <= TranscriptLimit
    PROVE  ComesTo(s \o EchoesOf(r, w), k, h, r, t \o w)
<1>1. PICK u \in Seq(ServerMessages) : /\ u = EchoesOf(r, w) /\ Len(u) = Len(w)
                                       /\ \A i \in 1 .. Len(w) : u[i] = create_chat_echo(r, w[i])
  <2>1. EchoesOf(r, w) \in Seq(ServerMessages) /\ Len(EchoesOf(r, w)) = Len(w)
    BY EchoesTyped
  <2>2. DOMAIN w = 1 .. Len(w)
    OBVIOUS
  <2>3. \A i \in 1 .. Len(w) : EchoesOf(r, w)[i] = create_chat_echo(r, w[i])
    BY <2>2 DEF EchoesOf
  <2>. QED  BY <2>1, <2>3
<1>2. t \in Seq(Events) /\ Len(t) \in Nat /\ Len(w) \in Nat /\ TranscriptLimit \in Nat
  BY ComesTyped, WindowAssumption
<1>. DEFINE g == [i \in 0 .. Len(w) |-> t \o SubSeq(w, 1, i)]
<1>3. ASSUME NEW i \in 0 .. Len(w)
      PROVE  /\ g[i] = t \o SubSeq(w, 1, i) /\ g[i] \in Seq(Events)
             /\ Len(g[i]) = Len(t) + i
  <2>1. i \in 1 - 1 .. Len(w) /\ 1 \in 1 .. Len(w) + 1 /\ i - 1 + 1 = i
    BY <1>2
  <2>2. SubSeq(w, 1, i) \in Seq(Events) /\ Len(SubSeq(w, 1, i)) = i - 1 + 1
    BY <2>1, SubSeqIs
  <2>3. PICK v \in Seq(Events) : v = SubSeq(w, 1, i) /\ Len(v) = i
    BY <2>1, <2>2
  <2>4. t \o v \in Seq(Events) /\ Len(t \o v) = Len(t) + Len(v)
    BY <1>2, ConcatIs
  <2>. QED  BY <2>3, <2>4
<1>4. g \in [0 .. Len(u) -> Seq(Events)]
  BY <1>1, <1>3
<1>5. SubSeq(w, 1, 0) = << >> /\ SubSeq(w, 1, Len(w)) = w
  OBVIOUS
<1>6. g[0] = t /\ g[Len(u)] = t \o w
  <2>1. 0 \in 0 .. Len(w) /\ Len(w) \in 0 .. Len(w)
    BY <1>2
  <2>2. t \o << >> = t
    BY <1>2
  <2>. QED  BY <1>1, <1>3, <1>5, <2>1, <2>2
<1>7. ASSUME NEW i \in 1 .. Len(w)
      PROVE  g[i] = Append(g[i - 1], w[i])
  <2>1. i \in 0 .. Len(w) /\ i - 1 \in 0 .. Len(w) /\ w[i] \in Events
    BY <1>2
  <2>2. SubSeq(w, 1, i) = Append(SubSeq(w, 1, i - 1), w[i])
    <3>1. PICK v \in Seq(Events) : v = SubSeq(w, 1, i - 1) /\ Len(v) = i - 1
                                   /\ \A j \in 1 .. i - 1 : v[j] = w[j]
      <4>1. i - 1 \in 1 - 1 .. Len(w) /\ 1 \in 1 .. Len(w) + 1 /\ i - 1 - 1 + 1 = i - 1
            /\ \A j \in 1 .. i - 1 : 1 + j - 1 = j
        BY <1>2
      <4>2. /\ SubSeq(w, 1, i - 1) \in Seq(Events) /\ Len(SubSeq(w, 1, i - 1)) = i - 1 - 1 + 1
            /\ \A j \in 1 .. i - 1 - 1 + 1 : SubSeq(w, 1, i - 1)[j] = w[1 + j - 1]
        BY <4>1, SubSeqIs
      <4>. QED  BY <4>1, <4>2
    <3>2. PICK x \in Seq(Events) : x = SubSeq(w, 1, i) /\ Len(x) = i
                                   /\ \A j \in 1 .. i : x[j] = w[j]
      <4>1. i \in 1 - 1 .. Len(w) /\ 1 \in 1 .. Len(w) + 1 /\ i - 1 + 1 = i
            /\ \A j \in 1 .. i : 1 + j - 1 = j
        BY <1>2
      <4>2. /\ SubSeq(w, 1, i) \in Seq(Events) /\ Len(SubSeq(w, 1, i)) = i - 1 + 1
            /\ \A j \in 1 .. i - 1 + 1 : SubSeq(w, 1, i)[j] = w[1 + j - 1]
        BY <4>1, SubSeqIs
      <4>. QED  BY <4>1, <4>2
    <3>3. PICK y \in Seq(Events) : y = Append(v, w[i]) /\ Len(y) = i
                                   /\ (\A j \in 1 .. i - 1 : y[j] = v[j]) /\ y[i] = w[i]
      <4>1. /\ Append(v, w[i]) \in Seq(Events) /\ Len(Append(v, w[i])) = Len(v) + 1
            /\ \A j \in 1 .. Len(v) : Append(v, w[i])[j] = v[j]
            /\ Append(v, w[i])[Len(v) + 1] = w[i]
        BY <2>1, AppendIs
      <4>2. i - 1 + 1 = i
        BY <1>2
      <4>. QED  BY <3>1, <4>1, <4>2
    <3>4. \A j \in 1 .. i : x[j] = y[j]
      <4>1. \A j \in 1 .. i : j = i \/ j \in 1 .. i - 1
        BY <1>2
      <4>. QED  BY <3>1, <3>2, <3>3, <4>1
    <3>5. x = y
      BY <3>2, <3>3, <3>4, SeqEqual
    <3>. QED  BY <3>1, <3>2, <3>3, <3>5
  <2>3. PICK v \in Seq(Events) : v = SubSeq(w, 1, i - 1)
    <3>1. i - 1 \in 1 - 1 .. Len(w) /\ 1 \in 1 .. Len(w) + 1
      BY <1>2
    <3>2. SubSeq(w, 1, i - 1) \in Seq(Events)
      BY <3>1, SubSeqIs
    <3>. QED  BY <3>2
  <2>4. t \o Append(v, w[i]) = Append(t \o v, w[i])
    <3>1. PICK x \in Events, p \in Seq(Events) : x = w[i] /\ p = t
      BY <1>2, <2>1
    <3>2. p \o Append(v, x) = Append(p \o v, x)
      BY AppendConcat
    <3>. QED  BY <3>1, <3>2
  <2>. QED  BY <1>3, <2>1, <2>2, <2>3, <2>4
<1>. HIDE DEF g
<1>8. Follow(u, r, 0, g)
  <2>. SUFFICES ASSUME NEW i \in 0 + 1 .. Len(u)
                PROVE  g[i] = AfterReading(g[i - 1], u[i], r)
    BY DEF Follow
  <2>1. i \in 1 .. Len(w) /\ i - 1 \in 0 .. Len(w) /\ w[i] \in Events
    BY <1>1, <1>2
  <2>2. u[i] = create_chat_echo(r, w[i])
    BY <1>1, <2>1
  <2>3. AfterReading(g[i - 1], u[i], r) = Recorded(g[i - 1], w[i], TranscriptLimit)
    BY <2>2 DEF AfterReading, Rewrites, Echoes, create_chat_echo
  <2>4. g[i - 1] \in Seq(Events) /\ Len(g[i - 1]) < TranscriptLimit
    BY <1>2, <1>3, <2>1
  <2>5. Recorded(g[i - 1], w[i], TranscriptLimit) = Append(g[i - 1], w[i])
    <3>1. PICK v \in Seq(Events), x \in Events : v = g[i - 1] /\ x = w[i]
      BY <2>1, <2>4
    <3>2. Len(v) <= TranscriptLimit /\ Len(v) < TranscriptLimit
      BY <1>2, <2>4, <3>1
    <3>3. Recorded(v, x, TranscriptLimit) = Append(v, x)
      BY <1>2, <3>2, RecordedIs
    <3>. QED  BY <3>1, <3>3
  <2>. QED  BY <1>7, <2>1, <2>3, <2>5
<1>. QED  BY <1>1, <1>4, <1>6, <1>8, ComesAppended

\* A reply starts the transcript anew.
LEMMA ComesAnew ==
    ASSUME NEW s \in Seq(ServerMessages), NEW k \in 0 .. Len(s), NEW h, NEW r,
           NEW m \in ServerMessages, Rewrites(m, r), m.events \in Seq(Events)
    PROVE  ComesTo(s \o <<m>>, k, h, r, LastOf(m.events, TranscriptLimit))
<1>1. PICK z \in Seq(ServerMessages) : z = s \o <<m>> /\ Len(z) = Len(s) + 1 /\ z[Len(z)] = m
  <2>1. /\ s \o <<m>> = Append(s, m) /\ Append(s, m) \in Seq(ServerMessages)
        /\ Len(Append(s, m)) = Len(s) + 1 /\ Append(s, m)[Len(s) + 1] = m
    BY AppendIs, AppendIsConcat
  <2>. QED  BY <2>1
<1>2. PICK t \in Seq(Events) : t = LastOf(m.events, TranscriptLimit)
  <2>1. LastOf(m.events, TranscriptLimit) \in Seq(Events)
    <3>1. PICK v \in Seq(Events) : v = m.events
      OBVIOUS
    <3>2. Len(v) \in Nat /\ TranscriptLimit \in Nat
      BY WindowAssumption
    <3>3. CASE Len(v) > TranscriptLimit
      <4>1. TranscriptLimit \in 0 .. Len(v)
        BY <3>2, <3>3
      <4>. QED  BY <3>1, <4>1, LastOfPlaces
    <3>4. CASE ~(Len(v) > TranscriptLimit)
      <4>1. LastOf(v, TranscriptLimit) = [i \in 1 .. Len(v) - 0 |-> v[i + 0]]
        BY <3>2, <3>4 DEF LastOf
      <4>2. [i \in 1 .. Len(v) - 0 |-> v[i + 0]] = v
        BY <3>2
      <4>. QED  BY <3>1, <4>1, <4>2
    <3>. QED  BY <3>3, <3>4
  <2>. QED  BY <2>1
<1>. DEFINE n == Len(z)
            f == [i \in n .. n |-> t]
<1>3. Len(z) \in k .. Len(z) /\ n # k /\ n \in n .. n
  BY <1>1
<1>4. f \in [n .. Len(z) -> Seq(Events)] /\ f[n] = t /\ f[Len(z)] = t
  BY <1>3
<1>5. Starts(z, k, h, r, n, f[n])
  BY <1>1, <1>2, <1>3, <1>4 DEF Starts
<1>6. Follow(z, r, n, f)
  <2>1. \A i \in n + 1 .. Len(z) : FALSE
    BY <1>1
  <2>. QED  BY <2>1 DEF Follow
<1>. HIDE DEF f
<1>7. ComesTo(z, k, h, r, t)
  BY <1>3, <1>4, <1>5, <1>6 DEF ComesTo
<1>. QED  BY <1>1, <1>2, <1>7

\* One more message is processed, and does to the transcripts h what it is said to do.
LEMMA ComesOn ==
    ASSUME NEW s \in Seq(ServerMessages), NEW k \in 0 .. Len(s) - 1, NEW h, NEW r, NEW t,
           ComesTo(s, k, h, r, t), NEW next,
           r \in DOMAIN h => /\ r \in DOMAIN next
                             /\ next[r] = AfterReading(h[r], s[k + 1], r),
           Rewrites(s[k + 1], r) => /\ r \in DOMAIN next
                                    /\ next[r] = LastOf(s[k + 1].events, TranscriptLimit)
    PROVE  ComesTo(s, k + 1, next, r, t)
<1>1. PICK n \in k .. Len(s) : \E f \in [n .. Len(s) -> Seq(Events)] :
        Starts(s, k, h, r, n, f[n]) /\ Follow(s, r, n, f) /\ f[Len(s)] = t
  BY DEF ComesTo
<1>2. PICK f \in [n .. Len(s) -> Seq(Events)] :
        Starts(s, k, h, r, n, f[n]) /\ Follow(s, r, n, f) /\ f[Len(s)] = t
  BY <1>1
<1>3. Len(s) \in Nat /\ k \in Nat /\ k + 1 <= Len(s) /\ n \in Nat /\ k # k + 1
  OBVIOUS
<1>4. CASE n = k
  <2>. DEFINE g == [i \in k + 1 .. Len(s) |-> f[i]]
  <2>1. \A i \in k + 1 .. Len(s) : i \in n .. Len(s) /\ g[i] = f[i]
    BY <1>3, <1>4
  <2>2. g \in [k + 1 .. Len(s) -> Seq(Events)]
    BY <1>2, <2>1
  <2>3. /\ k + 1 \in k + 1 .. Len(s) /\ Len(s) \in k + 1 .. Len(s) /\ k + 1 - 1 = k
        /\ k + 1 \in n + 1 .. Len(s)
    BY <1>3, <1>4
  <2>. HIDE DEF g
  <2>4. Starts(s, k + 1, next, r, k + 1, g[k + 1])
    <3>1. r \in DOMAIN h /\ f[n] = h[r]
      BY <1>2, <1>4 DEF Starts
    <3>2. f[k + 1] = AfterReading(f[k], s[k + 1], r)
      BY <1>2, <2>3 DEF Follow
    <3>. QED  BY <1>4, <2>1, <2>3, <3>1, <3>2 DEF Starts
  <2>5. Follow(s, r, k + 1, g)
    <3>. SUFFICES ASSUME NEW i \in k + 1 + 1 .. Len(s)
                  PROVE  g[i] = AfterReading(g[i - 1], s[i], r)
      BY DEF Follow
    <3>1. i \in k + 1 .. Len(s) /\ i - 1 \in k + 1 .. Len(s) /\ i \in n + 1 .. Len(s)
      BY <1>3, <1>4
    <3>. QED  BY <1>2, <2>1, <3>1 DEF Follow
  <2>6. g[Len(s)] = t
    BY <1>2, <2>1, <2>3
  <2>. QED  BY <2>2, <2>3, <2>4, <2>5, <2>6 DEF ComesTo
<1>5. CASE n # k
  <2>1. n \in k + 1 .. Len(s)
    BY <1>3, <1>5
  <2>2. Starts(s, k + 1, next, r, n, f[n])
    BY <1>2, <1>5 DEF Starts
  <2>. QED  BY <1>2, <2>1, <2>2 DEF ComesTo
<1>. QED  BY <1>4, <1>5

-----------------------------------------------------------------------------
(***************************************************************************)
(* What the handlers do to the transcripts.                                *)
(***************************************************************************)
Kept(h, next, r) == r \in DOMAIN h => r \in DOMAIN next /\ next[r] = h[r]

\* Of the transcripts of w those of its rooms remain, through all that is called.
LEMMA TranscriptsRelisted ==
    ASSUME NEW w, IsWindow(w), NEW r, NEW u, NEW q,
           u = update_rooms(w) \/ u = select_room_by_name(update_rooms(w), q),
           r \in Elements(names(w))
    PROVE  IsWindow(u) /\ names(u) = names(w) /\ Kept(w.chat_room_history, u.chat_room_history, r)
<1>1. PICK h : w \in Windows(h)
  BY DEF IsWindow
<1>2. PICK v : v = update_rooms(w)
  OBVIOUS
<1>3. IsWindow(v) /\ names(v) = names(w)
  BY <1>2, UpdateShows
<1>4. Kept(w.chat_room_history, v.chat_room_history, r)
  <2>1. PICK g : g = [x \in DOMAIN w.chat_room_history \cap Elements(names(w)) |-> w.chat_room_history[x]]
    OBVIOUS
  <2>2. v.chat_room_history = g
    BY <1>1, <1>2, <2>1 DEF update_rooms, Windows
  <2>. QED  BY <2>1, <2>2 DEF Kept
<1>5. PICK g : v \in Windows(g)
  BY <1>3 DEF IsWindow
<1>6. select_room_by_name(v, q).chat_room_history = v.chat_room_history
  <2>1. CASE q \notin Elements(v.room_names)
    BY <2>1 DEF select_room_by_name
  <2>2. CASE q \in Elements(v.room_names)
    <3>1. PICK i : select_room_by_name(v, q) = [v EXCEPT !.current_room_index = i,
                                                         !.current_room_name = q]
      BY <2>2 DEF select_room_by_name
    <3>. QED  BY <1>5, <3>1 DEF Windows
  <2>. QED  BY <2>1, <2>2
<1>7. IsWindow(select_room_by_name(v, q)) /\ names(select_room_by_name(v, q)) = names(v)
  BY <1>3, SelectShows
<1>. QED  BY <1>2, <1>3, <1>4, <1>6, <1>7

\* The last call of a handler, which joins the selected room, changes no transcript.
LEMMA TranscriptsJoined ==
    ASSUME NEW w, IsWindow(w), issue_room_join_if_needed(w)
    PROVE  window'.chat_room_history = w.chat_room_history
<1>1. PICK h : w \in Windows(h)
  BY DEF IsWindow
<1>2. PICK s : window' = [w EXCEPT !.client_rooms = s]
  BY DEF issue_room_join_if_needed
<1>. QED  BY <1>1, <1>2 DEF Windows

\* Rooms are added or removed: the transcripts of those that are displayed remain.
LEMMA TranscriptsListed ==
    ASSUME IsWindow(window), NEW s \in Seq(ClientRooms), NEW q, NEW u,
           u = update_rooms(WithRooms(window, s))
              \/ u = select_room_by_name(update_rooms(WithRooms(window, s)), q),
           window' = u \/ issue_room_join_if_needed(u),
           NEW r, r \in Displayed(window')
    PROVE  Kept(window.chat_room_history, window'.chat_room_history, r)
<1>1. PICK w : w = WithRooms(window, s)
  OBVIOUS
<1>2. IsWindow(w)
  BY <1>1, Replaced
<1>3. w.chat_room_history = window.chat_room_history
  <2>1. PICK h : window \in Windows(h)
    BY DEF IsWindow
  <2>. QED  BY <1>1, <2>1 DEF WithRooms, Windows
<1>4. IsWindow(u) /\ names(u) = names(w)
  <2>1. PICK v : v = update_rooms(w)
    OBVIOUS
  <2>2. IsWindow(v) /\ names(v) = names(w)
    BY <1>2, <2>1, UpdateShows
  <2>3. IsWindow(select_room_by_name(v, q)) /\ names(select_room_by_name(v, q)) = names(v)
    BY <2>2, SelectShows
  <2>. QED  BY <1>1, <2>1, <2>2, <2>3
<1>5. names(window') = names(u) /\ window'.chat_room_history = u.chat_room_history
  BY <1>4, JoinKeeps, TranscriptsJoined
<1>6. r \in Elements(names(w))
  BY <1>4, <1>5 DEF Displayed
<1>7. Kept(w.chat_room_history, u.chat_room_history, r)
  BY <1>1, <1>2, <1>6, TranscriptsRelisted
<1>. QED  BY <1>3, <1>5, <1>7

\* A message does to the transcript of a room, displayed before and after, what it is said
\* to do; a reply gives a room that is displayed a transcript.
LEMMA ProcessReads ==
    ASSUME WindowIsConsistent, NEW m, Process(m), m.type # "ROOM_LIST",
           NEW r, r \in Displayed(window), r \in Displayed(window')
    PROVE  LET h == window.chat_room_history
               next == window'.chat_room_history
           IN  /\ r \in DOMAIN h => r \in DOMAIN next /\ next[r] = AfterReading(h[r], m, r)
               /\ Rewrites(m, r) => /\ r \in DOMAIN next
                                    /\ next[r] = LastOf(m.events, TranscriptLimit)
<1>. DEFINE h == window.chat_room_history
            next == window'.chat_room_history
            Done == /\ r \in DOMAIN h => r \in DOMAIN next /\ next[r] = AfterReading(h[r], m, r)
                    /\ Rewrites(m, r) => /\ r \in DOMAIN next
                                         /\ next[r] = LastOf(m.events, TranscriptLimit)
<1>1. /\ IsWindow(window) /\ window.client_rooms \in Seq(ClientRooms)
      /\ \E g : window \in Windows(g)
  BY DEF WindowIsConsistent, Consistent, IsWindow, Windows
<1>2. ASSUME Kept(h, next, r), ~Rewrites(m, r), ~Echoes(m, r)
      PROVE  Done
  BY <1>2 DEF Kept, AfterReading
<1>3. window' = window => Kept(h, next, r)
  BY DEF Kept
<1>4. CASE m.type = "ROOM_CREATE"
  <2>1. OnRoomCreate(m)
    BY <1>4 DEF Process
  <2>2. CASE m.room \notin WindowNames \/ HasRoom(window, m.room)
    <3>1. window' = window
      BY <2>1, <2>2 DEF OnRoomCreate, WindowStays, windowVars
    <3>. QED  BY <1>2, <1>3, <1>4, <3>1 DEF Rewrites, Echoes
  <2>3. CASE ~(m.room \notin WindowNames \/ HasRoom(window, m.room))
    <3>1. PICK s : s = Append(window.client_rooms, ClientRoom(m.room))
      OBVIOUS
    <3>2. s \in Seq(ClientRooms)
      <4>1. ClientRoom(m.room) \in ClientRooms
        BY <2>3 DEF ClientRoom, ClientRooms
      <4>. QED  BY <1>1, <3>1, <4>1
    <3>3. issue_room_join_if_needed(select_room_by_name(update_rooms(WithRooms(window, s)),
                                                        window.current_room_name))
      BY <2>1, <2>3, <3>1 DEF OnRoomCreate, WithRooms
    <3>4. Kept(h, next, r)
      BY <1>1, <3>2, <3>3, TranscriptsListed
    <3>. QED  BY <1>2, <1>4, <3>4 DEF Rewrites, Echoes
  <2>. QED  BY <2>2, <2>3
<1>5. CASE m.type = "ROOM_DESTROY"
  <2>1. OnRoomDestroy(m)
    BY <1>5 DEF Process
  <2>2. CASE ~HasRoom(window, m.room)
    <3>1. window' = window
      BY <2>1, <2>2 DEF OnRoomDestroy, WindowStays, windowVars
    <3>. QED  BY <1>2, <1>3, <1>5, <3>1 DEF Rewrites, Echoes
  <2>3. CASE HasRoom(window, m.room)
    <3>1. PICK s : s = Picked(window.client_rooms, OtherThan(m.room))
      OBVIOUS
    <3>2. s \in Seq(ClientRooms)
      <4>1. s \in Seq(ClientRooms \cap OtherThan(m.room))
        BY <1>1, <3>1, PickedTyped
      <4>2. ClientRooms \cap OtherThan(m.room) \subseteq ClientRooms
        OBVIOUS
      <4>. QED  BY <4>1, <4>2, SeqWidens
    <3>3. \/ issue_room_join_if_needed(update_rooms(WithRooms(window, s)))
          \/ window' = select_room_by_name(update_rooms(WithRooms(window, s)),
                                           window.current_room_name)
      BY <2>1, <2>3, <3>1 DEF OnRoomDestroy, WithRooms
    <3>4. Kept(h, next, r)
      BY <1>1, <3>2, <3>3, TranscriptsListed
    <3>. QED  BY <1>2, <1>5, <3>4 DEF Rewrites, Echoes
  <2>. QED  BY <2>2, <2>3
<1>6. CASE m.type = "ROOM_HISTORY"
  <2>1. OnRoomHistory(m)
    BY <1>6 DEF Process
  <2>2. CASE HasRoom(window, m.room)
    <3>1. PICK f : f = [q \in DOMAIN h \cup {m.room} |->
                          IF q = m.room THEN LastOf(m.events, TranscriptLimit) ELSE h[q]]
      OBVIOUS
    <3>2. next = f
      BY <1>1, <2>1, <2>2, <3>1 DEF OnRoomHistory, rewrite_chat_history, Windows
    <3>. QED  BY <1>6, <3>1, <3>2 DEF Rewrites, Echoes, AfterReading
  <2>3. CASE ~HasRoom(window, m.room)
    <3>1. window' = window /\ m.room # r
      BY <2>1, <2>3 DEF OnRoomHistory, HasRoom, Displayed
    <3>. QED  BY <1>2, <1>3, <1>6, <3>1 DEF Rewrites, Echoes
  <2>. QED  BY <2>2, <2>3
<1>7. CASE m.type = "CHAT_ECHO"
  <2>1. OnChatEcho(m)
    BY <1>7 DEF Process
  <2>2. PICK f : f = [q \in DOMAIN h \cup {m.room} |->
                        IF q = m.room
                        THEN Recorded(IF m.room \in DOMAIN h THEN h[m.room] ELSE << >>, m.event,
                                      TranscriptLimit)
                        ELSE h[q]]
    OBVIOUS
  <2>3. next = f
    BY <1>1, <2>1, <2>2 DEF OnChatEcho, insert_chat_history_event, Windows
  <2>. QED  BY <1>7, <2>2, <2>3 DEF Rewrites, Echoes, AfterReading
<1>8. CASE m.type \notin {"ROOM_CREATE", "ROOM_DESTROY", "ROOM_HISTORY", "CHAT_ECHO"}
  <2>1. window' = window
    BY <1>8 DEF Process, WindowStays, windowVars
  <2>. QED  BY <1>2, <1>3, <1>8, <2>1 DEF Rewrites, Echoes
<1>. QED  BY <1>4, <1>5, <1>6, <1>7, <1>8

\* The user's acts leave the transcripts alone.
LEMMA UserLeavesTranscripts ==
    ASSUME WindowIsConsistent, UserActs
    PROVE  window'.chat_room_history = window.chat_room_history
<1>1. PICK h : window \in Windows(h)
  BY DEF WindowIsConsistent, Consistent, IsWindow
<1>2. ASSUME NEW i, ChangeRoom(i)
      PROVE  window'.chat_room_history = window.chat_room_history
  <2>1. PICK w : w = [window EXCEPT !.current_room_index = i - 1,
                                    !.current_room_name = window.room_names[i]]
    OBVIOUS
  <2>2. issue_room_join_if_needed(w) /\ i \in DOMAIN window.room_names
    BY <1>2, <2>1 DEF ChangeRoom
  <2>3. window.room_names[i] \in WindowNames /\ i - 1 \in Nat
    BY <1>1, <2>2 DEF Windows
  <2>4. w \in Windows(h) /\ w.chat_room_history = h
    BY <1>1, <2>1, <2>3 DEF Windows
  <2>5. window.chat_room_history = h
    BY <1>1 DEF Windows
  <2>. QED  BY <2>2, <2>4, <2>5, TranscriptsJoined DEF IsWindow
<1>. QED  BY <1>2 DEF UserActs, SubmitText, SubmitCommand

-----------------------------------------------------------------------------
(***************************************************************************)
(* A room that is joined is also asked for its history.                    *)
(***************************************************************************)
\* Every request to join is followed by one for the history of the room.
FollowedIn(q) ==
    \A i \in DOMAIN q : q[i].type = "ROOM_JOIN" =>
        \E j \in DOMAIN q : j > i /\ q[j] = create_room_history(q[i].room, HistoryCount)

JoinsFollowed == /\ messages_in[Me] \in Seq(WindowRequests)
                 /\ FollowedIn(messages_in[Me] \o out_queue)

\* The requests that are left when the first is handled are still followed.
LEMMA FollowedTail ==
    ASSUME NEW D, NEW q \in Seq(D), q # << >>, FollowedIn(q)
    PROVE  FollowedIn(Tail(q))
<1>1. PICK t : t = Tail(q)
  OBVIOUS
<1>2. /\ Len(q) \in Nat /\ DOMAIN q = 1 .. Len(q) /\ DOMAIN t = 1 .. Len(q) - 1
      /\ \A i \in 1 .. Len(q) - 1 : t[i] = q[i + 1]
  BY <1>1
<1>3. SUFFICES ASSUME NEW i \in 1 .. Len(q) - 1, t[i].type = "ROOM_JOIN"
               PROVE  \E j \in 1 .. Len(q) - 1 :
                         j > i /\ t[j] = create_room_history(t[i].room, HistoryCount)
  BY <1>1, <1>2 DEF FollowedIn
<1>4. i + 1 \in DOMAIN q /\ q[i + 1].type = "ROOM_JOIN"
  BY <1>2, <1>3
<1>5. PICK j \in DOMAIN q : j > i + 1 /\ q[j] = create_room_history(q[i + 1].room, HistoryCount)
  BY <1>4 DEF FollowedIn
<1>6. j - 1 \in 1 .. Len(q) - 1 /\ j - 1 > i /\ j - 1 + 1 = j
  BY <1>2, <1>3, <1>5
<1>7. t[j - 1] = q[j] /\ t[i] = q[i + 1]
  BY <1>2, <1>6
<1>. QED  BY <1>5, <1>6, <1>7

\* Two queues whose joins are followed are so one after the other.
LEMMA FollowedConcat ==
    ASSUME NEW D, NEW q \in Seq(D), NEW u \in Seq(D), FollowedIn(q), FollowedIn(u)
    PROVE  FollowedIn(q \o u)
<1>1. PICK v \in Seq(D) : v = q \o u
  BY ConcatIs
<1>2. /\ DOMAIN q = 1 .. Len(q) /\ DOMAIN u = 1 .. Len(u)
      /\ DOMAIN v = 1 .. Len(q) + Len(u) /\ Len(q) \in Nat /\ Len(u) \in Nat
      /\ \A i \in 1 .. Len(q) : v[i] = q[i]
      /\ \A i \in 1 .. Len(u) : v[Len(q) + i] = u[i]
  <2>1. /\ Len(q \o u) = Len(q) + Len(u)
        /\ \A i \in 1 .. Len(q) : (q \o u)[i] = q[i]
        /\ \A i \in 1 .. Len(u) : (q \o u)[Len(q) + i] = u[i]
    BY ConcatIs
  <2>. QED  BY <1>1, <2>1
<1>3. SUFFICES ASSUME NEW i \in DOMAIN v, v[i].type = "ROOM_JOIN"
               PROVE  \E j \in DOMAIN v : j > i /\ v[j] = create_room_history(v[i].room, HistoryCount)
  BY <1>1 DEF FollowedIn
<1>4. CASE i <= Len(q)
  <2>1. i \in DOMAIN q /\ v[i] = q[i]
    BY <1>2, <1>4
  <2>2. PICK j \in DOMAIN q : j > i /\ q[j] = create_room_history(q[i].room, HistoryCount)
    BY <1>3, <2>1 DEF FollowedIn
  <2>3. j \in DOMAIN v /\ v[j] = q[j]
    BY <1>2
  <2>. QED  BY <2>1, <2>2, <2>3
<1>5. CASE i > Len(q)
  <2>1. i - Len(q) \in 1 .. Len(u) /\ i = Len(q) + (i - Len(q))
    BY <1>2, <1>5
  <2>2. i - Len(q) \in DOMAIN u /\ v[i] = u[i - Len(q)]
    BY <1>2, <2>1
  <2>3. PICK j \in DOMAIN u : /\ j > i - Len(q)
                              /\ u[j] = create_room_history(u[i - Len(q)].room, HistoryCount)
    BY <1>3, <2>2 DEF FollowedIn
  <2>4. Len(q) + j \in DOMAIN v /\ Len(q) + j > i
    BY <1>2, <2>3
  <2>5. v[Len(q) + j] = u[j]
    BY <1>2
  <2>. QED  BY <2>2, <2>3, <2>4, <2>5
<1>. QED  BY <1>2, <1>4, <1>5

\* What the window puts into its queue.
LEMMA FollowedAsked ==
    /\ \A m \in UserRequests \cup {room_list_request} : FollowedIn(<<m>>)
    /\ \A r \in WindowNames : FollowedIn(Asks(r)) /\ Asks(r) \in Seq(WindowRequests)
<1>1. ASSUME NEW m \in UserRequests \cup {room_list_request}
      PROVE  FollowedIn(<<m>>)
  <2>1. m.type # "ROOM_JOIN"
    BY DEF UserRequests, room_list_request, create_room_create, create_room_destroy, create_chat_send
  <2>2. \A i \in DOMAIN <<m>> : <<m>>[i] = m
    OBVIOUS
  <2>. QED  BY <2>1, <2>2 DEF FollowedIn
<1>2. ASSUME NEW r \in WindowNames
      PROVE  FollowedIn(Asks(r)) /\ Asks(r) \in Seq(WindowRequests)
  <2>1. create_room_join(r) \in WindowRequests /\ create_room_history(r, HistoryCount) \in WindowRequests
    BY DEF WindowRequests
  <2>2. /\ DOMAIN Asks(r) = 1 .. 2 /\ Asks(r)[1] = create_room_join(r)
        /\ Asks(r)[2] = create_room_history(r, HistoryCount)
    BY <2>1 DEF Asks
  <2>3. Asks(r)[2].type # "ROOM_JOIN" /\ Asks(r)[1].room = r
    BY <2>2 DEF create_room_history, create_room_join
  <2>4. 2 \in DOMAIN Asks(r) /\ 2 > 1 /\ \A i \in DOMAIN Asks(r) : i = 1 \/ i = 2
    BY <2>2
  <2>5. FollowedIn(Asks(r))
    BY <2>2, <2>3, <2>4 DEF FollowedIn
  <2>. QED  BY <2>1, <2>5 DEF Asks
<1>. QED  BY <1>1, <1>2

\* Concatenation is associative.
LEMMA ConcatsAssociate ==
    ASSUME NEW D, NEW a \in Seq(D), NEW b \in Seq(D), NEW d \in Seq(D)
    PROVE  a \o (b \o d) = (a \o b) \o d
OBVIOUS

\* A request is added to the window's queue, with what belongs to it.
LEMMA AsksMore ==
    ASSUME JoinsFollowed, out_queue \in Seq(WindowRequests), messages_in'[Me] = messages_in[Me],
           NEW u \in Seq(WindowRequests), FollowedIn(u), out_queue' = out_queue \o u
    PROVE  JoinsFollowed'
<1>1. PICK a \in Seq(WindowRequests) : a = messages_in[Me]
  BY DEF JoinsFollowed
<1>3. /\ a \o (out_queue \o u) = (a \o out_queue) \o u
      /\ a \o out_queue \in Seq(WindowRequests)
  BY ConcatsAssociate, ConcatIs
<1>4. FollowedIn(a \o out_queue)
  BY <1>1 DEF JoinsFollowed
<1>5. FollowedIn((a \o out_queue) \o u)
  BY <1>3, <1>4, FollowedConcat
<1>6. FollowedIn(messages_in'[Me] \o out_queue')
  BY <1>1, <1>3, <1>5
<1>. QED  BY <1>1, <1>6 DEF JoinsFollowed, FollowedIn

\* The requests move from the window's queue to the connection's and are handled there in
\* order: no step separates a join from the request for the history.
LEMMA JoinsStayFollowed ==
    ASSUME SystemInvariant, JoinsFollowed, [SystemNext]_system
    PROVE  JoinsFollowed'
<1>1. /\ TypeOK /\ WindowIsConsistent /\ out_queue \in Seq(WindowRequests)
      /\ user_acts \in 0 .. MaxUserActs /\ Me \in Connections
      /\ DOMAIN messages_in = Connections
  BY SystemAssumption DEF SystemInvariant, SystemTypes, TypeOK, QueueTypes
<1>2. PICK a \in Seq(WindowRequests) : a = messages_in[Me]
  BY DEF JoinsFollowed
<1>3. FollowedIn(a \o out_queue)
  BY <1>2 DEF JoinsFollowed
<1>4. JoinsFollowed' <=> /\ messages_in'[Me] \in Seq(WindowRequests)
                         /\ FollowedIn(messages_in'[Me] \o out_queue')
  BY DEF JoinsFollowed, FollowedIn
<1>5. CASE out_queue' = out_queue /\ messages_in'[Me] = messages_in[Me]
  BY <1>2, <1>3, <1>4, <1>5
<1>6. CASE ProcessNext
  <2>1. Process(sent[Me][seen + 1]) /\ messages_in'[Me] = messages_in[Me]
    BY <1>6 DEF ProcessNext, vars
  <2>2. \/ out_queue' = out_queue
        \/ \E r \in WindowNames : out_queue' = out_queue \o Asks(r)
    BY <1>1, <2>1, ProcessSettles DEF AsksForJoins
  <2>. QED  BY <1>1, <1>5, <2>1, <2>2, AsksMore, FollowedAsked
<1>7. CASE UserActs
  <2>1. messages_in'[Me] = messages_in[Me]
    BY <1>7 DEF UserActs, vars
  <2>2. \/ out_queue' = out_queue
        \/ \E r \in WindowNames : out_queue' = out_queue \o Asks(r)
        \/ \E m \in UserRequests : out_queue' = Append(out_queue, m)
    BY <1>1, <1>7, UserSettles DEF Settles
  <2>3. ASSUME NEW m \in UserRequests, out_queue' = Append(out_queue, m)
        PROVE  JoinsFollowed'
    <3>1. out_queue' = out_queue \o <<m>> /\ <<m>> \in Seq(WindowRequests)
      BY <1>1, <2>3, AppendIsConcat DEF WindowRequests
    <3>. QED  BY <1>1, <2>1, <3>1, AsksMore, FollowedAsked
  <2>. QED  BY <1>1, <1>5, <2>1, <2>2, <2>3, AsksMore, FollowedAsked
<1>8. CASE Carry
  <2>1. /\ out_queue # << >> /\ out_queue' = Tail(out_queue)
        /\ messages_in'[Me] = Append(a, Head(out_queue))
    BY <1>1, <1>2, <1>8 DEF Carry, QueueRequest
  <2>2. ASSUME NEW b \in Seq(WindowRequests), b # << >>
        PROVE  /\ Append(a, Head(b)) \o Tail(b) = a \o b
               /\ Append(a, Head(b)) \in Seq(WindowRequests)
    BY <2>2
  <2>. QED  BY <1>1, <1>3, <1>4, <2>1, <2>2
<1>9. CASE PeerActs
  <2>1. messages_in'[Me] = messages_in[Me] /\ out_queue' = out_queue
    BY <1>1, <1>9 DEF PeerActs, QueueRequest, windowVars
  <2>. QED  BY <1>5, <2>1
<1>10. CASE Serve
  <2>1. out_queue' = out_queue
    BY <1>10 DEF Serve, windowVars
  <2>2. \/ messages_in' = messages_in
        \/ \E c \in Connections : /\ messages_in[c] # << >>
                                  /\ messages_in' = [messages_in EXCEPT ![c] = Tail(@)]
    BY <1>10 DEF Serve, SendQueued, ServerWorker, StartBatch, StopServing, NextClient, Handle,
                 HandleRoomList, HandleRoomCreate, HandleRoomJoin, HandleRoomDestroy,
                 HandleRoomHistory, HandleChatSend, HandleOther, Pop, Announce, Echo, CleanUp
  <2>3. \/ messages_in'[Me] = a
        \/ a # << >> /\ messages_in'[Me] = Tail(a)
    BY <1>1, <1>2, <2>2
  <2>4. ASSUME NEW b \in Seq(WindowRequests), a # << >>
        PROVE  /\ Tail(a) \o b = Tail(a \o b) /\ Tail(a) \in Seq(WindowRequests)
               /\ a \o b # << >> /\ a \o b \in Seq(WindowRequests)
    BY <2>4
  <2>5. CASE a # << >> /\ messages_in'[Me] = Tail(a)
    <3>1. /\ Tail(a) \o out_queue = Tail(a \o out_queue) /\ Tail(a) \in Seq(WindowRequests)
          /\ a \o out_queue # << >> /\ a \o out_queue \in Seq(WindowRequests)
      BY <1>1, <2>4, <2>5
    <3>2. FollowedIn(Tail(a \o out_queue))
      BY <1>3, <3>1, FollowedTail
    <3>. QED  BY <1>4, <2>1, <2>5, <3>1, <3>2
  <2>. QED  BY <1>2, <1>5, <2>1, <2>3, <2>5
<1>11. CASE UNCHANGED system
  BY <1>5, <1>11 DEF system, vars, windowVars
<1>. QED  BY <1>6, <1>7, <1>8, <1>9, <1>10, <1>11 DEF SystemNext

\* At the start nothing but the list is asked for.
LEMMA JoinsStartFollowed ==
    ASSUME SystemInit
    PROVE  JoinsFollowed
<1>1. out_queue = <<room_list_request>> /\ messages_in[Me] = << >>
  BY WindowStartsConsistent, SystemAssumption DEF SystemInit
<1>2. << >> \in Seq(WindowRequests) /\ << >> \o <<room_list_request>> = <<room_list_request>>
  OBVIOUS
<1>. QED  BY <1>1, <1>2, FollowedAsked DEF JoinsFollowed

-----------------------------------------------------------------------------
(***************************************************************************)
(* What steps do to what is said in a room.                                *)
(***************************************************************************)
\* Nothing is said or echoed, a line is said, or a room that was not there has no lines.
RoomStays(r) == room'[r].events = room[r].events /\ recorded(r)' = recorded(r)

Said(r) == \E c \in Connections, e \in Events :
              /\ HandleChatSend(c)
              /\ room'[r].events = Append(room[r].events, e)
              /\ recorded(r)' = Recorded(recorded(r), e, HistoryLimit)

Emptied(r) == room'[r].events = << >> /\ recorded(r)' = recorded(r)

\* A handler leaves the lines of a room alone, adds one, or creates the room without any.
LEMMA RequestSteps ==
    ASSUME TypeOK, NEW c \in Connections, Handle(c), NEW r \in rooms'
    PROVE  /\ r \in rooms \/ Emptied(r)
           /\ r \in rooms => RoomStays(r) \/ Said(r)
<1>. DEFINE h == Head(messages_in[c])
<1>1. /\ rooms = DOMAIN room /\ rooms' = DOMAIN room' /\ \A q \in rooms : room[q] \in ServerRooms
      /\ messages_in[c] \in Seq(Requests)
  BY DEF TypeOK, RoomTypes, QueueTypes, rooms
<1>2. \A q : history' = history => recorded(q)' = recorded(q)
  BY DEF recorded
<1>3. CASE HandleRoomList(c) \/ HandleRoomHistory(c) \/ HandleOther(c)
  <2>1. room' = room /\ history' = history
    BY <1>3 DEF HandleRoomList, HandleRoomHistory, HandleOther, roomVars
  <2>. QED  BY <1>1, <1>2, <2>1 DEF RoomStays
<1>4. CASE HandleRoomCreate(c)
  <2>1. /\ history' = history
        /\ \/ /\ h.room \in ValidNames \ rooms
              /\ room' = With(room, h.room, [NewRoom EXCEPT !.joined[c] = 1])
           \/ room' = room
    BY <1>4 DEF HandleRoomCreate
  <2>2. CASE room' = room
    BY <1>1, <1>2, <2>1, <2>2 DEF RoomStays
  <2>3. ASSUME h.room \in ValidNames \ rooms,
               room' = With(room, h.room, [NewRoom EXCEPT !.joined[c] = 1])
        PROVE  IF r \in rooms THEN room'[r] = room[r] ELSE room'[r].events = << >>
    <3>1. [NewRoom EXCEPT !.joined[c] = 1].events = << >>
      BY DEF NewRoom
    <3>. QED  BY <1>1, <2>3, <3>1 DEF With
  <2>. QED  BY <1>2, <2>1, <2>2, <2>3 DEF RoomStays, Emptied
<1>5. CASE HandleRoomJoin(c)
  <2>1. /\ history' = history
        /\ \/ h.room \in rooms /\ room' = [room EXCEPT ![h.room].joined[c] = 1]
           \/ room' = room
    BY <1>5 DEF HandleRoomJoin
  <2>2. r \in rooms /\ room'[r].events = room[r].events
    <3>1. ASSUME h.room \in rooms, room' = [room EXCEPT ![h.room].joined[c] = 1]
          PROVE  r \in rooms /\ room'[r].events = room[r].events
      <4>1. r \in rooms /\ room[r] \in ServerRooms
        BY <1>1, <3>1
      <4>2. CASE r # h.room
        BY <1>1, <3>1, <4>1, <4>2
      <4>3. CASE r = h.room
        <5>1. room'[r] = [room[r] EXCEPT !.joined[c] = 1]
          BY <1>1, <3>1, <4>1, <4>3
        <5>. QED  BY <4>1, <5>1 DEF ServerRooms
      <4>. QED  BY <4>2, <4>3
    <3>. QED  BY <1>1, <2>1, <3>1
  <2>. QED  BY <1>2, <2>1, <2>2 DEF RoomStays
<1>6. CASE HandleRoomDestroy(c)
  <2>1. /\ history' = history
        /\ \/ h.room \in rooms /\ room' = [room EXCEPT ![h.room].destroy_requested = TRUE]
           \/ room' = room
    BY <1>6 DEF HandleRoomDestroy
  <2>2. r \in rooms /\ room'[r].events = room[r].events
    <3>1. ASSUME h.room \in rooms, room' = [room EXCEPT ![h.room].destroy_requested = TRUE]
          PROVE  r \in rooms /\ room'[r].events = room[r].events
      <4>1. r \in rooms /\ room[r] \in ServerRooms
        BY <1>1, <3>1
      <4>2. CASE r # h.room
        BY <1>1, <3>1, <4>1, <4>2
      <4>3. CASE r = h.room
        <5>1. room'[r] = [room[r] EXCEPT !.destroy_requested = TRUE]
          BY <1>1, <3>1, <4>1, <4>3
        <5>. QED  BY <4>1, <5>1 DEF ServerRooms
      <4>. QED  BY <4>2, <4>3
    <3>. QED  BY <1>1, <2>1, <3>1
  <2>. QED  BY <1>2, <2>1, <2>2 DEF RoomStays
<1>7. CASE HandleChatSend(c)
  <2>. DEFINE e == RoomEvent(user[c], h.text)
  <2>1. /\ messages_in[c] # << >> /\ h.type = "CHAT_SEND"
        /\ \/ /\ h.room \in rooms
              /\ history' = With(history, h.room, Recorded(recorded(h.room), e, HistoryLimit))
              /\ room' = [room EXCEPT ![h.room].events = Append(@, e)]
           \/ room' = room /\ history' = history
    BY <1>7 DEF HandleChatSend, Pop, roomVars
  <2>2. e \in Events
    <3>1. h \in Requests
      BY <1>1, <2>1
    <3>2. h.text \in 1 .. MaxRequests
      BY <2>1, <3>1, RequestFields
    <3>. QED  BY <3>2 DEF RoomEvent, Events, TypeOK, TaskTypes
  <2>. HIDE DEF e, h
  <2>3. CASE room' = room /\ history' = history
    BY <1>1, <1>2, <2>3 DEF RoomStays
  <2>4. CASE /\ h.room \in rooms
             /\ history' = With(history, h.room, Recorded(recorded(h.room), e, HistoryLimit))
             /\ room' = [room EXCEPT ![h.room].events = Append(@, e)]
    <3>1. r \in rooms
      BY <1>1, <2>4
    <3>2. CASE r = h.room
      <4>1. room'[r].events = Append(room[r].events, e)
        BY <1>1, <2>4, <3>2 DEF ServerRooms
      <4>2. recorded(r)' = Recorded(recorded(r), e, HistoryLimit)
        <5>1. r \in DOMAIN history' /\ history'[r] = Recorded(recorded(r), e, HistoryLimit)
          BY <2>4, <3>2 DEF With
        <5>. QED  BY <5>1 DEF recorded
      <4>. QED  BY <1>7, <2>2, <3>1, <4>1, <4>2 DEF Said
    <3>3. CASE r # h.room
      <4>1. room'[r] = room[r]
        BY <1>1, <2>4, <3>3
      <4>2. /\ r \in DOMAIN history' <=> r \in DOMAIN history
            /\ r \in DOMAIN history => history'[r] = history[r]
        BY <2>4, <3>3 DEF With
      <4>3. recorded(r)' = recorded(r)
        BY <4>2 DEF recorded
      <4>. QED  BY <3>1, <4>1, <4>3 DEF RoomStays
    <3>. QED  BY <3>2, <3>3
  <2>. QED  BY <2>1, <2>3, <2>4
<1>. QED  BY <1>3, <1>4, <1>5, <1>6, <1>7 DEF Handle

\* The echo of a room takes its lines and leaves those of the others alone.
LEMMA EchoSteps ==
    ASSUME TypeOK, NEW q \in rooms, Echo(q), NEW r \in rooms'
    PROVE  /\ r \in rooms /\ (r # q => RoomStays(r)) /\ (r = q => Emptied(r))
           /\ pc = "echo" /\ q \in unsent /\ pc' = pc /\ unsent' = unsent \ {q}
<1>1. /\ rooms = DOMAIN room /\ rooms' = DOMAIN room' /\ \A x \in rooms : room[x] \in ServerRooms
  BY DEF TypeOK, RoomTypes, rooms
<1>2. /\ pc = "echo" /\ q \in unsent /\ pc' = pc /\ unsent' = unsent \ {q} /\ history' = history
      /\ \E joined : room' = [room EXCEPT ![q].joined = joined, ![q].events = << >>]
  BY DEF Echo
<1>3. r \in rooms /\ (r # q => room'[r] = room[r]) /\ (r = q => room'[r].events = << >>)
  BY <1>1, <1>2 DEF ServerRooms
<1>4. recorded(r)' = recorded(r)
  BY <1>2 DEF recorded
<1>. QED  BY <1>2, <1>3, <1>4 DEF RoomStays, Emptied

\* Destroying rooms leaves the lines of the others alone.
LEMMA CleanUpSteps ==
    ASSUME TypeOK, DoomedAreGathered, CleanUp, NEW r \in rooms'
    PROVE  r \in rooms /\ RoomStays(r) /\ pc = "echo" /\ unsent = {} /\ pc' = "sleep"
<1>1. /\ pc = "echo" /\ unsent = {} /\ pc' = "sleep"
      /\ history' = Without(history, Elements(destroyed_rooms))
      /\ room' = Without(room, {q \in rooms : room[q].destroy_requested})
  BY DEF CleanUp
<1>2. {q \in rooms : room[q].destroy_requested} = Elements(destroyed_rooms)
  BY DEF DoomedAreGathered
<1>3. r \in rooms /\ r \notin Elements(destroyed_rooms) /\ room'[r] = room[r]
  BY <1>1, <1>2 DEF Without, rooms
<1>4. /\ r \in DOMAIN history' <=> r \in DOMAIN history
      /\ r \in DOMAIN history => history'[r] = history[r]
  BY <1>1, <1>3 DEF Without
<1>. QED  BY <1>1, <1>3, <1>4 DEF RoomStays, recorded

\* The other steps leave the rooms alone.
LEMMA OtherSteps ==
    ASSUME [SystemNext]_system, ~CleanUp, \A c \in Connections : ~Handle(c),
           \A q \in rooms : ~Echo(q)
    PROVE  UNCHANGED roomVars
BY DEF SystemNext, system, vars, ProcessNext, Carry, UserActs, PeerActs, Serve, QueueRequest,
       Received, serverSide, SendQueued, ServerWorker, StartBatch, StopServing, NextClient,
       Announce

\* The lines that wait to be echoed are the last of the log, and none wait when a batch has
\* echoed them.
LinesWait(r) ==
    /\ Len(recorded(r)) < HistoryLimit =>
          \E k \in 1 .. Len(recorded(r)) + 1 :
             room[r].events = SubSeq(recorded(r), k, Len(recorded(r)))
    /\ room[r].events # << >> => pc = "gather" \/ (pc = "echo" /\ r \in unsent)

\* A log that is shorter than it may be has got all that was said.
LEMMA LogGrew ==
    ASSUME NEW s \in Seq(Events), NEW e \in Events,
           Len(Recorded(s, e, HistoryLimit)) < HistoryLimit
    PROVE  Recorded(s, e, HistoryLimit) = Append(s, e) /\ Len(s) < HistoryLimit
<1>1. /\ Append(s, e) \in Seq(Events) /\ Len(Append(s, e)) = Len(s) + 1 /\ Len(s) \in Nat
      /\ HistoryLimit \in Nat
  BY BoundsAssumption
<1>. DEFINE t == Append(s, e)
            d == IF Len(t) > HistoryLimit THEN Len(t) - HistoryLimit ELSE 0
<1>2. Recorded(s, e, HistoryLimit) = [i \in 1 .. Len(t) - d |-> t[i + d]]
  BY DEF Recorded, LastOf
<1>3. Len(t) \in Nat /\ d \in Nat /\ Len(t) - d \in Nat
  BY <1>1
<1>. HIDE DEF t, d
<1>4. Len([i \in 1 .. Len(t) - d |-> t[i + d]]) = Len(t) - d
  BY <1>3
<1>5. Len(t) - d < HistoryLimit
  BY <1>2, <1>4
<1>6. Len(t) < HistoryLimit
  <2>1. Len(t) > HistoryLimit => d = Len(t) - HistoryLimit
    BY DEF d
  <2>2. Len(t) > HistoryLimit => Len(t) - d = HistoryLimit
    BY <1>1, <1>3, <2>1
  <2>3. Len(t) <= HistoryLimit => d = 0
    BY <1>1, <1>3 DEF d
  <2>. QED  BY <1>1, <1>3, <1>5, <2>2, <2>3
<1>7. Len(s) < HistoryLimit
  BY <1>1, <1>6 DEF t
<1>. QED  BY <1>1, <1>6, <1>7, RecordedIs DEF t

\* Lines wait only while a batch is being handled.
LEMMA LinesStillWait ==
    ASSUME TypeOK, DoomedAreGathered, [SystemNext]_system, \A r \in rooms : LinesWait(r)
    PROVE  \A r \in rooms' : LinesWait(r)'
<1>. SUFFICES ASSUME NEW r \in rooms'
              PROVE  LinesWait(r)'
  OBVIOUS
<1>1. /\ recorded(r)' \in Seq(Events) => Len(recorded(r)') \in Nat
      /\ recorded(r) \in Seq(Events)
  BY LogTyped
<1>2. LinesWait(r)' <=>
         /\ Len(recorded(r)') < HistoryLimit =>
               \E k \in 1 .. Len(recorded(r)') + 1 :
                  room'[r].events = SubSeq(recorded(r)', k, Len(recorded(r)'))
         /\ room'[r].events # << >> => pc' = "gather" \/ (pc' = "echo" /\ r \in unsent')
  BY DEF LinesWait
<1>3. ASSUME r \in rooms, RoomStays(r),
             pc = "gather" \/ (pc = "echo" /\ r \in unsent)
                => pc' = "gather" \/ (pc' = "echo" /\ r \in unsent')
      PROVE  LinesWait(r)'
  <2>1. LinesWait(r)
    BY <1>3
  <2>. QED  BY <1>2, <1>3, <2>1 DEF LinesWait, RoomStays
<1>4. ASSUME Emptied(r)
      PROVE  LinesWait(r)'
  <2>1. ASSUME NEW s \in Seq(Events)
        PROVE  Len(s) + 1 \in 1 .. Len(s) + 1 /\ SubSeq(s, Len(s) + 1, Len(s)) = << >>
    OBVIOUS
  <2>2. \E k \in 1 .. Len(recorded(r)) + 1 : << >> = SubSeq(recorded(r), k, Len(recorded(r)))
    BY <1>1, <2>1
  <2>. QED  BY <1>2, <1>4, <2>2 DEF Emptied
<1>5. ASSUME NEW c \in Connections, Handle(c)
      PROVE  LinesWait(r)'
  <2>1. pc = "gather" /\ pc' = pc
    BY <1>5 DEF Handle, HandleRoomList, HandleRoomCreate, HandleRoomJoin, HandleRoomDestroy,
                HandleRoomHistory, HandleChatSend, HandleOther, Pop, Gathering
  <2>2. ASSUME r \in rooms, Said(r)
        PROVE  LinesWait(r)'
    <3>1. PICK e \in Events : /\ room'[r].events = Append(room[r].events, e)
                              /\ recorded(r)' = Recorded(recorded(r), e, HistoryLimit)
      BY <2>2 DEF Said
    <3>2. SUFFICES ASSUME Len(Recorded(recorded(r), e, HistoryLimit)) < HistoryLimit
                   PROVE  \E k \in 1 .. Len(recorded(r)') + 1 :
                             room'[r].events = SubSeq(recorded(r)', k, Len(recorded(r)'))
      BY <1>2, <2>1, <3>1
    <3>3. recorded(r)' = Append(recorded(r), e) /\ Len(recorded(r)) < HistoryLimit
      BY <1>1, <3>1, <3>2, LogGrew
    <3>4. PICK k \in 1 .. Len(recorded(r)) + 1 :
             room[r].events = SubSeq(recorded(r), k, Len(recorded(r)))
      BY <2>2, <3>3 DEF LinesWait
    <3>5. SubSeq(Append(recorded(r), e), k, Len(Append(recorded(r), e)))
             = Append(SubSeq(recorded(r), k, Len(recorded(r))), e)
      BY <1>1, <3>4, SubSeqAppended
    <3>6. Len(Append(recorded(r), e)) = Len(recorded(r)) + 1 /\ Len(recorded(r)) \in Nat
      BY <1>1, AppendIs
    <3>7. k \in 1 .. Len(Append(recorded(r), e)) + 1
      BY <3>4, <3>6
    <3>. QED  BY <3>1, <3>3, <3>4, <3>5, <3>7
  <2>. QED  BY <1>3, <1>4, <1>5, <2>1, <2>2, RequestSteps
<1>6. ASSUME NEW q \in rooms, Echo(q)
      PROVE  LinesWait(r)'
  <2>1. /\ r \in rooms /\ (r # q => RoomStays(r)) /\ (r = q => Emptied(r))
        /\ pc = "echo" /\ q \in unsent /\ pc' = pc /\ unsent' = unsent \ {q}
    BY <1>6, EchoSteps
  <2>. QED  BY <1>3, <1>4, <2>1
<1>7. CASE CleanUp
  BY <1>3, <1>7, CleanUpSteps
<1>8. CASE ~CleanUp /\ (\A c \in Connections : ~Handle(c)) /\ \A q \in rooms : ~Echo(q)
  <2>1. UNCHANGED roomVars
    BY <1>8, OtherSteps
  <2>2. r \in rooms /\ RoomStays(r)
    BY <2>1 DEF roomVars, RoomStays, recorded, rooms
  <2>3. \/ pc' = pc /\ unsent' = unsent
        \/ pc = "gather" /\ pc' = "echo" /\ unsent' = rooms
        \/ pc = "sleep"
    BY <1>8 DEF SystemNext, system, vars, batchVars, ProcessNext, Carry, UserActs, PeerActs,
                Serve, QueueRequest, Received, serverSide, SendQueued, ServerWorker, StartBatch,
                StopServing, NextClient, Announce
  <2>. QED  BY <1>3, <2>2, <2>3
<1>. QED  BY <1>5, <1>6, <1>7, <1>8

-----------------------------------------------------------------------------
(***************************************************************************)
(* What the window is sent of a room it is a member of.                    *)
(***************************************************************************)
Untold(u, r) == \A i \in DOMAIN u : ~Rewrites(u[i], r) /\ ~Echoes(u[i], r)

\* The stream gets nothing of the room, the echoes of all lines that wait, or a reply.
Hearing(r, u) ==
    \/ Untold(u, r) /\ (RoomStays(r) \/ Said(r))
    \/ u = EchoesOf(r, room[r].events) /\ Emptied(r)
    \/ u = <<get_room_history(r, recorded(r), HistoryCount)>> /\ RoomStays(r)

Heard(r) == \E u \in Seq(ServerMessages) : Stream(Me)' = Stream(Me) \o u /\ Hearing(r, u)

\* What is appended to the queue is appended to the stream.
LEMMA StreamAppends ==
    ASSUME TypeOK, sent' = sent, NEW u \in Seq(ServerMessages),
           messages_out'[Me] = messages_out[Me] \o u
    PROVE  Stream(Me)' = Stream(Me) \o u
<1>1. sent[Me] \in Seq(ServerMessages) /\ messages_out[Me] \in Seq(ServerMessages)
  BY SystemAssumption DEF TypeOK, TaskTypes, QueueTypes
<1>2. sent[Me] \o (messages_out[Me] \o u) = (sent[Me] \o messages_out[Me]) \o u
  BY <1>1, ConcatAssociates
<1>. QED  BY <1>2 DEF Stream

\* A step that sends the window nothing lets it hear nothing of a room.
LEMMA HeardNothing ==
    ASSUME TypeOK, Stream(Me)' = Stream(Me), NEW r, RoomStays(r) \/ Said(r)
    PROVE  Heard(r)
<1>1. sent[Me] \in Seq(ServerMessages) /\ messages_out[Me] \in Seq(ServerMessages)
  BY SystemAssumption DEF TypeOK, TaskTypes, QueueTypes
<1>2. \A s \in Seq(ServerMessages) : s \o << >> = s
  OBVIOUS
<1>3. Stream(Me) \in Seq(ServerMessages)
  BY <1>1 DEF Stream
<1>4. << >> \in Seq(ServerMessages) /\ Untold(<< >>, r)
  BY DEF Untold
<1>. QED  BY <1>2, <1>3, <1>4 DEF Heard, Hearing

\* Announcements say nothing of what is said.
LEMMA AnnounceHeard ==
    ASSUME TypeOK, Announce, NEW r \in rooms
    PROVE  Heard(r)
<1>1. new_rooms \in Seq(ValidNames) /\ destroyed_rooms \in Seq(ValidNames)
  <2>1. rooms \subseteq ValidNames /\ new_rooms \in Seq(rooms) /\ destroyed_rooms \in Seq(rooms)
    BY DEF TypeOK, RoomTypes, BatchTypes
  <2>. QED  BY <2>1, SeqWidens
<1>2. PICK t : t = announcements
  OBVIOUS
<1>3. t \in Seq(ServerMessages)
  BY <1>1, <1>2, AnnouncedRooms DEF announcements, Announced
<1>4. Untold(t, r)
  <2>1. PICK a : a = [i \in DOMAIN new_rooms |-> create_room_create(new_rooms[i])]
    OBVIOUS
  <2>2. PICK b : b = [i \in DOMAIN destroyed_rooms |-> create_room_destroy(destroyed_rooms[i])]
    OBVIOUS
  <2>. DEFINE Tidings == {m \in ServerMessages : m.type \in {"ROOM_CREATE", "ROOM_DESTROY"}}
  <2>3. a \in Seq(Tidings) /\ b \in Seq(Tidings)
    <3>1. /\ \A i \in DOMAIN new_rooms : create_room_create(new_rooms[i]) \in Tidings
          /\ \A i \in DOMAIN destroyed_rooms : create_room_destroy(destroyed_rooms[i]) \in Tidings
      <4>1. /\ \A i \in DOMAIN new_rooms : new_rooms[i] \in ValidNames
            /\ \A i \in DOMAIN destroyed_rooms : destroyed_rooms[i] \in ValidNames
        BY <1>1
      <4>2. \A q \in ValidNames : /\ create_room_create(q) \in ServerMessages
                                  /\ create_room_destroy(q) \in ServerMessages
        BY MessagesTyped
      <4>3. \A q : /\ create_room_create(q).type = "ROOM_CREATE"
                   /\ create_room_destroy(q).type = "ROOM_DESTROY"
        BY DEF create_room_create, create_room_destroy
      <4>. QED  BY <4>1, <4>2, <4>3
    <3>. QED  BY <1>1, <2>1, <2>2, <3>1, MapTyped
  <2>4. t = a \o b
    BY <1>2, <2>1, <2>2 DEF announcements
  <2>5. t \in Seq(Tidings)
    BY <2>3, <2>4, ConcatIs
  <2>6. \A i \in DOMAIN t : t[i].type \in {"ROOM_CREATE", "ROOM_DESTROY"}
    <3>1. \A i \in DOMAIN t : t[i] \in Tidings
      BY <2>5
    <3>. QED  BY <3>1
  <2>. QED  BY <2>6 DEF Untold, Rewrites, Echoes
<1>5. \/ messages_out'[Me] = messages_out[Me] \o t
      \/ messages_out'[Me] = messages_out[Me] \o << >>
  BY <1>2, SystemAssumption DEF Announce
<1>6. sent' = sent /\ RoomStays(r)
  BY DEF Announce, clientSide, taskVars, roomVars, RoomStays, recorded
<1>7. << >> \in Seq(ServerMessages) /\ Untold(<< >>, r)
  BY DEF Untold
<1>. QED  BY <1>3, <1>4, <1>5, <1>6, <1>7, StreamAppends DEF Heard, Hearing

\* A member hears the lines of its room once, and those of other rooms are another matter.
LEMMA EchoHeard ==
    ASSUME TypeOK, Running, JoinedOnce, NEW q \in rooms, Echo(q),
           NEW r \in rooms, room[r].joined[Me] > 0, r \in rooms'
    PROVE  Heard(r)
<1>1. Me \in Connections /\ Owned(Me)
  BY SystemAssumption DEF Running, Owned
<1>2. PICK u : u = EchoesOf(q, room[q].events)
  OBVIOUS
<1>3. u \in Seq(ServerMessages) /\ room[q].events \in Seq(Events) /\ q \in ValidNames
      /\ room[q] \in ServerRooms
  BY <1>2, RoomsTyped, EchoesTyped
<1>4. messages_out'[Me] = messages_out[Me] \o Times(room[q].joined[Me], u)
  BY <1>1, <1>2 DEF Echo, EchoesOf
<1>5. room[q].joined[Me] \in {0, 1} /\ room[r].joined[Me] = 1
  BY <1>1 DEF JoinedOnce
<1>6. Times(0, u) = << >> /\ Times(1, u) = u
  BY <1>3, TimesOnce
<1>7. sent' = sent
  BY DEF Echo, clientSide, taskVars
<1>8. (r # q => RoomStays(r)) /\ (r = q => Emptied(r))
  BY EchoSteps
<1>9. Untold(<< >>, r) /\ << >> \in Seq(ServerMessages)
  BY DEF Untold
<1>10. ASSUME r # q
       PROVE  Untold(u, r)
  <2>1. \A i \in DOMAIN u : u[i].type = "CHAT_ECHO" /\ u[i].room = q
    BY <1>2 DEF EchoesOf, create_chat_echo
  <2>. QED  BY <1>10, <2>1 DEF Untold, Rewrites, Echoes
<1>11. CASE r = q
  <2>1. messages_out'[Me] = messages_out[Me] \o u
    BY <1>4, <1>5, <1>6, <1>11
  <2>. QED  BY <1>2, <1>3, <1>7, <1>8, <1>11, <2>1, StreamAppends DEF Heard, Hearing
<1>12. CASE r # q
  <2>1. messages_out'[Me] = messages_out[Me] \o u \/ messages_out'[Me] = messages_out[Me] \o << >>
    BY <1>4, <1>5, <1>6
  <2>. QED  BY <1>3, <1>7, <1>8, <1>9, <1>10, <1>12, <2>1, StreamAppends DEF Heard, Hearing
<1>. QED  BY <1>11, <1>12

\* A reply to the window.
LEMMA ReplyHeard ==
    ASSUME TypeOK, JoinsFollowed, HandleRoomHistory(Me), NEW r \in rooms
    PROVE  /\ Heard(r)
           /\ Head(messages_in[Me]) = create_room_history(r, HistoryCount) =>
                 LET m == get_room_history(r, recorded(r), HistoryCount)
                 IN  Stream(Me)' = Stream(Me) \o <<m>> /\ m \in ServerMessages
<1>1. PICK h : h = Head(messages_in[Me])
  OBVIOUS
<1>2. /\ h.type = "ROOM_HISTORY" /\ messages_in[Me] # << >> /\ room' = room /\ history' = history
      /\ sent' = sent
      /\ IF h.event_count \in 0 .. HistoryMax /\ h.room \in rooms
         THEN Reply(Me, get_room_history(h.room, recorded(h.room), h.event_count))
         ELSE UNCHANGED messages_out
  BY <1>1 DEF HandleRoomHistory, Pop, clientSide, taskVars, roomVars
<1>3. PICK q \in WindowNames : h = create_room_history(q, HistoryCount)
  <2>1. messages_in[Me] \in Seq(WindowRequests)
    BY DEF JoinsFollowed
  <2>2. h \in WindowRequests
    BY <1>1, <1>2, <2>1
  <2>. QED  BY <1>2, <2>2
       DEF WindowRequests, UserRequests, room_list_request, create_room_join,
           create_room_create, create_room_destroy, create_chat_send
<1>4. h.room = q /\ h.event_count = HistoryCount
  BY <1>3 DEF create_room_history
<1>5. HistoryCount \in 0 .. HistoryMax /\ HistoryCount \in Nat
  BY SystemAssumption, WindowAssumption, BoundsAssumption
<1>6. RoomStays(r)
  BY <1>2 DEF RoomStays, recorded
<1>7. /\ Me \in Connections /\ messages_out[Me] \in Seq(ServerMessages)
      /\ DOMAIN messages_out = Connections
  BY SystemAssumption DEF TypeOK, QueueTypes
<1>8. CASE q \in rooms
  <2>1. PICK m : m = get_room_history(q, recorded(q), HistoryCount)
    OBVIOUS
  <2>2. m \in ServerMessages
    <3>1. q \in ValidNames /\ recorded(q) \in Seq(Events)
      BY <1>8, RoomsTyped, LogTyped
    <3>. QED  BY <1>5, <2>1, <3>1, HistoryMessageTyped
  <2>3. messages_out'[Me] = messages_out[Me] \o <<m>> /\ <<m>> \in Seq(ServerMessages)
    BY <1>2, <1>4, <1>5, <1>7, <1>8, <2>1, <2>2, AppendIsConcat DEF Reply
  <2>4. Stream(Me)' = Stream(Me) \o <<m>>
    BY <1>2, <2>3, StreamAppends
  <2>5. q # r => Untold(<<m>>, r)
    <3>1. m.type = "ROOM_HISTORY" /\ m.room = q
      BY <2>1 DEF get_room_history, history_message
    <3>2. \A i \in DOMAIN <<m>> : <<m>>[i] = m
      OBVIOUS
    <3>. QED  BY <3>1, <3>2 DEF Untold, Rewrites, Echoes
  <2>6. Hearing(r, <<m>>)
    BY <1>6, <2>1, <2>5 DEF Hearing
  <2>7. h = create_room_history(r, HistoryCount) => q = r
    BY <1>4 DEF create_room_history
  <2>. QED  BY <1>1, <2>1, <2>2, <2>3, <2>4, <2>6, <2>7 DEF Heard
<1>9. CASE q \notin rooms
  <2>1. Stream(Me)' = Stream(Me)
    BY <1>2, <1>4, <1>9 DEF Stream
  <2>2. h # create_room_history(r, HistoryCount)
    BY <1>4, <1>9 DEF create_room_history
  <2>. QED  BY <1>1, <1>6, <2>1, <2>2, HeardNothing
<1>. QED  BY <1>8, <1>9

\* A handler replies to its own client; the window is sent the echoes later.
LEMMA HandleHeard ==
    ASSUME TypeOK, JoinsFollowed, NEW c \in Connections, Handle(c), NEW r \in rooms, r \in rooms'
    PROVE  Heard(r)
<1>1. RoomStays(r) \/ Said(r)
  BY RequestSteps
<1>2. /\ Me \in Connections /\ messages_out[Me] \in Seq(ServerMessages)
      /\ DOMAIN messages_out = Connections /\ sent' = sent
  BY SystemAssumption
     DEF TypeOK, QueueTypes, Handle, HandleRoomList, HandleRoomCreate, HandleRoomJoin,
         HandleRoomDestroy, HandleRoomHistory, HandleChatSend, HandleOther, Pop, clientSide,
         taskVars
<1>3. CASE messages_out'[Me] = messages_out[Me]
  BY <1>1, <1>2, <1>3, HeardNothing DEF Stream
<1>4. CASE c = Me /\ HandleRoomHistory(c)
  BY <1>4, ReplyHeard
<1>5. CASE c = Me /\ HandleRoomList(c)
  <2>1. PICK m : m = create_room_list(rooms)
    OBVIOUS
  <2>2. m \in ServerMessages /\ m.type = "ROOM_LIST"
    BY <2>1, MessagesTyped DEF TypeOK, RoomTypes, create_room_list
  <2>3. messages_out'[Me] = messages_out[Me] \o <<m>> /\ <<m>> \in Seq(ServerMessages)
    BY <1>2, <1>5, <2>1, <2>2, AppendIsConcat DEF HandleRoomList, Reply
  <2>4. Untold(<<m>>, r)
    <3>1. \A i \in DOMAIN <<m>> : <<m>>[i] = m
      OBVIOUS
    <3>. QED  BY <2>2, <3>1 DEF Untold, Rewrites, Echoes
  <2>. QED  BY <1>1, <1>2, <2>3, <2>4, StreamAppends DEF Heard, Hearing
<1>6. \/ messages_out'[Me] = messages_out[Me]
      \/ c = Me /\ (HandleRoomHistory(c) \/ HandleRoomList(c))
  BY <1>2 DEF Handle, HandleRoomList, HandleRoomCreate, HandleRoomJoin, HandleRoomDestroy,
              HandleRoomHistory, HandleChatSend, HandleOther, Reply
<1>. QED  BY <1>3, <1>4, <1>5, <1>6

\* Every step but the window's own reading.
LEMMA StepsHeard ==
    ASSUME SystemInvariant, JoinsFollowed, JoinedOnce, [SystemNext]_system, ~ProcessNext,
           NEW r \in rooms, room[r].joined[Me] > 0, r \in rooms'
    PROVE  Heard(r)
<1>1. TypeOK /\ Running /\ DoomedAreGathered
  BY DEF SystemInvariant, SystemTypes
<1>2. CASE \E c \in Connections : Handle(c)
  BY <1>1, <1>2, HandleHeard
<1>3. CASE \E q \in rooms : Echo(q)
  BY <1>1, <1>3, EchoHeard
<1>4. CASE Announce
  BY <1>1, <1>4, AnnounceHeard
<1>5. CASE CleanUp
  <2>1. RoomStays(r)
    BY <1>1, <1>5, CleanUpSteps
  <2>2. Stream(Me)' = Stream(Me)
    BY <1>5 DEF CleanUp, clientSide, taskVars, Stream
  <2>. QED  BY <1>1, <2>1, <2>2, HeardNothing
<1>6. CASE SendQueued(Me)
  <2>1. RoomStays(r)
    BY <1>6 DEF SendQueued, serverSide, roomVars, RoomStays, recorded
  <2>2. /\ sent[Me] \in Seq(ServerMessages) /\ messages_out[Me] \in Seq(ServerMessages)
        /\ DOMAIN sent = Connections /\ DOMAIN messages_out = Connections /\ Me \in Connections
    BY <1>1, SystemAssumption DEF TypeOK, TaskTypes, QueueTypes
  <2>3. sent'[Me] = sent[Me] \o << >> \o messages_out[Me] /\ messages_out'[Me] = << >>
    BY <1>1, <1>6, <2>2 DEF SendQueued, Running
  <2>4. ASSUME NEW a \in Seq(ServerMessages), NEW b \in Seq(ServerMessages)
        PROVE  (a \o << >> \o b) \o << >> = a \o b
    OBVIOUS
  <2>5. Stream(Me)' = Stream(Me)
    <3>1. (sent[Me] \o << >> \o messages_out[Me]) \o << >> = sent[Me] \o messages_out[Me]
      BY <2>2, <2>4
    <3>. QED  BY <2>3, <3>1 DEF Stream
  <2>. QED  BY <1>1, <2>1, <2>5, HeardNothing
<1>7. CASE UNCHANGED <<sent, messages_out, roomVars>>
  BY <1>1, <1>7, HeardNothing DEF Stream, roomVars, RoomStays, recorded
<1>8. \/ \E c \in Connections : Handle(c)
      \/ \E q \in rooms : Echo(q)
      \/ Announce \/ CleanUp \/ SendQueued(Me)
      \/ UNCHANGED <<sent, messages_out, roomVars>>
  BY DEF SystemNext, system, vars, taskVars, Carry, UserActs, PeerActs, Serve, QueueRequest,
         Received, serverSide, clientSide, ServerWorker, StartBatch, StopServing, NextClient
<1>. QED  BY <1>2, <1>3, <1>4, <1>5, <1>6, <1>7, <1>8

-----------------------------------------------------------------------------
(***************************************************************************)
(* What the transcript of a joined room comes to.                          *)
(***************************************************************************)
\* The list, an end of the room or a reply about it is still to come.
Settling(r) == \/ Asked \/ ListUnseen
               \/ create_room_destroy(r) \in Unseen
               \/ create_room_history(r, HistoryCount) \in Requested

\* When a join is under way so is the request for the history that follows it.
LEMMA HistoryAsked ==
    ASSUME NEW a \in Seq(WindowRequests), NEW b \in Seq(WindowRequests), FollowedIn(a \o b),
           NEW r, create_room_join(r) \in Elements(b) \cup Elements(a)
    PROVE  create_room_history(r, HistoryCount) \in Elements(b) \cup Elements(a)
<1>1. Elements(a) \cup Elements(b) \subseteq Elements(a \o b)
  BY ConcatElements
<1>2. PICK i \in DOMAIN (a \o b) : (a \o b)[i] = create_room_join(r)
  BY <1>1 DEF Elements
<1>3. (a \o b)[i].type = "ROOM_JOIN" /\ (a \o b)[i].room = r
  BY <1>2 DEF create_room_join
<1>4. PICK j \in DOMAIN (a \o b) : (a \o b)[j] = create_room_history(r, HistoryCount)
  BY <1>3 DEF FollowedIn
<1>5. \/ j \in DOMAIN a /\ (a \o b)[j] = a[j]
      \/ j - Len(a) \in DOMAIN b /\ (a \o b)[j] = b[j - Len(a)]
  OBVIOUS
<1>. QED  BY <1>4, <1>5 DEF Elements

\* The window is a member of a joined room of which nothing is still to come.
LEMMA SettledIsMember ==
    ASSUME Told', JoinsFollowed', out_queue' \in Seq(WindowRequests),
           NEW r \in JoinsOf(window)', ~Settling(r)'
    PROVE  r \in rooms' /\ room'[r].joined[Me] > 0
<1>1. MemberOf(r)'
  BY DEF Told
<1>2. messages_in'[Me] \in Seq(WindowRequests) /\ FollowedIn(messages_in'[Me] \o out_queue')
  BY DEF JoinsFollowed, FollowedIn
<1>3. Requested' = Elements(out_queue') \cup Elements(messages_in'[Me])
  BY DEF Requested, Elements
<1>4. create_room_join(r) \in Requested' => create_room_history(r, HistoryCount) \in Requested'
  BY <1>2, <1>3, HistoryAsked
<1>. QED  BY <1>1, <1>4 DEF MemberOf, Settling

\* Requests are taken by the server only.
LEMMA RequestsStay ==
    ASSUME SystemInvariant, JoinsFollowed,
           ProcessNext \/ Carry \/ UserActs \/ PeerActs \/ UNCHANGED system
    PROVE  Requested \subseteq Requested'
<1>1. /\ TypeOK /\ WindowIsConsistent /\ out_queue \in Seq(WindowRequests)
      /\ user_acts \in 0 .. MaxUserActs /\ Me \in Connections
      /\ DOMAIN messages_in = Connections /\ messages_in[Me] \in Seq(WindowRequests)
  BY SystemAssumption DEF SystemInvariant, SystemTypes, TypeOK, QueueTypes, JoinsFollowed
<1>2. ASSUME messages_in'[Me] = messages_in[Me],
             \/ out_queue' = out_queue
             \/ \E u \in Seq(WindowRequests) : out_queue' = out_queue \o u
      PROVE  Requested \subseteq Requested'
  <2>1. \A u \in Seq(WindowRequests) : Elements(out_queue) \subseteq Elements(out_queue \o u)
    BY <1>1, ConcatElements
  <2>2. Elements(out_queue) \subseteq Elements(out_queue')
    BY <1>2, <2>1
  <2>. QED  BY <1>2, <2>2 DEF Requested, Elements
<1>3. \A r \in WindowNames : Asks(r) \in Seq(WindowRequests)
  BY FollowedAsked
<1>4. CASE ProcessNext
  <2>1. Process(sent[Me][seen + 1]) /\ messages_in'[Me] = messages_in[Me]
    BY <1>4 DEF ProcessNext, vars
  <2>2. \/ out_queue' = out_queue
        \/ \E r \in WindowNames : out_queue' = out_queue \o Asks(r)
    BY <1>1, <2>1, ProcessSettles DEF AsksForJoins
  <2>. QED  BY <1>2, <1>3, <2>1, <2>2
<1>5. CASE UserActs
  <2>1. messages_in'[Me] = messages_in[Me]
    BY <1>5 DEF UserActs, vars
  <2>2. \/ out_queue' = out_queue
        \/ \E r \in WindowNames : out_queue' = out_queue \o Asks(r)
        \/ \E m \in UserRequests : out_queue' = Append(out_queue, m)
    BY <1>1, <1>5, UserSettles DEF Settles
  <2>3. \A m \in UserRequests : /\ Append(out_queue, m) = out_queue \o <<m>>
                                /\ <<m>> \in Seq(WindowRequests)
    BY <1>1, AppendIsConcat DEF WindowRequests
  <2>. QED  BY <1>2, <1>3, <2>1, <2>2, <2>3
<1>6. CASE Carry
  <2>1. /\ out_queue # << >> /\ out_queue' = Tail(out_queue)
        /\ messages_in'[Me] = Append(messages_in[Me], Head(out_queue))
    BY <1>1, <1>6 DEF Carry, QueueRequest
  <2>2. Elements(out_queue) \subseteq Elements(out_queue') \cup {Head(out_queue)}
    BY <1>1, <2>1, HeadAndTail
  <2>3. Elements(messages_in'[Me]) = Elements(messages_in[Me]) \cup {Head(out_queue)}
    BY <1>1, <2>1, AppendElements
  <2>. QED  BY <2>2, <2>3 DEF Requested, Elements
<1>7. CASE PeerActs
  <2>1. messages_in'[Me] = messages_in[Me] /\ out_queue' = out_queue
    BY <1>1, <1>7 DEF PeerActs, QueueRequest, windowVars
  <2>. QED  BY <1>2, <2>1
<1>8. CASE UNCHANGED system
  BY <1>2, <1>8 DEF system, vars, windowVars
<1>. QED  BY <1>4, <1>5, <1>6, <1>7, <1>8

\* What has not been processed is, until it is.
LEMMA UnseenStays ==
    ASSUME SystemInvariant, [SystemNext]_system, ~ProcessNext
    PROVE  Unseen \subseteq Unseen'
<1>1. TypeOK /\ Progress /\ Running /\ Me \in Connections
  BY SystemAssumption DEF SystemInvariant, SystemTypes
<1>2. /\ sent[Me] \in Seq(ServerMessages) /\ messages_out[Me] \in Seq(ServerMessages)
      /\ DOMAIN sent = Connections /\ DOMAIN messages_out = Connections
  BY <1>1 DEF TypeOK, TaskTypes, QueueTypes
<1>3. seen' = seen
  BY DEF SystemNext, system, Carry, UserActs, PeerActs, Serve
<1>4. ASSUME NEW t \in Seq(ServerMessages), Stream(Me)' = Stream(Me) \o t
      PROVE  Unseen \subseteq Unseen'
  BY <1>1, <1>3, <1>4, UnseenGrows
<1>5. ASSUME Stream(Me)' = Stream(Me)
      PROVE  Unseen \subseteq Unseen'
  BY <1>3, <1>5 DEF Unseen
<1>6. CASE ServerWorker
  <2>1. PICK t \in Seq(ServerMessages) : messages_out'[Me] = messages_out[Me] \o t
    BY <1>1, <1>6, ServerAppends
  <2>2. Stream(Me)' = Stream(Me) \o t
    BY <1>1, <1>6, <2>1, ServerLeavesTasks, StreamAppends
  <2>. QED  BY <1>4, <2>2
<1>7. CASE SendQueued(Me)
  <2>1. sent'[Me] = sent[Me] \o << >> \o messages_out[Me] /\ messages_out'[Me] = << >>
    BY <1>1, <1>2, <1>7 DEF SendQueued, Running
  <2>2. ASSUME NEW a \in Seq(ServerMessages), NEW b \in Seq(ServerMessages)
        PROVE  (a \o << >> \o b) \o << >> = a \o b
    OBVIOUS
  <2>3. (sent[Me] \o << >> \o messages_out[Me]) \o << >> = sent[Me] \o messages_out[Me]
    BY <1>2, <2>2
  <2>. QED  BY <1>5, <2>1, <2>3 DEF Stream
<1>8. CASE ~Serve
  <2>1. UNCHANGED <<sent, messages_out>>
    BY <1>8 DEF SystemNext, system, vars, taskVars, Carry, UserActs, PeerActs, QueueRequest,
                Received
  <2>. QED  BY <1>5, <2>1 DEF Stream
<1>. QED  BY <1>6, <1>7, <1>8 DEF Serve

\* A room is joined and asked for, or a message leaves it as it was.
LEMMA ReadingSettles ==
    ASSUME SystemInvariant, JoinsFollowed, ProcessNext, NEW r \in JoinsOf(window'), ~Settling(r)'
    PROVE  /\ r \in JoinsOf(window) /\ ~Settling(r)
           /\ sent[Me][seen + 1].type # "ROOM_LIST"
<1>1. TypeOK /\ Progress /\ WindowIsConsistent /\ out_queue \in Seq(WindowRequests)
  BY DEF SystemInvariant, SystemTypes
<1>2. PICK m : m = sent[Me][seen + 1]
  OBVIOUS
<1>3. seen < Len(sent[Me]) /\ seen' = seen + 1 /\ Process(m) /\ Stream(Me)' = Stream(Me)
  BY <1>2 DEF ProcessNext, vars, taskVars, Stream
<1>4. AsksForJoins({q \in JoinsOf(window) :
          m.type # "ROOM_LIST" /\ ~(m.type = "ROOM_DESTROY" /\ m.room = q)})
  BY <1>1, <1>3, ProcessSettles
<1>5. ASSUME NEW q \in WindowNames, out_queue' = out_queue \o Asks(q)
      PROVE  create_room_history(q, HistoryCount) \in Requested'
  <2>1. Asks(q) \in Seq(WindowRequests)
    BY FollowedAsked
  <2>2. Elements(Asks(q)) \subseteq Elements(out_queue')
    BY <1>1, <1>5, <2>1, ConcatElements
  <2>3. 2 \in DOMAIN Asks(q) /\ Asks(q)[2] = create_room_history(q, HistoryCount)
    BY DEF Asks
  <2>. QED  BY <2>2, <2>3 DEF Requested, Elements
<1>6. r \in JoinsOf(window) /\ m.type # "ROOM_LIST" /\ ~(m.type = "ROOM_DESTROY" /\ m.room = r)
  BY <1>4, <1>5 DEF AsksForJoins, Settling
<1>7. Requested \subseteq Requested'
  <2>1. \A q \in WindowNames : Elements(out_queue) \subseteq Elements(out_queue \o Asks(q))
    BY <1>1, FollowedAsked, ConcatElements
  <2>2. Elements(out_queue) \subseteq Elements(out_queue')
    BY <1>4, <2>1 DEF AsksForJoins
  <2>3. messages_in' = messages_in
    BY DEF ProcessNext, vars
  <2>. QED  BY <2>2, <2>3 DEF Requested
<1>8. Unseen \subseteq Unseen' \cup {m}
  <2>1. /\ Len(sent[Me]) \in 0 .. Len(Stream(Me)) /\ Len(Stream(Me)) \in Nat
        /\ seen \in 0 .. Len(Stream(Me))
        /\ \A i \in 1 .. Len(sent[Me]) : Stream(Me)[i] = sent[Me][i]
    BY <1>1, StreamTyped
  <2>2. seen + 1 \in 1 .. Len(sent[Me]) /\ Stream(Me)[seen + 1] = m
    <3>1. seen + 1 \in 1 .. Len(sent[Me])
      BY <1>3, <2>1
    <3>. QED  BY <1>2, <2>1, <3>1
  <2>3. Unseen = {Stream(Me)[i] : i \in seen + 1 .. Len(Stream(Me))}
    BY DEF Unseen
  <2>4. Unseen' = {Stream(Me)[i] : i \in seen + 1 + 1 .. Len(Stream(Me))}
    BY <1>3 DEF Unseen
  <2>5. \A i \in seen + 1 .. Len(Stream(Me)) : i = seen + 1 \/ i \in seen + 1 + 1 .. Len(Stream(Me))
    BY <2>1
  <2>. QED  BY <2>2, <2>3, <2>4, <2>5
<1>9. m # create_room_destroy(r)
  BY <1>6 DEF create_room_destroy
<1>10. /\ Asked => Asked'
       /\ ListUnseen => ListUnseen'
       /\ create_room_destroy(r) \in Unseen => create_room_destroy(r) \in Unseen'
  BY <1>6, <1>7, <1>8, <1>9 DEF Asked, ListUnseen
<1>. QED  BY <1>2, <1>6, <1>7, <1>10 DEF Settling

\* The other steps.
LEMMA StepSettles ==
    ASSUME SystemInvariant, JoinsFollowed, [SystemNext]_system, ~ProcessNext,
           NEW r \in JoinsOf(window'), ~Settling(r)'
    PROVE  /\ r \in JoinsOf(window)
           /\ \/ ~Settling(r)
              \/ /\ HandleRoomHistory(Me)
                 /\ Head(messages_in[Me]) = create_room_history(r, HistoryCount)
<1>1. /\ TypeOK /\ Progress /\ WindowIsConsistent /\ out_queue \in Seq(WindowRequests)
      /\ user_acts \in 0 .. MaxUserActs /\ Me \in Connections
  BY SystemAssumption DEF SystemInvariant, SystemTypes
<1>2. Unseen \subseteq Unseen'
  BY UnseenStays
<1>3. ListUnseen => ListUnseen'
  BY <1>2 DEF ListUnseen
<1>4. ASSUME Requested \subseteq Requested', r \in JoinsOf(window)
      PROVE  r \in JoinsOf(window) /\ ~Settling(r)
  BY <1>2, <1>3, <1>4 DEF Settling, Asked
<1>5. CASE UserActs
  <2>1. Requested \subseteq Requested'
    BY <1>5, RequestsStay
  <2>2. \/ JoinsOf(window') \subseteq JoinsOf(window)
        \/ \E q \in WindowNames : /\ out_queue' = out_queue \o Asks(q)
                                  /\ JoinsOf(window') \subseteq JoinsOf(window) \cup {q}
    BY <1>1, <1>5, UserSettles DEF Settles
  <2>3. ASSUME NEW q \in WindowNames, out_queue' = out_queue \o Asks(q)
        PROVE  create_room_history(q, HistoryCount) \in Requested'
    <3>1. Asks(q) \in Seq(WindowRequests)
      BY FollowedAsked
    <3>2. Elements(Asks(q)) \subseteq Elements(out_queue')
      BY <1>1, <2>3, <3>1, ConcatElements
    <3>3. 2 \in DOMAIN Asks(q) /\ Asks(q)[2] = create_room_history(q, HistoryCount)
      BY DEF Asks
    <3>. QED  BY <3>2, <3>3 DEF Requested, Elements
  <2>4. r \in JoinsOf(window)
    BY <2>2, <2>3 DEF Settling
  <2>. QED  BY <1>4, <2>1, <2>4
<1>6. CASE Carry \/ PeerActs \/ UNCHANGED system
  <2>1. window' = window
    BY <1>6 DEF Carry, PeerActs, windowVars, system
  <2>. QED  BY <1>4, <1>6, <2>1, RequestsStay
<1>7. CASE Serve
  <2>1. window' = window /\ out_queue' = out_queue /\ (ServerWorker \/ SendQueued(Me))
    BY <1>7 DEF Serve, windowVars
  <2>2. r \in JoinsOf(window)
    BY <2>1
  <2>3. CASE messages_in' = messages_in
    BY <1>4, <2>1, <2>2, <2>3 DEF Requested
  <2>4. ASSUME NEW c \in Connections, Handle(c)
        PROVE  \/ ~Settling(r)
               \/ /\ HandleRoomHistory(Me)
                  /\ Head(messages_in[Me]) = create_room_history(r, HistoryCount)
    <3>1. PICK type : Pop(c, type)
      BY <2>4 DEF Handle, HandleRoomList, HandleRoomCreate, HandleRoomJoin, HandleRoomDestroy,
                  HandleRoomHistory, HandleChatSend, HandleOther
    <3>2. /\ c # Me => Requested' = Requested
          /\ Requested \subseteq Requested' \cup {Head(messages_in[c])}
      BY <1>1, <2>1, <3>1, HeadTaken
    <3>3. CASE c # Me
      BY <1>4, <2>2, <3>2, <3>3
    <3>4. CASE c = Me
      <4>1. Handle(Me) /\ Requested \subseteq Requested' \cup {Head(messages_in[Me])}
        BY <2>4, <3>2, <3>4
      <4>2. CASE Head(messages_in[Me]) = room_list_request
        <5>1. HandleRoomList(Me)
          <6>1. Head(messages_in[Me]).type = "ROOM_LIST"
            BY <4>2 DEF room_list_request
          <6>. QED  BY <4>1, <6>1 DEF Handle, HandleRoomCreate, HandleRoomJoin,
                        HandleRoomDestroy, HandleRoomHistory, HandleChatSend, HandleOther, Pop
        <5>2. ListUnseen'
          <6>1. PICK m : m = create_room_list(rooms)
            OBVIOUS
          <6>2. m \in ServerMessages /\ m.type = "ROOM_LIST"
            BY <1>1, <6>1, MessagesTyped DEF TypeOK, RoomTypes, create_room_list
          <6>3. /\ messages_out[Me] \in Seq(ServerMessages) /\ DOMAIN messages_out = Connections
                /\ messages_out' = [messages_out EXCEPT ![Me] = Append(@, m)] /\ sent' = sent
            BY <1>1, <5>1, <6>1
               DEF TypeOK, QueueTypes, HandleRoomList, Reply, Pop, clientSide, taskVars
          <6>4. messages_out'[Me] = messages_out[Me] \o <<m>> /\ <<m>> \in Seq(ServerMessages)
            BY <1>1, <6>2, <6>3, AppendIsConcat
          <6>5. Stream(Me)' = Stream(Me) \o <<m>>
            BY <1>1, <6>3, <6>4, StreamAppends
          <6>6. seen' = seen
            BY <1>7 DEF Serve
          <6>7. \A i \in DOMAIN <<m>> : <<m>>[i] \in Unseen'
            BY <1>1, <6>4, <6>5, <6>6, UnseenGrows
          <6>8. 1 \in DOMAIN <<m>> /\ <<m>>[1] = m
            OBVIOUS
          <6>. QED  BY <6>2, <6>7, <6>8 DEF ListUnseen
        <5>. QED  BY <5>2 DEF Settling
      <4>3. CASE Head(messages_in[Me]) = create_room_history(r, HistoryCount)
        <5>1. Head(messages_in[Me]).type = "ROOM_HISTORY"
          BY <4>3 DEF create_room_history
        <5>2. HandleRoomHistory(Me)
          BY <4>1, <5>1 DEF Handle, HandleRoomList, HandleRoomCreate, HandleRoomJoin,
                            HandleRoomDestroy, HandleChatSend, HandleOther, Pop
        <5>. QED  BY <4>3, <5>2
      <4>4. CASE /\ Head(messages_in[Me]) # room_list_request
                 /\ Head(messages_in[Me]) # create_room_history(r, HistoryCount)
        BY <1>2, <1>3, <4>1, <4>4 DEF Settling, Asked
      <4>. QED  BY <4>2, <4>3, <4>4
    <3>. QED  BY <3>3, <3>4
  <2>5. messages_in' = messages_in \/ \E c \in Connections : Handle(c)
    BY <2>1 DEF ServerWorker, StartBatch, StopServing, NextClient, Announce, Echo, CleanUp,
                SendQueued
  <2>. QED  BY <1>4, <2>1, <2>2, <2>3, <2>4, <2>5
<1>. QED  BY <1>5, <1>6, <1>7 DEF SystemNext

\* When all is read that is sent, and all is said that waits, the transcript of the room
\* retells its history.
Retold(r) == \E t \in Seq(Events) :
                /\ ComesTo(Stream(Me), seen, window.chat_room_history, r, t)
                /\ Retells(t \o room[r].events, recorded(r))

Continued(r) == \/ Settling(r)
                \/ r \in rooms /\ room[r].joined[Me] > 0 /\ (Brief(r) => Retold(r))

Transcribed == \A r \in JoinsOf(window) : Continued(r)

\* A transcript that shows that the next state retells the history.
LEMMA RetoldBy ==
    ASSUME NEW r, NEW t \in Seq(Events),
           ComesTo(Stream(Me)', seen', window'.chat_room_history, r, t),
           Retells(t \o room'[r].events, recorded(r)')
    PROVE  Retold(r)'
BY DEF Retold

\* The log of a room in the next state.
LEMMA BriefNext ==
    ASSUME NEW r, Brief(r)'
    PROVE  /\ Len(recorded(r)') < HistoryLimit /\ Len(recorded(r)') <= HistoryCount
           /\ 2 * Len(recorded(r)') <= TranscriptLimit
BY DEF Brief

\* A reply starts the transcript with all that was said, and what waits is said again.
LEMMA ReplyRetells ==
    ASSUME TypeOK, Progress, seen' = seen, NEW r \in rooms, LinesWait(r), Brief(r), RoomStays(r),
           NEW m, m = get_room_history(r, recorded(r), HistoryCount),
           Stream(Me)' = Stream(Me) \o <<m>>
    PROVE  Retold(r)'
<1>1. PICK log \in Seq(Events) : log = recorded(r)
  BY LogTyped
<1>2. /\ Len(log) < HistoryLimit /\ Len(log) <= HistoryCount /\ 2 * Len(log) <= TranscriptLimit
      /\ Len(log) \in Nat /\ HistoryCount \in Nat /\ TranscriptLimit \in Nat
  BY <1>1, WindowAssumption DEF Brief
<1>3. m.events = log
  <2>1. HistoryCount \in 1 .. Len(log) => SubSeq(log, 1, HistoryCount) = log
    BY <1>2
  <2>2. m.events = IF HistoryCount \in 1 .. Len(log) THEN SubSeq(log, 1, HistoryCount) ELSE log
    BY <1>1 DEF get_room_history, history_message
  <2>. QED  BY <2>1, <2>2
<1>4. m \in ServerMessages
  BY <1>1, <1>2, RoomsTyped, HistoryMessageTyped
<1>5. Rewrites(m, r)
  BY DEF Rewrites, get_room_history, history_message
<1>6. Stream(Me) \in Seq(ServerMessages) /\ seen \in 0 .. Len(Stream(Me))
  BY StreamTyped
<1>7. ComesTo(Stream(Me) \o <<m>>, seen, window'.chat_room_history, r, LastOf(log, TranscriptLimit))
  BY <1>3, <1>4, <1>5, <1>6, ComesAnew
<1>8. LastOf(log, TranscriptLimit) = log
  <2>1. ~(Len(log) > TranscriptLimit) /\ Len(log) - 0 = Len(log)
    BY <1>2
  <2>2. log = [i \in 1 .. Len(log) |-> log[i]] /\ \A i \in 1 .. Len(log) : i + 0 = i
    OBVIOUS
  <2>3. [i \in 1 .. Len(log) |-> log[i + 0]] = [i \in 1 .. Len(log) |-> log[i]]
    BY <2>2
  <2>. QED  BY <2>1, <2>2, <2>3 DEF LastOf
<1>9. PICK k \in 1 .. Len(log) + 1 : room[r].events = SubSeq(log, k, Len(log))
  BY <1>1, <1>2 DEF LinesWait
<1>10. Retells(log \o room[r].events, log)
  BY <1>9, RetellsWhole
<1>. QED  BY <1>1, <1>7, <1>8, <1>10, RetoldBy DEF RoomStays

\* What a member hears makes its transcript retell what is said.
LEMMA HearingRetells ==
    ASSUME TypeOK, Progress, seen' = seen,
           window'.chat_room_history = window.chat_room_history,
           NEW r \in rooms, LinesWait(r), Brief(r) => Retold(r), Brief(r)',
           NEW u \in Seq(ServerMessages), Stream(Me)' = Stream(Me) \o u, Hearing(r, u)
    PROVE  Retold(r)'
<1>1. /\ Stream(Me) \in Seq(ServerMessages) /\ seen \in 0 .. Len(Stream(Me))
      /\ recorded(r) \in Seq(Events) /\ room[r].events \in Seq(Events) /\ r \in ValidNames
  BY StreamTyped, LogTyped, RoomsTyped
<1>2. recorded(r)' = recorded(r) => Brief(r)
  BY BriefNext DEF Brief
<1>3. ASSUME Brief(r), Untold(u, r)
      PROVE  \E t \in Seq(Events) :
                /\ ComesTo(Stream(Me)', seen', window'.chat_room_history, r, t)
                /\ Retells(t \o room[r].events, recorded(r))
  <2>1. PICK t \in Seq(Events) : /\ ComesTo(Stream(Me), seen, window.chat_room_history, r, t)
                                 /\ Retells(t \o room[r].events, recorded(r))
    BY <1>3 DEF Retold
  <2>2. ComesTo(Stream(Me) \o u, seen, window.chat_room_history, r, t)
    BY <1>1, <1>3, <2>1, ComesSilently DEF Untold
  <2>. QED  BY <2>1, <2>2
<1>4. CASE Untold(u, r) /\ RoomStays(r)
  <2>1. PICK t \in Seq(Events) :
           /\ ComesTo(Stream(Me)', seen', window'.chat_room_history, r, t)
           /\ Retells(t \o room[r].events, recorded(r))
    BY <1>2, <1>3, <1>4 DEF RoomStays
  <2>. QED  BY <1>4, <2>1, RetoldBy DEF RoomStays
<1>5. CASE Untold(u, r) /\ Said(r)
  <2>1. PICK e \in Events : /\ room'[r].events = Append(room[r].events, e)
                            /\ recorded(r)' = Recorded(recorded(r), e, HistoryLimit)
    BY <1>5 DEF Said
  <2>2. recorded(r)' = Append(recorded(r), e) /\ Len(recorded(r)) < HistoryLimit
    BY <1>1, <2>1, BriefNext, LogGrew
  <2>3. Len(Append(recorded(r), e)) = Len(recorded(r)) + 1 /\ Len(recorded(r)) \in Nat
    BY <1>1, AppendIs
  <2>4. Brief(r)
    <3>1. /\ Len(recorded(r)) + 1 <= HistoryCount
          /\ 2 * (Len(recorded(r)) + 1) <= TranscriptLimit
      BY <2>2, <2>3, BriefNext
    <3>2. HistoryCount \in Nat /\ TranscriptLimit \in Nat
      BY WindowAssumption
    <3>3. Len(recorded(r)) <= HistoryCount /\ 2 * Len(recorded(r)) <= TranscriptLimit
      BY <2>3, <3>1, <3>2
    <3>. QED  BY <2>2, <3>3 DEF Brief
  <2>5. PICK t \in Seq(Events) :
           /\ ComesTo(Stream(Me)', seen', window'.chat_room_history, r, t)
           /\ Retells(t \o room[r].events, recorded(r))
    BY <1>3, <1>5, <2>4
  <2>6. Retells(t \o Append(room[r].events, e), Append(recorded(r), e))
    BY <1>1, <2>5, RetellsMore
  <2>. QED  BY <2>1, <2>2, <2>5, <2>6, RetoldBy
<1>6. CASE u = EchoesOf(r, room[r].events) /\ Emptied(r)
  <2>1. Brief(r)
    BY <1>2, <1>6 DEF Emptied
  <2>2. PICK t \in Seq(Events) : /\ ComesTo(Stream(Me), seen, window.chat_room_history, r, t)
                                 /\ Retells(t \o room[r].events, recorded(r))
    BY <2>1 DEF Retold
  <2>3. PICK w \in Seq(Events) : w = room[r].events
    BY <1>1
  <2>4. PICK log \in Seq(Events) : log = recorded(r)
    BY <1>1
  <2>5. Len(t) + Len(w) <= TranscriptLimit
    <3>1. Len(t) + Len(w) <= 2 * Len(log)
      BY <2>2, <2>3, <2>4, RetellsShort
    <3>2. 2 * Len(log) <= TranscriptLimit /\ TranscriptLimit \in Nat
      BY <2>1, <2>4, WindowAssumption DEF Brief
    <3>. QED  BY <3>1, <3>2
  <2>6. ComesTo(Stream(Me) \o EchoesOf(r, w), seen, window.chat_room_history, r, t \o w)
    BY <1>1, <2>2, <2>5, ComesEchoed
  <2>7. t \o w \in Seq(Events) /\ (t \o w) \o << >> = t \o w
    OBVIOUS
  <2>8. Retells((t \o w) \o << >>, log)
    BY <2>2, <2>3, <2>4, <2>7
  <2>. QED  BY <1>6, <2>3, <2>4, <2>6, <2>7, <2>8, RetoldBy DEF Emptied
<1>7. CASE u = <<get_room_history(r, recorded(r), HistoryCount)>> /\ RoomStays(r)
  <2>1. Brief(r)
    BY <1>2, <1>7 DEF RoomStays
  <2>. QED  BY <1>7, <2>1, ReplyRetells
<1>. QED  BY <1>4, <1>5, <1>6, <1>7 DEF Hearing

\* A room that is joined is displayed.
LEMMA JoinedIsDisplayed ==
    ASSUME NEW w, IsWindow(w), NEW r \in JoinsOf(w)
    PROVE  r \in Displayed(w)
<1>1. PICK i \in DOMAIN w.client_rooms : w.client_rooms[i].name = r
  BY DEF JoinsOf, Joined
<1>. QED  BY <1>1, NamesOfWindow DEF Displayed, Elements

\* The window reads a message.
LEMMA ReadingRetells ==
    ASSUME SystemInvariant, ProcessNext, WindowIsConsistent', NEW r \in JoinsOf(window),
           r \in JoinsOf(window'), sent[Me][seen + 1].type # "ROOM_LIST", Retold(r)
    PROVE  Retold(r)'
<1>1. TypeOK /\ Progress /\ WindowIsConsistent
  BY DEF SystemInvariant, SystemTypes
<1>2. PICK m : m = sent[Me][seen + 1]
  OBVIOUS
<1>3. /\ seen < Len(sent[Me]) /\ seen' = seen + 1 /\ Process(m) /\ Stream(Me)' = Stream(Me)
      /\ room' = room /\ history' = history
  BY <1>2 DEF ProcessNext, vars, taskVars, roomVars, Stream
<1>4. /\ Stream(Me) \in Seq(ServerMessages) /\ seen \in 0 .. Len(Stream(Me)) - 1
      /\ Stream(Me)[seen + 1] = m
  <2>1. /\ Len(sent[Me]) \in 0 .. Len(Stream(Me)) /\ Len(Stream(Me)) \in Nat
        /\ seen \in 0 .. Len(Stream(Me))
        /\ \A i \in 1 .. Len(sent[Me]) : Stream(Me)[i] = sent[Me][i]
        /\ Stream(Me) \in Seq(ServerMessages)
    BY <1>1, StreamTyped
  <2>2. seen + 1 \in 1 .. Len(sent[Me])
    BY <1>3, <2>1
  <2>. QED  BY <1>2, <1>3, <2>1, <2>2
<1>5. r \in Displayed(window) /\ r \in Displayed(window')
  <2>1. IsWindow(window) /\ IsWindow(window')
    BY <1>1 DEF WindowIsConsistent, Consistent, IsWindow, Windows
  <2>. QED  BY <2>1, JoinedIsDisplayed
<1>6. PICK t \in Seq(Events) : /\ ComesTo(Stream(Me), seen, window.chat_room_history, r, t)
                               /\ Retells(t \o room[r].events, recorded(r))
  BY DEF Retold
<1>7. LET h == window.chat_room_history
          next == window'.chat_room_history
      IN  /\ r \in DOMAIN h => r \in DOMAIN next /\ next[r] = AfterReading(h[r], m, r)
          /\ Rewrites(m, r) => /\ r \in DOMAIN next
                               /\ next[r] = LastOf(m.events, TranscriptLimit)
  BY <1>1, <1>2, <1>3, <1>5, ProcessReads
<1>8. ComesTo(Stream(Me), seen + 1, window'.chat_room_history, r, t)
  BY <1>4, <1>6, <1>7, ComesOn
<1>9. recorded(r)' = recorded(r)
  BY <1>3 DEF recorded
<1>. QED  BY <1>3, <1>6, <1>8, <1>9, RetoldBy

\* The transcript of a room that is joined stays one that retells the history: either the
\* list, an end or a reply is still to come, or the step lets it hear what it must.
LEMMA TranscribedStays ==
    ASSUME SystemInvariant, SystemInvariant', JoinedOnce, JoinsFollowed, JoinsFollowed',
           \A r \in rooms : LinesWait(r), Transcribed, [SystemNext]_system
    PROVE  Transcribed'
<1>. SUFFICES ASSUME NEW r \in JoinsOf(window'), ~Settling(r)'
              PROVE  Continued(r)'
  <2>1. JoinsOf(window)' = JoinsOf(window')
    BY DEF JoinsOf, Joined
  <2>. QED  BY <2>1 DEF Transcribed, Continued
<1>1. TypeOK /\ Progress /\ WindowIsConsistent /\ WindowIsConsistent'
  BY DEF SystemInvariant, SystemTypes
<1>2. r \in rooms' /\ room'[r].joined[Me] > 0
  <2>1. Told' /\ out_queue' \in Seq(WindowRequests) /\ r \in JoinsOf(window)'
    BY DEF SystemInvariant, SystemTypes, JoinsOf, Joined
  <2>. QED  BY <2>1, SettledIsMember
<1>3. SUFFICES ASSUME Brief(r)'
               PROVE  Retold(r)'
  BY <1>2 DEF Continued
<1>4. CASE ProcessNext
  <2>1. /\ r \in JoinsOf(window) /\ ~Settling(r)
        /\ sent[Me][seen + 1].type # "ROOM_LIST"
    BY <1>4, ReadingSettles
  <2>2. Brief(r) => Retold(r)
    BY <2>1 DEF Transcribed, Continued
  <2>3. recorded(r)' = recorded(r)
    BY <1>4 DEF ProcessNext, vars, roomVars, recorded
  <2>4. Brief(r)
    BY <1>3, <2>3, BriefNext DEF Brief
  <2>. QED  BY <1>1, <1>4, <2>1, <2>2, <2>4, ReadingRetells
<1>5. CASE ~ProcessNext
  <2>1. /\ r \in JoinsOf(window)
        /\ \/ ~Settling(r)
           \/ /\ HandleRoomHistory(Me)
              /\ Head(messages_in[Me]) = create_room_history(r, HistoryCount)
    BY <1>5, StepSettles
  <2>2. seen' = seen /\ window'.chat_room_history = window.chat_room_history
    BY <1>1, <1>5, UserLeavesTranscripts
       DEF SystemNext, system, windowVars, Carry, UserActs, PeerActs, Serve
  <2>3. CASE ~Settling(r)
    <3>1. r \in rooms /\ room[r].joined[Me] > 0 /\ (Brief(r) => Retold(r))
      BY <2>1, <2>3 DEF Transcribed, Continued
    <3>2. Heard(r)
      BY <1>2, <1>5, <3>1, StepsHeard
    <3>. QED  BY <1>1, <1>3, <2>2, <3>1, <3>2, HearingRetells DEF Heard
  <2>4. CASE /\ HandleRoomHistory(Me)
             /\ Head(messages_in[Me]) = create_room_history(r, HistoryCount)
    <3>1. r \in rooms /\ RoomStays(r)
      BY <1>2, <2>4 DEF HandleRoomHistory, roomVars, rooms, RoomStays, recorded
    <3>2. Stream(Me)' = Stream(Me) \o <<get_room_history(r, recorded(r), HistoryCount)>>
      BY <1>1, <2>4, <3>1, ReplyHeard
    <3>3. Brief(r)
      BY <1>3, <3>1, BriefNext DEF Brief, RoomStays
    <3>. QED  BY <1>1, <2>2, <3>1, <3>2, <3>3, ReplyRetells
  <2>. QED  BY <2>1, <2>3, <2>4
<1>. QED  BY <1>4, <1>5

-----------------------------------------------------------------------------
(***************************************************************************)
(* The theorem about transcripts.                                          *)
(***************************************************************************)
LEMMA SystemKeepsOnce ==
    ASSUME TypeOK, JoinedOnce, [SystemNext]_system
    PROVE  JoinedOnce'
<1>1. CASE room' = room
  BY <1>1 DEF JoinedOnce, rooms
<1>2. CASE ServerWorker \/ SendQueued(Me)
  <2>1. [Next]_vars
    BY <1>2, SystemAssumption DEF Next, ClientTask
  <2>. QED  BY <2>1, MembershipsStayOnce
<1>3. room' = room \/ ServerWorker \/ SendQueued(Me)
  BY DEF SystemNext, system, vars, roomVars, ProcessNext, Carry, UserActs, PeerActs, Serve,
         QueueRequest, Received, serverSide
<1>. QED  BY <1>1, <1>2, <1>3

\* The inductive invariant.
TranscriptInvariant ==
    /\ SystemInvariant /\ JoinedOnce /\ JoinsFollowed
    /\ \A r \in rooms : LinesWait(r)
    /\ Transcribed

\* Initially no room is joined.
LEMMA TranscriptsStart == SystemInit => TranscriptInvariant
<1>. SUFFICES ASSUME SystemInit
              PROVE  TranscriptInvariant
  OBVIOUS
<1>1. SystemInvariant /\ JoinsFollowed
  BY SystemStarts, JoinsStartFollowed
<1>2. /\ room = [r \in InitialRooms \cap ValidNames |-> NewRoom]
      /\ history = [r \in {} |-> << >>]
  BY DEF SystemInit
<1>3. JoinedOnce
  BY <1>2 DEF JoinedOnce, NewRoom, rooms
<1>4. ASSUME NEW r \in rooms
      PROVE  LinesWait(r)
  <2>1. room[r].events = << >>
    BY <1>2 DEF rooms, NewRoom
  <2>2. recorded(r) = << >>
    BY <1>2 DEF recorded
  <2>3. Len(<< >>) = 0 /\ 1 \in 1 .. 0 + 1 /\ SubSeq(<< >>, 1, 0) = << >>
    OBVIOUS
  <2>. QED  BY <2>1, <2>2, <2>3 DEF LinesWait
<1>5. Asked
  <2>1. out_queue = <<room_list_request>>
    BY WindowStartsConsistent DEF SystemInit
  <2>2. 1 \in DOMAIN <<room_list_request>> /\ <<room_list_request>>[1] = room_list_request
    OBVIOUS
  <2>. QED  BY <2>1, <2>2 DEF Asked, Requested, Elements
<1>6. Transcribed
  BY <1>5 DEF Transcribed, Continued, Settling
<1>. QED  BY <1>1, <1>3, <1>4, <1>6 DEF TranscriptInvariant

\* Every step preserves each part of the invariant.
LEMMA TranscriptsStay == TranscriptInvariant /\ [SystemNext]_system => TranscriptInvariant'
<1>. SUFFICES ASSUME TranscriptInvariant, [SystemNext]_system
              PROVE  TranscriptInvariant'
  OBVIOUS
<1>1. /\ SystemInvariant /\ JoinedOnce /\ JoinsFollowed /\ Transcribed
      /\ \A r \in rooms : LinesWait(r)
      /\ TypeOK /\ DoomedAreGathered
  BY DEF TranscriptInvariant, SystemInvariant, SystemTypes
<1>2. SystemInvariant'
  BY <1>1, SystemStays
<1>3. JoinsFollowed'
  BY <1>1, JoinsStayFollowed
<1>4. JoinedOnce'
  BY <1>1, SystemKeepsOnce
<1>5. \A r \in rooms' : LinesWait(r)'
  BY <1>1, LinesStillWait
<1>6. Transcribed'
  BY <1>1, <1>2, <1>3, TranscribedStays
<1>. QED  BY <1>2, <1>3, <1>4, <1>5, <1>6 DEF TranscriptInvariant

\* When nothing is in flight the transcript of the selected room shows the room's history
\* and nothing else, in order and without a gap, though an event may be shown twice:
\* whatever was said by whom, destroyed and created again, joined, replied and echoed in
\* between, as long as the room's limits were not met.
THEOREM TranscriptTellsHistory == SystemSpec => []TranscriptIsHistory
<1>1. TranscriptInvariant => TranscriptIsHistory
  <2>. SUFFICES ASSUME TranscriptInvariant, NEW r, r = window.current_room_name,
                       Quiet, r # NoRoom, Brief(r)
                PROVE  /\ r \in DOMAIN window.chat_room_history
                       /\ Retells(window.chat_room_history[r], recorded(r))
    BY DEF TranscriptIsHistory
  <2>1. /\ SystemInvariant /\ TypeOK /\ Transcribed /\ \A q \in rooms : LinesWait(q)
        /\ Joined(window, r) /\ IsWindow(window)
    BY NothingInFlight DEF TranscriptInvariant, SystemInvariant, SystemTypes, WindowIsConsistent,
                           UpToDate, ShowsJoined, Consistent
  <2>2. r \in JoinsOf(window)
    <3>1. PICK i \in DOMAIN window.client_rooms : window.client_rooms[i].name = r
      BY <2>1 DEF Joined
    <3>2. names(window) \in Seq(WindowNames) /\ i \in DOMAIN names(window)
          /\ names(window)[i] = r
      BY <2>1, <3>1, NamesOfWindow
    <3>3. r \in WindowNames
      BY <3>2
    <3>. QED  BY <2>1, <3>3 DEF JoinsOf
  <2>3. r \in rooms /\ Retold(r)
    BY <2>1, <2>2, NothingInFlight DEF Transcribed, Continued, Settling, ListUnseen
  <2>4. Stream(Me) \in Seq(ServerMessages) /\ seen = Len(Stream(Me))
    <3>1. sent[Me] \in Seq(ServerMessages)
      BY <2>1, SystemAssumption DEF TypeOK, TaskTypes
    <3>2. Stream(Me) = sent[Me]
      BY <3>1 DEF Quiet, Stream
    <3>. QED  BY <3>1, <3>2 DEF Quiet
  <2>5. room[r].events = << >>
    BY <2>1, <2>3 DEF LinesWait, Quiet
  <2>6. PICK t \in Seq(Events) : /\ ComesTo(Stream(Me), seen, window.chat_room_history, r, t)
                                 /\ Retells(t \o room[r].events, recorded(r))
    BY <2>3 DEF Retold
  <2>7. r \in DOMAIN window.chat_room_history /\ window.chat_room_history[r] = t
    BY <2>4, <2>6, ComesRead
  <2>8. t \o << >> = t
    OBVIOUS
  <2>. QED  BY <2>5, <2>6, <2>7, <2>8
<1>. QED  BY <1>1, TranscriptsStart, TranscriptsStay, PTL DEF SystemSpec
=============================================================================
