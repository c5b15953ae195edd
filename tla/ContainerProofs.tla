--------------------------- MODULE ContainerProofs --------------------------
(***************************************************************************)
(* Proofs about the server's two containers: RingBuffer for every set of   *)
(* values and every capacity, and RoomManager for every set of names.      *)
(***************************************************************************)
EXTENDS Containers, SelectionProofs

-----------------------------------------------------------------------------
(***************************************************************************)
(* Types.                                                                  *)
(***************************************************************************)

\* Advancing an index of the array modulo the capacity stays inside the array and is
\* the same as comparing with the capacity, which is how increment() and the iterator
\* respectively wrap.
LEMMA WrapValue ==
    ASSUME NEW h \in Slots
    PROVE  /\ (h + 1) % Capacity = After(h)
           /\ After(h) \in Slots
           /\ Before(h) \in Slots
<1>1. Capacity \in Nat /\ Capacity > 0
  BY CapacityAssumption
<1>2. CASE h + 1 = Capacity
  BY <1>1, <1>2, SMT DEF Slots, After, Before
<1>3. CASE h + 1 # Capacity
  BY <1>1, <1>3, SMT DEF Slots, After, Before
<1>. QED  BY <1>2, <1>3

\* No index is mistaken for the absence of an iterator.
LEMMA SlotIsNotNull == \A s \in Slots : s # Null
BY NullAssumption, CapacityAssumption DEF Slots

\* The indices, the slots and the iterator keep their types.
THEOREM TypeCorrect == Spec => []TypeOK
<1>1. Init => TypeOK
  <2>1. 0 \in Slots
    BY CapacityAssumption DEF Slots
  <2>. QED  BY <2>1 DEF Init, TypeOK
<1>2. TypeOK /\ [Next]_vars => TypeOK'
  <2>. SUFFICES ASSUME TypeOK, [Next]_vars
                PROVE  TypeOK'
    OBVIOUS
  <2>. USE DEF TypeOK
  <2>1. ASSUME NEW v \in Values, Insert(v)
        PROVE  TypeOK'
    BY <2>1, WrapValue DEF Insert, increment, EndWalk
  <2>2. CASE Reset
    BY <2>2 DEF Reset, EndWalk
  <2>3. CASE Begin
    BY <2>3, SlotIsNotNull DEF Begin, buffer
  <2>4. CASE RBegin
    BY <2>4, SlotIsNotNull DEF RBegin, buffer
  <2>5. CASE Step
    <3>1. pos \in Slots
      BY <2>5 DEF Step
    <3>2. After(pos) \in Slots /\ After(pos) # Null
      BY <3>1, WrapValue, SlotIsNotNull
    <3>3. visited' \in Seq(Values \cup {Null})
      BY <2>5, <3>1 DEF Step
    <3>. QED  BY <2>5, <3>2, <3>3 DEF Step
  <2>6. CASE StepBack
    <3>1. pos \in Slots
      BY <2>6 DEF StepBack
    <3>2. Before(pos) \in Slots /\ Before(pos) # Null
      BY <3>1, WrapValue, SlotIsNotNull
    <3>3. visited' \in Seq(Values \cup {Null})
      BY <2>6, <3>2 DEF StepBack
    <3>. QED  BY <2>6, <3>2, <3>3 DEF StepBack
  <2>7. CASE UNCHANGED vars
    BY <2>7 DEF vars
  <2>. QED  BY <2>1, <2>2, <2>3, <2>4, <2>5, <2>6, <2>7 DEF Next
<1>. QED  BY <1>1, <1>2, PTL DEF Spec

-----------------------------------------------------------------------------
(***************************************************************************)
(* Reading never follows an empty pointer.  ReadableSlotsAreOwned is       *)
(* inductive relative to TypeOK: an insert fills the slot that enters the  *)
(* readable range, and the only other slot whose status changes leaves it. *)
(***************************************************************************)
Readable(s, t, h) == IF t <= h THEN t <= s /\ s < h ELSE s >= t \/ s < h

\* After an insert a slot is readable only if it was readable before or is the slot
\* just written.
LEMMA InsertWidens ==
    ASSUME NEW t \in Slots, NEW h \in Slots, NEW s \in Slots,
           Readable(s, IF t = After(h) THEN After(t) ELSE t, After(h))
    PROVE  s = h \/ Readable(s, t, h)
BY CapacityAssumption, SMT DEF Readable, After, Slots

\* A walk and a look at the oldest element read owned slots only, for every capacity and
\* every sequence of inserts and resets.
THEOREM ReadingIsSafe == Spec => []ReadableSlotsAreOwned
<1>1. Init => ReadableSlotsAreOwned
  BY CapacityAssumption DEF Init, ReadableSlotsAreOwned, Slots
<1>2. TypeOK /\ ReadableSlotsAreOwned /\ [Next]_vars => ReadableSlotsAreOwned'
  <2>. SUFFICES ASSUME TypeOK, ReadableSlotsAreOwned, [Next]_vars
                PROVE  ReadableSlotsAreOwned'
    OBVIOUS
  <2>. USE DEF ReadableSlotsAreOwned
  <2>1. ASSUME NEW v \in Values, Insert(v)
        PROVE  ReadableSlotsAreOwned'
    <3>. SUFFICES ASSUME NEW s \in Slots, Readable(s, tail', head')
                  PROVE  data'[s] \in Values
      BY DEF Readable
    <3>1. /\ head' = After(head)
          /\ tail' = IF tail = After(head) THEN After(tail) ELSE tail
          /\ data' = [data EXCEPT ![head] = v]
      BY <2>1, WrapValue DEF Insert, increment, TypeOK
    <3>2. s = head \/ Readable(s, tail, head)
      BY <3>1, InsertWidens DEF TypeOK
    <3>3. s # head => data[s] \in Values
      BY <3>2 DEF Readable
    <3>. QED  BY <3>1, <3>3 DEF TypeOK
  <2>2. CASE Reset
    BY <2>2 DEF Reset, Slots, TypeOK
  <2>3. CASE UNCHANGED buffer
    BY <2>3 DEF buffer
  <2>4. Begin \/ RBegin \/ Step \/ StepBack \/ UNCHANGED vars => UNCHANGED buffer
    BY DEF Begin, RBegin, Step, StepBack, buffer, vars
  <2>. QED  BY <2>1, <2>2, <2>3, <2>4 DEF Next
<1>. QED  BY <1>1, <1>2, TypeCorrect, PTL DEF Spec

-----------------------------------------------------------------------------
(***************************************************************************)
(* The ring buffer implements a history of the last Capacity - 1 elements. *)
(***************************************************************************)
At(t, i) == IF t + i - 1 < Capacity THEN t + i - 1 ELSE t + i - 1 - Capacity

\* The i-th readable element is found by walking from the tail and wrapping once.
LEMMA AtIsSlot ==
    ASSUME NEW t \in Slots, NEW i \in 1 .. Capacity
    PROVE  (t + i - 1) % Capacity = At(t, i) /\ At(t, i) \in Slots
<1>1. Capacity \in Nat /\ Capacity > 0
  BY CapacityAssumption
<1>2. CASE t + i - 1 < Capacity
  BY <1>1, <1>2, SMT DEF Slots, At
<1>3. CASE t + i - 1 >= Capacity
  BY <1>1, <1>3, SMT DEF Slots, At
<1>. QED  BY <1>1, <1>2, <1>3 DEF Slots

\* From any tail to any head there are fewer than Capacity elements.
LEMMA Distance ==
    ASSUME NEW h \in Slots, NEW t \in Slots
    PROVE  (IF h >= t THEN h - t ELSE Capacity + h - t) \in 0 .. Capacity - 1
<1>1. Capacity \in Nat /\ Capacity > 0
  BY CapacityAssumption
<1>. QED  BY <1>1, SMT DEF Slots

\* How many elements are readable before and after an insert.
LEMMA CountFacts ==
    ASSUME TypeOK
    PROVE  /\ Count \in 0 .. Capacity - 1
           /\ tail = After(head) <=> Count = Capacity - 1
           /\ Contents \in Seq(Values \cup {Null})
           /\ Len(Contents) = Count
           /\ \A i \in 1 .. Count : Contents[i] = data[At(tail, i)]
<1>1. Count \in 0 .. Capacity - 1 /\ (tail = After(head) <=> Count = Capacity - 1)
  BY CapacityAssumption, SMT DEF TypeOK, Slots, Count, After
<1>2. \A i \in 1 .. Count : /\ (tail + i - 1) % Capacity = At(tail, i)
                            /\ At(tail, i) \in Slots
  BY <1>1, AtIsSlot, CapacityAssumption DEF TypeOK
<1>3. /\ Contents \in [1 .. Count -> Values \cup {Null}]
      /\ \A i \in 1 .. Count : Contents[i] = data[At(tail, i)]
  BY <1>2 DEF Contents, TypeOK
<1>4. Contents \in Seq(Values \cup {Null}) /\ Len(Contents) = Count
  BY <1>1, <1>3, CapacityAssumption
<1>. QED  BY <1>1, <1>3, <1>4

\* Stepping back undoes stepping forward.
LEMMA BeforeAfter == ASSUME NEW h \in Slots PROVE Before(After(h)) = h
BY CapacityAssumption, SMT DEF Slots, Before, After

\* An insert records the element in the abstract history: it is appended, and the oldest
\* element goes when Capacity - 1 were held.
LEMMA InsertRecords ==
    ASSUME TypeOK, TypeOK', NEW v \in Values, Insert(v)
    PROVE  History!Record(v)
<1>. DEFINE appended == Append(Contents, v)
<1>1. /\ head' = After(head)
      /\ tail' = IF tail = After(head) THEN After(tail) ELSE tail
      /\ \A s \in Slots : data'[s] = IF s = head THEN v ELSE data[s]
  BY WrapValue DEF Insert, increment, TypeOK
<1>2. /\ Len(appended) = Count + 1
      /\ appended[Count + 1] = v
      /\ \A i \in 1 .. Count : appended[i] = data[At(tail, i)]
  BY CountFacts
<1>3. \A i \in 1 .. Count : At(tail, i) \in Slots /\ At(tail, i) # head
  BY CountFacts, CapacityAssumption, SMT DEF TypeOK, Slots, At, Count
<1>4. At(tail, Count + 1) = head
  BY CapacityAssumption, SMT DEF TypeOK, Slots, At, Count
<1>5. \A i \in 1 .. Count + 1 : data'[At(tail, i)] = appended[i]
  <2>. SUFFICES ASSUME NEW i \in 1 .. Count + 1
                PROVE  data'[At(tail, i)] = appended[i]
    OBVIOUS
  <2>1. CASE i = Count + 1
    BY <2>1, <1>1, <1>2, <1>4 DEF TypeOK
  <2>2. CASE i \in 1 .. Count
    BY <2>2, <1>1, <1>2, <1>3
  <2>. QED  BY <2>1, <2>2, CountFacts
<1>6. Contents' = [i \in 1 .. Count' |-> data'[At(tail', i)]]
  <2>1. \A i \in 1 .. Count' : (tail' + i - 1) % Capacity = At(tail', i)
    <3>1. head' \in Slots /\ tail' \in Slots
      BY DEF TypeOK
    <3>2. Count' = IF head' >= tail' THEN head' - tail' ELSE Capacity + head' - tail'
      BY DEF Count
    <3>3. Count' \in 0 .. Capacity - 1
      BY <3>1, <3>2, Distance
    <3>. QED  BY <3>1, <3>3, AtIsSlot, CapacityAssumption
  <2>. QED  BY <2>1 DEF Contents
<1>. SUFFICES Contents' = History!Recorded(Contents, v, Capacity - 1)
  <2>1. Latest' = v
    BY <1>1, BeforeAfter DEF Latest, TypeOK
  <2>. QED  BY <2>1 DEF History!Record
<1>7. CASE tail # After(head)
  <2>1. Count' = Count + 1 /\ Count + 1 <= Capacity - 1
    BY <1>1, <1>7, CountFacts, CapacityAssumption, SMT DEF TypeOK, Slots, Count, After
  <2>2. Contents' = [i \in 1 .. Count + 1 |-> appended[i]]
    BY <1>1, <1>5, <1>6, <1>7, <2>1
  <2>3. History!LastOf(appended, Capacity - 1) = [i \in 1 .. Count + 1 |-> appended[i]]
    BY <1>2, <2>1, CountFacts, CapacityAssumption DEF History!LastOf
  <2>. QED  BY <2>2, <2>3 DEF History!Recorded
<1>8. CASE tail = After(head)
  <2>1. Count = Capacity - 1 /\ Count' = Capacity - 1
    BY <1>1, <1>8, CountFacts, CapacityAssumption, SMT DEF TypeOK, Slots, Count, After
  <2>2. \A i \in 1 .. Capacity - 1 : At(tail', i) = At(tail, i + 1)
    BY <1>1, <1>8, CapacityAssumption, SMT DEF TypeOK, Slots, At, After
  <2>3. Contents' = [i \in 1 .. Capacity - 1 |-> appended[i + 1]]
    <3>1. \A i \in 1 .. Capacity - 1 : i + 1 \in 1 .. Count + 1
      BY <2>1, CapacityAssumption
    <3>2. \A i \in 1 .. Capacity - 1 : data'[At(tail', i)] = appended[i + 1]
      BY <3>1, <2>2, <1>5
    <3>. QED  BY <3>2, <1>6, <2>1
  <2>4. History!LastOf(appended, Capacity - 1) = [i \in 1 .. Capacity - 1 |-> appended[i + 1]]
    BY <1>2, <2>1, CapacityAssumption DEF History!LastOf
  <2>. QED  BY <2>3, <2>4 DEF History!Recorded
<1>. QED  BY <1>7, <1>8

\* Every behaviour of the ring buffer is one of a history that keeps the last
\* Capacity - 1 elements inserted since the last reset.
THEOREM ImplementsHistory == Spec => KeepsLatestElements
<1>1. Init => History!Init
  <2>. SUFFICES ASSUME Init
                PROVE  Contents = << >> /\ Latest = Null
    BY DEF History!Init
  <2>1. Count = 0
    BY DEF Init, Count
  <2>2. Before(0) \in Slots
    BY CapacityAssumption DEF Before, Slots
  <2>. QED  BY <2>1, <2>2 DEF Contents, Latest, Init
<1>2. TypeOK /\ TypeOK' /\ [Next]_vars => [History!Next]_<<Contents, Latest>>
  <2>. SUFFICES ASSUME TypeOK, TypeOK', [Next]_vars
                PROVE  History!Next \/ UNCHANGED <<Contents, Latest>>
    OBVIOUS
  <2>1. ASSUME NEW v \in Values, Insert(v)
        PROVE  History!Next
    BY <2>1, InsertRecords DEF History!Next
  <2>2. CASE Reset
    <3>1. Count' = 0
      BY <2>2 DEF Reset, Count, TypeOK, Slots
    <3>2. Contents' = << >>
      BY <3>1 DEF Contents
    <3>3. Latest' = Null
      BY <2>2, WrapValue DEF Reset, Latest, TypeOK
    <3>. QED  BY <3>2, <3>3 DEF History!Next, History!Forget
  <2>3. CASE UNCHANGED buffer
    BY <2>3 DEF buffer, Contents, Count, Latest
  <2>4. Begin \/ RBegin \/ Step \/ StepBack \/ UNCHANGED vars => UNCHANGED buffer
    BY DEF Begin, RBegin, Step, StepBack, buffer, vars
  <2>. QED  BY <2>1, <2>2, <2>3, <2>4 DEF Next
<1>. QED  BY <1>1, <1>2, TypeCorrect, PTL DEF Spec, KeepsLatestElements, History!Spec

-----------------------------------------------------------------------------
(***************************************************************************)
(* What a walk yields.  The inductive invariant says how far the iterator  *)
(* is: as many slots past the tail, or before the head, as it has yielded  *)
(* elements.                                                               *)
(***************************************************************************)
WalkIsInStep ==
    /\ way = "forward" =>
         /\ Len(visited) \in 0 .. Count
         /\ \A i \in 1 .. Len(visited) : visited[i] = Contents[i]
         /\ pos = At(tail, Len(visited) + 1)
    /\ way = "backward" =>
         /\ Len(visited) \in 0 .. Count
         /\ \A i \in 1 .. Len(visited) : visited[i] = Contents[Count + 1 - i]
         /\ pos = At(tail, Count + 1 - Len(visited))

\* The head is the one position past the readable elements, the tail the first.
LEMMA EndsOfWalk ==
    ASSUME TypeOK
    PROVE  /\ \A i \in 1 .. Count + 1 : At(tail, i) = head <=> i = Count + 1
           /\ \A i \in 1 .. Count + 1 : At(tail, i) = tail <=> i = 1
           /\ \A i \in 1 .. Count : After(At(tail, i)) = At(tail, i + 1)
           /\ \A i \in 1 .. Count : Before(At(tail, i + 1)) = At(tail, i)
<1>1. /\ Capacity \in Nat /\ Capacity > 0
      /\ head \in 0 .. Capacity - 1 /\ tail \in 0 .. Capacity - 1
  BY CapacityAssumption DEF TypeOK, Slots
<1>. QED  BY <1>1, SMT DEF At, Count, After, Before

\* A walk, whichever way it goes, stays in step with the contents.
LEMMA WalkStaysInStep == TypeOK /\ TypeOK' /\ WalkIsInStep /\ [Next]_vars => WalkIsInStep'
<1>. SUFFICES ASSUME TypeOK, TypeOK', WalkIsInStep, [Next]_vars
              PROVE  WalkIsInStep'
  OBVIOUS
<1>0. Count \in Nat /\ \A i \in 1 .. Count : Contents[i] = data[At(tail, i)]
  BY CountFacts, CapacityAssumption
<1>1. CASE EndWalk
  BY <1>1 DEF EndWalk, WalkIsInStep
<1>2. ASSUME UNCHANGED buffer
      PROVE  UNCHANGED <<Count, Contents, tail, data>>
  BY <1>2 DEF buffer, Count, Contents
<1>3. CASE Begin
  <2>1. visited' = << >> /\ way' = "forward" /\ pos' = tail /\ UNCHANGED buffer
    BY <1>3 DEF Begin
  <2>2. At(tail, 1) = tail
    BY EndsOfWalk, <1>0
  <2>. QED  BY <2>1, <2>2, <1>0, <1>2 DEF WalkIsInStep
<1>4. CASE RBegin
  <2>1. visited' = << >> /\ way' = "backward" /\ pos' = head /\ UNCHANGED buffer
    BY <1>4 DEF RBegin
  <2>2. At(tail, Count + 1) = head
    BY EndsOfWalk, <1>0
  <2>. QED  BY <2>1, <2>2, <1>0, <1>2 DEF WalkIsInStep
<1>5. CASE Step
  <2>1. /\ way = "forward" /\ way' = "forward" /\ pos # head
        /\ visited' = Append(visited, data[pos])
        /\ pos' = After(pos)
        /\ UNCHANGED buffer
    BY <1>5 DEF Step, buffer
  <2>2. /\ Len(visited) \in 0 .. Count
        /\ \A i \in 1 .. Len(visited) : visited[i] = Contents[i]
        /\ pos = At(tail, Len(visited) + 1)
    BY <2>1 DEF WalkIsInStep
  <2>3. Len(visited) + 1 \in 1 .. Count
    BY <2>1, <2>2, <1>0, EndsOfWalk
  <2>4. pos' = At(tail, Len(visited) + 2)
    BY <2>1, <2>2, <2>3, EndsOfWalk
  <2>5. data[pos] = Contents[Len(visited) + 1]
    BY <2>2, <2>3, <1>0
  <2>6. /\ Len(visited') = Len(visited) + 1
        /\ \A i \in 1 .. Len(visited') : visited'[i] = Contents[i]
    BY <2>1, <2>2, <2>5 DEF TypeOK
  <2>. QED  BY <2>1, <2>2, <2>3, <2>4, <2>6, <1>0, <1>2 DEF WalkIsInStep
<1>6. CASE StepBack
  <2>1. /\ way = "backward" /\ way' = "backward" /\ pos # tail
        /\ visited' = Append(visited, data[Before(pos)])
        /\ pos' = Before(pos)
        /\ UNCHANGED buffer
    BY <1>6 DEF StepBack, buffer
  <2>. DEFINE k == Count - Len(visited)
  <2>2. /\ Len(visited) \in 0 .. Count
        /\ \A i \in 1 .. Len(visited) : visited[i] = Contents[Count + 1 - i]
        /\ pos = At(tail, k + 1)
    <3>1. Count + 1 - Len(visited) = k + 1
      BY <1>0 DEF TypeOK
    <3>. QED  BY <2>1, <3>1 DEF WalkIsInStep
  <2>3. k \in 1 .. Count
    BY <2>1, <2>2, <1>0, EndsOfWalk
  <2>4. pos' = At(tail, k)
    BY <2>1, <2>2, <2>3, EndsOfWalk
  <2>5. data[Before(pos)] = Contents[k]
    BY <2>1, <2>3, <2>4, <1>0
  <2>6. /\ Len(visited') = Len(visited) + 1
        /\ \A i \in 1 .. Len(visited') : visited'[i] = Contents[Count + 1 - i]
    BY <2>1, <2>2, <2>5, <1>0 DEF TypeOK
  <2>7. Count + 1 - Len(visited') = k
    BY <2>2, <2>6, <1>0
  <2>8. Len(visited') \in 0 .. Count
    BY <2>2, <2>3, <2>6, <1>0
  <2>. QED  BY <2>1, <2>4, <2>6, <2>7, <2>8, <1>2 DEF WalkIsInStep
<1>7. CASE UNCHANGED vars
  BY <1>7 DEF vars, WalkIsInStep, Count, Contents
<1>. QED  BY <1>1, <1>3, <1>4, <1>5, <1>6, <1>7 DEF Next, Insert, Reset

\* For every capacity and every mix of inserts and resets, a walk yields the contents in
\* its order and ends exactly when it has yielded them all, and size(), empty() and the
\* oldest element agree with what it yields.
THEOREM ReadersAgree == Spec => []ReadersSeeContents
<1>1. Init => WalkIsInStep
  BY DEF Init, WalkIsInStep
<1>2. TypeOK /\ WalkIsInStep => ReadersSeeContents
  <2>. SUFFICES ASSUME TypeOK, WalkIsInStep
                PROVE  ReadersSeeContents
    OBVIOUS
  <2>0. Capacity \in Nat /\ Capacity > 0
    BY CapacityAssumption
  <2>1. /\ Count \in 0 .. Capacity - 1 /\ Len(Contents) = Count
        /\ tail = After(head) <=> Count = Capacity - 1
        /\ \A i \in 1 .. Count : Contents[i] = data[At(tail, i)]
        /\ Contents \in Seq(Values \cup {Null})
    BY CountFacts
  <2>2. ASSUME way = "forward"
        PROVE  /\ visited = SubSeq(Contents, 1, Len(visited))
               /\ (pos = head) <=> (Len(visited) = Count)
    <3>1. /\ Len(visited) \in 0 .. Count
          /\ \A i \in 1 .. Len(visited) : visited[i] = Contents[i]
          /\ pos = At(tail, Len(visited) + 1)
      BY <2>2 DEF WalkIsInStep
    <3>2. visited = SubSeq(Contents, 1, Len(visited))
      BY <2>1, <3>1 DEF TypeOK
    <3>3. Len(visited) + 1 \in 1 .. Count + 1
      BY <3>1, <2>0, <2>1
    <3>. QED  BY <3>1, <3>2, <3>3, <2>0, <2>1, EndsOfWalk
  <2>3. ASSUME way = "backward"
        PROVE  /\ \A i \in 1 .. Len(visited) : visited[i] = Contents[Count + 1 - i]
               /\ (pos = tail) <=> (Len(visited) = Count)
    <3>1. /\ Len(visited) \in 0 .. Count
          /\ \A i \in 1 .. Len(visited) : visited[i] = Contents[Count + 1 - i]
          /\ pos = At(tail, Count + 1 - Len(visited))
      BY <2>3 DEF WalkIsInStep
    <3>2. Count + 1 - Len(visited) \in 1 .. Count + 1
      BY <3>1, <2>0, <2>1
    <3>. QED  BY <3>1, <3>2, <2>0, <2>1, EndsOfWalk
  <2>4. size = IF Count = Capacity - 1 THEN Capacity ELSE Count
    <3>1. full <=> Count = Capacity - 1
      BY <2>1, WrapValue DEF full, TypeOK
    <3>. QED  BY <3>1 DEF size, Count
  <2>5. empty <=> Count = 0
    BY <2>0 DEF empty, Count, TypeOK, Slots
  <2>6. empty <=> (Contents = << >>)
    BY <2>1, <2>5
  <2>7. ~empty => Oldest = Contents[1]
    <3>1. ASSUME ~empty
          PROVE  Oldest = Contents[1]
      <4>1. Count \in Nat /\ 1 \in 1 .. Count
        BY <3>1, <2>0, <2>1, <2>5
      <4>2. At(tail, 1) = tail
        BY <4>1, EndsOfWalk
      <4>. QED  BY <3>1, <4>1, <4>2, <2>1 DEF Oldest
    <3>. QED  BY <3>1
  <2>. QED  BY <2>2, <2>3, <2>4, <2>6, <2>7 DEF ReadersSeeContents
<1>. QED  BY <1>1, <1>2, WalkStaysInStep, TypeCorrect, PTL DEF Spec

-----------------------------------------------------------------------------
(***************************************************************************)
(* The room manager.  std::erase_if keeps a subsequence of the rooms, so that *)
(* what is left has distinct names when all rooms have, and is all there was *)
(* when it is as long.                                                     *)
(***************************************************************************)
\* No two rooms have the same name, and the names are those of the rooms.
ManagedRooms ==
    /\ Manager!TypeOK
    /\ \A i, j \in DOMAIN active_rooms :
          active_rooms[i].room_name = active_rooms[j].room_name => i = j
    /\ room_names = Manager!NameOf(active_rooms)

\* What Picked leaves, places included.
LEMMA Kept ==
    ASSUME ManagedRooms, NEW kept, kept = Manager!Picked(active_rooms, Manager!Unmarked)
    PROVE  /\ kept \in Seq(Manager!Rooms)
           /\ \A i \in DOMAIN kept : ~kept[i].destroy_requested
           /\ \E h \in [DOMAIN kept -> DOMAIN active_rooms] :
                 /\ \A i \in DOMAIN kept : kept[i] = active_rooms[h[i]]
                 /\ \A i, j \in DOMAIN kept : h[i] = h[j] => i = j
           /\ \A i \in DOMAIN active_rooms : ~active_rooms[i].destroy_requested
                 => \E j \in DOMAIN kept : kept[j] = active_rooms[i]
           /\ ~(Len(kept) < Len(active_rooms)) => kept = active_rooms
<1>. DEFINE S == Manager!Unmarked
<1>1. active_rooms \in Seq(Manager!Rooms)
  BY DEF ManagedRooms, Manager!TypeOK
<1>2. kept = Picked(active_rooms, S)
  BY DEF Picked, Manager!Picked
<1>3. \A room : room \in S <=> (\E i \in DOMAIN active_rooms : room = active_rooms[i])
                                  /\ ~room.destroy_requested
  BY DEF Manager!Unmarked, Manager!Elements
<1>. HIDE DEF S
<1>4. kept \in Seq(Manager!Rooms \cap S) /\ Len(kept) <= Len(active_rooms)
  BY <1>1, <1>2, PickedTyped
<1>5. kept \in Seq(Manager!Rooms) /\ \A i \in DOMAIN kept : kept[i] \in S
  BY <1>4
<1>6. PICK h \in [DOMAIN kept -> DOMAIN active_rooms] :
         /\ \A i \in DOMAIN kept : kept[i] = active_rooms[h[i]]
         /\ \A i, j \in DOMAIN kept : i < j => h[i] < h[j]
  BY <1>1, <1>2, PickedInOrder
<1>7. \A i, j \in DOMAIN kept : h[i] = h[j] => i = j
  <2>1. \A i \in DOMAIN kept : i \in Nat /\ h[i] \in Nat
    BY <1>1, <1>5
  <2>2. \A i, j \in Nat : i < j \/ j < i \/ i = j
    OBVIOUS
  <2>3. \A i, j \in Nat : i < j => i # j
    OBVIOUS
  <2>. QED  BY <1>6, <2>1, <2>2, <2>3
<1>8. \A i \in DOMAIN active_rooms : active_rooms[i] \in S
         => \E j \in DOMAIN kept : kept[j] = active_rooms[i]
  BY <1>1, <1>2, PickedHolds
<1>9. ~(Len(kept) < Len(active_rooms)) => kept = active_rooms
  <2>1. Len(kept) = Len(active_rooms) => kept = active_rooms
    BY <1>1, <1>2, PickedWhole
  <2>2. Len(kept) \in Nat /\ Len(active_rooms) \in Nat
    BY <1>1, <1>5
  <2>. QED  BY <1>4, <2>1, <2>2
<1>. QED  BY <1>3, <1>5, <1>6, <1>7, <1>8, <1>9

\* Marking a room changes nothing else.
LEMMA Marked ==
    ASSUME ManagedRooms, NEW r, Manager!request_destroy(r)
    PROVE  \E i \in DOMAIN active_rooms :
              /\ active_rooms[i].room_name = r
              /\ room_names' = room_names /\ active_rooms' \in Seq(Manager!Rooms)
              /\ DOMAIN active_rooms' = DOMAIN active_rooms
              /\ \A j \in DOMAIN active_rooms :
                    /\ active_rooms'[j].room_name = active_rooms[j].room_name
                    /\ active_rooms'[j].destroy_requested =
                          (active_rooms[j].destroy_requested \/ j = i)
<1>1. PICK i \in DOMAIN active_rooms :
         /\ active_rooms[i].room_name = r
         /\ active_rooms' = [active_rooms EXCEPT ![i].destroy_requested = TRUE]
         /\ room_names' = room_names
  BY DEF Manager!request_destroy, Manager!lookup
<1>2. active_rooms \in Seq(Manager!Rooms)
  BY DEF ManagedRooms, Manager!TypeOK
<1>3. \A x \in Manager!Rooms :
         /\ [x EXCEPT !.destroy_requested = TRUE] \in Manager!Rooms
         /\ [x EXCEPT !.destroy_requested = TRUE].room_name = x.room_name
         /\ [x EXCEPT !.destroy_requested = TRUE].destroy_requested = TRUE
         /\ x.destroy_requested \in BOOLEAN
  BY DEF Manager!Rooms
<1>4. \A j \in DOMAIN active_rooms : active_rooms[j] \in Manager!Rooms
  BY <1>2
<1>5. active_rooms' \in Seq(Manager!Rooms) /\ DOMAIN active_rooms' = DOMAIN active_rooms
  <2>1. [active_rooms[i] EXCEPT !.destroy_requested = TRUE] \in Manager!Rooms
    BY <1>3, <1>4
  <2>. QED  BY <1>1, <1>2, <2>1
<1>6. \A j \in DOMAIN active_rooms :
         active_rooms'[j] = IF j = i THEN [active_rooms[i] EXCEPT !.destroy_requested = TRUE]
                                     ELSE active_rooms[j]
  BY <1>1, <1>2
<1>7. ASSUME NEW j \in DOMAIN active_rooms
      PROVE  /\ active_rooms'[j].room_name = active_rooms[j].room_name
             /\ active_rooms'[j].destroy_requested =
                   (active_rooms[j].destroy_requested \/ j = i)
  <2>1. CASE j = i
    <3>1. /\ active_rooms'[j].room_name = active_rooms[j].room_name
          /\ active_rooms'[j].destroy_requested = TRUE
      <4>1. active_rooms'[j] = [active_rooms[j] EXCEPT !.destroy_requested = TRUE]
        BY <1>6, <2>1
      <4>2. active_rooms[j] \in Manager!Rooms
        BY <1>4
      <4>3. [active_rooms[j] EXCEPT !.destroy_requested = TRUE].room_name = active_rooms[j].room_name
        BY <1>3, <4>2
      <4>4. [active_rooms[j] EXCEPT !.destroy_requested = TRUE].destroy_requested = TRUE
        BY <1>3, <4>2
      <4>. QED  BY <4>1, <4>3, <4>4
    <3>2. (active_rooms[j].destroy_requested \/ j = i) = TRUE
      BY <2>1
    <3>. QED  BY <3>1, <3>2
  <2>2. CASE j # i
    <3>1. active_rooms'[j] = active_rooms[j] /\ active_rooms[j].destroy_requested \in BOOLEAN
      BY <1>3, <1>4, <1>6, <2>2
    <3>. QED  BY <2>2, <3>1
  <2>. QED  BY <2>1, <2>2
<1>. QED  BY <1>1, <1>5, <1>7

\* Every operation keeps the vectors in step.
LEMMA ManagedStep == ManagedRooms /\ [Manager!Next]_(Manager!vars) => ManagedRooms'
<1>. SUFFICES ASSUME ManagedRooms, [Manager!Next]_(Manager!vars)
              PROVE  ManagedRooms'
  OBVIOUS
<1>1. /\ active_rooms \in Seq(Manager!Rooms) /\ room_names \in Seq(ValidNames)
      /\ room_names = [i \in DOMAIN active_rooms |-> active_rooms[i].room_name]
      /\ \A i, j \in DOMAIN active_rooms :
            active_rooms[i].room_name = active_rooms[j].room_name => i = j
  BY DEF ManagedRooms, Manager!TypeOK, Manager!NameOf
<1>. SUFFICES /\ active_rooms' \in Seq(Manager!Rooms)
              /\ \A i, j \in DOMAIN active_rooms' :
                    active_rooms'[i].room_name = active_rooms'[j].room_name => i = j
              /\ room_names' = [i \in DOMAIN active_rooms' |-> active_rooms'[i].room_name]
  <2>1. ASSUME NEW s \in Seq(Manager!Rooms)
        PROVE  [i \in DOMAIN s |-> s[i].room_name] \in Seq(ValidNames)
    <3>1. \A i \in DOMAIN s : s[i].room_name \in ValidNames
      <4>1. \A i \in DOMAIN s : s[i] \in Manager!Rooms
        OBVIOUS
      <4>. QED  BY <4>1 DEF Manager!Rooms
    <3>. QED  BY <3>1
  <2>. QED  BY <2>1 DEF ManagedRooms, Manager!TypeOK, Manager!NameOf
<1>2. ASSUME NEW r, Manager!create_room(r)
      PROVE  /\ active_rooms' \in Seq(Manager!Rooms)
             /\ \A i, j \in DOMAIN active_rooms' :
                   active_rooms'[i].room_name = active_rooms'[j].room_name => i = j
             /\ room_names' = [i \in DOMAIN active_rooms' |-> active_rooms'[i].room_name]
  <2>1. /\ r \in ValidNames /\ Manager!Room(r) \in Manager!Rooms /\ Manager!Room(r).room_name = r
        /\ active_rooms' = Append(active_rooms, Manager!Room(r))
        /\ room_names' = Append(room_names, r)
        /\ \A i \in DOMAIN active_rooms : active_rooms[i].room_name # r
    BY <1>1, <1>2 DEF Manager!create_room, Manager!Room, Manager!Rooms, Manager!Elements
  <2>2. /\ DOMAIN active_rooms = 1 .. Len(active_rooms) /\ Len(active_rooms) \in Nat
        /\ DOMAIN active_rooms' = 1 .. Len(active_rooms) + 1
        /\ active_rooms' \in Seq(Manager!Rooms)
        /\ active_rooms'[Len(active_rooms) + 1].room_name = r
        /\ \A i \in 1 .. Len(active_rooms) : active_rooms'[i] = active_rooms[i]
    BY <1>1, <2>1
  <2>3. /\ room_names' \in Seq(ValidNames) /\ Len(room_names') = Len(active_rooms) + 1
        /\ room_names'[Len(active_rooms) + 1] = r
        /\ \A i \in 1 .. Len(active_rooms) : room_names'[i] = active_rooms[i].room_name
    <3>1. Len(room_names) = Len(active_rooms)
      BY <1>1
    <3>. QED  BY <1>1, <2>1, <2>2, <3>1
  <2>4. \A i \in 1 .. Len(active_rooms) + 1 :
           i \in 1 .. Len(active_rooms) \/ i = Len(active_rooms) + 1
    BY <2>2
  <2>5. \A i \in 1 .. Len(active_rooms) + 1 : room_names'[i] = active_rooms'[i].room_name
    BY <2>2, <2>3, <2>4
  <2>6. room_names' = [i \in 1 .. Len(active_rooms) + 1 |-> room_names'[i]]
    BY <2>3
  <2>7. \A i, j \in 1 .. Len(active_rooms) + 1 :
           active_rooms'[i].room_name = active_rooms'[j].room_name => i = j
    BY <1>1, <2>1, <2>2, <2>4
  <2>. QED  BY <2>2, <2>5, <2>6, <2>7
<1>3. ASSUME NEW r, Manager!request_destroy(r)
      PROVE  /\ active_rooms' \in Seq(Manager!Rooms)
             /\ \A i, j \in DOMAIN active_rooms' :
                   active_rooms'[i].room_name = active_rooms'[j].room_name => i = j
             /\ room_names' = [i \in DOMAIN active_rooms' |-> active_rooms'[i].room_name]
  <2>1. /\ room_names' = room_names /\ active_rooms' \in Seq(Manager!Rooms)
        /\ DOMAIN active_rooms' = DOMAIN active_rooms
        /\ \A j \in DOMAIN active_rooms : active_rooms'[j].room_name = active_rooms[j].room_name
    BY <1>3, Marked
  <2>. QED  BY <1>1, <2>1
<1>4. CASE Manager!remove_destroyed_rooms
  <2>. DEFINE kept == Manager!Picked(active_rooms, Manager!Unmarked)
  <2>1. /\ active_rooms' = kept
        /\ room_names' = IF Len(kept) < Len(active_rooms) THEN Manager!NameOf(kept) ELSE room_names
    BY <1>4 DEF Manager!remove_destroyed_rooms
  <2>2. /\ kept \in Seq(Manager!Rooms)
        /\ \E h \in [DOMAIN kept -> DOMAIN active_rooms] :
              /\ \A i \in DOMAIN kept : kept[i] = active_rooms[h[i]]
              /\ \A i, j \in DOMAIN kept : h[i] = h[j] => i = j
        /\ ~(Len(kept) < Len(active_rooms)) => kept = active_rooms
    BY Kept
  <2>. HIDE DEF kept
  <2>3. \A i, j \in DOMAIN kept : kept[i].room_name = kept[j].room_name => i = j
    BY <1>1, <2>2
  <2>4. room_names' = [i \in DOMAIN kept |-> kept[i].room_name]
    BY <1>1, <2>1, <2>2 DEF Manager!NameOf
  <2>. QED  BY <2>1, <2>2, <2>3, <2>4
<1>5. CASE Manager!clear
  <2>1. active_rooms' = << >> /\ room_names' = << >> /\ << >> \in Seq(Manager!Rooms)
    BY <1>5 DEF Manager!clear
  <2>2. << >> = [i \in DOMAIN << >> |-> << >>[i].room_name]
    OBVIOUS
  <2>. QED  BY <2>1, <2>2
<1>6. CASE UNCHANGED Manager!vars
  BY <1>1, <1>6 DEF Manager!vars
<1>. QED  BY <1>2, <1>3, <1>4, <1>5, <1>6 DEF Manager!Next

\* Creating is refused for the names that a look-up finds.
LEMMA LookUpFinds ==
    ASSUME ManagedRooms, NEW r
    PROVE  (Manager!lookup(r) = {}) <=> (r \notin Manager!Elements(room_names))
<1>. DEFINE Places == {i \in DOMAIN active_rooms : active_rooms[i].room_name = r}
<1>1. r \in Manager!Elements(room_names) <=> Places # {}
  BY DEF ManagedRooms, Manager!NameOf, Manager!Elements
<1>2. Manager!lookup(r) \subseteq Places
  BY DEF Manager!lookup
<1>3. ASSUME Places # {}
      PROVE  Manager!lookup(r) # {}
  <2>1. Places \in SUBSET Nat /\ DOMAIN active_rooms = 1 .. Len(active_rooms)
        /\ Len(active_rooms) \in Nat
    BY DEF ManagedRooms, Manager!TypeOK
  <2>2. PICK m \in Places : \A k \in Places : m <= k
    BY <1>3, <2>1, Least
  <2>3. \A j \in 1 .. m - 1 : j \in DOMAIN active_rooms /\ ~(m <= j)
    BY <2>1
  <2>4. m \in Manager!lookup(r)
    BY <2>2, <2>3 DEF Manager!lookup
  <2>. QED  BY <2>4
<1>. QED  BY <1>1, <1>2, <1>3

\* The two vectors of a room manager never disagree, whatever is created, marked, removed
\* and cleared.
THEOREM VectorsAgree == Manager!Spec => []NamesMirrorRooms
<1>1. Manager!Init => ManagedRooms
  <2>1. << >> \in Seq(Manager!Rooms) /\ << >> \in Seq(ValidNames)
        /\ << >> = [i \in DOMAIN << >> |-> << >>[i].room_name]
    OBVIOUS
  <2>. QED  BY <2>1 DEF Manager!Init, ManagedRooms, Manager!TypeOK, Manager!NameOf
<1>2. ManagedRooms /\ [Manager!Next]_(Manager!vars) => ManagedRooms'
  BY ManagedStep
<1>3. ManagedRooms => Manager!NamesMirrorRooms
  <2>. SUFFICES ASSUME ManagedRooms
                PROVE  Manager!NamesMirrorRooms
    OBVIOUS
  <2>1. \A i, j \in DOMAIN room_names : room_names[i] = room_names[j] => i = j
    BY DEF ManagedRooms, Manager!NameOf
  <2>2. \A r \in Names : (Manager!lookup(r) = {}) <=> (r \notin Manager!Elements(room_names))
    BY LookUpFinds
  <2>. QED  BY <2>1, <2>2 DEF ManagedRooms, Manager!NamesMirrorRooms
<1>. QED  BY <1>1, <1>2, <1>3, PTL DEF Manager!Spec, NamesMirrorRooms

\* A room manager is a set of rooms with distinct names.
THEOREM ManagerIsASet == Manager!Spec => BehavesAsSet
<1>. DEFINE names == {active_rooms[i].room_name : i \in DOMAIN active_rooms}
            marked == {k \in DOMAIN active_rooms : active_rooms[k].destroy_requested}
            doomed == {active_rooms[i].room_name : i \in marked}
<1>1. Manager!Init => ManagedRooms /\ Manager!Set!Init
  <2>1. << >> \in Seq(Manager!Rooms) /\ << >> \in Seq(ValidNames)
        /\ << >> = [i \in DOMAIN << >> |-> << >>[i].room_name]
    OBVIOUS
  <2>. QED  BY <2>1 DEF Manager!Init, ManagedRooms, Manager!TypeOK, Manager!NameOf, Manager!Set!Init
<1>2. ManagedRooms /\ [Manager!Next]_(Manager!vars) => ManagedRooms'
  BY ManagedStep
<1>3. ManagedRooms /\ [Manager!Next]_(Manager!vars)
         => [Manager!Set!Next]_<<names, doomed>>
  <2>. SUFFICES ASSUME ManagedRooms, [Manager!Next]_(Manager!vars)
                PROVE  Manager!Set!Next \/ (names' = names /\ doomed' = doomed)
    OBVIOUS
  <2>1. /\ active_rooms \in Seq(Manager!Rooms)
        /\ \A i, j \in DOMAIN active_rooms :
              active_rooms[i].room_name = active_rooms[j].room_name => i = j
        /\ names = Manager!Elements(room_names)
    BY DEF ManagedRooms, Manager!TypeOK, Manager!NameOf, Manager!Elements
  <2>2. ASSUME NEW r \in Names, Manager!create_room(r)
        PROVE  Manager!Set!Next
    <3>1. /\ r \in ValidNames /\ r \notin names
          /\ active_rooms' = Append(active_rooms, Manager!Room(r))
      BY <2>1, <2>2 DEF Manager!create_room
    <3>2. Manager!Room(r).room_name = r /\ Manager!Room(r).destroy_requested = FALSE
      BY DEF Manager!Room
    <3>3. /\ DOMAIN active_rooms' = DOMAIN active_rooms \cup {Len(active_rooms) + 1}
          /\ Len(active_rooms) + 1 \notin DOMAIN active_rooms
          /\ active_rooms'[Len(active_rooms) + 1] = Manager!Room(r)
          /\ \A i \in DOMAIN active_rooms : active_rooms'[i] = active_rooms[i]
      BY <2>1, <3>1
    <3>4. names' = names \cup {r}
      BY <3>2, <3>3
    <3>5. marked' = marked
      BY <3>2, <3>3
    <3>6. doomed' = doomed
      <4>. HIDE DEF marked
      <4>1. marked \subseteq DOMAIN active_rooms
        BY DEF marked
      <4>. QED  BY <3>3, <3>5, <4>1
    <3>. QED  BY <3>1, <3>4, <3>6 DEF Manager!Set!Next, Manager!Set!Create
  <2>3. ASSUME NEW r \in Names, Manager!request_destroy(r)
        PROVE  Manager!Set!Next
    <3>1. PICK i \in DOMAIN active_rooms :
             /\ active_rooms[i].room_name = r
             /\ DOMAIN active_rooms' = DOMAIN active_rooms
             /\ \A j \in DOMAIN active_rooms :
                   /\ active_rooms'[j].room_name = active_rooms[j].room_name
                   /\ active_rooms'[j].destroy_requested =
                         (active_rooms[j].destroy_requested \/ j = i)
      BY <2>3, Marked
    <3>2. r \in names /\ names' = names
      BY <3>1
    <3>3. \A j : j \in marked' <=> j \in marked \/ j = i
      BY <3>1
    <3>4. doomed' = doomed \cup {r}
      <4>. HIDE DEF marked
      <4>1. marked \subseteq DOMAIN active_rooms
        BY DEF marked
      <4>. QED  BY <3>1, <3>3, <4>1
    <3>. QED  BY <3>2, <3>4 DEF Manager!Set!Next, Manager!Set!RequestDestroy
  <2>4. CASE Manager!remove_destroyed_rooms
    <3>. DEFINE kept == Manager!Picked(active_rooms, Manager!Unmarked)
    <3>1. active_rooms' = kept
      BY <2>4 DEF Manager!remove_destroyed_rooms
    <3>2. /\ \A i \in DOMAIN kept : ~kept[i].destroy_requested
          /\ \A i \in DOMAIN active_rooms : ~active_rooms[i].destroy_requested
                => \E j \in DOMAIN kept : kept[j] = active_rooms[i]
      BY Kept
    <3>3. PICK h \in [DOMAIN kept -> DOMAIN active_rooms] :
             \A i \in DOMAIN kept : kept[i] = active_rooms[h[i]]
      BY Kept
    <3>. HIDE DEF kept
    <3>4. doomed' = {}
      BY <3>1, <3>2
    <3>5. names' = names \ doomed
      <4>1. ASSUME NEW i \in DOMAIN kept
            PROVE  kept[i].room_name \in names \ doomed
        <5>1. h[i] \notin marked
          BY <3>2, <3>3
        <5>. QED  BY <2>1, <3>3, <5>1
      <4>2. ASSUME NEW i \in DOMAIN active_rooms, i \notin marked
            PROVE  active_rooms[i].room_name \in names'
        BY <3>1, <3>2, <4>2
      <4>. QED  BY <3>1, <4>1, <4>2
    <3>. QED  BY <3>4, <3>5 DEF Manager!Set!Next, Manager!Set!RemoveDestroyed
  <2>5. CASE Manager!clear
    <3>1. names' = {} /\ doomed' = {}
      BY <2>5 DEF Manager!clear
    <3>. QED  BY <3>1 DEF Manager!Set!Next, Manager!Set!Clear
  <2>6. CASE UNCHANGED Manager!vars
    BY <2>6 DEF Manager!vars
  <2>. QED  BY <2>2, <2>3, <2>4, <2>5, <2>6 DEF Manager!Next
<1>. QED  BY <1>1, <1>2, <1>3, PTL DEF Manager!Spec, BehavesAsSet, Manager!BehavesAsSet, Manager!Set!Spec
=============================================================================
