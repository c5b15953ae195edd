----------------------------- MODULE RingBuffer -----------------------------
(***************************************************************************)
(* RingBuffer<T, Capacity> of include/tavernmx/ringbuffer.h: an array of   *)
(* owning pointers, a head (the next slot to write) and a tail (the oldest *)
(* element).  One slot always separates head from tail, so that Capacity   *)
(* slots hold at most Capacity - 1 readable elements.                      *)
(*                                                                         *)
(* An iterator over the buffer is part of the state: it is created at      *)
(* begin() or at end() and moved one element at a time, `visited` being    *)
(* what it dereferenced.  Writing to the buffer ends the walk, because no  *)
(* caller in src/ keeps an iterator across an insert.                      *)
(***************************************************************************)
EXTENDS Integers, Sequences, FiniteSets

CONSTANTS Values,     \* elements of type T
          Capacity,   \* template parameter, size of the slot array
          Null        \* a slot whose unique_ptr is empty; also: no iterator

ASSUME CapacityAssumption == Capacity \in Nat \ {0}
ASSUME NullAssumption == Null \notin Values \cup Int

VARIABLES data,     \* _data
          head,     \* _head
          tail,     \* _tail
          pos,      \* _pos of the iterator, Null when there is none
          way,      \* which way the iterator moves
          visited   \* the elements the iterator yielded, in order

buffer == <<data, head, tail>>
walk   == <<pos, way, visited>>
vars   == <<data, head, tail, pos, way, visited>>

Slots == 0 .. Capacity - 1

(***************************************************************************)
(* Observers.                                                              *)
(***************************************************************************)
empty == head = tail
full  == (head + 1) % Capacity = tail

size == IF full THEN Capacity
        ELSE IF head >= tail THEN head - tail
        ELSE Capacity + head - tail

\* The oldest element, or the null pointer.
Oldest == IF empty THEN Null ELSE data[tail]

\* Iterator positions: ++ and -- wrap by comparing with the capacity.
After(p)  == IF p + 1 = Capacity THEN 0 ELSE p + 1
Before(p) == IF p = 0 THEN Capacity - 1 ELSE p - 1

(***************************************************************************)
(* What the range begin() .. end() holds, oldest first.                    *)
(***************************************************************************)
Count    == IF head >= tail THEN head - tail ELSE Capacity + head - tail
Contents == [i \in 1 .. Count |-> data[(tail + i - 1) % Capacity]]

(***************************************************************************)
(* Operations.                                                             *)
(***************************************************************************)
EndWalk == pos' = Null /\ way' = "none" /\ visited' = << >>

Init == /\ data = [s \in Slots |-> Null]
        /\ head = 0
        /\ tail = 0
        /\ pos = Null /\ way = "none" /\ visited = << >>

\* Mutants: the head is not wrapped; the tail stays behind when the head meets it.
increment_NoWrap ==
    /\ head' = head + 1
    /\ tail' = IF tail = head + 1 THEN tail + 1 ELSE tail

increment_TailStays ==
    /\ head' = (head + 1) % Capacity
    /\ tail' = tail

increment ==
    LET h == (head + 1) % Capacity
    IN  /\ head' = h
        /\ tail' = IF tail = h THEN (tail + 1) % Capacity ELSE tail

Insert(v) == /\ data' = [data EXCEPT ![head] = v]
             /\ increment
             /\ EndWalk

\* Mutant: the slots are freed and the head stays.
Reset_HeadStays == /\ data' = [s \in Slots |-> Null]
                   /\ UNCHANGED <<head, tail>>
                   /\ EndWalk

Reset == /\ data' = [s \in Slots |-> Null]
         /\ head' = tail
         /\ tail' = tail
         /\ EndWalk

Begin == /\ pos = Null
         /\ pos' = tail /\ way' = "forward" /\ visited' = << >>
         /\ UNCHANGED buffer

\* rbegin() wraps end(): it yields the element before its position.
RBegin == /\ pos = Null
          /\ pos' = head /\ way' = "backward" /\ visited' = << >>
          /\ UNCHANGED buffer

\* `for (auto& v : buffer)`: dereference, then ++, until the iterator is end().
Step == /\ way = "forward" /\ pos # head
        /\ visited' = Append(visited, data[pos])
        /\ pos' = After(pos)
        /\ UNCHANGED <<data, head, tail, way>>

\* Mutant: dereference at the position, then --.
StepBack_DerefFirst == /\ way = "backward" /\ pos # tail
                       /\ pos' = Before(pos)
                       /\ visited' = Append(visited, data[pos])
                       /\ UNCHANGED <<data, head, tail, way>>

\* The same loop over rbegin() .. rend().
StepBack == /\ way = "backward" /\ pos # tail
            /\ pos' = Before(pos)
            /\ visited' = Append(visited, data[Before(pos)])
            /\ UNCHANGED <<data, head, tail, way>>

Next == \/ \E v \in Values : Insert(v)
        \/ Reset
        \/ Begin \/ RBegin \/ Step \/ StepBack

Spec == Init /\ [][Next]_vars

-----------------------------------------------------------------------------
(***************************************************************************)
(* Properties.                                                             *)
(***************************************************************************)

\* Types: indices stay inside the array, a slot is empty or holds a value, and an
\* iterator that moves has a position.
TypeOK == /\ data \in [Slots -> Values \cup {Null}]
          /\ head \in Slots
          /\ tail \in Slots
          /\ pos \in Slots \cup {Null}
          /\ way \in {"none", "forward", "backward"}
          /\ (way = "none") <=> (pos = Null)
          /\ visited \in Seq(Values \cup {Null})

\* Every slot from tail up to, but not including, head owns an element: reading
\* the oldest element or dereferencing an iterator of begin() .. end() never
\* follows an empty pointer, whatever mix of inserts, wraps and resets came before.
ReadableSlotsAreOwned ==
    \A s \in Slots :
        (IF tail <= head THEN tail <= s /\ s < head ELSE s >= tail \/ s < head)
            => data[s] \in Values

\* A forward walk yields the contents oldest first and a backward walk newest
\* first, across the wrap of the array, and each reaches its end exactly when it
\* has yielded every element.  size() reports as many elements until the buffer is
\* full, when it reports one more, and empty() and the oldest element agree with them.
ReadersSeeContents ==
    /\ way = "forward" =>
         /\ visited = SubSeq(Contents, 1, Len(visited))
         /\ (pos = head) <=> (Len(visited) = Count)
    /\ way = "backward" =>
         /\ \A i \in 1 .. Len(visited) : visited[i] = Contents[Count + 1 - i]
         /\ (pos = tail) <=> (Len(visited) = Count)
    /\ size = IF Count = Capacity - 1 THEN Capacity ELSE Count
    /\ empty <=> (Contents = << >>)
    /\ ~empty => Oldest = Contents[1]

(***************************************************************************)
(* The ring buffer keeps the last Capacity - 1 elements inserted.          *)
(***************************************************************************)
Latest == data[Before(head)]

History == INSTANCE BoundedHistory
             WITH Events <- Values, Limit <- Capacity - 1, None <- Null,
                  log <- Contents, latest <- Latest

\* Inserting appends the new element and drops the oldest one only when
\* Capacity - 1 elements are already held; only reset() empties the history; a walk
\* changes nothing.
KeepsLatestElements == History!Spec
=============================================================================
