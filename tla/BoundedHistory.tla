--------------------------- MODULE BoundedHistory ---------------------------
(***************************************************************************)
(* What a chat room history promises its reader: the last Limit events, in *)
(* the order in which they were recorded.  The ring buffer of              *)
(* include/tavernmx/ringbuffer.h implements this (RingBuffer.tla), and the *)
(* server worker (ChatServer.tla) records room events with Recorded.       *)
(***************************************************************************)
EXTENDS Histories

CONSTANTS Events,   \* what can be recorded
          Limit,    \* how many events are kept
          None      \* no event

VARIABLES log,      \* the events kept, oldest first
          latest    \* the event recorded last, since the log was last forgotten

Init == log = << >> /\ latest = None

Record(e) == log' = Recorded(log, e, Limit) /\ latest' = e

Forget == log' = << >> /\ latest' = None

Next == Forget \/ \E e \in Events : Record(e)

Spec == Init /\ [][Next]_<<log, latest>>
=============================================================================
