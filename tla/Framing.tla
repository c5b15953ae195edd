------------------------------ MODULE Framing -------------------------------
(***************************************************************************)
(* One direction of a connection: messages are packed into a block, the    *)
(* block is written as TLS records, the peer reads the records through a   *)
(* fixed buffer, puts the block together and unpacks it.  The sender is a  *)
(* worker's loop (client-worker.cpp, serverconnection-worker.cpp); the     *)
(* receiver first waits for one message of the handshake (wait_for) and    *)
(* then is such a loop, too.                                               *)
(*                                                                         *)
(* Bytes come in units.  A block is one unit of header and payload_size    *)
(* and the units of its messages.  TLS delivers a record whole or not at   *)
(* all, and one read yields units of one record only (external: OpenSSL).  *)
(***************************************************************************)
EXTENDS Selections

CONSTANTS Size,          \* units of each message's encoding; message 1 is the handshake's
          BufferUnits,   \* BUFFER_SIZE of receive_message
          RecordUnits,   \* the most a TLS record holds
          Faults         \* what may befall the link: "stall", "close"

\* A first read holds the header and more: 8 bytes of 1500, or of 16384.
ASSUME SizesAssumption == /\ Size \in Seq(Nat \ {0}) /\ Size # << >>
                          /\ BufferUnits \in Nat \ {0, 1}
                          /\ RecordUnits \in Nat \ {0, 1}
                          /\ Faults \subseteq {"stall", "close"}

VARIABLES
  queued,      \* messages pushed into messages_out so far, numbered in that order
  packed,      \* of those, popped and packed by the sender
  unwritten,   \* records of the sender's block that BIO_write has still to take
  wire,        \* records written and not read yet; the first may be read in part
  link,        \* "open", "stalled" or "closed" by a close_notify behind the wire
  mode,        \* the receiver: "wait", "serving", "timed out", "ended" or "error"
  reading,     \* receive_message is putting a block together
  block, applied,
  received     \* messages the receiver pushed into its messages_in

sender   == <<queued, packed, unwritten>>
receiver == <<mode, reading, block, applied, received>>
vars == <<sender, wire, link, receiver>>

EmptyBlock == [payload_size |-> 0, payload |-> << >>]

Init ==
    /\ queued = 0 /\ packed = 0 /\ unwritten = << >>
    /\ wire = << >> /\ link = "open"
    /\ mode = "wait" /\ reading = FALSE
    /\ block = EmptyBlock /\ applied = 0
    /\ received = << >>

-----------------------------------------------------------------------------
(***************************************************************************)
(* messaging.cpp.                                                          *)
(***************************************************************************)
Part(m, i) == [is |-> "part", of |-> m, at |-> i]
Header(n)  == [is |-> "header", size |-> n]

Encoding(m) == [i \in 1 .. Size[m] |-> Part(m, i)]

\* to_msgpack of the array of messages ms
Payload(ms) ==
    LET upTo[j \in 0 .. Len(ms)] == IF j = 0 THEN << >> ELSE upTo[j - 1] \o Encoding(ms[j])
    IN  upTo[Len(ms)]

pack_block(ms) == <<Header(Len(Payload(ms)))>> \o Payload(ms)

\* What apply_buffer_to_block leaves in the block and what it returns.
Applied(b, n) == [block |-> b, applied |-> n]

Headers(buffer) == {i \in DOMAIN buffer : buffer[i].is = "header"}

\* With no offset the header is looked for, and what is before it dropped; later all of
\* the buffer is taken.
apply_buffer_to_block(buffer, b, payload_offset) ==
    IF payload_offset = 0 /\ Headers(buffer) # {}
    THEN LET at == CHOOSE i \in Headers(buffer) : \A j \in Headers(buffer) : i <= j
             payload == SubSeq(buffer, at + 1, Len(buffer))
         IN  Applied([payload_size |-> buffer[at].size, payload |-> payload], Len(payload))
    ELSE IF 0 < payload_offset /\ payload_offset < b.payload_size
         THEN Applied([b EXCEPT !.payload = @ \o buffer],
                      Len(b.payload) + Len(buffer) - payload_offset)
         ELSE Applied(b, 0)

\* The messages whose encoding begins in a payload; they are its messages if it is the
\* encoding of them, otherwise from_msgpack throws.
Begun(payload) ==
    LET firsts == Picked(payload, {Part(m, 1) : m \in DOMAIN Size})
    IN  [i \in DOMAIN firsts |-> firsts[i].of]

unpack_messages(b) == IF b.payload_size < 1 THEN << >> ELSE Begun(b.payload)

Unpacks(b) == b.payload_size < 1 \/ b.payload = Payload(Begun(b.payload))

-----------------------------------------------------------------------------
(***************************************************************************)
(* The sender.                                                             *)
(***************************************************************************)

\* Another thread pushes a message into messages_out.
Queue == /\ queued < Len(Size)
         /\ queued' = queued + 1
         /\ UNCHANGED <<packed, unwritten, wire, link, receiver>>

\* How OpenSSL cuts a block into records.
Records(units) ==
    [k \in 1 .. (Len(units) + RecordUnits - 1) \div RecordUnits |->
        SubSeq(units, (k - 1) * RecordUnits + 1,
                      IF k * RecordUnits < Len(units) THEN k * RecordUnits ELSE Len(units))]

\* Mutant: the handshake is packed with what is queued.
Send_WithHandshake ==
    /\ unwritten = << >> /\ link = "open" /\ packed < queued
    /\ packed' = queued
    /\ unwritten' = Records(pack_block([i \in 1 .. queued - packed |-> packed + i]))
    /\ UNCHANGED <<queued, wire, link, receiver>>

\* The message of the handshake is sent in a block of its own, later the queue is popped
\* until it is empty and sent as one block.
Send ==
    /\ unwritten = << >> /\ link = "open" /\ packed < queued
    /\ packed' = IF packed = 0 THEN 1 ELSE queued
    /\ unwritten' = Records(pack_block([i \in 1 .. packed' - packed |-> packed + i]))
    /\ UNCHANGED <<queued, wire, link, receiver>>

\* BIO_write is repeated, with pauses, until all of the block was taken.
WriteRecord ==
    /\ unwritten # << >> /\ link = "open"
    /\ wire' = Append(wire, Head(unwritten))
    /\ unwritten' = Tail(unwritten)
    /\ UNCHANGED <<queued, packed, link, receiver>>

\* The network or the peer falls silent and a part of what was written is lost, but not a
\* record that is being read; or another thread of the sender shuts the connection down,
\* and what was written still arrives.
Fault(f) ==
    /\ link = "open" /\ f \in Faults
    /\ \/ /\ f = "stall" /\ link' = "stalled"
          /\ \E n \in 0 .. Len(wire) : /\ reading /\ wire # << >> => n > 0
                                       /\ wire' = SubSeq(wire, 1, n)
       \/ f = "close" /\ link' = "closed" /\ UNCHANGED wire
    /\ UNCHANGED <<sender, receiver>>

-----------------------------------------------------------------------------
(***************************************************************************)
(* The receiver.                                                           *)
(***************************************************************************)
Receives == mode \in {"wait", "serving"}

\* Mutant: a read goes on into the next record.
Chunk_AcrossRecords ==
    LET units == IF Len(wire) = 1 THEN wire[1] ELSE wire[1] \o wire[2]
        n == IF BufferUnits < Len(units) THEN BufferUnits ELSE Len(units)
    IN  [read |-> SubSeq(units, 1, n),
         rest |-> IF n = Len(units) THEN SubSeq(wire, 3, Len(wire))
                  ELSE <<SubSeq(units, n + 1, Len(units))>> \o SubSeq(wire, 3, Len(wire))]

\* What one call of receive_bytes reads, and what is left.
Chunk ==
    LET n == IF BufferUnits < Len(wire[1]) THEN BufferUnits ELSE Len(wire[1])
    IN  [read |-> SubSeq(wire[1], 1, n),
         rest |-> IF n = Len(wire[1]) THEN Tail(wire)
                  ELSE <<SubSeq(wire[1], n + 1, Len(wire[1]))>> \o Tail(wire)]

\* receive_message reads for the first time.
FirstRead ==
    /\ Receives /\ ~reading /\ wire # << >>
    /\ reading' = TRUE
    /\ LET got == apply_buffer_to_block(Chunk.read, EmptyBlock, 0)
       IN  block' = got.block /\ applied' = got.applied
    /\ wire' = Chunk.rest
    /\ UNCHANGED <<sender, link, mode, received>>

\* Mutant: the loop goes on when all of the payload is there.
Incomplete_AtMost == applied > 0 /\ applied <= block.payload_size

Incomplete == applied > 0 /\ applied < block.payload_size

\* The loop's body.  When nothing can be read it changes nothing, and there is no pause:
\* the thread spins.
ReadMore ==
    /\ reading /\ Incomplete /\ wire # << >>
    /\ LET got == apply_buffer_to_block(Chunk.read, block, applied)
       IN  block' = got.block /\ applied' = applied + got.applied
    /\ wire' = Chunk.rest
    /\ UNCHANGED <<sender, link, mode, reading, received>>

\* receive_message returns a block and its messages are used: wait_for looks for the one
\* it wants and discards the others, a worker queues them all.
UseBlock ==
    /\ reading /\ ~Incomplete
    /\ reading' = FALSE
    /\ LET ms == unpack_messages(block)
       IN  IF ~Unpacks(block)      THEN mode' = "error" /\ UNCHANGED received
           ELSE IF mode = "wait" THEN /\ mode' = IF 1 \in Elements(ms) THEN "serving" ELSE mode
                                      /\ UNCHANGED received
           ELSE received' = received \o ms /\ UNCHANGED mode
    /\ block' = EmptyBlock /\ applied' = 0
    /\ UNCHANGED <<sender, wire, link>>

\* wait_for gives up, which it may when receive_message has returned.
TimeOut ==
    /\ mode = "wait" /\ ~reading
    /\ mode' = "timed out"
    /\ UNCHANGED <<sender, wire, link, reading, block, applied, received>>

\* Mutant: the loop ends although there is something to read.
NoticeClose_Early ==
    /\ Receives /\ ~reading /\ link = "closed"
    /\ mode' = "ended"
    /\ UNCHANGED <<sender, wire, link, reading, block, applied, received>>

\* SSL_RECEIVED_SHUTDOWN is set when a read meets the close_notify, and the next
\* is_connected() is false.
NoticeClose ==
    /\ Receives /\ ~reading /\ link = "closed" /\ wire = << >>
    /\ mode' = "ended"
    /\ UNCHANGED <<sender, wire, link, reading, block, applied, received>>

Next == \/ Queue \/ Send \/ WriteRecord
        \/ \E f \in {"stall", "close"} : Fault(f)
        \/ FirstRead \/ ReadMore \/ UseBlock \/ TimeOut \/ NoticeClose

Spec == Init /\ [][Next]_vars

(***************************************************************************)
(* Both threads run.  Nothing need be queued, no fault need happen, and    *)
(* the time of a wait need not run out.                                    *)
(***************************************************************************)
FairSpec == /\ Spec
            /\ WF_vars(Send \/ WriteRecord)
            /\ WF_vars(FirstRead \/ ReadMore \/ UseBlock \/ NoticeClose)

-----------------------------------------------------------------------------
(***************************************************************************)
(* Properties.                                                             *)
(***************************************************************************)

\* Types, with the units of a payload left to PayloadIsItsOwn.
TypeOK ==
    /\ queued \in 0 .. Len(Size) /\ packed \in 0 .. queued
    /\ link \in {"open", "stalled", "closed"}
    /\ mode \in {"wait", "serving", "timed out", "ended", "error"}
    /\ reading \in BOOLEAN
    /\ applied \in Nat /\ block.payload_size \in Nat
    /\ \A k \in DOMAIN wire : Len(wire[k]) \in 1 .. RecordUnits
    /\ \A k \in DOMAIN unwritten : Len(unwritten[k]) \in 1 .. RecordUnits
    /\ received \in Seq(1 .. Len(Size))

\* While a block is put together it holds units of that block only and in their order,
\* never more than its size, and what was counted: the loop, which takes whole buffers,
\* ends exactly where the next block begins.
PayloadIsItsOwn ==
    reading =>
        /\ applied = Len(block.payload) /\ applied \in 1 .. block.payload_size
        /\ Begun(block.payload) # << >>
        /\ LET first == Begun(block.payload)[1]
               units == Payload([i \in 1 .. Len(Size) - first + 1 |-> first + i - 1])
           IN  applied <= Len(units) /\ block.payload = SubSeq(units, 1, applied)

\* Whatever the sizes, the batches and the faults, the receiver's queue gets the messages
\* after the handshake in order, without a gap, without repeats, and none fails to unpack;
\* in particular wait_for discards none of them.
DeliveredInOrder ==
    /\ mode # "error"
    /\ received = [i \in 1 .. Len(received) |-> i + 1]

\* A peer that closes the connection loses nothing it had sent: the receiver ends with
\* the messages of every block that was written whole.
CloseLosesNothing ==
    mode = "ended" /\ packed > 0 /\ unwritten = << >> => Len(received) + 1 = packed

\* On a link that stays up, and if the handshake is in time, every queued message arrives.
EverythingArrives ==
    [](link = "open" /\ mode # "timed out") =>
        \A m \in 2 .. Len(Size) : queued >= m ~> Len(received) + 1 >= m

\* "Automatically sleeps ... when no data is waiting in order to prevent tight loops":
\* receive_message does not stay in its loop, which has no pause, for ever.
NeverSpins == []<>~reading
=============================================================================
