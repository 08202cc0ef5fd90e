------------------------------- MODULE RingBuffer -------------------------------
(***************************************************************************)
(* The ring buffer of src/espgoodies/ringbuffer.c as operators on its      *)
(* structure.  ring_buffer_read_peek is split where its caller can be      *)
(* interrupted: what it copies (Taken) and what it stores (Advanced).      *)
(***************************************************************************)
EXTENDS Integers, Sequences

CONSTANTS
  Size,     \* ring_buffer->size
  Width,    \* 2^16: the indexes are uint16
  Byte,
  Junk      \* what malloc leaves in data

\* head + len1 + len2 may reach 2 * Size - 1 before it is wrapped: sizes above
\* 2^15 overflow the uint16 sum and are excluded.
ASSUME RingAssumption ==
  /\ Size \in Nat \ {0}
  /\ Width \in Nat
  /\ 2 * Size <= Width
  /\ Junk \notin Byte

Index == 0 .. Size - 1
Rings == [data : [Index -> Byte \cup {Junk}], avail : 0 .. Size,
          head : Index, tail : Index]

ring_buffer_new == [data |-> [i \in Index |-> Junk], avail |-> 0, head |-> 0,
                    tail |-> 0]

MIN(a, b) == IF a < b THEN a ELSE b

\* An assignment to a uint16.
Uint16(n) == n % Width

\* len1 and len2 of ring_buffer_write: bytes that go to head, then to the start.
WriteLens(rb, len) ==
  IF rb.tail <= rb.head
  THEN IF rb.tail = rb.head /\ rb.avail # 0
       THEN <<0, 0>>
       ELSE LET avail_len1 == Size - rb.head
            IN  IF avail_len1 >= len
                THEN <<len, 0>>
                ELSE <<avail_len1, MIN(rb.tail, len - avail_len1)>>
  ELSE <<MIN(len, rb.tail - rb.head), 0>>

\* mutant: a write that wraps starts over at 0 instead of after its second part
NoSecondPart(rb, lens) ==
  LET head == Uint16(rb.head + lens[1] + lens[2])
  IN  IF rb.tail <= rb.head /\ head >= Size THEN 0 ELSE head

NextHead(rb, lens) ==
  LET head == Uint16(rb.head + lens[1] + lens[2])
  IN  IF rb.tail <= rb.head /\ head >= Size THEN lens[2] ELSE head

ring_buffer_write(rb, bytes) ==
  LET lens == WriteLens(rb, Len(bytes))
  IN  IF lens = <<0, 0>>
      THEN rb
      ELSE [data |-> [i \in Index |->
                        IF i >= rb.head /\ i < rb.head + lens[1]
                        THEN bytes[i - rb.head + 1]
                        ELSE IF i < lens[2] THEN bytes[lens[1] + i + 1]
                        ELSE rb.data[i]],
            avail |-> Uint16(rb.avail + lens[1] + lens[2]),
            head |-> NextHead(rb, lens),
            tail |-> rb.tail]

\* len1 and len2 of ring_buffer_read_peek, from the head, tail and avail it read.
ReadLens(head, tail, avail, len) ==
  IF tail < head
  THEN <<MIN(len, head - tail), 0>>
  ELSE IF tail = head /\ avail = 0
       THEN <<0, 0>>
       ELSE LET avail_len1 == Size - tail
            IN  IF avail_len1 >= len
                THEN <<len, 0>>
                ELSE <<avail_len1, MIN(head, len - avail_len1)>>

\* The bytes its two memcpy calls deliver.
Taken(data, tail, lens) ==
  [i \in 1 .. lens[1] + lens[2] |->
     IF i <= lens[1] THEN data[tail + i - 1] ELSE data[i - lens[1] - 1]]

\* mutant: a tail that reaches the end of the buffer is not wrapped
TailPastEnd(head, tail, lens) ==
  LET next == Uint16(tail + lens[1] + lens[2])
  IN  IF tail >= head /\ next > Size THEN lens[2] ELSE next

\* The tail it stores, unless it only peeks.
NextTail(head, tail, lens) ==
  LET next == Uint16(tail + lens[1] + lens[2])
  IN  IF tail >= head /\ next >= Size THEN lens[2] ELSE next

--------------------------------------------------------------------------------
(* What the structure means. *)

At(i) == IF i >= Size THEN i - Size ELSE i

Contents(rb) == [i \in 1 .. rb.avail |-> rb.data[At(rb.tail + i - 1)]]

\* The three counters agree, and only bytes that were written count as available.
RingOK(rb) ==
  /\ rb \in Rings
  /\ rb.head = At(rb.tail + rb.avail)
  /\ \A i \in 1 .. rb.avail : rb.data[At(rb.tail + i - 1)] \in Byte

================================================================================
