------------------------------ MODULE DriversProofs ------------------------------
(***************************************************************************)
(* Proofs about the drivers.                                               *)
(*                                                                         *)
(* RingBuffer and Uart, for any buffer size whose sums fit a uint16, any   *)
(* FIFO depth and any reads: a write appends what fits and a read takes    *)
(* from the front, the ring buffer stays consistent, and buffered reading  *)
(* implements the queue of module ByteQueue.                               *)
(*                                                                         *)
(* OneWire, for addresses of any length: a search of a bus that stays as   *)
(* it is finds every device once.                                          *)
(*                                                                         *)
(* Pwm, for any channels, duties and periods that are long enough.  The    *)
(* phases that prepare_phases computes can be run through, and the         *)
(* handler, however it comes between the steps of a change, stays within   *)
(* a set that nobody writes to (PwmKept).  What it puts out in a whole     *)
(* cycle is, for every channel, the duty (PwmOutKept): each has two        *)
(* events, Drives, which moving keeps apart by the duty; sorted, they are  *)
(* the two times that it goes on and off at, GoesAt; with durations, and   *)
(* rotated, they make a course of levels that ends as it starts and is on  *)
(* for the duty, Steady; and the handler follows that course, Held.        *)
(***************************************************************************)
EXTENDS Pwm, Uart, OneWire, FiniteSetTheorems, SequenceLemmas

--------------------------------------------------------------------------------
(* The operations of the ring buffer; cb is any one, rb the one of the driver. *)


\* No index or count of the buffer is changed by being stored in a uint16.
LEMMA Uint16Identity ==
  ASSUME NEW n \in 0 .. 2 * Size - 1
  PROVE  Uint16(n) = n
BY RingAssumption DEF Uint16

LEMMA MINValue ==
  ASSUME NEW a \in Int, NEW b \in Int
  PROVE  /\ MIN(a, b) \in {a, b} /\ MIN(a, b) <= a /\ MIN(a, b) <= b
BY DEF MIN

\* The arithmetic that RingOK means.
LEMMA RingFacts ==
  ASSUME NEW cb, RingOK(cb)
  PROVE  /\ cb.head \in Index /\ cb.tail \in Index /\ cb.avail \in 0 .. Size
         /\ cb.data \in [Index -> Byte \cup {Junk}]
         /\ Size \in Nat \ {0}
         /\ \/ cb.tail + cb.avail < Size /\ cb.head = cb.tail + cb.avail
            \/ cb.tail + cb.avail >= Size /\ cb.head = cb.tail + cb.avail - Size
BY RingAssumption DEF RingOK, Rings, At, Index

\* Two parts of a length that the room a before the end does not hold.
LEMMA TwoParts ==
  ASSUME NEW a \in Nat, NEW b \in Nat, NEW len \in Nat, ~(a >= len)
  PROVE  /\ MIN(b, len - a) \in Nat /\ MIN(b, len - a) <= b
         /\ a + MIN(b, len - a) = MIN(len, a + b)
<1>1. CASE b < len - a
  BY <1>1 DEF MIN
<1>2. CASE ~(b < len - a)
  BY <1>2 DEF MIN
<1> QED
  BY <1>1, <1>2

\* Wrapping twice is wrapping once.
LEMMA AtTwice ==
  ASSUME NEW j \in Nat, NEW k \in Nat, j + k < 2 * Size
  PROVE  At(At(j) + k) = At(j + k)
<1> USE RingAssumption
<1>1. CASE j >= Size
  <2>1. At(j) = j - Size /\ At(j + k) = j + k - Size /\ ~(j - Size + k >= Size)
    BY <1>1 DEF At
  <2> QED
    BY <2>1 DEF At
<1>2. CASE ~(j >= Size)
  BY <1>2 DEF At
<1> QED
  BY <1>1, <1>2

\* How many bytes a write accepts, all that fit, and where their two parts go.
LEMMA WriteLensFit ==
  ASSUME NEW cb, RingOK(cb), NEW len \in Nat, NEW lens, lens = WriteLens(cb, len)
  PROVE  /\ lens = <<lens[1], lens[2]>>
         /\ lens[1] \in Nat /\ lens[2] \in Nat
         /\ lens[1] + lens[2] = MIN(len, Size - cb.avail)
         /\ cb.tail <= cb.head => /\ cb.head + lens[1] <= Size
                                  /\ lens[2] <= cb.tail
                                  /\ lens[2] > 0 => lens[1] = Size - cb.head
         /\ cb.tail > cb.head => cb.head + lens[1] <= cb.tail /\ lens[2] = 0
<1> USE RingFacts DEF Index
<1>1. CASE cb.tail = cb.head /\ cb.avail # 0
  <2>1. lens = <<0, 0>>
    BY <1>1 DEF WriteLens
  <2> QED
    BY SMTT(60), <1>1, <2>1 DEF MIN
<1>2. CASE cb.tail <= cb.head /\ ~(cb.tail = cb.head /\ cb.avail # 0)
  <2>1. cb.avail = cb.head - cb.tail
    BY <1>2
  <2>2. CASE Size - cb.head >= len
    <3>1. lens = <<len, 0>>
      BY <1>2, <2>2 DEF WriteLens
    <3> QED
      BY <1>2, <2>1, <2>2, <3>1 DEF MIN
  <2>3. CASE ~(Size - cb.head >= len)
    <3> DEFINE a == Size - cb.head
               m == MIN(cb.tail, len - a)
    <3>1. lens = <<a, m>>
      BY <1>2, <2>3 DEF WriteLens
    <3>2. a \in Nat /\ cb.tail \in Nat /\ ~(a >= len) /\ cb.head + a = Size
      BY <2>3
    <3>3. m \in Nat /\ m <= cb.tail /\ a + m = MIN(len, a + cb.tail)
      BY <3>2, TwoParts
    <3>4. a + cb.tail = Size - cb.avail
      BY <2>1
    <3> HIDE DEF a, m
    <3> QED
      BY SMTT(60), <1>2, <3>1, <3>2, <3>3, <3>4
  <2> QED
    BY <2>2, <2>3
<1>3. CASE cb.tail > cb.head
  <2>1. lens = <<MIN(len, cb.tail - cb.head), 0>>
    BY <1>3 DEF WriteLens
  <2>2. Size - cb.avail = cb.tail - cb.head
    BY <1>3
  <2> QED
    BY <1>3, <2>1, <2>2 DEF MIN
<1> QED
  BY <1>1, <1>2, <1>3

\* How many bytes a read takes, as many as there are, and where from.
LEMMA ReadLensFit ==
  ASSUME NEW cb, RingOK(cb), NEW len \in Nat,
         NEW lens, lens = ReadLens(cb.head, cb.tail, cb.avail, len)
  PROVE  /\ lens = <<lens[1], lens[2]>>
         /\ lens[1] \in Nat /\ lens[2] \in Nat
         /\ lens[1] + lens[2] = MIN(len, cb.avail)
         /\ cb.tail < cb.head => lens[2] = 0 /\ cb.tail + lens[1] <= cb.head
         /\ cb.tail >= cb.head => /\ cb.tail + lens[1] <= Size
                                  /\ lens[2] <= cb.head
                                  /\ lens[2] > 0 => lens[1] = Size - cb.tail
<1> USE RingFacts DEF Index
<1>1. CASE cb.tail < cb.head
  <2>1. lens = <<MIN(len, cb.head - cb.tail), 0>>
    BY <1>1 DEF ReadLens
  <2>2. cb.avail = cb.head - cb.tail
    BY <1>1
  <2> QED
    BY <1>1, <2>1, <2>2 DEF MIN
<1>2. CASE cb.tail = cb.head /\ cb.avail = 0
  <2>1. lens = <<0, 0>>
    BY <1>2 DEF ReadLens
  <2> QED
    BY <1>2, <2>1 DEF MIN
<1>3. CASE cb.tail >= cb.head /\ ~(cb.tail = cb.head /\ cb.avail = 0)
  <2>1. cb.avail = Size - cb.tail + cb.head
    BY <1>3
  <2>2. CASE Size - cb.tail >= len
    <3>1. lens = <<len, 0>>
      BY <1>3, <2>2 DEF ReadLens
    <3> QED
      BY SMTT(60), <1>3, <2>1, <2>2, <3>1 DEF MIN
  <2>3. CASE ~(Size - cb.tail >= len)
    <3> DEFINE a == Size - cb.tail
               m == MIN(cb.head, len - a)
    <3>1. lens = <<a, m>>
      BY <1>3, <2>3 DEF ReadLens
    <3>2. a \in Nat /\ cb.head \in Nat /\ ~(a >= len) /\ cb.tail + a = Size
      BY <2>3
    <3>3. m \in Nat /\ m <= cb.head /\ a + m = MIN(len, a + cb.head)
      BY <3>2, TwoParts
    <3>4. a + cb.head = cb.avail
      BY <2>1
    <3> HIDE DEF a, m
    <3> QED
      BY <1>3, <3>1, <3>2, <3>3, <3>4
  <2> QED
    BY <2>2, <2>3
<1> QED
  BY <1>1, <1>2, <1>3

--------------------------------------------------------------------------------
(* Reading. *)

\* The structure after a read of lens[1] + lens[2] bytes.
AfterRead(cb, lens) ==
  [cb EXCEPT !.tail = NextTail(cb.head, cb.tail, lens),
             !.avail = Uint16(@ - lens[1] - lens[2])]

LEMMA ContentsSeq ==
  ASSUME NEW cb, RingOK(cb)
  PROVE  /\ Contents(cb) \in Seq(Byte)
         /\ Len(Contents(cb)) = cb.avail
         /\ DOMAIN Contents(cb) = 1 .. cb.avail
         /\ \A i \in 1 .. cb.avail : Contents(cb)[i] = cb.data[At(cb.tail + i - 1)]
<1>1. \A i \in 1 .. cb.avail : cb.data[At(cb.tail + i - 1)] \in Byte
  BY DEF RingOK
<1>2. cb.avail \in Nat
  BY RingFacts
<1> QED
  BY <1>1, <1>2 DEF Contents

\* What a reader that takes n bytes leaves: the rest, in order, in a consistent
\* buffer.
LEMMA AdvanceLeavesRest ==
  ASSUME NEW cb, RingOK(cb), NEW n \in 0 .. cb.avail,
         NEW cb2, cb2 = [cb EXCEPT !.tail = At(cb.tail + n), !.avail = cb.avail - n]
  PROVE  /\ RingOK(cb2)
         /\ Contents(cb2) = SubSeq(Contents(cb), n + 1, Len(Contents(cb)))
<1>1. PICK tail \in Index, avail \in 0 .. Size :
        /\ cb.tail = tail /\ cb.avail = avail /\ cb.head = At(tail + avail)
        /\ cb.head \in Index /\ cb.data \in [Index -> Byte \cup {Junk}]
        /\ n \in 0 .. avail
  BY DEF RingOK, Rings
<1>2. /\ cb2.tail = At(tail + n) /\ cb2.avail = avail - n
      /\ cb2.head = cb.head /\ cb2.data = cb.data
      /\ cb2 = [data |-> cb.data, avail |-> avail - n, head |-> cb.head,
                tail |-> At(tail + n)]
  BY <1>1 DEF RingOK, Rings
<1>3. At(tail + n) \in Index /\ At(At(tail + n) + (avail - n)) = At(tail + avail)
  <2>1. PICK j \in Nat, k \in Nat :
          /\ j = tail + n /\ k = avail - n /\ j + k < 2 * Size /\ j < 2 * Size
          /\ j + k = tail + avail
    BY <1>1, RingAssumption DEF Index
  <2>2. At(At(j) + k) = At(j + k)
    BY <2>1, AtTwice
  <2>3. At(j) \in Index
    BY <2>1, RingAssumption DEF At, Index
  <2> QED
    BY <2>1, <2>2, <2>3
<1>4. ASSUME NEW i \in 1 .. avail - n
      PROVE  /\ n + i \in 1 .. avail
             /\ cb2.data[At(cb2.tail + i - 1)] = Contents(cb)[n + i]
  <2>1. n + i \in 1 .. avail
    BY <1>1
  <2>2. At(At(tail + n) + i - 1) = At(tail + (n + i) - 1)
    <3>1. PICK j \in Nat, k \in Nat : j = tail + n /\ k = i - 1 /\ j + k < 2 * Size
      BY SMTT(60), <1>1, RingAssumption DEF Index
    <3>2. At(At(j) + k) = At(j + k)
      BY <3>1, AtTwice
    <3>3. j + k = tail + (n + i) - 1
      BY <1>1, <3>1 DEF Index
    <3>4. At(j) \in Int /\ At(j) + k = At(tail + n) + i - 1
      BY <1>3, <3>1 DEF Index
    <3> QED
      BY <3>2, <3>3, <3>4
  <2>3. Contents(cb)[n + i] = cb.data[At(tail + (n + i) - 1)]
    BY <1>1, <2>1, ContentsSeq
  <2> QED
    BY <1>2, <2>1, <2>2, <2>3
<1>5. RingOK(cb2)
  <2>1. cb2 \in Rings
    <3>1. avail - n \in 0 .. Size
      BY <1>1, RingAssumption
    <3>2. /\ cb.data \in [Index -> Byte \cup {Junk}] /\ cb.head \in Index
          /\ At(tail + n) \in Index
      BY <1>1, <1>3
    <3> QED
      BY <1>2, <3>1, <3>2 DEF Rings
  <2>2. \A i \in 1 .. avail - n : Contents(cb)[n + i] \in Byte
    BY <1>1, <1>4, ContentsSeq
  <2>3. \A i \in 1 .. cb2.avail : cb2.data[At(cb2.tail + i - 1)] \in Byte
    BY <1>2, <1>4, <2>2
  <2> QED
    BY <1>1, <1>2, <1>3, <2>1, <2>3 DEF RingOK
<1>6. Contents(cb2) = SubSeq(Contents(cb), n + 1, avail)
  <2>1. Contents(cb2) = [i \in 1 .. avail - n |-> Contents(cb)[n + i]]
    BY <1>2, <1>4 DEF Contents
  <2> DEFINE s == Contents(cb)
  <2>2. s \in Seq(Byte) /\ Len(s) = avail
    BY <1>1, ContentsSeq
  <2> HIDE DEF s
  <2>3. SubSeq(s, n + 1, avail) = [i \in 1 .. avail - n |-> s[n + i]]
    BY <1>1, <2>2
  <2> QED
    BY <2>1, <2>3 DEF s
<1> QED
  BY <1>1, <1>5, <1>6, ContentsSeq

\* The tail a read stores is the place of the oldest byte it leaves.
LEMMA NextTailPlace ==
  ASSUME NEW cb, RingOK(cb), NEW len \in Nat,
         NEW lens, lens = ReadLens(cb.head, cb.tail, cb.avail, len)
  PROVE  NextTail(cb.head, cb.tail, lens) = At(cb.tail + (lens[1] + lens[2]))
<1>1. /\ lens[1] \in Nat /\ lens[2] \in Nat
      /\ cb.tail < cb.head => lens[2] = 0 /\ cb.tail + lens[1] <= cb.head
      /\ cb.tail >= cb.head => /\ cb.tail + lens[1] <= Size
                               /\ lens[2] <= cb.head
                               /\ lens[2] > 0 => lens[1] = Size - cb.tail
      /\ cb.tail \in Index /\ cb.head \in Index
  BY ReadLensFit, RingFacts
<1>2. PICK l1 \in Nat, l2 \in Nat, tail \in Index, head \in Index :
        lens[1] = l1 /\ lens[2] = l2 /\ cb.tail = tail /\ cb.head = head
  BY <1>1
<1>3. tail + l1 + l2 \in 0 .. 2 * Size - 1
  BY <1>1, <1>2, RingAssumption DEF Index
<1>4. Uint16(tail + l1 + l2) = tail + l1 + l2
  BY <1>3, Uint16Identity
<1> QED
  BY <1>1, <1>2, <1>4, RingAssumption DEF NextTail, At, Index

\* The bytes a read or an undisturbed peek copies are the oldest ones.
LEMMA TakenOldest ==
  ASSUME NEW cb, RingOK(cb), NEW len \in Nat,
         NEW lens, lens = ReadLens(cb.head, cb.tail, cb.avail, len)
  PROVE  /\ lens[1] + lens[2] \in 0 .. cb.avail
         /\ Taken(cb.data, cb.tail, lens)
              = SubSeq(Contents(cb), 1, lens[1] + lens[2])
<1>1. /\ lens[1] \in Nat /\ lens[2] \in Nat
      /\ lens[1] + lens[2] = MIN(len, cb.avail)
      /\ cb.tail < cb.head => lens[2] = 0 /\ cb.tail + lens[1] <= cb.head
      /\ cb.tail >= cb.head => /\ cb.tail + lens[1] <= Size
                               /\ lens[2] <= cb.head
                               /\ lens[2] > 0 => lens[1] = Size - cb.tail
      /\ cb.tail \in Index /\ cb.head \in Index /\ cb.avail \in 0 .. Size
  BY ReadLensFit, RingFacts
<1>2. PICK l1 \in Nat, l2 \in Nat, tail \in Index, head \in Index, avail \in 0 .. Size :
        /\ lens[1] = l1 /\ lens[2] = l2
        /\ cb.tail = tail /\ cb.head = head /\ cb.avail = avail
  BY <1>1
<1>3. l1 + l2 \in 0 .. avail
  BY <1>1, <1>2 DEF MIN
<1>4. ASSUME NEW i \in 1 .. l1 + l2
      PROVE  (IF i <= l1 THEN cb.data[tail + i - 1] ELSE cb.data[i - l1 - 1])
               = Contents(cb)[i]
  <2>1. i \in 1 .. avail
    BY <1>3
  <2>2. Contents(cb)[i] = cb.data[At(tail + i - 1)]
    BY <1>2, <2>1, ContentsSeq
  <2>3. At(tail + i - 1) = IF i <= l1 THEN tail + i - 1 ELSE i - l1 - 1
    BY <1>1, <1>2, RingAssumption DEF At, Index
  <2> QED
    BY <2>2, <2>3
<1>5. Taken(cb.data, cb.tail, lens) = [i \in 1 .. l1 + l2 |-> Contents(cb)[i]]
  BY <1>2, <1>4 DEF Taken
<1> DEFINE s == Contents(cb)
<1>6. s \in Seq(Byte) /\ Len(s) = avail
  BY <1>2, ContentsSeq
<1> HIDE DEF s
<1>7. SubSeq(s, 1, l1 + l2) = [i \in 1 .. l1 + l2 |-> s[i]]
  BY <1>3, <1>6
<1> QED
  BY <1>2, <1>3, <1>5, <1>7 DEF s

LEMMA ReadLeavesRest ==
  ASSUME NEW cb, RingOK(cb), NEW len \in Nat,
         NEW lens, lens = ReadLens(cb.head, cb.tail, cb.avail, len)
  PROVE  /\ RingOK(AfterRead(cb, lens))
         /\ Contents(AfterRead(cb, lens))
              = SubSeq(Contents(cb), lens[1] + lens[2] + 1, Len(Contents(cb)))
<1>1. /\ lens[1] \in Nat /\ lens[2] \in Nat /\ cb.avail \in 0 .. Size
      /\ lens[1] + lens[2] \in 0 .. cb.avail
  BY ReadLensFit, TakenOldest, RingFacts
<1>2. cb.avail - lens[1] - lens[2] \in 0 .. 2 * Size - 1
  BY <1>1, RingAssumption
<1>3. Uint16(cb.avail - lens[1] - lens[2]) = cb.avail - (lens[1] + lens[2])
  BY <1>1, <1>2, Uint16Identity
<1>4. AfterRead(cb, lens) = [cb EXCEPT !.tail = At(cb.tail + (lens[1] + lens[2])),
                                       !.avail = cb.avail - (lens[1] + lens[2])]
  <2>1. NextTail(cb.head, cb.tail, lens) = At(cb.tail + (lens[1] + lens[2]))
    BY NextTailPlace
  <2> QED
    BY <1>3, <2>1, Zenon DEF AfterRead
<1> QED
  BY <1>1, <1>4, AdvanceLeavesRest

--------------------------------------------------------------------------------
(* Writing. *)

\* The head a write stores is the place after the bytes it has added.
LEMMA HeadPlace ==
  ASSUME NEW tail \in Index, NEW head \in Index, NEW avail \in 0 .. Size,
         NEW l1 \in Nat, NEW l2 \in Nat,
         head = At(tail + avail),
         l1 + l2 \in 0 .. Size - avail,
         tail <= head => /\ head + l1 <= Size /\ l2 <= tail
                         /\ l2 > 0 => l1 = Size - head,
         tail > head => head + l1 <= tail /\ l2 = 0
  PROVE  (IF tail <= head /\ head + l1 + l2 >= Size THEN l2 ELSE head + l1 + l2)
           = At(tail + (avail + (l1 + l2)))
<1> USE RingAssumption DEF Index, At
<1>1. \/ tail + avail = head
      \/ tail + avail = head + Size /\ tail >= head
  OBVIOUS
<1>2. CASE tail <= head /\ tail + avail = head
  <2>1. CASE head + l1 + l2 >= Size
    <3>1. l2 = head + l1 + l2 - Size
      BY <1>2, <2>1
    <3> QED
      BY <1>2, <2>1, <3>1
  <2>2. CASE ~(head + l1 + l2 >= Size)
    BY <1>2, <2>2
  <2> QED
    BY <2>1, <2>2
<1>3. CASE tail + avail = head + Size /\ tail = head
  <2>1. avail = Size /\ l1 = 0 /\ l2 = 0
    BY <1>3
  <2> QED
    BY <1>3, <2>1
<1>4. CASE tail + avail = head + Size /\ tail > head
  BY <1>4
<1> QED
  BY <1>1, <1>2, <1>3, <1>4

LEMMA WriteAppends ==
  ASSUME NEW cb, RingOK(cb), NEW bytes \in Seq(Byte)
  PROVE  /\ RingOK(ring_buffer_write(cb, bytes))
         /\ Contents(ring_buffer_write(cb, bytes))
              = Contents(cb) \o SubSeq(bytes, 1, MIN(Len(bytes), Size - cb.avail))
<1> DEFINE len  == Len(bytes)
           lens == WriteLens(cb, len)
           cb2  == ring_buffer_write(cb, bytes)
<1>1. PICK tail \in Index, head \in Index, avail \in 0 .. Size :
        /\ cb.tail = tail /\ cb.head = head /\ cb.avail = avail
        /\ head = At(tail + avail)
        /\ cb.data \in [Index -> Byte \cup {Junk}]
  BY DEF RingOK, Rings
<1>2. len \in Nat
  OBVIOUS
<1>3. PICK l1 \in Nat, l2 \in Nat :
        /\ lens = <<l1, l2>>
        /\ l1 + l2 = MIN(len, Size - avail)
        /\ tail <= head => /\ head + l1 <= Size /\ l2 <= tail
                           /\ l2 > 0 => l1 = Size - head
        /\ tail > head => head + l1 <= tail /\ l2 = 0
  BY <1>1, <1>2, WriteLensFit
<1>4. l1 + l2 \in 0 .. Size - avail /\ l1 + l2 <= len
  <2>1. Size - avail \in Nat
    BY <1>1, RingAssumption
  <2> QED
    BY <1>2, <1>3, <2>1, MINValue
<1>5. CASE lens = <<0, 0>>
  <2>1. cb2 = cb /\ l1 + l2 = 0
    BY <1>3, <1>5 DEF ring_buffer_write
  <2>2. SubSeq(bytes, 1, 0) = << >>
    OBVIOUS
  <2>3. Contents(cb) \o << >> = Contents(cb)
    BY ContentsSeq
  <2> QED
    BY <1>1, <1>3, <2>1, <2>2, <2>3
<1>6. CASE lens # <<0, 0>>
  <2>1. /\ cb2.avail = avail + (l1 + l2) /\ cb2.tail = tail
        /\ cb2.head = At(tail + (avail + (l1 + l2)))
        /\ cb2.data = [i \in Index |->
                         IF i >= head /\ i < head + l1 THEN bytes[i - head + 1]
                         ELSE IF i < l2 THEN bytes[l1 + i + 1] ELSE cb.data[i]]
        /\ cb2 = [data |-> cb2.data, avail |-> cb2.avail, head |-> cb2.head,
                  tail |-> cb2.tail]
    <3>1. head + l1 + l2 \in 0 .. 2 * Size - 1 /\ avail + l1 + l2 \in 0 .. 2 * Size - 1
      <4>1. Size \in Nat /\ head \in 0 .. Size - 1
        BY <1>1, RingAssumption DEF Index
      <4>2. l1 \in Nat /\ l2 \in Nat /\ avail \in 0 .. Size
        BY <1>1, <1>3
      <4> QED BY <1>4, <4>1, <4>2
    <3>2. Uint16(head + l1 + l2) = head + l1 + l2
      BY <3>1, Uint16Identity
    <3>3. Uint16(avail + l1 + l2) = avail + (l1 + l2)
      BY <1>1, <1>3, <3>1, Uint16Identity
    <3>4. NextHead(cb, lens) = At(tail + (avail + (l1 + l2)))
      <4>1. NextHead(cb, lens)
              = IF tail <= head /\ head + l1 + l2 >= Size THEN l2 ELSE head + l1 + l2
        BY <1>1, <1>3, <3>2 DEF NextHead
      <4> QED
        BY <1>1, <1>3, <1>4, <4>1, HeadPlace
    <3> QED
      BY <1>1, <1>3, <1>6, <3>3, <3>4 DEF ring_buffer_write
  <2>2. ASSUME NEW i \in 1 .. avail
        PROVE  /\ At(tail + i - 1) \in Index
               /\ cb2.data[At(tail + i - 1)] = cb.data[At(tail + i - 1)]
    <3> DEFINE k == At(tail + i - 1)
    <3>1. k \in Index /\ ~(k >= head /\ k < head + l1) /\ ~(k < l2)
      BY <1>1, <1>3, <1>4, RingAssumption DEF At, Index
    <3> QED
      BY <2>1, <3>1
  <2>3. ASSUME NEW i \in 1 .. l1 + l2
        PROVE  /\ At(tail + (avail + i) - 1) \in Index
               /\ cb2.data[At(tail + (avail + i) - 1)] = bytes[i]
    <3> DEFINE k == At(tail + (avail + i) - 1)
    <3>1. CASE i <= l1
      <4>1. k \in Index /\ k >= head /\ k < head + l1 /\ k - head + 1 = i
        BY <1>1, <1>3, <1>4, <3>1, RingAssumption DEF At, Index
      <4> QED
        BY <2>1, <4>1
    <3>2. CASE ~(i <= l1)
      <4>1. /\ k \in Index /\ ~(k >= head /\ k < head + l1) /\ k < l2
            /\ l1 + k + 1 = i
        BY <1>1, <1>3, <1>4, <3>2, RingAssumption DEF At, Index
      <4> QED
        BY <2>1, <4>1
    <3> QED
      BY <3>1, <3>2
  <2>4. \A i \in 1 .. len : bytes[i] \in Byte
    OBVIOUS
  <2>5. RingOK(cb2)
    <3>1. cb2.data \in [Index -> Byte \cup {Junk}]
      <4>1. ASSUME NEW i \in Index
            PROVE  cb2.data[i] \in Byte \cup {Junk}
        <5>1. CASE i >= head /\ i < head + l1
          <6>1. i - head + 1 \in 1 .. len
            BY SMTT(60), <1>1, <1>2, <1>3, <1>4, <5>1 DEF Index
          <6> QED
            BY <2>1, <2>4, <5>1, <6>1
        <5>2. CASE ~(i >= head /\ i < head + l1) /\ i < l2
          <6>1. l1 + i + 1 \in 1 .. len
            BY <1>2, <1>3, <1>4, <5>2 DEF Index
          <6> QED
            BY <2>1, <2>4, <5>2, <6>1
        <5>3. CASE ~(i >= head /\ i < head + l1) /\ ~(i < l2)
          BY <1>1, <2>1, <5>3
        <5> QED
          BY <5>1, <5>2, <5>3
      <4>2. cb2.data = [i \in Index |-> cb2.data[i]]
        BY <2>1
      <4> QED
        BY <4>1, <4>2
    <3>2. cb2.avail \in 0 .. Size /\ cb2.head \in Index /\ cb2.tail \in Index
      <4>1. avail + (l1 + l2) \in 0 .. Size
        BY <1>1, <1>3, <1>4, RingAssumption
      <4>2. At(tail + (avail + (l1 + l2))) \in Index
        BY <4>1, RingAssumption DEF At, Index
      <4> QED
        BY <2>1, <4>1, <4>2
    <3>3. cb2 \in Rings
      BY <2>1, <3>1, <3>2 DEF Rings
    <3>4. ASSUME NEW i \in 1 .. cb2.avail
          PROVE  cb2.data[At(cb2.tail + i - 1)] \in Byte
      <4>1. CASE i \in 1 .. avail
        BY <1>1, <2>1, <2>2, <4>1 DEF RingOK
      <4>2. CASE ~(i \in 1 .. avail)
        <5>1. i - avail \in 1 .. l1 + l2 /\ avail + (i - avail) = i /\ i - avail \in 1 .. len
          BY <1>1, <1>2, <1>3, <1>4, <2>1, <4>2
        <5>2. cb2.data[At(tail + (avail + (i - avail)) - 1)] = bytes[i - avail]
          BY <2>3, <5>1
        <5> QED
          BY <2>1, <2>4, <5>1, <5>2
      <4> QED
        BY <4>1, <4>2
    <3> QED
      BY <2>1, <3>3, <3>4 DEF RingOK
  <2>6. Contents(cb2) = Contents(cb) \o SubSeq(bytes, 1, l1 + l2)
    <3> DEFINE s == Contents(cb)
               t == SubSeq(bytes, 1, l1 + l2)
    <3>1. s \in Seq(Byte) /\ Len(s) = avail
      BY <1>1, ContentsSeq
    <3>2. /\ t \in Seq(Byte) /\ Len(t) = l1 + l2
          /\ \A i \in 1 .. l1 + l2 : t[i] = bytes[i]
      BY <1>2, <1>3, <1>4
    <3>3. \A i \in 1 .. avail : s[i] = cb.data[At(tail + i - 1)]
      BY <1>1, ContentsSeq
    <3>4. Contents(cb2) = [i \in 1 .. avail + (l1 + l2) |-> cb2.data[At(tail + i - 1)]]
      BY <2>1 DEF Contents
    <3>5. ASSUME NEW i \in 1 .. avail + (l1 + l2)
          PROVE  cb2.data[At(tail + i - 1)] = IF i <= avail THEN s[i] ELSE t[i - avail]
      <4>1. CASE i <= avail
        BY <1>1, <2>2, <3>3, <4>1
      <4>2. CASE ~(i <= avail)
        <5>1. i - avail \in 1 .. l1 + l2 /\ avail + (i - avail) = i
          BY <1>1, <1>3, <4>2
        <5>2. cb2.data[At(tail + (avail + (i - avail)) - 1)] = bytes[i - avail]
          BY <2>3, <5>1
        <5> QED
          BY <3>2, <4>2, <5>1, <5>2
      <4> QED
        BY <4>1, <4>2
    <3>6. /\ Contents(cb2) \in Seq(Byte) /\ Len(Contents(cb2)) = avail + (l1 + l2)
          /\ \A i \in 1 .. avail + (l1 + l2) :
               Contents(cb2)[i] = IF i <= avail THEN s[i] ELSE t[i - avail]
      BY <2>1, <2>5, <3>4, <3>5, ContentsSeq
    <3> HIDE DEF s, t, cb2
    <3>7. /\ s \o t \in Seq(Byte) /\ Len(s \o t) = avail + (l1 + l2)
          /\ \A i \in 1 .. avail + (l1 + l2) :
               (s \o t)[i] = IF i <= avail THEN s[i] ELSE t[i - avail]
      <4>1. s \in Seq(Byte) /\ t \in Seq(Byte)
        BY <3>1, <3>2
      <4>2. /\ s \o t \in Seq(Byte)
            /\ Len(s \o t) = Len(s) + Len(t)
            /\ \A i \in 1 .. Len(s) + Len(t) :
                 (s \o t)[i] = IF i <= Len(s) THEN s[i] ELSE t[i - Len(s)]
        BY <4>1, ConcatProperties, Zenon
      <4>3. Len(s) = avail /\ Len(t) = l1 + l2
        BY <3>1, <3>2
      <4> QED
        BY <4>2, <4>3, Zenon
    <3>8. Contents(cb2) = s \o t
      BY <3>6, <3>7, SeqEqual
    <3> QED
      BY <3>8 DEF s, t, cb2
  <2> QED
    BY <1>1, <1>3, <2>5, <2>6
<1> QED
  BY <1>5, <1>6

--------------------------------------------------------------------------------
(* The driver. *)


InCall == pc \in {"load", "copy", "store"}

\* A read of the buffer has it for itself: what it loaded is still true when it
\* stores.  A peek has no such guarantee.
ReadExclusive ==
  /\ InCall => ring_buffer = "live" /\ call.op \in {"read", "peek"}
  /\ InCall /\ call.op = "read" =>
       /\ ~intr
       /\ pc # "load" => call.head = rb.head /\ call.tail = rb.tail
       /\ pc = "store" =>
            /\ call.lens = ReadLens(rb.head, rb.tail, rb.avail, call.max_len)
            /\ call.data = Taken(rb.data, rb.tail, call.lens)

PollExclusive == pc = "poll" => ~int_ena /\ ring_buffer # "freed"

IInv == TypeOK /\ RingConsistent /\ ReadExclusive /\ PollExclusive

--------------------------------------------------------------------------------
LEMMA NewRing ==
  /\ RingOK(ring_buffer_new)
  /\ Contents(ring_buffer_new) = << >>
<1>1. RingOK(ring_buffer_new)
  BY RingAssumption DEF ring_buffer_new, RingOK, Rings, Index, At
<1>2. Contents(ring_buffer_new) = << >>
  BY DEF Contents, ring_buffer_new
<1> QED
  BY <1>1, <1>2

\* Whatever a peek finds, it copies from inside the buffer.
LEMMA TakenType ==
  ASSUME NEW data \in [Index -> Byte \cup {Junk}],
         NEW head \in Index, NEW tail \in Index, NEW avail \in 0 .. Size,
         NEW len \in Nat, NEW lens, lens = ReadLens(head, tail, avail, len)
  PROVE  /\ lens \in (0 .. Size) \X (0 .. Size)
         /\ Taken(data, tail, lens) \in Seq(Byte \cup {Junk})
<1> USE RingAssumption DEF Index
<1>1. PICK l1 \in 0 .. Size, l2 \in 0 .. Size :
        /\ lens = <<l1, l2>>
        /\ tail + l1 <= Size
        /\ l2 <= Size
  <2>1. CASE tail < head
    BY <2>1 DEF ReadLens, MIN
  <2>2. CASE tail = head /\ avail = 0
    BY <2>2 DEF ReadLens
  <2>3. CASE tail >= head /\ ~(tail = head /\ avail = 0)
    BY <2>3 DEF ReadLens, MIN
  <2> QED
    BY <2>1, <2>2, <2>3
<1>2. \A i \in 1 .. l1 + l2 :
        (IF i <= l1 THEN data[tail + i - 1] ELSE data[i - l1 - 1])
          \in Byte \cup {Junk}
  BY <1>1
<1>3. Taken(data, tail, lens)
        = [i \in 1 .. l1 + l2 |->
             IF i <= l1 THEN data[tail + i - 1] ELSE data[i - l1 - 1]]
  BY <1>1 DEF Taken
<1>4. Taken(data, tail, lens) \in Seq(Byte \cup {Junk})
  BY <1>2, <1>3
<1> QED
  BY <1>1, <1>4

LEMMA NoCallType == NoCall \in Calls
<1>1. <<0, 0>> \in (0 .. Size) \X (0 .. Size) /\ 0 \in Index /\ 0 \in 0 .. MaxLen
  BY RingAssumption, UartAssumption DEF Index
<1>2. << >> \in Seq(Byte \cup {Junk})
  OBVIOUS
<1> QED
  BY <1>1, <1>2 DEF NoCall, Calls

LEMMA InitIInv == Init => IInv
<1> SUFFICES ASSUME Init PROVE IInv
  OBVIOUS
<1>1. TypeOK
  <2>1. rb \in Rings
    BY NewRing DEF Init, RingOK
  <2>2. rxfifo = << >> /\ returned = << >>
    BY DEF Init
  <2>3. /\ rxfifo \in Seq(Byte) /\ Len(rxfifo) <= FifoDepth
        /\ returned \in Seq(Byte)
    BY <2>2, UartAssumption
  <2> QED
    BY <2>1, <2>3, NoCallType DEF Init, TypeOK
<1> QED
  BY <1>1 DEF Init, IInv, RingConsistent, ReadExclusive, PollExclusive, InCall

\* What the task's step that ends a read does to the buffer.
LEMMA ReadReturnsEffect ==
  ASSUME IInv, ReadReturns
  PROVE  /\ RingOK(rb)
         /\ RingOK(rb') /\ ring_buffer = "live"
         /\ \E n \in 0 .. Len(Contents(rb)) :
              /\ returned' = SubSeq(Contents(rb), 1, n)
              /\ Contents(rb') = SubSeq(Contents(rb), n + 1, Len(Contents(rb)))
<1> DEFINE lens == ReadLens(rb.head, rb.tail, rb.avail, call.max_len)
<1>1. /\ ring_buffer = "live" /\ RingOK(rb) /\ call.max_len \in Nat
      /\ call.head = rb.head /\ call.tail = rb.tail /\ call.lens = lens
      /\ call.data = Taken(rb.data, rb.tail, lens)
  BY UartAssumption
  DEF IInv, ReadReturns, ReadExclusive, InCall, RingConsistent, TypeOK, Calls
<1>2. rb' = AfterRead(rb, lens) /\ returned' = Taken(rb.data, rb.tail, lens)
  BY <1>1 DEF ReadReturns, AfterRead
<1> HIDE DEF lens
<1>3. lens = ReadLens(rb.head, rb.tail, rb.avail, call.max_len)
  BY DEF lens
<1>4. /\ RingOK(AfterRead(rb, lens))
      /\ Contents(AfterRead(rb, lens))
           = SubSeq(Contents(rb), lens[1] + lens[2] + 1, Len(Contents(rb)))
  BY <1>1, <1>3, ReadLeavesRest
<1>5. /\ lens[1] + lens[2] \in 0 .. rb.avail
      /\ Taken(rb.data, rb.tail, lens) = SubSeq(Contents(rb), 1, lens[1] + lens[2])
  BY <1>1, <1>3, TakenOldest
<1>6. Len(Contents(rb)) = rb.avail
  BY <1>1, ContentsSeq
<1> QED
  BY <1>1, <1>2, <1>4, <1>5, <1>6

\* What the handler does to a live buffer.
LEMMA HandlerEffect ==
  ASSUME IInv, handle_interrupt, ring_buffer = "live"
  PROVE  /\ RingOK(rb) /\ RingOK(rb')
         /\ Contents(rb') = Contents(rb) \o
              SubSeq(rxfifo, 1, MIN(Len(rxfifo), Size - Len(Contents(rb))))
<1>1. RingOK(rb) /\ rxfifo \in Seq(Byte)
  BY DEF IInv, RingConsistent, TypeOK
<1>2. rb' = ring_buffer_write(rb, rxfifo)
  BY DEF handle_interrupt
<1> QED
  BY <1>1, <1>2, WriteAppends, ContentsSeq

LEMMA NextIInv == IInv /\ [Next]_vars => IInv'
<1> SUFFICES ASSUME IInv, [Next]_vars
             PROVE  IInv'
  OBVIOUS
<1>0. /\ TypeOK /\ RingConsistent /\ ReadExclusive /\ PollExclusive
      /\ RingConsistent = (ring_buffer = "live" => RingOK(rb))
  BY DEF IInv, RingConsistent
<1> DEFINE Part1 == ReadExclusive /\ PollExclusive
<1> USE DEF irq_vars, task_vars
<1>1. ASSUME NEW b \in Byte, Receive(b)
      PROVE  IInv'
  <2>1. rxfifo' \in Seq(Byte) /\ Len(rxfifo') <= FifoDepth
    <3>1. /\ rxfifo \in Seq(Byte) /\ Len(rxfifo) < FifoDepth
          /\ rxfifo' = Append(rxfifo, b)
      BY <1>0, <1>1 DEF Receive, TypeOK
    <3> QED
      BY <3>1, AppendProperties, UartAssumption, LenProperties
  <2>2. TypeOK'
    BY <1>0, <1>1, <2>1 DEF Receive, TypeOK
  <2> QED
    BY <1>0, <1>1, <2>2
    DEF Receive, IInv, RingConsistent, ReadExclusive, PollExclusive, InCall
<1>2. CASE handle_interrupt
  <2>1. RingConsistent' /\ rb' \in Rings
    <3>1. CASE ring_buffer = "live"
      BY <1>2, <3>1, HandlerEffect DEF RingConsistent, RingOK
    <3>2. CASE ring_buffer # "live"
      BY <1>0, <1>2, <3>2 DEF handle_interrupt, RingConsistent, TypeOK
    <3> QED
      BY <3>1, <3>2
  <2>2. TypeOK'
    <3>1. rxfifo' = << >>
      BY <1>2 DEF handle_interrupt
    <3>2. rxfifo' \in Seq(Byte) /\ Len(rxfifo') <= FifoDepth
      BY <3>1, UartAssumption
    <3> QED
      BY <1>0, <1>2, <2>1, <3>2 DEF handle_interrupt, TypeOK
  <2>3. Part1'
    BY <1>0, <1>2 DEF handle_interrupt, ReadExclusive, PollExclusive, InCall
  <2> QED
    BY <2>1, <2>2, <2>3 DEF IInv
<1>3. CASE uart_buff_setup
  <2>1. RingOK(rb') /\ rb' \in Rings
    BY <1>3, NewRing DEF uart_buff_setup, RingOK
  <2> QED
    BY <1>0, <1>3, <2>1
    DEF uart_buff_setup, IInv, TypeOK, RingConsistent, ReadExclusive, PollExclusive,
        InCall
<1>4. ASSUME NEW max_len \in 0 .. MaxLen, uart_buff_read(max_len)
      PROVE  IInv'
  <2>1. call' \in Calls /\ call'.op = "read"
    BY <1>4, NoCallType DEF uart_buff_read, Calls
  <2> QED
    BY <1>0, <1>4, <2>1
    DEF uart_buff_read, IntrDisabled, IInv, TypeOK, RingConsistent, ReadExclusive,
        PollExclusive, InCall
<1>5. ASSUME NEW max_len \in 0 .. MaxLen, uart_buff_peek(max_len)
      PROVE  IInv'
  <2>1. call' \in Calls /\ call'.op = "peek"
    BY <1>5, NoCallType DEF uart_buff_peek, Calls
  <2> QED
    BY <1>0, <1>5, <2>1
    DEF uart_buff_peek, IInv, TypeOK, RingConsistent, ReadExclusive, PollExclusive,
        InCall
<1>6. CASE LoadIndexes
  <2>1. /\ call' \in Calls /\ call'.op = call.op
        /\ call'.head = rb.head /\ call'.tail = rb.tail
    BY <1>0, <1>6 DEF LoadIndexes, TypeOK, Calls, Rings
  <2> QED
    BY <1>0, <1>6, <2>1
    DEF LoadIndexes, IInv, TypeOK, RingConsistent, ReadExclusive, PollExclusive, InCall
<1>7. CASE CopyOut
  <2> DEFINE lens == ReadLens(call.head, call.tail, rb.avail, call.max_len)
             data == Taken(rb.data, call.tail, lens)
  <2>1. lens \in (0 .. Size) \X (0 .. Size) /\ data \in Seq(Byte \cup {Junk})
    <3>1. /\ rb.data \in [Index -> Byte \cup {Junk}]
          /\ call.head \in Index /\ call.tail \in Index /\ rb.avail \in 0 .. Size
          /\ call.max_len \in Nat
      BY <1>0, UartAssumption DEF TypeOK, Calls, Rings
    <3> QED
      BY <3>1, TakenType
  <2>2. call' = [call EXCEPT !.lens = lens, !.data = data]
    BY <1>7 DEF CopyOut
  <2> HIDE DEF lens, data
  <2>3. /\ call' \in Calls /\ call'.op = call.op /\ call'.max_len = call.max_len
        /\ call'.head = call.head /\ call'.tail = call.tail
        /\ call'.lens = lens /\ call'.data = data
    BY <1>0, <2>1, <2>2 DEF TypeOK, Calls
  <2>4. TypeOK' /\ RingConsistent' /\ PollExclusive'
    BY <1>0, <1>7, <2>3 DEF CopyOut, TypeOK, RingConsistent, PollExclusive
  <2>5. ReadExclusive'
    BY <1>0, <1>7, <2>3 DEF CopyOut, ReadExclusive, InCall, lens, data
  <2> QED
    BY <2>4, <2>5 DEF IInv
<1>8. CASE ReadReturns
  <2>1. RingOK(rb') /\ rb' \in Rings
    BY <1>8, ReadReturnsEffect DEF RingOK
  <2>2. returned' \in Seq(Byte)
    BY <1>8, ReadReturnsEffect, ContentsSeq
  <2> QED
    BY <1>0, <1>8, <2>1, <2>2, NoCallType
    DEF ReadReturns, IntrEnabled, IInv, TypeOK, RingConsistent, ReadExclusive,
        PollExclusive, InCall
<1>9. CASE PeekReturns
  BY <1>0, <1>9, NoCallType
  DEF PeekReturns, IInv, TypeOK, RingConsistent, ReadExclusive, PollExclusive, InCall
<1>10. CASE FreeBuffer \/ ForgetBuffer
  BY <1>0, <1>10
  DEF FreeBuffer, ForgetBuffer, IInv, TypeOK, RingConsistent, ReadExclusive,
      PollExclusive, InCall
<1>11. CASE uart_read \/ PollTimeout
  BY <1>0, <1>11
  DEF uart_read, RxIntMasked, PollTimeout, IInv, TypeOK, RingConsistent,
      ReadExclusive, PollExclusive, InCall
<1>12. CASE PollByte
  <2>1. rxfifo' \in Seq(Byte) /\ Len(rxfifo') <= FifoDepth
    BY <1>0, <1>12, UartAssumption DEF PollByte, TypeOK
  <2> QED
    BY <1>0, <1>12, <2>1
    DEF PollByte, IInv, TypeOK, RingConsistent, ReadExclusive, PollExclusive, InCall
<1>13. CASE UNCHANGED vars
  BY <1>0, <1>13
  DEF vars, IInv, TypeOK, RingConsistent, ReadExclusive, PollExclusive, InCall
<1> QED
  BY <1>1, <1>2, <1>3, <1>4, <1>5, <1>6, <1>7, <1>8, <1>9, <1>10, <1>11, <1>12, <1>13
  DEF Next, TaskStep

THEOREM Invariance == Spec => []IInv
BY InitIInv, NextIInv, PTL DEF Spec

\* The counters of the ring buffer describe the same received bytes in every
\* state, whatever the handler interrupts.
THEOREM RingAlwaysConsistent == Spec => []RingConsistent
<1>1. IInv => RingConsistent
  BY DEF IInv
<1> QED
  BY <1>1, Invariance, PTL

\* The interrupt handler leaves a polling uart_read its bytes.
THEOREM PollUndisturbed == Spec => PollAlone
<1>1. IInv /\ [Next]_vars => [pc = "poll" => rb' = rb]_vars
  <2> SUFFICES ASSUME IInv, Next, pc = "poll" PROVE rb' = rb
    BY DEF vars
  <2> QED
    BY DEF IInv, PollExclusive, Next, TaskStep, Receive, handle_interrupt,
           uart_buff_setup, uart_buff_read, uart_buff_peek, LoadIndexes, CopyOut,
           ReadReturns, PeekReturns, FreeBuffer, ForgetBuffer, uart_read, PollByte,
           PollTimeout
<1> QED
  BY <1>1, Invariance, PTL DEF Spec, PollAlone

--------------------------------------------------------------------------------
(* The refinement. *)

Bytes == IF ring_buffer = "live" THEN Contents(rb) ELSE << >>

LEMMA BytesUnchanged ==
  ASSUME ring_buffer' = ring_buffer, rb' = rb
  PROVE  Bytes' = Bytes
BY DEF Bytes, Contents

LEMMA InitRefines == Init => Queue!Init
BY DEF Init, Queue!Init

\* Every step is a step of the queue, or invisible to it.
LEMMA NextRefines ==
  ASSUME IInv, [Next]_vars
  PROVE  [Queue!Next]_<<rxfifo, ring_buffer = "live", Bytes, returned>>
<1> DEFINE Goal == [Queue!Next]_<<rxfifo, ring_buffer = "live", Bytes, returned>>
<1> USE DEF irq_vars, task_vars
<1>1. ASSUME NEW b \in Byte, Receive(b)
      PROVE  Goal
  <2>1. Bytes' = Bytes
    BY <1>1, BytesUnchanged DEF Receive
  <2> QED
    BY <1>1, <2>1 DEF Receive, Queue!Next, Queue!Receive, Bytes
<1>2. CASE handle_interrupt /\ ring_buffer = "live"
  <2>1. /\ Bytes' = Contents(rb') /\ Bytes = Contents(rb)
        /\ rxfifo' = << >> /\ returned' = returned /\ ring_buffer' = "live"
    BY <1>2 DEF handle_interrupt, Bytes
  <2>2. Bytes' = Bytes \o SubSeq(rxfifo, 1, MIN(Len(rxfifo), Size - Len(Bytes)))
    BY <1>2, <2>1, HandlerEffect
  <2>3. Queue!Put
    BY <1>2, <2>1, <2>2 DEF Queue!Put, Queue!Room, Bytes, MIN
  <2> QED
    BY <2>3 DEF Queue!Next
<1>3. CASE handle_interrupt /\ ring_buffer # "live"
  <2>1. Queue!Bypass
    BY <1>3 DEF handle_interrupt, Queue!Bypass
  <2> QED
    BY <2>1 DEF Queue!Next
<1>4. CASE uart_buff_setup
  <2>1. Queue!Switch
    BY <1>4, NewRing DEF uart_buff_setup, Queue!Switch
  <2> QED
    BY <2>1 DEF Queue!Next
<1>5. CASE ReadReturns
  <2>1. /\ Bytes' = Contents(rb') /\ Bytes = Contents(rb)
        /\ rxfifo' = rxfifo /\ ring_buffer' = "live" /\ ring_buffer = "live"
    BY <1>5, ReadReturnsEffect DEF ReadReturns, Bytes
  <2>2. \E n \in 0 .. Len(Bytes) :
          /\ returned' = SubSeq(Bytes, 1, n)
          /\ Bytes' = SubSeq(Bytes, n + 1, Len(Bytes))
    BY <1>5, <2>1, ReadReturnsEffect
  <2>3. Queue!Get
    BY <2>1, <2>2 DEF Queue!Get, Bytes
  <2> QED
    BY <2>3 DEF Queue!Next
<1>6. CASE FreeBuffer
  <2>1. Queue!Switch
    BY <1>6 DEF FreeBuffer, Queue!Switch
  <2> QED
    BY <2>1 DEF Queue!Next
<1>7. CASE ForgetBuffer
  <2>1. /\ Bytes' = << >> /\ Bytes = << >>
        /\ UNCHANGED <<rxfifo, ring_buffer = "live", returned>>
    BY <1>7 DEF ForgetBuffer, Bytes
  <2> QED
    BY <2>1
<1>8. CASE PollByte
  <2>1. Queue!Bypass
    BY <1>8, BytesUnchanged DEF PollByte, Queue!Bypass, Bytes
  <2> QED
    BY <2>1 DEF Queue!Next
<1>9. CASE \/ \E max_len \in 0 .. MaxLen :
               uart_buff_read(max_len) \/ uart_buff_peek(max_len)
           \/ LoadIndexes \/ CopyOut \/ PeekReturns \/ uart_read \/ PollTimeout
           \/ UNCHANGED vars
  <2>1. UNCHANGED <<rxfifo, ring_buffer, rb, returned>>
    BY <1>9 DEF uart_buff_read, uart_buff_peek, LoadIndexes, CopyOut, PeekReturns,
                uart_read, PollTimeout, vars
  <2> QED
    BY <2>1, BytesUnchanged
<1> QED
  BY <1>1, <1>2, <1>3, <1>4, <1>5, <1>6, <1>7, <1>8, <1>9 DEF Next, TaskStep

\* Buffered reading is the queue that its callers take it for: no byte is lost
\* while there is room, none is repeated, and their order is kept.
THEOREM Refinement == Spec => QueueSpec
<1>1. IInv /\ [Next]_vars
        => [Queue!Next]_<<rxfifo, ring_buffer = "live", Bytes, returned>>
  BY NextRefines
<1> QED
  BY <1>1, InitRefines, Invariance, PTL DEF Spec, QueueSpec, Queue!Spec, Bytes

--------------------------------------------------------------------------------
(* Addresses as leaves of a tree, and what comes before in it. *)

Agree(d, e, n) == \A i \in 1 .. n : d[i] = e[i]

Before(d, e) == \E k \in 1 .. Bits : Agree(d, e, k - 1) /\ d[k] = 0 /\ e[k] = 1

LEMMA BitsNat == Bits \in Nat /\ 1 <= Bits /\ FamilyBits \in 1 .. Bits
BY OneWireAssumption

\* Two addresses differ at a first bit.
LEMMA FirstDifference ==
  ASSUME NEW d \in Addresses, NEW e \in Addresses, d # e
  PROVE  \E k \in 1 .. Bits : Agree(d, e, k - 1) /\ d[k] # e[k]
<1> DEFINE T == {k \in 1 .. Bits : d[k] # e[k]}
<1>1. T # {}
  <2>1. d = [k \in 1 .. Bits |-> d[k]] /\ e = [k \in 1 .. Bits |-> e[k]]
    BY DEF Addresses
  <2>2. (\A k \in 1 .. Bits : d[k] = e[k]) => d = e
    BY <2>1
  <2> QED BY <2>2
<1>2. PICK k \in T : \A m \in T : k <= m
  <2>1. T \subseteq Nat
    OBVIOUS
  <2> HIDE DEF T
  <2> QED BY <1>1, <2>1, LeastNumber, Zenon
<1>3. Agree(d, e, k - 1)
  <2>1. SUFFICES ASSUME NEW i \in 1 .. k - 1 PROVE d[i] = e[i]
    BY DEF Agree
  <2>2. i \in 1 .. Bits /\ ~(k <= i)
    BY BitsNat
  <2> QED BY <1>2, <2>2
<1> QED BY <1>2, <1>3

LEMMA AgreeDown ==
  ASSUME NEW d, NEW e, NEW n \in Nat, NEW m \in 0 .. n, Agree(d, e, n)
  PROVE  Agree(d, e, m) /\ Agree(e, d, m)
<1>1. \A i \in 1 .. m : i \in 1 .. n
  OBVIOUS
<1> QED BY <1>1 DEF Agree

LEMMA AgreeNext ==
  ASSUME NEW d, NEW e, NEW n \in Nat \ {0}, Agree(d, e, n - 1), d[n] = e[n]
  PROVE  Agree(d, e, n)
<1>1. \A i \in 1 .. n : i = n \/ i \in 1 .. n - 1
  OBVIOUS
<1> QED BY <1>1 DEF Agree

LEMMA AgreeThrough ==
  ASSUME NEW d, NEW e, NEW f, NEW n, Agree(d, e, n), Agree(e, f, n)
  PROVE  Agree(d, f, n)
BY DEF Agree

--------------------------------------------------------------------------------
(* The search loop. *)

\* Its recursion defines a function.
LEMMA LoopUnfolds ==
  \E after : /\ after = [n \in 0 .. Bits |->
                           IF n = 0 THEN SearchStart ELSE SearchBit(after[n - 1], n)]
             /\ Loop = after[Bits]
<1> DEFINE Upto(n, f) ==
      f = [i \in 0 .. n |-> IF i = 0 THEN SearchStart ELSE SearchBit(f[i - 1], i)]
    S == {n \in 0 .. Bits : \E f : Upto(n, f)}
<1>1. 0 \in S
  <2> DEFINE f == [i \in 0 .. 0 |-> SearchStart]
  <2>1. Upto(0, f)
    OBVIOUS
  <2>2. 0 \in 0 .. Bits
    BY BitsNat
  <2> HIDE DEF Upto
  <2> QED BY <2>1, <2>2
<1>2. ASSUME NEW n \in 0 .. Bits - 1, n \in S PROVE n + 1 \in S
  <2>1. PICK f : Upto(n, f)
    BY <1>2
  <2> DEFINE g == [i \in 0 .. n + 1 |-> IF i = n + 1 THEN SearchBit(f[n], n + 1) ELSE f[i]]
  <2>2. ASSUME NEW i \in 0 .. n + 1
        PROVE  g[i] = IF i = 0 THEN SearchStart ELSE SearchBit(g[i - 1], i)
    <3>1. CASE i = 0
      BY <2>1, <3>1
    <3>2. CASE i = n + 1
      <4>1. g[i] = SearchBit(f[n], n + 1) /\ g[i - 1] = f[n]
        BY <3>2
      <4> QED BY <3>2, <4>1
    <3>3. CASE i \in 1 .. n
      <4>1. g[i] = f[i] /\ g[i - 1] = f[i - 1] /\ i \in 0 .. n /\ i # 0
        BY <3>3
      <4> QED BY <2>1, <4>1
    <3> QED BY <3>1, <3>2, <3>3
  <2>3. Upto(n + 1, g)
    BY <2>2
  <2>4. n + 1 \in 0 .. Bits
    BY BitsNat
  <2> HIDE DEF Upto, g
  <2> QED BY <2>3, <2>4
<1>3. Bits \in S
  <2>1. 0 .. Bits \subseteq S
    <3> HIDE DEF S
    <3> QED BY <1>1, <1>2, UpTo, BitsNat
  <2>2. Bits \in 0 .. Bits
    BY BitsNat
  <2> HIDE DEF S
  <2> QED BY <2>1, <2>2
<1>4. \E f : Upto(Bits, f)
  BY <1>3
<1> DEFINE after == CHOOSE f : Upto(Bits, f)
<1>5. Upto(Bits, after)
  BY <1>4
<1>6. Loop = after[Bits]
  BY DEF Loop
<1> QED BY <1>5, <1>6

\* What the loop knows after bit n: which devices are left, that 1 was never chosen to
\* the right of last_discrepancy where there was a 0, and where it chose 0 last.
LoopOK(s, n) ==
  /\ s.rom \in Addresses /\ s.failed = FALSE
  /\ s.in = {d \in bus : Agree(d, s.rom, n)} /\ s.in # {}
  /\ s.last_zero \in 0 .. n
  /\ s.last_zero > 0 =>
       /\ s.rom[s.last_zero] = 0
       /\ \E d \in bus : Agree(d, s.rom, s.last_zero - 1) /\ d[s.last_zero] = 1
  /\ \A k \in 1 .. n : k > s.last_zero /\ s.rom[k] = 0 =>
       \A d \in bus : Agree(d, s.rom, k - 1) => d[k] = 0
  /\ \A k \in 1 .. n : k > last_discrepancy /\ s.rom[k] = 1 =>
       \A d \in bus : Agree(d, s.rom, k - 1) => d[k] = 1

\* A search that takes up where it left off at rom.
Resumes ==
  /\ last_discrepancy \in 1 .. Bits /\ rom \in bus /\ rom[last_discrepancy] = 0
  /\ \E d \in bus : Agree(d, rom, last_discrepancy - 1) /\ d[last_discrepancy] = 1

\* How the loop follows it.
Followed(s, n) ==
  /\ \A k \in 1 .. n : k < last_discrepancy => s.rom[k] = rom[k]
  /\ last_discrepancy \in 1 .. n => s.rom[last_discrepancy] = 1

WireTypeOK ==
  /\ bus \subseteq Addresses /\ \A d \in bus : HasFamily(d)
  /\ last_discrepancy \in 0 .. Bits /\ last_device_flag \in BOOLEAN /\ rom \in Addresses
  /\ over \in BOOLEAN /\ disturbed \in BOOLEAN

LEMMA SearchStarts ==
  ASSUME WireTypeOK, bus # {}
  PROVE  LoopOK(SearchStart, 0) /\ Followed(SearchStart, 0)
<1>1. 0 .. 0 = {0} /\ 1 .. 0 = {}
  OBVIOUS
<1>2. {d \in bus : Agree(d, rom, 0)} = bus
  BY <1>1 DEF Agree
<1>3. /\ SearchStart.rom = rom /\ SearchStart.in = bus /\ SearchStart.last_zero = 0
      /\ SearchStart.failed = FALSE
  BY DEF SearchStart
<1> QED BY <1>1, <1>2, <1>3 DEF WireTypeOK, LoopOK, Followed

\* The choice of a bit: the devices that are left, and what the bit says of them.
LEMMA BitChosen ==
  ASSUME WireTypeOK, NEW n \in 1 .. Bits, NEW s, LoopOK(s, n - 1)
  PROVE  \E bit \in {0, 1} :
           LET zeros  == {d \in s.in : d[n] = 0}
               ones   == {d \in s.in : d[n] = 1}
               differ == zeros # {} /\ ones # {}
           IN  /\ SearchBit(s, n) =
                    [rom |-> [s.rom EXCEPT ![n] = bit],
                     in |-> {d \in s.in : d[n] = bit},
                     last_zero |-> IF differ /\ bit = 0 THEN n ELSE s.last_zero,
                     failed |-> FALSE]
               /\ {d \in s.in : d[n] = bit} # {}
               /\ differ => bit = Direction(n)
<1> DEFINE zeros  == {d \in s.in : d[n] = 0}
           ones   == {d \in s.in : d[n] = 1}
           differ == zeros # {} /\ ones # {}
           bit    == IF differ THEN Direction(n) ELSE IF ones # {} THEN 1 ELSE 0
<1>1. s.in \subseteq bus /\ s.in # {} /\ s.failed = FALSE
  BY DEF LoopOK
<1>2. \A d \in s.in : d[n] \in {0, 1}
  BY <1>1 DEF WireTypeOK, Addresses
<1>3. ones = s.in \ zeros
  BY <1>2
<1>4. Direction(n) \in {0, 1}
  BY DEF Direction, WireTypeOK, Addresses
<1>5. bit \in {0, 1}
  BY <1>4
<1>6. {d \in s.in : d[n] = bit} = IF bit = 1 THEN ones ELSE zeros
  BY <1>5
<1>7. {d \in s.in : d[n] = bit} # {}
  <2>1. zeros # {} \/ ones # {}
    BY <1>1, <1>3
  <2>2. CASE differ
    BY <1>5, <1>6, <2>2
  <2>3. CASE ~differ
    BY <1>6, <2>1, <2>3
  <2> QED BY <2>2, <2>3
<1>8. SearchBit(s, n) =
        [rom |-> [s.rom EXCEPT ![n] = bit],
         in |-> IF bit = 1 THEN ones ELSE zeros,
         last_zero |-> IF differ /\ bit = 0 THEN n ELSE s.last_zero,
         failed |-> FALSE]
  BY <1>1, <1>3 DEF SearchBit
<1>9. differ => bit = Direction(n)
  OBVIOUS
<1> HIDE DEF bit
<1> QED BY <1>5, <1>6, <1>7, <1>8, <1>9

\* What is written at n changes nothing before n.
LEMMA BitWritten ==
  ASSUME NEW r \in Addresses, NEW n \in 1 .. Bits, NEW bit \in {0, 1}, NEW w,
         w = [r EXCEPT ![n] = bit]
  PROVE  /\ w \in Addresses /\ w[n] = bit
         /\ \A k \in 1 .. n - 1 : w[k] = r[k]
         /\ \A d : \A m \in 0 .. n - 1 : Agree(d, w, m) <=> Agree(d, r, m)
         /\ \A d : Agree(d, w, n) <=> Agree(d, r, n - 1) /\ d[n] = bit
<1>1. w \in Addresses /\ w[n] = bit
  BY DEF Addresses
<1>2. \A k \in 1 .. n - 1 : k \in 1 .. Bits /\ k # n
  BY BitsNat
<1>3. \A k \in 1 .. n - 1 : w[k] = r[k]
  BY <1>2 DEF Addresses
<1>4. ASSUME NEW d, NEW m \in 0 .. n - 1 PROVE Agree(d, w, m) <=> Agree(d, r, m)
  <2>1. \A k \in 1 .. m : k \in 1 .. n - 1
    OBVIOUS
  <2> QED BY <1>3, <2>1 DEF Agree
<1>5. ASSUME NEW d PROVE Agree(d, w, n) <=> Agree(d, r, n - 1) /\ d[n] = bit
  <2>1. \A k : k \in 1 .. n <=> k \in 1 .. n - 1 \/ k = n
    BY BitsNat
  <2> QED BY <1>1, <1>3, <2>1 DEF Agree
<1> QED BY <1>1, <1>3, <1>4, <1>5

LEMMA BitKept ==
  ASSUME WireTypeOK, NEW n \in 1 .. Bits, NEW s, LoopOK(s, n - 1)
  PROVE  LoopOK(SearchBit(s, n), n)
<1> DEFINE t      == SearchBit(s, n)
           zeros  == {d \in s.in : d[n] = 0}
           ones   == {d \in s.in : d[n] = 1}
           differ == zeros # {} /\ ones # {}
<1>1. PICK bit \in {0, 1} :
        /\ t = [rom |-> [s.rom EXCEPT ![n] = bit],
                in |-> {d \in s.in : d[n] = bit},
                last_zero |-> IF differ /\ bit = 0 THEN n ELSE s.last_zero,
                failed |-> FALSE]
        /\ {d \in s.in : d[n] = bit} # {}
        /\ differ => bit = Direction(n)
  BY BitChosen
<1>2. /\ t.rom = [s.rom EXCEPT ![n] = bit] /\ t.in = {d \in s.in : d[n] = bit}
      /\ t.last_zero = IF differ /\ bit = 0 THEN n ELSE s.last_zero
      /\ t.failed = FALSE
  BY <1>1
<1> HIDE DEF t
<1>3. /\ n \in Nat /\ n - 1 \in Nat /\ s.rom \in Addresses /\ s.last_zero \in 0 .. n - 1
      /\ s.in = {d \in bus : Agree(d, s.rom, n - 1)}
  BY BitsNat DEF LoopOK
<1>4. /\ t.rom \in Addresses /\ t.rom[n] = bit
      /\ \A k \in 1 .. n - 1 : t.rom[k] = s.rom[k]
      /\ \A d : \A m \in 0 .. n - 1 : Agree(d, t.rom, m) <=> Agree(d, s.rom, m)
      /\ \A d : Agree(d, t.rom, n) <=> Agree(d, s.rom, n - 1) /\ d[n] = bit
  BY <1>2, <1>3, BitWritten
<1>5. t.in = {d \in bus : Agree(d, t.rom, n)} /\ t.in # {}
  BY <1>1, <1>2, <1>3, <1>4
<1>6. t.last_zero \in 0 .. n
  BY <1>2, <1>3
<1>7. ASSUME t.last_zero > 0
      PROVE  /\ t.rom[t.last_zero] = 0
             /\ \E d \in bus : Agree(d, t.rom, t.last_zero - 1) /\ d[t.last_zero] = 1
  <2>1. CASE differ /\ bit = 0
    <3>1. PICK d \in ones : TRUE
      BY <2>1
    <3>2. d \in bus /\ Agree(d, t.rom, n - 1) /\ d[n] = 1
      BY <1>3, <1>4, <3>1
    <3> QED BY <1>2, <1>4, <2>1, <3>2
  <2>2. CASE ~(differ /\ bit = 0)
    <3>1. t.last_zero = s.last_zero /\ s.last_zero \in 1 .. n - 1 /\ s.last_zero - 1 \in 0 .. n - 1
      BY <1>2, <1>3, <1>7, <2>2
    <3>2. /\ s.rom[s.last_zero] = 0
          /\ \E d \in bus : Agree(d, s.rom, s.last_zero - 1) /\ d[s.last_zero] = 1
      BY <3>1 DEF LoopOK
    <3> QED BY <1>4, <3>1, <3>2
  <2> QED BY <2>1, <2>2
<1>8. ASSUME NEW k \in 1 .. n, k > t.last_zero, t.rom[k] = 0,
             NEW d \in bus, Agree(d, t.rom, k - 1)
      PROVE  d[k] = 0
  <2>1. t.last_zero = s.last_zero /\ ~(differ /\ bit = 0)
    BY <1>2, <1>3, <1>8
  <2>2. CASE k # n
    <3>1. k \in 1 .. n - 1 /\ k - 1 \in 0 .. n - 1
      BY <2>2
    <3>2. s.rom[k] = 0 /\ Agree(d, s.rom, k - 1)
      BY <1>4, <1>8, <3>1
    <3> QED BY <1>8, <2>1, <3>1, <3>2 DEF LoopOK
  <2>3. CASE k = n
    <3>1. d \in s.in /\ bit = 0 /\ n - 1 \in 0 .. n - 1
      BY <1>3, <1>4, <1>8, <2>3
    <3>2. zeros # {}
      BY <1>1, <3>1
    <3>3. ones = {}
      BY <2>1, <3>1, <3>2
    <3>4. d[n] \in {0, 1}
      BY DEF WireTypeOK, Addresses
    <3> QED BY <2>3, <3>1, <3>3, <3>4
  <2> QED BY <2>2, <2>3
<1>9. ASSUME NEW k \in 1 .. n, k > last_discrepancy, t.rom[k] = 1,
             NEW d \in bus, Agree(d, t.rom, k - 1)
      PROVE  d[k] = 1
  <2>1. CASE k # n
    <3>1. k \in 1 .. n - 1 /\ k - 1 \in 0 .. n - 1
      BY <2>1
    <3>2. s.rom[k] = 1 /\ Agree(d, s.rom, k - 1)
      BY <1>4, <1>9, <3>1
    <3> QED BY <1>9, <3>1, <3>2 DEF LoopOK
  <2>2. CASE k = n
    <3>1. d \in s.in /\ bit = 1 /\ n - 1 \in 0 .. n - 1
      BY <1>3, <1>4, <1>9, <2>2
    <3>2. Direction(n) = 0
      BY <1>3, <1>9, <2>2 DEF Direction, WireTypeOK
    <3>3. zeros = {}
      BY <1>1, <3>1, <3>2
    <3>4. d[n] \in {0, 1}
      BY DEF WireTypeOK, Addresses
    <3> QED BY <2>2, <3>1, <3>3, <3>4
  <2> QED BY <2>1, <2>2
<1>10. LoopOK(t, n)
  BY <1>2, <1>4, <1>5, <1>6, <1>7, <1>8, <1>9 DEF LoopOK
<1> QED BY <1>10 DEF t

LEMMA BitFollows ==
  ASSUME WireTypeOK, Resumes, NEW n \in 1 .. Bits, NEW s, LoopOK(s, n - 1), Followed(s, n - 1)
  PROVE  Followed(SearchBit(s, n), n)
<1> DEFINE t      == SearchBit(s, n)
           zeros  == {d \in s.in : d[n] = 0}
           ones   == {d \in s.in : d[n] = 1}
           differ == zeros # {} /\ ones # {}
<1>1. PICK bit \in {0, 1} :
        /\ t = [rom |-> [s.rom EXCEPT ![n] = bit],
                in |-> {d \in s.in : d[n] = bit},
                last_zero |-> IF differ /\ bit = 0 THEN n ELSE s.last_zero,
                failed |-> FALSE]
        /\ {d \in s.in : d[n] = bit} # {}
        /\ differ => bit = Direction(n)
  BY BitChosen
<1>2. /\ n \in Nat /\ s.rom \in Addresses /\ t.rom = [s.rom EXCEPT ![n] = bit]
      /\ s.in = {d \in bus : Agree(d, s.rom, n - 1)}
  BY <1>1, BitsNat DEF LoopOK
<1> HIDE DEF t
<1>3. t.rom[n] = bit /\ \A k \in 1 .. n - 1 : t.rom[k] = s.rom[k]
  BY <1>2, BitWritten
<1>4. last_discrepancy \in 1 .. Bits /\ rom \in bus /\ rom[last_discrepancy] = 0
  BY DEF Resumes
<1>5. ASSUME n <= last_discrepancy PROVE rom \in s.in
  <2>1. ASSUME NEW k \in 1 .. n - 1 PROVE rom[k] = s.rom[k]
    <3>1. k < last_discrepancy
      BY <1>2, <1>4, <1>5
    <3> QED BY <3>1 DEF Followed
  <2> QED BY <1>2, <1>4, <2>1 DEF Agree
<1>6. ASSUME n < last_discrepancy PROVE bit = rom[n]
  <2>1. rom \in s.in /\ Direction(n) = rom[n] /\ rom[n] \in {0, 1}
    BY <1>2, <1>4, <1>5, <1>6 DEF Direction, WireTypeOK, Addresses
  <2>2. bit # rom[n] => differ
    BY <1>1, <2>1
  <2> QED BY <1>1, <2>1, <2>2
<1>7. ASSUME n = last_discrepancy PROVE bit = 1
  <2>1. rom \in zeros
    BY <1>2, <1>4, <1>5, <1>7
  <2>2. PICK d \in bus : Agree(d, rom, n - 1) /\ d[n] = 1
    BY <1>7 DEF Resumes
  <2>3. Agree(rom, s.rom, n - 1)
    BY <1>2, <1>5, <1>7
  <2>4. d \in ones
    BY <1>2, <2>2, <2>3, AgreeThrough
  <2>5. Direction(n) = 1
    BY <1>2, <1>7 DEF Direction
  <2> QED BY <1>1, <2>1, <2>4, <2>5
<1>8. ASSUME NEW k \in 1 .. n, k < last_discrepancy PROVE t.rom[k] = rom[k]
  <2>1. k = n \/ k \in 1 .. n - 1
    BY <1>2
  <2> QED BY <1>3, <1>6, <1>8, <2>1 DEF Followed
<1>9. ASSUME last_discrepancy \in 1 .. n PROVE t.rom[last_discrepancy] = 1
  <2>1. last_discrepancy = n \/ last_discrepancy \in 1 .. n - 1
    BY <1>2, <1>9
  <2> QED BY <1>3, <1>7, <2>1 DEF Followed
<1>10. Followed(t, n)
  BY <1>8, <1>9 DEF Followed
<1> QED BY <1>10 DEF t

LEMMA LoopEnds ==
  ASSUME WireTypeOK, bus # {}
  PROVE  LoopOK(Loop, Bits) /\ (Resumes => Followed(Loop, Bits))
<1>1. PICK after :
        /\ after = [n \in 0 .. Bits |->
                      IF n = 0 THEN SearchStart ELSE SearchBit(after[n - 1], n)]
        /\ Loop = after[Bits]
  BY LoopUnfolds
<1>2. after[0] = SearchStart
  BY <1>1, BitsNat
<1>3. ASSUME NEW n \in 0 .. Bits - 1 PROVE after[n + 1] = SearchBit(after[n], n + 1)
  <2>1. n + 1 \in 0 .. Bits /\ n + 1 # 0 /\ (n + 1) - 1 = n
    BY BitsNat
  <2> QED BY <1>1, <2>1
<1>4. \A n \in 0 .. Bits - 1 : n + 1 \in 1 .. Bits /\ (n + 1) - 1 = n
  BY BitsNat
<1> DEFINE Kept == {n \in 0 .. Bits : LoopOK(after[n], n)}
           Followers == {n \in 0 .. Bits : LoopOK(after[n], n) /\ Followed(after[n], n)}
<1>5. Bits \in Kept
  <2>1. 0 \in Kept
    BY <1>2, SearchStarts, BitsNat
  <2>2. ASSUME NEW n \in 0 .. Bits - 1, n \in Kept PROVE n + 1 \in Kept
    <3>1. LoopOK(after[n + 1], n + 1)
      BY <1>3, <1>4, <2>2, BitKept
    <3> QED BY <1>4, <3>1
  <2> HIDE DEF Kept
  <2>3. 0 .. Bits \subseteq Kept
    BY <2>1, <2>2, UpTo, BitsNat
  <2> QED BY <2>3, BitsNat
<1>6. ASSUME Resumes PROVE Bits \in Followers
  <2>1. 0 \in Followers
    BY <1>2, SearchStarts, BitsNat
  <2>2. ASSUME NEW n \in 0 .. Bits - 1, n \in Followers PROVE n + 1 \in Followers
    <3>1. LoopOK(after[n + 1], n + 1)
      BY <1>3, <1>4, <2>2, BitKept
    <3>2. Followed(after[n + 1], n + 1)
      BY <1>3, <1>4, <1>6, <2>2, BitFollows
    <3> QED BY <1>4, <3>1, <3>2
  <2> HIDE DEF Followers
  <2>3. 0 .. Bits \subseteq Followers
    BY <2>1, <2>2, UpTo, BitsNat
  <2> QED BY <2>3, BitsNat
<1> QED BY <1>1, <1>5, <1>6

--------------------------------------------------------------------------------
(* What a search has seen. *)

Seen(r) == {d \in bus : d = r \/ Before(d, r)}

\* No device is to the right of r, but where the search may still go.
NoneAfter(r, bound) ==
  \A k \in 1 .. Bits : k > bound /\ r[k] = 0 => \A d \in bus : Agree(d, r, k - 1) => d[k] = 0

\* The loop ends with a device.
LEMMA DeviceFound ==
  ASSUME WireTypeOK, NEW s, LoopOK(s, Bits)
  PROVE  s.rom \in bus /\ NoneAfter(s.rom, s.last_zero)
<1>1. PICK d \in s.in : TRUE
  BY DEF LoopOK
<1>2. d \in bus /\ Agree(d, s.rom, Bits) /\ d \in Addresses /\ s.rom \in Addresses
  BY <1>1 DEF LoopOK, WireTypeOK
<1>3. d = s.rom
  <2>1. \A k \in 1 .. Bits : d[k] = s.rom[k]
    BY <1>2 DEF Agree
  <2> QED BY <1>2, <2>1, FirstDifference
<1> QED BY <1>2, <1>3 DEF NoneAfter, LoopOK

\* A new search begins with the first of them.
LEMMA FirstFound ==
  ASSUME WireTypeOK, NEW s, LoopOK(s, Bits), last_discrepancy = 0
  PROVE  Seen(s.rom) = {s.rom}
<1>1. s.rom \in bus
  BY DeviceFound
<1>2. ASSUME NEW d \in bus, Before(d, s.rom) PROVE FALSE
  <2>1. PICK k \in 1 .. Bits : Agree(d, s.rom, k - 1) /\ d[k] = 0 /\ s.rom[k] = 1
    BY <1>2 DEF Before
  <2>2. k > last_discrepancy
    BY BitsNat
  <2>3. d[k] = 1
    BY <2>1, <2>2 DEF LoopOK
  <2> QED BY <2>1, <2>3
<1> QED BY <1>1, <1>2 DEF Seen

\* It goes on with the next, in the order of the tree.
LEMMA NextFound ==
  ASSUME WireTypeOK, Resumes, NoneAfter(rom, last_discrepancy),
         NEW s, LoopOK(s, Bits), Followed(s, Bits)
  PROVE  s.rom \notin Seen(rom) /\ Seen(s.rom) = Seen(rom) \cup {s.rom}
<1> DEFINE ld == last_discrepancy
<1>1. /\ ld \in 1 .. Bits /\ rom \in bus /\ rom \in Addresses /\ rom[ld] = 0
      /\ s.rom \in bus /\ s.rom \in Addresses
      /\ s.rom[ld] = 1 /\ \A k \in 1 .. Bits : k < ld => s.rom[k] = rom[k]
      /\ \A d \in bus : d \in Addresses /\ \A k \in 1 .. Bits : d[k] \in {0, 1}
  BY DeviceFound DEF Resumes, Followed, WireTypeOK, Addresses
<1> HIDE DEF ld
<1>2. Agree(s.rom, rom, ld - 1) /\ Agree(rom, s.rom, ld - 1)
  BY <1>1, BitsNat DEF Agree
<1>3. Before(rom, s.rom)
  BY <1>1, <1>2 DEF Before
<1>4. ~Before(s.rom, rom)
  <2>1. SUFFICES ASSUME NEW k \in 1 .. Bits, Agree(s.rom, rom, k - 1), s.rom[k] = 0, rom[k] = 1
                 PROVE  FALSE
    BY DEF Before
  <2>2. k # ld /\ ~(k < ld)
    BY <1>1, <2>1
  <2>3. ld \in 1 .. k - 1
    BY <1>1, <2>2, BitsNat
  <2> QED BY <1>1, <2>1, <2>3 DEF Agree
<1>5. ASSUME NEW d \in bus, Before(d, rom) PROVE Before(d, s.rom)
  <2>1. PICK k \in 1 .. Bits : Agree(d, rom, k - 1) /\ d[k] = 0 /\ rom[k] = 1
    BY <1>5 DEF Before
  <2>2. k # ld
    BY <1>1, <2>1
  <2>3. CASE k < ld
    <3>1. Agree(rom, s.rom, k - 1) /\ s.rom[k] = 1
      <4>1. k - 1 \in 0 .. ld - 1 /\ ld - 1 \in Nat
        BY <1>1, <2>3, BitsNat
      <4> QED BY <1>1, <1>2, <2>1, <2>3, <4>1, AgreeDown
    <3>2. Agree(d, s.rom, k - 1)
      BY <2>1, <3>1, AgreeThrough
    <3> QED BY <2>1, <3>1, <3>2 DEF Before
  <2>4. CASE k > ld
    <3>1. k - 1 \in Nat /\ ld - 1 \in 0 .. k - 1 /\ ld \in 1 .. k - 1
      BY <1>1, <2>4, BitsNat
    <3>2. d[ld] = 0 /\ Agree(d, rom, ld - 1)
      BY <1>1, <2>1, <3>1, AgreeDown DEF Agree
    <3>3. Agree(d, s.rom, ld - 1)
      BY <1>2, <3>2, AgreeThrough
    <3> QED BY <1>1, <3>2, <3>3 DEF Before
  <2> QED BY <1>1, <2>2, <2>3, <2>4
<1>6. ASSUME NEW d \in bus, Before(d, s.rom), d # rom PROVE Before(d, rom)
  <2>1. PICK k \in 1 .. Bits : Agree(d, s.rom, k - 1) /\ d[k] = 0 /\ s.rom[k] = 1
    BY <1>6 DEF Before
  <2>2. ~(k > ld)
    BY <2>1 DEF LoopOK, ld
  <2>3. CASE k < ld
    <3>1. k - 1 \in 0 .. ld - 1 /\ ld - 1 \in Nat
      BY <1>1, <2>3, BitsNat
    <3>2. Agree(s.rom, rom, k - 1) /\ rom[k] = 1
      BY <1>1, <1>2, <2>1, <2>3, <3>1, AgreeDown
    <3>3. Agree(d, rom, k - 1)
      BY <2>1, <3>2, AgreeThrough
    <3> QED BY <2>1, <3>2, <3>3 DEF Before
  <2>4. CASE k = ld
    <3>1. Agree(d, rom, ld - 1)
      BY <1>2, <2>1, <2>4, AgreeThrough
    <3>2. PICK j \in 1 .. Bits : Agree(d, rom, j - 1) /\ d[j] # rom[j]
      BY <1>1, <1>6, FirstDifference
    <3>3. j > ld
      <4>1. j # ld
        BY <1>1, <2>1, <2>4, <3>2
      <4>2. ~(j \in 1 .. ld - 1)
        BY <3>1, <3>2 DEF Agree
      <4> QED BY <1>1, <4>1, <4>2, BitsNat
    <3>4. rom[j] = 0 => d[j] = 0
      BY <3>2, <3>3 DEF NoneAfter, ld
    <3>5. rom[j] = 1 /\ d[j] = 0
      BY <1>1, <3>2, <3>4
    <3> QED BY <3>2, <3>5 DEF Before
  <2> QED BY <1>1, <2>2, <2>3, <2>4, BitsNat
<1>7. s.rom \notin Seen(rom)
  BY <1>1, <1>4 DEF Seen
<1>8. Seen(s.rom) = Seen(rom) \cup {s.rom}
  BY <1>1, <1>3, <1>5, <1>6 DEF Seen
<1> QED BY <1>7, <1>8

\* Nothing is left where no branch is.
LEMMA AllSeen ==
  ASSUME WireTypeOK, rom \in bus, NoneAfter(rom, 0)
  PROVE  Seen(rom) = bus
<1> SUFFICES ASSUME NEW d \in bus, d # rom PROVE Before(d, rom)
  BY DEF Seen
<1>1. PICK k \in 1 .. Bits : Agree(d, rom, k - 1) /\ d[k] # rom[k]
  BY FirstDifference DEF WireTypeOK
<1>2. d[k] \in {0, 1} /\ rom[k] \in {0, 1} /\ k > 0
  BY BitsNat DEF WireTypeOK, Addresses
<1>3. rom[k] = 1 /\ d[k] = 0
  BY <1>1, <1>2 DEF NoneAfter
<1> QED BY <1>1, <1>3 DEF Before

--------------------------------------------------------------------------------
(* The inductive invariant: what was found is what the search has seen, and what   *)
(* it remembers of its way says where the rest is.                                 *)

SearchUnderWay ==
  ~disturbed /\ ~over =>
    IF found = << >> THEN last_discrepancy = 0 /\ ~last_device_flag
    ELSE /\ rom \in bus /\ ToSet(found) = Seen(rom) /\ NoneAfter(rom, last_discrepancy)
         /\ last_device_flag <=> last_discrepancy = 0
         /\ last_discrepancy # 0 => Resumes

WireIInv ==
  /\ WireTypeOK /\ found \in Seq(bus)
  /\ over => last_discrepancy = 0 /\ ~last_device_flag
  /\ disturbed => found = << >>
  /\ SearchUnderWay
  /\ FoundOnce

LEMMA EmptyFound ==
  /\ << >> \in Seq(bus) /\ ToSet(<< >>) = {} /\ IsInjective(<< >>)
BY DEF ToSet, IsInjective

LEMMA OneMoreFound ==
  ASSUME NEW S, NEW s \in Seq(S), NEW e \in S, IsInjective(s), e \notin ToSet(s)
  PROVE  /\ Append(s, e) \in Seq(S) /\ Append(s, e) # << >>
         /\ ToSet(Append(s, e)) = ToSet(s) \cup {e}
         /\ IsInjective(Append(s, e))
<1> DEFINE t == Append(s, e)
<1>1. /\ t \in Seq(S) /\ Len(s) \in Nat /\ DOMAIN s = 1 .. Len(s) /\ t # << >>
      /\ DOMAIN t = 1 .. Len(s) + 1 /\ t[Len(s) + 1] = e
      /\ \A i \in 1 .. Len(s) : t[i] = s[i]
  OBVIOUS
<1> HIDE DEF t
<1>2. \A i : i \in DOMAIN t <=> i \in DOMAIN s \/ i = Len(s) + 1
  BY <1>1
<1>3. \A i \in DOMAIN s : t[i] = s[i]
  BY <1>1
<1>4. ToSet(t) = ToSet(s) \cup {e}
  BY <1>1, <1>2, <1>3 DEF ToSet
<1>5. ASSUME NEW i \in DOMAIN t, NEW j \in DOMAIN t, t[i] = t[j] PROVE i = j
  <2>1. \A k \in DOMAIN s : s[k] # e
    BY DEF ToSet
  <2>2. \A k, l \in DOMAIN s : s[k] = s[l] => k = l
    BY DEF IsInjective
  <2>3. CASE i \in DOMAIN s /\ j \in DOMAIN s
    BY <1>3, <1>5, <2>2, <2>3
  <2>4. CASE i = Len(s) + 1 /\ j \in DOMAIN s
    BY <1>1, <1>3, <1>5, <2>1, <2>4
  <2>5. CASE i \in DOMAIN s /\ j = Len(s) + 1
    BY <1>1, <1>3, <1>5, <2>1, <2>5
  <2> QED BY <1>2, <2>3, <2>4, <2>5
<1>6. IsInjective(t)
  BY <1>5 DEF IsInjective
<1> QED BY <1>1, <1>4, <1>6 DEF t

LEMMA ZeroDiscrepancy == 0 \in 0 .. Bits
BY BitsNat

LEMMA WireInitIInv == WireInit => WireIInv
<1> SUFFICES ASSUME WireInit PROVE WireIInv
  OBVIOUS
<1>1. None \in Addresses
  BY DEF None, Addresses
<1>2. WireTypeOK
  BY <1>1, ZeroDiscrepancy DEF WireInit, WireTypeOK
<1> QED BY <1>2, EmptyFound DEF WireInit, WireIInv, SearchUnderWay, FoundOnce

\* A search that is over, or begins, or was disturbed, has nothing to keep.
LEMMA NothingFound ==
  ASSUME WireTypeOK', found' = << >>,
         (last_discrepancy' = 0 /\ ~last_device_flag') \/ (disturbed' /\ ~over'),
         over' => disturbed'
  PROVE  WireIInv'
<1>1. << >> \in Seq(bus') /\ ToSet(<< >>) = {} /\ IsInjective(<< >>)
  BY DEF ToSet, IsInjective
<1>2. SearchUnderWay'
  BY DEF SearchUnderWay
<1>3. FoundOnce'
  BY <1>1 DEF FoundOnce
<1> QED BY <1>1, <1>2, <1>3 DEF WireIInv

\* A call that finds a device.
LEMMA DeviceIInv ==
  ASSUME WireIInv, ~over, bus # {}, ~last_device_flag, UNCHANGED <<bus, disturbed, over>>,
         rom' = Loop.rom, last_discrepancy' = Loop.last_zero,
         last_device_flag' = (Loop.last_zero = 0),
         found' = IF disturbed THEN << >> ELSE Append(found, Loop.rom)
  PROVE  WireIInv'
<1>1. WireTypeOK /\ LoopOK(Loop, Bits) /\ (Resumes => Followed(Loop, Bits))
  BY LoopEnds DEF WireIInv
<1>2. Loop.rom \in bus /\ NoneAfter(Loop.rom, Loop.last_zero)
  BY <1>1, DeviceFound
<1>3. WireTypeOK'
  BY <1>1 DEF WireTypeOK, LoopOK
<1>4. CASE disturbed
  BY <1>3, <1>4, NothingFound DEF WireIInv
<1>5. CASE ~disturbed
  <2>1. found' = Append(found, Loop.rom)
    BY <1>5
  <2>2. Loop.rom \notin ToSet(found) /\ ToSet(found) \cup {Loop.rom} = Seen(Loop.rom)
    <3>1. CASE found = << >>
      <4>1. last_discrepancy = 0
        BY <1>5, <3>1 DEF WireIInv, SearchUnderWay
      <4> QED BY <1>1, <3>1, <4>1, FirstFound, EmptyFound
    <3>2. CASE found # << >>
      <4>1. /\ Resumes /\ ToSet(found) = Seen(rom) /\ NoneAfter(rom, last_discrepancy)
        BY <1>5, <3>2 DEF WireIInv, SearchUnderWay
      <4> QED BY <1>1, <4>1, NextFound
    <3> QED BY <3>1, <3>2
  <2>3. found \in Seq(bus) /\ IsInjective(found)
    BY <1>5 DEF WireIInv, FoundOnce
  <2>4. /\ found' \in Seq(bus') /\ found' # << >> /\ IsInjective(found')
        /\ ToSet(found') = Seen(Loop.rom)
    <3>1. /\ Append(found, Loop.rom) \in Seq(bus) /\ Append(found, Loop.rom) # << >>
          /\ ToSet(Append(found, Loop.rom)) = ToSet(found) \cup {Loop.rom}
          /\ IsInjective(Append(found, Loop.rom))
      BY <1>2, <2>2, <2>3, OneMoreFound, Zenon
    <3> QED BY <2>1, <2>2, <3>1
  <2>5. last_discrepancy' # 0 => Resumes'
    <3>1. SUFFICES ASSUME Loop.last_zero # 0 PROVE Resumes'
      OBVIOUS
    <3>2. Loop.last_zero \in 1 .. Bits /\ Loop.last_zero > 0
      BY <1>1, <3>1, BitsNat DEF LoopOK
    <3>3. /\ Loop.rom[Loop.last_zero] = 0
          /\ \E d \in bus : Agree(d, Loop.rom, Loop.last_zero - 1) /\ d[Loop.last_zero] = 1
      BY <1>1, <3>2 DEF LoopOK
    <3> QED BY <1>2, <3>2, <3>3 DEF Resumes
  <2>6. SearchUnderWay'
    BY <1>2, <2>4, <2>5 DEF SearchUnderWay, Seen, NoneAfter
  <2>7. FoundOnce'
    <3>1. ToSet(found') \subseteq bus'
      BY <2>4 DEF Seen
    <3> QED BY <2>4, <3>1 DEF FoundOnce
  <2> QED BY <1>3, <1>5, <2>4, <2>6, <2>7 DEF WireIInv
<1> QED BY <1>4, <1>5

\* A call that says that there are no more.
LEMMA NoMoreIInv ==
  ASSUME WireIInv, ~over, last_device_flag \/ bus = {}, NotFound, UNCHANGED <<bus, disturbed, rom>>
  PROVE  WireIInv'
<1>1. /\ last_discrepancy' = 0 /\ last_device_flag' = FALSE /\ over' = TRUE /\ found' = found
  BY DEF NotFound
<1>2. WireTypeOK'
  <2>1. WireTypeOK
    BY DEF WireIInv
  <2> QED BY <1>1, <2>1, ZeroDiscrepancy DEF WireTypeOK
<1>3. ~disturbed => ToSet(found) = bus
  <2>1. SUFFICES ASSUME ~disturbed PROVE ToSet(found) = bus
    OBVIOUS
  <2>2. CASE found = << >>
    <3>1. bus = {}
      BY <2>1, <2>2 DEF WireIInv, SearchUnderWay
    <3> QED BY <2>2, <3>1, EmptyFound
  <2>3. CASE found # << >>
    <3>1. /\ rom \in bus /\ ToSet(found) = Seen(rom) /\ NoneAfter(rom, last_discrepancy)
          /\ last_device_flag <=> last_discrepancy = 0
      BY <2>1, <2>3 DEF WireIInv, SearchUnderWay
    <3>2. last_discrepancy = 0
      BY <3>1
    <3> QED BY <3>1, <3>2, AllSeen DEF WireIInv
  <2> QED BY <2>2, <2>3
<1>4. FoundOnce'
  BY <1>1, <1>3 DEF WireIInv, FoundOnce
<1> QED BY <1>1, <1>2, <1>4 DEF WireIInv, SearchUnderWay

LEMMA WireNextIInv == WireIInv /\ [WireNext]_wire_vars => WireIInv'
<1> SUFFICES ASSUME WireIInv, [WireNext]_wire_vars PROVE WireIInv'
  OBVIOUS
<1> USE DEF search_vars
<1>1. ASSUME NEW device \in Addresses, HasFamily(device), Plug(device) PROVE WireIInv'
  <2>1. WireTypeOK'
    BY <1>1 DEF Plug, WireIInv, WireTypeOK, HasFamily
  <2> QED BY <1>1, <2>1, NothingFound DEF Plug, WireIInv
<1>2. CASE Begin
  <2>1. WireTypeOK'
    BY <1>2 DEF Begin, WireIInv, WireTypeOK, HasFamily
  <2> QED BY <1>2, <2>1, NothingFound DEF Begin, WireIInv
<1>3. CASE one_wire_search
  <2>1. ~over /\ UNCHANGED <<bus, disturbed>>
    BY <1>3 DEF one_wire_search
  <2>2. CASE last_device_flag \/ bus = {}
    BY <1>3, <2>1, <2>2, NoMoreIInv DEF one_wire_search, one_wire_reset
  <2>3. CASE ~last_device_flag /\ bus # {}
    <3>1. LoopOK(Loop, Bits) /\ Loop.rom \in bus
      BY <2>3, LoopEnds, DeviceFound DEF WireIInv
    <3>2. ~Loop.failed /\ HasFamily(Loop.rom)
      BY <3>1 DEF LoopOK, WireIInv, WireTypeOK
    <3>3. /\ rom' = Loop.rom /\ last_discrepancy' = Loop.last_zero
          /\ last_device_flag' = (Loop.last_zero = 0)
          /\ found' = IF disturbed THEN << >> ELSE Append(found, Loop.rom)
          /\ over' = over
      BY <1>3, <2>3, <3>2 DEF one_wire_search, one_wire_reset
    <3> QED BY <2>1, <2>3, <3>3, DeviceIInv
  <2> QED BY <2>2, <2>3
<1>4. CASE one_wire_search_reset
  <2>1. None \in Addresses
    BY DEF None, Addresses
  <2>2. WireTypeOK'
    BY <1>4, <2>1, ZeroDiscrepancy DEF one_wire_search_reset, WireIInv, WireTypeOK, HasFamily
  <2> QED BY <1>4, <2>2, NothingFound DEF one_wire_search_reset
<1>5. CASE UNCHANGED wire_vars
  BY <1>5 DEF wire_vars, WireIInv, WireTypeOK, SearchUnderWay, FoundOnce, Seen, NoneAfter,
    Resumes, HasFamily
<1> QED BY <1>1, <1>2, <1>3, <1>4, <1>5 DEF WireNext

\* Every device is found once and none is left out, for any number of devices with
\* addresses of any length, after devices came and went and searches were given up
\* (one_wire_search, one_wire_search_reset).
THEOREM SearchFindsAll == WireSpec => []FoundOnce
<1>1. WireIInv => FoundOnce
  BY DEF WireIInv
<1> QED BY <1>1, WireInitIInv, WireNextIInv, PTL DEF WireSpec

--------------------------------------------------------------------------------
(* Orders.  R is a strict order of S, as a set of pairs. *)

Orders(R, S) ==
  /\ \A a, b \in S : a = b \/ <<a, b>> \in R \/ <<b, a>> \in R
  /\ \A a, b, c \in S : <<a, b>> \in R /\ <<b, c>> \in R => <<a, c>> \in R
  /\ \A a \in S : <<a, a>> \notin R

\* A finite set has a last element in a strict order of it.
LEMMA LastElement ==
  ASSUME NEW S, IsFiniteSet(S), S # {}, NEW R, Orders(R, S)
  PROVE  \E m \in S : \A a \in S : a = m \/ <<a, m>> \in R
<1> DEFINE Ends(T) == \E m \in T : \A a \in T : a = m \/ <<a, m>> \in R
           N == {n \in 0 .. Cardinality(S) - 1 :
                   \A T \in SUBSET S : Cardinality(T) = n + 1 => Ends(T)}
<1>1. Cardinality(S) \in Nat /\ Cardinality(S) - 1 \in Nat
  BY FS_CardinalityType, FS_EmptySet
<1>2. 0 \in N
  <2>1. SUFFICES ASSUME NEW T \in SUBSET S, Cardinality(T) = 1 PROVE Ends(T)
    BY <1>1
  <2>2. IsFiniteSet(T)
    BY FS_Subset
  <2>3. PICK a : T = {a}
    BY <2>1, <2>2, FS_Singleton
  <2> QED BY <2>3
<1>3. ASSUME NEW n \in 0 .. Cardinality(S) - 1 - 1, n \in N PROVE n + 1 \in N
  <2>1. n + 1 \in 0 .. Cardinality(S) - 1
    BY <1>1
  <2>2. SUFFICES ASSUME NEW T \in SUBSET S, Cardinality(T) = n + 1 + 1 PROVE Ends(T)
    BY <2>1
  <2>3. IsFiniteSet(T) /\ T # {}
    BY <2>2, FS_Subset, FS_EmptySet
  <2>4. PICK e \in T : TRUE
    BY <2>3
  <2>5. Cardinality(T \ {e}) = n + 1
    BY <2>2, <2>3, <2>4, FS_RemoveElement
  <2>6. Ends(T \ {e})
    BY <1>3, <2>5
  <2>7. PICK m \in T \ {e} : \A a \in T \ {e} : a = m \/ <<a, m>> \in R
    BY <2>6
  <2>8. CASE <<m, e>> \in R
    <3>1. \A a \in T : a = e \/ <<a, e>> \in R
      BY <2>7, <2>8 DEF Orders
    <3> QED BY <2>4, <3>1
  <2>9. CASE <<e, m>> \in R
    BY <2>7, <2>9
  <2> QED BY <2>7, <2>8, <2>9 DEF Orders
<1>4. Cardinality(S) - 1 \in N
  <2> HIDE DEF N
  <2>1. 0 .. Cardinality(S) - 1 \subseteq N
    BY <1>1, <1>2, <1>3, UpTo
  <2> QED BY <1>1, <2>1
<1> QED BY <1>1, <1>4

\* A finite set can be listed in a strict order of it.
LEMMA OrderExists ==
  ASSUME NEW S, IsFiniteSet(S), NEW R, Orders(R, S)
  PROVE  \E f \in [1 .. Cardinality(S) -> S] :
           \A i, j \in 1 .. Cardinality(S) : i < j => <<f[i], f[j]>> \in R
<1> DEFINE Ordered(T, n) == \E f \in [1 .. n -> T] :
                              \A i, j \in 1 .. n : i < j => <<f[i], f[j]>> \in R
           N == {n \in 0 .. Cardinality(S) :
                   \A T \in SUBSET S : Cardinality(T) = n => Ordered(T, n)}
<1>1. Cardinality(S) \in Nat
  BY FS_CardinalityType
<1>2. 0 \in N
  <2>1. SUFFICES ASSUME NEW T \in SUBSET S PROVE Ordered(T, 0)
    BY <1>1
  <2>2. 1 .. 0 = {}
    OBVIOUS
  <2>3. [i \in 1 .. 0 |-> i] \in [1 .. 0 -> T]
    BY <2>2
  <2> QED BY <2>2, <2>3
<1>3. ASSUME NEW n \in 0 .. Cardinality(S) - 1, n \in N PROVE n + 1 \in N
  <2>1. n + 1 \in 0 .. Cardinality(S) /\ n \in Nat
    BY <1>1
  <2>2. SUFFICES ASSUME NEW T \in SUBSET S, Cardinality(T) = n + 1 PROVE Ordered(T, n + 1)
    BY <2>1
  <2>3. IsFiniteSet(T) /\ T # {} /\ Orders(R, T)
    BY <2>2, FS_Subset, FS_EmptySet DEF Orders
  <2>4. PICK m \in T : \A a \in T : a = m \/ <<a, m>> \in R
    BY <2>3, LastElement
  <2>5. Cardinality(T \ {m}) = n
    <3>1. Cardinality(T \ {m}) = Cardinality(T) - 1
      BY <2>3, <2>4, FS_RemoveElement
    <3> QED BY <2>1, <2>2, <3>1
  <2>6. Ordered(T \ {m}, n)
    BY <1>3, <2>5
  <2>7. PICK f \in [1 .. n -> T \ {m}] :
          \A i, j \in 1 .. n : i < j => <<f[i], f[j]>> \in R
    BY <2>6
  <2> DEFINE g == [i \in 1 .. n + 1 |-> IF i = n + 1 THEN m ELSE f[i]]
  <2>8. \A i \in 1 .. n + 1 : i = n + 1 \/ i \in 1 .. n
    BY <2>1
  <2>9. g \in [1 .. n + 1 -> T]
    BY <2>4, <2>7, <2>8
  <2>10. ASSUME NEW i \in 1 .. n + 1, NEW j \in 1 .. n + 1, i < j
         PROVE  <<g[i], g[j]>> \in R
    <3>1. i \in 1 .. n /\ g[i] = f[i] /\ f[i] \in T /\ f[i] # m
      BY <2>1, <2>7, <2>8, <2>10
    <3>2. CASE j = n + 1
      BY <2>4, <3>1, <3>2
    <3>3. CASE j \in 1 .. n
      BY <2>1, <2>7, <2>10, <3>1, <3>3
    <3> QED BY <2>8, <3>2, <3>3
  <2> HIDE DEF g
  <2> QED BY <2>9, <2>10
<1>4. Cardinality(S) \in N
  <2> HIDE DEF N
  <2>1. 0 .. Cardinality(S) \subseteq N
    BY <1>1, <1>2, <1>3, UpTo
  <2> QED BY <1>1, <2>1
<1> QED BY <1>4

Lists(seq, S, R) ==
  /\ Cardinality(S) \in Nat
  /\ seq \in [1 .. Cardinality(S) -> S]
  /\ \A i, j \in 1 .. Cardinality(S) : i < j => <<seq[i], seq[j]>> \in R
  /\ \A a \in S : \E i \in 1 .. Cardinality(S) : seq[i] = a

\* InOrder lists the set.
LEMMA Ordered ==
  ASSUME NEW S, IsFiniteSet(S), NEW R, Orders(R, S), NEW seq, seq = InOrder(S, R)
  PROVE  Lists(seq, S, R)
<1>1. /\ Cardinality(S) \in Nat
      /\ seq \in [1 .. Cardinality(S) -> S]
      /\ \A i, j \in 1 .. Cardinality(S) : i < j => <<seq[i], seq[j]>> \in R
  BY OrderExists, FS_CardinalityType DEF InOrder
<1>2. seq \in Injection(1 .. Cardinality(S), S)
  <2>1. ASSUME NEW i \in 1 .. Cardinality(S), NEW j \in 1 .. Cardinality(S), seq[i] = seq[j]
        PROVE  i = j
    <3>1. seq[i] \in S /\ <<seq[i], seq[i]>> \notin R
      BY <1>1 DEF Orders
    <3>2. ~(i < j) /\ ~(j < i)
      BY <1>1, <2>1, <3>1
    <3> QED BY <1>1, <3>2
  <2>2. DOMAIN seq = 1 .. Cardinality(S)
    BY <1>1
  <2>3. IsInjective(seq)
    BY <2>1, <2>2 DEF IsInjective
  <2> QED BY <1>1, <2>3 DEF Injection
<1>3. Cardinality(1 .. Cardinality(S)) = Cardinality(S)
  <2>1. Cardinality(1 .. Cardinality(S)) =
          IF 1 > Cardinality(S) THEN 0 ELSE Cardinality(S) - 1 + 1
    BY <1>1, FS_Interval
  <2> QED BY <1>1, <2>1
<1>4. seq \in Surjection(1 .. Cardinality(S), S)
  BY <1>2, <1>3, FS_Injection
<1> QED BY <1>1, <1>4 DEF Surjection, Lists

\* InOrder of times, from the earliest.
LEMMA TimesInOrder ==
  ASSUME NEW S \in SUBSET Nat, IsFiniteSet(S),
         NEW seq, seq = InOrder(S, {p \in S \X S : p[1] < p[2]})
  PROVE  /\ Cardinality(S) \in Nat
         /\ seq \in [1 .. Cardinality(S) -> S]
         /\ \A i, j \in 1 .. Cardinality(S) : i < j => seq[i] < seq[j]
         /\ \A a \in S : \E i \in 1 .. Cardinality(S) : seq[i] = a
<1> DEFINE R == {p \in S \X S : p[1] < p[2]}
<1>1. \A c, d \in S : <<c, d>> \in R <=> c < d
  OBVIOUS
<1>2. seq = InOrder(S, R)
  OBVIOUS
<1> HIDE DEF R
<1>3. Orders(R, S)
  BY <1>1 DEF Orders
<1>4. Lists(seq, S, R)
  BY <1>2, <1>3, Ordered
<1> QED BY <1>1, <1>4 DEF Lists

--------------------------------------------------------------------------------
(* The events of a cycle, and where a channel has its own: at x it goes on and at   *)
(* y off, 0 for not at all, and it does the other at the start of the cycle.        *)

Timed == [ticks : Nat, on_mask : SUBSET Channels, off_mask : SUBSET Channels]

Long(period) == period \in Nat /\ period >= 2 * SHORT + 2

InTime(phases, period) ==
  /\ phases \in Seq(Timed) /\ Len(phases) >= 2
  /\ phases[1].ticks = 0
  /\ phases[Len(phases)] = Phase(period, {}, {})
  /\ \A i \in 2 .. Len(phases) - 1 : phases[i].ticks >= 1 /\ phases[i].ticks + SHORT < period

\* Where a channel goes on and off in the events before they are merged, 0 for not at
\* all: it then does the other at the start of the cycle.
Time(phases, i, period) == IF i = 0 THEN period ELSE phases[i].ticks

Places(phases, n, period, c, x, y) ==
  /\ x \in 0 .. n /\ y \in 0 .. n
  /\ x = 0 => y = 1
  /\ y = 0 => x = 1
  /\ Time(phases, x, period) # Time(phases, y, period)
  /\ \A i \in 1 .. n :
       /\ c \in phases[i].on_mask <=> i = x
       /\ c \in phases[i].off_mask <=> i = y

OnFor(a, b, period) == IF a < b THEN b - a ELSE b + period - a

\* A channel is on for its duty, and does one of the two at the start of the cycle
\* unless its event has been moved, which only one up to r can be.
Drives(phases, n, period, c, duty, r) ==
  \E x, y : /\ Places(phases, n, period, c, x, y)
            /\ OnFor(Time(phases, x, period), Time(phases, y, period), period) = duty
            /\ x > r => y = 1
            /\ y > r => x = 1

\* No phase but the last leaves all the outputs alone: the handler takes it for the last.
Busy(phases, n) == \A i \in 1 .. n : phases[i].on_mask \cup phases[i].off_mask # {}

\* Every channel that changes has an event of its own, no two are out of order, and
\* each is on for its duty from one to the other.
LEMMA EventsPlaced ==
  ASSUME NEW duties \in [Channels -> Nat], NEW period, Long(period),
         NEW phases, phases = Unshifted(duties, period)
  PROVE  /\ InTime(phases, period)
         /\ \A i, j \in 1 .. Len(phases) : i < j => phases[i].ticks <= phases[j].ticks
         /\ Channels # {} => Busy(phases, Len(phases) - 1)
         /\ \A c \in Channels : duties[c] <= period =>
              Drives(phases, Len(phases) - 1, period, c, duties[c], 1)
<1> DEFINE Early  == {c \in Channels : duties[c] > 0 /\ duties[c] < period \div 2}
           Late   == {c \in Channels : duties[c] < period /\ duties[c] >= period \div 2}
           Always == {c \in Channels : duties[c] >= period}
           Event(c) == IF c \in Early THEN Phase(duties[c], {}, {c})
                       ELSE Phase(period - duties[c], {c}, {})
           S == Early \cup Late
           Sooner == {p \in S \X S :
                        \/ Event(p[1]).ticks < Event(p[2]).ticks
                        \/ Event(p[1]).ticks = Event(p[2]).ticks /\ p[1] < p[2]}
           events == InOrder(S, Sooner)
           k == Cardinality(S)
           start == Phase(0, Early \cup Always, Channels \ (Early \cup Always))
           end == Phase(period, {}, {})
           middle == [i \in 1 .. k |-> Event(events[i])]
<1>1. phases = <<start>> \o middle \o <<end>>
  BY DEF Unshifted
<1>2. period \in Nat /\ period >= 2 * SHORT + 2 /\ SHORT \in Nat /\ Channels \subseteq Nat
  BY PwmAssumption DEF Long
<1>3. S \subseteq Channels /\ IsFiniteSet(S) /\ Early \subseteq S
  BY PwmAssumption, FS_Subset
<1>4. \A c \in S : /\ Event(c) \in Timed
                   /\ Event(c).ticks >= 1 /\ Event(c).ticks + SHORT < period
  <2>1. SUFFICES ASSUME NEW c \in S
                 PROVE  /\ Event(c) \in Timed
                        /\ Event(c).ticks >= 1 /\ Event(c).ticks + SHORT < period
    OBVIOUS
  <2>2. c \in Channels /\ duties[c] \in Nat
    BY <1>3
  <2>3. period \div 2 \in Nat /\ period \div 2 >= SHORT + 1 /\ 2 * (period \div 2) <= period
    BY <1>2
  <2>4. CASE c \in Early
    <3>1. Event(c) = Phase(duties[c], {}, {c})
      BY <2>4
    <3>2. duties[c] >= 1 /\ duties[c] + SHORT < period
      BY <1>2, <2>2, <2>3, <2>4
    <3> HIDE DEF Event
    <3> QED BY <2>2, <3>1, <3>2 DEF Timed, Phase
  <2>5. CASE c \notin Early
    <3>1. Event(c) = Phase(period - duties[c], {c}, {})
      BY <2>5
    <3>2. period - duties[c] \in Nat /\ period - duties[c] >= 1
          /\ period - duties[c] + SHORT < period
      BY <1>2, <2>2, <2>3, <2>5
    <3> HIDE DEF Event
    <3> QED BY <2>2, <3>1, <3>2 DEF Timed, Phase
  <2> QED BY <2>4, <2>5
<1>5. start \in Timed /\ end \in Timed
  <2>1. Early \cup Always \subseteq Channels
    OBVIOUS
  <2> HIDE DEF Early, Always
  <2> QED BY <1>2, <2>1 DEF Timed, Phase
<1>6. start.ticks = 0 /\ end.ticks = period
  BY DEF Phase
<1>7. /\ start.on_mask = Early \cup Always
      /\ start.off_mask = Channels \ (Early \cup Always)
      /\ end.on_mask = {} /\ end.off_mask = {}
  BY DEF Phase
<1>8. \A c \in S : /\ c \in Early => Event(c).ticks = duties[c] /\ Event(c).on_mask = {}
                                      /\ Event(c).off_mask = {c}
                   /\ c \notin Early => Event(c).ticks = period - duties[c]
                                         /\ Event(c).on_mask = {c} /\ Event(c).off_mask = {}
  BY DEF Phase
<1>9. \A c \in Channels : /\ c \in Early <=> duties[c] > 0 /\ duties[c] < period \div 2
                          /\ c \in Always <=> duties[c] >= period
                          /\ c \in S <=> duties[c] > 0 /\ duties[c] < period
  <2>1. period \div 2 \in Nat /\ period \div 2 >= 1 /\ period \div 2 <= period
    BY <1>2
  <2>2. ASSUME NEW c \in Channels
        PROVE  /\ c \in Early <=> duties[c] > 0 /\ duties[c] < period \div 2
               /\ c \in Always <=> duties[c] >= period
               /\ c \in S <=> duties[c] > 0 /\ duties[c] < period
    <3>1. duties[c] \in Nat
      OBVIOUS
    <3> QED BY <1>2, <2>1, <3>1
  <2> QED BY <2>2
<1> HIDE DEF Event, Early, Late, Always
<1>10. Orders(Sooner, S)
  <2>1. \A c \in S : Event(c).ticks \in Nat /\ c \in Nat
    BY <1>2, <1>3, <1>4 DEF Timed
  <2>2. \A c, d \in S : <<c, d>> \in Sooner <=>
                          \/ Event(c).ticks < Event(d).ticks
                          \/ Event(c).ticks = Event(d).ticks /\ c < d
    OBVIOUS
  <2> HIDE DEF Sooner, S
  <2>3. \A a, b \in S : a = b \/ <<a, b>> \in Sooner \/ <<b, a>> \in Sooner
    <3>1. SUFFICES ASSUME NEW a \in S, NEW b \in S, a # b
                   PROVE  <<a, b>> \in Sooner \/ <<b, a>> \in Sooner
      OBVIOUS
    <3>2. a < b \/ b < a
      BY <2>1, <3>1
    <3>3. \/ Event(a).ticks < Event(b).ticks \/ Event(b).ticks < Event(a).ticks
          \/ Event(a).ticks = Event(b).ticks
      BY <2>1
    <3> QED BY <2>2, <3>2, <3>3
  <2>4. \A a, b, c \in S : <<a, b>> \in Sooner /\ <<b, c>> \in Sooner => <<a, c>> \in Sooner
    BY <2>1, <2>2
  <2>5. \A a \in S : <<a, a>> \notin Sooner
    BY <2>1, <2>2
  <2> QED BY <2>3, <2>4, <2>5 DEF Orders
<1>11. /\ k \in Nat
       /\ events \in [1 .. k -> S]
       /\ \A i, j \in 1 .. k : i < j => <<events[i], events[j]>> \in Sooner
       /\ \A c \in S : \E i \in 1 .. k : events[i] = c
  <2> HIDE DEF Sooner, S
  <2>1. Lists(events, S, Sooner)
    BY <1>3, <1>10, Ordered
  <2> QED BY <2>1 DEF Lists
<1>12. \A i, j \in 1 .. k : i < j => Event(events[i]).ticks <= Event(events[j]).ticks
  <2>1. SUFFICES ASSUME NEW i \in 1 .. k, NEW j \in 1 .. k, i < j
                 PROVE  Event(events[i]).ticks <= Event(events[j]).ticks
    OBVIOUS
  <2>2. <<events[i], events[j]>> \in Sooner
    BY <1>11, <2>1
  <2> HIDE DEF events
  <2>3. events[i] \in S /\ events[j] \in S
    BY <2>2
  <2>4. \/ Event(events[i]).ticks < Event(events[j]).ticks
        \/ Event(events[i]).ticks = Event(events[j]).ticks
    BY <2>2
  <2>5. Event(events[i]).ticks \in Nat /\ Event(events[j]).ticks \in Nat
    BY <1>4, <2>3 DEF Timed
  <2> QED BY <2>4, <2>5
<1> HIDE DEF events, S, k, start, end
<1>13. middle \in [1 .. k -> Timed] /\ \A i \in 1 .. k : middle[i] = Event(events[i])
  BY <1>4, <1>11
<1> HIDE DEF middle
<1>14. /\ phases \in Seq(Timed) /\ Len(phases) = k + 2
       /\ phases[1] = start /\ phases[k + 2] = end
       /\ \A i \in 2 .. k + 1 : phases[i] = middle[i - 1]
  <2>1. middle \in Seq(Timed) /\ Len(middle) = k
    BY <1>11, <1>13
  <2>2. /\ <<start>> \o middle \in Seq(Timed) /\ Len(<<start>> \o middle) = k + 1
        /\ (<<start>> \o middle)[1] = start
        /\ \A i \in 2 .. k + 1 : (<<start>> \o middle)[i] = middle[i - 1]
    BY <1>5, <1>11, <2>1
  <2>3. k \in Nat
    BY <1>11
  <2>4. PICK most : most = <<start>> \o middle
    OBVIOUS
  <2>5. phases = most \o <<end>>
    BY <1>1, <2>4
  <2> QED BY <1>5, <2>2, <2>3, <2>4, <2>5
<1>15. \A i \in 2 .. k + 1 : /\ phases[i].ticks \in Nat
                             /\ phases[i].ticks >= 1 /\ phases[i].ticks + SHORT < period
  <2>1. SUFFICES ASSUME NEW i \in 2 .. k + 1
                 PROVE  /\ phases[i].ticks \in Nat
                        /\ phases[i].ticks >= 1 /\ phases[i].ticks + SHORT < period
    OBVIOUS
  <2>2. i - 1 \in 1 .. k
    BY <1>11
  <2>3. phases[i] = Event(events[i - 1]) /\ events[i - 1] \in S
    BY <1>11, <1>13, <1>14, <2>2
  <2> QED BY <1>4, <2>3 DEF Timed
<1>16. InTime(phases, period)
  BY <1>6, <1>11, <1>14, <1>15 DEF InTime, end
<1>17. ASSUME NEW i \in 1 .. Len(phases), NEW j \in 1 .. Len(phases), i < j
       PROVE  phases[i].ticks <= phases[j].ticks
  <2>1. \A n \in 1 .. k + 2 : n = 1 \/ n = k + 2 \/ n \in 2 .. k + 1
    BY <1>11
  <2>2. CASE i = 1
    BY <1>2, <1>6, <1>11, <1>14, <1>15, <1>17, <2>1, <2>2
  <2>3. CASE i \in 2 .. k + 1 /\ j = k + 2
    BY <1>2, <1>6, <1>11, <1>14, <1>15, <1>17, <2>3
  <2>4. CASE i \in 2 .. k + 1 /\ j \in 2 .. k + 1
    <3>1. i - 1 \in 1 .. k /\ j - 1 \in 1 .. k /\ i - 1 < j - 1
      BY <1>11, <1>17, <2>4
    <3>2. middle[i - 1].ticks <= middle[j - 1].ticks
      BY <1>12, <1>13, <3>1
    <3> QED BY <1>14, <2>4, <3>2
  <2> QED BY <1>11, <1>14, <1>17, <2>1, <2>2, <2>3, <2>4
<1>18. /\ Len(phases) - 1 = k + 1
       /\ \A i \in 2 .. k + 1 : i - 1 \in 1 .. k /\ events[i - 1] \in S
                                /\ phases[i] = Event(events[i - 1])
       /\ \A i \in 1 .. k + 1 : i = 1 \/ i \in 2 .. k + 1
  <2>1. \A i \in 2 .. k + 1 : i - 1 \in 1 .. k
    BY <1>11
  <2> QED BY <1>11, <1>13, <1>14, <2>1
<1>19. ASSUME Channels # {}, NEW i \in 1 .. k + 1
       PROVE  phases[i].on_mask \cup phases[i].off_mask # {}
  <2>1. CASE i = 1
    <3>1. phases[1].on_mask \cup phases[1].off_mask = Channels
      <4>1. Early \cup Always \subseteq Channels
        BY DEF Early, Always
      <4> QED BY <1>7, <1>14, <4>1
    <3> QED BY <1>19, <2>1, <3>1
  <2>2. CASE i \in 2 .. k + 1
    BY <1>8, <1>18, <2>2
  <2> QED BY <1>18, <2>1, <2>2
<1>20. ASSUME NEW c \in Channels, duties[c] <= period
       PROVE  Drives(phases, k + 1, period, c, duties[c], 1)
  <2> DEFINE there(i) == i \in 2 .. k + 1 /\ events[i - 1] = c
  <2>1. duties[c] \in Nat /\ c \in Nat /\ 1 \in 1 .. k + 1 /\ 1 \in 0 .. k + 1 /\ 0 \in 0 .. k + 1
    BY <1>2, <1>11
  <2>2. /\ phases[1].ticks = 0
        /\ c \in phases[1].on_mask <=> c \in Early \cup Always
        /\ c \in phases[1].off_mask <=> c \notin Early \cup Always
    BY <1>6, <1>7, <1>14
  <2>3. ASSUME NEW i \in 2 .. k + 1
        PROVE  /\ c \in phases[i].on_mask <=> there(i) /\ c \notin Early
               /\ c \in phases[i].off_mask <=> there(i) /\ c \in Early
               /\ there(i) => phases[i].ticks = IF c \in Early THEN duties[c] ELSE period - duties[c]
    BY <1>8, <1>18, <2>3
  <2>4. CASE c \notin S
    <3>1. \A i \in 2 .. k + 1 : ~there(i)
      BY <1>18, <2>4
    <3> HIDE DEF there
    <3>2. CASE duties[c] = 0
      <4>1. c \notin Early /\ c \notin Always
        BY <1>2, <1>9, <3>2
      <4>2. \A i \in 1 .. k + 1 :
             /\ c \in phases[i].on_mask <=> i = 0
             /\ c \in phases[i].off_mask <=> i = 1
        BY <1>18, <2>2, <2>3, <3>1, <4>1
      <4>3. Time(phases, 0, period) = period /\ Time(phases, 1, period) = 0
        BY <2>2 DEF Time
      <4>4. Places(phases, k + 1, period, c, 0, 1)
        BY <1>2, <2>1, <4>2, <4>3 DEF Places
      <4>5. OnFor(period, 0, period) = 0
        BY <1>2 DEF OnFor
      <4> QED BY <3>2, <4>3, <4>4, <4>5 DEF Drives
    <3>3. CASE duties[c] # 0
      <4>1. duties[c] = period /\ c \in Always
        BY <1>2, <1>9, <1>20, <2>1, <2>4, <3>3
      <4>2. \A i \in 1 .. k + 1 :
             /\ c \in phases[i].on_mask <=> i = 1
             /\ c \in phases[i].off_mask <=> i = 0
        BY <1>18, <2>2, <2>3, <3>1, <4>1
      <4>3. Time(phases, 0, period) = period /\ Time(phases, 1, period) = 0
        BY <2>2 DEF Time
      <4>4. Places(phases, k + 1, period, c, 1, 0)
        BY <1>2, <2>1, <4>2, <4>3 DEF Places
      <4>5. OnFor(0, period, period) = period
        BY <1>2 DEF OnFor
      <4> QED BY <4>1, <4>3, <4>4, <4>5 DEF Drives
    <3> QED BY <3>2, <3>3
  <2>5. CASE c \in S
    <3>1. PICK j \in 1 .. k : events[j] = c
      BY <1>11, <2>5
    <3>2. PICK e \in 2 .. k + 1 : e = j + 1 /\ e - 1 = j
      BY <1>11
    <3>3. \A i \in 2 .. k + 1 : there(i) <=> i = e
      <4>1. \A i \in 1 .. k : events[i] = c => i = j
        <5>1. SUFFICES ASSUME NEW i \in 1 .. k, events[i] = c, i # j PROVE FALSE
          OBVIOUS
        <5>2. i < j \/ j < i
          BY <1>11, <5>1
        <5>3. <<c, c>> \in Sooner
          <6> HIDE DEF Sooner
          <6> QED BY <1>11, <3>1, <5>1, <5>2
        <5>4. Event(c).ticks \in Nat
          BY <1>4, <2>5 DEF Timed
        <5> QED BY <2>1, <5>3, <5>4
      <4> QED BY <1>18, <3>1, <3>2, <4>1
    <3> HIDE DEF there
    <3>4. /\ e \in 0 .. k + 1 /\ e # 0 /\ e # 1
          /\ phases[e].ticks = IF c \in Early THEN duties[c] ELSE period - duties[c]
      BY <1>11, <2>3, <3>3
    <3>5. duties[c] > 0 /\ duties[c] < period /\ c \notin Always
      BY <1>2, <1>9, <2>1, <2>5
    <3>6. Time(phases, 1, period) = 0 /\ Time(phases, e, period) = phases[e].ticks
      BY <2>2, <3>4 DEF Time
    <3>7. CASE c \in Early
      <4>1. \A i \in 1 .. k + 1 :
             /\ c \in phases[i].on_mask <=> i = 1
             /\ c \in phases[i].off_mask <=> i = e
        BY <1>18, <2>2, <2>3, <3>3, <3>4, <3>7
      <4>2. Places(phases, k + 1, period, c, 1, e)
        BY <1>2, <2>1, <3>4, <3>5, <3>6, <3>7, <4>1 DEF Places
      <4>3. OnFor(0, duties[c], period) = duties[c]
        BY <1>2, <2>1, <3>5 DEF OnFor
      <4> QED BY <3>4, <3>6, <3>7, <4>2, <4>3 DEF Drives
    <3>8. CASE c \notin Early
      <4>1. \A i \in 1 .. k + 1 :
             /\ c \in phases[i].on_mask <=> i = e
             /\ c \in phases[i].off_mask <=> i = 1
        BY <1>18, <2>2, <2>3, <3>3, <3>4, <3>5, <3>8
      <4>2. Places(phases, k + 1, period, c, e, 1)
        BY <1>2, <2>1, <3>4, <3>5, <3>6, <3>8, <4>1 DEF Places
      <4>3. OnFor(period - duties[c], 0, period) = duties[c]
        BY <1>2, <2>1, <3>5 DEF OnFor
      <4> QED BY <3>4, <3>6, <3>8, <4>2, <4>3 DEF Drives
    <3> QED BY <3>7, <3>8
  <2> QED BY <2>4, <2>5
<1> QED BY <1>16, <1>17, <1>18, <1>19, <1>20 DEF Busy

--------------------------------------------------------------------------------
(* Events that are moved. *)

Entries == [phases : Seq(Timed), l : Nat]

\* No time is changed, and no phase but some.
Touched(m, phases, some) ==
  /\ m \in Seq(Timed) /\ Len(m) = Len(phases)
  /\ \A i \in 1 .. Len(phases) : /\ m[i].ticks = phases[i].ticks
                                 /\ i \notin some => m[i] = phases[i]

\* A flip touches one phase's masks only.
LEMMA FlipOne ==
  ASSUME NEW phases \in Seq(Timed), NEW l \in 1 .. Len(phases), NEW p \in Timed,
         NEW m, m = Flipped(phases, l, p.off_mask, p.on_mask)
  PROVE  Touched(m, phases, {l})
<1> DEFINE flipped == [phases[l] EXCEPT !.off_mask = Flip(@, p.off_mask),
                                        !.on_mask = Flip(@, p.on_mask)]
<1>1. phases[l] \in Timed
  OBVIOUS
<1>2. flipped \in Timed /\ flipped.ticks = phases[l].ticks
  BY <1>1 DEF Timed, Flip
<1>3. m = [phases EXCEPT ![l] = flipped]
  BY DEF Flipped
<1> HIDE DEF flipped
<1> QED BY <1>1, <1>2, <1>3 DEF Touched

\* The phase at r is moved to the time later.
Moved(m, phases, l, r, later) ==
  /\ m \in Seq(Timed) /\ Len(m) = Len(phases)
  /\ \A i \in 1 .. Len(phases) : i # r => m[i].ticks = phases[i].ticks
  /\ m[r].ticks = later
  /\ \A i \in 1 .. Len(phases) : i \notin {1, l, r} => m[i] = phases[i]

\* The turn of shift_left that finds two events too close moves the later one.
LEMMA ShiftedOne ==
  ASSUME NEW phases \in Seq(Timed), NEW l \in 1 .. Len(phases), NEW r \in 2 .. Len(phases),
         NEW period, NEW diff, NEW later \in Nat, later = period - diff,
         NEW m, m = Shifted(phases, l, r, diff, period)
  PROVE  Moved(m, phases, l, r, later)
<1>1. r \in 1 .. Len(phases) /\ 1 \in 1 .. Len(phases)
  OBVIOUS
<1>2. PICK p \in Timed : p = phases[r]
  BY <1>1
<1>3. PICK late \in Timed : /\ late = Phase(later, p.off_mask, p.on_mask)
                            /\ late.ticks = later
                            /\ late.on_mask = p.off_mask /\ late.off_mask = p.on_mask
  <2> DEFINE late == Phase(later, p.off_mask, p.on_mask)
  <2>1. late \in Timed
    BY DEF Timed, Phase
  <2>2. late.ticks = later /\ late.on_mask = p.off_mask /\ late.off_mask = p.on_mask
    BY DEF Phase
  <2> QED BY <2>1, <2>2
<1>4. PICK one : one = Flipped(phases, l, p.off_mask, p.on_mask)
  OBVIOUS
<1>5. PICK two : two = Flipped(one, 1, p.on_mask, p.off_mask)
  OBVIOUS
<1>6. m = [two EXCEPT ![r] = late]
  BY <1>2, <1>3, <1>4, <1>5 DEF Shifted
<1>7. Touched(one, phases, {l})
  BY <1>4, FlipOne
<1>8. Touched(two, one, {1})
  <2>1. one \in Seq(Timed) /\ 1 \in 1 .. Len(one)
    BY <1>1, <1>7 DEF Touched
  <2>2. two = Flipped(one, 1, late.off_mask, late.on_mask)
    BY <1>3, <1>5
  <2> QED BY <2>1, <2>2, FlipOne
<1>9. two \in Seq(Timed) /\ Len(two) = Len(phases)
  BY <1>7, <1>8 DEF Touched
<1>10. m \in Seq(Timed) /\ Len(m) = Len(phases)
  BY <1>1, <1>6, <1>9
<1>11. \A i \in 1 .. Len(phases) : m[i] = IF i = r THEN late ELSE two[i]
  BY <1>1, <1>6, <1>9
<1>12. \A i \in 1 .. Len(phases) : two[i].ticks = phases[i].ticks
  BY <1>7, <1>8 DEF Touched
<1>13. \A i \in 1 .. Len(phases) : i \notin {1, l} => two[i] = phases[i]
  BY <1>7, <1>8 DEF Touched
<1> QED BY <1>1, <1>3, <1>10, <1>11, <1>12, <1>13 DEF Moved

\* What the loop of ShiftLeft has made of the events after its step at r.
ShiftedUpTo(s, phases, r, period) ==
  /\ s \in Entries /\ Len(s.phases) = Len(phases)
  /\ s.l \in 1 .. r /\ s.phases[s.l].ticks = phases[s.l].ticks
  /\ s.l = 1 \/ s.phases[s.l].ticks > SHORT
  /\ s.phases[1].ticks = 0
  /\ \A i \in r + 1 .. Len(phases) : s.phases[i] = phases[i]
  /\ \A i \in 2 .. r : i < Len(phases) =>
       SHORT < s.phases[i].ticks /\ s.phases[i].ticks < period
  /\ s.phases[Len(phases)] = phases[Len(phases)]

\* One more turn of the loop of shift_left.
LEMMA OneMoreShifted ==
  ASSUME NEW phases, NEW period, Long(period), InTime(phases, period),
         \A i, j \in 1 .. Len(phases) : i < j => phases[i].ticks <= phases[j].ticks,
         NEW r \in 1 .. Len(phases) - 1, NEW s, ShiftedUpTo(s, phases, r, period)
  PROVE  ShiftedUpTo(ShiftEvent(s, r + 1, period), phases, r + 1, period)
<1>1. /\ phases \in Seq(Timed) /\ Len(phases) \in Nat /\ SHORT \in Nat
      /\ period \in Nat /\ period >= 2 * SHORT + 2 /\ r \in Nat
      /\ \A i \in 1 .. Len(phases) : phases[i].ticks \in Nat
  <2>1. phases \in Seq(Timed) /\ Len(phases) \in Nat
    BY DEF InTime
  <2>2. \A i \in 1 .. Len(phases) : phases[i] \in Timed
    BY <2>1
  <2>3. \A i \in 1 .. Len(phases) : phases[i].ticks \in Nat
    BY <2>2 DEF Timed
  <2> QED BY PwmAssumption, <2>1, <2>3 DEF Long
<1>2. PICK n \in Nat : n = Len(phases)
  BY <1>1
<1>3. PICK q : q = r + 1 /\ q \in 2 .. n
  BY <1>1, <1>2
<1>4. PICK l \in 1 .. r : l = s.l
  BY DEF ShiftedUpTo
<1>5. PICK now \in Seq(Timed) : now = s.phases
  BY DEF ShiftedUpTo, Entries
<1>6. /\ Len(now) = n
      /\ now[l].ticks = phases[l].ticks
      /\ l = 1 \/ now[l].ticks > SHORT
      /\ now[1].ticks = 0
      /\ \A i \in q .. n : now[i] = phases[i]
      /\ \A i \in 2 .. r : i < n => SHORT < now[i].ticks /\ now[i].ticks < period
  BY <1>2, <1>3, <1>4, <1>5 DEF ShiftedUpTo
<1>7. PICK diff : diff = now[q].ticks - now[l].ticks
  OBVIOUS
<1>8. /\ l \in 1 .. n /\ l < q
      /\ now[q].ticks = phases[q].ticks /\ now[l].ticks = phases[l].ticks
      /\ now[l].ticks \in Nat /\ now[q].ticks \in Nat
      /\ now[l].ticks <= now[q].ticks
  <2>1. l \in 1 .. Len(phases) /\ q \in 1 .. Len(phases) /\ l < q
    BY <1>1, <1>2, <1>3
  <2>2. now[q] = phases[q]
    BY <1>3, <1>6
  <2> QED BY <1>1, <1>2, <1>6, <2>1, <2>2
<1>9. diff \in Nat
  BY <1>7, <1>8
<1>10. q < n => now[q].ticks >= 1 /\ now[q].ticks + SHORT < period
  BY <1>2, <1>3, <1>8 DEF InTime
<1>11. q = n => now[q].ticks = period
  BY <1>2, <1>8 DEF InTime, Phase
<1>12. CASE diff \in 1 .. SHORT
  <2>1. q # n
    <3>1. SUFFICES ASSUME q = n PROVE FALSE
      OBVIOUS
    <3>2. CASE l = 1
      BY <1>1, <1>6, <1>7, <1>11, <1>12, <3>1, <3>2
    <3>3. CASE l # 1
      <4>1. phases[l].ticks + SHORT < period
        <5>1. l \in 2 .. Len(phases) - 1
          BY <1>1, <1>2, <1>3, <3>1, <3>3
        <5> QED BY <5>1 DEF InTime
      <4> QED BY <1>1, <1>7, <1>8, <1>11, <1>12, <3>1, <4>1
    <3> QED BY <3>2, <3>3
  <2>2. PICK later \in Nat : later = period - diff /\ later > SHORT /\ later < period
    BY <1>1, <1>12
  <2>3. PICK m : m = Shifted(now, l, q, diff, period)
    OBVIOUS
  <2>4. /\ m \in Seq(Timed) /\ Len(m) = n
        /\ \A i \in 1 .. n : i # q => m[i].ticks = now[i].ticks
        /\ m[q].ticks = later
        /\ \A i \in 1 .. n : i \notin {1, l, q} => m[i] = now[i]
    <3>1. l \in 1 .. Len(now) /\ q \in 2 .. Len(now)
      BY <1>3, <1>6, <1>8
    <3>2. Moved(m, now, l, q, later)
      BY <2>2, <2>3, <3>1, ShiftedOne
    <3> QED BY <1>6, <3>2 DEF Moved
  <2>5. ShiftEvent(s, q, period) = [s EXCEPT !.phases = m]
    BY <1>4, <1>5, <1>7, <1>12, <2>3 DEF ShiftEvent
  <2>6. PICK t : t = ShiftEvent(s, q, period)
    OBVIOUS
  <2>7. t \in Entries /\ t.phases = m /\ t.l = l
    BY <1>4, <2>4, <2>5, <2>6 DEF ShiftedUpTo, Entries
  <2>8. q < n /\ l \in 1 .. q /\ l # q /\ 1 \in 1 .. n /\ q # 1
    BY <1>2, <1>3, <1>8, <2>1
  <2>9. m[l].ticks = phases[l].ticks /\ m[1].ticks = 0 /\ (l = 1 \/ m[l].ticks > SHORT)
    BY <1>6, <1>8, <2>4, <2>8
  <2>10. \A i \in q + 1 .. n : m[i] = phases[i]
    <3>1. \A i \in q + 1 .. n : i \in 1 .. n /\ i \in q .. n /\ i \notin {1, l, q}
      BY <1>2, <1>3, <2>8
    <3> QED BY <1>6, <2>4, <3>1
  <2>11. \A i \in 2 .. q : i < n => SHORT < m[i].ticks /\ m[i].ticks < period
    <3>1. \A i \in 2 .. q : i = q \/ (i \in 2 .. r /\ i \in 1 .. n /\ i # q)
      BY <1>3
    <3> QED BY <1>6, <2>2, <2>4, <3>1
  <2>12. m[n] = phases[n]
    BY <1>2, <1>3, <2>8, <2>10
  <2> QED BY <1>2, <1>3, <2>4, <2>6, <2>7, <2>8, <2>9, <2>10, <2>11, <2>12 DEF ShiftedUpTo
<1>13. CASE diff \notin 1 .. SHORT
  <2>1. ShiftEvent(s, q, period) = [s EXCEPT !.l = q]
    BY <1>4, <1>5, <1>7, <1>13 DEF ShiftEvent
  <2>2. PICK t : t = ShiftEvent(s, q, period)
    OBVIOUS
  <2>3. t \in Entries /\ t.phases = now /\ t.l = q
    <3>1. q \in Nat
      BY <1>1, <1>3
    <3>2. s \in Entries
      BY DEF ShiftedUpTo
    <3> QED BY <1>5, <2>1, <2>2, <3>1, <3>2 DEF Entries
  <2>4. now[q].ticks > SHORT
    <3>1. CASE diff = 0
      <4>1. now[q].ticks = now[l].ticks
        BY <1>7, <1>8, <3>1
      <4>2. now[q].ticks # 0
        BY <1>1, <1>3, <1>10, <1>11
      <4>3. l # 1
        BY <1>6, <4>1, <4>2
      <4> QED BY <1>6, <4>1, <4>3
    <3>2. CASE diff > SHORT
      <4>1. SHORT \in Nat
        BY <1>1
      <4>2. now[l].ticks \in Nat /\ now[q].ticks \in Nat
        BY <1>8
      <4>3. diff = now[q].ticks - now[l].ticks
        BY <1>7
      <4> QED BY <3>2, <4>1, <4>2, <4>3
    <3>3. diff = 0 \/ diff > SHORT
      <4>1. SHORT \in Nat
        BY <1>1
      <4> QED BY <1>9, <1>13, <4>1
    <3> QED BY <3>1, <3>2, <3>3
  <2>5. \A i \in 2 .. q : i < n => SHORT < now[i].ticks /\ now[i].ticks < period
    <3>1. \A i \in 2 .. q : i = q \/ i \in 2 .. r
      BY <1>3
    <3>2. q < n => now[q].ticks < period
      BY <1>1, <1>8, <1>10
    <3> QED BY <1>6, <2>4, <3>1, <3>2
  <2>6. \A i \in q + 1 .. n : now[i] = phases[i]
    <3>1. \A i \in q + 1 .. n : i \in q .. n
      BY <1>3
    <3> QED BY <1>6, <3>1
  <2>7. now[n] = phases[n] /\ q \in 1 .. q
    BY <1>3, <1>6
  <2> QED BY <1>2, <1>3, <1>6, <1>8, <2>2, <2>3, <2>4, <2>5, <2>6, <2>7 DEF ShiftedUpTo
<1> QED BY <1>12, <1>13

\* The recursive function behind ShiftLeft, unfolded.
LEMMA ShiftUnfolds ==
  ASSUME NEW phases \in Seq(Timed), Len(phases) >= 2, NEW period
  PROVE  \E after :
           /\ after = [r \in DOMAIN phases |->
                         IF r = 1 THEN [phases |-> phases, l |-> 1]
                         ELSE ShiftEvent(after[r - 1], r, period)]
           /\ ShiftLeft(phases, period) = after[Len(phases)].phases
<1> DEFINE start == [phases |-> phases, l |-> 1]
           Upto(n, f) == f = [r \in 1 .. n |-> IF r = 1 THEN start
                                               ELSE ShiftEvent(f[r - 1], r, period)]
<1>1. PICK b \in Nat : b = Len(phases) - 1 /\ DOMAIN phases = 1 .. b + 1 /\ b + 1 = Len(phases)
  <2>1. Len(phases) \in Nat /\ DOMAIN phases = 1 .. Len(phases)
    OBVIOUS
  <2>2. Len(phases) - 1 \in Nat /\ (Len(phases) - 1) + 1 = Len(phases)
    BY <2>1
  <2> QED BY <2>1, <2>2
<1> DEFINE S == {n \in 0 .. b : \E f : Upto(n + 1, f)}
<1>2. 0 \in S
  <2> DEFINE f == [r \in 1 .. 0 + 1 |-> start]
  <2>1. Upto(0 + 1, f)
    OBVIOUS
  <2>2. 0 \in 0 .. b
    OBVIOUS
  <2> HIDE DEF Upto
  <2> QED BY <2>1, <2>2
<1>3. ASSUME NEW n \in 0 .. b - 1, n \in S PROVE n + 1 \in S
  <2>1. PICK f : Upto(n + 1, f)
    BY <1>3
  <2> DEFINE g == [r \in 1 .. (n + 1) + 1 |->
                     IF r = n + 2 THEN ShiftEvent(f[n + 1], n + 2, period) ELSE f[r]]
  <2>2. ASSUME NEW r \in 1 .. (n + 1) + 1
        PROVE  g[r] = IF r = 1 THEN start ELSE ShiftEvent(g[r - 1], r, period)
    <3>1. CASE r = n + 2
      <4>1. g[r] = ShiftEvent(f[n + 1], n + 2, period) /\ g[r - 1] = f[n + 1] /\ r # 1
        BY <3>1
      <4> QED BY <3>1, <4>1
    <3>2. CASE r \in 1 .. n + 1
      <4>1. g[r] = f[r]
        BY <3>2
      <4>2. f[r] = IF r = 1 THEN start ELSE ShiftEvent(f[r - 1], r, period)
        BY <2>1, <3>2
      <4>3. r # 1 => g[r - 1] = f[r - 1]
        BY <3>2
      <4> QED BY <4>1, <4>2, <4>3
    <3> QED BY <3>1, <3>2
  <2>3. Upto((n + 1) + 1, g)
    BY <2>2
  <2>4. n + 1 \in 0 .. b
    OBVIOUS
  <2> HIDE DEF Upto, g
  <2> QED BY <2>3, <2>4
<1>4. b \in S
  <2> HIDE DEF S
  <2>1. 0 .. b \subseteq S
    BY <1>2, <1>3, UpTo
  <2> QED BY <2>1
<1>5. \E f : f = [r \in DOMAIN phases |-> IF r = 1 THEN start
                                          ELSE ShiftEvent(f[r - 1], r, period)]
  BY <1>1, <1>4
<1> DEFINE after == CHOOSE f : f = [r \in DOMAIN phases |->
                                      IF r = 1 THEN start ELSE ShiftEvent(f[r - 1], r, period)]
<1>6. after = [r \in DOMAIN phases |-> IF r = 1 THEN start
                                       ELSE ShiftEvent(after[r - 1], r, period)]
  <2> HIDE DEF start
  <2> QED BY <1>5
<1>7. ShiftLeft(phases, period) = after[Len(phases)].phases
  BY DEF ShiftLeft
<1> HIDE DEF after
<1> QED BY <1>6, <1>7

\* But for the start of the cycle, nothing is at SHORT or before it.
Spread(phases, period) ==
  /\ phases \in Seq(Timed) /\ Len(phases) >= 2
  /\ phases[1].ticks = 0
  /\ phases[Len(phases)] = Phase(period, {}, {})
  /\ \A i \in 2 .. Len(phases) - 1 : SHORT < phases[i].ticks /\ phases[i].ticks < period

\* The events of a cycle, moved, are at the start or more than SHORT behind it and apart.
LEMMA ShiftLeftSpreads ==
  ASSUME NEW phases, NEW period, Long(period), InTime(phases, period),
         \A i, j \in 1 .. Len(phases) : i < j => phases[i].ticks <= phases[j].ticks
  PROVE  Spread(ShiftLeft(phases, period), period)
<1>1. phases \in Seq(Timed) /\ Len(phases) >= 2 /\ Len(phases) \in Nat
  BY DEF InTime
<1>2. PICK after :
        /\ after = [r \in DOMAIN phases |-> IF r = 1 THEN [phases |-> phases, l |-> 1]
                                            ELSE ShiftEvent(after[r - 1], r, period)]
        /\ ShiftLeft(phases, period) = after[Len(phases)].phases
  BY <1>1, ShiftUnfolds
<1>3. PICK b \in Nat : b + 1 = Len(phases) /\ DOMAIN phases = 1 .. b + 1
  <2>1. DOMAIN phases = 1 .. Len(phases)
    BY <1>1
  <2>2. Len(phases) - 1 \in Nat /\ (Len(phases) - 1) + 1 = Len(phases)
    BY <1>1
  <2> QED BY <2>1, <2>2
<1> DEFINE S == {n \in 0 .. b : ShiftedUpTo(after[n + 1], phases, n + 1, period)}
<1>4. 0 \in S
  <2>1. after[1] = [phases |-> phases, l |-> 1]
    BY <1>2, <1>3
  <2>2. PICK s : s = [phases |-> phases, l |-> 1]
    OBVIOUS
  <2>3. s \in Entries /\ s.phases = phases /\ s.l = 1
    BY <1>1, <2>2 DEF Entries
  <2>4. phases[1].ticks = 0
    BY DEF InTime
  <2>5. ShiftedUpTo(s, phases, 1, period)
    BY <1>1, <2>3, <2>4 DEF ShiftedUpTo
  <2>6. 0 \in 0 .. b /\ 0 + 1 = 1
    OBVIOUS
  <2> QED BY <2>1, <2>2, <2>5, <2>6
<1>5. ASSUME NEW n \in 0 .. b - 1, n \in S PROVE n + 1 \in S
  <2>1. PICK r : r = n + 1 /\ r \in 1 .. Len(phases) - 1 /\ r + 1 = (n + 1) + 1
    BY <1>3
  <2>2. ShiftedUpTo(after[r], phases, r, period)
    BY <1>5, <2>1
  <2>3. after[r + 1] = ShiftEvent(after[r], r + 1, period)
    <3>1. r + 1 \in DOMAIN phases /\ r + 1 # 1 /\ (r + 1) - 1 = r
      BY <1>1, <1>3, <2>1
    <3> QED BY <1>2, <3>1
  <2>4. ShiftedUpTo(after[r + 1], phases, r + 1, period)
    BY <2>1, <2>2, <2>3, OneMoreShifted
  <2>5. n + 1 \in 0 .. b
    OBVIOUS
  <2> QED BY <2>1, <2>4, <2>5
<1>6. b \in S
  <2> HIDE DEF S
  <2>1. 0 .. b \subseteq S
    BY <1>4, <1>5, UpTo
  <2> QED BY <2>1
<1>7. PICK s : s = after[b + 1]
  OBVIOUS
<1>8. ShiftedUpTo(s, phases, Len(phases), period) /\ ShiftLeft(phases, period) = s.phases
  BY <1>2, <1>3, <1>6, <1>7
<1>9. phases[Len(phases)] = Phase(period, {}, {})
  BY DEF InTime
<1>10. \A i \in 2 .. Len(phases) - 1 : i \in 2 .. Len(phases) /\ i < Len(phases)
  BY <1>1
<1> QED BY <1>1, <1>8, <1>9, <1>10 DEF ShiftedUpTo, Spread, Entries

--------------------------------------------------------------------------------
(* What a move leaves of the channels: the one that is moved goes on or off towards  *)
(* the end of the cycle before, and the others where they did.                      *)

\* The masks after a flip.
LEMMA FlippedMasks ==
  ASSUME NEW phases \in Seq(Timed), NEW l \in 1 .. Len(phases), NEW off, NEW on,
         NEW m, m = Flipped(phases, l, off, on)
  PROVE  \A i \in 1 .. Len(phases) :
           /\ m[i].on_mask = IF i = l THEN Flip(phases[i].on_mask, on) ELSE phases[i].on_mask
           /\ m[i].off_mask = IF i = l THEN Flip(phases[i].off_mask, off) ELSE phases[i].off_mask
<1> DEFINE flipped == [phases[l] EXCEPT !.off_mask = Flip(@, off), !.on_mask = Flip(@, on)]
<1>1. phases[l] \in Timed
  OBVIOUS
<1>2. /\ flipped.on_mask = Flip(phases[l].on_mask, on)
      /\ flipped.off_mask = Flip(phases[l].off_mask, off)
  BY <1>1 DEF Timed
<1>3. m = [phases EXCEPT ![l] = flipped]
  BY DEF Flipped
<1> HIDE DEF flipped
<1>4. \A i \in 1 .. Len(phases) : m[i] = IF i = l THEN flipped ELSE phases[i]
  BY <1>3
<1> QED BY <1>2, <1>4

\* The masks after a move of the event at q, where l is the one before it.
LEMMA MovedMasks ==
  ASSUME NEW now \in Seq(Timed), NEW l \in 1 .. Len(now), NEW q \in 2 .. Len(now), l # q,
         NEW period, NEW diff, NEW later \in Nat, later = period - diff,
         NEW m, m = Shifted(now, l, q, diff, period)
  PROVE  /\ m[q].on_mask = now[q].off_mask /\ m[q].off_mask = now[q].on_mask
         /\ \A i \in 1 .. Len(now) : i # q =>
              /\ m[i].on_mask = Flip(Flip(now[i].on_mask, IF i = l THEN now[q].on_mask ELSE {}),
                                     IF i = 1 THEN now[q].off_mask ELSE {})
              /\ m[i].off_mask = Flip(Flip(now[i].off_mask, IF i = l THEN now[q].off_mask ELSE {}),
                                      IF i = 1 THEN now[q].on_mask ELSE {})
<1>1. q \in 1 .. Len(now) /\ 1 \in 1 .. Len(now)
  OBVIOUS
<1>2. PICK p \in Timed : p = now[q]
  BY <1>1
<1>3. PICK late \in Timed : /\ late = Phase(later, p.off_mask, p.on_mask)
                            /\ late.on_mask = p.off_mask /\ late.off_mask = p.on_mask
  <2> DEFINE late == Phase(later, p.off_mask, p.on_mask)
  <2>1. late \in Timed
    BY <1>2 DEF Timed, Phase
  <2>2. late.on_mask = p.off_mask /\ late.off_mask = p.on_mask
    BY DEF Phase
  <2> QED BY <2>1, <2>2
<1>4. PICK one : one = Flipped(now, l, p.off_mask, p.on_mask)
  OBVIOUS
<1>5. PICK two : two = Flipped(one, 1, p.on_mask, p.off_mask)
  OBVIOUS
<1>6. m = [two EXCEPT ![q] = late]
  BY <1>2, <1>3, <1>4, <1>5 DEF Shifted
<1>7. Touched(one, now, {l})
  BY <1>4, FlipOne
<1>8. one \in Seq(Timed) /\ Len(one) = Len(now)
  BY <1>7 DEF Touched
<1>9. two \in Seq(Timed) /\ Len(two) = Len(now)
  <2>1. 1 \in 1 .. Len(one)
    BY <1>1, <1>8
  <2>2. two = Flipped(one, 1, late.off_mask, late.on_mask)
    BY <1>3, <1>5
  <2>3. Touched(two, one, {1})
    BY <1>8, <2>1, <2>2, FlipOne
  <2> QED BY <1>8, <2>3 DEF Touched
<1>10. \A i \in 1 .. Len(now) : m[i] = IF i = q THEN late ELSE two[i]
  BY <1>1, <1>6, <1>9
<1>11. \A i \in 1 .. Len(now) :
         /\ one[i].on_mask = IF i = l THEN Flip(now[i].on_mask, p.on_mask) ELSE now[i].on_mask
         /\ one[i].off_mask = IF i = l THEN Flip(now[i].off_mask, p.off_mask) ELSE now[i].off_mask
  BY <1>4, FlippedMasks
<1>12. \A i \in 1 .. Len(now) :
         /\ two[i].on_mask = IF i = 1 THEN Flip(one[i].on_mask, p.off_mask) ELSE one[i].on_mask
         /\ two[i].off_mask = IF i = 1 THEN Flip(one[i].off_mask, p.on_mask) ELSE one[i].off_mask
  <2>1. 1 \in 1 .. Len(one)
    BY <1>1, <1>8
  <2> QED BY <1>5, <1>8, <2>1, FlippedMasks
<1>13. \A S : Flip(S, {}) = S
  BY DEF Flip
<1>14. m[q].on_mask = now[q].off_mask /\ m[q].off_mask = now[q].on_mask
  BY <1>1, <1>2, <1>3, <1>10
<1>15. ASSUME NEW i \in 1 .. Len(now), i # q
       PROVE  /\ m[i].on_mask = Flip(Flip(now[i].on_mask, IF i = l THEN p.on_mask ELSE {}),
                                     IF i = 1 THEN p.off_mask ELSE {})
              /\ m[i].off_mask = Flip(Flip(now[i].off_mask, IF i = l THEN p.off_mask ELSE {}),
                                      IF i = 1 THEN p.on_mask ELSE {})
  <2>1. /\ one[i].on_mask = Flip(now[i].on_mask, IF i = l THEN p.on_mask ELSE {})
        /\ one[i].off_mask = Flip(now[i].off_mask, IF i = l THEN p.off_mask ELSE {})
    BY <1>11, <1>13
  <2>2. /\ two[i].on_mask = Flip(one[i].on_mask, IF i = 1 THEN p.off_mask ELSE {})
        /\ two[i].off_mask = Flip(one[i].off_mask, IF i = 1 THEN p.on_mask ELSE {})
    BY <1>12, <1>13
  <2>3. m[i] = two[i]
    BY <1>10, <1>15
  <2> QED BY <2>1, <2>2, <2>3
<1> QED BY <1>2, <1>14, <1>15

\* The same for one channel, which is in one of the masks of the event or in neither.
ChannelMoved(m, now, l, q, c) ==
  /\ c \in m[q].on_mask <=> c \in now[q].off_mask
  /\ c \in m[q].off_mask <=> c \in now[q].on_mask
  /\ \A i \in 1 .. Len(now) : i # q =>
       /\ c \in m[i].on_mask <=>
            IF (i = l /\ c \in now[q].on_mask) \/ (i = 1 /\ c \in now[q].off_mask)
            THEN c \notin now[i].on_mask ELSE c \in now[i].on_mask
       /\ c \in m[i].off_mask <=>
            IF (i = l /\ c \in now[q].off_mask) \/ (i = 1 /\ c \in now[q].on_mask)
            THEN c \notin now[i].off_mask ELSE c \in now[i].off_mask

\* What a move leaves of one channel.
LEMMA MovedChannel ==
  ASSUME NEW now \in Seq(Timed), NEW l \in 1 .. Len(now), NEW q \in 2 .. Len(now), l # q,
         NEW period, NEW diff, NEW later \in Nat, later = period - diff,
         NEW m, m = Shifted(now, l, q, diff, period), NEW c,
         ~(c \in now[q].on_mask /\ c \in now[q].off_mask)
  PROVE  ChannelMoved(m, now, l, q, c)
<1>1. \A S, T : c \in Flip(S, T) <=> IF c \in T THEN c \notin S ELSE c \in S
  BY DEF Flip
<1>2. c \in m[q].on_mask <=> c \in now[q].off_mask
  BY MovedMasks
<1>3. c \in m[q].off_mask <=> c \in now[q].on_mask
  BY MovedMasks
<1>4. ASSUME NEW i \in 1 .. Len(now), i # q
      PROVE  c \in m[i].on_mask <=>
                   IF (i = l /\ c \in now[q].on_mask) \/ (i = 1 /\ c \in now[q].off_mask)
                   THEN c \notin now[i].on_mask ELSE c \in now[i].on_mask
  <2>1. m[i].on_mask = Flip(Flip(now[i].on_mask, IF i = l THEN now[q].on_mask ELSE {}),
                            IF i = 1 THEN now[q].off_mask ELSE {})
    BY <1>4, MovedMasks
  <2>2. PICK S, T : /\ S = (IF i = l THEN now[q].on_mask ELSE {})
                    /\ T = (IF i = 1 THEN now[q].off_mask ELSE {})
    OBVIOUS
  <2>3. /\ c \in S <=> i = l /\ c \in now[q].on_mask
        /\ c \in T <=> i = 1 /\ c \in now[q].off_mask
    BY <2>2
  <2>4. c \in m[i].on_mask <=>
          IF c \in T THEN c \notin Flip(now[i].on_mask, S) ELSE c \in Flip(now[i].on_mask, S)
    BY <1>1, <2>1, <2>2
  <2>5. c \in Flip(now[i].on_mask, S) <=>
          IF c \in S THEN c \notin now[i].on_mask ELSE c \in now[i].on_mask
    BY <1>1
  <2> QED BY <2>3, <2>4, <2>5
<1>5. ASSUME NEW i \in 1 .. Len(now), i # q
      PROVE  c \in m[i].off_mask <=>
                   IF (i = l /\ c \in now[q].off_mask) \/ (i = 1 /\ c \in now[q].on_mask)
                   THEN c \notin now[i].off_mask ELSE c \in now[i].off_mask
  <2>1. m[i].off_mask = Flip(Flip(now[i].off_mask, IF i = l THEN now[q].off_mask ELSE {}),
                             IF i = 1 THEN now[q].on_mask ELSE {})
    BY <1>5, MovedMasks
  <2>2. PICK S, T : /\ S = (IF i = l THEN now[q].off_mask ELSE {})
                    /\ T = (IF i = 1 THEN now[q].on_mask ELSE {})
    OBVIOUS
  <2>3. /\ c \in S <=> i = l /\ c \in now[q].off_mask
        /\ c \in T <=> i = 1 /\ c \in now[q].on_mask
    BY <2>2
  <2>4. c \in m[i].off_mask <=>
          IF c \in T THEN c \notin Flip(now[i].off_mask, S) ELSE c \in Flip(now[i].off_mask, S)
    BY <1>1, <2>1, <2>2
  <2>5. c \in Flip(now[i].off_mask, S) <=>
          IF c \in S THEN c \notin now[i].off_mask ELSE c \in now[i].off_mask
    BY <1>1
  <2> QED BY <2>3, <2>4, <2>5
<1> QED BY <1>2, <1>3, <1>4, <1>5 DEF ChannelMoved

Moves(m, now, n, period, l, r, diff) ==
  /\ now \in Seq(Timed) /\ Len(now) = n + 1
  /\ l \in 1 .. n /\ r \in 2 .. n /\ l < r
  /\ now[1].ticks = 0 /\ now[r].ticks < period
  /\ diff = now[r].ticks - now[l].ticks /\ diff \in Nat /\ diff > 0
  /\ period - diff \in Nat
  /\ m = Shifted(now, l, r, diff, period)

\* A channel keeps its duty through a move: its other event is one cycle away from
\* where it was, or where it was.
LEMMA DrivesMoved ==
  ASSUME NEW n \in Nat, NEW period \in Nat, NEW m, NEW now, NEW l, NEW r \in Nat, NEW diff,
         Moves(m, now, n, period, l, r, diff),
         NEW c, NEW duty, Drives(now, n, period, c, duty, r - 1)
  PROVE  Drives(m, n, period, c, duty, r)
<1>1. /\ now \in Seq(Timed) /\ Len(now) = n + 1
      /\ l \in 1 .. n /\ r \in 2 .. n /\ l < r /\ l # r
      /\ l \in 1 .. Len(now) /\ r \in 2 .. Len(now)
      /\ m = Shifted(now, l, r, diff, period)
  BY DEF Moves
<1>2. PICK later \in Nat : later = period - diff
  BY DEF Moves
<1>3. \A i \in 1 .. n : i \in 1 .. Len(now) /\ now[i].ticks \in Nat
  <2>1. \A i \in 1 .. n : i \in 1 .. Len(now) /\ now[i] \in Timed
    BY <1>1
  <2> QED BY <2>1 DEF Timed
<1>4. \A i \in 1 .. n : m[i].ticks = IF i = r THEN later ELSE now[i].ticks
  <2>1. Moved(m, now, l, r, later)
    BY <1>1, <1>2, ShiftedOne
  <2> QED BY <1>3, <2>1 DEF Moved
<1>5. /\ now[1].ticks = 0 /\ now[r].ticks < period
      /\ now[r].ticks \in Nat /\ now[l].ticks \in Nat /\ diff \in Nat /\ diff > 0
      /\ now[r].ticks = now[l].ticks + diff /\ later = period - diff
      /\ r \in 1 .. n /\ 1 \in 1 .. n
  <2>1. r \in 1 .. n /\ 1 \in 1 .. n
    BY <1>1
  <2> QED BY <1>1, <1>2, <1>3, <2>1 DEF Moves
<1>6. PICK x, y : /\ Places(now, n, period, c, x, y)
                  /\ OnFor(Time(now, x, period), Time(now, y, period), period) = duty
                  /\ x > r - 1 => y = 1
                  /\ y > r - 1 => x = 1
  BY DEF Drives
<1>7. /\ x \in 0 .. n /\ y \in 0 .. n
      /\ x = 0 => y = 1
      /\ y = 0 => x = 1
      /\ Time(now, x, period) # Time(now, y, period)
      /\ \A i \in 1 .. n : /\ c \in now[i].on_mask <=> i = x
                           /\ c \in now[i].off_mask <=> i = y
  BY <1>6 DEF Places
<1>8. x # y
  BY <1>7
<1>9. /\ c \in now[r].on_mask <=> r = x
      /\ c \in now[r].off_mask <=> r = y
  BY <1>5, <1>7
<1>10. /\ c \in m[r].on_mask <=> r = y
       /\ c \in m[r].off_mask <=> r = x
       /\ \A i \in 1 .. n : i # r =>
            /\ c \in m[i].on_mask <=>
                 IF (i = l /\ r = x) \/ (i = 1 /\ r = y) THEN i # x ELSE i = x
            /\ c \in m[i].off_mask <=>
                 IF (i = l /\ r = y) \/ (i = 1 /\ r = x) THEN i # y ELSE i = y
  <2>1. ~(c \in now[r].on_mask /\ c \in now[r].off_mask)
    BY <1>8, <1>9
  <2>2. /\ c \in m[r].on_mask <=> c \in now[r].off_mask
        /\ c \in m[r].off_mask <=> c \in now[r].on_mask
        /\ \A i \in 1 .. Len(now) : i # r =>
             /\ c \in m[i].on_mask <=>
                  IF (i = l /\ c \in now[r].on_mask) \/ (i = 1 /\ c \in now[r].off_mask)
                  THEN c \notin now[i].on_mask ELSE c \in now[i].on_mask
             /\ c \in m[i].off_mask <=>
                  IF (i = l /\ c \in now[r].off_mask) \/ (i = 1 /\ c \in now[r].on_mask)
                  THEN c \notin now[i].off_mask ELSE c \in now[i].off_mask
    <3>1. ChannelMoved(m, now, l, r, c)
      BY <1>1, <1>2, <2>1, MovedChannel
    <3> QED BY <3>1, Zenon DEF ChannelMoved
  <2>3. ASSUME NEW i \in 1 .. n, i # r
        PROVE  /\ c \in m[i].on_mask <=>
                    IF (i = l /\ r = x) \/ (i = 1 /\ r = y) THEN i # x ELSE i = x
               /\ c \in m[i].off_mask <=>
                    IF (i = l /\ r = y) \/ (i = 1 /\ r = x) THEN i # y ELSE i = y
    <3>1. /\ c \in m[i].on_mask <=>
               IF (i = l /\ c \in now[r].on_mask) \/ (i = 1 /\ c \in now[r].off_mask)
               THEN c \notin now[i].on_mask ELSE c \in now[i].on_mask
          /\ c \in m[i].off_mask <=>
               IF (i = l /\ c \in now[r].off_mask) \/ (i = 1 /\ c \in now[r].on_mask)
               THEN c \notin now[i].off_mask ELSE c \in now[i].off_mask
      BY <1>3, <2>2, <2>3
    <3>2. /\ c \in now[i].on_mask <=> i = x
          /\ c \in now[i].off_mask <=> i = y
      BY <1>7
    <3> QED BY <1>9, <3>1, <3>2
  <2> QED BY <1>9, <2>2, <2>3
<1>11. CASE x = r
  <2>1. y = 1 /\ r # 1
    BY <1>1, <1>6, <1>11
  <2>2. /\ Time(now, x, period) = now[r].ticks /\ Time(now, y, period) = 0
        /\ Time(m, l, period) = now[l].ticks /\ Time(m, r, period) = later
    BY <1>1, <1>4, <1>5, <1>11, <2>1 DEF Time
  <2>3. \A i \in 1 .. n : /\ c \in m[i].on_mask <=> i = l
                          /\ c \in m[i].off_mask <=> i = r
    <3>1. ASSUME NEW i \in 1 .. n
          PROVE  /\ c \in m[i].on_mask <=> i = l
                 /\ c \in m[i].off_mask <=> i = r
      <4>1. CASE i = r
        BY <1>1, <1>8, <1>10, <1>11, <4>1
      <4>2. CASE i # r
        <5>1. /\ c \in m[i].on_mask <=> IF i = l THEN i # x ELSE i = x
              /\ c \in m[i].off_mask <=> IF i = 1 THEN i # y ELSE i = y
          BY <1>8, <1>10, <1>11, <4>2
        <5> QED BY <1>11, <2>1, <4>2, <5>1
      <4> QED BY <4>1, <4>2
    <3> QED BY <3>1
  <2>4. now[l].ticks < later
    BY <1>5
  <2>5. Places(m, n, period, c, l, r)
    <3>1. l \in 0 .. n /\ r \in 0 .. n /\ l # 0 /\ r # 0
      BY <1>1
    <3>2. Time(m, l, period) # Time(m, r, period)
      BY <1>5, <2>2, <2>4
    <3> QED BY <2>3, <3>1, <3>2 DEF Places
  <2>6. OnFor(Time(m, l, period), Time(m, r, period), period) = duty
    BY <1>5, <1>6, <2>2, <2>4 DEF OnFor
  <2>7. ~(l > r) /\ ~(r > r)
    BY <1>1
  <2> QED BY <2>5, <2>6, <2>7 DEF Drives
<1>12. CASE y = r
  <2>1. x = 1 /\ r # 1
    BY <1>1, <1>6, <1>12
  <2>2. /\ Time(now, x, period) = 0 /\ Time(now, y, period) = now[r].ticks
        /\ Time(m, l, period) = now[l].ticks /\ Time(m, r, period) = later
    BY <1>1, <1>4, <1>5, <1>12, <2>1 DEF Time
  <2>3. \A i \in 1 .. n : /\ c \in m[i].on_mask <=> i = r
                          /\ c \in m[i].off_mask <=> i = l
    <3>1. ASSUME NEW i \in 1 .. n
          PROVE  /\ c \in m[i].on_mask <=> i = r
                 /\ c \in m[i].off_mask <=> i = l
      <4>1. CASE i = r
        BY <1>1, <1>8, <1>10, <1>12, <4>1
      <4>2. CASE i # r
        <5>1. /\ c \in m[i].on_mask <=> IF i = 1 THEN i # x ELSE i = x
              /\ c \in m[i].off_mask <=> IF i = l THEN i # y ELSE i = y
          BY <1>8, <1>10, <1>12, <4>2
        <5> QED BY <1>12, <2>1, <4>2, <5>1
      <4> QED BY <4>1, <4>2
    <3> QED BY <3>1
  <2>4. now[l].ticks < later
    BY <1>5
  <2>5. Places(m, n, period, c, r, l)
    <3>1. l \in 0 .. n /\ r \in 0 .. n /\ l # 0 /\ r # 0
      BY <1>1
    <3>2. Time(m, l, period) # Time(m, r, period)
      BY <1>5, <2>2, <2>4
    <3> QED BY <2>3, <3>1, <3>2 DEF Places
  <2>6. OnFor(Time(m, r, period), Time(m, l, period), period) = duty
    BY <1>5, <1>6, <2>2, <2>4 DEF OnFor
  <2>7. ~(l > r) /\ ~(r > r)
    BY <1>1
  <2> QED BY <2>5, <2>6, <2>7 DEF Drives
<1>13. CASE x # r /\ y # r
  <2>1. /\ Time(m, x, period) = Time(now, x, period)
        /\ Time(m, y, period) = Time(now, y, period)
    <3>1. /\ x = 0 \/ x \in 1 .. n
          /\ y = 0 \/ y \in 1 .. n
      BY <1>7
    <3> QED BY <1>4, <1>13, <3>1 DEF Time
  <2>2. \A i \in 1 .. n : /\ c \in m[i].on_mask <=> i = x
                          /\ c \in m[i].off_mask <=> i = y
    BY <1>10, <1>13
  <2>3. Places(m, n, period, c, x, y)
    BY <1>7, <2>1, <2>2 DEF Places
  <2>4. (x > r => x > r - 1) /\ (y > r => y > r - 1)
    BY <1>1, <1>7
  <2> QED BY <1>6, <2>1, <2>3, <2>4 DEF Drives
<1> QED BY <1>11, <1>12, <1>13

\* The channel of an event that has not been moved is at the start of the cycle as well.
AtStart(phases, l, c) ==
  /\ c \in phases[l].on_mask \cup phases[l].off_mask
  /\ c \in phases[1].on_mask \cup phases[1].off_mask

EachPlaced(phases, n, period) ==
  \A c \in Channels : \E x, y : Places(phases, n, period, c, x, y)

StaysBusy(phases, n, l) ==
  Busy(phases, n) /\ (l # 1 => \E c \in Channels : AtStart(phases, l, c))

\* No event is left without a channel.
LEMMA BusyMoved ==
  ASSUME NEW n \in Nat, NEW period \in Nat, NEW m, NEW now, NEW l, NEW r \in Nat, NEW diff,
         Moves(m, now, n, period, l, r, diff),
         EachPlaced(now, n, period), StaysBusy(now, n, l)
  PROVE  StaysBusy(m, n, l)
<1>1. /\ now \in Seq(Timed) /\ Len(now) = n + 1
      /\ l \in 1 .. n /\ r \in 2 .. n /\ l < r /\ l # r
      /\ l \in 1 .. Len(now) /\ r \in 2 .. Len(now)
      /\ r \in 1 .. n /\ 1 \in 1 .. n /\ r # 1
      /\ m = Shifted(now, l, r, diff, period)
  BY DEF Moves
<1>2. PICK later \in Nat : later = period - diff
  BY DEF Moves
<1>3. \A i \in 1 .. n : /\ i \in 1 .. Len(now)
                        /\ now[i].on_mask \subseteq Channels /\ now[i].off_mask \subseteq Channels
  <2>1. \A i \in 1 .. n : i \in 1 .. Len(now) /\ now[i] \in Timed
    BY <1>1
  <2> QED BY <2>1 DEF Timed
<1>4. ASSUME NEW c \in Channels
      PROVE  /\ \A i \in 1 .. n : ~(c \in now[i].on_mask /\ c \in now[i].off_mask)
             /\ \A i, j, k \in 1 .. n : /\ c \in now[i].on_mask \cup now[i].off_mask
                                        /\ c \in now[j].on_mask \cup now[j].off_mask
                                        /\ c \in now[k].on_mask \cup now[k].off_mask
                                        => i = j \/ j = k \/ i = k
             /\ \A i, j \in 1 .. n : /\ c \in now[i].on_mask /\ c \in now[j].on_mask => i = j
                                     /\ c \in now[i].off_mask /\ c \in now[j].off_mask => i = j
  <2>1. PICK x, y : Places(now, n, period, c, x, y)
    BY DEF EachPlaced
  <2>2. x # y /\ \A i \in 1 .. n : /\ c \in now[i].on_mask <=> i = x
                                   /\ c \in now[i].off_mask <=> i = y
    BY <2>1 DEF Places
  <2> QED BY <2>2
<1>5. ASSUME NEW c \in Channels
      PROVE  ChannelMoved(m, now, l, r, c)
  <2>1. ~(c \in now[r].on_mask /\ c \in now[r].off_mask)
    BY <1>1, <1>4
  <2> QED BY <1>1, <1>2, <2>1, MovedChannel
<1>6. ASSUME NEW c \in Channels, NEW i \in 1 .. n, i # r,
             c \notin now[r].on_mask \cup now[r].off_mask,
             c \in now[i].on_mask \cup now[i].off_mask
      PROVE  c \in m[i].on_mask \cup m[i].off_mask
  <2>1. ChannelMoved(m, now, l, r, c)
    BY <1>5
  <2>2. /\ c \in m[i].on_mask <=> c \in now[i].on_mask
        /\ c \in m[i].off_mask <=> c \in now[i].off_mask
    BY <1>3, <1>6, <2>1 DEF ChannelMoved
  <2> QED BY <1>6, <2>2
<1>7. PICK e \in Channels : e \in now[r].on_mask \cup now[r].off_mask
  <2>1. PICK e : e \in now[r].on_mask \cup now[r].off_mask
    BY <1>1 DEF Busy, StaysBusy
  <2>2. e \in Channels
    BY <1>1, <1>3, <2>1
  <2> QED BY <2>1, <2>2
<1>8. e \in m[r].on_mask \cup m[r].off_mask
  BY <1>5, <1>7 DEF ChannelMoved
<1>9. e \in m[l].on_mask \cup m[l].off_mask
  <2>1. ChannelMoved(m, now, l, r, e)
    BY <1>5
  <2>2. CASE e \in now[r].on_mask
    <3>1. e \notin now[r].off_mask /\ e \notin now[l].on_mask
      BY <1>1, <1>4, <2>2
    <3>2. e \in m[l].on_mask
      BY <1>1, <2>1, <2>2, <3>1 DEF ChannelMoved
    <3> QED BY <3>2
  <2>3. CASE e \in now[r].off_mask
    <3>1. e \notin now[r].on_mask /\ e \notin now[l].off_mask
      BY <1>1, <1>4, <2>3
    <3>2. e \in m[l].off_mask
      BY <1>1, <2>1, <2>3, <3>1 DEF ChannelMoved
    <3> QED BY <3>2
  <2> QED BY <1>7, <2>2, <2>3
<1>10. ASSUME l # 1
       PROVE  \E c \in Channels : AtStart(m, l, c)
  <2>1. PICK c \in Channels : AtStart(now, l, c)
    BY <1>10 DEF StaysBusy
  <2>2. c \notin now[r].on_mask \cup now[r].off_mask
    BY <1>1, <1>4, <1>10, <2>1 DEF AtStart
  <2>3. AtStart(m, l, c)
    BY <1>1, <1>6, <2>1, <2>2 DEF AtStart
  <2> QED BY <2>3
<1>11. ASSUME NEW i \in 1 .. n
       PROVE  m[i].on_mask \cup m[i].off_mask # {}
  <2>1. CASE i = r
    BY <1>8, <2>1
  <2>2. CASE i = l
    BY <1>9, <2>2
  <2>3. CASE i = 1 /\ l # 1
    BY <1>10, <2>3 DEF AtStart
  <2>4. CASE i \notin {1, l, r}
    <3>1. Moved(m, now, l, r, later)
      BY <1>1, <1>2, ShiftedOne
    <3>2. m[i] = now[i]
      BY <1>3, <2>4, <3>1 DEF Moved
    <3> QED BY <3>2 DEF Busy, StaysBusy
  <2> QED BY <2>1, <2>2, <2>3, <2>4
<1> QED BY <1>10, <1>11 DEF Busy, StaysBusy

Kept(s, n, period, duties, r) ==
  /\ \A c \in Channels : Drives(s.phases, n, period, c, duties[c], r)
  /\ Busy(s.phases, n)
  /\ s.l \in 2 .. n => \E c \in Channels : AtStart(s.phases, s.l, c)

\* One more turn of the loop of shift_left, for the duties.
LEMMA OneMoreKept ==
  ASSUME NEW phases, NEW period, Long(period), InTime(phases, period),
         \A i, j \in 1 .. Len(phases) : i < j => phases[i].ticks <= phases[j].ticks,
         NEW n \in Nat, Len(phases) = n + 1,
         NEW r \in 1 .. n, NEW s, ShiftedUpTo(s, phases, r, period),
         NEW duties, Kept(s, n, period, duties, r)
  PROVE  Kept(ShiftEvent(s, r + 1, period), n, period, duties, r + 1)
<1>1. /\ phases \in Seq(Timed) /\ SHORT \in Nat /\ period \in Nat /\ period >= 2 * SHORT + 2
      /\ \A i \in 1 .. n + 1 : phases[i].ticks \in Nat
  <2>1. phases \in Seq(Timed)
    BY DEF InTime
  <2>2. \A i \in 1 .. n + 1 : phases[i] \in Timed
    BY <2>1
  <2> QED BY PwmAssumption, <2>1, <2>2 DEF Long, Timed
<1>2. PICK q \in Nat : q = r + 1 /\ q \in 2 .. n + 1 /\ q - 1 = r
  OBVIOUS
<1>3. PICK l \in 1 .. r : l = s.l
  BY DEF ShiftedUpTo
<1>4. PICK now \in Seq(Timed) : now = s.phases
  BY DEF ShiftedUpTo, Entries
<1>5. /\ Len(now) = n + 1 /\ now[1].ticks = 0
      /\ now[l].ticks = phases[l].ticks /\ now[q].ticks = phases[q].ticks
  <2>1. q \in r + 1 .. Len(phases)
    BY <1>2
  <2> QED BY <1>2, <1>3, <1>4, <2>1 DEF ShiftedUpTo
<1>6. /\ \A c \in Channels : Drives(now, n, period, c, duties[c], r)
      /\ Busy(now, n)
      /\ l \in 2 .. n => \E c \in Channels : AtStart(now, l, c)
  BY <1>3, <1>4 DEF Kept
<1>7. l \in 1 .. n /\ l < q /\ now[q].ticks \in Nat /\ now[l].ticks \in Nat
  <2>1. l \in 1 .. n + 1 /\ q \in 1 .. n + 1 /\ l \in 1 .. n /\ l < q
    BY <1>2
  <2> QED BY <1>1, <1>5, <2>1
<1>8. PICK diff \in Int : diff = now[q].ticks - now[l].ticks
  BY <1>7
<1>9. CASE diff \in 1 .. SHORT
  <2>1. q \in 2 .. n
    <3>1. SUFFICES ASSUME q = n + 1 PROVE FALSE
      BY <1>2
    <3>2. now[q].ticks = period
      BY <1>5, <3>1 DEF InTime, Phase
    <3>3. l = 1 \/ phases[l].ticks + SHORT < period
      <4>1. l = 1 \/ l \in 2 .. Len(phases) - 1
        BY <1>7
      <4> QED BY <4>1 DEF InTime
    <3> QED BY <1>1, <1>5, <1>7, <1>8, <1>9, <3>2, <3>3
  <2>2. now[q].ticks < period
    <3>1. phases[q].ticks + SHORT < period
      BY <2>1 DEF InTime
    <3> QED BY <1>1, <1>5, <1>7, <3>1
  <2>3. diff \in Nat /\ diff > 0 /\ period - diff \in Nat
    BY <1>1, <1>9
  <2>4. PICK m : m = Shifted(now, l, q, diff, period)
    OBVIOUS
  <2>5. Moves(m, now, n, period, l, q, diff)
    BY <1>5, <1>7, <1>8, <2>1, <2>2, <2>3, <2>4 DEF Moves
  <2>6. \A c \in Channels : Drives(m, n, period, c, duties[c], q)
    BY <1>1, <1>2, <1>6, <2>5, DrivesMoved
  <2>7. EachPlaced(now, n, period)
    BY <1>6 DEF Drives, EachPlaced
  <2>8. StaysBusy(now, n, l)
    <3>1. l # 1 => l \in 2 .. n
      BY <1>7
    <3> QED BY <1>6, <3>1 DEF StaysBusy
  <2>9. StaysBusy(m, n, l)
    BY <1>1, <2>5, <2>7, <2>8, BusyMoved
  <2>10. PICK t : t = ShiftEvent(s, q, period)
    OBVIOUS
  <2>11. t.phases = m /\ t.l = l
    <3>1. t = [s EXCEPT !.phases = m]
      BY <1>3, <1>4, <1>8, <1>9, <2>4, <2>10 DEF ShiftEvent
    <3>2. s \in Entries
      BY DEF ShiftedUpTo
    <3> QED BY <1>3, <3>1, <3>2 DEF Entries
  <2>12. l \in 2 .. n => l # 1
    OBVIOUS
  <2> QED BY <1>2, <2>6, <2>9, <2>10, <2>11, <2>12 DEF Kept, StaysBusy
<1>10. CASE diff \notin 1 .. SHORT
  <2>1. PICK t : t = ShiftEvent(s, q, period)
    OBVIOUS
  <2>2. t.phases = now /\ t.l = q
    <3>1. t = [s EXCEPT !.l = q]
      BY <1>3, <1>4, <1>8, <1>10, <2>1 DEF ShiftEvent
    <3>2. s \in Entries
      BY DEF ShiftedUpTo
    <3> QED BY <1>4, <3>1, <3>2 DEF Entries
  <2>3. ASSUME NEW c \in Channels
        PROVE  Drives(now, n, period, c, duties[c], q)
    <3>1. PICK x, y : /\ Places(now, n, period, c, x, y)
                      /\ OnFor(Time(now, x, period), Time(now, y, period), period) = duties[c]
                      /\ x > r => y = 1
                      /\ y > r => x = 1
      BY <1>6 DEF Drives
    <3>2. x \in 0 .. n /\ y \in 0 .. n
      BY <3>1 DEF Places
    <3>3. (x > q => y = 1) /\ (y > q => x = 1)
      BY <1>2, <3>1, <3>2
    <3> QED BY <3>1, <3>3 DEF Drives
  <2>4. ASSUME q \in 2 .. n
        PROVE  \E c \in Channels : AtStart(now, q, c)
    <3>1. q \in 1 .. n /\ 1 \in 1 .. n /\ q > r
      BY <1>2, <2>4
    <3>2. PICK c : c \in now[q].on_mask \cup now[q].off_mask
      BY <1>6, <3>1 DEF Busy
    <3>3. c \in Channels
      <4>1. now[q] \in Timed
        BY <1>4, <1>5, <2>4
      <4> QED BY <3>2, <4>1 DEF Timed
    <3>4. PICK x, y : /\ Places(now, n, period, c, x, y)
                      /\ x > r => y = 1
                      /\ y > r => x = 1
      BY <1>6, <3>3 DEF Drives
    <3>5. /\ q = x \/ q = y
          /\ q = x => y = 1
          /\ q = y => x = 1
      BY <3>1, <3>2, <3>4 DEF Places
    <3>6. c \in now[1].on_mask \cup now[1].off_mask
      BY <3>1, <3>4, <3>5 DEF Places
    <3> QED BY <3>2, <3>3, <3>6 DEF AtStart
  <2> QED BY <1>2, <1>6, <2>1, <2>2, <2>3, <2>4 DEF Kept
<1> QED BY <1>9, <1>10

\* Moved, the events still drive every channel for its duty.
LEMMA ShiftLeftKeeps ==
  ASSUME NEW phases, NEW period, Long(period), InTime(phases, period),
         \A i, j \in 1 .. Len(phases) : i < j => phases[i].ticks <= phases[j].ticks,
         NEW n \in Nat, Len(phases) = n + 1, NEW duties, Busy(phases, n),
         \A c \in Channels : Drives(phases, n, period, c, duties[c], 1)
  PROVE  /\ Len(ShiftLeft(phases, period)) = n + 1
         /\ Busy(ShiftLeft(phases, period), n)
         /\ \A c \in Channels : Drives(ShiftLeft(phases, period), n, period, c, duties[c], n + 1)
<1>1. phases \in Seq(Timed) /\ Len(phases) >= 2 /\ DOMAIN phases = 1 .. n + 1 /\ n >= 1
  BY DEF InTime
<1>2. PICK after :
        /\ after = [r \in DOMAIN phases |-> IF r = 1 THEN [phases |-> phases, l |-> 1]
                                            ELSE ShiftEvent(after[r - 1], r, period)]
        /\ ShiftLeft(phases, period) = after[Len(phases)].phases
  BY <1>1, ShiftUnfolds
<1> DEFINE S == {i \in 0 .. n : /\ ShiftedUpTo(after[i + 1], phases, i + 1, period)
                                /\ Kept(after[i + 1], n, period, duties, i + 1)}
<1>3. 0 \in S
  <2>1. PICK s : s = [phases |-> phases, l |-> 1]
    OBVIOUS
  <2>2. s \in Entries /\ s.phases = phases /\ s.l = 1
    BY <1>1, <2>1 DEF Entries
  <2>3. after[1] = s
    BY <1>1, <1>2, <2>1
  <2>4. phases[1].ticks = 0
    BY DEF InTime
  <2>5. ShiftedUpTo(s, phases, 1, period)
    BY <1>1, <2>2, <2>4 DEF ShiftedUpTo
  <2>6. Kept(s, n, period, duties, 1)
    BY <2>2 DEF Kept
  <2>7. 0 \in 0 .. n /\ 0 + 1 = 1
    OBVIOUS
  <2> QED BY <2>3, <2>5, <2>6, <2>7
<1>4. ASSUME NEW i \in 0 .. n - 1, i \in S PROVE i + 1 \in S
  <2>1. PICK r : /\ r = i + 1 /\ r \in 1 .. n /\ r + 1 = (i + 1) + 1
                 /\ r \in 1 .. Len(phases) - 1 /\ r + 1 \in 1 .. n + 1 /\ r + 1 # 1 /\ (r + 1) - 1 = r
    OBVIOUS
  <2>2. ShiftedUpTo(after[r], phases, r, period) /\ Kept(after[r], n, period, duties, r)
    BY <1>4, <2>1
  <2>3. after[r + 1] = ShiftEvent(after[r], r + 1, period)
    BY <1>1, <1>2, <2>1
  <2>4. ShiftedUpTo(after[r + 1], phases, r + 1, period)
    BY <2>1, <2>2, <2>3, OneMoreShifted
  <2>5. Kept(after[r + 1], n, period, duties, r + 1)
    BY <2>1, <2>2, <2>3, OneMoreKept
  <2>6. i + 1 \in 0 .. n
    OBVIOUS
  <2> QED BY <2>1, <2>4, <2>5, <2>6
<1>5. n \in S
  <2> HIDE DEF S
  <2>1. 0 .. n \subseteq S
    BY <1>3, <1>4, UpTo
  <2> QED BY <2>1
<1>6. PICK s : s = after[n + 1]
  OBVIOUS
<1>7. ShiftLeft(phases, period) = s.phases
  BY <1>2, <1>6
<1> QED BY <1>5, <1>6, <1>7 DEF ShiftedUpTo, Kept

--------------------------------------------------------------------------------
(* Phases in the order of their times. *)

\* The events of one time are one phase.
Merges(m, phases) ==
  /\ \A i, j \in 1 .. Len(m) : i < j => m[i].ticks < m[j].ticks
  /\ \A j \in 1 .. Len(phases) : \E i \in 1 .. Len(m) : m[i].ticks = phases[j].ticks
  /\ \A i \in 1 .. Len(m) :
       /\ m[i] \in Timed
       /\ \E j \in 1 .. Len(phases) : phases[j].ticks = m[i].ticks
       /\ \A c : c \in m[i].on_mask <=> \E j \in 1 .. Len(phases) :
                                          phases[j].ticks = m[i].ticks /\ c \in phases[j].on_mask
       /\ \A c : c \in m[i].off_mask <=> \E j \in 1 .. Len(phases) :
                                           phases[j].ticks = m[i].ticks /\ c \in phases[j].off_mask

\* What merge_same puts together: the events of each time, in one phase.
LEMMA MergeMerges ==
  ASSUME NEW phases \in Seq(Timed), NEW m, m = MergeSame(phases)
  PROVE  m \in Seq(Timed) /\ Merges(m, phases)
<1>1. PICK n \in Nat : n = Len(phases) /\ DOMAIN phases = 1 .. n
  OBVIOUS
<1>2. \A i \in 1 .. n : phases[i] \in Timed
  BY <1>1
<1>3. \A i \in 1 .. n : phases[i].ticks \in Nat /\ phases[i].on_mask \in SUBSET Channels
                        /\ phases[i].off_mask \in SUBSET Channels
  BY <1>2 DEF Timed
<1> DEFINE Times == {phases[i].ticks : i \in DOMAIN phases}
           times == InOrder(Times, {p \in Times \X Times : p[1] < p[2]})
           Together(t) == {phases[i] : i \in {j \in DOMAIN phases : phases[j].ticks = t}}
           k == Cardinality(Times)
           on(i) == UNION {p.on_mask : p \in Together(times[i])}
           off(i) == UNION {p.off_mask : p \in Together(times[i])}
<1>4. m = [i \in 1 .. k |-> Phase(times[i], on(i), off(i))]
  BY DEF MergeSame
<1>5. Times \in SUBSET Nat /\ IsFiniteSet(Times)
  <2>1. Times \in SUBSET Nat
    BY <1>1, <1>3
  <2> DEFINE f == [i \in 1 .. n |-> phases[i].ticks]
  <2>2. f \in Surjection(1 .. n, Times)
    BY <1>1 DEF Surjection
  <2>3. IsFiniteSet(1 .. n)
    BY <1>1, FS_Interval
  <2> HIDE DEF f
  <2> QED BY <2>1, <2>2, <2>3, FS_Surjection
<1>6. \A t : t \in Times <=> \E i \in 1 .. n : phases[i].ticks = t
  BY <1>1
<1> HIDE DEF Times
<1>7. /\ k \in Nat
      /\ times \in [1 .. k -> Times]
      /\ \A i, j \in 1 .. k : i < j => times[i] < times[j]
      /\ \A t \in Times : \E i \in 1 .. k : times[i] = t
  BY <1>5, TimesInOrder
<1>8. \A i \in 1 .. k : times[i] \in Nat
  BY <1>5, <1>7
<1> HIDE DEF times, k
<1>9. \A t, p : p \in Together(t) <=> \E j \in 1 .. n : phases[j].ticks = t /\ p = phases[j]
  BY <1>1
<1> HIDE DEF Together
<1>10. ASSUME NEW i, NEW c
      PROVE  c \in on(i) <=> \E j \in 1 .. n : phases[j].ticks = times[i] /\ c \in phases[j].on_mask
  <2>1. c \in on(i) <=> \E p \in Together(times[i]) : c \in p.on_mask
    OBVIOUS
  <2> HIDE DEF on
  <2> QED BY <1>9, <2>1
<1>11. ASSUME NEW i, NEW c
       PROVE  c \in off(i) <=> \E j \in 1 .. n : phases[j].ticks = times[i] /\ c \in phases[j].off_mask
  <2>1. c \in off(i) <=> \E p \in Together(times[i]) : c \in p.off_mask
    OBVIOUS
  <2> HIDE DEF off
  <2> QED BY <1>9, <2>1
<1> HIDE DEF on, off
<1>12. \A i \in 1 .. k : on(i) \in SUBSET Channels /\ off(i) \in SUBSET Channels
  BY <1>3, <1>10, <1>11
<1>13. \A i \in 1 .. k : /\ m[i] \in Timed /\ m[i].ticks = times[i]
                         /\ m[i].on_mask = on(i) /\ m[i].off_mask = off(i)
  BY <1>4, <1>8, <1>12 DEF Phase, Timed
<1>14. m \in Seq(Timed) /\ Len(m) = k
  BY <1>4, <1>7, <1>13
<1>15. \A i, j \in 1 .. k : i < j => m[i].ticks < m[j].ticks
  BY <1>7, <1>13
<1>16. \A j \in 1 .. n : \E i \in 1 .. k : m[i].ticks = phases[j].ticks
  <2>1. SUFFICES ASSUME NEW j \in 1 .. n PROVE \E i \in 1 .. k : m[i].ticks = phases[j].ticks
    OBVIOUS
  <2>2. PICK i \in 1 .. k : times[i] = phases[j].ticks
    BY <1>6, <1>7
  <2> QED BY <1>13, <2>2
<1>17. ASSUME NEW i \in 1 .. k
       PROVE  /\ m[i] \in Timed
              /\ \E j \in 1 .. n : phases[j].ticks = m[i].ticks
              /\ \A c : c \in m[i].on_mask <=>
                          \E j \in 1 .. n : phases[j].ticks = m[i].ticks /\ c \in phases[j].on_mask
              /\ \A c : c \in m[i].off_mask <=>
                          \E j \in 1 .. n : phases[j].ticks = m[i].ticks /\ c \in phases[j].off_mask
  <2>1. times[i] \in Times
    BY <1>7
  <2>2. \E j \in 1 .. n : phases[j].ticks = times[i]
    BY <1>6, <2>1
  <2> QED BY <1>10, <1>11, <1>13, <2>2
<1> QED BY <1>1, <1>14, <1>15, <1>16, <1>17 DEF Merges

\* Phases in the order of their times, each channel with one time to go on and one
\* to go off, or with one of them at the start of the cycle.
Increasing(phases, period) ==
  /\ \A i, j \in 1 .. Len(phases) : i < j => phases[i].ticks < phases[j].ticks
  /\ phases[Len(phases)].ticks = period

\* What Spread says of the times.
LEMMA SpreadTimes ==
  ASSUME NEW phases, NEW period, Long(period), Spread(phases, period),
         NEW n \in Nat, Len(phases) = n + 1
  PROVE  /\ period \in Nat /\ phases \in Seq(Timed) /\ n >= 1
         /\ phases[1].ticks = 0 /\ phases[n + 1].ticks = period
         /\ phases[n + 1].on_mask = {} /\ phases[n + 1].off_mask = {}
         /\ \A i \in 1 .. n : phases[i].ticks \in Nat /\ phases[i].ticks < period
<1>1. period \in Nat /\ period > 0 /\ phases \in Seq(Timed) /\ n >= 1 /\ phases[1].ticks = 0
  BY PwmAssumption DEF Long, Spread
<1>2. phases[n + 1] = Phase(period, {}, {})
  BY DEF Spread
<1>3. \A i \in 1 .. n : phases[i].ticks \in Nat
  <2>1. \A i \in 1 .. n : phases[i] \in Timed
    BY <1>1
  <2> QED BY <2>1 DEF Timed
<1>4. \A i \in 1 .. n : phases[i].ticks < period
  <2>1. ASSUME NEW i \in 1 .. n PROVE phases[i].ticks < period
    <3>1. i = 1 \/ i \in 2 .. Len(phases) - 1
      OBVIOUS
    <3> QED BY <1>1, <3>1 DEF Spread
  <2> QED BY <2>1
<1> QED BY <1>1, <1>2, <1>3, <1>4 DEF Phase

\* The merged phases are in the order of their times, within the period.
LEMMA MergedInOrder ==
  ASSUME NEW phases, NEW period, Long(period), Spread(phases, period),
         NEW m, m = MergeSame(phases)
  PROVE  Increasing(m, period)
<1>1. PICK n \in Nat : Len(phases) = n + 1
  <2>1. Len(phases) \in Nat /\ Len(phases) >= 2
    BY DEF Spread
  <2>2. Len(phases) - 1 \in Nat /\ Len(phases) = (Len(phases) - 1) + 1
    BY <2>1
  <2> QED BY <2>2
<1>2. Merges(m, phases) /\ m \in Seq(Timed)
  BY <1>1, SpreadTimes, MergeMerges
<1>3. PICK k \in Nat : k = Len(m)
  BY <1>2
<1>4. PICK i \in 1 .. k : m[i].ticks = period
  <2>1. n + 1 \in 1 .. Len(phases) /\ phases[n + 1].ticks = period
    BY <1>1, SpreadTimes
  <2> QED BY <1>2, <1>3, <2>1 DEF Merges
<1>5. k \in 1 .. k
  OBVIOUS
<1>6. m[k].ticks \in Nat /\ m[k].ticks <= period /\ period \in Nat
  <2>1. PICK j \in 1 .. Len(phases) : phases[j].ticks = m[k].ticks
    BY <1>2, <1>3, <1>5 DEF Merges
  <2>2. j = n + 1 \/ j \in 1 .. n
    BY <1>1
  <2>3. \/ phases[j].ticks = period
        \/ phases[j].ticks \in Nat /\ phases[j].ticks < period
    BY <1>1, <2>2, SpreadTimes
  <2>4. period \in Nat
    BY <1>1, SpreadTimes
  <2> QED BY <2>1, <2>3, <2>4
<1>7. m[k].ticks = period
  <2>1. i = k \/ i < k
    OBVIOUS
  <2>2. i < k => m[i].ticks < m[k].ticks
    BY <1>2, <1>3, <1>5 DEF Merges
  <2> QED BY <1>4, <1>6, <2>1, <2>2
<1> QED BY <1>2, <1>3, <1>7 DEF Increasing, Merges

\* The times are in order, none of them soon after the start.
InSteps(phases) ==
  /\ phases \in Seq(Timed) /\ Len(phases) >= 2
  /\ phases[Len(phases)].on_mask = {} /\ phases[Len(phases)].off_mask = {}
  /\ \A i \in 1 .. Len(phases) - 1 : phases[i].ticks < phases[i + 1].ticks
  /\ phases[1].ticks = 0 /\ phases[2].ticks > SHORT

\* The merged phases are far enough apart to have a duration each.
LEMMA MergedInSteps ==
  ASSUME NEW phases, NEW period, Long(period), Spread(phases, period)
  PROVE  InSteps(MergeSame(phases))
<1>1. PICK n \in Nat : Len(phases) = n + 1
  <2>1. Len(phases) \in Nat /\ Len(phases) >= 2
    BY DEF Spread
  <2>2. Len(phases) - 1 \in Nat /\ Len(phases) = (Len(phases) - 1) + 1
    BY <2>1
  <2> QED BY <2>2
<1>2. /\ period \in Nat /\ phases \in Seq(Timed) /\ n >= 1
      /\ phases[1].ticks = 0 /\ phases[n + 1].ticks = period
      /\ phases[n + 1].on_mask = {} /\ phases[n + 1].off_mask = {}
      /\ \A i \in 1 .. n : phases[i].ticks \in Nat /\ phases[i].ticks < period
  BY <1>1, SpreadTimes
<1>3. \A j \in 1 .. n + 1 : j = 1 \/ phases[j].ticks > SHORT
  <2>1. period > SHORT
    BY PwmAssumption DEF Long
  <2>2. \A j \in 1 .. n + 1 : j = 1 \/ j = n + 1 \/ j \in 2 .. Len(phases) - 1
    BY <1>1
  <2> QED BY <1>1, <1>2, <2>1, <2>2 DEF Spread
<1>4. PICK m : m = MergeSame(phases) /\ m \in Seq(Timed) /\ Merges(m, phases) /\ Increasing(m, period)
  BY <1>2, MergeMerges, MergedInOrder
<1>5. PICK k \in Nat : k = Len(m)
  BY <1>4
<1>6. \A i \in 1 .. k : /\ m[i].ticks \in Nat
                         /\ \E j \in 1 .. n + 1 : phases[j].ticks = m[i].ticks
  BY <1>1, <1>4, <1>5 DEF Merges, Timed
<1>7. PICK first \in 1 .. k, last_one \in 1 .. k : m[first].ticks = 0 /\ m[last_one].ticks = period
  <2>1. 1 \in 1 .. n + 1 /\ n + 1 \in 1 .. n + 1
    BY <1>2
  <2>2. \A j \in 1 .. n + 1 : \E i \in 1 .. k : m[i].ticks = phases[j].ticks
    BY <1>1, <1>4, <1>5 DEF Merges
  <2>3. \E i \in 1 .. k : m[i].ticks = 0
    BY <1>2, <2>1, <2>2
  <2>4. \E i \in 1 .. k : m[i].ticks = period
    BY <1>2, <2>1, <2>2
  <2> QED BY <2>3, <2>4
<1>8. k >= 2 /\ 1 \in 1 .. k /\ 2 \in 1 .. k /\ k \in 1 .. k
  <2>1. period # 0
    BY <1>2
  <2>2. first # last_one
    BY <1>7, <2>1
  <2> QED BY <2>2
<1>9. \A i, j \in 1 .. k : i < j => m[i].ticks < m[j].ticks
  BY <1>4, <1>5 DEF Increasing
<1>10. m[1].ticks = 0
  <2>1. first = 1 \/ 1 < first
    OBVIOUS
  <2> QED BY <1>6, <1>7, <1>8, <1>9, <2>1
<1>11. m[2].ticks > SHORT
  <2>1. m[1].ticks < m[2].ticks
    BY <1>8, <1>9
  <2>2. PICK j \in 1 .. n + 1 : phases[j].ticks = m[2].ticks
    BY <1>6, <1>8
  <2> QED BY <1>2, <1>3, <1>6, <1>8, <1>10, <2>1, <2>2
<1>12. m[k].on_mask = {} /\ m[k].off_mask = {}
  <2>1. m[k].ticks = period
    BY <1>4, <1>5 DEF Increasing
  <2>2. \A j \in 1 .. n + 1 : phases[j].ticks = period => j = n + 1
    BY <1>2
  <2>3. /\ \A c : c \in m[k].on_mask => c \in phases[n + 1].on_mask
        /\ \A c : c \in m[k].off_mask => c \in phases[n + 1].off_mask
    <3>1. /\ \A c : c \in m[k].on_mask =>
                   \E j \in 1 .. n + 1 : phases[j].ticks = period /\ c \in phases[j].on_mask
          /\ \A c : c \in m[k].off_mask =>
                   \E j \in 1 .. n + 1 : phases[j].ticks = period /\ c \in phases[j].off_mask
      <4>1. k \in 1 .. Len(m)
        BY <1>5, <1>8
      <4>2. /\ \A c : c \in m[k].on_mask => \E j \in 1 .. Len(phases) :
                             phases[j].ticks = m[k].ticks /\ c \in phases[j].on_mask
            /\ \A c : c \in m[k].off_mask => \E j \in 1 .. Len(phases) :
                             phases[j].ticks = m[k].ticks /\ c \in phases[j].off_mask
        BY <1>4, <4>1 DEF Merges
      <4> QED BY <1>1, <2>1, <4>2
    <3> QED BY <2>2, <3>1
  <2> QED BY <1>2, <2>3
<1>13. \A i \in 1 .. k - 1 : m[i].ticks < m[i + 1].ticks
  <2>1. \A i \in 1 .. k - 1 : i \in 1 .. k /\ i + 1 \in 1 .. k /\ i < i + 1
    OBVIOUS
  <2> QED BY <1>9, <2>1
<1> QED BY <1>4, <1>5, <1>8, <1>10, <1>11, <1>12, <1>13 DEF InSteps

GoesAt(phases, n, period, c, a, b) ==
  /\ a \in Nat /\ b \in Nat /\ a # b
  /\ \/ a = period /\ b = 0
     \/ b = period /\ a = 0
     \/ \E i, j \in 1 .. n : phases[i].ticks = a /\ phases[j].ticks = b
  /\ \A i \in 1 .. n :
       /\ c \in phases[i].on_mask <=> phases[i].ticks = a
       /\ c \in phases[i].off_mask <=> phases[i].ticks = b

\* In the merged phases a channel goes on and off when its two events did.
LEMMA MergedGoesAt ==
  ASSUME NEW phases, NEW period, Long(period), Spread(phases, period),
         NEW n \in Nat, Len(phases) = n + 1,
         NEW m, m = MergeSame(phases), NEW k \in Nat, Len(m) = k + 1
  PROVE  /\ \A c, x, y : Places(phases, n, period, c, x, y) =>
                           GoesAt(m, k, period, c, Time(phases, x, period), Time(phases, y, period))
         /\ Busy(phases, n) => Busy(m, k)
<1>1. /\ period \in Nat /\ phases \in Seq(Timed) /\ n >= 1
      /\ phases[1].ticks = 0 /\ phases[n + 1].ticks = period
      /\ phases[n + 1].on_mask = {} /\ phases[n + 1].off_mask = {}
      /\ \A i \in 1 .. n : phases[i].ticks \in Nat /\ phases[i].ticks < period
  BY SpreadTimes
<1>2. Merges(m, phases) /\ m \in Seq(Timed)
  BY <1>1, MergeMerges
<1>3. /\ \A i, j \in 1 .. k + 1 : i < j => m[i].ticks < m[j].ticks
      /\ m[k + 1].ticks = period
  BY MergedInOrder DEF Increasing
<1>4. \A i \in 1 .. k : i \in 1 .. k + 1 /\ m[i].ticks \in Nat /\ m[i].ticks < period
  <2>1. ASSUME NEW i \in 1 .. k PROVE i \in 1 .. k + 1 /\ m[i].ticks \in Nat /\ m[i].ticks < period
    <3>1. i \in 1 .. k + 1 /\ k + 1 \in 1 .. k + 1 /\ i < k + 1
      OBVIOUS
    <3>2. m[i] \in Timed
      BY <1>2, <3>1
    <3> QED BY <1>3, <3>1, <3>2 DEF Timed
  <2> QED BY <2>1
<1>5. \A j \in 1 .. n : \E i \in 1 .. k : m[i].ticks = phases[j].ticks
  <2>1. SUFFICES ASSUME NEW j \in 1 .. n PROVE \E i \in 1 .. k : m[i].ticks = phases[j].ticks
    OBVIOUS
  <2>2. j \in 1 .. Len(phases) /\ phases[j].ticks # period
    BY <1>1
  <2>3. PICK i \in 1 .. k + 1 : m[i].ticks = phases[j].ticks
    BY <1>2, <2>2 DEF Merges
  <2>4. i # k + 1
    BY <1>3, <2>2, <2>3
  <2>5. i \in 1 .. k
    BY <2>4
  <2> QED BY <2>3, <2>5
<1>6. ASSUME NEW i \in 1 .. k
      PROVE  /\ \E j \in 1 .. n : phases[j].ticks = m[i].ticks
             /\ \A c : c \in m[i].on_mask <=> \E j \in 1 .. n :
                         phases[j].ticks = m[i].ticks /\ c \in phases[j].on_mask
             /\ \A c : c \in m[i].off_mask <=> \E j \in 1 .. n :
                         phases[j].ticks = m[i].ticks /\ c \in phases[j].off_mask
  <2>1. /\ \E j \in 1 .. n + 1 : phases[j].ticks = m[i].ticks
        /\ \A c : c \in m[i].on_mask <=> \E j \in 1 .. n + 1 :
                    phases[j].ticks = m[i].ticks /\ c \in phases[j].on_mask
        /\ \A c : c \in m[i].off_mask <=> \E j \in 1 .. n + 1 :
                    phases[j].ticks = m[i].ticks /\ c \in phases[j].off_mask
    <3>1. i \in 1 .. Len(m) /\ Len(phases) = n + 1 /\ Merges(m, phases)
      BY <1>2, <1>4
    <3> QED BY <3>1, Zenon DEF Merges
  <2>2. \A j : j \in 1 .. n + 1 <=> j \in 1 .. n \/ j = n + 1
    OBVIOUS
  <2>3. phases[n + 1].ticks # m[i].ticks
    BY <1>1, <1>4
  <2> QED BY <2>1, <2>2, <2>3, Zenon
<1>7. ASSUME NEW c, NEW x, NEW y, Places(phases, n, period, c, x, y)
      PROVE  GoesAt(m, k, period, c, Time(phases, x, period), Time(phases, y, period))
  <2>1. PICK a, b : a = Time(phases, x, period) /\ b = Time(phases, y, period)
    OBVIOUS
  <2>2. /\ x \in 0 .. n /\ y \in 0 .. n /\ (x = 0 => y = 1) /\ (y = 0 => x = 1) /\ a # b
        /\ \A i \in 1 .. n : /\ c \in phases[i].on_mask <=> i = x
                             /\ c \in phases[i].off_mask <=> i = y
    BY <1>7, <2>1 DEF Places
  <2>3. /\ x = 0 => a = period /\ b = 0
        /\ y = 0 => b = period /\ a = 0
    BY <1>1, <2>1, <2>2 DEF Time
  <2>4. /\ x # 0 => x \in 1 .. n /\ a = phases[x].ticks
        /\ y # 0 => y \in 1 .. n /\ b = phases[y].ticks
    BY <2>1, <2>2 DEF Time
  <2>5. a \in Nat /\ b \in Nat
    BY <1>1, <2>3, <2>4
  <2>6. ASSUME x # 0, y # 0
        PROVE  \E i, j \in 1 .. k : m[i].ticks = a /\ m[j].ticks = b
    <3>1. PICK i \in 1 .. k : m[i].ticks = phases[x].ticks
      BY <1>5, <2>4, <2>6
    <3>2. PICK j \in 1 .. k : m[j].ticks = phases[y].ticks
      BY <1>5, <2>4, <2>6
    <3> QED BY <2>4, <2>6, <3>1, <3>2
  <2>7. ASSUME NEW i \in 1 .. k PROVE c \in m[i].on_mask <=> m[i].ticks = a
    <3>1. c \in m[i].on_mask <=> \E j \in 1 .. n : phases[j].ticks = m[i].ticks /\ j = x
      BY <1>6, <2>2
    <3>2. CASE x = 0
      BY <1>4, <2>3, <3>1, <3>2
    <3>3. CASE x # 0
      BY <2>4, <3>1, <3>3
    <3> QED BY <3>2, <3>3
  <2>8. ASSUME NEW i \in 1 .. k PROVE c \in m[i].off_mask <=> m[i].ticks = b
    <3>1. c \in m[i].off_mask <=> \E j \in 1 .. n : phases[j].ticks = m[i].ticks /\ j = y
      BY <1>6, <2>2
    <3>2. CASE y = 0
      BY <1>4, <2>3, <3>1, <3>2
    <3>3. CASE y # 0
      BY <2>4, <3>1, <3>3
    <3> QED BY <3>2, <3>3
  <2>9. \/ a = period /\ b = 0
        \/ b = period /\ a = 0
        \/ \E i, j \in 1 .. k : m[i].ticks = a /\ m[j].ticks = b
    BY <2>3, <2>6
  <2>10. GoesAt(m, k, period, c, a, b)
    BY <2>2, <2>5, <2>7, <2>8, <2>9 DEF GoesAt
  <2> QED BY <2>1, <2>10
<1>8. ASSUME Busy(phases, n), NEW i \in 1 .. k PROVE m[i].on_mask \cup m[i].off_mask # {}
  <2>1. PICK j \in 1 .. n : phases[j].ticks = m[i].ticks
    BY <1>6
  <2>2. PICK c : c \in phases[j].on_mask \cup phases[j].off_mask
    BY <1>8 DEF Busy
  <2>3. c \in m[i].on_mask \/ c \in m[i].off_mask
    BY <1>6, <2>1, <2>2
  <2> QED BY <2>3
<1> QED BY <1>7, <1>8 DEF Busy

--------------------------------------------------------------------------------
(* What comes out of a cycle: the phases after which a channel is on, and for how   *)
(* long it was on by then.                                                          *)

Course(phases, n, c, ups, sums) ==
  /\ ups \in SUBSET (0 .. n) /\ sums \in [0 .. n -> Int]
  /\ 0 \in ups <=> n \in ups
  /\ sums[0] = 0
  /\ \A i \in 1 .. n :
       /\ i \in ups <=> (i - 1 \in ups \/ c \in phases[i].on_mask) /\ c \notin phases[i].off_mask
       /\ sums[i] = sums[i - 1] + (IF i \in ups THEN phases[i].ticks + 1 ELSE 0)

\* A cycle that follows itself has the channel on for its duty.
Steady(phases, n, c, duty) ==
  /\ \E ups, sums : Course(phases, n, c, ups, sums) /\ sums[n] = duty
  /\ \E i \in 1 .. n : c \in phases[i].on_mask \cup phases[i].off_mask

\* A channel that goes on at a and off at b, and on again after the end of the cycle.
Up(t, a, b) == IF a < b THEN a <= t /\ t < b ELSE a <= t \/ t < b

UpBy(t, a, b) ==
  IF a < b THEN IF t <= a THEN 0 ELSE IF t <= b THEN t - a ELSE b - a
  ELSE IF t <= b THEN t ELSE IF t <= a THEN b ELSE b + t - a

\* From one phase to the next a channel that is on has been on for the time between.
LEMMA UpGoesOn ==
  ASSUME NEW t \in Nat, NEW u \in Nat, NEW a \in Nat, NEW b \in Nat, t < u, a # b,
         ~(t < a /\ a < u), ~(t < b /\ b < u)
  PROVE  /\ Up(u, a, b) <=> (Up(t, a, b) \/ u = a) /\ u # b
         /\ UpBy(t, a, b) \in Nat
         /\ UpBy(u, a, b) = UpBy(t, a, b) + (IF Up(t, a, b) THEN u - t ELSE 0)
<1>1. CASE a < b
  BY <1>1 DEF Up, UpBy
<1>2. CASE b < a
  BY <1>2 DEF Up, UpBy
<1> QED BY <1>1, <1>2

\* A cycle ends with the level that it starts with, and was on for OnFor.
LEMMA UpAllCycle ==
  ASSUME NEW a \in Nat, NEW b \in Nat, NEW late \in Nat, NEW period \in Nat, late < period, a # b,
         \/ a = period /\ b = 0
         \/ b = period /\ a = 0
         \/ a <= late /\ b <= late
  PROVE  /\ Up(0, a, b) <=> (Up(late, a, b) \/ 0 = a) /\ 0 # b
         /\ UpBy(0, a, b) = 0
         /\ UpBy(period, a, b) = OnFor(a, b, period) /\ UpBy(period, a, b) \in Nat
<1>1. CASE a = period /\ b = 0
  BY <1>1 DEF Up, UpBy, OnFor
<1>2. CASE b = period /\ a = 0
  BY <1>2 DEF Up, UpBy, OnFor
<1>3. CASE a <= late /\ b <= late
  BY <1>3 DEF Up, UpBy, OnFor
<1> QED BY <1>1, <1>2, <1>3

\* What calc_durations makes of phases in steps.
LEMMA DurationsOf ==
  ASSUME NEW phases, InSteps(phases), NEW n \in Nat, n = Len(phases) - 1
  PROVE  /\ n >= 1 /\ Len(phases) = n + 1 /\ Len(Durations(phases)) = n + 1
         /\ Durations(phases) \in Seq(Timed)
         /\ \A i \in 1 .. n + 1 : /\ phases[i].ticks \in Nat
                                  /\ Durations(phases)[i].on_mask = phases[i].on_mask
                                  /\ Durations(phases)[i].off_mask = phases[i].off_mask
         /\ \A i \in 1 .. n : /\ Durations(phases)[i].ticks \in Nat
                              /\ Durations(phases)[i].ticks + 1
                                   = phases[i + 1].ticks - phases[i].ticks
<1>1. /\ phases \in Seq(Timed) /\ Len(phases) = n + 1 /\ n >= 1 /\ DOMAIN phases = 1 .. n + 1
      /\ \A i \in 1 .. n : phases[i].ticks < phases[i + 1].ticks
  <2>1. Len(phases) \in Nat /\ Len(phases) >= 2 /\ DOMAIN phases = 1 .. Len(phases)
    BY DEF InSteps
  <2> QED BY <2>1 DEF InSteps
<1>2. \A i \in 1 .. n + 1 : phases[i] \in Timed /\ phases[i].ticks \in Nat
  <2>1. \A i \in 1 .. n + 1 : phases[i] \in Timed
    BY <1>1
  <2> QED BY <2>1 DEF Timed
<1> DEFINE lasts(i) == IF i = Len(phases) THEN 0 ELSE phases[i + 1].ticks - phases[i].ticks - 1
<1>3. PICK d : d = Durations(phases)
  OBVIOUS
<1>4. d = [i \in 1 .. n + 1 |-> [phases[i] EXCEPT !.ticks = lasts(i)]]
  BY <1>1, <1>3 DEF Durations
<1>5. \A i \in 1 .. n : /\ lasts(i) \in Nat
                        /\ lasts(i) + 1 = phases[i + 1].ticks - phases[i].ticks
  <2>1. SUFFICES ASSUME NEW i \in 1 .. n
                 PROVE  /\ lasts(i) \in Nat
                        /\ lasts(i) + 1 = phases[i + 1].ticks - phases[i].ticks
    OBVIOUS
  <2>2. i \in 1 .. n + 1 /\ i + 1 \in 1 .. n + 1 /\ i # n + 1
    OBVIOUS
  <2>3. phases[i].ticks \in Nat /\ phases[i + 1].ticks \in Nat
        /\ phases[i].ticks < phases[i + 1].ticks
    BY <1>1, <1>2, <2>2
  <2> QED BY <1>1, <2>2, <2>3
<1>6. lasts(n + 1) \in Nat
  BY <1>1
<1> HIDE DEF lasts
<1>7. \A i \in 1 .. n + 1 : lasts(i) \in Nat
  <2>1. \A i \in 1 .. n + 1 : i = n + 1 \/ i \in 1 .. n
    OBVIOUS
  <2> QED BY <1>5, <1>6, <2>1
<1>8. \A i \in 1 .. n + 1 : /\ d[i] \in Timed /\ d[i].ticks = lasts(i)
                            /\ d[i].on_mask = phases[i].on_mask
                            /\ d[i].off_mask = phases[i].off_mask
  BY <1>2, <1>4, <1>7 DEF Timed
<1>9. d \in Seq(Timed) /\ Len(d) = n + 1
  <2>1. d = [i \in 1 .. n + 1 |-> d[i]]
    BY <1>4
  <2> QED BY <1>8, <2>1
<1>10. \A i \in 1 .. n : d[i].ticks \in Nat /\ d[i].ticks + 1 = phases[i + 1].ticks - phases[i].ticks
  <2>1. \A i \in 1 .. n : i \in 1 .. n + 1
    OBVIOUS
  <2> QED BY <1>5, <1>8, <2>1
<1> QED BY <1>1, <1>2, <1>3, <1>8, <1>9, <1>10

\* A channel that goes on and off in the phases has a steady course through the durations.
LEMMA DurationsSteady ==
  ASSUME NEW phases, InSteps(phases), NEW period \in Nat, Increasing(phases, period),
         NEW n \in Nat, n = Len(phases) - 1,
         NEW c, NEW a, NEW b, GoesAt(phases, n, period, c, a, b)
  PROVE  Steady(Durations(phases), n, c, OnFor(a, b, period))
<1>1. PICK d : d = Durations(phases)
  OBVIOUS
<1>2. PICK at : at = [i \in 1 .. n + 1 |-> phases[i].ticks]
  OBVIOUS
<1>3. /\ n >= 1 /\ Len(phases) = n + 1
      /\ \A i \in 1 .. n + 1 : /\ at[i] = phases[i].ticks /\ at[i] \in Nat
                               /\ d[i].on_mask = phases[i].on_mask
                               /\ d[i].off_mask = phases[i].off_mask
      /\ \A i \in 1 .. n : d[i].ticks + 1 = at[i + 1] - at[i] /\ d[i].ticks \in Nat
  <2>1. \A i \in 1 .. n : i \in 1 .. n + 1 /\ i + 1 \in 1 .. n + 1
    OBVIOUS
  <2> QED BY <1>1, <1>2, <2>1, DurationsOf
<1>4. /\ \A i, j \in 1 .. n + 1 : i < j => at[i] < at[j]
      /\ at[1] = 0 /\ at[n + 1] = period
  <2>1. 1 \in 1 .. n + 1 /\ n + 1 \in 1 .. n + 1 /\ phases[1].ticks = 0
    BY <1>3 DEF InSteps
  <2>2. Len(phases) = n + 1
    BY <1>3
  <2>3. ASSUME NEW i \in 1 .. n + 1, NEW j \in 1 .. n + 1, i < j
        PROVE  at[i] < at[j]
    <3>1. phases[i].ticks < phases[j].ticks
      BY <2>2, <2>3 DEF Increasing
    <3> QED BY <1>3, <3>1
  <2>4. phases[n + 1].ticks = period
    BY <2>2 DEF Increasing
  <2> QED BY <1>3, <2>1, <2>3, <2>4
<1>5. /\ a \in Nat /\ b \in Nat /\ a # b
      /\ \/ a = period /\ b = 0
         \/ b = period /\ a = 0
         \/ \E i, j \in 1 .. n : at[i] = a /\ at[j] = b
      /\ \A i \in 1 .. n : /\ c \in d[i].on_mask <=> at[i] = a
                           /\ c \in d[i].off_mask <=> at[i] = b
  <2>1. \A i \in 1 .. n : i \in 1 .. n + 1
    BY <1>3
  <2>2. /\ a \in Nat /\ b \in Nat /\ a # b
        /\ \/ a = period /\ b = 0
           \/ b = period /\ a = 0
           \/ \E i, j \in 1 .. n : phases[i].ticks = a /\ phases[j].ticks = b
    BY DEF GoesAt
  <2>3. (\E i, j \in 1 .. n : phases[i].ticks = a /\ phases[j].ticks = b)
          => \E i, j \in 1 .. n : at[i] = a /\ at[j] = b
    <3>1. SUFFICES ASSUME NEW i \in 1 .. n, NEW j \in 1 .. n,
                          phases[i].ticks = a, phases[j].ticks = b
                   PROVE  at[i] = a /\ at[j] = b
      OBVIOUS
    <3> QED BY <1>3, <2>1, <3>1
  <2>4. ASSUME NEW i \in 1 .. n
        PROVE  /\ c \in d[i].on_mask <=> at[i] = a
               /\ c \in d[i].off_mask <=> at[i] = b
    <3>1. /\ c \in phases[i].on_mask <=> phases[i].ticks = a
          /\ c \in phases[i].off_mask <=> phases[i].ticks = b
      BY DEF GoesAt
    <3>2. at[i] = phases[i].ticks /\ d[i].on_mask = phases[i].on_mask
          /\ d[i].off_mask = phases[i].off_mask
      BY <1>3, <2>1
    <3> QED BY <3>1, <3>2
  <2> QED BY <2>2, <2>3, <2>4
<1>6. ASSUME NEW i \in 1 .. n
      PROVE  /\ at[i] \in Nat /\ at[i + 1] \in Nat /\ at[i] < at[i + 1]
             /\ \A t \in {a, b} : ~(at[i] < t /\ t < at[i + 1])
  <2>1. i \in 1 .. n + 1 /\ i + 1 \in 1 .. n + 1 /\ 1 \in 1 .. n + 1 /\ n + 1 \in 1 .. n + 1
    OBVIOUS
  <2>2. at[i] \in Nat /\ at[i + 1] \in Nat /\ at[i] < at[i + 1]
    BY <1>3, <1>4, <2>1
  <2>3. \A j \in 1 .. n + 1 : ~(at[i] < at[j] /\ at[j] < at[i + 1])
    <3>1. SUFFICES ASSUME NEW j \in 1 .. n + 1 PROVE ~(at[i] < at[j] /\ at[j] < at[i + 1])
      OBVIOUS
    <3>2. at[j] \in Nat
      BY <1>3
    <3>3. j < i \/ j = i \/ j = i + 1 \/ j > i + 1
      OBVIOUS
    <3> QED BY <1>4, <2>1, <2>2, <3>2, <3>3
  <2>4. \A t \in {a, b} : \E j \in 1 .. n + 1 : at[j] = t
    <3>1. \A j \in 1 .. n : j \in 1 .. n + 1
      OBVIOUS
    <3> QED BY <1>4, <1>5, <2>1, <3>1
  <2> QED BY <2>2, <2>3, <2>4
<1>7. /\ at[n] \in Nat /\ at[n] < period
      /\ \/ a = period /\ b = 0
         \/ b = period /\ a = 0
         \/ a <= at[n] /\ b <= at[n]
  <2>1. n \in 1 .. n /\ n \in 1 .. n + 1
    BY <1>3
  <2>2. \A j \in 1 .. n : at[j] <= at[n]
    <3>1. SUFFICES ASSUME NEW j \in 1 .. n PROVE at[j] <= at[n]
      OBVIOUS
    <3>2. j \in 1 .. n + 1 /\ at[j] \in Nat /\ at[n] \in Nat
      BY <1>3, <2>1
    <3>3. j = n \/ j < n
      OBVIOUS
    <3> QED BY <1>4, <2>1, <3>2, <3>3
  <2>3. at[n] \in Nat /\ at[n] < period
    BY <1>4, <1>6, <2>1
  <2> QED BY <1>5, <2>2, <2>3
<1> DEFINE before(i) == IF i = 0 THEN at[n] ELSE at[i]
           ups == {i \in 0 .. n : Up(before(i), a, b)}
           sums == [i \in 0 .. n |-> UpBy(at[i + 1], a, b)]
<1>8. /\ Up(0, a, b) <=> (Up(at[n], a, b) \/ 0 = a) /\ 0 # b
      /\ UpBy(0, a, b) = 0
      /\ UpBy(period, a, b) = OnFor(a, b, period) /\ UpBy(period, a, b) \in Nat
  BY <1>5, <1>7, UpAllCycle
<1>9. ASSUME NEW i \in 1 .. n
      PROVE  /\ Up(at[i + 1], a, b) <=> (Up(at[i], a, b) \/ at[i + 1] = a) /\ at[i + 1] # b
             /\ UpBy(at[i], a, b) \in Nat
             /\ UpBy(at[i + 1], a, b) =
                  UpBy(at[i], a, b) + (IF Up(at[i], a, b) THEN at[i + 1] - at[i] ELSE 0)
  <2>1. PICK t, u : t = at[i] /\ u = at[i + 1]
    OBVIOUS
  <2>2. t \in Nat /\ u \in Nat /\ t < u /\ ~(t < a /\ a < u) /\ ~(t < b /\ b < u)
    BY <1>6, <2>1
  <2>3. a \in Nat /\ b \in Nat /\ a # b
    BY <1>5
  <2>4. /\ Up(u, a, b) <=> (Up(t, a, b) \/ u = a) /\ u # b
        /\ UpBy(t, a, b) \in Nat
        /\ UpBy(u, a, b) = UpBy(t, a, b) + (IF Up(t, a, b) THEN u - t ELSE 0)
    BY <2>2, <2>3, UpGoesOn
  <2> QED BY <2>1, <2>4
<1>10. sums \in [0 .. n -> Int] /\ sums[0] = 0 /\ sums[n] = OnFor(a, b, period)
  <2>1. \A i \in 0 .. n : i = n \/ i + 1 \in 1 .. n
    OBVIOUS
  <2>2. \A i \in 0 .. n : UpBy(at[i + 1], a, b) \in Nat
    BY <1>4, <1>8, <1>9, <2>1
  <2> QED BY <1>4, <1>8, <2>2
<1>11. \A i \in 1 .. n : i \in ups <=> Up(at[i], a, b)
  OBVIOUS
<1>12. 0 \in ups <=> Up(at[n], a, b)
  OBVIOUS
<1>13. 0 \in ups <=> n \in ups
  BY <1>3, <1>11, <1>12
<1>14. ASSUME NEW i \in 1 .. n
       PROVE  /\ i \in ups <=> (i - 1 \in ups \/ c \in d[i].on_mask) /\ c \notin d[i].off_mask
              /\ sums[i] = sums[i - 1] + (IF i \in ups THEN d[i].ticks + 1 ELSE 0)
  <2>1. i \in ups <=> (i - 1 \in ups \/ at[i] = a) /\ at[i] # b
    <3>1. CASE i = 1
      BY <1>4, <1>8, <1>11, <1>12, <3>1
    <3>2. CASE i # 1
      <4>1. PICK j : j = i - 1 /\ j \in 1 .. n /\ j + 1 = i
        BY <3>2
      <4>2. Up(at[i], a, b) <=> (Up(at[j], a, b) \/ at[i] = a) /\ at[i] # b
        BY <1>9, <4>1
      <4> QED BY <1>11, <4>1, <4>2
    <3> QED BY <3>1, <3>2
  <2>2. sums[i] = UpBy(at[i + 1], a, b) /\ sums[i - 1] = UpBy(at[i], a, b)
    OBVIOUS
  <2> HIDE DEF ups, sums
  <2>3. sums[i] = sums[i - 1] + (IF i \in ups THEN d[i].ticks + 1 ELSE 0)
    BY <1>3, <1>9, <1>11, <2>2
  <2> QED BY <1>5, <2>1, <2>3
<1>15. ups \in SUBSET (0 .. n)
  OBVIOUS
<1> HIDE DEF ups, sums
<1>16. Course(d, n, c, ups, sums)
  BY <1>10, <1>13, <1>14, <1>15 DEF Course
<1>17. \E i \in 1 .. n : c \in d[i].on_mask \cup d[i].off_mask
  <2>1. 1 \in 1 .. n /\ at[1] = 0
    BY <1>3, <1>4
  <2> QED BY <1>5, <2>1
<1> QED BY <1>1, <1>10, <1>16, <1>17 DEF Steady

\* So has one that begins a phase later.
LEMMA RotationSteady ==
  ASSUME NEW d \in Seq(Timed), NEW n \in Nat, n >= 1, Len(d) = n + 1,
         NEW p, \A i \in 1 .. n : p[i] = IF i = n THEN d[1] ELSE d[i + 1],
         NEW c, NEW duty, Steady(d, n, c, duty)
  PROVE  Steady(p, n, c, duty)
<1>1. PICK ups, sums : Course(d, n, c, ups, sums) /\ sums[n] = duty
  BY DEF Steady
<1>2. /\ ups \in SUBSET (0 .. n) /\ sums \in [0 .. n -> Int]
      /\ 0 \in ups <=> n \in ups
      /\ sums[0] = 0
  BY <1>1 DEF Course
<1>3. ASSUME NEW i \in 1 .. n
      PROVE  /\ d[i].ticks \in Nat
             /\ i \in ups <=> (i - 1 \in ups \/ c \in d[i].on_mask) /\ c \notin d[i].off_mask
             /\ sums[i] = sums[i - 1] + (IF i \in ups THEN d[i].ticks + 1 ELSE 0)
  <2>1. i \in 1 .. Len(d)
    OBVIOUS
  <2>2. d[i] \in Timed
    BY <2>1
  <2> QED BY <1>1, <2>2 DEF Course, Timed
<1>4. PICK on : on = {i \in 0 .. n : (i = n /\ 1 \in ups) \/ (i # n /\ i + 1 \in ups)}
  OBVIOUS
<1>5. PICK done : done = [i \in 0 .. n |-> IF i = n THEN sums[n] ELSE sums[i + 1] - sums[1]]
  OBVIOUS
<1>6. /\ on \in SUBSET (0 .. n)
      /\ n \in on <=> 1 \in ups
      /\ \A i \in 0 .. n - 1 : i \in on <=> i + 1 \in ups
  BY <1>4
<1>7. /\ done \in [0 .. n -> Int] /\ done[n] = sums[n]
      /\ \A i \in 0 .. n - 1 : done[i] = sums[i + 1] - sums[1]
  <2>1. 1 \in 0 .. n /\ \A i \in 0 .. n : i # n => i + 1 \in 0 .. n
    OBVIOUS
  <2> QED BY <1>2, <1>5, <2>1
<1>8. 0 \in on <=> n \in on
  BY <1>6
<1>9. done[0] = 0
  BY <1>2, <1>7
<1>10. ASSUME NEW i \in 1 .. n
       PROVE  /\ i \in on <=> (i - 1 \in on \/ c \in p[i].on_mask) /\ c \notin p[i].off_mask
              /\ done[i] = done[i - 1] + (IF i \in on THEN p[i].ticks + 1 ELSE 0)
  <2>1. PICK j \in 0 .. n - 1 : j = i - 1 /\ j + 1 = i
    OBVIOUS
  <2>2. (j \in on <=> i \in ups) /\ done[j] = sums[i] - sums[1]
    BY <1>6, <1>7, <2>1
  <2>3. CASE i = n
    <3>1. p[i] = d[1] /\ 1 \in 1 .. n /\ 1 - 1 = 0
      BY <2>3
    <3>2. /\ 1 \in ups <=> (0 \in ups \/ c \in d[1].on_mask) /\ c \notin d[1].off_mask
          /\ sums[1] = sums[0] + (IF 1 \in ups THEN d[1].ticks + 1 ELSE 0)
          /\ d[1].ticks \in Nat
      BY <1>3, <3>1
    <3>3. i \in on <=> (i - 1 \in on \/ c \in p[i].on_mask) /\ c \notin p[i].off_mask
      BY <1>2, <1>6, <2>1, <2>2, <2>3, <3>1, <3>2
    <3>4. sums[n] \in Int
      BY <1>2
    <3>5. sums[1] = IF n \in on THEN d[1].ticks + 1 ELSE 0
      BY <1>2, <1>6, <3>2
    <3>6. done[n] = done[j] + sums[1]
      BY <1>7, <2>2, <2>3, <3>2, <3>4, <3>5
    <3> QED BY <2>1, <2>3, <3>1, <3>3, <3>5, <3>6
  <2>4. CASE i # n
    <3>1. PICK k \in 1 .. n : k = i + 1 /\ k - 1 = i
      BY <2>4
    <3>2. p[i] = d[k] /\ (i \in on <=> k \in ups) /\ done[i] = sums[k] - sums[1]
      BY <1>6, <1>7, <2>4, <3>1
    <3>3. /\ k \in ups <=> (i \in ups \/ c \in d[k].on_mask) /\ c \notin d[k].off_mask
          /\ sums[k] = sums[i] + (IF k \in ups THEN d[k].ticks + 1 ELSE 0)
          /\ d[k].ticks \in Nat
      BY <1>3, <3>1
    <3>4. sums[1] \in Int /\ sums[i] \in Int
      BY <1>2
    <3>5. done[i] = done[j] + (IF i \in on THEN d[k].ticks + 1 ELSE 0)
      BY <2>2, <3>2, <3>3, <3>4
    <3> QED BY <2>1, <2>2, <3>2, <3>3, <3>5
  <2> QED BY <2>3, <2>4
<1>11. Course(p, n, c, on, done)
  BY <1>6, <1>7, <1>8, <1>9, <1>10 DEF Course
<1>12. \E i \in 1 .. n : c \in p[i].on_mask \cup p[i].off_mask
  <2>1. PICK i \in 1 .. n : c \in d[i].on_mask \cup d[i].off_mask
    BY DEF Steady
  <2>2. CASE i = 1
    <3>1. n \in 1 .. n /\ p[n] = d[1]
      OBVIOUS
    <3> QED BY <2>1, <2>2, <3>1
  <2>3. CASE i # 1
    <3>1. PICK j \in 1 .. n : j + 1 = i /\ j # n
      BY <2>3
    <3> QED BY <2>1, <3>1
  <2> QED BY <2>2, <2>3
<1> QED BY <1>1, <1>7, <1>11, <1>12 DEF Steady

\* Two elements behind a sequence.
LEMMA TwoMore ==
  ASSUME NEW T, NEW e \in Seq(T), NEW f \in Seq(T), Len(f) = 2
  PROVE  /\ e \o f \in Seq(T) /\ Len(e \o f) = Len(e) + 2
         /\ (e \o f)[Len(e) + 1] = f[1] /\ (e \o f)[Len(e) + 2] = f[2]
<1>1. e \o f \in Seq(T) /\ Len(e \o f) = Len(e) + Len(f)
  BY ConcatProperties, Zenon
<1>2. \A i \in 1 .. Len(e) + Len(f) : (e \o f)[i] = IF i <= Len(e) THEN e[i] ELSE f[i - Len(e)]
  BY ConcatProperties, Zenon
<1>3. Len(e) \in Nat
  OBVIOUS
<1>4. PICK k, g : k \in Nat /\ k = Len(e) /\ g = e \o f
  BY <1>3
<1>5. k + 1 \in 1 .. k + 2 /\ ~(k + 1 <= k) /\ (k + 1) - k = 1
  BY <1>4
<1>6. k + 2 \in 1 .. k + 2 /\ ~(k + 2 <= k) /\ (k + 2) - k = 2
  BY <1>4
<1>7. \A i \in 1 .. k + 2 : g[i] = IF i <= k THEN e[i] ELSE f[i - k]
  BY <1>2, <1>4
<1>8. g[k + 1] = f[1] /\ g[k + 2] = f[2]
  BY <1>5, <1>6, <1>7
<1> QED BY <1>1, <1>4, <1>8

\* The first phase is moved to the end, before the empty one, if the last would be
\* waited for.
IsRotated(p, d, n) ==
  /\ p \in Seq(Timed) /\ Len(p) = n + 1 /\ p[n + 1] = d[n + 1]
  /\ \/ p = d /\ ~(d[n].ticks < SHORT)
     \/ \A i \in 1 .. n : p[i] = IF i = n THEN d[1] ELSE d[i + 1]

\* CyclicShift does that.
LEMMA Rotated ==
  ASSUME NEW d \in Seq(Timed), NEW n \in Nat, n >= 1, Len(d) = n + 1,
         NEW p, p = CyclicShift(d)
  PROVE  IsRotated(p, d, n)
<1>1. CASE d[n].ticks < SHORT
  <2>1. PICK e : e = SubSeq(d, 2, n)
    OBVIOUS
  <2>2. PICK f : f = <<d[1], d[n + 1]>>
    OBVIOUS
  <2>3. /\ e \in Seq(Timed) /\ Len(e) = n - 1
        /\ \A i \in 1 .. n - 1 : e[i] = d[i + 1]
    <3>1. Len(e) = n - 1 /\ e \in Seq(Timed)
      BY <2>1
    <3>2. \A i \in 1 .. n - 1 : e[i] = d[i + 1]
      BY <2>1
    <3> QED BY <3>1, <3>2
  <2>4. f \in Seq(Timed) /\ Len(f) = 2 /\ f[1] = d[1] /\ f[2] = d[n + 1]
    <3>1. d[1] \in Timed /\ d[n + 1] \in Timed
      OBVIOUS
    <3> QED BY <2>2, <3>1
  <2>5. p = e \o f
    <3>1. Len(d) - 1 = n
      OBVIOUS
    <3> QED BY <1>1, <2>1, <2>2, <3>1 DEF CyclicShift, Last
  <2>6. /\ p \in Seq(Timed) /\ Len(p) = (n - 1) + 2
        /\ p[(n - 1) + 1] = f[1] /\ p[(n - 1) + 2] = f[2]
    BY <2>3, <2>4, <2>5, TwoMore
  <2>7. \A i \in 1 .. n - 1 : p[i] = e[i]
    <3>1. \A i \in 1 .. Len(e) + Len(f) :
            (e \o f)[i] = IF i <= Len(e) THEN e[i] ELSE f[i - Len(e)]
      BY <2>3, <2>4, ConcatProperties, Zenon
    <3>2. \A i \in 1 .. n - 1 : i \in 1 .. (n - 1) + 2 /\ i <= n - 1
      OBVIOUS
    <3>3. \A i \in 1 .. (n - 1) + 2 : p[i] = IF i <= n - 1 THEN e[i] ELSE f[i - Len(e)]
      BY <2>3, <2>4, <2>5, <3>1
    <3> QED BY <3>2, <3>3
  <2>8. ASSUME NEW i \in 1 .. n PROVE p[i] = IF i = n THEN d[1] ELSE d[i + 1]
    <3>1. CASE i = n
      <4>1. (n - 1) + 1 = n
        OBVIOUS
      <4> QED BY <2>4, <2>6, <3>1, <4>1
    <3>2. CASE i # n
      <4>1. i \in 1 .. n - 1
        BY <3>2
      <4> QED BY <2>3, <2>7, <3>2, <4>1
    <3> QED BY <3>1, <3>2
  <2>9. (n - 1) + 2 = n + 1
    OBVIOUS
  <2> QED BY <2>4, <2>6, <2>8, <2>9 DEF IsRotated
<1>2. CASE ~(d[n].ticks < SHORT)
  BY <1>2 DEF CyclicShift, IsRotated
<1> QED BY <1>1, <1>2

\* What prepare_phases makes of phases in the order of their times.
StepsOut(p, phases, n, period) ==
  /\ n >= 1 /\ Len(p) = n + 1
  /\ \A c, a, b : GoesAt(phases, n, period, c, a, b) => Steady(p, n, c, OnFor(a, b, period))
  /\ Busy(phases, n) => Busy(p, n)
  /\ n = 1 => p[1].ticks + 1 = period

\* So it has after the rotation.
LEMMA StepsSteady ==
  ASSUME NEW phases, InSteps(phases), NEW period \in Nat, Increasing(phases, period),
         NEW n \in Nat, n = Len(phases) - 1,
         NEW p, p = CyclicShift(Durations(phases))
  PROVE  StepsOut(p, phases, n, period)
<1>1. PICK d : d = Durations(phases)
  OBVIOUS
<1>2. /\ n >= 1 /\ Len(phases) = n + 1 /\ d \in Seq(Timed) /\ Len(d) = n + 1
      /\ \A i \in 1 .. n : /\ d[i].on_mask = phases[i].on_mask
                           /\ d[i].off_mask = phases[i].off_mask
                           /\ d[i].ticks + 1 = phases[i + 1].ticks - phases[i].ticks
  <2>1. \A i \in 1 .. n : i \in 1 .. n + 1
    OBVIOUS
  <2> QED BY <1>1, <2>1, DurationsOf
<1>3. Len(p) = n + 1 /\ (p = d \/ \A i \in 1 .. n : p[i] = IF i = n THEN d[1] ELSE d[i + 1])
  <2>1. IsRotated(p, d, n)
    BY <1>1, <1>2, Rotated
  <2> QED BY <2>1 DEF IsRotated
<1>4. ASSUME NEW c, NEW a, NEW b, GoesAt(phases, n, period, c, a, b)
      PROVE  Steady(p, n, c, OnFor(a, b, period))
  <2>1. Steady(d, n, c, OnFor(a, b, period))
    BY <1>1, <1>4, DurationsSteady
  <2>2. CASE p = d
    BY <2>1, <2>2
  <2>3. CASE \A i \in 1 .. n : p[i] = IF i = n THEN d[1] ELSE d[i + 1]
    <3>1. PICK duty : duty = OnFor(a, b, period)
      OBVIOUS
    <3> QED BY <1>2, <2>1, <2>3, <3>1, RotationSteady
  <2> QED BY <1>3, <2>2, <2>3
<1>5. ASSUME Busy(phases, n) PROVE Busy(p, n)
  <2>1. \A i \in 1 .. n : d[i].on_mask \cup d[i].off_mask # {}
    BY <1>2, <1>5 DEF Busy
  <2>2. ASSUME NEW i \in 1 .. n PROVE \E j \in 1 .. n : p[i] = d[j]
    <3>1. 1 \in 1 .. n /\ (i # n => i + 1 \in 1 .. n)
      OBVIOUS
    <3> QED BY <1>3, <3>1
  <2> QED BY <2>1, <2>2 DEF Busy
<1>6. ASSUME n = 1 PROVE p[1].ticks + 1 = period
  <2>1. p[1] = d[1] /\ 1 \in 1 .. n
    BY <1>3, <1>6
  <2>2. d[1].ticks + 1 = phases[2].ticks - phases[1].ticks
    <3>1. 1 + 1 = 2
      OBVIOUS
    <3> QED BY <1>2, <2>1, <3>1
  <2>3. phases[2].ticks = period /\ phases[1].ticks = 0
    BY <1>2, <1>6 DEF Increasing, InSteps
  <2> QED BY <2>1, <2>2, <2>3
<1> QED BY <1>2, <1>3, <1>4, <1>5, <1>6 DEF StepsOut

--------------------------------------------------------------------------------
(* The phases that prepare_phases computes. *)

\* What the handler can run through: the last phase is empty, and it does not wait
\* for the one before it.
Usable(phases) ==
  /\ phases \in Seq(Timed) /\ Len(phases) >= 2
  /\ phases[Len(phases)].on_mask = {} /\ phases[Len(phases)].off_mask = {}
  /\ phases[Len(phases) - 1].ticks >= SHORT

\* The rotated phases can be run through.
LEMMA ShiftedUsable ==
  ASSUME NEW phases, InSteps(phases)
  PROVE  Usable(CyclicShift(Durations(phases)))
<1>1. PICK n \in Nat : n = Len(phases) - 1
  <2>1. Len(phases) - 1 \in Nat
    BY DEF InSteps
  <2> QED BY <2>1
<1>2. PICK d : d = Durations(phases)
  OBVIOUS
<1>3. PICK p : p = CyclicShift(d)
  OBVIOUS
<1>4. /\ n >= 1 /\ Len(phases) = n + 1 /\ Len(d) = n + 1 /\ d \in Seq(Timed)
      /\ d[n + 1].on_mask = phases[n + 1].on_mask /\ d[n + 1].off_mask = phases[n + 1].off_mask
      /\ \A i \in 1 .. n : d[i].ticks \in Nat
      /\ d[1].ticks + 1 = phases[2].ticks - phases[1].ticks
  <2>1. 1 \in 1 .. n /\ n + 1 \in 1 .. n + 1 /\ 1 + 1 = 2
    BY <1>1, DurationsOf
  <2> QED BY <1>1, <1>2, <2>1, DurationsOf
<1>5. phases[n + 1].on_mask = {} /\ phases[n + 1].off_mask = {}
      /\ phases[1].ticks = 0 /\ phases[2].ticks > SHORT
  BY <1>4 DEF InSteps
<1>6. SHORT \in Nat /\ 1 \in 1 .. n /\ n \in 1 .. n /\ d[1].ticks >= SHORT
  <2>1. SHORT \in Nat /\ 1 \in 1 .. n /\ n \in 1 .. n
    BY <1>4, PwmAssumption
  <2>2. 2 \in 1 .. Len(phases)
    BY <1>4
  <2>3. phases[2] \in Timed
    BY <2>2 DEF InSteps
  <2>4. phases[2].ticks \in Nat
    BY <2>3 DEF Timed
  <2> QED BY <1>4, <1>5, <2>1, <2>4
<1>7. /\ p \in Seq(Timed) /\ Len(p) = n + 1 /\ p[n + 1] = d[n + 1]
      /\ \/ p[n] = d[1]
         \/ p[n] = d[n] /\ ~(d[n].ticks < SHORT)
  <2>1. n >= 1 /\ Len(d) = n + 1 /\ d \in Seq(Timed)
    BY <1>4
  <2>2. /\ p \in Seq(Timed) /\ Len(p) = n + 1 /\ p[n + 1] = d[n + 1]
        /\ \/ p = d /\ ~(d[n].ticks < SHORT)
           \/ \A i \in 1 .. n : p[i] = IF i = n THEN d[1] ELSE d[i + 1]
    <3>1. IsRotated(p, d, n)
      BY <1>3, <2>1, Rotated
    <3> QED BY <3>1 DEF IsRotated
  <2>3. CASE p = d /\ ~(d[n].ticks < SHORT)
    BY <2>2, <2>3
  <2>4. CASE \A i \in 1 .. n : p[i] = IF i = n THEN d[1] ELSE d[i + 1]
    <3>1. p[n] = d[1]
      BY <1>6, <2>4
    <3> QED BY <2>2, <3>1
  <2> QED BY <2>2, <2>3, <2>4
<1>8. p[n].ticks >= SHORT
  BY <1>4, <1>6, <1>7
<1>9. Len(p) - 1 = n
  BY <1>7
<1> QED BY <1>2, <1>3, <1>4, <1>5, <1>7, <1>8, <1>9 DEF Usable

\* The phases that prepare_phases computes can be run through.
LEMMA PreparedUsable ==
  ASSUME NEW duties \in [Channels -> Nat], NEW period, Long(period)
  PROVE  Usable(prepare_phases(duties, period))
<1>1. PICK events : events = Unshifted(duties, period)
  OBVIOUS
<1>2. PICK shifted : shifted = ShiftLeft(events, period)
  OBVIOUS
<1>3. PICK merged : merged = MergeSame(shifted)
  OBVIOUS
<1>4. Spread(shifted, period)
  BY <1>1, <1>2, EventsPlaced, ShiftLeftSpreads
<1>5. InSteps(merged)
  BY <1>3, <1>4, MergedInSteps
<1> QED BY <1>1, <1>2, <1>3, <1>5, ShiftedUsable DEF prepare_phases

\* What a cycle of a set puts out.
PutsOut(phases, period, duties) ==
  /\ Channels # {} => Busy(phases, Len(phases) - 1)
  /\ \A c \in Channels : Steady(phases, Len(phases) - 1, c, duties[c])
  /\ Len(phases) = 2 => phases[1].ticks + 1 = period

\* The phases that prepare_phases computes put out the duties.
LEMMA PreparedPutsOut ==
  ASSUME NEW duties \in [Channels -> Nat], NEW period, Long(period),
         \A c \in Channels : duties[c] <= period
  PROVE  PutsOut(prepare_phases(duties, period), period, duties)
<1>1. PICK events : events = Unshifted(duties, period)
  OBVIOUS
<1>2. PICK shifted : shifted = ShiftLeft(events, period)
  OBVIOUS
<1>3. PICK merged : merged = MergeSame(shifted)
  OBVIOUS
<1>4. PICK p : p = CyclicShift(Durations(merged)) /\ p = prepare_phases(duties, period)
  BY <1>1, <1>2, <1>3 DEF prepare_phases
<1>5. /\ InTime(events, period)
      /\ \A i, j \in 1 .. Len(events) : i < j => events[i].ticks <= events[j].ticks
      /\ Channels # {} => Busy(events, Len(events) - 1)
      /\ \A c \in Channels : Drives(events, Len(events) - 1, period, c, duties[c], 1)
  BY <1>1, EventsPlaced
<1>6. PICK n \in Nat : n = Len(events) - 1 /\ Len(events) = n + 1
  <2>1. Len(events) \in Nat /\ Len(events) >= 2
    BY <1>5 DEF InTime
  <2>2. Len(events) - 1 \in Nat /\ Len(events) = (Len(events) - 1) + 1
    BY <2>1
  <2> QED BY <2>2
<1>7. Spread(shifted, period)
  BY <1>2, <1>5, ShiftLeftSpreads
<1>8. InSteps(merged) /\ Increasing(merged, period) /\ period \in Nat
  BY <1>3, <1>7, MergedInSteps, MergedInOrder DEF Long
<1>9. PICK k \in Nat : k = Len(merged) - 1 /\ Len(merged) = k + 1
  <2>1. Len(merged) \in Nat /\ Len(merged) >= 2
    BY <1>8 DEF InSteps
  <2>2. Len(merged) - 1 \in Nat /\ Len(merged) = (Len(merged) - 1) + 1
    BY <2>1
  <2> QED BY <2>2
<1>10. /\ k >= 1 /\ Len(p) = k + 1
       /\ \A c, a, b : GoesAt(merged, k, period, c, a, b) =>
                         Steady(p, k, c, OnFor(a, b, period))
       /\ Busy(merged, k) => Busy(p, k)
       /\ k = 1 => p[1].ticks + 1 = period
  <2>1. StepsOut(p, merged, k, period)
    BY <1>4, <1>8, <1>9, StepsSteady
  <2> QED BY <2>1 DEF StepsOut
<1>11. Len(p) - 1 = k /\ (Len(p) = 2 => k = 1)
  BY <1>10
<1>12. CASE Channels = {}
  BY <1>4, <1>10, <1>11, <1>12 DEF PutsOut
<1>13. CASE Channels # {}
  <2>1. Busy(events, n) /\ \A c \in Channels : Drives(events, n, period, c, duties[c], 1)
    BY <1>5, <1>6, <1>13
  <2>2. /\ Len(shifted) = n + 1 /\ Busy(shifted, n)
        /\ \A c \in Channels : Drives(shifted, n, period, c, duties[c], n + 1)
    BY <1>2, <1>5, <1>6, <2>1, ShiftLeftKeeps
  <2>3. /\ \A c, x, y : Places(shifted, n, period, c, x, y) =>
             GoesAt(merged, k, period, c, Time(shifted, x, period), Time(shifted, y, period))
        /\ Busy(shifted, n) => Busy(merged, k)
    BY <1>3, <1>6, <1>7, <1>9, <2>2, MergedGoesAt
  <2>4. Busy(p, k)
    BY <1>10, <2>2, <2>3
  <2>5. ASSUME NEW c \in Channels PROVE Steady(p, k, c, duties[c])
    <3>1. PICK x, y : /\ Places(shifted, n, period, c, x, y)
                      /\ OnFor(Time(shifted, x, period), Time(shifted, y, period), period) = duties[c]
      BY <2>2 DEF Drives
    <3>2. PICK a, b : a = Time(shifted, x, period) /\ b = Time(shifted, y, period)
      OBVIOUS
    <3>3. GoesAt(merged, k, period, c, a, b)
      BY <2>3, <3>1, <3>2
    <3>4. OnFor(a, b, period) = duties[c]
      BY <3>1, <3>2
    <3>5. Steady(p, k, c, OnFor(a, b, period))
      BY <1>10, <3>3
    <3> QED BY <3>4, <3>5
  <2> QED BY <1>4, <1>10, <1>11, <2>4, <2>5 DEF PutsOut
<1> QED BY <1>12, <1>13

--------------------------------------------------------------------------------
(* What the handler puts out on the way through a set. *)

\* The handler stops before the empty phase that ends a set.
LEMMA RunOf ==
  ASSUME NEW phases, Usable(phases), NEW first \in 1 .. Len(phases) - 1
  PROVE  \E m \in first .. Len(phases) - 1 : RunFrom(phases, first) = SubSeq(phases, first, m)
<1>1. PICK n \in Nat : n = Len(phases) /\ n >= 2
  BY DEF Usable
<1> DEFINE stop == {i \in first .. Len(phases) : phases[i].ticks >= SHORT}
<1>2. n - 1 \in stop
  BY <1>1 DEF Usable
<1>3. stop \subseteq Nat /\ stop \subseteq first .. n
  BY <1>1
<1>4. RunFrom(phases, first) = SubSeq(phases, first, IF stop = {} THEN Len(phases) ELSE Min(stop))
  BY DEF RunFrom
<1> HIDE DEF stop
<1>5. Min(stop) \in stop /\ Min(stop) <= n - 1
  <2>1. \E x \in stop : \A y \in stop : x <= y
    BY <1>2, <1>3, LeastNumber
  <2>2. Min(stop) \in stop /\ \A y \in stop : Min(stop) <= y
    BY <2>1 DEF Min
  <2> QED BY <1>2, <2>2
<1>6. Min(stop) \in first .. n - 1
  <2>1. Min(stop) \in first .. n /\ Min(stop) \in Nat
    BY <1>3, <1>5
  <2> QED BY <1>1, <1>5, <2>1
<1>7. RunFrom(phases, first) = SubSeq(phases, first, Min(stop))
  BY <1>2, <1>4
<1> QED BY <1>1, <1>6, <1>7

\* The handler stops within the phases.
LEMMA RunStops ==
  ASSUME NEW phases, Usable(phases), NEW first \in 1 .. Len(phases) - 1
  PROVE  first + Len(RunFrom(phases, first)) \in 1 .. Len(phases)
<1>1. PICK n \in Nat : n = Len(phases) /\ n >= 2 /\ phases \in Seq(Timed)
  BY DEF Usable
<1>2. PICK m \in first .. n - 1 : RunFrom(phases, first) = SubSeq(phases, first, m)
  BY <1>1, RunOf
<1>3. Len(SubSeq(phases, first, m)) = m - first + 1
  BY <1>1
<1> QED BY <1>1, <1>2, <1>3

Written(was, p) ==
  LET up == [c \in Channels |-> (was.levels[c] \/ c \in p.on_mask) /\ c \notin p.off_mask]
  IN  [levels |-> up,
       times  |-> [c \in Channels |-> was.times[c] + (IF up[c] THEN p.ticks + 1 ELSE 0)]]

Unfolds(after, run, r, levels, times) ==
  /\ after = [i \in 0 .. r |-> IF i = 0 THEN [levels |-> levels, times |-> times]
                               ELSE Written(after[i - 1], run[i])]
  /\ OnTime(run, levels, times) = after[r]

\* The fold behind OnTime, unfolded.
LEMMA OnTimeUnfolds ==
  ASSUME NEW run, NEW r \in Nat, r = Len(run), NEW levels, NEW times
  PROVE  \E after : Unfolds(after, run, r, levels, times)
<1> DEFINE start == [levels |-> levels, times |-> times]
           Upto(n, f) == f = [i \in 0 .. n |-> IF i = 0 THEN start ELSE Written(f[i - 1], run[i])]
           S == {n \in 0 .. r : \E f : Upto(n, f)}
<1>1. 0 \in S
  <2> DEFINE f == [i \in 0 .. 0 |-> start]
  <2>1. Upto(0, f)
    OBVIOUS
  <2> HIDE DEF Upto
  <2> QED BY <2>1
<1>2. ASSUME NEW n \in 0 .. r - 1, n \in S PROVE n + 1 \in S
  <2>1. PICK f : Upto(n, f)
    BY <1>2
  <2> DEFINE g == [i \in 0 .. n + 1 |-> IF i = n + 1 THEN Written(f[n], run[n + 1]) ELSE f[i]]
  <2>2. ASSUME NEW i \in 0 .. n + 1
        PROVE  g[i] = IF i = 0 THEN start ELSE Written(g[i - 1], run[i])
    <3>1. CASE i = n + 1
      <4>1. g[i] = Written(f[n], run[n + 1]) /\ g[i - 1] = f[n] /\ i # 0
        BY <3>1
      <4> QED BY <3>1, <4>1
    <3>2. CASE i \in 0 .. n
      <4>1. g[i] = f[i]
        BY <3>2
      <4>2. f[i] = IF i = 0 THEN start ELSE Written(f[i - 1], run[i])
        BY <2>1, <3>2
      <4>3. i # 0 => g[i - 1] = f[i - 1]
        BY <3>2
      <4> QED BY <4>1, <4>2, <4>3
    <3> QED BY <3>1, <3>2
  <2>3. Upto(n + 1, g)
    BY <2>2
  <2>4. n + 1 \in 0 .. r
    OBVIOUS
  <2> HIDE DEF Upto, g
  <2> QED BY <2>3, <2>4
<1>3. r \in S
  <2> HIDE DEF S
  <2>1. 0 .. r \subseteq S
    BY <1>1, <1>2, UpTo
  <2> QED BY <2>1
<1>4. \E f : Upto(r, f)
  BY <1>3
<1> DEFINE after == CHOOSE f : f = [i \in 0 .. Len(run) |->
                                      IF i = 0 THEN start ELSE Written(f[i - 1], run[i])]
<1>5. after = [i \in 0 .. r |-> IF i = 0 THEN start ELSE Written(after[i - 1], run[i])]
  <2> HIDE DEF start
  <2> QED BY <1>4
<1>6. OnTime(run, levels, times) = after[r]
  BY DEF OnTime, Written
<1> HIDE DEF after
<1> QED BY <1>5, <1>6 DEF Unfolds

\* Levels and times of a channel that r phases after b are written out to.
WrittenOut(phases, c, b, r, highs, done) ==
  \A i \in 1 .. r :
    /\ i \in highs <=> /\ i - 1 \in highs \/ c \in phases[b + i].on_mask
                       /\ c \notin phases[b + i].off_mask
    /\ done[i] = done[i - 1] + (IF i \in highs THEN phases[b + i].ticks + 1 ELSE 0)

FollowsCourse(phases, c, b, r, highs, done, ups, sums) ==
  /\ (0 \in highs <=> b \in ups) => (r \in highs <=> b + r \in ups)
  /\ (0 \in highs <=> b \in ups) /\ done[0] = sums[b] => done[r] = sums[b + r]
  /\ (\E i \in 1 .. r : c \in phases[b + i].on_mask \cup phases[b + i].off_mask)
       => (r \in highs <=> b + r \in ups)

\* What is written out follows the course, phase by phase.
LEMMA CourseFollowed ==
  ASSUME NEW phases, NEW n \in Nat, NEW c, NEW ups, NEW sums, Course(phases, n, c, ups, sums),
         NEW b \in Nat, NEW r \in Nat, b + r <= n,
         NEW highs, NEW done, WrittenOut(phases, c, b, r, highs, done)
  PROVE  FollowsCourse(phases, c, b, r, highs, done, ups, sums)
<1> DEFINE Same(i) == i \in highs <=> b + i \in ups
           S == {i \in 0 .. r :
                  /\ Same(0) => Same(i)
                  /\ Same(0) /\ done[0] = sums[b] => done[i] = sums[b + i]
                  /\ (\E j \in 1 .. i : c \in phases[b + j].on_mask \cup phases[b + j].off_mask)
                       => Same(i)}
<1>1. 0 \in S
  BY b + 0 = b
<1>2. ASSUME NEW i \in 0 .. r - 1, i \in S PROVE i + 1 \in S
  <2>1. PICK k \in 1 .. r : k = i + 1 /\ k - 1 = i
    OBVIOUS
  <2>2. PICK a \in 1 .. n : a = b + k /\ a - 1 = b + i
    <3>1. b + k \in 1 .. n /\ (b + k) - 1 = b + i
      BY <2>1
    <3> QED BY <3>1
  <2>3. /\ a \in ups <=> (a - 1 \in ups \/ c \in phases[a].on_mask) /\ c \notin phases[a].off_mask
        /\ sums[a] = sums[a - 1] + (IF a \in ups THEN phases[a].ticks + 1 ELSE 0)
    BY DEF Course
  <2>4. /\ k \in highs <=> (i \in highs \/ c \in phases[a].on_mask) /\ c \notin phases[a].off_mask
        /\ done[k] = done[i] + (IF k \in highs THEN phases[a].ticks + 1 ELSE 0)
    BY <2>1, <2>2 DEF WrittenOut
  <2>5. Same(i) <=> (i \in highs <=> a - 1 \in ups)
    BY <2>2
  <2>6. Same(k) <=> (k \in highs <=> a \in ups)
    BY <2>2
  <2>7. /\ Same(0) => Same(i)
        /\ Same(0) /\ done[0] = sums[b] => done[i] = sums[a - 1]
        /\ (\E j \in 1 .. i : c \in phases[b + j].on_mask \cup phases[b + j].off_mask) => Same(i)
    BY <1>2, <2>2
  <2> HIDE DEF Same
  <2>8. Same(i) => Same(k)
    BY <2>3, <2>4, <2>5, <2>6
  <2>9. c \in phases[a].on_mask \cup phases[a].off_mask => Same(k)
    BY <2>3, <2>4, <2>6
  <2>10. Same(0) /\ done[0] = sums[b] => done[k] = sums[a]
    <3>1. SUFFICES ASSUME Same(0), done[0] = sums[b] PROVE done[k] = sums[a]
      OBVIOUS
    <3>2. Same(k) /\ done[i] = sums[a - 1]
      BY <2>7, <2>8, <3>1
    <3> QED BY <2>3, <2>4, <2>6, <3>2
  <2>11. (\E j \in 1 .. k : c \in phases[b + j].on_mask \cup phases[b + j].off_mask) => Same(k)
    <3>1. SUFFICES ASSUME NEW j \in 1 .. k, c \in phases[b + j].on_mask \cup phases[b + j].off_mask
                   PROVE  Same(k)
      OBVIOUS
    <3>2. j = k \/ j \in 1 .. i
      BY <2>1
    <3> QED BY <2>2, <2>7, <2>8, <2>9, <3>1, <3>2
  <2>12. k \in 0 .. r
    OBVIOUS
  <2> QED BY <2>1, <2>2, <2>7, <2>8, <2>10, <2>11, <2>12
<1>3. r \in S
  <2> HIDE DEF S
  <2>1. 0 .. r \subseteq S
    BY <1>1, <1>2, UpTo
  <2> QED BY <2>1
<1>4. Same(0) <=> (0 \in highs <=> b \in ups)
  BY b + 0 = b
<1> QED BY <1>3, <1>4 DEF FollowsCourse

\* What the handler does from one phase to the one that it sets the timer for.
RunsOut(phases, n, first, m, levels, times, result) ==
  /\ result.levels \in [Channels -> BOOLEAN] /\ result.times \in [Channels -> Int]
  /\ \A c \in Channels : \A ups, sums : Course(phases, n, c, ups, sums) =>
       /\ (levels[c] <=> first - 1 \in ups) => (result.levels[c] <=> m \in ups)
       /\ (levels[c] <=> first - 1 \in ups) /\ times[c] = sums[first - 1]
            => result.times[c] = sums[m]
       /\ (\E i \in first .. m : c \in phases[i].on_mask \cup phases[i].off_mask)
            => (result.levels[c] <=> m \in ups)

\* So it does over one run of the handler.
LEMMA RunOut ==
  ASSUME NEW phases \in Seq(Timed), NEW n \in Nat, Len(phases) = n + 1,
         NEW first \in 1 .. n, NEW m \in first .. n, NEW run, run = SubSeq(phases, first, m),
         NEW levels \in [Channels -> BOOLEAN], NEW times \in [Channels -> Int],
         NEW result, result = OnTime(run, levels, times)
  PROVE  RunsOut(phases, n, first, m, levels, times, result)
<1>1. PICK r \in Nat, b \in Nat : b = first - 1 /\ r = m - b /\ b + r = m /\ r >= 1 /\ b + 1 = first
  <2>1. first - 1 \in Nat /\ m - (first - 1) \in Nat /\ m - (first - 1) >= 1
        /\ (first - 1) + (m - (first - 1)) = m /\ (first - 1) + 1 = first
    OBVIOUS
  <2> QED BY <2>1
<1>2. Len(run) = r /\ \A i \in 1 .. r : run[i] = phases[b + i]
  <2>1. Len(run) = r
    BY <1>1
  <2>2. \A i \in 1 .. m - first + 1 : run[i] = phases[first + i - 1]
    OBVIOUS
  <2>3. \A i \in 1 .. r : i \in 1 .. m - first + 1 /\ first + i - 1 = b + i
    BY <1>1
  <2> QED BY <2>1, <2>2, <2>3
<1>3. \A i \in 1 .. r : phases[b + i].ticks \in Nat
  <2>1. \A i \in 1 .. r : b + i \in 1 .. Len(phases)
    BY <1>1
  <2>2. \A i \in 1 .. r : phases[b + i] \in Timed
    BY <2>1
  <2> QED BY <2>2 DEF Timed
<1>4. PICK after : Unfolds(after, run, r, levels, times)
  <2>1. r = Len(run)
    BY <1>2
  <2> QED BY <2>1, OnTimeUnfolds
<1>5. after[0].levels = levels /\ after[0].times = times /\ result = after[r]
  BY <1>4 DEF Unfolds
<1>6. \A i \in 1 .. r : after[i] = Written(after[i - 1], phases[b + i])
  <2>1. \A i \in 1 .. r : i \in 0 .. r /\ i # 0
    OBVIOUS
  <2> QED BY <1>2, <1>4, <2>1 DEF Unfolds
<1>7. ASSUME NEW was, NEW p
      PROVE  /\ Written(was, p).levels \in [Channels -> BOOLEAN]
             /\ \A c \in Channels :
                  /\ Written(was, p).levels[c] <=>
                       (was.levels[c] \/ c \in p.on_mask) /\ c \notin p.off_mask
                  /\ Written(was, p).times[c] =
                       was.times[c] + (IF Written(was, p).levels[c] THEN p.ticks + 1 ELSE 0)
             /\ was.times \in [Channels -> Int] /\ p.ticks \in Nat =>
                  Written(was, p).times \in [Channels -> Int]
  <2> DEFINE up == [c \in Channels |-> (was.levels[c] \/ c \in p.on_mask) /\ c \notin p.off_mask]
             on == [c \in Channels |-> was.times[c] + (IF up[c] THEN p.ticks + 1 ELSE 0)]
  <2>1. Written(was, p) = [levels |-> up, times |-> on]
    BY DEF Written
  <2>2. Written(was, p).levels = up /\ Written(was, p).times = on
    BY <2>1
  <2>3. up \in [Channels -> BOOLEAN]
    OBVIOUS
  <2>4. \A c \in Channels : up[c] <=> (was.levels[c] \/ c \in p.on_mask) /\ c \notin p.off_mask
    OBVIOUS
  <2> HIDE DEF up
  <2>5. \A c \in Channels : on[c] = was.times[c] + (IF up[c] THEN p.ticks + 1 ELSE 0)
    OBVIOUS
  <2>6. was.times \in [Channels -> Int] /\ p.ticks \in Nat => on \in [Channels -> Int]
    OBVIOUS
  <2> HIDE DEF on
  <2> QED BY <2>2, <2>3, <2>4, <2>5, <2>6
<1>8. after[r].levels \in [Channels -> BOOLEAN] /\ after[r].times \in [Channels -> Int]
  <2> DEFINE S == {i \in 0 .. r : after[i].times \in [Channels -> Int]}
  <2>1. 0 \in S
    BY <1>5
  <2>2. ASSUME NEW i \in 0 .. r - 1, i \in S PROVE i + 1 \in S
    <3>1. i + 1 \in 1 .. r /\ (i + 1) - 1 = i
      OBVIOUS
    <3>2. after[i + 1] = Written(after[i], phases[b + (i + 1)])
      BY <1>6, <3>1
    <3>3. after[i + 1].times \in [Channels -> Int]
      <4>1. PICK was, p : was = after[i] /\ p = phases[b + (i + 1)]
        OBVIOUS
      <4>2. was.times \in [Channels -> Int] /\ p.ticks \in Nat
        BY <1>3, <2>2, <3>1, <4>1
      <4>3. Written(was, p).times \in [Channels -> Int]
        BY <1>7, <4>2
      <4> QED BY <3>2, <4>1, <4>3
    <3> QED BY <3>1, <3>3
  <2>3. r \in S
    <3> HIDE DEF S
    <3>1. 0 .. r \subseteq S
      BY <2>1, <2>2, UpTo
    <3> QED BY <3>1
  <2>4. after[r] = Written(after[r - 1], phases[b + r])
    BY <1>1, <1>6
  <2> QED BY <1>7, <2>3, <2>4
<1>9. ASSUME NEW c \in Channels, NEW ups, NEW sums, Course(phases, n, c, ups, sums)
      PROVE  /\ (levels[c] <=> first - 1 \in ups) => (result.levels[c] <=> m \in ups)
             /\ (levels[c] <=> first - 1 \in ups) /\ times[c] = sums[first - 1]
                  => result.times[c] = sums[m]
             /\ (\E i \in first .. m : c \in phases[i].on_mask \cup phases[i].off_mask)
                  => (result.levels[c] <=> m \in ups)
  <2>1. PICK highs, done : /\ highs = {i \in 0 .. r : after[i].levels[c]}
                           /\ done = [i \in 0 .. r |-> after[i].times[c]]
    OBVIOUS
  <2>2. /\ 0 \in highs <=> levels[c]
        /\ r \in highs <=> after[r].levels[c]
        /\ done[0] = times[c] /\ done[r] = after[r].times[c]
    BY <1>5, <2>1
  <2>3. ASSUME NEW i \in 1 .. r
        PROVE  /\ i \in highs <=> /\ i - 1 \in highs \/ c \in phases[b + i].on_mask
                                  /\ c \notin phases[b + i].off_mask
               /\ done[i] = done[i - 1] + (IF i \in highs THEN phases[b + i].ticks + 1 ELSE 0)
    <3>1. i \in 0 .. r /\ i - 1 \in 0 .. r
      OBVIOUS
    <3>2. /\ i \in highs <=> after[i].levels[c]
          /\ i - 1 \in highs <=> after[i - 1].levels[c]
          /\ done[i] = after[i].times[c] /\ done[i - 1] = after[i - 1].times[c]
      BY <2>1, <3>1
    <3>3. PICK was, p : was = after[i - 1] /\ p = phases[b + i] /\ after[i] = Written(was, p)
      BY <1>6
    <3>4. /\ after[i].levels[c] <=> (was.levels[c] \/ c \in p.on_mask) /\ c \notin p.off_mask
          /\ after[i].times[c] = was.times[c] + (IF after[i].levels[c] THEN p.ticks + 1 ELSE 0)
      BY <1>7, <3>3
    <3>5. i \in highs <=> (i - 1 \in highs \/ c \in p.on_mask) /\ c \notin p.off_mask
      BY <3>2, <3>3, <3>4
    <3>6. done[i] = done[i - 1] + (IF i \in highs THEN p.ticks + 1 ELSE 0)
      BY <3>2, <3>3, <3>4
    <3> QED BY <3>3, <3>5, <3>6
  <2>4. /\ (0 \in highs <=> b \in ups) => (r \in highs <=> b + r \in ups)
        /\ (0 \in highs <=> b \in ups) /\ done[0] = sums[b] => done[r] = sums[b + r]
        /\ (\E i \in 1 .. r : c \in phases[b + i].on_mask \cup phases[b + i].off_mask)
             => (r \in highs <=> b + r \in ups)
    <3>1. b + r <= n
      BY <1>1
    <3>2. WrittenOut(phases, c, b, r, highs, done)
      BY <2>3 DEF WrittenOut
    <3>3. FollowsCourse(phases, c, b, r, highs, done, ups, sums)
      BY <1>9, <3>1, <3>2, CourseFollowed
    <3> QED BY <3>3, Zenon DEF FollowsCourse
  <2>5. (\E i \in first .. m : c \in phases[i].on_mask \cup phases[i].off_mask) =>
          \E i \in 1 .. r : c \in phases[b + i].on_mask \cup phases[b + i].off_mask
    <3>1. SUFFICES ASSUME NEW i \in first .. m, c \in phases[i].on_mask \cup phases[i].off_mask
                   PROVE  \E j \in 1 .. r : c \in phases[b + j].on_mask \cup phases[b + j].off_mask
      OBVIOUS
    <3>2. i - b \in 1 .. r /\ b + (i - b) = i
      BY <1>1
    <3> QED BY <3>1, <3>2
  <2> QED BY <1>1, <1>5, <2>2, <2>4, <2>5
<1> QED BY <1>5, <1>8, <1>9 DEF RunsOut

--------------------------------------------------------------------------------
(* What the handler knows of every channel at phase k of a set: nothing in the rest *)
(* of a cycle that it came into, in the first whole one its level once a phase has  *)
(* set it, then its level and for how long it was on.                               *)

Held(set, k, levels, times, whole) ==
  \A c \in Channels : \E ups, sums :
    /\ Course(set.phases, Len(set.phases) - 1, c, ups, sums)
    /\ sums[Len(set.phases) - 1] = set.duties[c]
    /\ whole = 0 /\ (\E i \in 1 .. k - 1 : c \in set.phases[i].on_mask \cup set.phases[i].off_mask)
         => (levels[c] <=> k - 1 \in ups)
    /\ whole = 1 => (levels[c] <=> k - 1 \in ups) /\ times[c] = sums[k - 1]

\* What is known of every channel is still so after a run of the handler.
LEMMA RunHeld ==
  ASSUME NEW set, Usable(set.phases), NEW k \in 1 .. Len(set.phases) - 1,
         NEW run, run = RunFrom(set.phases, k),
         NEW levels \in [Channels -> BOOLEAN], NEW times \in [Channels -> Int],
         NEW result, result = OnTime(run, levels, times),
         NEW whole, Held(set, k, levels, times, whole)
  PROVE  /\ result.levels \in [Channels -> BOOLEAN] /\ result.times \in [Channels -> Int]
         /\ Held(set, k + Len(run), result.levels, result.times, whole)
<1>1. PICK phases \in Seq(Timed), n \in Nat : phases = set.phases /\ n = Len(phases) - 1
                                              /\ Len(phases) = n + 1
  <2>1. set.phases \in Seq(Timed) /\ Len(set.phases) \in Nat /\ Len(set.phases) >= 2
    BY DEF Usable
  <2>2. Len(set.phases) - 1 \in Nat /\ Len(set.phases) = (Len(set.phases) - 1) + 1
    BY <2>1
  <2> QED BY <2>1, <2>2
<1>2. PICK m \in k .. n : run = SubSeq(phases, k, m)
  BY <1>1, RunOf
<1>3. k + Len(run) = m + 1 /\ k \in 1 .. n
  <2>1. k \in 1 .. n
    BY <1>1
  <2>2. Len(SubSeq(phases, k, m)) = m - k + 1
    BY <1>1, <2>1
  <2> QED BY <1>2, <2>1, <2>2
<1>4. /\ result.levels \in [Channels -> BOOLEAN] /\ result.times \in [Channels -> Int]
      /\ \A c \in Channels : \A ups, sums : Course(phases, n, c, ups, sums) =>
           /\ (levels[c] <=> k - 1 \in ups) => (result.levels[c] <=> m \in ups)
           /\ (levels[c] <=> k - 1 \in ups) /\ times[c] = sums[k - 1] => result.times[c] = sums[m]
           /\ (\E i \in k .. m : c \in phases[i].on_mask \cup phases[i].off_mask)
                => (result.levels[c] <=> m \in ups)
  <2>1. RunsOut(phases, n, k, m, levels, times, result)
    BY <1>1, <1>2, <1>3, RunOut
  <2> QED BY <2>1, Zenon DEF RunsOut
<1>5. ASSUME NEW c \in Channels
      PROVE  \E ups, sums :
               /\ Course(phases, n, c, ups, sums)
               /\ sums[n] = set.duties[c]
               /\ whole = 0 /\ (\E i \in 1 .. m : c \in phases[i].on_mask \cup phases[i].off_mask)
                    => (result.levels[c] <=> m \in ups)
               /\ whole = 1 => (result.levels[c] <=> m \in ups) /\ result.times[c] = sums[m]
  <2>1. PICK ups, sums :
          /\ Course(phases, n, c, ups, sums)
          /\ sums[n] = set.duties[c]
          /\ whole = 0 /\ (\E i \in 1 .. k - 1 : c \in phases[i].on_mask \cup phases[i].off_mask)
               => (levels[c] <=> k - 1 \in ups)
          /\ whole = 1 => (levels[c] <=> k - 1 \in ups) /\ times[c] = sums[k - 1]
    BY <1>1 DEF Held
  <2>2. /\ (levels[c] <=> k - 1 \in ups) => (result.levels[c] <=> m \in ups)
        /\ (levels[c] <=> k - 1 \in ups) /\ times[c] = sums[k - 1] => result.times[c] = sums[m]
        /\ (\E i \in k .. m : c \in phases[i].on_mask \cup phases[i].off_mask)
             => (result.levels[c] <=> m \in ups)
    BY <1>4, <2>1
  <2>3. ASSUME whole = 0, NEW i \in 1 .. m, c \in phases[i].on_mask \cup phases[i].off_mask
        PROVE  result.levels[c] <=> m \in ups
    <3>1. i \in 1 .. k - 1 \/ i \in k .. m
      BY <1>3
    <3>2. CASE i \in 1 .. k - 1
      BY <2>1, <2>2, <2>3, <3>2
    <3>3. CASE i \in k .. m
      BY <2>2, <2>3, <3>3
    <3> QED BY <3>1, <3>2, <3>3
  <2>4. whole = 1 => (result.levels[c] <=> m \in ups) /\ result.times[c] = sums[m]
    BY <2>1, <2>2
  <2> QED BY <2>1, <2>3, <2>4
<1>6. Held(set, m + 1, result.levels, result.times, whole)
  <2>1. (m + 1) - 1 = m
    BY <1>3
  <2> QED BY <1>1, <1>5, <2>1 DEF Held
<1> QED BY <1>3, <1>4, <1>6

\* A cycle that ends, in the same set and in another.
LEMMA CycleHeld ==
  ASSUME NEW set, Usable(set.phases), PutsOut(set.phases, set.period, set.duties),
         NEW levels, NEW times
  PROVE  /\ Held(set, 1, levels, Rest, 0)
         /\ \A k : Held(set, k, levels, times, -1)
         /\ \A whole \in {0, 1} :
              Held(set, Len(set.phases), levels, times, whole) => Held(set, 1, levels, Rest, 1)
<1>1. PICK phases \in Seq(Timed), n \in Nat : phases = set.phases /\ n = Len(phases) - 1 /\ n >= 1
  <2>1. set.phases \in Seq(Timed) /\ Len(set.phases) - 1 \in Nat /\ Len(set.phases) - 1 >= 1
    BY DEF Usable
  <2> QED BY <2>1
<1>2. \A c \in Channels : /\ \E ups, sums : Course(phases, n, c, ups, sums) /\ sums[n] = set.duties[c]
                          /\ \E i \in 1 .. n : c \in phases[i].on_mask \cup phases[i].off_mask
  BY <1>1 DEF PutsOut, Steady
<1>3. Held(set, 1, levels, Rest, 0)
  <2>1. \A i : i \notin 1 .. 1 - 1
    OBVIOUS
  <2> QED BY <1>1, <1>2, <2>1 DEF Held
<1>4. ASSUME NEW k PROVE Held(set, k, levels, times, -1)
  <2>1. -1 # 0 /\ -1 # 1
    OBVIOUS
  <2> QED BY <1>1, <1>2, <2>1 DEF Held
<1>5. ASSUME NEW whole \in {0, 1}, Held(set, Len(set.phases), levels, times, whole)
      PROVE  Held(set, 1, levels, Rest, 1)
  <2>1. ASSUME NEW c \in Channels
        PROVE  \E ups, sums : /\ Course(phases, n, c, ups, sums)
                              /\ sums[n] = set.duties[c]
                              /\ (levels[c] <=> 0 \in ups) /\ Rest[c] = sums[0]
    <3>1. PICK ups, sums :
            /\ Course(phases, n, c, ups, sums)
            /\ sums[n] = set.duties[c]
            /\ whole = 0 /\ (\E i \in 1 .. n : c \in phases[i].on_mask \cup phases[i].off_mask)
                 => (levels[c] <=> n \in ups)
            /\ whole = 1 => (levels[c] <=> n \in ups)
      BY <1>1, <1>5 DEF Held
    <3>2. levels[c] <=> n \in ups
      BY <1>2, <3>1
    <3>3. (0 \in ups <=> n \in ups) /\ sums[0] = 0
      BY <3>1 DEF Course
    <3>4. Rest[c] = 0
      BY DEF Rest
    <3> QED BY <3>1, <3>2, <3>3, <3>4
  <2>2. 1 - 1 = 0 /\ 1 # 0
    OBVIOUS
  <2> QED BY <1>1, <2>1, <2>2 DEF Held
<1> QED BY <1>3, <1>4, <1>5

--------------------------------------------------------------------------------
(* The three sets. *)

Sets == [phases : Seq(Timed), period : Nat, duties : [Channels -> Nat]]

PwmTypes ==
  /\ phase_sets \in [1 .. 3 -> Sets]
  /\ current_phase \in 0 .. 3 /\ next_phase \in 0 .. 3 /\ target \in 1 .. 3
  /\ current_duties \in [Channels -> Nat]
  /\ current_period = 0 \/ Long(current_period)
  /\ current_period = 0 => applying = "no"
  /\ applying \in {"no", "preparing", "prepared"}

\* apply_config writes to a set that the handler neither is in nor goes on to.
SetsApart ==
  /\ applying # "no" => target # current_phase /\ target # next_phase
  /\ applying = "prepared" => Usable(phase_sets[target].phases)

\* The handler is in a set that it can run through, and goes on to one.
HandlerSafe ==
  timer # "off" =>
    /\ current_phase # 0 /\ next_phase # 0
    /\ Usable(phase_sets[current_phase].phases) /\ Usable(phase_sets[next_phase].phases)
    /\ current_phase_no \in 1 .. Len(phase_sets[current_phase].phases)

PwmInv == PwmTypes /\ SetsApart /\ HandlerSafe

\* What goes on after this cycle is the last configuration that was asked for.
LastApplied ==
  /\ applying = "prepared" => /\ phase_sets[target].duties = current_duties
                              /\ phase_sets[target].period = current_period
  /\ applying = "no" /\ timer # "off" => /\ phase_sets[next_phase].duties = current_duties
                                         /\ phase_sets[next_phase].period = current_period

PwmSafe == PwmInv /\ LastApplied

LEMMA UnsetTyped == Unset \in Sets /\ Unset.phases = << >>
BY DEF Unset, Sets

LEMMA PwmStarts == PwmInit => PwmSafe
<1> SUFFICES ASSUME PwmInit PROVE PwmSafe
  OBVIOUS
<1>1. phase_sets \in [1 .. 3 -> Sets]
  BY UnsetTyped DEF PwmInit
<1>2. current_duties \in [Channels -> Nat]
  BY DEF PwmInit, Rest
<1> QED BY <1>1, <1>2 DEF PwmInit, PwmSafe, PwmInv, PwmTypes, SetsApart, HandlerSafe, LastApplied

\* The free set is neither the one being put out nor the one that comes next.
LEMMA FreeSetFree ==
  FreeSet \in 1 .. 3 /\ FreeSet # current_phase /\ FreeSet # next_phase
BY DEF FreeSet

\* A call that chooses a set for a new configuration.
LEMMA ChoosingSafe ==
  ASSUME PwmSafe, ChooseSet, applying = "no",
         current_duties' \in [Channels -> Nat], Long(current_period'),
         UNCHANGED <<current_phase, next_phase, current_phase_no, timer>>
  PROVE  PwmSafe'
<1>1. /\ phase_sets' = [phase_sets EXCEPT ![FreeSet] = Unset] /\ applying' = "preparing"
      /\ target' = FreeSet
  BY DEF ChooseSet
<1>2. PwmTypes'
  <2>1. phase_sets' \in [1 .. 3 -> Sets]
    BY <1>1, UnsetTyped, FreeSetFree DEF PwmSafe, PwmInv, PwmTypes
  <2>2. current_period' # 0
    BY PwmAssumption DEF Long
  <2> QED BY <1>1, <2>1, <2>2, FreeSetFree DEF PwmSafe, PwmInv, PwmTypes
<1>3. SetsApart'
  BY <1>1, FreeSetFree DEF SetsApart
<1>4. HandlerSafe'
  <2>1. \A n \in 1 .. 3 : n # FreeSet => phase_sets'[n] = phase_sets[n]
    BY <1>1 DEF PwmSafe, PwmInv, PwmTypes
  <2>2. \A n \in {current_phase, next_phase} : n # 0 => n \in 1 .. 3
    BY DEF PwmSafe, PwmInv, PwmTypes
  <2> QED BY <2>1, <2>2, FreeSetFree DEF PwmSafe, PwmInv, HandlerSafe
<1>5. LastApplied'
  BY <1>1 DEF LastApplied
<1> QED BY <1>2, <1>3, <1>4, <1>5 DEF PwmSafe, PwmInv

LEMMA SetupSafe == PwmSafe /\ pwm_setup => PwmSafe'
<1> SUFFICES ASSUME PwmSafe, pwm_setup PROVE PwmSafe'
  OBVIOUS
<1>1. current_duties' \in [Channels -> Nat] /\ Long(current_period')
  BY PwmAssumption DEF pwm_setup, Rest, Long
<1> QED BY <1>1, ChoosingSafe DEF pwm_setup

\* The period of a board that is set up.
LEMMA SetUpPeriod ==
  ASSUME PwmSafe, SetUp
  PROVE  /\ Long(current_period) /\ current_period \in Nat \ {0}
         /\ \A c \in Channels : current_duties[c] \in Nat
BY PwmAssumption DEF PwmSafe, PwmInv, PwmTypes, SetUp, Long

\* pwm_set_duty keeps PwmSafe.
LEMMA SetDutySafe ==
  ASSUME PwmSafe, NEW c \in Channels, NEW duty \in Percents, pwm_set_duty(c, duty)
  PROVE  PwmSafe'
<1>1. SetUp /\ current_period' = current_period
  BY DEF pwm_set_duty, Changed
<1>2. (duty * current_period) \div 100 \in Nat
  <2>1. duty \in Nat /\ current_period \in Nat
    BY <1>1, SetUpPeriod, PwmAssumption
  <2>2. duty * current_period \in Nat
    BY <2>1
  <2> QED BY <2>2
<1>3. current_duties' \in [Channels -> Nat]
  BY <1>2 DEF pwm_set_duty, Changed, PwmSafe, PwmInv, PwmTypes
<1>4. Long(current_period')
  BY <1>1, SetUpPeriod
<1> QED BY <1>3, <1>4, ChoosingSafe DEF pwm_set_duty, Changed, SetUp

\* pwm_set_freq keeps PwmSafe.
LEMMA SetFreqSafe ==
  ASSUME PwmSafe, NEW period \in Periods, pwm_set_freq(period)
  PROVE  PwmSafe'
<1>1. SetUp /\ current_period' = period
      /\ current_duties' = [c \in Channels |-> (Percent(c) * period) \div 100]
  BY DEF pwm_set_freq, Changed
<1>2. period \in Nat /\ Long(period)
  BY PwmAssumption DEF Long
<1>3. ASSUME NEW c \in Channels PROVE (Percent(c) * period) \div 100 \in Nat
  <2>1. current_duties[c] \in Nat /\ current_period \in Nat \ {0}
    BY <1>1, SetUpPeriod
  <2>2. current_duties[c] * 100 \in Nat
    BY <2>1
  <2>3. Percent(c) \in Nat
    BY <2>1, <2>2 DEF Percent
  <2>4. Percent(c) * period \in Nat
    BY <1>2, <2>3
  <2> QED BY <2>4
<1>4. current_duties' \in [Channels -> Nat] /\ Long(current_period')
  BY <1>1, <1>2, <1>3
<1> QED BY <1>4, ChoosingSafe DEF pwm_set_freq, Changed, SetUp

LEMMA PrepareSafe == PwmSafe /\ Prepare => PwmSafe'
<1> SUFFICES ASSUME PwmSafe, Prepare PROVE PwmSafe'
  OBVIOUS
<1> DEFINE new == [phases |-> prepare_phases(current_duties, current_period),
                   period |-> current_period, duties |-> current_duties]
<1>1. /\ applying = "preparing" /\ applying' = "prepared"
      /\ phase_sets' = [phase_sets EXCEPT ![target] = new]
      /\ UNCHANGED <<current_phase, next_phase, current_phase_no, timer, target,
                     current_period, current_duties>>
  BY DEF Prepare, config_vars
<1>2. Long(current_period) /\ current_period \in Nat
  BY <1>1 DEF PwmSafe, PwmInv, PwmTypes, Long
<1>3. Usable(new.phases) /\ new \in Sets
  <2>1. Usable(prepare_phases(current_duties, current_period))
    BY <1>2, PreparedUsable DEF PwmSafe, PwmInv, PwmTypes
  <2> QED BY <1>2, <2>1 DEF PwmSafe, PwmInv, PwmTypes, Usable, Sets
<1>4. new.duties = current_duties /\ new.period = current_period
  OBVIOUS
<1> HIDE DEF new
<1>5. target \in 1 .. 3 /\ target # current_phase /\ target # next_phase
  BY <1>1 DEF PwmSafe, PwmInv, PwmTypes, SetsApart
<1>6. /\ phase_sets'[target] = new
      /\ \A n \in 1 .. 3 : n # target => phase_sets'[n] = phase_sets[n]
  BY <1>1, <1>5 DEF PwmSafe, PwmInv, PwmTypes
<1>7. PwmTypes'
  <2>1. phase_sets' \in [1 .. 3 -> Sets]
    BY <1>1, <1>3 DEF PwmSafe, PwmInv, PwmTypes
  <2>2. current_period # 0
    BY <1>1 DEF PwmSafe, PwmInv, PwmTypes
  <2> QED BY <1>1, <2>1, <2>2 DEF PwmSafe, PwmInv, PwmTypes
<1>8. SetsApart'
  BY <1>1, <1>3, <1>5, <1>6 DEF SetsApart
<1>9. HandlerSafe'
  <2>1. \A n \in {current_phase, next_phase} : n # 0 => n \in 1 .. 3
    BY DEF PwmSafe, PwmInv, PwmTypes
  <2> QED BY <1>1, <1>5, <1>6, <2>1 DEF PwmSafe, PwmInv, HandlerSafe
<1>10. LastApplied'
  BY <1>1, <1>4, <1>6 DEF LastApplied
<1> QED BY <1>7, <1>8, <1>9, <1>10 DEF PwmSafe, PwmInv

LEMMA ApplySafe == PwmSafe /\ Apply => PwmSafe'
<1> SUFFICES ASSUME PwmSafe, Apply PROVE PwmSafe'
  OBVIOUS
<1> DEFINE phases == phase_sets[target].phases
           phase_count == Len(phases) - 1
<1>1. /\ applying = "prepared" /\ applying' = "no"
      /\ UNCHANGED <<phase_sets, current_period, current_duties, target>>
  BY DEF Apply, config_vars
<1>2. Usable(phases) /\ target \in 1 .. 3
  BY <1>1 DEF PwmSafe, PwmInv, PwmTypes, SetsApart
<1>3. phase_count \in 1 .. Len(phases)
  BY <1>2 DEF Usable
<1>4. phase_sets[target].duties = current_duties /\ phase_sets[target].period = current_period
  BY <1>1 DEF PwmSafe, LastApplied
<1>5. CASE phase_count = 1
  <2>1. timer' = "off" /\ next_phase' = 0 /\ current_phase' = current_phase
    BY <1>5 DEF Apply
  <2>2. PwmTypes'
    BY <1>1, <2>1 DEF PwmSafe, PwmInv, PwmTypes
  <2> QED BY <1>1, <2>1, <2>2 DEF PwmSafe, PwmInv, SetsApart, HandlerSafe, LastApplied
<1>6. CASE phase_count # 1 /\ next_phase = 0
  <2>1. /\ timer' = "armed" /\ next_phase' = target /\ current_phase' = target
        /\ current_phase_no' = phase_count
    BY <1>6 DEF Apply
  <2>2. PwmTypes'
    BY <1>1, <1>2, <2>1 DEF PwmSafe, PwmInv, PwmTypes
  <2> QED BY <1>1, <1>2, <1>3, <1>4, <2>1, <2>2
          DEF PwmSafe, PwmInv, SetsApart, HandlerSafe, LastApplied
<1>7. CASE phase_count # 1 /\ next_phase # 0
  <2>1. /\ next_phase' = target
        /\ UNCHANGED <<current_phase, current_phase_no, timer>>
    BY <1>7 DEF Apply
  <2>2. PwmTypes'
    BY <1>1, <1>2, <2>1 DEF PwmSafe, PwmInv, PwmTypes
  <2> QED BY <1>1, <1>2, <1>4, <2>1, <2>2
          DEF PwmSafe, PwmInv, SetsApart, HandlerSafe, LastApplied
<1> QED BY <1>5, <1>6, <1>7

LEMMA HandlerStepSafe == PwmSafe /\ intr_handler => PwmSafe'
<1> SUFFICES ASSUME PwmSafe, intr_handler PROVE PwmSafe'
  OBVIOUS
<1> DEFINE at    == phase_sets[current_phase].phases[current_phase_no]
           wraps == at.on_mask = {} /\ at.off_mask = {}
           set   == IF wraps THEN next_phase ELSE current_phase
           first == IF wraps THEN 1 ELSE current_phase_no
           run   == RunFrom(phase_sets[set].phases, first)
<1>1. /\ timer = "armed"
      /\ UNCHANGED <<phase_sets, next_phase, current_period, current_duties, applying, target>>
  BY DEF intr_handler, config_vars
<1>2. /\ current_phase # 0 /\ next_phase # 0
      /\ Usable(phase_sets[current_phase].phases) /\ Usable(phase_sets[next_phase].phases)
      /\ current_phase_no \in 1 .. Len(phase_sets[current_phase].phases)
  BY <1>1 DEF PwmSafe, PwmInv, HandlerSafe
<1>3. CASE ~enabled
  <2>1. timer' = "idle" /\ UNCHANGED <<current_phase, current_phase_no>>
    BY <1>3 DEF intr_handler
  <2> QED BY <1>1, <1>2, <2>1
          DEF PwmSafe, PwmInv, PwmTypes, SetsApart, HandlerSafe, LastApplied
<1>4. CASE enabled
  <2>1. timer' = timer /\ current_phase' = set /\ current_phase_no' = first + Len(run)
    BY <1>4 DEF intr_handler
  <2>2. set \in {current_phase, next_phase} /\ Usable(phase_sets[set].phases)
    BY <1>2
  <2>3. first \in 1 .. Len(phase_sets[set].phases) - 1
    <3>1. CASE wraps
      BY <2>2, <3>1 DEF Usable
    <3>2. CASE ~wraps
      <4>1. current_phase_no # Len(phase_sets[current_phase].phases)
        BY <1>2, <3>2 DEF Usable
      <4>2. Len(phase_sets[current_phase].phases) \in Nat
        BY <1>2 DEF Usable
      <4> QED BY <1>2, <3>2, <4>1, <4>2
    <3> QED BY <3>1, <3>2
  <2> HIDE DEF run, set, first
  <2>4. current_phase_no' \in 1 .. Len(phase_sets[set].phases)
    BY <2>1, <2>2, <2>3, RunStops DEF run
  <2>5. PwmTypes'
    BY <1>1, <2>1, <2>2 DEF PwmSafe, PwmInv, PwmTypes
  <2>6. SetsApart'
    BY <1>1, <2>1, <2>2 DEF PwmSafe, PwmInv, SetsApart
  <2>7. HandlerSafe'
    BY <1>1, <1>2, <2>1, <2>2, <2>4 DEF HandlerSafe
  <2>8. LastApplied'
    BY <1>1, <2>1 DEF PwmSafe, LastApplied
  <2> QED BY <2>5, <2>6, <2>7, <2>8 DEF PwmSafe, PwmInv
<1> QED BY <1>3, <1>4

LEMMA PwmStep == PwmSafe /\ [PwmNext]_pwm_vars => PwmSafe'
<1> SUFFICES ASSUME PwmSafe, [PwmNext]_pwm_vars PROVE PwmSafe'
  OBVIOUS
<1> USE DEF PwmSafe, PwmInv, PwmTypes, SetsApart, HandlerSafe, LastApplied
<1>1. CASE pwm_enable \/ pwm_disable
  BY <1>1 DEF pwm_enable, pwm_disable, config_vars, shared_vars
<1>2. CASE TimerComesRound
  BY <1>2 DEF TimerComesRound, config_vars
<1>3. CASE UNCHANGED pwm_vars
  BY <1>3 DEF pwm_vars, config_vars, shared_vars
<1> HIDE DEF PwmSafe, PwmInv, PwmTypes, SetsApart, HandlerSafe, LastApplied
<1> QED BY <1>1, <1>2, <1>3, SetupSafe, SetDutySafe, SetFreqSafe, PrepareSafe, ApplySafe,
           HandlerStepSafe DEF PwmNext

\* The inductive invariant of the sets of phases.
THEOREM PwmKept == PwmSpec => []PwmSafe
BY PwmStarts, PwmStep, PTL DEF PwmSpec

\* The handler never reads past the end of the set that it is in, and never in one
\* that apply_config is writing, whenever the duties or the frequency are changed
\* and whatever they are: the third set is enough, and no configuration has a last
\* phase that the handler would wait for and run over.
THEOREM PwmReadsInRange == PwmSpec => []PhasesInRange
<1>1. PwmSafe => PhasesInRange
  BY DEF PwmSafe, PwmInv, HandlerSafe, PhasesInRange, Usable
<1> QED BY <1>1, PwmKept, PTL

\* Once apply_config has returned, the set that the handler goes on to is that of
\* the last duties and the last period, however the handler came in between.
THEOREM PwmLastApplied == PwmSpec => []LastApplied
<1>1. PwmSafe => LastApplied
  BY DEF PwmSafe
<1> QED BY <1>1, PwmKept, PTL

--------------------------------------------------------------------------------
(* What the outputs do, whenever the set is changed. *)

SetPutsOut(set) == PutsOut(set.phases, set.period, set.duties)

OutTypes ==
  level \in [Channels -> BOOLEAN] /\ on_time \in [Channels -> Int] /\ cycle \in {-1, 0, 1}

DutiesFit == \A c \in Channels : current_duties[c] <= current_period

\* The sets that are put out, or go on to be.
SetsOut ==
  /\ applying = "prepared" => SetPutsOut(phase_sets[target])
  /\ timer = "off" => next_phase = 0
  /\ timer # "off" => SetPutsOut(phase_sets[current_phase]) /\ SetPutsOut(phase_sets[next_phase])

WhileRunning ==
  timer # "off" => Held(phase_sets[current_phase], current_phase_no, level, on_time, cycle)

WhileOff ==
  timer = "off" /\ applying = "no" /\ current_period # 0 =>
    \A c \in Channels : current_duties[c] = IF level[c] THEN current_period ELSE 0

LastCycle == last # << >> => last[1] = last[2]

PwmOut == OutTypes /\ DutiesFit /\ SetsOut /\ WhileRunning /\ WhileOff /\ LastCycle

LEMMA PwmOutStarts == PwmInit => PwmOut
BY DEF PwmInit, Rest, PwmOut, OutTypes, DutiesFit, SetsOut, WhileRunning, WhileOff, LastCycle

\* A percentage of a period is a part of it.
LEMMA PartOf ==
  ASSUME NEW d \in 0 .. 100, NEW p \in Nat
  PROVE  (d * p) \div 100 <= p
<1>1. (100 - d) * p >= 0 /\ (100 - d) * p = 100 * p - d * p /\ d * p \in Nat
  OBVIOUS
<1>2. PICK q \in Nat : q = d * p /\ q <= 100 * p
  BY <1>1
<1>3. q \div 100 <= p
  BY <1>2
<1> QED BY <1>2, <1>3

\* And back: the duty of an on-time is a percentage.
LEMMA PercentFits ==
  ASSUME NEW a \in Nat, NEW p \in Nat \ {0}, a <= p
  PROVE  (a * 100) \div p \in 0 .. 100
<1>1. PICK x \in Nat : x = (a * 100) \div p
  OBVIOUS
<1>2. p * x <= a * 100
  BY <1>1
<1>3. x <= 100
  <2>1. SUFFICES ASSUME x >= 101 PROVE FALSE
    BY <1>1
  <2>2. p * x >= p * 101
    BY <2>1
  <2> QED BY <1>2, <2>2
<1> QED BY <1>1, <1>3

\* A call that chooses a set.
LEMMA ChoosingOut ==
  ASSUME PwmSafe, PwmOut, ChooseSet,
         \A c \in Channels : current_duties'[c] <= current_period',
         UNCHANGED <<current_phase, next_phase, current_phase_no, timer, level, history_vars>>
  PROVE  PwmOut'
<1>1. /\ phase_sets' = [phase_sets EXCEPT ![FreeSet] = Unset] /\ applying' = "preparing"
      /\ target' = FreeSet
      /\ UNCHANGED <<on_time, cycle, last>>
  BY DEF ChooseSet, history_vars
<1>2. timer # "off" => /\ phase_sets'[current_phase] = phase_sets[current_phase]
                       /\ phase_sets'[next_phase] = phase_sets[next_phase]
  <2>1. timer # "off" => current_phase \in 1 .. 3 /\ next_phase \in 1 .. 3
    BY DEF PwmSafe, PwmInv, PwmTypes, HandlerSafe
  <2>2. \A n \in 1 .. 3 : n # FreeSet => phase_sets'[n] = phase_sets[n]
    BY <1>1 DEF PwmSafe, PwmInv, PwmTypes
  <2> QED BY <2>1, <2>2, FreeSetFree
<1>3. SetsOut'
  BY <1>1, <1>2 DEF PwmOut, SetsOut
<1>4. WhileRunning'
  BY <1>1, <1>2 DEF PwmOut, WhileRunning
<1>5. OutTypes' /\ DutiesFit' /\ WhileOff' /\ LastCycle'
  BY <1>1 DEF PwmOut, OutTypes, DutiesFit, WhileOff, LastCycle
<1> QED BY <1>3, <1>4, <1>5 DEF PwmOut

LEMMA SetupOut == PwmSafe /\ PwmOut /\ pwm_setup => PwmOut'
<1> SUFFICES ASSUME PwmSafe, PwmOut, pwm_setup PROVE PwmOut'
  OBVIOUS
<1>1. \A c \in Channels : current_duties'[c] <= current_period'
  BY PwmAssumption DEF pwm_setup, Rest
<1> QED BY <1>1, ChoosingOut DEF pwm_setup

LEMMA SetDutyOut ==
  ASSUME PwmSafe, PwmOut, NEW c \in Channels, NEW duty \in Percents, pwm_set_duty(c, duty)
  PROVE  PwmOut'
<1>1. /\ SetUp /\ current_period' = current_period
      /\ current_duties' = [current_duties EXCEPT ![c] = (duty * current_period) \div 100]
  BY DEF pwm_set_duty, Changed
<1>2. (duty * current_period) \div 100 <= current_period
  BY <1>1, SetUpPeriod, PartOf, PwmAssumption
<1>3. \A d \in Channels : current_duties'[d] <= current_period'
  BY <1>1, <1>2 DEF PwmSafe, PwmInv, PwmTypes, PwmOut, DutiesFit
<1> QED BY <1>3, ChoosingOut DEF pwm_set_duty, Changed

LEMMA SetFreqOut ==
  ASSUME PwmSafe, PwmOut, NEW period \in Periods, pwm_set_freq(period)
  PROVE  PwmOut'
<1>1. /\ SetUp /\ current_period' = period
      /\ current_duties' = [c \in Channels |-> (Percent(c) * period) \div 100]
  BY DEF pwm_set_freq, Changed
<1>2. ASSUME NEW c \in Channels PROVE (Percent(c) * period) \div 100 <= period
  <2>1. Percent(c) \in 0 .. 100
    BY <1>1, SetUpPeriod, PercentFits DEF Percent, PwmOut, DutiesFit
  <2>2. period \in Nat
    BY PwmAssumption
  <2> QED BY <2>1, <2>2, PartOf
<1>3. \A c \in Channels : current_duties'[c] <= current_period'
  BY <1>1, <1>2
<1> QED BY <1>3, ChoosingOut DEF pwm_set_freq, Changed

LEMMA PrepareOut == PwmSafe /\ PwmOut /\ Prepare => PwmOut'
<1> SUFFICES ASSUME PwmSafe, PwmOut, Prepare PROVE PwmOut'
  OBVIOUS
<1> DEFINE new == [phases |-> prepare_phases(current_duties, current_period),
                   period |-> current_period, duties |-> current_duties]
<1>1. /\ applying = "preparing" /\ applying' = "prepared"
      /\ phase_sets' = [phase_sets EXCEPT ![target] = new]
      /\ UNCHANGED <<current_phase, next_phase, current_phase_no, timer, target, level,
                     current_period, current_duties, on_time, cycle, last>>
  BY DEF Prepare, config_vars, history_vars
<1>2. target \in 1 .. 3 /\ target # current_phase /\ target # next_phase
  BY <1>1 DEF PwmSafe, PwmInv, PwmTypes, SetsApart
<1>3. SetPutsOut(new)
  <2>1. Long(current_period) /\ current_duties \in [Channels -> Nat]
    BY <1>1 DEF PwmSafe, PwmInv, PwmTypes
  <2>2. PutsOut(prepare_phases(current_duties, current_period), current_period, current_duties)
    BY <2>1, PreparedPutsOut DEF PwmOut, DutiesFit
  <2> QED BY <2>2 DEF SetPutsOut
<1> HIDE DEF new
<1>4. /\ phase_sets'[target] = new
      /\ \A n \in 1 .. 3 : n # target => phase_sets'[n] = phase_sets[n]
  BY <1>1, <1>2 DEF PwmSafe, PwmInv, PwmTypes
<1>5. timer # "off" => /\ phase_sets'[current_phase] = phase_sets[current_phase]
                       /\ phase_sets'[next_phase] = phase_sets[next_phase]
  BY <1>2, <1>4 DEF PwmSafe, PwmInv, PwmTypes, HandlerSafe
<1>6. SetsOut'
  BY <1>1, <1>3, <1>4, <1>5 DEF PwmOut, SetsOut
<1>7. WhileRunning'
  BY <1>1, <1>5 DEF PwmOut, WhileRunning
<1>8. OutTypes' /\ DutiesFit' /\ WhileOff' /\ LastCycle'
  BY <1>1 DEF PwmOut, OutTypes, DutiesFit, WhileOff, LastCycle
<1> QED BY <1>6, <1>7, <1>8 DEF PwmOut

\* A set of one phase, after which no channel changes.
LEMMA OnePhaseOut ==
  ASSUME NEW set, Usable(set.phases), SetPutsOut(set), Len(set.phases) = 2, NEW c \in Channels, NEW was \in BOOLEAN
  PROVE  set.duties[c] = IF (was \/ c \in set.phases[1].on_mask) /\ c \notin set.phases[1].off_mask
                         THEN set.period ELSE 0
<1>1. PICK p \in Timed : p = set.phases[1]
  BY DEF Usable
<1>2. p.ticks + 1 = set.period /\ Steady(set.phases, 1, c, set.duties[c])
  BY <1>1 DEF SetPutsOut, PutsOut
<1>3. c \in p.on_mask \cup p.off_mask
  BY <1>1, <1>2 DEF Steady
<1>4. PICK ups, sums : Course(set.phases, 1, c, ups, sums) /\ sums[1] = set.duties[c]
  BY <1>2 DEF Steady
<1>5. /\ 0 \in ups <=> 1 \in ups
      /\ 1 \in ups <=> (0 \in ups \/ c \in p.on_mask) /\ c \notin p.off_mask
      /\ sums[1] = IF 1 \in ups THEN p.ticks + 1 ELSE 0
  <2>1. 1 - 1 = 0 /\ 1 \in 1 .. 1
    OBVIOUS
  <2>2. sums[1] = sums[0] + (IF 1 \in ups THEN p.ticks + 1 ELSE 0) /\ sums[0] = 0 /\ sums[1] \in Int
    BY <1>1, <1>4, <2>1 DEF Course
  <2>3. /\ 0 \in ups <=> 1 \in ups
        /\ 1 \in ups <=> (0 \in ups \/ c \in p.on_mask) /\ c \notin p.off_mask
    BY <1>1, <1>4, <2>1 DEF Course
  <2>4. sums[1] = IF 1 \in ups THEN p.ticks + 1 ELSE 0
    <3>1. p.ticks \in Nat
      BY DEF Timed
    <3> QED BY <2>2, <3>1
  <2> QED BY <2>3, <2>4
<1>6. 1 \in ups <=> (was \/ c \in p.on_mask) /\ c \notin p.off_mask
  BY <1>3, <1>5
<1> QED BY <1>1, <1>2, <1>4, <1>5, <1>6

LEMMA ApplyOut == PwmSafe /\ PwmOut /\ Apply => PwmOut'
<1> SUFFICES ASSUME PwmSafe, PwmOut, Apply PROVE PwmOut'
  OBVIOUS
<1>1. PICK set : set = phase_sets[target]
  OBVIOUS
<1>2. /\ applying = "prepared" /\ applying' = "no"
      /\ UNCHANGED <<phase_sets, current_period, current_duties, target>>
  BY DEF Apply, config_vars
<1>3. Usable(set.phases) /\ SetPutsOut(set) /\ set.duties = current_duties
      /\ set.period = current_period
  BY <1>1, <1>2 DEF PwmSafe, PwmInv, SetsApart, LastApplied, PwmOut, SetsOut
<1>4. DutiesFit'
  BY <1>2 DEF PwmOut, DutiesFit
<1>5. CASE Len(set.phases) - 1 = 1
  <2>1. /\ timer' = "off" /\ next_phase' = 0
        /\ Output(set.phases[1])
        /\ UNCHANGED <<on_time, cycle, last>>
    BY <1>1, <1>5 DEF Apply, history_vars
  <2>2. PICK on, off : on = set.phases[1].on_mask /\ off = set.phases[1].off_mask
    OBVIOUS
  <2>3. level' = [c \in Channels |-> (level[c] \/ c \in on) /\ c \notin off]
    BY <2>1, <2>2 DEF Output
  <2>4. OutTypes'
    BY <2>1, <2>3 DEF PwmOut, OutTypes
  <2>5. ASSUME NEW c \in Channels
        PROVE  current_duties'[c] = IF level'[c] THEN current_period' ELSE 0
    <3>1. Len(set.phases) = 2
      BY <1>3, <1>5 DEF Usable
    <3>2. PICK was \in BOOLEAN : was = level[c]
      BY DEF PwmOut, OutTypes
    <3>3. level'[c] <=> (was \/ c \in on) /\ c \notin off
      BY <2>3, <3>2
    <3>4. set.duties[c] = IF (was \/ c \in on) /\ c \notin off THEN set.period ELSE 0
      BY <1>3, <2>2, <3>1, OnePhaseOut
    <3> QED BY <1>2, <1>3, <3>3, <3>4
  <2>6. SetsOut' /\ WhileRunning' /\ WhileOff' /\ LastCycle'
    BY <1>2, <2>1, <2>5 DEF PwmOut, SetsOut, WhileRunning, WhileOff, LastCycle
  <2> QED BY <1>4, <2>4, <2>6 DEF PwmOut
<1>6. CASE Len(set.phases) - 1 # 1 /\ next_phase = 0
  <2>1. /\ timer' = "armed" /\ next_phase' = target /\ current_phase' = target
        /\ cycle' = -1 /\ on_time' = Rest /\ last' = << >> /\ level' = level
    BY <1>1, <1>6 DEF Apply
  <2>2. Rest \in [Channels -> Int]
    BY DEF Rest
  <2>3. Held(set, current_phase_no', level, Rest, -1)
    BY <1>3, CycleHeld DEF SetPutsOut
  <2>4. WhileRunning'
    BY <1>1, <1>2, <2>1, <2>3 DEF WhileRunning
  <2>5. SetsOut' /\ OutTypes' /\ WhileOff' /\ LastCycle'
    BY <1>1, <1>2, <1>3, <2>1, <2>2 DEF PwmOut, OutTypes, SetsOut, WhileOff, LastCycle
  <2> QED BY <1>4, <2>4, <2>5 DEF PwmOut
<1>7. CASE Len(set.phases) - 1 # 1 /\ next_phase # 0
  <2>1. /\ next_phase' = target
        /\ UNCHANGED <<current_phase, current_phase_no, timer, level, on_time, cycle, last>>
    BY <1>1, <1>7 DEF Apply, history_vars
  <2>2. timer # "off"
    BY <1>7 DEF PwmOut, SetsOut
  <2>3. SetsOut' /\ WhileRunning'
    BY <1>1, <1>2, <1>3, <2>1, <2>2 DEF PwmOut, SetsOut, WhileRunning
  <2>4. OutTypes' /\ WhileOff' /\ LastCycle'
    BY <1>2, <2>1, <2>2 DEF PwmOut, OutTypes, WhileOff, LastCycle
  <2> QED BY <1>4, <2>3, <2>4 DEF PwmOut
<1> QED BY <1>5, <1>6, <1>7

\* The end of a cycle in which each channel is known.
LEMMA CycleEnds ==
  ASSUME NEW set, set.duties \in [Channels -> Nat], NEW levels,
         NEW times \in [Channels -> Int], Held(set, Len(set.phases), levels, times, 1)
  PROVE  times = set.duties
<1>1. ASSUME NEW c \in Channels PROVE times[c] = set.duties[c]
  BY DEF Held
<1> QED BY <1>1

\* The handler is at the phase that ends the cycle when there is no other empty one.
LEMMA WrapsAtEnd ==
  ASSUME NEW phases, Usable(phases), Busy(phases, Len(phases) - 1), NEW k \in 1 .. Len(phases),
         phases[k].on_mask = {}, phases[k].off_mask = {}
  PROVE  k = Len(phases)
BY DEF Usable, Busy

\* A cycle of the set is over: from the second one on, every channel was on for its duty.
LEMMA WrapHeld ==
  ASSUME NEW set, Usable(set.phases), SetPutsOut(set), set.duties \in [Channels -> Nat],
         NEW k \in 1 .. Len(set.phases),
         set.phases[k].on_mask = {}, set.phases[k].off_mask = {},
         NEW levels, NEW times \in [Channels -> Int], NEW whole,
         Held(set, k, levels, times, whole)
  PROVE  /\ whole \in {0, 1} => Held(set, 1, levels, Rest, 1)
         /\ whole = 1 => times = set.duties
<1>1. CASE Channels = {}
  BY <1>1 DEF Held
<1>2. CASE Channels # {}
  <2>1. Busy(set.phases, Len(set.phases) - 1)
    BY <1>2 DEF SetPutsOut, PutsOut
  <2>2. k = Len(set.phases)
    BY <2>1, WrapsAtEnd
  <2>3. whole \in {0, 1} => Held(set, 1, levels, Rest, 1)
    BY <2>2, CycleHeld DEF SetPutsOut
  <2>4. whole = 1 => times = set.duties
    BY <2>2, CycleEnds
  <2> QED BY <2>3, <2>4
<1> QED BY <1>1, <1>2

LEMMA HandlerOut == PwmSafe /\ PwmOut /\ intr_handler => PwmOut'
<1> SUFFICES ASSUME PwmSafe, PwmOut, intr_handler PROVE PwmOut'
  OBVIOUS
<1> DEFINE at     == phase_sets[current_phase].phases[current_phase_no]
           wraps  == at.on_mask = {} /\ at.off_mask = {}
           set    == IF wraps THEN next_phase ELSE current_phase
           first  == IF wraps THEN 1 ELSE current_phase_no
           run    == RunFrom(phase_sets[set].phases, first)
           times  == IF wraps THEN Rest ELSE on_time
           result == OnTime(run, level, times)
<1>1. /\ timer = "armed"
      /\ UNCHANGED <<phase_sets, next_phase, current_period, current_duties, applying, target>>
  BY DEF intr_handler, config_vars
<1>2. /\ current_phase \in 1 .. 3 /\ next_phase \in 1 .. 3
      /\ Usable(phase_sets[current_phase].phases) /\ Usable(phase_sets[next_phase].phases)
      /\ current_phase_no \in 1 .. Len(phase_sets[current_phase].phases)
  BY <1>1 DEF PwmSafe, PwmInv, PwmTypes, HandlerSafe
<1>3. /\ SetPutsOut(phase_sets[current_phase]) /\ SetPutsOut(phase_sets[next_phase])
      /\ Held(phase_sets[current_phase], current_phase_no, level, on_time, cycle)
      /\ level \in [Channels -> BOOLEAN] /\ on_time \in [Channels -> Int] /\ cycle \in {-1, 0, 1}
  BY <1>1 DEF PwmOut, SetsOut, WhileRunning, OutTypes
<1>4. DutiesFit'
  BY <1>1 DEF PwmOut, DutiesFit
<1>5. CASE ~enabled
  <2>1. timer' = "idle" /\ UNCHANGED <<current_phase, current_phase_no, level, on_time, cycle, last>>
    BY <1>5 DEF intr_handler, history_vars
  <2> QED BY <1>1, <1>4, <2>1
          DEF PwmOut, OutTypes, SetsOut, WhileRunning, WhileOff, LastCycle
<1>6. CASE enabled
  <2>1. /\ timer' = timer /\ current_phase' = set /\ current_phase_no' = first + Len(run)
        /\ level' = result.levels /\ on_time' = result.times
        /\ cycle' = IF ~wraps THEN cycle
                    ELSE IF set = current_phase /\ cycle < 1 THEN cycle + 1
                    ELSE IF set = current_phase THEN cycle ELSE 0
        /\ last' = IF wraps /\ cycle = 1
                   THEN <<on_time, phase_sets[current_phase].duties>> ELSE << >>
    BY <1>6 DEF intr_handler
  <2>2. phase_sets[current_phase].duties \in [Channels -> Nat]
    BY <1>2 DEF PwmSafe, PwmInv, PwmTypes, Sets
  <2>3. wraps => /\ cycle \in {0, 1} => Held(phase_sets[current_phase], 1, level, Rest, 1)
                 /\ cycle = 1 => on_time = phase_sets[current_phase].duties
    <3> DEFINE s == phase_sets[current_phase]
    <3>1. SUFFICES ASSUME wraps
                   PROVE  /\ cycle \in {0, 1} => Held(s, 1, level, Rest, 1)
                          /\ cycle = 1 => on_time = s.duties
      OBVIOUS
    <3>2. PICK k \in 1 .. Len(s.phases) : k = current_phase_no
      BY <1>2
    <3>3. s.phases[k].on_mask = {} /\ s.phases[k].off_mask = {}
      BY <3>1, <3>2
    <3>4. Usable(s.phases) /\ SetPutsOut(s) /\ Held(s, k, level, on_time, cycle)
          /\ s.duties \in [Channels -> Nat]
      BY <1>2, <1>3, <2>2, <3>2
    <3> HIDE DEF s
    <3> QED BY <1>3, <3>3, <3>4, WrapHeld
  <2>4. /\ set \in {current_phase, next_phase} /\ Usable(phase_sets[set].phases)
        /\ first \in 1 .. Len(phase_sets[set].phases) - 1
    <3>1. CASE wraps
      BY <1>2, <3>1 DEF Usable
    <3>2. CASE ~wraps
      <4>1. current_phase_no # Len(phase_sets[current_phase].phases)
        BY <1>2, <3>2 DEF Usable
      <4>2. Len(phase_sets[current_phase].phases) \in Nat
        BY <1>2 DEF Usable
      <4> QED BY <1>2, <3>2, <4>1, <4>2
    <3> QED BY <3>1, <3>2
  <2>5. times \in [Channels -> Int] /\ cycle' \in {-1, 0, 1}
    <3>1. Rest \in [Channels -> Int]
      BY DEF Rest
    <3>2. cycle + 1 \in {-1, 0, 1} \/ ~(cycle < 1)
      BY <1>3
    <3> HIDE DEF wraps, set
    <3> QED BY <1>3, <2>1, <3>1, <3>2
  <2>6. Held(phase_sets[set], first, level, times, cycle')
    <3>1. CASE ~wraps
      BY <1>3, <2>1, <3>1
    <3>2. CASE wraps
      <4>1. times = Rest /\ first = 1 /\ set = next_phase
        BY <3>2
      <4>2. CASE cycle' = 0
        BY <1>2, <1>3, <3>2, <4>1, <4>2, CycleHeld DEF SetPutsOut
      <4>3. CASE cycle' # 0
        <5>1. set = current_phase /\ cycle' = 1 /\ cycle \in {0, 1}
          <6> HIDE DEF wraps, set
          <6> QED BY <1>3, <2>1, <3>2, <4>3
        <5> HIDE DEF wraps, set, first, times
        <5> QED BY <2>3, <3>2, <4>1, <5>1
      <4> QED BY <4>2, <4>3
    <3> QED BY <3>1, <3>2
  <2>7. LastCycle'
    <3> HIDE DEF wraps
    <3> QED BY <2>1, <2>3 DEF LastCycle
  <2> HIDE DEF set, first, times
  <2>8. /\ result.levels \in [Channels -> BOOLEAN] /\ result.times \in [Channels -> Int]
        /\ Held(phase_sets[set], first + Len(run), result.levels, result.times, cycle')
    <3>1. PICK whole \in {-1, 0, 1} : whole = cycle'
      BY <2>5
    <3>2. PICK s, k, ts, ls : s = phase_sets[set] /\ k = first /\ ts = times /\ ls = level
      OBVIOUS
    <3>3. PICK out, new : out = run /\ new = result
      OBVIOUS
    <3>4. out = RunFrom(s.phases, k) /\ new = OnTime(out, ls, ts)
      BY <3>2, <3>3
    <3> HIDE DEF run, result
    <3>5. /\ Usable(s.phases) /\ k \in 1 .. Len(s.phases) - 1
          /\ ls \in [Channels -> BOOLEAN] /\ ts \in [Channels -> Int]
          /\ Held(s, k, ls, ts, whole)
      BY <1>3, <2>4, <2>5, <2>6, <3>1, <3>2
    <3>6. /\ new.levels \in [Channels -> BOOLEAN] /\ new.times \in [Channels -> Int]
          /\ Held(s, k + Len(out), new.levels, new.times, whole)
      BY <3>4, <3>5, RunHeld
    <3> QED BY <3>1, <3>2, <3>3, <3>6
  <2> HIDE DEF run, result
  <2>9. OutTypes' /\ WhileRunning'
    BY <1>1, <2>1, <2>5, <2>8 DEF OutTypes, WhileRunning
  <2>10. SetsOut' /\ WhileOff'
    BY <1>1, <1>3, <2>1, <2>4 DEF PwmOut, SetsOut, WhileOff
  <2> QED BY <1>4, <2>7, <2>9, <2>10 DEF PwmOut
<1> QED BY <1>5, <1>6

LEMMA PwmOutStep == PwmSafe /\ PwmOut /\ [PwmNext]_pwm_vars => PwmOut'
<1> SUFFICES ASSUME PwmSafe, PwmOut, [PwmNext]_pwm_vars PROVE PwmOut'
  OBVIOUS
<1> USE DEF PwmOut, OutTypes, DutiesFit, SetsOut, WhileRunning, WhileOff, LastCycle
<1>1. CASE pwm_enable \/ pwm_disable
  BY <1>1 DEF pwm_enable, pwm_disable, config_vars, shared_vars, history_vars
<1>2. CASE TimerComesRound
  BY <1>2 DEF TimerComesRound, config_vars, history_vars
<1>3. CASE UNCHANGED pwm_vars
  BY <1>3 DEF pwm_vars, config_vars, shared_vars, history_vars
<1> HIDE DEF PwmOut, OutTypes, DutiesFit, SetsOut, WhileRunning, WhileOff, LastCycle
<1> QED BY <1>1, <1>2, <1>3, SetupOut, SetDutyOut, SetFreqOut, PrepareOut, ApplyOut, HandlerOut
        DEF PwmNext

\* The inductive invariant of the outputs.
THEOREM PwmOutKept == PwmSpec => [](PwmSafe /\ PwmOut)
<1>1. PwmInit => PwmSafe /\ PwmOut
  BY PwmStarts, PwmOutStarts
<1>2. PwmSafe /\ PwmOut /\ [PwmNext]_pwm_vars => (PwmSafe /\ PwmOut)'
  BY PwmStep, PwmOutStep
<1> QED BY <1>1, <1>2, PTL DEF PwmSpec

\* A whole cycle of a set has every channel on for its duty, however its event was
\* moved, merged with others or put at the other end of the cycle; and what is put
\* out is the last configuration, the levels of the outputs when no channel changes.
THEOREM PwmDutiesOut == PwmSpec => []DutiesOut
<1>1. PwmSafe /\ PwmOut => DutiesOut
  BY DEF PwmSafe, LastApplied, PwmOut, LastCycle, WhileOff, DutiesOut, SetUp
<1> QED BY <1>1, PwmOutKept, PTL

================================================================================
