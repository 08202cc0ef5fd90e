------------------------------- MODULE ByteQueue -------------------------------
(***************************************************************************)
(* What the buffered reading of src/espgoodies/drivers/uart.c promises:    *)
(* received bytes queue up in order, only those that find the buffer full  *)
(* are dropped, a read takes the oldest ones, each once, and a buffer that *)
(* is set up again or cleaned up starts empty.                             *)
(***************************************************************************)
EXTENDS Integers, Sequences

CONSTANTS Size, Byte, FifoDepth

VARIABLES
  rxfifo,    \* what the UART has received and nobody has taken
  on,        \* buffered reading is set up
  queue,
  returned   \* the bytes the last read returned

Init == rxfifo = << >> /\ on = FALSE /\ queue = << >> /\ returned = << >>

Receive ==
  /\ Len(rxfifo) < FifoDepth
  /\ \E b \in Byte : rxfifo' = Append(rxfifo, b)
  /\ UNCHANGED <<on, queue, returned>>

Room == Size - Len(queue)

Put ==
  /\ on
  /\ queue' = queue \o SubSeq(rxfifo, 1, IF Len(rxfifo) < Room THEN Len(rxfifo) ELSE Room)
  /\ rxfifo' = << >>
  /\ UNCHANGED <<on, returned>>

Get ==
  /\ on
  /\ \E n \in 0 .. Len(queue) :
       /\ returned' = SubSeq(queue, 1, n)
       /\ queue' = SubSeq(queue, n + 1, Len(queue))
  /\ UNCHANGED <<rxfifo, on>>

Switch == on' \in BOOLEAN /\ queue' = << >> /\ UNCHANGED <<rxfifo, returned>>

\* Bytes that somebody reads directly, or that come in while buffered reading is
\* being switched off.
Bypass ==
  /\ rxfifo # << >>
  /\ rxfifo' = Tail(rxfifo) \/ (~on /\ rxfifo' = << >>)
  /\ UNCHANGED <<on, queue, returned>>

Next == Receive \/ Put \/ Get \/ Switch \/ Bypass

Spec == Init /\ [][Next]_<<rxfifo, on, queue, returned>>

================================================================================
