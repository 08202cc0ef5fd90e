---------------------------------- MODULE Uart ----------------------------------
(***************************************************************************)
(* Buffered reading of one UART, src/espgoodies/drivers/uart.c: the        *)
(* interrupt handler that moves received bytes to the ring buffer, and the *)
(* calls of the main task that it interrupts.                              *)
(*                                                                         *)
(* The handler runs to completion over the task, so it is one action.  A   *)
(* task's ring_buffer_read or ring_buffer_peek is several: the loads of    *)
(* head and tail, the load of avail and the copy, and the stores, which is *)
(* how the compiled function reaches memory.  The UART's interrupt status  *)
(* is raised whenever the receive FIFO holds bytes (full or timeout).      *)
(***************************************************************************)
EXTENDS RingBuffer

CONSTANTS
  FifoDepth,   \* bytes the UART's receive FIFO holds
  MaxLen       \* the longest read a caller asks for

ASSUME UartAssumption == FifoDepth \in Nat \ {0} /\ MaxLen \in Nat

VARIABLES
  rxfifo,      \* the UART's receive FIFO
  int_ena,     \* the RXFIFO bits of UART_INT_ENA
  intr,        \* ETS_UART_INTR_ENABLE / DISABLE
  interrupt_handler_attached,
  ring_buffer, \* the pointer: "NULL", "live", or "freed" and not yet NULL
  rb,          \* the structure it points to
  pc,          \* where the main task is
  call,        \* its current call: arguments and locals
  returned     \* what the last uart_buff_read returned

irq_vars == <<int_ena, intr, interrupt_handler_attached>>
task_vars == <<pc, call>>
vars == <<rxfifo, irq_vars, ring_buffer, rb, task_vars, returned>>

NoCall == [op |-> "none", max_len |-> 0, head |-> 0, tail |-> 0, lens |-> <<0, 0>>,
           data |-> << >>]

Calls == [op : {"none", "read", "peek"}, max_len : 0 .. MaxLen,
          head : Index, tail : Index, lens : (0 .. Size) \X (0 .. Size),
          data : Seq(Byte \cup {Junk})]

TypeOK ==
  /\ rxfifo \in Seq(Byte) /\ Len(rxfifo) <= FifoDepth
  /\ int_ena \in BOOLEAN /\ intr \in BOOLEAN
  /\ interrupt_handler_attached \in BOOLEAN
  /\ ring_buffer \in {"NULL", "live", "freed"}
  /\ rb \in Rings
  /\ pc \in {"idle", "load", "copy", "store", "poll"}
  /\ call \in Calls
  /\ returned \in Seq(Byte)

\* UART_INT_ENA is what the boot code and the SDK left there.
Init ==
  /\ rxfifo = << >>
  /\ int_ena \in BOOLEAN
  /\ intr = FALSE
  /\ interrupt_handler_attached = FALSE
  /\ ring_buffer = "NULL"
  /\ rb = ring_buffer_new
  /\ pc = "idle"
  /\ call = NoCall
  /\ returned = << >>

--------------------------------------------------------------------------------
(* The UART and its interrupt handler. *)

Receive(b) ==
  /\ Len(rxfifo) < FifoDepth   \* a byte that finds the FIFO full is lost
  /\ rxfifo' = Append(rxfifo, b)
  /\ UNCHANGED <<irq_vars, ring_buffer, rb, task_vars, returned>>

\* handle_interrupt.  With a freed buffer the bytes go to memory that is no
\* longer the buffer's.
handle_interrupt ==
  /\ interrupt_handler_attached /\ intr /\ int_ena
  /\ ring_buffer # "NULL"
  /\ rxfifo # << >>
  /\ rb' = IF ring_buffer = "live" THEN ring_buffer_write(rb, rxfifo) ELSE rb
  /\ rxfifo' = << >>
  /\ UNCHANGED <<irq_vars, ring_buffer, task_vars, returned>>

--------------------------------------------------------------------------------
(* The main task. *)

uart_buff_setup ==
  /\ pc = "idle" /\ ring_buffer # "freed"
  /\ ring_buffer' = "live"
  /\ rb' = ring_buffer_new
  /\ interrupt_handler_attached' = TRUE
  /\ intr' = TRUE
  /\ UNCHANGED <<rxfifo, int_ena, task_vars, returned>>

\* mutant: the read leaves the interrupts as they are
IntrLeftAlone == UNCHANGED intr

IntrDisabled == intr' = FALSE

uart_buff_read(max_len) ==
  /\ pc = "idle" /\ ring_buffer = "live"
  /\ IntrDisabled
  /\ pc' = "load"
  /\ call' = [NoCall EXCEPT !.op = "read", !.max_len = max_len]
  /\ UNCHANGED <<rxfifo, int_ena, interrupt_handler_attached, ring_buffer, rb,
                 returned>>

uart_buff_peek(max_len) ==
  /\ pc = "idle" /\ ring_buffer = "live"
  /\ pc' = "load"
  /\ call' = [NoCall EXCEPT !.op = "peek", !.max_len = max_len]
  /\ UNCHANGED <<rxfifo, irq_vars, ring_buffer, rb, returned>>

\* ring_buffer_read_peek compares tail with head ...
LoadIndexes ==
  /\ pc = "load"
  /\ pc' = "copy"
  /\ call' = [call EXCEPT !.head = rb.head, !.tail = rb.tail]
  /\ UNCHANGED <<rxfifo, irq_vars, ring_buffer, rb, returned>>

\* ... then looks at avail if they are equal, and copies ...
CopyOut ==
  /\ pc = "copy"
  /\ pc' = "store"
  /\ LET lens == ReadLens(call.head, call.tail, rb.avail, call.max_len)
     IN  call' = [call EXCEPT !.lens = lens,
                              !.data = Taken(rb.data, call.tail, lens)]
  /\ UNCHANGED <<rxfifo, irq_vars, ring_buffer, rb, returned>>

\* mutant: uart_buff_read returns with the interrupts disabled
IntrNotEnabled == UNCHANGED intr

IntrEnabled == intr' = TRUE

\* ... and a read stores tail and avail, then lets the handler run again.
ReadReturns ==
  /\ pc = "store" /\ call.op = "read"
  /\ rb' = [rb EXCEPT !.tail = NextTail(call.head, call.tail, call.lens),
                      !.avail = Uint16(@ - call.lens[1] - call.lens[2])]
  /\ returned' = call.data
  /\ IntrEnabled
  /\ pc' = "idle"
  /\ call' = NoCall
  /\ UNCHANGED <<rxfifo, int_ena, interrupt_handler_attached, ring_buffer>>

PeekReturns ==
  /\ pc = "store" /\ call.op = "peek"
  /\ pc' = "idle"
  /\ call' = NoCall
  /\ UNCHANGED <<rxfifo, irq_vars, ring_buffer, rb, returned>>

\* uart_buff_cleanup frees the buffer before it forgets it; nothing stops the
\* handler in between.
FreeBuffer ==
  /\ pc = "idle" /\ ring_buffer = "live"
  /\ ring_buffer' = "freed"
  /\ UNCHANGED <<rxfifo, irq_vars, rb, task_vars, returned>>

ForgetBuffer ==
  /\ ring_buffer = "freed"
  /\ ring_buffer' = "NULL"
  /\ UNCHANGED <<rxfifo, irq_vars, rb, task_vars, returned>>

RxIntMasked == int_ena' = FALSE

\* uart_read takes bytes from the FIFO itself until its time is up.
uart_read ==
  /\ pc = "idle" /\ ring_buffer # "freed"
  /\ RxIntMasked
  /\ pc' = "poll"
  /\ UNCHANGED <<rxfifo, intr, interrupt_handler_attached, ring_buffer, rb, call,
                 returned>>

PollByte ==
  /\ pc = "poll" /\ rxfifo # << >>
  /\ rxfifo' = Tail(rxfifo)
  /\ UNCHANGED <<irq_vars, ring_buffer, rb, task_vars, returned>>

PollTimeout ==
  /\ pc = "poll"
  /\ int_ena' = TRUE
  /\ pc' = "idle"
  /\ UNCHANGED <<rxfifo, intr, interrupt_handler_attached, ring_buffer, rb, call,
                 returned>>

TaskStep ==
  \/ LoadIndexes \/ CopyOut \/ ReadReturns \/ PeekReturns
  \/ ForgetBuffer \/ PollByte \/ PollTimeout

Next ==
  \/ \E b \in Byte : Receive(b)
  \/ handle_interrupt
  \/ uart_buff_setup
  \/ \E max_len \in 0 .. MaxLen : uart_buff_read(max_len) \/ uart_buff_peek(max_len)
  \/ FreeBuffer
  \/ uart_read
  \/ TaskStep

Spec == Init /\ [][Next]_vars

--------------------------------------------------------------------------------
(* Properties. *)

\* head, tail and avail describe the same bytes, all of them received ones,
\* whenever a call may look at them: tail == head stays unambiguous between an
\* empty and a full buffer through every wrap.
RingConsistent == ring_buffer = "live" => RingOK(rb)

\* Buffered reading is a queue: no byte is lost, repeated or reordered by the
\* handler interrupting a read or by the wrap of either index; bytes are dropped
\* only when the buffer is full.
Queue == INSTANCE ByteQueue WITH
           on    <- ring_buffer = "live",
           queue <- IF ring_buffer = "live" THEN Contents(rb) ELSE << >>

QueueSpec == Queue!Spec

\* The handler does not take bytes away from a uart_read that polls for them.
PollAlone == [][pc = "poll" => rb' = rb]_vars

\* The task finishes the call it is in.  A pending interrupt is served at the
\* latest when it is unmasked, before the task goes on: strong fairness, since a
\* task that reads in a loop masks it again and again.
FairSpec == Spec /\ WF_vars(TaskStep) /\ SF_vars(handle_interrupt)

\* A received byte is moved on as long as the buffer is set up and receive
\* interrupts are on: no call leaves the handler shut out.
Drained ==
  rxfifo # << >>
    ~> rxfifo = << >> \/ ring_buffer # "live" \/ ~int_ena

================================================================================
