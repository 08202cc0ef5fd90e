--------------------------------- MODULE OneWire ---------------------------------
(***************************************************************************)
(* The search for the devices of a 1-Wire bus, src/espgoodies/drivers/     *)
(* onewire.c: one device per call, each call taking up where the one       *)
(* before left off.  An address is a sequence of bits, the lowest bit of   *)
(* the first byte, the family, first.                                      *)
(*                                                                         *)
(* Bits are read and written without a fault.  Devices come and go between *)
(* two calls.                                                              *)
(***************************************************************************)
EXTENDS Integers, Sequences, SequencesExt

CONSTANTS
  Bits,          \* of an address: 64
  FamilyBits     \* of its first byte: 8

ASSUME OneWireAssumption == Bits \in Nat /\ FamilyBits \in 1 .. Bits

VARIABLES
  bus,              \* the addresses of the devices
  last_discrepancy, last_device_flag, rom,   \* one_wire_t
  found,            \* history: addresses found since the search began
  over,             \* history: the last call said that there are no more
  disturbed         \* history: the bus has changed since the last search began
search_vars == <<last_discrepancy, last_device_flag, rom>>
wire_vars == <<bus, search_vars, found, over, disturbed>>

Addresses == [1 .. Bits -> {0, 1}]

\* The search takes a device with an empty family for none at all.
HasFamily(address) == \E i \in 1 .. FamilyBits : address[i] = 1

None == [i \in 1 .. Bits |-> 0]

WireInit ==
  /\ bus = {}
  /\ last_discrepancy = 0 /\ last_device_flag = FALSE /\ rom = None
  /\ found = << >> /\ over = TRUE /\ disturbed = FALSE

\* A device comes or goes.
Plug(device) ==
  /\ bus' = IF device \in bus THEN bus \ {device} ELSE bus \cup {device}
  /\ disturbed' = TRUE
  /\ found' = << >>
  /\ UNCHANGED <<search_vars, over>>

\* A new search, after one that is over.
Begin ==
  /\ over /\ over' = FALSE
  /\ found' = << >> /\ disturbed' = FALSE
  /\ UNCHANGED <<bus, search_vars>>

\* one_wire_reset: a device pulls the line down.
one_wire_reset == bus # {}

\* mutant: the branch that was taken last is taken again
SameBranch(n) == IF n <= last_discrepancy THEN rom[n] ELSE 0

\* At a bit that tells two devices apart.
Direction(n) ==
  IF n < last_discrepancy THEN rom[n] ELSE IF n = last_discrepancy THEN 1 ELSE 0

SearchStart == [rom |-> rom, in |-> bus, last_zero |-> 0, failed |-> FALSE]

\* The bits read at n, which are what the devices still in the search answer, the bit
\* written, and the last bit where 0 was chosen.
SearchBit(s, n) ==
  LET zeros  == {d \in s.in : d[n] = 0}
      ones   == s.in \ zeros
      differ == zeros # {} /\ ones # {}
      bit    == IF differ THEN Direction(n) ELSE IF ones # {} THEN 1 ELSE 0
  IN  IF s.failed \/ s.in = {} THEN [s EXCEPT !.failed = TRUE]
      ELSE [rom |-> [s.rom EXCEPT ![n] = bit],
            in |-> IF bit = 1 THEN ones ELSE zeros,
            last_zero |-> IF differ /\ bit = 0 THEN n ELSE s.last_zero,
            failed |-> FALSE]

\* The search loop, bit by bit.
Loop ==
  LET after[n \in 0 .. Bits] ==
        IF n = 0 THEN SearchStart ELSE SearchBit(after[n - 1], n)
  IN  after[Bits]

NotFound ==
  /\ last_discrepancy' = 0 /\ last_device_flag' = FALSE
  /\ over' = TRUE /\ UNCHANGED found

one_wire_search ==
  /\ ~over
  /\ IF last_device_flag \/ ~one_wire_reset
     THEN NotFound /\ UNCHANGED rom
     ELSE /\ rom' = Loop.rom
          /\ IF Loop.failed \/ ~HasFamily(Loop.rom)
             THEN NotFound
             ELSE /\ last_discrepancy' = Loop.last_zero
                  /\ last_device_flag' = (Loop.last_zero = 0)
                  /\ found' = IF disturbed THEN << >> ELSE Append(found, Loop.rom)
                  /\ UNCHANGED over
  /\ UNCHANGED <<bus, disturbed>>

\* one_wire_search_reset, in the middle of a search.
one_wire_search_reset ==
  /\ last_discrepancy' = 0 /\ last_device_flag' = FALSE /\ rom' = None
  /\ found' = << >> /\ over' = FALSE /\ disturbed' = FALSE
  /\ UNCHANGED bus

WireNext ==
  \/ \E device \in Addresses : HasFamily(device) /\ Plug(device)
  \/ Begin \/ one_wire_search \/ one_wire_search_reset

WireSpec == WireInit /\ [][WireNext]_wire_vars

--------------------------------------------------------------------------------
(* Properties. *)

\* A search of a bus that stays as it is finds every device once and then says that
\* there are no more: no branch is taken twice, none is left out, and nothing of an
\* earlier search, of another bus or disturbed by a change of it, leads it astray.
FoundOnce ==
  ~disturbed =>
    /\ IsInjective(found) /\ ToSet(found) \subseteq bus
    /\ over => ToSet(found) = bus

================================================================================
