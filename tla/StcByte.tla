-------------------------------- MODULE StcByte --------------------------------
(* What the counters of the peripherals have in common: registers of a byte *)
(* that wrap, and the prescaler of the 12T clock.                           *)
EXTENDS Integers

CONSTANTS
  Base,       \* values of a byte, 256 in the code
  Prescale,   \* cycles per count in 12T mode, 12 in the code
  Loads       \* the values the program writes into a counter

ASSUME ByteAssumption ==
  Base \in Nat \ {0} /\ Prescale \in Nat \ {0} /\ Loads \subseteq 0..(Base - 1)

Byte == 0..(Base - 1)

(* cl_memory_cell::add() of an 8-bit cell.                                  *)
Up(n) == (n + 1) % Base

=============================================================================
