------------------------------ MODULE ByteChannel ------------------------------
(***************************************************************************)
(* What one direction of a UART promises, whatever its clocks and the      *)
(* program do: it holds at most one byte, and hands that very byte on,     *)
(* once, unless a later byte takes its place or, where bytes may be cut    *)
(* off, the direction is stopped.  A byte is the number of its arrival.    *)
(* StcUart implements two of them.                                         *)
(***************************************************************************)
EXTENDS Integers, Sequences

CONSTANT
  Cuts        \* whether a byte may be cut off without a later one

VARIABLES
  made,       \* how many bytes have come
  held,       \* the byte that is held, a set of at most one
  done,       \* the bytes handed on, in order
  lost        \* the bytes that were not, and will not be

channel == <<made, held, done, lost>>

Init == made = 0 /\ held = {} /\ done = <<>> /\ lost = {}

Come ==
  /\ made' = made + 1
  /\ held' = {made + 1}
  /\ lost' = lost \cup held
  /\ UNCHANGED done

HandOn ==
  /\ \E b \in held : done' = Append(done, b)
  /\ held' = {}
  /\ UNCHANGED <<made, lost>>

CutOff ==
  /\ Cuts
  /\ held' = {}
  /\ lost' = lost \cup held
  /\ UNCHANGED <<made, done>>

Next == Come \/ HandOn \/ CutOff

Spec == Init /\ [][Next]_channel

=============================================================================
