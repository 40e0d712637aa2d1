----------------------------- MODULE PlainProgram -----------------------------
(***************************************************************************)
(* A program as its author reads it: instructions one after the other,     *)
(* jumps, calls and returns, and no interrupts.  An interrupt that is      *)
(* transparent to the program it interrupts leaves this machine standing   *)
(* still while its handler runs; S51Core implements it for programs whose  *)
(* handlers end with RETI and whose calls and returns pair up.             *)
(***************************************************************************)
EXTENDS Naturals, Sequences

CONSTANTS
  Addr,         \* code addresses
  Succ,         \* the address after the instruction at an address
  ResetVector,  \* where execution starts
  Code          \* Code[a]: the instructions that may be found at a

VARIABLES
  at,           \* the address of the next instruction
  calls         \* the return addresses of the calls in progress

Step(i) ==
  \/ /\ i.op = "jmp"
     /\ at' = i.to /\ UNCHANGED calls
  \/ /\ i.op = "call"
     /\ at' = i.to /\ calls' = Append(calls, Succ[at])
  \/ /\ i.op = "ret" /\ calls # <<>>
     /\ at' = calls[Len(calls)] /\ calls' = SubSeq(calls, 1, Len(calls) - 1)
  \/ /\ i.op \notin {"jmp", "call", "ret", "reti"}
     /\ at' = Succ[at] /\ UNCHANGED calls

Init == at = ResetVector /\ calls = <<>>

Next ==
  \/ \E i \in Code[at] : Step(i)
  \/ at' = ResetVector /\ calls' = <<>>

Spec == Init /\ [][Next]_<<at, calls>>

=============================================================================
