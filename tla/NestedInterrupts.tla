--------------------------- MODULE NestedInterrupts ---------------------------
(***************************************************************************)
(* What an 8051 interrupt system promises, whatever the program does: the  *)
(* handlers in service form a stack of strictly rising priorities, a new   *)
(* one starts only above the one in service, and only the innermost one    *)
(* can end.  S51Core implements it.                                        *)
(***************************************************************************)
EXTENDS Integers, Sequences

CONSTANTS
  Source,     \* the interrupt sources
  Priority    \* the priorities, a set of natural numbers

VARIABLE
  serving     \* the handlers in service, outermost first

Handler == [src : Source, level : Priority]

Current == IF serving = <<>> THEN -1 ELSE serving[Len(serving)].level

Init == serving = <<>>

Enter(h) ==
  /\ h.level > Current
  /\ serving' = Append(serving, h)

Leave ==
  /\ serving # <<>>
  /\ serving' = SubSeq(serving, 1, Len(serving) - 1)

Reset == serving' = <<>>

Next == (\E h \in Handler : Enter(h)) \/ Leave \/ Reset

Spec == Init /\ [][Next]_serving

=============================================================================
