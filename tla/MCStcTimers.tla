------------------------------ MODULE MCStcTimers ------------------------------
(* Instances of StcTimer and of Stc15Timer2: bytes of four values, a        *)
(* precounter of two.  The two share no state, so a behaviour has one of    *)
(* them move and leaves the other as it is after a reset.                   *)
EXTENDS StcTimer, Stc15Timer2

VARIABLE part   \* the timer that moves

all == <<vars, timer2_vars, part>>

(* T moves while INT is high, INT while T is low.                           *)
Pins == {[T |-> FALSE, INT |-> FALSE], [T |-> FALSE, INT |-> TRUE],
         [T |-> TRUE, INT |-> TRUE]}

TimersInit == Init /\ Timer2Init /\ part \in {"timer01", "timer2"}

Move(next, still, name) == part = name /\ next /\ UNCHANGED <<still, part>>

TimersNext ==
  \/ Move(Next, timer2_vars, "timer01")
  \/ Move(Timer2Next, vars, "timer2")

TimersSpec ==
  TimersInit /\ [][TimersNext]_all /\ WF_all(Move(Tick, timer2_vars, "timer01"))

(* Every variable of every timer stays in its range.                        *)
TimersTypeOK == TimerTypeOK /\ Timer2TypeOK

=============================================================================
