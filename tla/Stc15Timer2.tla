------------------------------ MODULE Stc15Timer2 ------------------------------
(***************************************************************************)
(* Timer 2 of the STC15, cl_timer2_stc15 (stc15_timer2.cc): 16 bits in the *)
(* cells T2H and T2L, a hidden reload register, and the baud clock of the  *)
(* UART when AUXR.S1ST2 is set.  tick_hw() ticks it with one cycle.        *)
(***************************************************************************)
EXTENDS StcByte

VARIABLES
  t2,         \* the timer
  t2_baud,    \* the EV_OVERFLOW events the UART got during the last operation
  t2_inst,    \* history: the last operation
  t2_start,   \* history: T2 when the current period began: what the program
              \* wrote last, or what the last overflow loaded
  t2_counted  \* history: the counts since then

timer2_vars == <<t2, t2_baud, t2_inst, t2_start, t2_counted>>

Timer2 ==
  [h : Byte, l : Byte, reload : Byte \X Byte, T2R : BOOLEAN, T2x12 : BOOLEAN,
   S1ST2 : BOOLEAN, prescaler : 0..(Prescale - 1)]

-----------------------------------------------------------------------------
Full(u) == u.h = Base - 1 /\ u.l = Base - 1

(* Mutant: the high byte goes on as soon as the low byte is full.           *)
CountUpEarly(u) ==
  [u EXCEPT !.l = Up(@), !.h = IF u.l = Base - 1 \/ Up(u.l) = Base - 1 THEN Up(@) ELSE @]

CountUp(u) == [u EXCEPT !.l = Up(@), !.h = IF u.l = Base - 1 THEN Up(@) ELSE @]

(* At an overflow the old reload value is loaded, and what T2 holds at that *)
(* moment becomes the next one.                                             *)
Reload(u) ==
  [u EXCEPT !.h = u.reload[1], !.l = u.reload[2], !.reload = <<u.h, u.l>>]

PrescaleCycle(u) ==
  IF ~u.T2R \/ u.T2x12 THEN u ELSE [u EXCEPT !.prescaler = (@ + 1) % Prescale]

(* Does this cycle count?                                                   *)
Timer2Counts(u) == u.T2R /\ (u.T2x12 \/ PrescaleCycle(u).prescaler = 0)

(* Mutant: the UART hears of overflows it has not selected.                 *)
InformsAlways(u) == Full(u)

Informs(u) == Full(u) /\ u.S1ST2

Timer2Tick ==
  /\ LET v == PrescaleCycle(t2)
     IN IF ~Timer2Counts(t2)
        THEN t2' = v /\ t2_baud' = 0 /\ UNCHANGED <<t2_start, t2_counted>>
        ELSE /\ t2' = IF Full(v) THEN Reload(v) ELSE CountUp(v)
             /\ t2_baud' = IF Informs(v) THEN 1 ELSE 0
             /\ t2_start' = IF Full(v) THEN v.reload ELSE t2_start
             /\ t2_counted' = IF Full(v) THEN 0 ELSE t2_counted + 1
  /\ t2_inst' = "tick"

Timer2Load(u) ==
  /\ t2' = u
  /\ t2_start' = <<u.h, u.l>>
  /\ t2_counted' = 0
  /\ t2_baud' = 0
  /\ t2_inst' = "load"

(* The program writes one byte at a time, whether the timer runs or not.    *)
WriteT2L == \E n \in Loads : Timer2Load([t2 EXCEPT !.l = n])

WriteT2H == \E n \in Loads : Timer2Load([t2 EXCEPT !.h = n])

WriteAUXR2 ==
  \E r, x, s \in BOOLEAN :
    /\ t2' = [t2 EXCEPT !.T2R = r, !.T2x12 = x, !.S1ST2 = s]
    /\ t2_baud' = 0
    /\ t2_inst' = "auxr"
    /\ UNCHANGED <<t2_start, t2_counted>>

(* clear_sfr() sets T2H and T2L to 0 and writes AUXR; the hidden register   *)
(* and the prescaler keep what they hold.                                   *)
Timer2Reset ==
  Timer2Load([t2 EXCEPT !.h = 0, !.l = 0, !.T2R = FALSE, !.T2x12 = FALSE, !.S1ST2 = FALSE])

Timer2Init ==
  /\ t2 = [h |-> 0, l |-> 0, reload |-> <<0, 0>>, T2R |-> FALSE, T2x12 |-> FALSE,
           S1ST2 |-> FALSE, prescaler |-> 0]
  /\ t2_baud = 0
  /\ t2_inst = "load"
  /\ t2_start = <<0, 0>>
  /\ t2_counted = 0

Timer2Next == Timer2Tick \/ WriteT2L \/ WriteT2H \/ WriteAUXR2 \/ Timer2Reset

Timer2Spec == Timer2Init /\ [][Timer2Next]_timer2_vars

-----------------------------------------------------------------------------
Number(pair) == pair[1] * Base + pair[2]

(* Every variable stays in its range.                                       *)
Timer2TypeOK ==
  /\ t2 \in Timer2
  /\ t2_baud \in {0, 1}
  /\ t2_inst \in {"tick", "load", "auxr"}
  /\ t2_start \in Byte \X Byte
  /\ t2_counted \in 0..(Base * Base)

(* T2 is what the period began with plus the counts since: no carry is lost *)
(* between the two cells, however the program stops the timer, changes its  *)
(* clock or writes one of the bytes alone.                                  *)
CountsAdd == Number(<<t2.h, t2.l>>) = Number(t2_start) + t2_counted

(* The UART gets a baud tick exactly when a period ends while Timer 2 is    *)
(* its baud clock: after as many counts as there are from the start of the  *)
(* period to the top.                                                       *)
BaudTickEndsPeriod ==
  [][ t2_baud' = 1 <=>
        /\ t2_inst' = "tick" /\ Timer2Counts(t2) /\ t2.S1ST2
        /\ t2_counted = Base * Base - 1 - Number(t2_start) ]_timer2_vars

(* What the comment in tick() says of the overflow: "reload from the values *)
(* that were present BEFORE the counting started this period".              *)
ReloadsItsStart ==
  [][ t2_inst' = "tick" /\ Timer2Counts(t2) /\ Full(t2) => <<t2'.h, t2'.l>> = t2_start ]_timer2_vars

=============================================================================
