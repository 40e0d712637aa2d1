------------------------------- MODULE StcTimer -------------------------------
(***************************************************************************)
(* Timer 0 or Timer 1 of the STC12 and STC15, cl_timer0_stc12              *)
(* (stc12_timer.cc) on top of cl_timer0 (timer0.cc).  cl_uc::tick_hw()     *)
(* gives every cycle to the timer on its own, so tick() always counts one. *)
(* An AUXR bit chooses whether every cycle is counted or every Prescale-th *)
(* one.  As a counter the timer counts the edges of pin T that happen()    *)
(* has collected since the last count.                                     *)
(***************************************************************************)
EXTENDS StcByte

CONSTANTS
  Ids,        \* which timers: a subset of {0, 1}
  Low,        \* values of the 5-bit precounter of mode 0, 32 in the code
  Modes,      \* the modes the program selects
  Counters,   \* the values of C/T it selects
  Flags,      \* the sets of TF bits it writes into TCON
  Levels,     \* the levels of the pins T and INT, as records
  MaxEdge     \* bound: edges collected between two counts

ASSUME TimerAssumption ==
  /\ Ids \subseteq {0, 1}
  /\ Low \in Nat \ {0} /\ Base % Low = 0 /\ MaxEdge \in Nat
  /\ Modes \subseteq 0..3 /\ Counters \subseteq BOOLEAN
  /\ Flags \subseteq SUBSET {0, 1}
  /\ Levels \subseteq [T : BOOLEAN, INT : BOOLEAN]

VARIABLES
  t,       \* the timer
  inst,    \* history: the last operation: a tick, a change of a pin, or a
           \* write of the program or a reset
  since    \* history: the cycles since the last overflow, -1 when something
           \* other than the clock has touched the timer in between

vars == <<t, inst, since>>

(* tr and tf hold the numbers of the timers whose TR and TF bit of TCON is  *)
(* set; the handler's TR is always the one of the cell.  overflows are the  *)
(* calls of overflow() during the last operation.                           *)
Timer ==
  [id : Ids, mode : 0..3, GATE : BOOLEAN, C_T : BOOLEAN, tr : SUBSET {0, 1},
   tf : SUBSET {0, 1}, T_edge : 0..MaxEdge, pins : [T : BOOLEAN, INT : BOOLEAN],
   tl : Byte, th : Byte, one_t : BOOLEAN, prescaler : 0..(Prescale - 1),
   overflows : 0..(MaxEdge + 1)]

-----------------------------------------------------------------------------
Overflow(u) == [u EXCEPT !.tf = @ \cup {u.id}, !.overflows = @ + 1]

(* The four ways to count once: TH above a precounter, 16 bits, TL reloaded *)
(* from TH, and TL alone.  In mode 0 a TL above the precounter's range is   *)
(* cleared when its low bits wrap.                                          *)
Count0(u) ==
  LET tl == Up(u.tl)
      th == Up(u.th)
  IN IF tl % Low # 0 THEN [u EXCEPT !.tl = tl]
     ELSE IF th # 0 THEN [u EXCEPT !.tl = 0, !.th = th]
     ELSE Overflow([u EXCEPT !.tl = 0, !.th = 0])

(* Mutant: the carry is not limited to a byte.                              *)
Count1Wide(u) ==
  IF Up(u.tl) # 0 THEN [u EXCEPT !.tl = Up(@)]
  ELSE [u EXCEPT !.tl = 0, !.th = @ + 1]

Count1(u) ==
  LET v == [u EXCEPT !.tl = Up(@), !.th = IF Up(u.tl) = 0 THEN Up(@) ELSE @]
  IN IF v.tl = 0 /\ v.th = 0 THEN Overflow(v) ELSE v

(* Mutant: the overflow itself is counted as well.                          *)
Count2Late(u) ==
  IF Up(u.tl) # 0 THEN [u EXCEPT !.tl = Up(@)]
  ELSE Overflow([u EXCEPT !.tl = Up(u.th)])

Count2(u) ==
  IF Up(u.tl) # 0 THEN [u EXCEPT !.tl = Up(@)]
  ELSE Overflow([u EXCEPT !.tl = u.th])

Count3(u) ==
  IF Up(u.tl) # 0 THEN [u EXCEPT !.tl = Up(@)]
  ELSE Overflow([u EXCEPT !.tl = 0])

Count(u) ==
  CASE u.mode = 0 -> Count0(u)
    [] u.mode = 1 -> Count1(u)
    [] u.mode = 2 -> Count2(u)
    [] u.mode = 3 -> Count3(u)

Counts(u, n) ==
  LET after[k \in 0..n] == IF k = 0 THEN u ELSE Count(after[k - 1])
  IN after[n]

Counting(u) == u.id \in u.tr /\ (u.GATE => u.pins.INT)

(* Mutant: the edges are counted and kept.                                  *)
CountMainKeeping(u) ==
  IF ~Counting(u) THEN u
  ELSE IF u.C_T THEN Counts(u, u.T_edge) ELSE Count(u)

CountMain(u) ==
  IF ~Counting(u) THEN u
  ELSE IF u.C_T THEN Counts([u EXCEPT !.T_edge = 0], u.T_edge)
  ELSE Count(u)

(* TH of mode 3 runs on TR1, counts cycles and sets TF1, for Timer 1 too.   *)
CountHigh(u) ==
  IF u.mode # 3 \/ 1 \notin u.tr THEN u
  ELSE [u EXCEPT !.th = Up(@), !.tf = IF Up(u.th) = 0 THEN @ \cup {1} ELSE @]

(* Mutant: the prescaler is set to the cycle instead of adding it.          *)
TickRestarting(u) ==
  IF u.one_t \/ Prescale = 1 THEN CountHigh(CountMain(u)) ELSE [u EXCEPT !.prescaler = 1]

(* cl_timer0_stc12::tick(1).                                                *)
TickTimer(u) ==
  LET v == [u EXCEPT !.prescaler = IF u.one_t THEN @ ELSE (@ + 1) % Prescale]
  IN IF u.one_t \/ v.prescaler = 0 THEN CountHigh(CountMain(v)) ELSE v

-----------------------------------------------------------------------------
Running(u) == Counting(u) /\ ~u.C_T

Tick ==
  /\ t' = TickTimer([t EXCEPT !.overflows = 0])
  /\ inst' = "tick"
  /\ since' = IF ~Running(t) THEN -1
              ELSE IF t'.overflows > 0 THEN 0
              ELSE IF since = -1 THEN -1 ELSE since + 1

(* What the program writes, a byte or a bit of it, and what happen() is     *)
(* told of port 3, end the measurement of since.                            *)
Touch(op, u) ==
  /\ t' = [u EXCEPT !.overflows = 0]
  /\ inst' = op
  /\ since' = -1

WriteTMOD ==
  \E m \in Modes, g, c \in BOOLEAN :
    /\ c \in Counters
    /\ Touch("write", [t EXCEPT !.mode = m, !.GATE = g, !.C_T = c, !.T_edge = 0])

(* Also an interrupt that clears its flag in TCON, TF0 and IE0 alike.       *)
WriteTCON ==
  \E run \in SUBSET {0, 1}, flags \in Flags :
    Touch("write", [t EXCEPT !.tr = run, !.tf = flags, !.T_edge = 0])

WriteTL == \E n \in Loads : Touch("write", [t EXCEPT !.tl = n])

WriteTH == \E n \in Loads : Touch("write", [t EXCEPT !.th = n])

WriteAUXR == \E b \in BOOLEAN : Touch("write", [t EXCEPT !.one_t = b])

(* The level of a pin is the one of the port's latch and of the pin.        *)
Rises(p) == p.T /\ ~t.pins.T

PortChanged ==
  \E p \in Levels \ {t.pins} :
    /\ Rises(p) => t.T_edge < MaxEdge
    /\ Touch("port", [t EXCEPT !.pins = p, !.T_edge = IF Rises(p) THEN @ + 1 ELSE @])

(* clear_sfr() writes P3, which lets go of the pins, and TMOD, TCON, TH, TL *)
(* and AUXR; the prescaler goes on.                                         *)
Reset ==
  \E p \in Levels :
    /\ t.pins.T => p.T
    /\ t.pins.INT => p.INT
    /\ Touch("write", [t EXCEPT !.mode = 0, !.GATE = FALSE, !.C_T = FALSE, !.tr = {},
                                !.tf = {}, !.T_edge = 0, !.pins = p, !.tl = 0, !.th = 0,
                                !.one_t = FALSE])

Init ==
  /\ \E n \in Ids, p \in Levels :
       t = [id |-> n, mode |-> 0, GATE |-> FALSE, C_T |-> FALSE, tr |-> {}, tf |-> {},
            T_edge |-> 0, pins |-> p, tl |-> 0, th |-> 0, one_t |-> FALSE,
            prescaler |-> 0, overflows |-> 0]
  /\ inst = "write"
  /\ since = -1

Next ==
  Tick \/ WriteTMOD \/ WriteTCON \/ WriteTL \/ WriteTH \/ WriteAUXR \/ PortChanged \/ Reset

Spec == Init /\ [][Next]_vars

(* The part executes and ticks its hardware again and again.                *)
FairSpec == Spec /\ WF_vars(Tick)

-----------------------------------------------------------------------------
Clocks(u) == IF u.one_t THEN 1 ELSE Prescale

(* What the timer's rate is by its mode, its reload value and its clock.    *)
Period(u) ==
  Clocks(u) * (CASE u.mode = 0 -> Low * Base
                 [] u.mode = 1 -> Base * Base
                 [] u.mode = 2 -> Base - u.th
                 [] u.mode = 3 -> Base)

(* Every variable stays in its range: TL and TH wrap as bytes.              *)
TimerTypeOK ==
  /\ t \in Timer
  /\ inst \in {"tick", "write", "port"}
  /\ since \in -1..(Base * Base * Prescale)

(* Undisturbed, the timer overflows at exactly the rate its mode, its       *)
(* reload value and its clock give, not a cycle earlier or later.           *)
OverflowPeriod ==
  [][ /\ inst' = "tick" /\ since # -1 /\ since' = 0 => since + 1 = Period(t)
      /\ since' < Period(t') ]_vars

(* What the registers that count the edges hold, as one number, and how     *)
(* many values it has.  (Mode 2 has none: its reload skips values.)         *)
Width(u) == IF u.mode = 1 THEN Base * Base ELSE Base
Value(u) == IF u.mode = 1 THEN u.th * Base + u.tl ELSE u.tl

(* Every rising edge of pin T counts exactly once: what was counted and     *)
(* what waits to be counted change together, and only a write of TMOD or    *)
(* TCON drops the edges that wait.                                          *)
EveryEdgeCountsOnce ==
  [][ t.C_T /\ t.mode \in {1, 3} /\ inst' \in {"tick", "port"} =>
        Value(t') + Width(t) * t'.overflows + t'.T_edge
          = Value(t) + t.T_edge + (IF t'.pins.T /\ ~t.pins.T THEN 1 ELSE 0) ]_vars

(* A timer that runs undisturbed overflows again and again.                 *)
KeepsOverflowing ==
  (<>[](Running(t) /\ inst = "tick")) => []<>(t.overflows > 0)

=============================================================================
