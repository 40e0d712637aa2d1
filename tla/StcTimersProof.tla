---------------------------- MODULE StcTimersProof -----------------------------
(***************************************************************************)
(* Proofs about the timers, for bytes, a precounter and a prescaler of any  *)
(* size and any number of edges that wait.  The inductive invariants say    *)
(* where a timer stands: Timer 2 where its counts since the reload put it,  *)
(* Timer 0 and 1 where the cycles since the last overflow do.  What several *)
(* counts in one cycle do goes over them with the lemmas of CountingProof.  *)
(***************************************************************************)
EXTENDS MCStcTimers, CountingProof

-----------------------------------------------------------------------------
(* Timer 2 of the STC15.  The inductive invariant is the type invariant     *)
(* together with CountsAdd: that T2 is its start plus the counts is what    *)
(* bounds the counts.                                                       *)
Timer2Inv == Timer2TypeOK /\ CountsAdd

(* After a reset nothing is counted yet.                                    *)
LEMMA Timer2Starts == Timer2Init => Timer2Inv
<1> USE ByteAssumption
<1> SUFFICES ASSUME Timer2Init PROVE Timer2Inv
  OBVIOUS
<1>1. 0 \in Byte /\ 0 \in 0..(Prescale - 1) /\ Base * Base \in Nat
  BY DEF Byte
<1>2. Timer2TypeOK
  BY <1>1 DEF Timer2Init, Timer2TypeOK, Timer2
<1>3. CountsAdd
  BY DEF Timer2Init, CountsAdd, Number
<1> QED BY <1>2, <1>3 DEF Timer2Inv

(* The prescaler is all that PrescaleCycle moves.                           *)
LEMMA PrescaleOnly ==
  ASSUME NEW u \in Timer2
  PROVE  /\ PrescaleCycle(u) \in Timer2
         /\ PrescaleCycle(u).h = u.h /\ PrescaleCycle(u).l = u.l
         /\ PrescaleCycle(u).reload = u.reload
         /\ PrescaleCycle(u).S1ST2 = u.S1ST2
<1> (u.prescaler + 1) % Prescale \in 0..(Prescale - 1)
  BY ByteAssumption DEF Timer2
<1> QED BY DEF PrescaleCycle, Timer2

(* What a cycle does, spelled out.                                          *)
LEMMA Timer2TickCases ==
  ASSUME Timer2Inv, Timer2Tick
  PROVE  /\ t2' \in Timer2
         /\ \/ /\ ~Timer2Counts(t2) /\ t2_baud' = 0
               /\ t2'.h = t2.h /\ t2'.l = t2.l /\ t2_start' = t2_start /\ t2_counted' = t2_counted
            \/ /\ Timer2Counts(t2) /\ Full(t2)
               /\ t2_baud' = IF t2.S1ST2 THEN 1 ELSE 0
               /\ <<t2'.h, t2'.l>> = t2.reload /\ t2_start' = t2.reload /\ t2_counted' = 0
            \/ /\ Timer2Counts(t2) /\ ~Full(t2) /\ t2_baud' = 0
               /\ Number(<<t2'.h, t2'.l>>) = Number(<<t2.h, t2.l>>) + 1
               /\ t2_start' = t2_start /\ t2_counted' = t2_counted + 1
<1> DEFINE v == PrescaleCycle(t2)
<1>1. t2 \in Timer2
  BY DEF Timer2Inv, Timer2TypeOK
<1>2. /\ v \in Timer2 /\ v.h = t2.h /\ v.l = t2.l
      /\ v.reload = t2.reload /\ v.S1ST2 = t2.S1ST2
  BY <1>1, PrescaleOnly
<1>3. Full(v) <=> Full(t2)
  BY <1>2 DEF Full
<1>4. CASE ~Timer2Counts(t2)
  BY <1>2, <1>4 DEF Timer2Tick
<1>5. CASE Timer2Counts(t2) /\ Full(t2)
  <2>1. t2' = Reload(v) /\ t2_baud' = (IF Informs(v) THEN 1 ELSE 0)
    BY <1>3, <1>5 DEF Timer2Tick
  <2>2. t2_start' = v.reload /\ t2_counted' = 0
    BY <1>3, <1>5 DEF Timer2Tick
  <2>3. v.reload \in Byte \X Byte
    BY <1>2 DEF Timer2
  <2> HIDE DEF v
  <2>4. Reload(v).h = v.reload[1] /\ Reload(v).l = v.reload[2] /\ Reload(v) \in Timer2
    BY <1>2, <2>3 DEF Reload, Timer2
  <2>5. <<v.reload[1], v.reload[2]>> = v.reload
    BY <2>3
  <2> QED BY <1>2, <1>3, <1>5, <2>1, <2>2, <2>4, <2>5 DEF Informs
<1>6. CASE Timer2Counts(t2) /\ ~Full(t2)
  <2>1. t2' = CountUp(v) /\ t2_baud' = 0
    BY <1>3, <1>6 DEF Timer2Tick, Informs
  <2>2. t2_start' = t2_start /\ t2_counted' = t2_counted + 1
    BY <1>3, <1>6 DEF Timer2Tick
  <2> HIDE DEF v
  <2>3. v.h \in Byte /\ v.l \in Byte /\ ~(v.h = Base - 1 /\ v.l = Base - 1)
    BY <1>2, <1>3, <1>6 DEF Timer2, Full
  <2>4. /\ Up(v.l) \in Byte /\ Up(v.h) \in Byte
        /\ (IF v.l = Base - 1 THEN Up(v.h) ELSE v.h) * Base + Up(v.l) = v.h * Base + v.l + 1
    BY <2>3, CarriesOver
  <2>5. /\ CountUp(v).h = IF v.l = Base - 1 THEN Up(v.h) ELSE v.h
        /\ CountUp(v).l = Up(v.l)
    BY <1>2 DEF CountUp, Timer2
  <2>6. CountUp(v) \in Timer2
    BY <1>2, <2>4 DEF CountUp, Timer2
  <2>7. Number(<<CountUp(v).h, CountUp(v).l>>) = Number(<<t2.h, t2.l>>) + 1
    BY <1>2, <2>4, <2>5 DEF Number
  <2> QED BY <1>6, <2>1, <2>2, <2>6, <2>7
<1> QED BY <1>4, <1>5, <1>6

(* A number made of two bytes.                                              *)
LEMMA NumberRange ==
  ASSUME NEW p \in Byte \X Byte
  PROVE  Number(p) \in 0..(Base * Base - 1)
BY Highest DEF Number

(* A cycle counts once, starts a new period, or leaves the count alone.     *)
LEMMA TickKeepsTimer2 == Timer2Inv /\ Timer2Tick => Timer2Inv'
<1> USE ByteAssumption
<1> SUFFICES ASSUME Timer2Inv, Timer2Tick PROVE Timer2Inv'
  OBVIOUS
<1> DEFINE now == Number(<<t2.h, t2.l>>)
           next == Number(<<t2'.h, t2'.l>>)
<1>1. t2' \in Timer2 /\ t2 \in Timer2
  BY Timer2TickCases DEF Timer2Inv, Timer2TypeOK
<1>2. t2_start \in Byte \X Byte /\ t2_counted \in Nat /\ now = Number(t2_start) + t2_counted
  BY DEF Timer2Inv, Timer2TypeOK, CountsAdd
<1>3. t2_start' \in Byte \X Byte
  BY <1>1, <1>2, Timer2TickCases DEF Timer2
<1>4. now \in Nat /\ next \in 0..(Base * Base - 1)
  BY <1>1, NumberRange DEF Timer2
<1>5. Number(t2_start) \in Nat /\ Number(t2_start') \in Nat
  BY <1>2, <1>3, NumberRange
<1>6. t2_counted' \in Nat /\ next = Number(t2_start') + t2_counted'
  BY <1>2, <1>4, <1>5, Timer2TickCases
<1>7. t2_counted' \in 0..(Base * Base)
  <2> HIDE DEF next
  <2>1. Base * Base \in Nat
    OBVIOUS
  <2> QED BY <1>4, <1>5, <1>6, <2>1
<1>8. t2_baud' \in {0, 1} /\ t2_inst' = "tick"
  BY Timer2TickCases DEF Timer2Tick
<1> QED BY <1>1, <1>3, <1>6, <1>7, <1>8 DEF Timer2Inv, Timer2TypeOK, CountsAdd

(* A write of T2L or T2H starts the sum anew.                               *)
LEMMA LoadKeepsTimer2 ==
  ASSUME NEW u \in Timer2, Timer2Load(u)
  PROVE  Timer2Inv'
<1>1. <<u.h, u.l>> \in Byte \X Byte /\ Base * Base \in Nat
  BY ByteAssumption DEF Timer2
<1>2. Number(<<u.h, u.l>>) = Number(<<u.h, u.l>>) + 0
  BY <1>1, NumberRange
<1>3. Timer2TypeOK'
  BY <1>1 DEF Timer2Load, Timer2TypeOK
<1>4. CountsAdd'
  BY <1>2 DEF Timer2Load, CountsAdd
<1> QED BY <1>3, <1>4 DEF Timer2Inv

(* Every step keeps the sum.                                                *)
LEMMA Timer2Stays == Timer2Inv /\ [Timer2Next]_timer2_vars => Timer2Inv'
<1> USE ByteAssumption
<1> SUFFICES ASSUME Timer2Inv, [Timer2Next]_timer2_vars PROVE Timer2Inv'
  OBVIOUS
<1>0. t2 \in Timer2 /\ Loads \subseteq Byte /\ 0 \in Byte
  BY DEF Timer2Inv, Timer2TypeOK, Byte
<1>1. CASE Timer2Tick
  BY <1>1, TickKeepsTimer2
<1>2. CASE WriteT2L
  <2>1. PICK n \in Loads : Timer2Load([t2 EXCEPT !.l = n])
    BY <1>2 DEF WriteT2L
  <2>2. [t2 EXCEPT !.l = n] \in Timer2
    BY <1>0 DEF Timer2
  <2> QED BY <2>1, <2>2, LoadKeepsTimer2
<1>3. CASE WriteT2H
  <2>1. PICK n \in Loads : Timer2Load([t2 EXCEPT !.h = n])
    BY <1>3 DEF WriteT2H
  <2>2. [t2 EXCEPT !.h = n] \in Timer2
    BY <1>0 DEF Timer2
  <2> QED BY <2>1, <2>2, LoadKeepsTimer2
<1>4. CASE WriteAUXR2
  <2>1. PICK r \in BOOLEAN, x \in BOOLEAN, s \in BOOLEAN :
          t2' = [t2 EXCEPT !.T2R = r, !.T2x12 = x, !.S1ST2 = s]
    BY <1>4 DEF WriteAUXR2
  <2>2. t2' \in Timer2 /\ t2'.h = t2.h /\ t2'.l = t2.l
    BY <1>0, <2>1 DEF Timer2
  <2> QED BY <1>4, <2>2 DEF WriteAUXR2, Timer2Inv, Timer2TypeOK, CountsAdd
<1>5. CASE Timer2Reset
  <2> DEFINE u == [t2 EXCEPT !.h = 0, !.l = 0, !.T2R = FALSE, !.T2x12 = FALSE, !.S1ST2 = FALSE]
  <2>1. u \in Timer2
    BY <1>0 DEF Timer2
  <2>2. Timer2Load(u)
    BY <1>5 DEF Timer2Reset
  <2> QED BY <2>1, <2>2, LoadKeepsTimer2
<1>6. CASE UNCHANGED timer2_vars
  BY <1>6 DEF timer2_vars, Timer2Inv, Timer2TypeOK, CountsAdd
<1> QED BY <1>1, <1>2, <1>3, <1>4, <1>5, <1>6 DEF Timer2Next

(* The invariant of Timer 2 holds throughout.                               *)
LEMMA Timer2InvAlways == Timer2Spec => []Timer2Inv
<1> QED BY Timer2Starts, Timer2Stays, PTL DEF Timer2Spec

-----------------------------------------------------------------------------
(* Every variable of Timer 2 stays in its range, for bytes of any size.     *)
THEOREM Timer2TypeCorrect == Timer2Spec => []Timer2TypeOK
<1>1. Timer2Inv => Timer2TypeOK
  BY DEF Timer2Inv
<1> QED BY <1>1, Timer2InvAlways, PTL

(* No carry is lost between T2H and T2L: T2 is what its period began with   *)
(* plus the counts since.                                                   *)
THEOREM CountsAlwaysAdd == Timer2Spec => []CountsAdd
<1>1. Timer2Inv => CountsAdd
  BY DEF Timer2Inv
<1> QED BY <1>1, Timer2InvAlways, PTL

(* The UART's baud tick comes exactly when the counts from the start of the *)
(* period to the top are through.                                           *)
LEMMA BaudStep ==
  ASSUME Timer2Inv, [Timer2Next]_timer2_vars
  PROVE  UNCHANGED timer2_vars
           \/ (t2_baud' = 1 <=>
                 /\ t2_inst' = "tick" /\ Timer2Counts(t2) /\ t2.S1ST2
                 /\ t2_counted = Base * Base - 1 - Number(t2_start))
<1> USE ByteAssumption
<1> DEFINE atTop == t2_counted = Base * Base - 1 - Number(t2_start)
<1>1. CASE Timer2Tick
  <2>1. t2.h \in Byte /\ t2.l \in Byte /\ t2_start \in Byte \X Byte /\ t2_counted \in Nat
    BY DEF Timer2Inv, Timer2TypeOK, Timer2
  <2>2. Number(t2_start) \in Nat /\ Base * Base \in Nat
    BY <2>1, NumberRange
  <2>3. Full(t2) <=> Number(<<t2.h, t2.l>>) = Base * Base - 1
    BY <2>1, Highest DEF Full, Number
  <2>4. Number(<<t2.h, t2.l>>) = Number(t2_start) + t2_counted
    BY DEF Timer2Inv, CountsAdd
  <2>5. Full(t2) <=> atTop
    BY <2>1, <2>2, <2>3, <2>4
  <2>6. t2.S1ST2 \in BOOLEAN /\ t2_inst' = "tick"
    BY <1>1 DEF Timer2Inv, Timer2TypeOK, Timer2, Timer2Tick
  <2>7. t2_baud' = 1 <=> Timer2Counts(t2) /\ Full(t2) /\ t2.S1ST2
    BY <1>1, <2>6, Timer2TickCases
  <2> QED BY <2>5, <2>6, <2>7
<1>2. CASE WriteT2L \/ WriteT2H \/ WriteAUXR2 \/ Timer2Reset
  <2>1. WriteT2L \/ WriteT2H \/ Timer2Reset => t2_baud' = 0 /\ t2_inst' = "load"
    BY DEF WriteT2L, WriteT2H, Timer2Reset, Timer2Load
  <2>2. WriteAUXR2 => t2_baud' = 0 /\ t2_inst' = "auxr"
    BY DEF WriteAUXR2
  <2>3. t2_baud' = 0 /\ t2_inst' # "tick"
    BY <1>2, <2>1, <2>2
  <2> QED BY <2>3
<1> QED BY <1>1, <1>2 DEF Timer2Next

(* do_t2_baud() gives the UART its tick exactly in the cycle in which       *)
(* the counts from the start of the period to the top are through, and      *)
(* in no other step.                                                        *)
THEOREM BaudTicksEndPeriods == Timer2Spec => BaudTickEndsPeriod
<1>1. Timer2Inv /\ [Timer2Next]_timer2_vars =>
        [t2_baud' = 1 <=>
           /\ t2_inst' = "tick" /\ Timer2Counts(t2) /\ t2.S1ST2
           /\ t2_counted = Base * Base - 1 - Number(t2_start)]_timer2_vars
  BY BaudStep
<1> QED BY <1>1, Timer2InvAlways, PTL DEF Timer2Spec, BaudTickEndsPeriod

-----------------------------------------------------------------------------
(* Timer 0 and Timer 1.                                                     *)

(* Timers that have counted any number of times.                            *)
Timers ==
  [id : Ids, mode : 0..3, GATE : BOOLEAN, C_T : BOOLEAN, tr : SUBSET {0, 1},
   tf : SUBSET {0, 1}, T_edge : 0..MaxEdge, pins : [T : BOOLEAN, INT : BOOLEAN],
   tl : Byte, th : Byte, one_t : BOOLEAN, prescaler : 0..(Prescale - 1), overflows : Nat]

(* What a count leaves alone.                                               *)
SetupKept(u, c) ==
  /\ c.id = u.id /\ c.mode = u.mode /\ c.GATE = u.GATE /\ c.C_T = u.C_T /\ c.tr = u.tr
  /\ c.T_edge = u.T_edge /\ c.pins = u.pins /\ c.one_t = u.one_t /\ c.prescaler = u.prescaler

(* Counts per period, and those of them that are done, when the registers   *)
(* hold what an overflow leaves in them or what is counted from there.      *)
PeriodCounts(u) ==
  CASE u.mode = 0 -> Low * Base
    [] u.mode = 1 -> Base * Base
    [] u.mode = 2 -> Base - u.th
    [] u.mode = 3 -> Base

Position(u) ==
  CASE u.mode = 0 -> u.th * Low + u.tl
    [] u.mode = 1 -> u.th * Base + u.tl
    [] u.mode = 2 -> u.tl - u.th
    [] u.mode = 3 -> u.tl

Steady(u) == (u.mode = 0 => u.tl < Low) /\ (u.mode = 2 => u.th <= u.tl)

(* The registers after a count.                                             *)
Goes(u, tl, th, c) ==
  /\ c \in Timers /\ SetupKept(u, c) /\ c.tl = tl /\ c.th = th /\ c.overflows = u.overflows

Ends(u, tl, th, c) ==
  /\ c \in Timers /\ SetupKept(u, c) /\ c.tl = tl /\ c.th = th /\ c.overflows = u.overflows + 1

(* A count that ends in a write of the registers only.                      *)
LEMMA RegistersSet ==
  ASSUME NEW u \in Timers, NEW l \in Byte, NEW h \in Byte
  PROVE  Goes(u, l, h, [u EXCEPT !.tl = l, !.th = h])
<1> DEFINE c == [u EXCEPT !.tl = l, !.th = h]
<1>1. c \in Timers
  BY DEF Timers
<1>2. SetupKept(u, c) /\ c.tl = l /\ c.th = h /\ c.overflows = u.overflows
  BY DEF SetupKept, Timers
<1> HIDE DEF c
<1>3. Goes(u, l, h, c)
  BY <1>1, <1>2 DEF Goes
<1> QED
  BY <1>3 DEF c

(* An overflow sets the flag of the timer and is counted.                   *)
LEMMA OverflowEnds ==
  ASSUME NEW u \in Timers, NEW v, NEW l \in Byte, NEW h \in Byte, Goes(u, l, h, v)
  PROVE  Ends(u, l, h, Overflow(v))
<1> DEFINE flags == v.tf \cup {v.id}
           n == v.overflows + 1
<1>0. v \in Timers
  BY DEF Goes
<1>1. flags \in SUBSET {0, 1} /\ n \in Nat
  <2>1. v.tf \in SUBSET {0, 1} /\ v.id \in Ids /\ v.overflows \in Nat
    BY <1>0 DEF Timers
  <2>2. v.id \in {0, 1}
    BY <2>1, TimerAssumption
  <2>3. v.tf \cup {v.id} \in SUBSET {0, 1}
    BY <2>1, <2>2
  <2> QED
    BY <2>1, <2>3
<1>2. Overflow(v) = [v EXCEPT !.tf = flags, !.overflows = n]
  BY DEF Overflow
<1> HIDE DEF flags
<1>3. n = u.overflows + 1
  BY DEF Goes
<1> HIDE DEF n
<1>4. Overflow(v) \in Timers
  BY <1>0, <1>1, <1>2 DEF Timers
<1>5. Overflow(v).overflows = n /\ Overflow(v).tl = v.tl /\ Overflow(v).th = v.th /\ SetupKept(v, Overflow(v))
  BY <1>0, <1>1, <1>2 DEF SetupKept, Timers
<1> QED
  BY <1>3, <1>4, <1>5 DEF Ends, Goes, SetupKept

(* The lower part of mode 0 fits in a byte.                                 *)
LEMMA LowFits == Low <= Base /\ Base * Base \in Nat /\ Low * Base \in Nat /\ 0 \in Byte
<1>1. Base % Low = 0 /\ Low \in Nat \ {0} /\ Base \in Nat \ {0}
  BY ByteAssumption, TimerAssumption
<1>2. Low > Base => Base % Low = Base
  <2>1. ASSUME Low > Base PROVE Base % Low = Base
    <3>1. Base = 0 * Low + Base /\ Base \in 0..(Low - 1)
      BY <1>1, <2>1
    <3> QED
      BY <1>1, <3>1, DivUnique
  <2> QED
    BY <2>1
<1> QED
  BY <1>1, <1>2 DEF Byte

(* What a count makes of a timer, in numbers.                               *)
Advanced(u, c) ==
  /\ c \in Timers /\ SetupKept(u, c)
  /\ c.overflows = u.overflows \/ c.overflows = u.overflows + 1
  /\ Steady(u) => /\ Steady(c) /\ PeriodCounts(c) = PeriodCounts(u)
                  /\ IF c.overflows = u.overflows THEN Position(c) = Position(u) + 1
                     ELSE Position(u) + 1 = PeriodCounts(u)
  /\ c.overflows # u.overflows => Steady(c) /\ Position(c) = 0
  /\ u.mode \in {1, 3} =>
       Value(c) = Value(u) + 1 - (IF c.overflows = u.overflows THEN 0 ELSE Width(u))

(* A count of mode 0, the low part and then the byte above it.              *)
LEMMA Mode0 ==
  ASSUME NEW u \in Timers, u.mode = 0
  PROVE  Advanced(u, Count0(u))
<1> DEFINE tl == Up(u.tl)
           th == Up(u.th)
           c == Count0(u)
<1>1. u.tl \in Byte /\ u.th \in Byte /\ 0 \in Byte
  BY LowFits DEF Timers
<1>2. /\ tl \in Byte /\ tl = IF u.tl = Base - 1 THEN 0 ELSE u.tl + 1
      /\ th \in Byte /\ th = IF u.th = Base - 1 THEN 0 ELSE u.th + 1
  BY <1>1, UpIs
<1>3. u.tl < Low => IF tl % Low # 0 THEN tl = u.tl + 1 /\ tl < Low ELSE u.tl + 1 = Low
  <2>1. ASSUME u.tl + 1 < Low PROVE tl = u.tl + 1 /\ tl % Low = u.tl + 1
    <3>1. u.tl + 1 = 0 * Low + (u.tl + 1) /\ u.tl + 1 \in 0..(Low - 1) /\ u.tl + 1 \in Nat
          /\ Low \in Nat \ {0} /\ 0 \in Nat
      BY <1>1, <2>1, TimerAssumption DEF Byte
    <3>2. (u.tl + 1) % Low = u.tl + 1
      BY <3>1, DivUnique
    <3>3. tl = u.tl + 1
      BY <1>1, <1>2, <2>1, LowFits, TimerAssumption, ByteAssumption DEF Byte
    <3> QED
      BY <3>2, <3>3
  <2>2. ASSUME u.tl + 1 = Low PROVE tl % Low = 0
    BY <1>1, <1>2, <2>2, LowFits, TimerAssumption, ByteAssumption DEF Byte
  <2> QED
    BY <1>1, <2>1, <2>2, TimerAssumption DEF Byte
<1>4. u.overflows \in Nat /\ Base \in Nat \ {0} /\ Low \in Nat \ {0}
  BY ByteAssumption, TimerAssumption DEF Timers
<1> DEFINE done == u.th * Low
<1>5. /\ done \in Nat /\ (u.th + 1) * Low = done + Low
      /\ u.th = Base - 1 => done + Low = Low * Base
  <2>1. u.th \in Nat
    BY <1>1 DEF Byte
  <2>2. u.th * Low \in Nat /\ (u.th + 1) * Low = u.th * Low + Low
    BY <1>4, <2>1
  <2>3. (Base - 1) * Low + Low = Low * Base
    BY <1>4
  <2> QED
    BY <2>2, <2>3
<1>6. Steady(u) <=> u.tl < Low
  BY DEF Steady
<1>7. Position(u) = done + u.tl /\ PeriodCounts(u) = Low * Base
  BY DEF Position, PeriodCounts
<1>8. CASE tl % Low # 0
  <2>1. Goes(u, tl, u.th, [u EXCEPT !.tl = tl, !.th = u.th])
    BY <1>1, <1>2, RegistersSet
  <2>2. [u EXCEPT !.tl = tl, !.th = u.th] = [u EXCEPT !.tl = tl]
    BY DEF Timers
  <2>3. Goes(u, tl, u.th, c)
    BY <1>8, <2>1, <2>2 DEF Count0
  <2> HIDE DEF c, tl, th
  <2>4. c \in Timers /\ SetupKept(u, c) /\ c.tl = tl /\ c.th = u.th /\ c.overflows = u.overflows
    BY <2>3 DEF Goes
  <2>5. c.mode = 0
    BY <2>4 DEF SetupKept
  <2>6. Position(c) = done + tl /\ PeriodCounts(c) = Low * Base /\ (Steady(c) <=> tl < Low)
    BY <2>4, <2>5 DEF Position, PeriodCounts, Steady
  <2>7. u.tl < Low => tl < Low /\ done + tl = done + u.tl + 1
    BY <1>1, <1>3, <1>5, <1>8 DEF Byte
  <2> HIDE DEF done
  <2>20. Steady(u) => /\ Steady(c) /\ PeriodCounts(c) = PeriodCounts(u)
                       /\ IF c.overflows = u.overflows THEN Position(c) = Position(u) + 1
                          ELSE Position(u) + 1 = PeriodCounts(u)
    BY <1>1, <1>4, <1>5, <1>6, <1>7, <2>4, <2>6, <2>7 DEF Byte
  <2>21. u.mode \notin {1, 3}
    OBVIOUS
  <2>22. c.overflows # u.overflows => Steady(c) /\ Position(c) = 0
    BY <2>4, <2>6
  <2>23. Advanced(u, c)
    BY <2>4, <2>20, <2>21, <2>22 DEF Advanced
  <2> QED
    BY <2>23 DEF c
<1>9. CASE tl % Low = 0 /\ th # 0
  <2>3. Goes(u, 0, th, c)
    BY <1>1, <1>2, <1>9, RegistersSet DEF Count0
  <2>8. th = u.th + 1
    BY <1>2, <1>9
  <2> HIDE DEF c, tl, th
  <2>4. c \in Timers /\ SetupKept(u, c) /\ c.tl = 0 /\ c.th = th /\ c.overflows = u.overflows
    BY <2>3 DEF Goes
  <2>5. c.mode = 0
    BY <2>4 DEF SetupKept
  <2>6. Position(c) = th * Low + 0 /\ PeriodCounts(c) = Low * Base /\ Steady(c)
    BY <1>4, <2>4, <2>5 DEF Position, PeriodCounts, Steady
  <2>7. th * Low + 0 = done + Low
    BY <1>4, <1>5, <2>8
  <2>9. u.tl < Low => u.tl + 1 = Low
    BY <1>3, <1>9
  <2> HIDE DEF done
  <2>20. Steady(u) => /\ Steady(c) /\ PeriodCounts(c) = PeriodCounts(u)
                       /\ IF c.overflows = u.overflows THEN Position(c) = Position(u) + 1
                          ELSE Position(u) + 1 = PeriodCounts(u)
    BY <1>1, <1>4, <1>5, <1>6, <1>7, <2>4, <2>6, <2>7, <2>9 DEF Byte
  <2>21. u.mode \notin {1, 3}
    OBVIOUS
  <2>22. c.overflows # u.overflows => Steady(c) /\ Position(c) = 0
    BY <2>4, <2>6
  <2>23. Advanced(u, c)
    BY <2>4, <2>20, <2>21, <2>22 DEF Advanced
  <2> QED
    BY <2>23 DEF c
<1>10. CASE tl % Low = 0 /\ th = 0
  <2>1. Goes(u, 0, 0, [u EXCEPT !.tl = 0, !.th = 0])
    BY <1>1, RegistersSet
  <2>2. Ends(u, 0, 0, Overflow([u EXCEPT !.tl = 0, !.th = 0]))
    BY <1>1, <2>1, OverflowEnds
  <2>3. Ends(u, 0, 0, c)
    BY <1>10, <2>2 DEF Count0
  <2>8. u.th = Base - 1
    BY <1>1, <1>2, <1>10 DEF Byte
  <2> HIDE DEF c, tl, th
  <2>4. c \in Timers /\ SetupKept(u, c) /\ c.tl = 0 /\ c.th = 0 /\ c.overflows = u.overflows + 1
    BY <2>3 DEF Ends
  <2>5. c.mode = 0
    BY <2>4 DEF SetupKept
  <2>6. Position(c) = 0 * Low + 0 /\ PeriodCounts(c) = Low * Base /\ Steady(c)
    BY <1>4, <2>4, <2>5 DEF Position, PeriodCounts, Steady
  <2>7. 0 * Low + 0 = 0
    BY <1>4
  <2>9. u.tl < Low => u.tl + 1 = Low
    BY <1>3, <1>10
  <2>10. done + Low = Low * Base
    BY <1>5, <2>8
  <2> HIDE DEF done
  <2>20. Steady(u) => /\ Steady(c) /\ PeriodCounts(c) = PeriodCounts(u)
                       /\ IF c.overflows = u.overflows THEN Position(c) = Position(u) + 1
                          ELSE Position(u) + 1 = PeriodCounts(u)
    BY <1>1, <1>4, <1>5, <1>6, <1>7, <2>4, <2>6, <2>7, <2>9, <2>10 DEF Byte
  <2>21. u.mode \notin {1, 3}
    OBVIOUS
  <2>22. c.overflows # u.overflows => Steady(c) /\ Position(c) = 0
    BY <2>4, <2>6, <2>7
  <2>23. Advanced(u, c)
    BY <2>4, <2>20, <2>21, <2>22 DEF Advanced
  <2> QED
    BY <2>23 DEF c
<1> QED
  BY <1>8, <1>9, <1>10

(* A count of mode 1, sixteen bits.                                         *)
LEMMA Mode1 ==
  ASSUME NEW u \in Timers, u.mode = 1
  PROVE  Advanced(u, Count1(u))
<1> DEFINE l == Up(u.tl)
           h == IF Up(u.tl) = 0 THEN Up(u.th) ELSE u.th
           v == [u EXCEPT !.tl = l, !.th = h]
           c == Count1(u)
           whole == Base * Base
<1>1. u.tl \in Byte /\ u.th \in Byte /\ 0 \in Byte
  BY LowFits DEF Timers
<1>2. /\ l \in Byte /\ l = IF u.tl = Base - 1 THEN 0 ELSE u.tl + 1
      /\ Up(u.th) \in Byte /\ Up(u.th) = IF u.th = Base - 1 THEN 0 ELSE u.th + 1
  BY <1>1, UpIs
<1>3. h \in Byte
  BY <1>1, <1>2
<1>4. Goes(u, l, h, v)
  BY <1>1, <1>2, <1>3, RegistersSet
<1>5. c = IF v.tl = 0 /\ v.th = 0 THEN Overflow(v) ELSE v
  <2>1. v = [u EXCEPT !.tl = Up(@), !.th = IF Up(u.tl) = 0 THEN Up(@) ELSE @]
    BY DEF Timers
  <2> QED
    BY <2>1 DEF Count1
<1>6. u.overflows \in Nat /\ Base \in Nat \ {0} /\ whole \in Nat
  BY ByteAssumption DEF Timers
<1>7. /\ u.th * Base + u.tl \in 0..(whole - 1)
      /\ u.th * Base + u.tl = whole - 1 <=> u.th = Base - 1 /\ u.tl = Base - 1
  BY <1>1, Highest
<1>8. ~(u.th = Base - 1 /\ u.tl = Base - 1) => h * Base + l = u.th * Base + u.tl + 1
  <2>1. u.tl = Base - 1 <=> l = 0
    BY <1>1, <1>2, <1>6 DEF Byte
  <2>2. h = IF u.tl = Base - 1 THEN Up(u.th) ELSE u.th
    BY <2>1
  <2> QED
    BY <1>1, <2>2, CarriesOver
<1>9. u.th = Base - 1 /\ u.tl = Base - 1 <=> l = 0 /\ h = 0
  BY <1>1, <1>2, <1>6 DEF Byte
<1>10. 0 * Base + 0 = 0
  BY <1>6
<1> HIDE DEF l, h, v, c, whole
<1>11. v \in Timers /\ SetupKept(u, v) /\ v.tl = l /\ v.th = h /\ v.overflows = u.overflows
  BY <1>4 DEF Goes
<1>12. Position(u) = u.th * Base + u.tl /\ PeriodCounts(u) = whole /\ Steady(u)
       /\ Value(u) = u.th * Base + u.tl /\ Width(u) = whole
  BY DEF Position, PeriodCounts, Steady, Value, Width, whole
<1>13. CASE l = 0 /\ h = 0
  <2>1. Ends(u, l, h, c)
    BY <1>2, <1>3, <1>4, <1>5, <1>11, <1>13, OverflowEnds
  <2>2. c \in Timers /\ SetupKept(u, c) /\ c.tl = 0 /\ c.th = 0 /\ c.overflows = u.overflows + 1
    BY <1>13, <2>1 DEF Ends
  <2>3. c.mode = 1
    BY <2>2 DEF SetupKept
  <2>4. Position(c) = 0 /\ PeriodCounts(c) = whole /\ Steady(c) /\ Value(c) = 0
    BY <1>10, <2>2, <2>3 DEF Position, PeriodCounts, Steady, Value, whole
  <2>5. u.th * Base + u.tl = whole - 1
    BY <1>7, <1>9, <1>13
  <2>6. Position(u) + 1 = PeriodCounts(u) /\ Value(c) = Value(u) + 1 - Width(u)
    BY <1>6, <1>12, <2>4, <2>5
  <2>7. c.overflows # u.overflows
    BY <1>6, <2>2
  <2>8. Advanced(u, c)
    BY <1>12, <2>2, <2>4, <2>6, <2>7 DEF Advanced
  <2> QED
    BY <2>8 DEF c
<1>14. CASE ~(l = 0 /\ h = 0)
  <2>1. c = v
    BY <1>5, <1>11, <1>14
  <2>2. c \in Timers /\ SetupKept(u, c) /\ c.tl = l /\ c.th = h /\ c.overflows = u.overflows
    BY <1>11, <2>1
  <2>3. c.mode = 1
    BY <2>2 DEF SetupKept
  <2>4. Position(c) = h * Base + l /\ PeriodCounts(c) = whole /\ Steady(c) /\ Value(c) = h * Base + l
    BY <2>2, <2>3 DEF Position, PeriodCounts, Steady, Value, whole
  <2>5. h * Base + l = u.th * Base + u.tl + 1
    BY <1>8, <1>9, <1>14
  <2>6. Position(c) = Position(u) + 1 /\ Value(c) = Value(u) + 1 - 0
    <3>1. Value(u) \in Nat
      BY <1>7, <1>12
    <3> QED
      BY <1>12, <2>4, <2>5, <3>1
  <2>8. Advanced(u, c)
    BY <1>12, <2>2, <2>4, <2>6 DEF Advanced
  <2> QED
    BY <2>8 DEF c
<1> QED
  BY <1>13, <1>14

(* A count of mode 2, which starts over from TH.                            *)
LEMMA Mode2 ==
  ASSUME NEW u \in Timers, u.mode = 2
  PROVE  Advanced(u, Count2(u))
<1> DEFINE l == Up(u.tl)
           c == Count2(u)
<1>1. u.tl \in Byte /\ u.th \in Byte /\ u.overflows \in Nat /\ Base \in Nat \ {0}
  BY ByteAssumption DEF Timers
<1>2. l \in Byte /\ l = IF u.tl = Base - 1 THEN 0 ELSE u.tl + 1
  BY <1>1, UpIs
<1>3. Position(u) = u.tl - u.th /\ PeriodCounts(u) = Base - u.th /\ (Steady(u) <=> u.th <= u.tl)
  BY DEF Position, PeriodCounts, Steady
<1>4. CASE l # 0
  <2>1. Goes(u, l, u.th, [u EXCEPT !.tl = l, !.th = u.th])
    BY <1>1, <1>2, RegistersSet
  <2>2. [u EXCEPT !.tl = l, !.th = u.th] = [u EXCEPT !.tl = l]
    BY DEF Timers
  <2>3. [u EXCEPT !.tl = l] = [u EXCEPT !.tl = Up(@)]
    BY DEF Timers
  <2>4. Goes(u, l, u.th, c)
    BY <1>4, <2>1, <2>2, <2>3 DEF Count2
  <2> HIDE DEF l, c
  <2>5. c \in Timers /\ SetupKept(u, c) /\ c.tl = l /\ c.th = u.th /\ c.overflows = u.overflows
    BY <2>4 DEF Goes
  <2>6. c.mode = 2
    BY <2>5 DEF SetupKept
  <2>7. Position(c) = l - u.th /\ PeriodCounts(c) = Base - u.th /\ (Steady(c) <=> u.th <= l)
    BY <2>5, <2>6 DEF Position, PeriodCounts, Steady
  <2>8. l = u.tl + 1
    BY <1>1, <1>2, <1>4 DEF Byte
  <2>9. Steady(u) => Steady(c) /\ Position(c) = Position(u) + 1
    BY <1>1, <1>3, <2>7, <2>8 DEF Byte
  <2>10. Advanced(u, c)
    BY <1>3, <2>5, <2>7, <2>9 DEF Advanced
  <2> QED
    BY <2>10 DEF c
<1>5. CASE l = 0
  <2>1. Goes(u, u.th, u.th, [u EXCEPT !.tl = u.th, !.th = u.th])
    BY <1>1, RegistersSet
  <2>2. [u EXCEPT !.tl = u.th, !.th = u.th] = [u EXCEPT !.tl = u.th]
    BY DEF Timers
  <2>3. Ends(u, u.th, u.th, Overflow([u EXCEPT !.tl = u.th]))
    BY <1>1, <2>1, <2>2, OverflowEnds
  <2>4. Ends(u, u.th, u.th, c)
    BY <1>5, <2>3 DEF Count2
  <2>5. u.tl = Base - 1
    BY <1>1, <1>2, <1>5 DEF Byte
  <2> HIDE DEF l, c
  <2>6. c \in Timers /\ SetupKept(u, c) /\ c.tl = u.th /\ c.th = u.th /\ c.overflows = u.overflows + 1
    BY <2>4 DEF Ends
  <2>7. c.mode = 2
    BY <2>6 DEF SetupKept
  <2>8. Position(c) = u.th - u.th /\ PeriodCounts(c) = Base - u.th /\ Steady(c)
    BY <1>1, <2>6, <2>7 DEF Position, PeriodCounts, Steady, Byte
  <2>9. Position(c) = 0 /\ Position(u) + 1 = PeriodCounts(u) /\ c.overflows # u.overflows
    BY <1>1, <1>3, <2>5, <2>6, <2>8 DEF Byte
  <2>10. Advanced(u, c)
    BY <1>3, <2>6, <2>8, <2>9 DEF Advanced
  <2> QED
    BY <2>10 DEF c
<1> QED
  BY <1>4, <1>5

(* A count of mode 3, the low byte alone.                                   *)
LEMMA Mode3 ==
  ASSUME NEW u \in Timers, u.mode = 3
  PROVE  Advanced(u, Count3(u))
<1> DEFINE l == Up(u.tl)
           c == Count3(u)
<1>1. u.tl \in Byte /\ u.th \in Byte /\ u.overflows \in Nat /\ Base \in Nat \ {0} /\ 0 \in Byte
  BY ByteAssumption, LowFits DEF Timers
<1>2. l \in Byte /\ l = IF u.tl = Base - 1 THEN 0 ELSE u.tl + 1
  BY <1>1, UpIs
<1>3. Position(u) = u.tl /\ PeriodCounts(u) = Base /\ Steady(u) /\ Value(u) = u.tl /\ Width(u) = Base
  BY DEF Position, PeriodCounts, Steady, Value, Width
<1>4. CASE l # 0
  <2>1. Goes(u, l, u.th, [u EXCEPT !.tl = l, !.th = u.th])
    BY <1>1, <1>2, RegistersSet
  <2>2. [u EXCEPT !.tl = l, !.th = u.th] = [u EXCEPT !.tl = l]
    BY DEF Timers
  <2>3. [u EXCEPT !.tl = l] = [u EXCEPT !.tl = Up(@)]
    BY DEF Timers
  <2>4. Goes(u, l, u.th, c)
    BY <1>4, <2>1, <2>2, <2>3 DEF Count3
  <2> HIDE DEF l, c
  <2>5. c \in Timers /\ SetupKept(u, c) /\ c.tl = l /\ c.th = u.th /\ c.overflows = u.overflows
    BY <2>4 DEF Goes
  <2>6. c.mode = 3
    BY <2>5 DEF SetupKept
  <2>7. Position(c) = l /\ PeriodCounts(c) = Base /\ Steady(c) /\ Value(c) = l
    BY <2>5, <2>6 DEF Position, PeriodCounts, Steady, Value
  <2>9. Position(c) = Position(u) + 1 /\ Value(c) = Value(u) + 1 - 0
    BY <1>1, <1>2, <1>3, <1>4, <2>7 DEF Byte
  <2>10. Advanced(u, c)
    BY <1>3, <2>5, <2>7, <2>9 DEF Advanced
  <2> QED
    BY <2>10 DEF c
<1>5. CASE l = 0
  <2>1. Goes(u, 0, u.th, [u EXCEPT !.tl = 0, !.th = u.th])
    BY <1>1, RegistersSet
  <2>2. [u EXCEPT !.tl = 0, !.th = u.th] = [u EXCEPT !.tl = 0]
    BY DEF Timers
  <2>3. Ends(u, 0, u.th, Overflow([u EXCEPT !.tl = 0]))
    BY <1>1, <2>1, <2>2, OverflowEnds
  <2>4. Ends(u, 0, u.th, c)
    BY <1>5, <2>3 DEF Count3
  <2>5. u.tl = Base - 1
    BY <1>1, <1>2, <1>5 DEF Byte
  <2> HIDE DEF l, c
  <2>6. c \in Timers /\ SetupKept(u, c) /\ c.tl = 0 /\ c.th = u.th /\ c.overflows = u.overflows + 1
    BY <2>4 DEF Ends
  <2>7. c.mode = 3
    BY <2>6 DEF SetupKept
  <2>8. Position(c) = 0 /\ PeriodCounts(c) = Base /\ Steady(c) /\ Value(c) = 0
    BY <2>6, <2>7 DEF Position, PeriodCounts, Steady, Value
  <2>9. Position(u) + 1 = PeriodCounts(u) /\ c.overflows # u.overflows /\ Value(c) = Value(u) + 1 - Width(u)
    BY <1>1, <1>3, <2>5, <2>6, <2>8 DEF Byte
  <2>10. Advanced(u, c)
    BY <1>3, <2>6, <2>8, <2>9 DEF Advanced
  <2> QED
    BY <2>10 DEF c
<1> QED
  BY <1>4, <1>5

(* A count of any mode moves the timer one place on, or ends its period.    *)
LEMMA CountAdvances ==
  ASSUME NEW u \in Timers
  PROVE  Advanced(u, Count(u))
<1>1. u.mode \in 0..3
  BY DEF Timers
<1>2. u.mode = 0 \/ u.mode = 1 \/ u.mode = 2 \/ u.mode = 3
  BY <1>1
<1>3. /\ u.mode = 0 => Count(u) = Count0(u)
      /\ u.mode = 1 => Count(u) = Count1(u)
      /\ u.mode = 2 => Count(u) = Count2(u)
      /\ u.mode = 3 => Count(u) = Count3(u)
  BY DEF Count
<1> QED
  BY <1>2, <1>3, Mode0, Mode1, Mode2, Mode3

(* Products grow with their factors.                                        *)
LEMMA ProductBound ==
  ASSUME NEW x \in Nat, NEW y \in Nat, NEW a \in Nat, NEW b \in Nat, x <= a, y <= b
  PROVE  x * y \in Nat /\ x * y <= a * b /\ a * b \in Nat
<1>1. PICK d \in Nat : a = x + d
  <2>1. a - x \in Nat /\ a = x + (a - x)
    OBVIOUS
  <2> QED
    BY <2>1
<1>2. PICK e \in Nat : b = y + e
  <2>1. b - y \in Nat /\ b = y + (b - y)
    OBVIOUS
  <2> QED
    BY <2>1
<1>3. a * b = x * y + x * e + d * y + d * e
  BY <1>1, <1>2
<1>4. x * y \in Nat /\ x * e \in Nat /\ d * y \in Nat /\ d * e \in Nat
  OBVIOUS
<1> QED
  BY <1>3, <1>4

(* Where in its period a timer stands.                                      *)
LEMMA PositionRange ==
  ASSUME NEW u \in Timers, Steady(u)
  PROVE  /\ PeriodCounts(u) \in 1..(Base * Base)
         /\ Position(u) \in 0..(PeriodCounts(u) - 1)
<1>1. u.tl \in Byte /\ u.th \in Byte /\ Base \in Nat \ {0} /\ Low \in Nat \ {0} /\ Low <= Base
  BY ByteAssumption, TimerAssumption, LowFits DEF Timers
<1>2. u.mode = 0 \/ u.mode = 1 \/ u.mode = 2 \/ u.mode = 3
  BY DEF Timers
<1>3. Base * Base \in Nat /\ Base <= Base * Base
  BY <1>1, ProductBound
<1>4. CASE u.mode = 0
  <2>1. Low * Base \in 1..(Base * Base)
    <3>1. Low * Base <= Base * Base /\ Low * Base \in Nat
      BY <1>1, ProductBound
    <3>2. 1 * 1 <= Low * Base
      BY <1>1, ProductBound
    <3> QED
      BY <1>3, <3>1, <3>2
  <2>2. u.th * Low + u.tl \in 0..(Low * Base - 1)
    <3>1. u.th \in Nat /\ u.th <= Base - 1 /\ Base - 1 \in Nat /\ u.tl \in 0..(Low - 1)
      BY <1>1, <1>4 DEF Byte, Steady
    <3>2. u.th * Low \in Nat /\ u.th * Low <= (Base - 1) * Low
      BY <1>1, <3>1, ProductBound
    <3>3. (Base - 1) * Low = Low * Base - Low
      BY <1>1
    <3> QED
      BY <1>1, <2>1, <3>1, <3>2, <3>3
  <2> QED
    BY <1>4, <2>1, <2>2 DEF Position, PeriodCounts
<1>5. CASE u.mode = 1
  <2>1. u.th * Base + u.tl \in 0..(Base * Base - 1)
    BY <1>1, Highest
  <2>2. Base * Base \in 1..(Base * Base)
    BY <1>1, <1>3
  <2> QED
    BY <1>5, <2>1, <2>2 DEF Position, PeriodCounts
<1>6. CASE u.mode = 2
  <2>1. u.th <= u.tl
    BY <1>6 DEF Steady
  <2>2. Base - u.th \in 1..(Base * Base) /\ u.tl - u.th \in 0..(Base - u.th - 1)
    BY <1>1, <1>3, <2>1 DEF Byte
  <2> QED
    BY <1>6, <2>2 DEF Position, PeriodCounts
<1>7. CASE u.mode = 3
  <2>2. Base \in 1..(Base * Base) /\ u.tl \in 0..(Base - 1)
    BY <1>1, <1>3 DEF Byte
  <2> QED
    BY <1>7, <2>2 DEF Position, PeriodCounts
<1> QED
  BY <1>2, <1>4, <1>5, <1>6, <1>7

(* What i counts make of a timer.                                           *)
AfterCounts(u, i, c) ==
  /\ c \in Timers /\ SetupKept(u, c)
  /\ u.overflows <= c.overflows /\ c.overflows <= u.overflows + i
  /\ u.mode \in {1, 3} =>
       Value(c) + Width(u) * c.overflows = Value(u) + Width(u) * u.overflows + i

(* What the registers hold is a number.                                     *)
LEMMA ValueRange ==
  ASSUME NEW u \in Timers
  PROVE  Value(u) \in Nat /\ Width(u) \in Nat
<1>1. u.tl \in Byte /\ u.th \in Byte /\ Base \in Nat \ {0}
  BY ByteAssumption DEF Timers
<1>2. u.th * Base + u.tl \in Nat /\ Base * Base \in Nat
  BY <1>1, Highest
<1> QED
  BY <1>1, <1>2 DEF Value, Width, Byte

(* One count more adds one to what is counted.                              *)
LEMMA OneCountMore ==
  ASSUME NEW u \in Timers, NEW i \in Nat, NEW c, AfterCounts(u, i, c)
  PROVE  AfterCounts(u, i + 1, Count(c))
<1> DEFINE d == Count(c)
<1>1. c \in Timers /\ SetupKept(u, c)
  BY DEF AfterCounts
<1>2. Advanced(c, d)
  BY <1>1, CountAdvances
<1> HIDE DEF d
<1>3. d \in Timers /\ SetupKept(c, d)
  BY <1>2 DEF Advanced
<1>4. SetupKept(u, d)
  BY <1>1, <1>3 DEF SetupKept
<1>5. /\ u.overflows \in Nat /\ c.overflows \in Nat /\ d.overflows \in Nat
      /\ u.overflows <= c.overflows /\ c.overflows <= u.overflows + i
      /\ d.overflows = c.overflows \/ d.overflows = c.overflows + 1
  BY <1>1, <1>2, <1>3 DEF AfterCounts, Advanced, Timers
<1>6. ASSUME u.mode \in {1, 3}
      PROVE  Value(d) + Width(u) * d.overflows = Value(u) + Width(u) * u.overflows + (i + 1)
  <2>1. c.mode = u.mode /\ Width(c) = Width(u)
    BY <1>1 DEF SetupKept, Width
  <2>2. Value(d) = Value(c) + 1 - (IF d.overflows = c.overflows THEN 0 ELSE Width(c))
    BY <1>2, <1>6, <2>1 DEF Advanced
  <2>3. Value(c) + Width(u) * c.overflows = Value(u) + Width(u) * u.overflows + i
    BY <1>6 DEF AfterCounts
  <2>4. Value(u) \in Nat /\ Value(c) \in Nat /\ Value(d) \in Nat /\ Width(u) \in Nat
    BY <1>1, <1>3, ValueRange
  <2>5. Width(u) * (c.overflows + 1) = Width(u) * c.overflows + Width(u)
    BY <1>5, <2>4
  <2>6. Width(u) * c.overflows \in Nat /\ Width(u) * u.overflows \in Nat
    BY <1>5, <2>4
  <2>7. CASE d.overflows = c.overflows
    <3>1. Value(d) = Value(c) + 1
      BY <2>2, <2>4, <2>7
    <3>2. Width(u) * d.overflows = Width(u) * c.overflows
      BY <2>7
    <3> DEFINE a == Width(u) * c.overflows
               b == Width(u) * u.overflows
               e == Width(u) * d.overflows
    <3> HIDE DEF a, b, e
    <3>3. a \in Nat /\ b \in Nat /\ e = a /\ Value(c) + a = Value(u) + b + i
      BY <2>3, <2>6, <3>2 DEF a, b, e
    <3>4. Value(d) + e = Value(u) + b + (i + 1)
      BY <2>4, <3>1, <3>3
    <3> QED
      BY <3>4 DEF b, e
  <2>8. CASE d.overflows = c.overflows + 1
    <3>1. d.overflows # c.overflows
      BY <1>5, <2>8
    <3>2. Value(d) = Value(c) + 1 - Width(u)
      BY <2>1, <2>2, <3>1
    <3> QED
      BY <2>3, <2>4, <2>5, <2>6, <2>8, <3>2
  <2> QED
    BY <1>5, <2>7, <2>8
<1>7. AfterCounts(u, i + 1, d)
  BY <1>3, <1>4, <1>5, <1>6 DEF AfterCounts
<1> QED
  BY <1>7 DEF d

(* A number of counts adds just as many.                                    *)
LEMMA CountsAre ==
  ASSUME NEW u \in Timers, NEW k \in Nat
  PROVE  AfterCounts(u, k, Counts(u, k))
<1> DEFINE F == [r \in Timers |-> Count(r)]
           Eq(g) == g = [n \in 0..k |-> IF n = 0 THEN u ELSE Count(g[n - 1])]
           f == CHOOSE g : Eq(g)
<1>1. F \in [Timers -> Timers]
  BY CountAdvances DEF Advanced
<1>2. \E g : Eq(g)
  <2>4. PICK g : Repetition(Timers, F, u, k, g)
    <3> HIDE DEF F
    <3> QED
      BY <1>1, Repeats
  <2>1. /\ g = [n \in 0..k |-> IF n = 0 THEN u ELSE F[g[n - 1]]]
        /\ \A i \in 0..k : g[i] \in Timers
    <3> HIDE DEF F
    <3> QED
      BY <2>4 DEF Repetition
  <2>2. \A n \in 0..k : (IF n = 0 THEN u ELSE F[g[n - 1]]) = (IF n = 0 THEN u ELSE Count(g[n - 1]))
    <3> SUFFICES ASSUME NEW n \in 0..k, n # 0 PROVE F[g[n - 1]] = Count(g[n - 1])
      OBVIOUS
    <3>1. n - 1 \in 0..k
      OBVIOUS
    <3>2. g[n - 1] \in Timers
      BY <2>1, <3>1
    <3> QED
      BY <3>2
  <2>3. Eq(g)
    <3> HIDE DEF F
    <3> QED
      BY <2>1, <2>2
  <2> HIDE DEF Eq
  <2> QED
    BY <2>3
<1>3. Eq(f)
  <2> HIDE DEF Eq
  <2> QED
    BY <1>2
<1>4. Counts(u, k) = f[k]
  BY DEF Counts
<1> HIDE DEF f
<1>5. f[0] = u
  BY <1>3
<1>6. \A i \in 0..k : i < k => f[i + 1] = Count(f[i])
  <2> SUFFICES ASSUME NEW i \in 0..k, i < k PROVE f[i + 1] = Count(f[i])
    OBVIOUS
  <2>1. i + 1 \in 0..k /\ i + 1 # 0 /\ (i + 1) - 1 = i
    OBVIOUS
  <2> QED
    BY <1>3, <2>1
<1> HIDE DEF Eq
<1> DEFINE P == {i \in 0..k : AfterCounts(u, i, f[i])}
<1>7. 0 \in P
  <2>1. SetupKept(u, u) /\ u.overflows \in Nat
    BY DEF SetupKept, Timers
  <2>2. Value(u) \in Nat /\ Width(u) \in Nat
    BY ValueRange
  <2>3. Value(u) + Width(u) * u.overflows = Value(u) + Width(u) * u.overflows + 0
    BY <2>1, <2>2
  <2>4. AfterCounts(u, 0, u)
    BY <2>1, <2>3 DEF AfterCounts
  <2> QED
    BY <1>5, <2>4
<1>8. \A i \in 0..k : i \in P /\ i < k => i + 1 \in P
  BY <1>6, OneCountMore
<1> HIDE DEF P
<1>9. 0..k \subseteq P
  BY <1>7, <1>8, UpTo
<1>10. AfterCounts(u, k, f[k])
  BY <1>9 DEF P
<1> QED
  BY <1>4, <1>10

(* TH counting alone disturbs nothing that the lower half does.             *)
SameRun(w, x) ==
  /\ x \in Timers /\ SetupKept(w, x) /\ x.overflows = w.overflows
  /\ Position(x) = Position(w) /\ PeriodCounts(x) = PeriodCounts(w) /\ (Steady(x) <=> Steady(w))
  /\ Value(x) = Value(w)

(* TH counting alone is such a count.                                       *)
LEMMA HighApart ==
  ASSUME NEW w \in Timers
  PROVE  SameRun(w, CountHigh(w))
<1>1. CASE w.mode # 3 \/ 1 \notin w.tr
  BY <1>1 DEF CountHigh, SameRun, SetupKept
<1>2. CASE w.mode = 3 /\ 1 \in w.tr
  <2> DEFINE h == Up(w.th)
             flags == IF Up(w.th) = 0 THEN w.tf \cup {1} ELSE w.tf
             x == [w EXCEPT !.th = h, !.tf = flags]
  <2>1. h \in Byte /\ flags \in SUBSET {0, 1}
    BY UpIs DEF Timers
  <2>2. CountHigh(w) = x
    <3>1. [w EXCEPT !.th = Up(@), !.tf = IF Up(w.th) = 0 THEN @ \cup {1} ELSE @] = x
      BY DEF Timers
    <3> QED
      BY <1>2, <3>1 DEF CountHigh
  <2> HIDE DEF h, flags
  <2>3. x \in Timers
    BY <2>1 DEF Timers
  <2>4. SetupKept(w, x) /\ x.overflows = w.overflows /\ x.tl = w.tl
    BY DEF SetupKept, Timers
  <2> HIDE DEF x
  <2>5. x.mode = 3
    BY <1>2, <2>4 DEF SetupKept
  <2>6. Position(x) = Position(w) /\ PeriodCounts(x) = PeriodCounts(w) /\ Steady(x) /\ Steady(w)
        /\ Value(x) = Value(w)
    BY <1>2, <2>4, <2>5 DEF Position, PeriodCounts, Steady, Value
  <2> QED
    BY <2>2, <2>3, <2>4, <2>6 DEF SameRun
<1> QED
  BY <1>1, <1>2

(* The cycle counts.                                                        *)
CountsNow(u) == u.one_t \/ (u.prescaler + 1) % Prescale = 0

NextPrescaler(u) == IF u.one_t THEN u.prescaler ELSE (u.prescaler + 1) % Prescale

(* The prescaler comes round in Prescale cycles.                            *)
LEMMA PrescalerIs ==
  ASSUME NEW u \in Timers
  PROVE  /\ NextPrescaler(u) \in 0..(Prescale - 1)
         /\ ~u.one_t /\ ~CountsNow(u) => NextPrescaler(u) = u.prescaler + 1
         /\ ~u.one_t /\ CountsNow(u) => NextPrescaler(u) = 0 /\ u.prescaler = Prescale - 1
<1>1. u.prescaler \in 0..(Prescale - 1) /\ Prescale \in Nat \ {0} /\ u.one_t \in BOOLEAN
  BY ByteAssumption DEF Timers
<1>2. CASE u.prescaler + 1 = Prescale
  <2>1. (u.prescaler + 1) % Prescale = 0
    BY <1>1, <1>2
  <2> QED
    BY <1>1, <1>2, <2>1 DEF NextPrescaler, CountsNow
<1>3. CASE u.prescaler + 1 < Prescale
  <2>1. u.prescaler + 1 = 0 * Prescale + (u.prescaler + 1) /\ u.prescaler + 1 \in 0..(Prescale - 1)
    BY <1>1, <1>3
  <2>2. (u.prescaler + 1) % Prescale = u.prescaler + 1
    BY <1>1, <2>1, DivUnique
  <2> QED
    BY <1>1, <1>3, <2>2 DEF NextPrescaler, CountsNow
<1> QED
  BY <1>1, <1>2, <1>3

Prescaled(u) == [u EXCEPT !.prescaler = NextPrescaler(u)]

(* A cycle moves the prescaler and nothing else yet.                        *)
LEMMA PrescaledIs ==
  ASSUME NEW u \in Timers
  PROVE  LET v == Prescaled(u)
         IN /\ v \in Timers /\ v.prescaler = NextPrescaler(u)
            /\ v.id = u.id /\ v.mode = u.mode /\ v.GATE = u.GATE /\ v.C_T = u.C_T /\ v.tr = u.tr
            /\ v.T_edge = u.T_edge /\ v.pins = u.pins /\ v.one_t = u.one_t
            /\ v.tl = u.tl /\ v.th = u.th /\ v.overflows = u.overflows
<1> DEFINE n == NextPrescaler(u)
<1>1. n \in 0..(Prescale - 1)
  BY PrescalerIs
<1>2. Prescaled(u) = [u EXCEPT !.prescaler = n]
  BY DEF Prescaled
<1> HIDE DEF n
<1>3. Prescaled(u) \in Timers
  BY <1>1, <1>2 DEF Timers
<1>4. Prescaled(u).prescaler = n
  BY <1>2 DEF Timers
<1>5. LET v == Prescaled(u)
      IN /\ v.id = u.id /\ v.mode = u.mode /\ v.GATE = u.GATE /\ v.C_T = u.C_T /\ v.tr = u.tr
         /\ v.T_edge = u.T_edge /\ v.pins = u.pins /\ v.one_t = u.one_t
         /\ v.tl = u.tl /\ v.th = u.th /\ v.overflows = u.overflows
  BY <1>2 DEF Timers
<1> QED
  BY <1>3, <1>4, <1>5 DEF n

(* A cycle of a timer that is not to count, ...                             *)
LEMMA TickPrescales ==
  ASSUME NEW u \in Timers, ~CountsNow(u)
  PROVE  TickTimer(u) = Prescaled(u)
<1>1. u.one_t \in BOOLEAN /\ ~u.one_t /\ (u.prescaler + 1) % Prescale # 0
  BY DEF CountsNow, Timers
<1>2. [u EXCEPT !.prescaler = IF u.one_t THEN @ ELSE (@ + 1) % Prescale] = Prescaled(u)
  BY DEF Prescaled, NextPrescaler, Timers
<1>3. Prescaled(u).prescaler = (u.prescaler + 1) % Prescale
  BY <1>1, PrescaledIs DEF NextPrescaler
<1> QED
  BY <1>1, <1>2, <1>3 DEF TickTimer

(* ... and of one that is.                                                  *)
LEMMA TickCounts ==
  ASSUME NEW u \in Timers, CountsNow(u)
  PROVE  TickTimer(u) = CountHigh(CountMain(Prescaled(u)))
<1>2. [u EXCEPT !.prescaler = IF u.one_t THEN @ ELSE (@ + 1) % Prescale] = Prescaled(u)
  BY DEF Prescaled, NextPrescaler, Timers
<1>3. ~u.one_t => Prescaled(u).prescaler = (u.prescaler + 1) % Prescale
  BY PrescaledIs DEF NextPrescaler
<1> QED
  BY <1>2, <1>3 DEF TickTimer, CountsNow

(* What CountMain makes of a timer.                                         *)
Mains(v, w) ==
  /\ w \in Timers
  /\ w.id = v.id /\ w.mode = v.mode /\ w.GATE = v.GATE /\ w.C_T = v.C_T /\ w.tr = v.tr
  /\ w.pins = v.pins /\ w.one_t = v.one_t /\ w.prescaler = v.prescaler
  /\ w.T_edge = v.T_edge \/ w.T_edge = 0
  /\ v.overflows <= w.overflows /\ w.overflows <= v.overflows + MaxEdge + 1
  /\ ~Counting(v) => w = v
  /\ Running(v) => Advanced(v, w)
  /\ v.C_T /\ v.mode \in {1, 3} =>
       Value(w) + Width(v) * w.overflows + w.T_edge = Value(v) + Width(v) * v.overflows + v.T_edge

(* The lower half counts the clock, or the edges that wait.                 *)
LEMMA MainIs ==
  ASSUME NEW v \in Timers
  PROVE  Mains(v, CountMain(v))
<1>0. v.overflows \in Nat /\ v.T_edge \in 0..MaxEdge /\ MaxEdge \in Nat /\ v.C_T \in BOOLEAN
  BY TimerAssumption DEF Timers
<1>1. CASE ~Counting(v)
  <2>1. CountMain(v) = v
    BY <1>1 DEF CountMain
  <2> QED
    BY <1>0, <1>1, <2>1 DEF Mains, Running
<1>2. CASE Counting(v) /\ ~v.C_T
  <2> DEFINE w == Count(v)
  <2>1. CountMain(v) = w
    BY <1>2 DEF CountMain
  <2>2. Advanced(v, w)
    BY CountAdvances
  <2> HIDE DEF w
  <2>3. w \in Timers /\ SetupKept(v, w) /\ (w.overflows = v.overflows \/ w.overflows = v.overflows + 1)
    BY <2>2 DEF Advanced
  <2>4. v.overflows <= w.overflows /\ w.overflows <= v.overflows + MaxEdge + 1
    BY <1>0, <2>3
  <2> QED
    BY <1>2, <2>1, <2>2, <2>3, <2>4 DEF Mains, SetupKept
<1>3. CASE Counting(v) /\ v.C_T
  <2> DEFINE u == [v EXCEPT !.T_edge = 0]
             w == Counts(u, v.T_edge)
  <2>1. CountMain(v) = w
    BY <1>3 DEF CountMain
  <2>2. /\ u \in Timers /\ u.T_edge = 0 /\ u.tl = v.tl /\ u.th = v.th /\ u.overflows = v.overflows
        /\ u.id = v.id /\ u.mode = v.mode /\ u.GATE = v.GATE /\ u.C_T = v.C_T /\ u.tr = v.tr
        /\ u.pins = v.pins /\ u.one_t = v.one_t /\ u.prescaler = v.prescaler
    BY <1>0 DEF Timers
  <2> HIDE DEF u
  <2>3. AfterCounts(u, v.T_edge, w)
    <3>1. v.T_edge \in Nat
      BY <1>0
    <3> QED
      BY <2>2, <3>1, CountsAre
  <2> HIDE DEF w
  <2>4. w \in Timers /\ SetupKept(u, w) /\ u.overflows <= w.overflows /\ w.overflows <= u.overflows + v.T_edge
    BY <2>3 DEF AfterCounts
  <2>5. w.T_edge = 0 /\ w.overflows \in Nat
    BY <2>2, <2>4 DEF SetupKept, Timers
  <2>6. v.overflows <= w.overflows /\ w.overflows <= v.overflows + MaxEdge + 1
    BY <1>0, <2>2, <2>4, <2>5
  <2>7. ASSUME v.mode \in {1, 3}
        PROVE  Value(w) + Width(v) * w.overflows + w.T_edge = Value(v) + Width(v) * v.overflows + v.T_edge
    <3>1. Value(u) = Value(v) /\ Width(u) = Width(v)
      BY <2>2 DEF Value, Width
    <3>2. Value(w) + Width(u) * w.overflows = Value(u) + Width(u) * u.overflows + v.T_edge
      BY <2>2, <2>3, <2>7 DEF AfterCounts
    <3>3. Value(w) \in Nat /\ Width(u) \in Nat
      BY <2>2, <2>4, ValueRange
    <3>4. Width(u) * w.overflows \in Nat
      BY <2>5, <3>3
    <3>5. Value(w) + Width(u) * w.overflows + 0 = Value(w) + Width(u) * w.overflows
      BY <3>3, <3>4
    <3> QED
      BY <2>2, <2>5, <3>1, <3>2, <3>5
  <2>8. ~Running(v)
    BY <1>3 DEF Running
  <2>9. /\ w.id = v.id /\ w.mode = v.mode /\ w.GATE = v.GATE /\ w.C_T = v.C_T /\ w.tr = v.tr
        /\ w.pins = v.pins /\ w.one_t = v.one_t /\ w.prescaler = v.prescaler
    BY <2>2, <2>4 DEF SetupKept
  <2> QED
    BY <1>3, <2>1, <2>4, <2>5, <2>6, <2>7, <2>8, <2>9 DEF Mains
<1> QED
  BY <1>0, <1>1, <1>2, <1>3

(* What a cycle makes of a timer.                                           *)
Ticked(u, x) ==
  /\ x \in Timers
  /\ x.id = u.id /\ x.mode = u.mode /\ x.GATE = u.GATE /\ x.C_T = u.C_T /\ x.tr = u.tr
  /\ x.pins = u.pins /\ x.one_t = u.one_t /\ x.prescaler = NextPrescaler(u)
  /\ x.overflows <= MaxEdge + 1
  /\ ~CountsNow(u) => x.overflows = 0 /\ x.tl = u.tl /\ x.th = u.th
  /\ CountsNow(u) /\ Running(u) =>
       /\ Steady(u) => /\ Steady(x) /\ PeriodCounts(x) = PeriodCounts(u)
                       /\ IF x.overflows = 0 THEN Position(x) = Position(u) + 1
                          ELSE Position(u) + 1 = PeriodCounts(u)
       /\ x.overflows # 0 => Steady(x) /\ Position(x) = 0
  /\ u.C_T /\ u.mode \in {1, 3} =>
       Value(x) + Width(u) * x.overflows + x.T_edge = Value(u) + u.T_edge

(* What a whole cycle does.                                                 *)
LEMMA CycleIs ==
  ASSUME NEW u \in Timers, u.overflows = 0
  PROVE  Ticked(u, TickTimer(u))
<1> DEFINE v == Prescaled(u)
           n == NextPrescaler(u)
<1>1. /\ v \in Timers /\ v.prescaler = n
      /\ v.id = u.id /\ v.mode = u.mode /\ v.GATE = u.GATE /\ v.C_T = u.C_T /\ v.tr = u.tr
      /\ v.T_edge = u.T_edge /\ v.pins = u.pins /\ v.one_t = u.one_t
      /\ v.tl = u.tl /\ v.th = u.th /\ v.overflows = 0
  BY PrescaledIs
<1> HIDE DEF n
<1>2. Value(v) = Value(u) /\ Width(v) = Width(u) /\ Value(u) \in Nat /\ Width(u) \in Nat
  <2>1. Value(v) = Value(u) /\ Width(v) = Width(u)
    BY <1>1 DEF Value, Width
  <2> QED
    BY <2>1, ValueRange
<1>3. Width(v) * 0 = 0 /\ MaxEdge \in Nat /\ u.T_edge \in Nat /\ Value(u) + 0 = Value(u)
  BY <1>2, TimerAssumption DEF Timers
<1>4. CASE ~CountsNow(u)
  <2>1. TickTimer(u) = v
    BY <1>4, TickPrescales
  <2> HIDE DEF v
  <2>2. Value(v) + Width(u) * v.overflows + v.T_edge = Value(u) + u.T_edge
    BY <1>1, <1>2, <1>3
  <2>3. v.overflows <= MaxEdge + 1
    BY <1>1, <1>3
  <2> QED
    BY <1>1, <1>4, <2>1, <2>2, <2>3 DEF Ticked, n
<1>5. CASE CountsNow(u)
  <2> DEFINE w == CountMain(v)
             x == CountHigh(w)
  <2>1. TickTimer(u) = x
    BY <1>5, TickCounts
  <2>2. Mains(v, w)
    BY <1>1, MainIs
  <2> HIDE DEF v, w
  <2>3. w \in Timers
    BY <2>2 DEF Mains
  <2>4. SameRun(w, x)
    BY <2>3, HighApart
  <2> HIDE DEF x
  <2>5. x \in Timers /\ SetupKept(w, x) /\ x.overflows = w.overflows
    BY <2>4 DEF SameRun
  <2>6. /\ x.id = u.id /\ x.mode = u.mode /\ x.GATE = u.GATE /\ x.C_T = u.C_T /\ x.tr = u.tr
        /\ x.pins = u.pins /\ x.one_t = u.one_t /\ x.prescaler = n /\ x.T_edge = w.T_edge
    BY <1>1, <2>2, <2>5 DEF Mains, SetupKept
  <2>7. x.overflows <= MaxEdge + 1 /\ x.overflows \in Nat
    <3>1. w.overflows <= 0 + MaxEdge + 1
      BY <1>1, <2>2 DEF Mains
    <3> QED
      BY <1>3, <2>5, <3>1 DEF Timers
  <2>8. ASSUME Running(u)
        PROVE  /\ Steady(u) => /\ Steady(x) /\ PeriodCounts(x) = PeriodCounts(u)
                               /\ IF x.overflows = 0 THEN Position(x) = Position(u) + 1
                                  ELSE Position(u) + 1 = PeriodCounts(u)
               /\ x.overflows # 0 => Steady(x) /\ Position(x) = 0
    <3>1. Running(v)
      BY <1>1, <2>8 DEF Running, Counting
    <3>2. Advanced(v, w)
      BY <2>2, <3>1 DEF Mains
    <3>3. (Steady(v) <=> Steady(u)) /\ Position(v) = Position(u) /\ PeriodCounts(v) = PeriodCounts(u)
      BY <1>1 DEF Steady, Position, PeriodCounts
    <3>4. Position(x) = Position(w) /\ PeriodCounts(x) = PeriodCounts(w) /\ (Steady(x) <=> Steady(w))
      BY <2>4 DEF SameRun
    <3>5. Steady(v) => /\ Steady(w) /\ PeriodCounts(w) = PeriodCounts(v)
                       /\ IF w.overflows = v.overflows THEN Position(w) = Position(v) + 1
                          ELSE Position(v) + 1 = PeriodCounts(v)
      BY <3>2 DEF Advanced
    <3>6. w.overflows # v.overflows => Steady(w) /\ Position(w) = 0
      BY <3>2 DEF Advanced
    <3> QED
      BY <1>1, <2>5, <3>3, <3>4, <3>5, <3>6
  <2>9. ASSUME u.C_T, u.mode \in {1, 3}
        PROVE  Value(x) + Width(u) * x.overflows + x.T_edge = Value(u) + u.T_edge
    <3>1. Value(w) + Width(v) * w.overflows + w.T_edge = Value(v) + Width(v) * v.overflows + v.T_edge
      BY <1>1, <2>2, <2>9 DEF Mains
    <3>2. Value(x) = Value(w)
      BY <2>4 DEF SameRun
    <3>3. Value(v) + Width(v) * v.overflows + v.T_edge = Value(u) + u.T_edge
      BY <1>1, <1>2, <1>3
    <3> QED
      BY <1>2, <2>5, <2>6, <3>1, <3>2, <3>3
  <2> QED
    BY <1>5, <2>1, <2>5, <2>6, <2>7, <2>8, <2>9 DEF Ticked, n
<1> QED
  BY <1>4, <1>5

(* The cycles that the prescaler has counted of the next count.             *)
Fraction(u) == IF u.one_t THEN 0 ELSE u.prescaler

(* The inductive invariant: an undisturbed timer stands where the cycles    *)
(* since its last overflow put it.                                          *)
TimerStands ==
  since # -1 =>
    Running(t) /\ Steady(t) /\ since \in Nat /\ since = Clocks(t) * Position(t) + Fraction(t)

TimerInv ==
  /\ t \in Timer /\ inst \in {"tick", "write", "port"} /\ since \in Int
  /\ TimerStands

(* The timer is one of these timers.                                        *)
LEMMA TimerIsTimers ==
  /\ t \in Timer => t \in Timers /\ t.overflows \in 0..(MaxEdge + 1)
  /\ \A u \in Timers : u.overflows <= MaxEdge + 1 => u \in Timer
<1>1. MaxEdge \in Nat
  BY TimerAssumption
<1>2. t \in Timer => t \in Timers /\ t.overflows \in 0..(MaxEdge + 1)
  <2> SUFFICES ASSUME t \in Timer PROVE t \in Timers /\ t.overflows \in 0..(MaxEdge + 1)
    OBVIOUS
  <2>1. t.overflows \in 0..(MaxEdge + 1)
    BY DEF Timer
  <2>2. t.overflows \in Nat
    BY <1>1, <2>1
  <2> QED
    BY <2>1, <2>2 DEF Timer, Timers
<1>3. ASSUME NEW u \in Timers, u.overflows <= MaxEdge + 1 PROVE u \in Timer
  <2>1. u.overflows \in 0..(MaxEdge + 1)
    BY <1>1, <1>3 DEF Timers
  <2> QED
    BY <2>1 DEF Timer, Timers
<1> QED
  BY <1>2, <1>3

ClockIs(u) == Clocks(u) \in 1..Prescale /\ Fraction(u) \in 0..(Clocks(u) - 1)

(* The cycles one count takes, and the part of them that is done.           *)
LEMMA ClocksAre ==
  ASSUME NEW u \in Timers
  PROVE  ClockIs(u) /\ (~u.one_t => Clocks(u) = Prescale)
<1>1. u.one_t \in BOOLEAN /\ u.prescaler \in 0..(Prescale - 1) /\ Prescale \in Nat \ {0}
  BY ByteAssumption DEF Timers
<1> QED
  BY <1>1 DEF ClockIs, Clocks, Fraction

(* A period is so many counts of so many cycles.                            *)
LEMMA PeriodIs ==
  ASSUME NEW u \in Timers
  PROVE  Period(u) = Clocks(u) * PeriodCounts(u)
BY DEF Period, PeriodCounts

(* Where it stands is within its period.                                    *)
LEMMA WithinPeriod ==
  ASSUME NEW u \in Timers, Steady(u)
  PROVE  LET s == Clocks(u) * Position(u) + Fraction(u)
         IN s \in Nat /\ s < Period(u) /\ Period(u) \in Nat /\ Period(u) <= Base * Base * Prescale
<1> DEFINE k == Clocks(u)
           p == Position(u)
           f == Fraction(u)
           m == PeriodCounts(u)
           b == Base * Base
<1>1. k \in 1..Prescale /\ f \in 0..(k - 1) /\ Prescale \in Nat \ {0}
  BY ClocksAre, ByteAssumption DEF ClockIs
<1>2. m \in 1..b /\ p \in 0..(m - 1)
  BY PositionRange
<1>3. Period(u) = k * m /\ b \in Nat
  BY PeriodIs, LowFits
<1> HIDE DEF k, p, f, m, b
<1>4. p + 1 \in Nat /\ m \in Nat /\ k \in Nat /\ p \in Nat /\ k <= Prescale /\ m <= b /\ p + 1 <= m
  BY <1>1, <1>2
<1>5. k * (p + 1) <= k * m /\ k * m \in Nat
  BY <1>4, ProductBound
<1>6. k * m <= Prescale * b
  BY <1>1, <1>3, <1>4, ProductBound
<1>7. k * (p + 1) = k * p + k /\ k * p \in Nat /\ Prescale * b = b * Prescale
  BY <1>1, <1>3, <1>4
<1>8. k * p + f \in Nat /\ k * p + f < k * m
  BY <1>1, <1>4, <1>5, <1>7
<1> QED
  BY <1>3, <1>5, <1>6, <1>7, <1>8 DEF k, p, f, b

(* A timer that stands so has its types.                                    *)
LEMMA TimerInvTyped == TimerInv => TimerTypeOK
<1> SUFFICES ASSUME TimerInv PROVE TimerTypeOK
  OBVIOUS
<1>1. t \in Timers
  BY TimerIsTimers DEF TimerInv
<1>2. Base * Base * Prescale \in Nat
  BY ByteAssumption
<1>3. since \in -1..(Base * Base * Prescale)
  <2>1. CASE since = -1
    BY <1>2, <2>1
  <2>2. CASE since # -1
    <3>1. Steady(t) /\ since = Clocks(t) * Position(t) + Fraction(t)
      BY <2>2 DEF TimerInv, TimerStands
    <3> DEFINE top == Base * Base * Prescale
    <3>2. since \in Nat /\ since < Period(t) /\ Period(t) \in Nat /\ Period(t) <= top
      BY <1>1, <3>1, WithinPeriod
    <3> HIDE DEF top
    <3>3. top \in Nat
      BY <1>2 DEF top
    <3>4. since \in -1..top
      BY <3>2, <3>3
    <3> QED
      BY <3>4 DEF top
  <2> QED
    BY <2>1, <2>2
<1> QED
  BY <1>3 DEF TimerInv, TimerTypeOK

(* A cycle as Tick makes it.                                                *)
LEMMA TickIs ==
  ASSUME TimerInv, Tick
  PROVE  LET u == [t EXCEPT !.overflows = 0]
         IN /\ u \in Timers /\ Ticked(u, t') /\ t' \in Timer /\ t' \in Timers
            /\ (Running(u) <=> Running(t)) /\ (Steady(u) <=> Steady(t))
            /\ Position(u) = Position(t) /\ PeriodCounts(u) = PeriodCounts(t)
            /\ Clocks(u) = Clocks(t) /\ Fraction(u) = Fraction(t)
            /\ Value(u) = Value(t) /\ Width(u) = Width(t)
            /\ u.C_T = t.C_T /\ u.mode = t.mode /\ u.T_edge = t.T_edge /\ u.pins = t.pins
            /\ u.one_t = t.one_t /\ u.prescaler = t.prescaler
<1> DEFINE u == [t EXCEPT !.overflows = 0]
<1>1. t \in Timers
  BY TimerIsTimers DEF TimerInv
<1>2. /\ u \in Timers /\ u.overflows = 0 /\ u.T_edge = t.T_edge /\ u.tl = t.tl /\ u.th = t.th
      /\ u.id = t.id /\ u.mode = t.mode /\ u.GATE = t.GATE /\ u.C_T = t.C_T /\ u.tr = t.tr
      /\ u.pins = t.pins /\ u.one_t = t.one_t /\ u.prescaler = t.prescaler
  BY <1>1 DEF Timers
<1>3. t' = TickTimer(u)
  BY DEF Tick
<1> HIDE DEF u
<1>4. Ticked(u, t')
  BY <1>2, <1>3, CycleIs
<1>5. t' \in Timers /\ t'.overflows <= MaxEdge + 1
  BY <1>4 DEF Ticked
<1>6. t' \in Timer
  BY <1>5, TimerIsTimers
<1>7. /\ (Running(u) <=> Running(t)) /\ (Steady(u) <=> Steady(t))
      /\ Position(u) = Position(t) /\ PeriodCounts(u) = PeriodCounts(t)
      /\ Clocks(u) = Clocks(t) /\ Fraction(u) = Fraction(t)
      /\ Value(u) = Value(t) /\ Width(u) = Width(t)
  BY <1>2 DEF Running, Counting, Steady, Position, PeriodCounts, Clocks, Fraction, Value, Width
<1> QED
  BY <1>2, <1>4, <1>5, <1>6, <1>7 DEF u

(* What a step owes of the overflows.                                       *)
PeriodKept ==
  /\ inst' = "tick" /\ since # -1 /\ since' = 0 => since + 1 = Period(t)
  /\ since' < Period(t')

(* What a cycle does to the measurement.                                    *)
LEMMA TickTimes ==
  ASSUME TimerInv, Tick
  PROVE  TimerStands' /\ since' \in Int
         /\ (since # -1 /\ since' = 0 => since + 1 = Period(t))
<1> DEFINE u == [t EXCEPT !.overflows = 0]
<1>1. /\ u \in Timers /\ Ticked(u, t') /\ t' \in Timer /\ t' \in Timers
      /\ (Running(u) <=> Running(t)) /\ (Steady(u) <=> Steady(t))
      /\ Position(u) = Position(t) /\ PeriodCounts(u) = PeriodCounts(t)
      /\ Clocks(u) = Clocks(t) /\ Fraction(u) = Fraction(t) /\ u.one_t = t.one_t
  BY TickIs
<1> HIDE DEF u
<1>2. t \in Timers /\ since \in Int
  BY TimerIsTimers DEF TimerInv
<1>3. Running(t') <=> Running(t)
  BY <1>1 DEF Ticked, Running, Counting
<1>4. t'.overflows \in Nat
  BY <1>1 DEF Timers
<1>5. Clocks(t') = Clocks(t)
  BY <1>1 DEF Ticked, Clocks
<1>6. CASE ~Running(t)
  <2>1. since' = -1
    BY <1>6 DEF Tick
  <2> QED
    BY <2>1 DEF TimerStands
<1>7. CASE Running(t) /\ t'.overflows > 0
  <2>1. since' = 0
    BY <1>7 DEF Tick
  <2>2. t'.overflows # 0
    BY <1>4, <1>7
  <2>3. CountsNow(u)
    BY <1>1, <2>2 DEF Ticked
  <2>4. Steady(t') /\ Position(t') = 0
    BY <1>1, <1>7, <2>2, <2>3 DEF Ticked
  <2>5. Fraction(t') = 0
    BY <1>1, <2>3, PrescalerIs DEF Ticked, Fraction
  <2>6. Clocks(t') \in Nat
    BY <1>1, ClocksAre DEF ClockIs
  <2>7. Clocks(t') * 0 + 0 = 0
    BY <2>6
  <2>8. TimerStands'
    BY <1>3, <1>7, <2>1, <2>4, <2>5, <2>7 DEF TimerStands
  <2>9. ASSUME since # -1 PROVE since + 1 = Period(t)
    <3>1. Steady(t) /\ since \in Nat /\ since = Clocks(t) * Position(t) + Fraction(t)
      BY <2>9 DEF TimerInv, TimerStands
    <3>2. Position(t) + 1 = PeriodCounts(t)
      BY <1>1, <1>7, <2>2, <2>3, <3>1 DEF Ticked
    <3>3. Fraction(u) + 1 = Clocks(u)
      <4>1. u.one_t \in BOOLEAN /\ u.prescaler \in 0..(Prescale - 1) /\ Prescale \in Nat \ {0}
        BY <1>1, ByteAssumption DEF Timers
      <4> QED
        BY <1>1, <2>3, <4>1, PrescalerIs DEF Fraction, Clocks
    <3> DEFINE k == Clocks(t)
               p == Position(t)
               f == Fraction(t)
    <3>4. k \in Nat /\ p \in Nat /\ f \in Nat /\ f + 1 = k
      BY <1>1, <1>2, <3>1, <3>3, ClocksAre, PositionRange DEF ClockIs
    <3>5. Period(t) = k * (p + 1)
      BY <1>2, <3>2, PeriodIs
    <3> HIDE DEF k, p, f
    <3>6. k * (p + 1) = k * p + k /\ k * p \in Nat
      BY <3>4
    <3>7. since = k * p + f
      BY <3>1 DEF k, p, f
    <3> QED
      BY <3>4, <3>5, <3>6, <3>7
  <2> QED
    BY <2>1, <2>8, <2>9
<1>8. CASE Running(t) /\ ~(t'.overflows > 0) /\ since = -1
  <2>1. since' = -1
    BY <1>8 DEF Tick
  <2> QED
    BY <2>1 DEF TimerStands
<1>9. CASE Running(t) /\ ~(t'.overflows > 0) /\ since # -1
  <2>1. since' = since + 1 /\ t'.overflows = 0
    BY <1>4, <1>9 DEF Tick
  <2>2. Steady(t) /\ since \in Nat /\ since = Clocks(t) * Position(t) + Fraction(t)
    BY <1>9 DEF TimerInv, TimerStands
  <2>3. since' \in Nat /\ since' # 0
    BY <2>1, <2>2
  <2> DEFINE k == Clocks(t)
             p == Position(t)
             f == Fraction(t)
  <2>4. k \in Nat /\ p \in Nat /\ f \in 0..(k - 1)
    BY <1>2, <2>2, ClocksAre, PositionRange DEF ClockIs
  <2>5. k * (p + 1) = k * p + k /\ k * p \in Nat
    BY <2>4
  <2>6. since = k * p + f
    BY <2>2
  <2>7. u.one_t \in BOOLEAN /\ u.prescaler \in 0..(Prescale - 1) /\ Prescale \in Nat \ {0}
    BY <1>1, ByteAssumption DEF Timers
  <2>8. t'.prescaler = NextPrescaler(u) /\ t'.one_t = u.one_t
    BY <1>1 DEF Ticked
  <2>9. CASE CountsNow(u)
    <3>1. Steady(t') /\ Position(t') = p + 1
      BY <1>1, <1>9, <2>1, <2>2, <2>9 DEF Ticked
    <3>2. Fraction(t') = 0 /\ f + 1 = k
      BY <1>1, <2>7, <2>8, <2>9, PrescalerIs DEF Fraction, Clocks
    <3> HIDE DEF k, p, f
    <3>3. since' = k * (p + 1) + 0
      BY <2>1, <2>4, <2>5, <2>6, <3>2
    <3>4. since' = Clocks(t') * Position(t') + Fraction(t')
      BY <1>5, <3>1, <3>2, <3>3 DEF k
    <3> QED
      BY <1>3, <1>9, <2>3, <3>1, <3>4 DEF TimerStands
  <2>10. CASE ~CountsNow(u)
    <3>1. t'.tl = u.tl /\ t'.th = u.th /\ t'.mode = u.mode
      BY <1>1, <2>10 DEF Ticked
    <3>2. (Steady(t') <=> Steady(t)) /\ Position(t') = p
      BY <1>1, <3>1 DEF Steady, Position
    <3>3. Fraction(t') = f + 1
      BY <1>1, <2>7, <2>8, <2>10, PrescalerIs DEF Fraction, CountsNow
    <3> HIDE DEF k, p, f
    <3>4. since' = k * p + (f + 1)
      BY <2>1, <2>4, <2>5, <2>6
    <3>5. since' = Clocks(t') * Position(t') + Fraction(t')
      BY <1>5, <3>2, <3>3, <3>4 DEF k
    <3> QED
      BY <1>3, <1>9, <2>2, <2>3, <3>2, <3>5 DEF TimerStands
  <2> QED
    BY <2>9, <2>10
<1> QED
  BY <1>6, <1>7, <1>8, <1>9

(* A cycle keeps the timer where it should stand.                           *)
LEMMA TickKeepsTimer == TimerInv /\ Tick => TimerInv'
<1> SUFFICES ASSUME TimerInv, Tick PROVE TimerInv'
  OBVIOUS
<1>1. t' \in Timer
  BY TickIs
<1>2. inst' = "tick"
  BY DEF Tick
<1> QED
  BY <1>1, <1>2, TickTimes DEF TimerInv

(* What touches the timer ends the measurement.                             *)
LEMMA TouchKeepsTimer ==
  ASSUME NEW op \in {"write", "port"}, NEW u \in Timer, Touch(op, u)
  PROVE  TimerInv'
<1>1. t' = [u EXCEPT !.overflows = 0] /\ inst' = op /\ since' = -1
  BY DEF Touch
<1>2. 0 \in 0..(MaxEdge + 1)
  BY TimerAssumption
<1>3. t' \in Timer
  BY <1>1, <1>2 DEF Timer
<1>4. TimerStands'
  BY <1>1 DEF TimerStands
<1>5. inst' \in {"tick", "write", "port"} /\ since' \in Int
  BY <1>1
<1> QED
  BY <1>3, <1>4, <1>5 DEF TimerInv

(* The writes of its registers touch it.                                    *)
LEMMA WritesKeepTimer ==
  TimerInv /\ (WriteTMOD \/ WriteTCON \/ WriteTL \/ WriteTH \/ WriteAUXR) => TimerInv'
<1> SUFFICES ASSUME TimerInv, WriteTMOD \/ WriteTCON \/ WriteTL \/ WriteTH \/ WriteAUXR
             PROVE  TimerInv'
  OBVIOUS
<1>0. t \in Timer /\ 0 \in 0..MaxEdge /\ Loads \subseteq Byte /\ Modes \subseteq 0..3
  BY TimerAssumption, ByteAssumption DEF TimerInv, Byte
<1>1. CASE WriteTMOD
  <2>1. PICK m \in Modes, g \in BOOLEAN, c \in BOOLEAN :
          Touch("write", [t EXCEPT !.mode = m, !.GATE = g, !.C_T = c, !.T_edge = 0])
    BY <1>1, Zenon DEF WriteTMOD
  <2> DEFINE v == [t EXCEPT !.mode = m, !.GATE = g]
             u == [t EXCEPT !.mode = m, !.GATE = g, !.C_T = c, !.T_edge = 0]
  <2>2. v \in Timer
    BY <1>0 DEF Timer
  <2>3. u = [v EXCEPT !.C_T = c, !.T_edge = 0]
    BY <1>0 DEF Timer
  <2> HIDE DEF v
  <2>4. u \in Timer
    BY <1>0, <2>2, <2>3 DEF Timer
  <2> QED
    BY <2>1, <2>4, TouchKeepsTimer
<1>2. CASE WriteTCON
  <2>1. PICK run \in SUBSET {0, 1}, flags \in Flags :
          Touch("write", [t EXCEPT !.tr = run, !.tf = flags, !.T_edge = 0])
    BY <1>2, Zenon DEF WriteTCON
  <2>2. flags \in SUBSET {0, 1}
    BY TimerAssumption
  <2>3. [t EXCEPT !.tr = run, !.tf = flags, !.T_edge = 0] \in Timer
    BY <1>0, <2>2 DEF Timer
  <2> QED
    BY <2>1, <2>3, TouchKeepsTimer
<1>3. CASE WriteTL
  <2>1. PICK n \in Loads : Touch("write", [t EXCEPT !.tl = n])
    BY <1>3, Zenon DEF WriteTL
  <2>2. [t EXCEPT !.tl = n] \in Timer
    BY <1>0 DEF Timer
  <2> QED
    BY <2>1, <2>2, TouchKeepsTimer
<1>4. CASE WriteTH
  <2>1. PICK n \in Loads : Touch("write", [t EXCEPT !.th = n])
    BY <1>4, Zenon DEF WriteTH
  <2>2. [t EXCEPT !.th = n] \in Timer
    BY <1>0 DEF Timer
  <2> QED
    BY <2>1, <2>2, TouchKeepsTimer
<1>5. CASE WriteAUXR
  <2>1. PICK b \in BOOLEAN : Touch("write", [t EXCEPT !.one_t = b])
    BY <1>5, Zenon DEF WriteAUXR
  <2>2. [t EXCEPT !.one_t = b] \in Timer
    BY <1>0 DEF Timer
  <2> QED
    BY <2>1, <2>2, TouchKeepsTimer
<1> QED
  BY <1>1, <1>2, <1>3, <1>4, <1>5

(* So does a change of its pins.                                            *)
LEMMA PortKeepsTimer == TimerInv /\ PortChanged => TimerInv'
<1> SUFFICES ASSUME TimerInv, PortChanged PROVE TimerInv'
  OBVIOUS
<1>0. t \in Timer /\ t.T_edge \in 0..MaxEdge /\ MaxEdge \in Nat
      /\ Levels \subseteq [T : BOOLEAN, INT : BOOLEAN]
  BY TimerAssumption DEF TimerInv, Timer
<1>1. PICK p \in Levels \ {t.pins} :
        /\ Rises(p) => t.T_edge < MaxEdge
        /\ Touch("port", [t EXCEPT !.pins = p, !.T_edge = IF Rises(p) THEN @ + 1 ELSE @])
  BY Zenon DEF PortChanged
<1> DEFINE e == IF Rises(p) THEN t.T_edge + 1 ELSE t.T_edge
           u == [t EXCEPT !.pins = p, !.T_edge = e]
<1>2. e \in 0..MaxEdge /\ p \in [T : BOOLEAN, INT : BOOLEAN]
  BY <1>0, <1>1
<1>3. [t EXCEPT !.pins = p, !.T_edge = IF Rises(p) THEN @ + 1 ELSE @] = u
  BY <1>0 DEF Timer
<1> HIDE DEF e
<1>4. u \in Timer
  BY <1>0, <1>2 DEF Timer
<1> QED
  BY <1>1, <1>3, <1>4, TouchKeepsTimer

(* And a reset.                                                             *)
LEMMA ResetKeepsTimer == TimerInv /\ Reset => TimerInv'
<1> SUFFICES ASSUME TimerInv, Reset PROVE TimerInv'
  OBVIOUS
<1>0. t \in Timer /\ 0 \in 0..MaxEdge /\ 0 \in Byte /\ Levels \subseteq [T : BOOLEAN, INT : BOOLEAN]
  BY TimerAssumption, LowFits DEF TimerInv
<1>1. PICK p \in Levels :
        Touch("write", [t EXCEPT !.mode = 0, !.GATE = FALSE, !.C_T = FALSE, !.tr = {},
                                 !.tf = {}, !.T_edge = 0, !.pins = p, !.tl = 0, !.th = 0,
                                 !.one_t = FALSE])
  BY Zenon DEF Reset
<1> DEFINE s == [t EXCEPT !.mode = 0]
           a == [s EXCEPT !.GATE = FALSE, !.C_T = FALSE]
           b == [a EXCEPT !.tr = {}, !.tf = {}, !.T_edge = 0]
           c == [b EXCEPT !.pins = p, !.tl = 0]
           u == [c EXCEPT !.th = 0, !.one_t = FALSE]
<1>7. s \in Timer
  BY <1>0 DEF Timer
<1>2. a \in Timer
  <2> HIDE DEF s
  <2> QED
    BY <1>7 DEF Timer
<1>3. b \in Timer
  <2> HIDE DEF a
  <2> QED
    BY <1>0, <1>2 DEF Timer
<1>4. c \in Timer
  <2> HIDE DEF b
  <2> QED
    BY <1>0, <1>3 DEF Timer
<1>5. u \in Timer
  <2> HIDE DEF c
  <2> QED
    BY <1>0, <1>4 DEF Timer
<1>6. [t EXCEPT !.mode = 0, !.GATE = FALSE, !.C_T = FALSE, !.tr = {},
                !.tf = {}, !.T_edge = 0, !.pins = p, !.tl = 0, !.th = 0,
                !.one_t = FALSE] = u
  BY <1>0 DEF Timer
<1> HIDE DEF u
<1> QED
  BY <1>1, <1>5, <1>6, TouchKeepsTimer

(* The initial state.                                                       *)
LEMMA TimerStarts == Init => TimerInv
<1> SUFFICES ASSUME Init PROVE TimerInv
  OBVIOUS
<1>1. PICK n \in Ids, p \in Levels :
       t = [id |-> n, mode |-> 0, GATE |-> FALSE, C_T |-> FALSE, tr |-> {}, tf |-> {},
            T_edge |-> 0, pins |-> p, tl |-> 0, th |-> 0, one_t |-> FALSE,
            prescaler |-> 0, overflows |-> 0]
  BY Zenon DEF Init
<1>2. /\ p \in [T : BOOLEAN, INT : BOOLEAN] /\ 0 \in 0..MaxEdge /\ 0 \in Byte
      /\ 0 \in 0..(Prescale - 1) /\ 0 \in 0..(MaxEdge + 1)
  BY TimerAssumption, ByteAssumption, LowFits
<1>3. t \in Timer
  BY <1>1, <1>2 DEF Timer
<1>4. inst \in {"tick", "write", "port"} /\ since = -1
  BY DEF Init
<1> QED
  BY <1>3, <1>4 DEF TimerInv, TimerStands

(* Every step keeps the invariant.                                          *)
LEMMA TimerStays == TimerInv /\ [Next]_vars => TimerInv'
<1> SUFFICES ASSUME TimerInv, [Next]_vars PROVE TimerInv'
  OBVIOUS
<1>1. CASE Tick
  BY <1>1, TickKeepsTimer
<1>2. CASE WriteTMOD \/ WriteTCON \/ WriteTL \/ WriteTH \/ WriteAUXR
  BY <1>2, WritesKeepTimer
<1>3. CASE PortChanged
  BY <1>3, PortKeepsTimer
<1>4. CASE Reset
  BY <1>4, ResetKeepsTimer
<1>5. CASE UNCHANGED vars
  BY <1>5 DEF vars, TimerInv, TimerStands, Running, Counting, Steady, Clocks, Position, Fraction
<1> QED
  BY <1>1, <1>2, <1>3, <1>4, <1>5 DEF Next

(* The invariant of Timer 0 and 1 holds throughout.                         *)
LEMMA TimerInvAlways == Spec => []TimerInv
BY TimerStarts, TimerStays, PTL DEF Spec

(* What a step owes of the edges.                                           *)
EdgesKept ==
  t.C_T /\ t.mode \in {1, 3} /\ inst' \in {"tick", "port"} =>
    Value(t') + Width(t) * t'.overflows + t'.T_edge
      = Value(t) + t.T_edge + (IF t'.pins.T /\ ~t.pins.T THEN 1 ELSE 0)

(* Any step but a cycle ends the measurement.                               *)
LEMMA TimerTouches ==
  ASSUME TimerInv,
         WriteTMOD \/ WriteTCON \/ WriteTL \/ WriteTH \/ WriteAUXR \/ PortChanged \/ Reset
  PROVE  since' = -1 /\ inst' \in {"write", "port"} /\ (inst' = "port" => PortChanged)
BY Zenon DEF WriteTMOD, WriteTCON, WriteTL, WriteTH, WriteAUXR, PortChanged, Reset, Touch

(* The timer again, with its overflows.                                     *)
LEMMA TimerTypes == \A u \in Timer : u \in Timers /\ u.overflows \in 0..(MaxEdge + 1)
<1> SUFFICES ASSUME NEW u \in Timer PROVE u \in Timers /\ u.overflows \in 0..(MaxEdge + 1)
  OBVIOUS
<1>1. u.overflows \in 0..(MaxEdge + 1) /\ MaxEdge \in Nat
  BY TimerAssumption DEF Timer
<1>2. u.overflows \in Nat
  BY <1>1
<1> QED
  BY <1>1, <1>2 DEF Timer, Timers

(* A period is a number of cycles.                                          *)
LEMMA PeriodType ==
  ASSUME NEW u \in Timers
  PROVE  Period(u) \in Nat
<1>1. u.th \in Byte /\ Base \in Nat \ {0} /\ Low \in Nat \ {0}
  BY ByteAssumption, TimerAssumption DEF Timers
<1>2. u.mode = 0 \/ u.mode = 1 \/ u.mode = 2 \/ u.mode = 3
  BY DEF Timers
<1>3. Low * Base \in Nat /\ Base * Base \in Nat /\ Base \in Nat /\ Base - u.th \in Nat
  BY <1>1 DEF Byte
<1>4. PeriodCounts(u) \in Nat
  BY <1>2, <1>3 DEF PeriodCounts
<1>5. Clocks(u) \in Nat
  BY ClocksAre, ByteAssumption DEF ClockIs
<1> DEFINE k == Clocks(u)
           m == PeriodCounts(u)
<1>6. Period(u) = k * m
  BY PeriodIs
<1> HIDE DEF k, m
<1>7. k \in Nat /\ m \in Nat
  BY <1>4, <1>5 DEF k, m
<1> QED
  BY <1>6, <1>7, ProductBound

(* Every step keeps to the period.                                          *)
LEMMA StepKeepsPeriod == TimerInv /\ Next => PeriodKept
<1> SUFFICES ASSUME TimerInv, Next PROVE PeriodKept
  OBVIOUS
<1>1. TimerInv'
  BY TimerStays
<1>2. t' \in Timers
  <2>1. t' \in Timer
    BY <1>1 DEF TimerInv
  <2> QED
    BY <2>1, TimerTypes
<1>3. since' < Period(t')
  <2>1. CASE since' # -1
    <3>1. Steady(t') /\ since' = Clocks(t') * Position(t') + Fraction(t')
      BY <1>1, <2>1 DEF TimerInv, TimerStands
    <3> QED
      BY <1>2, <3>1, WithinPeriod
  <2>2. CASE since' = -1
    <3>1. Period(t') \in Nat
      BY <1>2, PeriodType
    <3> QED
      BY <2>2, <3>1
  <2> QED
    BY <2>1, <2>2
<1>4. CASE Tick
  <2>1. since # -1 /\ since' = 0 => since + 1 = Period(t)
    BY <1>4, TickTimes
  <2> QED
    BY <1>3, <2>1 DEF PeriodKept
<1>5. CASE ~Tick
  <2>1. inst' # "tick"
    BY <1>5, TimerTouches DEF Next
  <2> QED
    BY <1>3, <2>1 DEF PeriodKept
<1> QED
  BY <1>4, <1>5

(* Every step accounts for its edges.                                       *)
LEMMA StepKeepsEdges == TimerInv /\ Next => EdgesKept
<1> SUFFICES ASSUME TimerInv, Next, t.C_T, t.mode \in {1, 3}, inst' \in {"tick", "port"}
             PROVE  Value(t') + Width(t) * t'.overflows + t'.T_edge
                      = Value(t) + t.T_edge + (IF t'.pins.T /\ ~t.pins.T THEN 1 ELSE 0)
  BY DEF EdgesKept
<1>1. t \in Timers /\ t \in Timer
  BY TimerIsTimers DEF TimerInv
<1>2. Value(t) \in Nat /\ Width(t) \in Nat /\ t.T_edge \in Nat
  BY <1>1, ValueRange, TimerAssumption DEF Timers
<1>3. CASE Tick
  <2> DEFINE u == [t EXCEPT !.overflows = 0]
  <2>1. /\ Ticked(u, t') /\ Value(u) = Value(t) /\ Width(u) = Width(t)
        /\ u.C_T = t.C_T /\ u.mode = t.mode /\ u.T_edge = t.T_edge /\ u.pins = t.pins
    BY <1>3, TickIs
  <2> HIDE DEF u
  <2>2. Value(t') + Width(u) * t'.overflows + t'.T_edge = Value(u) + u.T_edge
    BY <2>1 DEF Ticked
  <2>3. t'.pins = t.pins
    BY <2>1 DEF Ticked
  <2> QED
    BY <1>2, <2>1, <2>2, <2>3
<1>4. CASE ~Tick
  <2>1. PortChanged
    BY <1>4, TimerTouches DEF Next
  <2>2. PICK p \in Levels \ {t.pins} :
          /\ Rises(p) => t.T_edge < MaxEdge
          /\ Touch("port", [t EXCEPT !.pins = p, !.T_edge = IF Rises(p) THEN @ + 1 ELSE @])
    BY <2>1, Zenon DEF PortChanged
  <2> DEFINE e == IF Rises(p) THEN t.T_edge + 1 ELSE t.T_edge
             u == [t EXCEPT !.pins = p, !.T_edge = e]
  <2>3. t' = [u EXCEPT !.overflows = 0]
    <3>1. [t EXCEPT !.pins = p, !.T_edge = IF Rises(p) THEN @ + 1 ELSE @] = u
      BY <1>1 DEF Timer
    <3> QED
      BY <2>2, <3>1 DEF Touch
  <2>4. t'.pins = p /\ t'.T_edge = e /\ t'.overflows = 0
        /\ t'.tl = t.tl /\ t'.th = t.th /\ t'.mode = t.mode
    <3> HIDE DEF e
    <3> QED
      BY <1>1, <2>3 DEF Timer
  <2>5. Value(t') = Value(t)
    BY <2>4 DEF Value
  <2>6. e = t.T_edge + (IF p.T /\ ~t.pins.T THEN 1 ELSE 0)
    BY <1>2 DEF Rises
  <2>7. Width(t) * 0 = 0
    BY <1>2
  <2> HIDE DEF e
  <2>8. Value(t') + Width(t) * t'.overflows = Value(t) + 0
    BY <2>4, <2>5, <2>7
  <2> QED
    BY <1>2, <2>4, <2>6, <2>8
<1> QED
  BY <1>3, <1>4

(* Every variable of Timer 0 and 1 stays in its range, also when several    *)
(* edges that waited are counted in one cycle.                              *)
THEOREM TimerTypeCorrect == Spec => []TimerTypeOK
BY TimerInvAlways, TimerInvTyped, PTL

(* tick() of Timer 0 and 1: a timer that nobody touches overflows           *)
(* exactly when as many cycles have passed since the last overflow as       *)
(* its mode, reload and prescaler ask for; no cycle is lost and none        *)
(* counts twice.                                                            *)
THEOREM OverflowsInPeriod == Spec => OverflowPeriod
<1>1. TimerInv /\ [Next]_vars => [PeriodKept]_vars
  BY StepKeepsPeriod
<1>2. Spec => [][PeriodKept]_vars
  BY <1>1, TimerInvAlways, PTL DEF Spec
<1> QED
  BY <1>2 DEF OverflowPeriod, PeriodKept

(* A rising edge of pin T that happen() notes is counted once by a later    *)
(* do_timer(), however many wait and wherever the count wraps: what the     *)
(* registers hold and what still waits change together.                     *)
THEOREM EdgesCountOnce == Spec => EveryEdgeCountsOnce
<1>1. TimerInv /\ [Next]_vars => [EdgesKept]_vars
  BY StepKeepsEdges
<1>2. Spec => [][EdgesKept]_vars
  BY <1>1, TimerInvAlways, PTL DEF Spec
<1> QED
  BY <1>2 DEF EveryEdgeCountsOnce, EdgesKept

-----------------------------------------------------------------------------
(* A behaviour of the whole is one of each timer.                           *)
THEOREM EveryTimerRuns == TimersSpec => Spec /\ Timer2Spec
<1>1. TimersInit => Init /\ Timer2Init
  BY DEF TimersInit
<1>2. [TimersNext]_all => [Next]_vars /\ [Timer2Next]_timer2_vars
  <2>1. UNCHANGED all => UNCHANGED vars /\ UNCHANGED timer2_vars
    BY DEF all
  <2>2. Move(Next, timer2_vars, "timer01") => Next /\ UNCHANGED timer2_vars
    BY DEF Move
  <2>3. Move(Timer2Next, vars, "timer2") => Timer2Next /\ UNCHANGED vars
    BY DEF Move
  <2> QED
    BY <2>1, <2>2, <2>3, Zenon DEF TimersNext
<1> QED
  BY <1>1, <1>2, PTL DEF TimersSpec, Spec, Timer2Spec

(* Every variable of every timer stays in its range.                        *)
THEOREM TimersTypeCorrect == TimersSpec => []TimersTypeOK
BY EveryTimerRuns, TimerTypeCorrect, Timer2TypeCorrect, PTL DEF TimersTypeOK

================================================================================
