------------------------------- MODULE S52Timer2 -------------------------------
(***************************************************************************)
(* Timer 2 of the 8052 and the STC89, cl_timer2 (timer2.cc): 16 bits in    *)
(* the cells TH2 and TL2, the registers RCAP2H and RCAP2L beside them, and *)
(* the pins T2 and T2EX of port 1.  It reloads, captures, clocks the UART  *)
(* or, after DCEN was set, counts up and down.  tick_hw() ticks it with    *)
(* one cycle.  The clock output, which no part has, is left out.           *)
(***************************************************************************)
EXTENDS StcByte

CONSTANTS
  T2Setups,   \* what the program writes into T2CON beside TR2 and the flags
  T2Levels,   \* the levels of the pins T2 and T2EX, as records
  MaxEdges    \* bound: edges of a pin that wait for a tick

ASSUME S52Timer2Assumption ==
  /\ Base > 1
  /\ T2Setups \subseteq [baud : BOOLEAN, CP_RL2 : BOOLEAN, C_T : BOOLEAN, EXEN2 : BOOLEAN]
  /\ T2Levels \subseteq [T : BOOLEAN, T2EX : BOOLEAN]
  /\ MaxEdges \in Nat

VARIABLES
  w2,         \* the timer
  w2_pins,    \* the levels of the pins
  w2_told,    \* the EV_OVERFLOW events its partners got in the last operation, or
              \* -1 when that was no tick
  w2_start,   \* history: T2 when the current period began
  w2_since    \* history: the counts since then

w2_vars == <<w2, w2_pins, w2_told, w2_start, w2_since>>

(* baud stands for RCLK or TCLK.  P1_6 is the bit that counting up and down *)
(* toggles in the cell of P1 at the place of EXF2.                          *)
W2 ==
  [h : Byte, l : Byte, rcap : Byte \X Byte, baud : BOOLEAN, CP_RL2 : BOOLEAN, C_T : BOOLEAN,
   EXEN2 : BOOLEAN, TR : BOOLEAN, TF2 : BOOLEAN, EXF2 : BOOLEAN,
   mode : {"reload", "capture", "baud", "down"}, exf2it : BOOLEAN,
   T_edge : 0..MaxEdges, t2ex_edge : 0..MaxEdges, P1_6 : BOOLEAN]

-----------------------------------------------------------------------------
Sixteen(h, l) == h * Base + l
T2Of(u) == Sixteen(u.h, u.l)
RcapOf(u) == Sixteen(u.rcap[1], u.rcap[2])
Whole == Base * Base

Lower(n) == (n + Base - 1) % Base

ModeOf(u) == IF u.baud THEN "baud" ELSE IF u.CP_RL2 THEN "capture" ELSE "reload"

(* A new mode, or a start or stop, drops the edges that wait.               *)
Latched(u) ==
  IF u.mode # w2.mode \/ u.TR # w2.TR THEN [u EXCEPT !.T_edge = 0, !.t2ex_edge = 0] ELSE u

(* A write of T2CON, as a byte or by a bit, always leaves counting up and   *)
(* down.  Programs clear the flags or keep them.                            *)
WithT2CON(c, tr, tf2, exf2) ==
  LET u == [w2 EXCEPT !.baud = c.baud, !.CP_RL2 = c.CP_RL2, !.C_T = c.C_T, !.EXEN2 = c.EXEN2,
                      !.TR = tr, !.TF2 = tf2, !.EXF2 = exf2, !.exf2it = TRUE]
  IN Latched([u EXCEPT !.mode = ModeOf(u)])

(* The counts of one tick.  With C_T the reload and the capture mode count  *)
(* every cycle all the same and throw the edges away.                       *)
CountsOf(u) ==
  CASE ~u.TR -> 0
    [] u.mode \in {"reload", "capture"} -> 1
    [] u.C_T -> u.T_edge
    [] u.mode = "baud" -> 6
    [] u.mode = "down" -> 1

(* One count up: the overflow loads RCAP2, in the capture mode 0.           *)
Loaded(u) == IF u.mode = "capture" THEN [u EXCEPT !.h = 0, !.l = 0]
             ELSE [u EXCEPT !.h = u.rcap[1], !.l = u.rcap[2]]

Increment(u) == [u EXCEPT !.l = Up(@), !.h = IF Up(u.l) = 0 THEN Up(@) ELSE @]

(* Mutant: an underflow at RCAP2, not below it.                             *)
UnderflowsAt(u) == T2Of(u) <= RcapOf(u)

Underflows(u) == T2Of(u) < RcapOf(u)

Decrement(u) == [u EXCEPT !.l = Lower(@), !.h = IF u.l = 0 THEN Lower(@) ELSE @]

Downwards(u) == u.mode = "down" /\ ~w2_pins.T2EX

(* A run of counts: the timer and the ends of periods, each with what T2    *)
(* began with, and the counts after the last of them.                       *)
Counted1(r) ==
  IF Downwards(r.u)
  THEN LET v == Decrement(r.u)
           top == [v EXCEPT !.h = Base - 1, !.l = Base - 1]
       IN IF Underflows(v) THEN [u |-> top, ends |-> r.ends + 1, start |-> Whole - 1, since |-> 0]
          ELSE IF T2Of(v) = Whole - 1 THEN [r EXCEPT !.u = v, !.start = Whole - 1, !.since = 0]
          ELSE [r EXCEPT !.u = v, !.since = @ + 1]
  ELSE LET v == Increment(r.u)
       IN IF T2Of(v) # 0 THEN [r EXCEPT !.u = v, !.since = @ + 1]
          ELSE [u |-> Loaded(v), ends |-> r.ends + 1, start |-> T2Of(Loaded(v)), since |-> 0]

Counted(r0, k) ==
  LET f[n \in 0..k] == IF n = 0 THEN r0 ELSE Counted1(f[n - 1]) IN f[k]

(* An edge of T2EX with EXEN2 sets EXF2 and, by the mode, reloads T2 or     *)
(* captures it, whether the timer runs or not.                              *)
TakesEdge(u) == u.mode # "down" /\ u.EXEN2 /\ u.t2ex_edge > 0

EdgeTaken(u) ==
  IF ~TakesEdge(u) THEN u
  ELSE LET v == [u EXCEPT !.EXF2 = TRUE, !.t2ex_edge = 0]
       IN CASE u.mode = "capture" -> [v EXCEPT !.rcap = <<u.h, u.l>>]
            [] u.mode = "reload" -> Loaded(v)
            [] OTHER -> v

Reloaded(u) == TakesEdge(u) /\ u.mode = "reload"

(* tick().                                                                  *)
T2Tick ==
  LET e == EdgeTaken(w2)
      r0 == [u |-> e, ends |-> 0, start |-> IF Reloaded(w2) THEN T2Of(e) ELSE w2_start,
             since |-> IF Reloaded(w2) THEN 0 ELSE w2_since]
      r == Counted(r0, CountsOf(e))
  IN /\ w2' = [r.u EXCEPT
                 !.T_edge = IF e.TR /\ e.C_T THEN 0 ELSE @,
                 !.TF2 = @ \/ (e.mode # "baud" /\ r.ends > 0),
                 !.P1_6 = IF e.mode = "down" /\ r.ends > 0 THEN ~@ ELSE @]
     /\ w2_told' = IF e.mode = "baud" THEN r.ends ELSE 0
     /\ w2_start' = r.start
     /\ w2_since' = r.since
     /\ UNCHANGED w2_pins

(* Whatever else happens leaves the period as it is, but for a write into   *)
(* T2, a change of direction, and a write into RCAP2 while counting down,   *)
(* which begin one.                                                         *)
Becomes(u, levels) ==
  /\ w2' = u
  /\ w2_pins' = levels
  /\ w2_told' = -1
  /\ IF \/ T2Of(u) # T2Of(w2)
        \/ Downwards(w2) # (u.mode = "down" /\ ~levels.T2EX)
        \/ Downwards(w2) /\ u.rcap # w2.rcap
     THEN w2_start' = T2Of(u) /\ w2_since' = 0
     ELSE UNCHANGED <<w2_start, w2_since>>

WriteT2CON ==
  \E c \in T2Setups, tr \in BOOLEAN, tf2 \in {FALSE, w2.TF2}, exf2 \in {FALSE, w2.EXF2} :
    Becomes(WithT2CON(c, tr, tf2, exf2), w2_pins)

(* DCEN set in the reload mode begins counting up and down and takes EXF2   *)
(* off the list of interrupt sources; any write puts it back first.         *)
WriteT2MOD ==
  \E dcen \in BOOLEAN :
    LET down == dcen /\ w2.mode = "reload"
    IN Becomes(Latched([w2 EXCEPT !.mode = IF down THEN "down" ELSE @, !.exf2it = ~down]), w2_pins)

WriteT2 ==
  \E n \in Loads : \/ Becomes([w2 EXCEPT !.h = n], w2_pins)
                   \/ Becomes([w2 EXCEPT !.l = n], w2_pins)

WriteRCAP2 ==
  \E n \in Loads : \/ Becomes([w2 EXCEPT !.rcap[1] = n], w2_pins)
                   \/ Becomes([w2 EXCEPT !.rcap[2] = n], w2_pins)

(* happen(): falling edges wait for the next tick.                          *)
WithEdge(before, after, edges) ==
  IF before /\ ~after THEN edges + 1 ELSE edges

T2PortChanged ==
  \E levels \in T2Levels :
    LET t == WithEdge(w2_pins.T, levels.T, w2.T_edge)
        ex == WithEdge(w2_pins.T2EX, levels.T2EX, w2.t2ex_edge)
    IN /\ levels # w2_pins
       /\ t <= MaxEdges /\ ex <= MaxEdges
       /\ Becomes([w2 EXCEPT !.T_edge = t, !.t2ex_edge = ex], levels)

(* clear_sfr() writes T2CON and clears T2 and RCAP2.                        *)
T2Reset ==
  LET off == [baud |-> FALSE, CP_RL2 |-> FALSE, C_T |-> FALSE, EXEN2 |-> FALSE]
  IN Becomes([WithT2CON(off, FALSE, FALSE, FALSE) EXCEPT !.h = 0, !.l = 0, !.rcap = <<0, 0>>],
             w2_pins)

(* Nothing initialises the edges that wait.                                 *)
T2Init ==
  /\ \E t, ex \in 0..MaxEdges :
       w2 = [h |-> 0, l |-> 0, rcap |-> <<0, 0>>, baud |-> FALSE, CP_RL2 |-> FALSE, C_T |-> FALSE,
             EXEN2 |-> FALSE, TR |-> FALSE, TF2 |-> FALSE, EXF2 |-> FALSE, mode |-> "reload",
             exf2it |-> TRUE, T_edge |-> t, t2ex_edge |-> ex, P1_6 |-> TRUE]
  /\ w2_pins = [T |-> TRUE, T2EX |-> TRUE]
  /\ w2_told = -1
  /\ w2_start = 0
  /\ w2_since = 0

T2Next == T2Tick \/ WriteT2CON \/ WriteT2MOD \/ WriteT2 \/ WriteRCAP2 \/ T2PortChanged \/ T2Reset

T2Spec == T2Init /\ [][T2Next]_w2_vars

-----------------------------------------------------------------------------
(* Every variable stays in its range.                                       *)
T2TypeOK ==
  /\ w2 \in W2
  /\ w2_pins \in [T : BOOLEAN, T2EX : BOOLEAN]
  /\ w2_told \in -1..(6 + MaxEdges)
  /\ w2_start \in 0..(Whole - 1) /\ w2_since \in 0..Whole

(* What a tick is to do, from the counts and the start of the period alone: *)
(* the length of the period, that of the following ones and where they      *)
(* begin.                                                                   *)
FirstPeriod == IF ~Downwards(w2) THEN Whole - w2_start
               ELSE IF w2_start < RcapOf(w2) THEN 1 ELSE w2_start - RcapOf(w2) + 1

Restart == IF w2.mode = "capture" THEN 0 ELSE RcapOf(w2)

Passed == w2_since + CountsOf(w2)

EndsDue ==
  IF Passed < FirstPeriod THEN 0
  ELSE 1 + ((Passed - FirstPeriod) \div (Whole - Restart))

T2Due ==
  IF Passed < FirstPeriod
  THEN IF Downwards(w2) THEN w2_start - Passed ELSE w2_start + Passed
  ELSE LET rest == (Passed - FirstPeriod) % (Whole - Restart)
       IN IF Downwards(w2) THEN Whole - 1 - rest ELSE Restart + rest

(* Timer 2 keeps time: however the program changes its mode, its registers  *)
(* and the direction, a period takes the counts from its start to the top,  *)
(* or down past RCAP2, at 1 count a cycle or 6 as the clock of the UART; at *)
(* its end, and only then, the UART is told or TF2 is set, and the next one *)
(* begins at once, at RCAP2, at 0 or at the top.  An edge of T2EX that is   *)
(* taken reloads before the count.  Left out are the counts down from 0,    *)
(* which end no period.                                                     *)
KeepsTime ==
  [][ w2_told' # -1 /\ ~Reloaded(w2) /\ (Downwards(w2) => T2Of(w2) > CountsOf(w2)) =>
        /\ T2Of(w2') = T2Due
        /\ w2_told' = IF w2.mode = "baud" THEN EndsDue ELSE 0
        /\ w2'.TF2 = (w2.TF2 \/ (w2.mode # "baud" /\ EndsDue > 0)) ]_w2_vars

=============================================================================
