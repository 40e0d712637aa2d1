-------------------------------- MODULE StcWdt --------------------------------
(***************************************************************************)
(* The watchdog of the STC12 and the STC15, cl_stc12_wdt (stc12_wdt.cc): a *)
(* prescaler and a counter, which a write of WDT_CONTR with CLR_WDT clears *)
(* and whose overflow sets WDT_FLAG.  Nothing ticks it in idle mode, so    *)
(* IDLE_WDT is left out, and CLR_WDT is never stored.                      *)
(***************************************************************************)
EXTENDS Integers

CONSTANTS
  WdtTop,   \* counts of the counter until it overflows
  Scale     \* cycles per count for each value of PS

ASSUME WdtAssumption ==
  /\ WdtTop \in Nat \ {0}
  /\ 0 \in DOMAIN Scale
  /\ Scale \in [DOMAIN Scale -> Nat \ {0, 1}]

VARIABLES
  WDT_CONTR,   \* the register
  wdt,         \* prescaler_cnt and counter
  wdt_fed,     \* history: counted cycles since the last CLR_WDT, up to Soonest
  wdt_since,   \* history: counted cycles since the counters were both 0; -1
               \* when PS was changed since
  wdt_bites    \* history: the last operation was an overflow

wdt_vars == <<WDT_CONTR, wdt, wdt_fed, wdt_since, wdt_bites>>

Watchdog == [EN_WDT : BOOLEAN, WDT_FLAG : BOOLEAN, PS : DOMAIN Scale]

(* The time of the shortest period, with PS = 0.                            *)
Soonest == WdtTop * 2

-----------------------------------------------------------------------------
(* Mutant: CLR_WDT clears the counter alone.                                *)
ClearedCounter(clr) == IF clr THEN [wdt EXCEPT !.counter = 0] ELSE wdt

Cleared(clr) == IF clr THEN [prescaler_cnt |-> 0, counter |-> 0] ELSE wdt

(* A write of WDT_CONTR.  Any bit may change, EN_WDT too.  Programs clear   *)
(* the flag or write back what they have read.                              *)
WriteWDT_CONTR ==
  \E v \in Watchdog, clr \in BOOLEAN :
    /\ v.WDT_FLAG => WDT_CONTR.WDT_FLAG
    /\ WDT_CONTR' = v
    /\ wdt' = Cleared(clr)
    /\ wdt_fed' = IF clr THEN 0 ELSE wdt_fed
    /\ wdt_since' = IF clr THEN 0 ELSE IF v.PS # WDT_CONTR.PS THEN -1 ELSE wdt_since
    /\ wdt_bites' = FALSE

(* The counts of one cycle: more than one when PS was lowered while the     *)
(* prescaler stood higher than its new divisor.                             *)
Counts == (wdt.prescaler_cnt + 1) \div Scale[WDT_CONTR.PS]

Overflows == wdt.counter + Counts >= WdtTop

(* Mutant: every count of a cycle taken twice. *)
TickedTwice ==
  [prescaler_cnt |-> (wdt.prescaler_cnt + 1) % Scale[WDT_CONTR.PS],
   counter |-> (wdt.counter + 2 * Counts) % WdtTop]

Ticked ==
  [prescaler_cnt |-> (wdt.prescaler_cnt + 1) % Scale[WDT_CONTR.PS],
   counter |-> (wdt.counter + Counts) % WdtTop]

WdtTick ==
  IF ~WDT_CONTR.EN_WDT
  THEN wdt_bites' = FALSE /\ UNCHANGED <<WDT_CONTR, wdt, wdt_fed, wdt_since>>
  ELSE /\ wdt' = Ticked
       /\ WDT_CONTR' = [WDT_CONTR EXCEPT !.WDT_FLAG = @ \/ Overflows]
       /\ wdt_fed' = IF wdt_fed < Soonest THEN wdt_fed + 1 ELSE wdt_fed
       /\ wdt_since' = IF Overflows THEN IF Ticked = Cleared(TRUE) THEN 0 ELSE -1
                       ELSE IF wdt_since = -1 THEN -1 ELSE wdt_since + 1
       /\ wdt_bites' = Overflows

(* The reset of the part clears WDT_CONTR; the watchdog has no reset(), so  *)
(* what was counted stays for the next period.                              *)
WdtReset ==
  /\ WDT_CONTR' = [EN_WDT |-> FALSE, WDT_FLAG |-> FALSE, PS |-> 0]
  /\ wdt_since' = IF WDT_CONTR.PS # 0 THEN -1 ELSE wdt_since
  /\ wdt_bites' = FALSE
  /\ UNCHANGED <<wdt, wdt_fed>>

WdtInit ==
  /\ WDT_CONTR = [EN_WDT |-> FALSE, WDT_FLAG |-> FALSE, PS |-> 0]
  /\ wdt = [prescaler_cnt |-> 0, counter |-> 0]
  /\ wdt_fed = 0
  /\ wdt_since = 0
  /\ wdt_bites = FALSE

WdtNext == WriteWDT_CONTR \/ WdtTick \/ WdtReset

WdtSpec == WdtInit /\ [][WdtNext]_wdt_vars

-----------------------------------------------------------------------------
(* Every variable stays in its range.                                       *)
WdtTypeOK ==
  /\ WDT_CONTR \in Watchdog
  /\ wdt \in [prescaler_cnt : Nat, counter : 0..(WdtTop - 1)]
  /\ wdt_fed \in 0..Soonest
  /\ wdt_since \in Nat \cup {-1}
  /\ wdt_bites \in BOOLEAN

(* A program that clears the watchdog more often than the shortest period   *)
(* never sees WDT_FLAG, whatever it writes into PS, however long it stops   *)
(* the watchdog and however often the part is reset in between.             *)
FedNeverBites == wdt_bites => wdt_fed = Soonest

(* With PS left alone the watchdog overflows, from a CLR_WDT or an overflow *)
(* on, in exactly WdtTop times the divisor of PS cycles in which it is      *)
(* enabled, resets in between included: not earlier, and by then.  A cycle  *)
(* of these parts is a clock, so this is a twelfth of the period that the   *)
(* comment at stc12_wdt.cc:11 gives, "12M * 32768 * 2^(PS+1) / FOSC".       *)
WdtNeverLate == wdt_since # -1 => wdt_since < WdtTop * Scale[WDT_CONTR.PS]

WdtPeriod ==
  [][ /\ wdt_since # -1 /\ wdt_bites' => wdt_since + 1 = WdtTop * Scale[WDT_CONTR.PS]
      /\ WdtNeverLate' ]_wdt_vars

=============================================================================
