-------------------------------- MODULE StcPca --------------------------------
(***************************************************************************)
(* The programmable counter array of the STC12 and STC15, cl_pca_stc12     *)
(* (stc12_pca.cc) on top of cl_pca (pca.cc): the 16-bit counter CH:CL and  *)
(* one of its modules, whose output and input is a pin CEX of port 1.  The *)
(* modules share the counter and nothing else.  tick_hw() ticks the array  *)
(* with one cycle; nothing ticks it in idle mode, so CIDL does not matter. *)
(***************************************************************************)
EXTENDS StcByte, FiniteSets

CONSTANTS
  PcaModules,   \* the numbers the module may have
  Divisor,      \* cycles per count of each clock source that divides cycles
  Uses,         \* the pairs of clock source and module mode programs select
  PcaPins,      \* the levels of the pins CEX and ECI, as records
  MaxEvents     \* bound: overflows and edges that wait to be counted

Timer0Source == 2
EciSource == 3

ModeBits == {"ECOM", "CAPP", "CAPN", "MAT", "TOG", "PWM"}

ASSUME PcaAssumption ==
  /\ PcaModules \subseteq 0..2
  /\ Divisor \in [{0, 1, 4, 5, 6, 7} -> Nat \ {0}] /\ Divisor[4] = 1
  /\ Uses \subseteq (0..7) \X SUBSET ModeBits
  /\ PcaPins \subseteq [cex : BOOLEAN, eci : BOOLEAN]
  /\ MaxEvents \in Nat

VARIABLES
  pca,       \* the counter
  module,    \* the module
  p1,        \* its line of port 1 and ECI's
  pca_did,   \* history: what the last operation did
  pca_since  \* history: the cycles since the last wrap of CH:CL, -1 when
             \* the clock was changed or stopped in between

pca_vars == <<pca, module, p1, pca_did, pca_since>>

(* CR is the bit of CCON, bit_CR the copy the code looks at.  CF, which the *)
(* array sets at every wrap of CH:CL and never reads, is left out.          *)
Counter ==
  [cl : Byte, ch : Byte, cps : 0..7, CR : BOOLEAN, bit_CR : BOOLEAN,
   prescaler : UNION {0..(Divisor[k] - 1) : k \in DOMAIN Divisor},
   t0_overflows : 0..MaxEvents, ECI_edge : 0..MaxEvents]

(* ccapm is the copy the code looks at.  fresh and high are history: the    *)
(* line has risen since the last capture; the counts with the output high   *)
(* since the last reload, -1 when the program has touched the module since. *)
Module ==
  [nr : PcaModules, ccapm : SUBSET ModeBits, ccapl : Byte, ccaph : Byte, EPCL : 0..1,
   CCF : BOOLEAN, cex_pos : BOOLEAN, cex_neg : BOOLEAN, fresh : BOOLEAN, high : -1..Base]

(* The latches are what the program and the array write into P1, pins what  *)
(* the outside drives.                                                      *)
Port1 == [cex : BOOLEAN, eci : BOOLEAN, pins : [cex : BOOLEAN, eci : BOOLEAN]]

(* overflows: what Timer 0 has brought; counts: how often CH:CL counted;    *)
(* wraps: how often it wrapped; captures, toggles: what the module did;     *)
(* period: high counts and compare value of the PWM period that ended last, *)
(* none when it was disturbed.                                              *)
Nothing ==
  [overflows |-> 0, counts |-> 0, wraps |-> 0, captures |-> 0, toggles |-> 0, period |-> <<>>]

-----------------------------------------------------------------------------
(* One count works on a record of all the state, under these names.         *)
Machine == [c |-> pca, m |-> module, out |-> p1.cex, did |-> Nothing]

Has(s, bits) == bits \subseteq s.m.ccapm

Compare(m) == m.EPCL * Base + m.ccapl

Matches(s) == s.c.cl = s.m.ccapl /\ s.c.ch = s.m.ccaph

IsPwm(s) == Has(s, {"ECOM", "PWM"})

(* Mutant: the output is low at the compare value.                          *)
PwmOutputLater(s) ==
  IF ~IsPwm(s) THEN s
  ELSE [s EXCEPT !.out = s.c.cl > Compare(s.m),
                 !.m.high = IF @ = -1 \/ s.c.cl = 0 \/ ~(s.c.cl > Compare(s.m)) THEN @ ELSE @ + 1]

PwmOutput(s) ==
  IF ~IsPwm(s) THEN s
  ELSE [s EXCEPT !.out = s.c.cl >= Compare(s.m),
                 !.m.high = IF @ = -1 \/ s.c.cl = 0 \/ s.c.cl < Compare(s.m) THEN @ ELSE @ + 1]

(* The value from CCAPnH is the next period's.                              *)
PwmReload(s) ==
  IF ~Has(s, {"PWM"}) THEN s
  ELSE [s EXCEPT !.m.ccapl = s.m.ccaph, !.m.high = 0,
                 !.did.period = IF IsPwm(s) /\ s.m.high # -1
                                THEN <<s.m.high, Compare(s.m)>> ELSE @]

Toggle(s) == [s EXCEPT !.out = ~@, !.did.toggles = @ + 1]

(* do_pca_module(), which a full wrap of CH:CL calls: captures, compares    *)
(* once more and sets the PWM output again, without the ninth bit.  A       *)
(* falling edge is captured and stays noted.                                *)
Captures(s) ==
  (s.m.cex_pos /\ Has(s, {"CAPP"})) \/ (s.m.cex_neg /\ Has(s, {"CAPN"}))

(* Mutant: the rising edge stays noted, too.                                *)
CaptureKeeping(s) ==
  IF ~Captures(s) THEN s
  ELSE [s EXCEPT !.m.ccapl = s.c.cl, !.m.ccaph = s.c.ch, !.m.CCF = TRUE,
                 !.m.fresh = FALSE, !.did.captures = @ + 1]

Capture(s) ==
  IF ~Captures(s) THEN s
  ELSE [s EXCEPT !.m.ccapl = s.c.cl, !.m.ccaph = s.c.ch, !.m.CCF = TRUE,
                 !.m.cex_pos = FALSE, !.m.fresh = FALSE, !.did.captures = @ + 1]

CompareAtWrap(s) ==
  IF ~(Has(s, {"ECOM"}) /\ Matches(s)) THEN s
  ELSE LET t == [s EXCEPT !.m.CCF = TRUE] IN IF Has(s, {"TOG"}) THEN Toggle(t) ELSE t

PwmAtWrap(s) == IF IsPwm(s) THEN [s EXCEPT !.out = s.c.cl >= s.m.ccapl] ELSE s

DoModule(s) == PwmAtWrap(CompareAtWrap(Capture(s)))

(* CL has wrapped: CCAPnL is reloaded, and CH counts.                       *)
Carry(s) ==
  LET t == [PwmReload(s) EXCEPT !.c.ch = Up(@)]
  IN IF t.c.ch # 0 THEN t
     ELSE DoModule([t EXCEPT !.did.wraps = @ + 1])

(* Mutant: the low byte alone is compared.                                  *)
MatchLow(s) ==
  IF ~(Has(s, {"ECOM", "MAT"}) /\ ~Has(s, {"PWM"}) /\ s.c.cl = s.m.ccapl) THEN s
  ELSE LET t == [s EXCEPT !.m.CCF = TRUE] IN IF Has(s, {"TOG"}) THEN Toggle(t) ELSE t

Match(s) ==
  IF ~(Has(s, {"ECOM", "MAT"}) /\ ~Has(s, {"PWM"}) /\ Matches(s)) THEN s
  ELSE LET t == [s EXCEPT !.m.CCF = TRUE] IN IF Has(s, {"TOG"}) THEN Toggle(t) ELSE t

(* Mutants: a toggle starts the count again; CL grows beyond a byte and     *)
(* nothing carries into CH.                                                 *)
CountClearing(s) ==
  LET t == PwmOutput([s EXCEPT !.c.cl = Up(@), !.did.counts = @ + 1])
      u == Match(IF t.c.cl = 0 THEN Carry(t) ELSE t)
  IN IF u.did.toggles > s.did.toggles THEN [u EXCEPT !.c.cl = 0, !.c.ch = 0] ELSE u
CountWide(s) ==
  LET t == PwmOutput([s EXCEPT !.c.cl = @ + 1, !.did.counts = @ + 1]) IN Match(t)
CountOnce(s) ==
  LET t == PwmOutput([s EXCEPT !.c.cl = Up(@), !.did.counts = @ + 1])
  IN Match(IF t.c.cl = 0 THEN Carry(t) ELSE t)

(* cl_pca_stc12::do_pca_counter(n).                                         *)
DoCounter(s, n) ==
  LET after[k \in 0..n] == IF k = 0 THEN s ELSE CountOnce(after[k - 1])
  IN after[n]

(* What the clock source hands the counter in this cycle, and what is left. *)
Divides(c) == c.cps \in DOMAIN Divisor

Due(c) ==
  CASE Divides(c) /\ c.cps # 4 -> (c.prescaler + 1) \div Divisor[c.cps]
    [] c.cps = 4 -> 1
    [] c.cps = Timer0Source -> c.t0_overflows
    [] c.cps = EciSource -> c.ECI_edge

(* Mutant: the overflows stay to be counted again.                          *)
TakeKeeping(c) ==
  CASE Divides(c) /\ c.cps # 4 -> [c EXCEPT !.prescaler = (@ + 1) % Divisor[c.cps]]
    [] c.cps = EciSource -> [c EXCEPT !.ECI_edge = 0]
    [] OTHER -> c

Take(c) ==
  CASE Divides(c) /\ c.cps # 4 -> [c EXCEPT !.prescaler = (@ + 1) % Divisor[c.cps]]
    [] c.cps = 4 -> c
    [] c.cps = Timer0Source -> [c EXCEPT !.t0_overflows = 0]
    [] c.cps = EciSource -> [c EXCEPT !.ECI_edge = 0]

-----------------------------------------------------------------------------
Move(s, since) ==
  /\ pca' = s.c
  /\ module' = s.m
  /\ p1' = [p1 EXCEPT !.cex = s.out]
  /\ pca_did' = s.did
  /\ pca_since' = since

Become(s) == Move(s, pca_since)

(* After a switch of sources the first count may come with cycles left over *)
(* or with a second count: a measured period does not begin there.          *)
WholeCount(did) == did.counts = 1 /\ (pca.cps = 4 \/ Take(pca).prescaler = 0)

Since(did) ==
  IF ~Divides(pca) \/ (did.wraps > 0 /\ ~WholeCount(did)) THEN -1
  ELSE IF did.wraps > 0 THEN 0
  ELSE IF pca_since = -1 THEN -1
  ELSE pca_since + 1

PcaTick ==
  IF ~pca.bit_CR THEN Move(Machine, -1)
  ELSE \E s \in {DoCounter([Machine EXCEPT !.c = Take(pca)], Due(pca))} : Move(s, Since(s.did))

(* A change of CPS1 or CPS0, not of CPS2, drops the events that wait.  What *)
(* the prescaler has counted stays, for the divisor of the new source.      *)
WriteCMOD ==
  \E use \in Uses :
    /\ use[2] = module.ccapm
    /\ Move([Machine EXCEPT
         !.c = IF use[1] % 4 = pca.cps % 4 THEN [pca EXCEPT !.cps = use[1]]
               ELSE [pca EXCEPT !.cps = use[1], !.t0_overflows = 0, !.ECI_edge = 0]], -1)

(* A byte write of CCON, which clears the flags.                            *)
WriteCCON ==
  \E r \in BOOLEAN :
    Become([Machine EXCEPT !.c.CR = r, !.c.bit_CR = r, !.m.CCF = FALSE])

(* A write of one bit of CCON reaches the array only at bit address 0xda,   *)
(* which is CCF2 and not CR.                                                *)
WriteBitCR == \E r \in BOOLEAN : Become([Machine EXCEPT !.c.CR = r])

ClearBitCCF ==
  Become([Machine EXCEPT !.m.CCF = FALSE,
                         !.c.bit_CR = IF module.nr = 2 THEN FALSE ELSE @])

(* The program sets up the module.  Its other writes do not reach the code, *)
(* which reads CCAPnL, CCAPnH and PCA_PWMn when it needs them.              *)
WriteCCAPM ==
  \E use \in Uses :
    /\ use[1] = pca.cps
    /\ use[2] # module.ccapm
    /\ Become([Machine EXCEPT
         !.m = [module EXCEPT !.ccapm = use[2], !.cex_pos = FALSE, !.cex_neg = FALSE,
                              !.fresh = FALSE, !.high = -1]])

WriteCCAPL == \E n \in Loads : Become([Machine EXCEPT !.m.ccapl = n, !.m.high = -1])

WriteCCAPH == \E n \in Loads : Become([Machine EXCEPT !.m.ccaph = n])

WritePWM ==
  \E b \in 0..1 : IsPwm(Machine) /\ Become([Machine EXCEPT !.m.EPCL = b, !.m.high = -1])

(* cl_pca::happen(), called by the port before the latch or after the pins  *)
(* have changed, with the levels before and after.  What a source or mode   *)
(* that is not selected notes is dropped, unread, by the write that selects *)
(* it; it is not kept here.                                                 *)
Level(p, line) == p[line] /\ p.pins[line]

Falls(p, line) == Level(p1, line) /\ ~Level(p, line)
Rises(p, line) == ~Level(p1, line) /\ Level(p, line)

NotesEci(p) == Falls(p, "eci") /\ pca.cps % 4 = EciSource

PortEvent(p, told) ==
  /\ NotesEci(p) => pca.ECI_edge + told <= MaxEvents
  /\ p1' = p
  /\ pca' = [pca EXCEPT !.ECI_edge = IF NotesEci(p) THEN @ + told ELSE @]
  /\ module' = [module EXCEPT
       !.cex_neg = @ \/ (Falls(p, "cex") /\ "CAPN" \in module.ccapm),
       !.cex_pos = @ \/ (Rises(p, "cex") /\ "CAPP" \in module.ccapm),
       !.fresh = @ \/ (Rises(p, "cex") /\ "CAPP" \in module.ccapm)]
  /\ pca_did' = Nothing
  /\ UNCHANGED pca_since

(* cl_port::write() writes port_value first, which runs it again before the *)
(* latch has changed: an edge of ECI that the program makes is told twice.  *)
(* set_pin() writes port_value after the pins have changed, and that event  *)
(* holds no edge.                                                           *)
WriteP1 == \E b, e \in BOOLEAN : PortEvent([p1 EXCEPT !.cex = b, !.eci = e], 2)

SetPin == \E q \in PcaPins : PortEvent([p1 EXCEPT !.pins = q], 1)

Timer0Overflow ==
  /\ pca.cps % 4 = Timer0Source
  /\ pca.t0_overflows < MaxEvents
  /\ Become([Machine EXCEPT !.c.t0_overflows = @ + 1, !.did.overflows = 1])

(* cl_pca::reset() and then clear_sfr(), which sets all SFRs to 0 without   *)
(* a word, writes P1 so that every high pin seems to rise, and writes       *)
(* CCAPM0 and CCAPM1 but not CCAPM2, whose copy stays.                      *)
Reset2(m) == IF m.nr = 2 THEN m.ccapm ELSE {}

PcaReset ==
  LET edge == p1.pins.cex /\ "CAPP" \in Reset2(module)
  IN /\ pca' = [pca EXCEPT !.cl = 0, !.ch = 0, !.cps = 0, !.CR = FALSE, !.bit_CR = FALSE,
                           !.t0_overflows = 0, !.ECI_edge = 0]
     /\ module' = [module EXCEPT !.ccapm = Reset2(module), !.ccapl = 0, !.ccaph = 0,
                                 !.EPCL = 0, !.CCF = FALSE, !.cex_pos = edge,
                                 !.cex_neg = FALSE, !.fresh = edge, !.high = -1]
     /\ p1' = [p1 EXCEPT !.cex = TRUE, !.eci = TRUE]
     /\ pca_did' = Nothing
     /\ pca_since' = -1

PcaInit ==
  /\ pca = [cl |-> 0, ch |-> 0, cps |-> 0, CR |-> FALSE, bit_CR |-> FALSE,
            prescaler |-> 0, t0_overflows |-> 0, ECI_edge |-> 0]
  /\ \E n \in PcaModules :
       module = [nr |-> n, ccapm |-> {}, ccapl |-> 0, ccaph |-> 0, EPCL |-> 0,
                 CCF |-> FALSE, cex_pos |-> FALSE, cex_neg |-> FALSE, fresh |-> FALSE,
                 high |-> -1]
  /\ \E q \in PcaPins : p1 = [cex |-> TRUE, eci |-> TRUE, pins |-> q]
  /\ pca_did = Nothing
  /\ pca_since = -1

PcaNext ==
  \/ PcaTick \/ WriteCMOD \/ WriteCCON \/ WriteBitCR \/ ClearBitCCF \/ WriteCCAPM
  \/ WriteCCAPL \/ WriteCCAPH \/ WritePWM \/ WriteP1 \/ SetPin \/ Timer0Overflow \/ PcaReset

PcaSpec == PcaInit /\ [][PcaNext]_pca_vars

-----------------------------------------------------------------------------
Number(high, low) == high * Base + low

Value(c) == Number(c.ch, c.cl)

Values == Base * Base

(* Every variable stays in its range; CL and CH wrap as bytes.              *)
PcaTypeOK ==
  /\ pca \in Counter /\ module \in Module /\ p1 \in Port1
  /\ pca_since \in Nat \cup {-1}

(* Nothing the array is told of is lost or counted again: an overflow of    *)
(* Timer 0 and a falling edge of ECI from outside count once, and one that  *)
(* the program makes by writing P1 twice, since port 1 tells it twice.  So  *)
(* do those that come while the array is stopped: what was counted and what *)
(* waits to be counted change together.                                     *)
Waiting(c) == IF c.cps = Timer0Source THEN c.t0_overflows ELSE c.ECI_edge

Brought ==
  CASE pca.cps = Timer0Source -> pca_did'.overflows
    [] pca.cps = EciSource /\ Level(p1, "eci") /\ ~Level(p1, "eci")' ->
         IF p1'.eci = p1.eci THEN 1 ELSE 2
    [] OTHER -> 0

EventsCountOnce ==
  [][ pca.cps \in {Timer0Source, EciSource} /\ pca'.cps = pca.cps =>
        Value(pca') + Values * pca_did'.wraps + Waiting(pca')
          = Value(pca) + Waiting(pca) + Brought ]_pca_vars

(* Left alone, CH:CL wraps in exactly as many cycles as the divisor of its  *)
(* source says and not later, whatever the prescaler held when the source   *)
(* was selected.                                                            *)
PcaNotLate == pca_since # -1 => pca_since < Values * Divisor[pca.cps]

PcaPeriod ==
  [][ /\ pca_since # -1 /\ pca_did'.wraps > 0 =>
           pca_since + 1 = Values * Divisor[pca.cps]
      /\ PcaNotLate' ]_pca_vars

(* A module that toggles its pin does so once for each time CH:CL reaches   *)
(* its compare value, several counts in one cycle and the carry from CL     *)
(* into CH included.  The value 0 is left out: a full wrap compares twice   *)
(* and toggles the pin back.                                                *)
Reached(target, n) == Cardinality({k \in 1..n : (Value(pca) + k) % Values = target})

MatchTogglesOnce ==
  [][ LET target == Number(module.ccaph, module.ccapl)
      IN module.ccapm = {"ECOM", "MAT", "TOG"} /\ target # 0 /\ pca_did'.counts > 0 =>
           /\ pca_did'.toggles = Reached(target, pca_did'.counts)
           /\ p1'.cex = (IF pca_did'.toggles % 2 = 0 THEN p1.cex ELSE ~p1.cex)
           /\ pca_did'.toggles > 0 => module'.CCF ]_pca_vars

(* In a whole PWM period the output is high for the counts at and above the *)
(* nine-bit value the period began with, however often CCAPnH is rewritten, *)
(* the clock stopped or P1 written meanwhile.  (The count at 0 belongs to   *)
(* two periods and is left out.)                                            *)
PwmDuty ==
  LET p == pca_did.period
  IN p # <<>> => p[1] = Cardinality({k \in 1..(Base - 1) : k >= p[2]})

(* A module that captures rising edges captures at a wrap exactly when the  *)
(* line has risen since its last capture, and once however often it rose.   *)
RiseCapturedOnce ==
  [][ module.ccapm = {"CAPP"} =>
        /\ pca_did'.captures > 0 => module.fresh /\ pca_did'.captures = 1
        /\ pca_did'.wraps > 0 /\ module.fresh => pca_did'.captures = 1 ]_pca_vars

(* What the table of bit names says, "CR" at 0xde: the array runs when bit  *)
(* CR of CCON is set, by whichever instruction.                             *)
RunsByCR == pca.bit_CR = pca.CR

=============================================================================
