-------------------------- MODULE StcPeripheralsProof --------------------------
(***************************************************************************)
(* Proofs about the STC parts that are small: the counter array, for bytes, *)
(* divisors and events of any number; the watchdog, for counters and        *)
(* divisors of any size; the converter, for conversion times, channels and  *)
(* inputs of any kind; and the trace recorder, for instructions of any      *)
(* length.  The inductive invariant of the array says how far the running   *)
(* PWM period and the running period of the counter have come; what a tick  *)
(* that counts several times does is shown by induction over the counts.    *)
(***************************************************************************)
EXTENDS MCStcPeripherals, CountingProof, FiniteSetTheorems, SimControlProof

-----------------------------------------------------------------------------
(* The counter array.                                                       *)

(* The state that one count works on, before it is known how much of a      *)
(* period the output was high.                                              *)
Modules ==
  [nr : PcaModules, ccapm : SUBSET ModeBits, ccapl : Byte, ccaph : Byte, EPCL : 0..1,
   CCF : BOOLEAN, cex_pos : BOOLEAN, cex_neg : BOOLEAN, fresh : BOOLEAN, high : Int]

Dids ==
  [overflows : Nat, counts : Nat, wraps : Nat, captures : Nat, toggles : Nat,
   period : {<<>>} \cup (Int \X Int)]

Machines == [c : Counter, m : Modules, out : BOOLEAN, did : Dids]

(* The PWM output counts itself high, and changes nothing else but the      *)
(* pin.                                                                     *)
LEMMA PwmOutputIs ==
  ASSUME NEW s \in Machines
  PROVE  LET r == PwmOutput(s)
             h == IF s.m.high = -1 \/ s.c.cl = 0 \/ s.c.cl < Compare(s.m) THEN s.m.high ELSE s.m.high + 1
         IN /\ r \in Machines /\ r.c = s.c /\ r.did = s.did
            /\ ~IsPwm(s) => r = s
            /\ r.m = (IF IsPwm(s) THEN [s.m EXCEPT !.high = h] ELSE s.m)
<1> DEFINE h == IF s.m.high = -1 \/ s.c.cl = 0 \/ s.c.cl < Compare(s.m) THEN s.m.high ELSE s.m.high + 1
           o == s.c.cl >= Compare(s.m)
           m2 == [s.m EXCEPT !.high = h]
           r == [s EXCEPT !.out = o, !.m = m2]
<1>1. o \in BOOLEAN /\ h \in Int /\ s.m \in Modules /\ s.c \in Counter
  BY DEF Machines, Modules
<1>2. PwmOutput(s) = IF ~IsPwm(s) THEN s ELSE r
  BY DEF PwmOutput
<1> HIDE DEF h, o
<1>3. m2 \in Modules
  BY <1>1 DEF Modules
<1> HIDE DEF m2
<1>4. r \in Machines /\ r.c = s.c /\ r.did = s.did /\ r.m = m2
  BY <1>1, <1>3 DEF Machines
<1> QED
  BY <1>2, <1>4 DEF m2, h

(* What the parts of a count have in common: they leave the counter alone,  *)
(* and the module's setup.                                                  *)
SetupOfModuleKept(s, r) ==
  /\ r.m.nr = s.m.nr /\ r.m.ccapm = s.m.ccapm /\ r.m.EPCL = s.m.EPCL /\ r.m.cex_neg = s.m.cex_neg

Stage(s, r) ==
  /\ r \in Machines /\ r.c = s.c /\ SetupOfModuleKept(s, r)
  /\ r.did.overflows = s.did.overflows /\ r.did.counts = s.did.counts /\ r.did.wraps = s.did.wraps

StageCompares(s, r) ==
  /\ r.m.ccapl = s.m.ccapl /\ r.m.ccaph = s.m.ccaph

StageNotes(s, r) ==
  /\ r.m.cex_pos = s.m.cex_pos /\ r.m.fresh = s.m.fresh /\ r.did.captures = s.did.captures

StageToggles(s, r) ==
  /\ r.did.toggles = s.did.toggles

StageHigh(s, r) ==
  /\ r.m.high = s.m.high /\ r.did.period = s.did.period

(* A part of a count that does not apply leaves all as it is.               *)
LEMMA SameStage ==
  ASSUME NEW s \in Machines
  PROVE  /\ Stage(s, s) /\ StageCompares(s, s) /\ StageNotes(s, s) /\ StageToggles(s, s)
         /\ StageHigh(s, s)
BY DEF Stage, SetupOfModuleKept, StageCompares, StageNotes, StageToggles, StageHigh

(* A reload ends the period measured and begins the next.                   *)
LEMMA PwmReloadIs ==
  ASSUME NEW s \in Machines
  PROVE  LET r == PwmReload(s)
         IN /\ Stage(s, r) /\ StageNotes(s, r) /\ StageToggles(s, r) /\ r.out = s.out
            /\ ~Has(s, {"PWM"}) => r = s
            /\ Has(s, {"PWM"}) =>
                 /\ r.m.high = 0
                 /\ r.did.period = IF IsPwm(s) /\ s.m.high # -1 THEN <<s.m.high, Compare(s.m)>>
                                   ELSE s.did.period
<1>1. CASE ~Has(s, {"PWM"})
  BY <1>1, SameStage DEF PwmReload
<1>2. CASE Has(s, {"PWM"})
  <2> DEFINE l == s.m.ccaph
             p == IF IsPwm(s) /\ s.m.high # -1 THEN <<s.m.high, Compare(s.m)>> ELSE s.did.period
             m2 == [s.m EXCEPT !.ccapl = l, !.high = 0]
             d2 == [s.did EXCEPT !.period = p]
             r == [s EXCEPT !.m = m2, !.did = d2]
  <2>1. PwmReload(s) = r
    BY <1>2 DEF PwmReload
  <2>2. s.m \in Modules /\ s.did \in Dids /\ s.c \in Counter /\ s.out \in BOOLEAN
    BY DEF Machines
  <2>3. l \in Byte /\ s.m.high \in Int /\ s.m.ccapl \in Byte /\ s.m.EPCL \in 0..1
    BY <2>2 DEF Modules
  <2>4. Compare(s.m) \in Int
    BY <2>3, ByteAssumption DEF Compare, Byte
  <2>5. p \in {<<>>} \cup (Int \X Int)
    BY <2>2, <2>3, <2>4 DEF Dids
  <2> HIDE DEF l, p
  <2>0. 0 \in Int /\ [s.m EXCEPT !.ccapl = l] \in Modules
    BY <2>2, <2>3 DEF Modules
  <2>61. m2 = [[s.m EXCEPT !.ccapl = l] EXCEPT !.high = 0]
    BY <2>2 DEF Modules
  <2>62. m2 \in Modules
    BY <2>0, <2>61 DEF Modules
  <2>63. m2.high = 0
    BY <2>2 DEF Modules
  <2>6. m2 \in Modules /\ m2.high = 0
    BY <2>62, <2>63
  <2>7. /\ m2.nr = s.m.nr /\ m2.ccapm = s.m.ccapm /\ m2.EPCL = s.m.EPCL /\ m2.cex_neg = s.m.cex_neg
        /\ m2.cex_pos = s.m.cex_pos /\ m2.fresh = s.m.fresh
    BY <2>2 DEF Modules
  <2>8. /\ d2 \in Dids /\ d2.period = p /\ d2.overflows = s.did.overflows /\ d2.counts = s.did.counts
        /\ d2.wraps = s.did.wraps /\ d2.captures = s.did.captures /\ d2.toggles = s.did.toggles
    BY <2>2, <2>5 DEF Dids
  <2> HIDE DEF m2, d2
  <2>9. r \in Machines /\ r.m = m2 /\ r.did = d2 /\ r.c = s.c /\ r.out = s.out
    BY <2>6, <2>8 DEF Machines
  <2> HIDE DEF r
  <2>10. Stage(s, r) /\ StageNotes(s, r) /\ StageToggles(s, r)
    BY <2>6, <2>7, <2>8, <2>9 DEF Stage, SetupOfModuleKept, StageNotes, StageToggles
  <2> QED
    BY <1>2, <2>1, <2>6, <2>8, <2>9, <2>10 DEF p
<1> QED
  BY <1>1, <1>2

(* A capture takes the rising edge noted.                                   *)
LEMMA CaptureIs ==
  ASSUME NEW s \in Machines
  PROVE  LET r == Capture(s)
         IN /\ Stage(s, r) /\ StageToggles(s, r) /\ StageHigh(s, r) /\ r.out = s.out
            /\ ~Captures(s) => r = s
            /\ Captures(s) => ~r.m.cex_pos /\ ~r.m.fresh /\ r.did.captures = s.did.captures + 1
<1>1. CASE ~Captures(s)
  BY <1>1, SameStage DEF Capture
<1>2. CASE Captures(s)
  <2> DEFINE m1 == [s.m EXCEPT !.ccapl = s.c.cl, !.ccaph = s.c.ch]
             m2 == [m1 EXCEPT !.CCF = TRUE, !.cex_pos = FALSE, !.fresh = FALSE]
             n == s.did.captures + 1
             d2 == [s.did EXCEPT !.captures = n]
             r == [s EXCEPT !.m = m2, !.did = d2]
  <2>2. s.m \in Modules /\ s.did \in Dids /\ s.c \in Counter /\ s.out \in BOOLEAN
    BY DEF Machines
  <2>3. s.c.cl \in Byte /\ s.c.ch \in Byte /\ n \in Nat
    BY <2>2 DEF Counter, Dids
  <2>1. Capture(s) = r
    BY <1>2, <2>2 DEF Capture, Modules, Dids, Machines
  <2> HIDE DEF n
  <2>4. m1 \in Modules
    BY <2>2, <2>3 DEF Modules
  <2>5. /\ m1.nr = s.m.nr /\ m1.ccapm = s.m.ccapm /\ m1.EPCL = s.m.EPCL /\ m1.cex_neg = s.m.cex_neg
        /\ m1.high = s.m.high
    BY <2>2 DEF Modules
  <2> HIDE DEF m1
  <2>6. m2 \in Modules
    BY <2>4 DEF Modules
  <2>7. /\ m2.nr = m1.nr /\ m2.ccapm = m1.ccapm /\ m2.EPCL = m1.EPCL /\ m2.cex_neg = m1.cex_neg
        /\ m2.high = m1.high /\ m2.cex_pos = FALSE /\ m2.fresh = FALSE
    BY <2>4 DEF Modules
  <2>8. /\ d2 \in Dids /\ d2.captures = n /\ d2.overflows = s.did.overflows /\ d2.counts = s.did.counts
        /\ d2.wraps = s.did.wraps /\ d2.toggles = s.did.toggles /\ d2.period = s.did.period
    BY <2>2, <2>3 DEF Dids
  <2> HIDE DEF m2, d2
  <2>9. r \in Machines /\ r.m = m2 /\ r.did = d2 /\ r.c = s.c /\ r.out = s.out
    BY <2>6, <2>8 DEF Machines
  <2> HIDE DEF r
  <2>10. Stage(s, r) /\ StageToggles(s, r) /\ StageHigh(s, r)
    BY <2>5, <2>7, <2>8, <2>9 DEF Stage, SetupOfModuleKept, StageToggles, StageHigh
  <2> QED
    BY <1>2, <2>1, <2>7, <2>8, <2>9, <2>10 DEF n
<1> QED
  BY <1>1, <1>2

(* What a match does.                                                       *)
Flagged(s) == [s EXCEPT !.m.CCF = TRUE]

MatchDone(s, r) ==
  /\ Stage(s, r) /\ StageNotes(s, r) /\ StageCompares(s, r) /\ StageHigh(s, r)
  /\ r.did.toggles = IF Has(s, {"TOG"}) THEN s.did.toggles + 1 ELSE s.did.toggles
  /\ r.out = IF Has(s, {"TOG"}) THEN ~s.out ELSE s.out
  /\ r.m.CCF

(* A match sets the flag, and turns the pin once where it toggles.          *)
LEMMA MatchedIs ==
  ASSUME NEW s \in Machines
  PROVE  MatchDone(s, LET t == Flagged(s) IN IF Has(s, {"TOG"}) THEN Toggle(t) ELSE t)
<1> DEFINE m2 == [s.m EXCEPT !.CCF = TRUE]
           t == Flagged(s)
<1>1. s.m \in Modules /\ s.did \in Dids /\ s.c \in Counter /\ s.out \in BOOLEAN
  BY DEF Machines
<1>2. t = [s EXCEPT !.m = m2]
  BY DEF Flagged
<1>3. /\ m2 \in Modules /\ m2.CCF = TRUE
      /\ m2.nr = s.m.nr /\ m2.ccapm = s.m.ccapm /\ m2.EPCL = s.m.EPCL /\ m2.cex_neg = s.m.cex_neg
      /\ m2.high = s.m.high /\ m2.cex_pos = s.m.cex_pos /\ m2.fresh = s.m.fresh
      /\ m2.ccapl = s.m.ccapl /\ m2.ccaph = s.m.ccaph
  BY <1>1 DEF Modules
<1> HIDE DEF m2, t
<1>4. t \in Machines /\ t.m = m2 /\ t.c = s.c /\ t.did = s.did /\ t.out = s.out
  BY <1>1, <1>2, <1>3 DEF Machines
<1>5. CASE ~Has(s, {"TOG"})
  <2>1. MatchDone(s, t)
    BY <1>3, <1>4, <1>5 DEF MatchDone, Stage, SetupOfModuleKept, StageNotes, StageCompares, StageHigh
  <2> QED
    BY <1>5, <2>1 DEF t
<1>6. CASE Has(s, {"TOG"})
  <2> DEFINE o == ~t.out
             n == t.did.toggles + 1
             d2 == [t.did EXCEPT !.toggles = n]
             r == [t EXCEPT !.out = o, !.did = d2]
  <2>1. Toggle(t) = r
    BY <1>1, <1>4 DEF Toggle, Machines, Dids
  <2>2. o \in BOOLEAN /\ n \in Nat /\ o = ~s.out /\ n = s.did.toggles + 1
    BY <1>1, <1>4 DEF Dids
  <2> HIDE DEF o, n
  <2>3. /\ d2 \in Dids /\ d2.captures = s.did.captures /\ d2.overflows = s.did.overflows
        /\ d2.counts = s.did.counts /\ d2.wraps = s.did.wraps /\ d2.toggles = n
        /\ d2.period = s.did.period
    BY <1>1, <1>4, <2>2 DEF Dids
  <2> HIDE DEF d2
  <2>4. r \in Machines /\ r.m = t.m /\ r.c = t.c /\ r.did = d2 /\ r.out = o
    BY <1>4, <2>2, <2>3 DEF Machines
  <2> HIDE DEF r
  <2>5. MatchDone(s, r)
    BY <1>3, <1>4, <1>6, <2>2, <2>3, <2>4
       DEF MatchDone, Stage, SetupOfModuleKept, StageNotes, StageCompares, StageHigh
  <2> QED
    BY <1>6, <2>1, <2>5 DEF t
<1> QED
  BY <1>5, <1>6

(* The second comparison at a full wrap.                                    *)
LEMMA CompareAtWrapIs ==
  ASSUME NEW s \in Machines
  PROVE  LET r == CompareAtWrap(s)
         IN /\ Stage(s, r) /\ StageNotes(s, r) /\ StageCompares(s, r) /\ StageHigh(s, r)
            /\ ~(Has(s, {"ECOM"}) /\ Matches(s)) => r = s
<1>1. CASE ~(Has(s, {"ECOM"}) /\ Matches(s))
  BY <1>1, SameStage DEF CompareAtWrap
<1>2. CASE Has(s, {"ECOM"}) /\ Matches(s)
  <2>1. CompareAtWrap(s) = LET t == Flagged(s) IN IF Has(s, {"TOG"}) THEN Toggle(t) ELSE t
    BY <1>2 DEF CompareAtWrap, Flagged
  <2> QED
    BY <1>2, <2>1, MatchedIs DEF MatchDone
<1> QED
  BY <1>1, <1>2

(* The comparison of every count.                                           *)
LEMMA MatchIs ==
  ASSUME NEW s \in Machines
  PROVE  LET r == Match(s)
         IN IF Has(s, {"ECOM", "MAT"}) /\ ~Has(s, {"PWM"}) /\ Matches(s) THEN MatchDone(s, r)
            ELSE r = s
<1>1. CASE ~(Has(s, {"ECOM", "MAT"}) /\ ~Has(s, {"PWM"}) /\ Matches(s))
  BY <1>1 DEF Match
<1>2. CASE Has(s, {"ECOM", "MAT"}) /\ ~Has(s, {"PWM"}) /\ Matches(s)
  <2>1. Match(s) = LET t == Flagged(s) IN IF Has(s, {"TOG"}) THEN Toggle(t) ELSE t
    BY <1>2 DEF Match, Flagged
  <2> QED
    BY <1>2, <2>1, MatchedIs
<1> QED
  BY <1>1, <1>2

(* The PWM output of a full wrap sets the pin only.                         *)
LEMMA PwmAtWrapIs ==
  ASSUME NEW s \in Machines
  PROVE  LET r == PwmAtWrap(s)
         IN /\ r \in Machines /\ r.c = s.c /\ r.m = s.m /\ r.did = s.did
            /\ ~IsPwm(s) => r = s
<1> DEFINE o == s.c.cl >= s.m.ccapl
<1>1. PwmAtWrap(s) = IF IsPwm(s) THEN [s EXCEPT !.out = o] ELSE s
  BY DEF PwmAtWrap
<1>2. o \in BOOLEAN
  OBVIOUS
<1> HIDE DEF o
<1> QED
  BY <1>1, <1>2 DEF Machines

(* A full wrap of CH:CL.                                                    *)
LEMMA DoModuleIs ==
  ASSUME NEW s \in Machines
  PROVE  LET r == DoModule(s)
         IN /\ Stage(s, r) /\ StageHigh(s, r)
            /\ IF Captures(s) THEN ~r.m.cex_pos /\ ~r.m.fresh /\ r.did.captures = s.did.captures + 1
               ELSE StageNotes(s, r)
            /\ ~Captures(s) /\ ~(Has(s, {"ECOM"}) /\ Matches(s)) /\ ~IsPwm(s) => r = s
<1> DEFINE t == Capture(s)
           u == CompareAtWrap(t)
           r == PwmAtWrap(u)
<1>1. /\ Stage(s, t) /\ StageHigh(s, t)
      /\ ~Captures(s) => t = s
      /\ Captures(s) => ~t.m.cex_pos /\ ~t.m.fresh /\ t.did.captures = s.did.captures + 1
  BY CaptureIs
<1> HIDE DEF t
<1>2. t \in Machines
  BY <1>1 DEF Stage
<1>3. /\ Stage(t, u) /\ StageNotes(t, u) /\ StageHigh(t, u)
      /\ ~(Has(t, {"ECOM"}) /\ Matches(t)) => u = t
  BY <1>2, CompareAtWrapIs
<1> HIDE DEF u
<1>4. u \in Machines
  BY <1>3 DEF Stage
<1>5. r \in Machines /\ r.c = u.c /\ r.m = u.m /\ r.did = u.did /\ (~IsPwm(u) => r = u)
  BY <1>4, PwmAtWrapIs
<1> HIDE DEF r
<1>6. Stage(s, r) /\ StageHigh(s, r)
  BY <1>1, <1>3, <1>5 DEF Stage, SetupOfModuleKept, StageHigh
<1>7. StageNotes(t, r)
  BY <1>3, <1>5 DEF StageNotes
<1>8. IF Captures(s) THEN ~r.m.cex_pos /\ ~r.m.fresh /\ r.did.captures = s.did.captures + 1
      ELSE StageNotes(s, r)
  BY <1>1, <1>7 DEF StageNotes
<1>9. ~Captures(s) /\ ~(Has(s, {"ECOM"}) /\ Matches(s)) /\ ~IsPwm(s) => r = s
  BY <1>1, <1>3, <1>5
<1>10. DoModule(s) = r
  BY DEF DoModule, r, u, t
<1> QED
  BY <1>6, <1>8, <1>9, <1>10

(* The other fields of the counter, which a count leaves alone.             *)
ClockKept(c, d) ==
  /\ d.cps = c.cps /\ d.CR = c.CR /\ d.bit_CR = c.bit_CR /\ d.prescaler = c.prescaler
  /\ d.t0_overflows = c.t0_overflows /\ d.ECI_edge = c.ECI_edge

SetHigh(s, n) == [s EXCEPT !.c.ch = n]

(* CH is written.                                                           *)
LEMMA SetHighIs ==
  ASSUME NEW s \in Machines, NEW n \in Byte
  PROVE  LET r == SetHigh(s, n)
         IN /\ r \in Machines /\ r.m = s.m /\ r.did = s.did /\ r.out = s.out
            /\ r.c.cl = s.c.cl /\ r.c.ch = n /\ ClockKept(s.c, r.c)
<1> DEFINE c2 == [s.c EXCEPT !.ch = n]
           r == [s EXCEPT !.c = c2]
<1>1. s.c \in Counter
  BY DEF Machines
<1>2. c2 \in Counter /\ c2.cl = s.c.cl /\ c2.ch = n /\ ClockKept(s.c, c2)
  BY <1>1 DEF Counter, ClockKept
<1>3. SetHigh(s, n) = r
  BY DEF SetHigh
<1> HIDE DEF c2
<1>4. r \in Machines /\ r.m = s.m /\ r.did = s.did /\ r.out = s.out /\ r.c = c2
  BY <1>2 DEF Machines
<1> QED
  BY <1>2, <1>3, <1>4

(* A full wrap is noted.                                                    *)
Wrapped(s) == [s EXCEPT !.did.wraps = @ + 1]

(* ... which changes the history only.                                      *)
LEMMA WrappedIs ==
  ASSUME NEW s \in Machines
  PROVE  LET r == Wrapped(s)
         IN /\ r \in Machines /\ r.c = s.c /\ r.m = s.m /\ r.out = s.out
            /\ r.did.wraps = s.did.wraps + 1 /\ r.did.overflows = s.did.overflows
            /\ r.did.counts = s.did.counts
            /\ StageNotes(s, r) /\ StageToggles(s, r) /\ StageHigh(s, r)
<1> DEFINE n == s.did.wraps + 1
           d2 == [s.did EXCEPT !.wraps = n]
           r == [s EXCEPT !.did = d2]
<1>1. s.did \in Dids /\ n \in Nat
  BY DEF Machines, Dids
<1>2. Wrapped(s) = r
  BY <1>1 DEF Wrapped, Dids
<1> HIDE DEF n
<1>3. /\ d2 \in Dids /\ d2.wraps = n /\ d2.overflows = s.did.overflows /\ d2.counts = s.did.counts
      /\ d2.captures = s.did.captures /\ d2.toggles = s.did.toggles /\ d2.period = s.did.period
  BY <1>1 DEF Dids
<1> HIDE DEF d2
<1>4. r \in Machines /\ r.c = s.c /\ r.m = s.m /\ r.out = s.out /\ r.did = d2
  BY <1>3 DEF Machines
<1> HIDE DEF r
<1> QED
  BY <1>2, <1>3, <1>4 DEF n, StageNotes, StageToggles, StageHigh

(* CL has wrapped.                                                          *)
AfterCarry(s, r) ==
  /\ r \in Machines /\ ClockKept(s.c, r.c) /\ SetupOfModuleKept(s, r)
  /\ r.c.cl = s.c.cl /\ r.c.ch = Up(s.c.ch)
  /\ r.did.overflows = s.did.overflows /\ r.did.counts = s.did.counts
  /\ r.did.wraps = IF Up(s.c.ch) = 0 THEN s.did.wraps + 1 ELSE s.did.wraps

(* What is left of a carry when CH has counted.                             *)
CarriedUp(t) == IF t.c.ch # 0 THEN t ELSE DoModule([t EXCEPT !.did.wraps = @ + 1])

(* A carry counts CH, and captures at a full wrap and nowhere else.         *)
LEMMA CarryIs ==
  ASSUME NEW s \in Machines
  PROVE  LET r == Carry(s)
         IN /\ AfterCarry(s, r)
            /\ IF Up(s.c.ch) = 0 /\ Captures(s)
               THEN ~r.m.cex_pos /\ ~r.m.fresh /\ r.did.captures = s.did.captures + 1
               ELSE StageNotes(s, r)
            /\ StageHigh(PwmReload(s), r)
            /\ ~Captures(s) /\ ~Has(s, {"PWM"})
               /\ ~(Has(s, {"ECOM"}) /\ s.c.cl = s.m.ccapl /\ s.m.ccaph = 0)
                 => r.m = s.m /\ r.out = s.out /\ r.did.toggles = s.did.toggles
<1> DEFINE n == Up(s.c.ch)
           t == PwmReload(s)
           u == SetHigh(t, n)
           v == Wrapped(u)
           w == DoModule(v)
           r == IF n = 0 THEN w ELSE u
<1>1. s.c \in Counter /\ s.c.ch \in Byte /\ n \in Byte
  BY UpIs DEF Machines, Counter
<1>2. /\ Stage(s, t) /\ StageNotes(s, t) /\ StageToggles(s, t) /\ t.out = s.out
      /\ ~Has(s, {"PWM"}) => t = s
  BY PwmReloadIs
<1>3. Carry(s) = r
  <2>1. t.c = s.c /\ t \in Machines
    BY <1>2 DEF Stage
  <2>2. [t EXCEPT !.c.ch = Up(@)] = u
    BY <2>1 DEF SetHigh, Machines, Counter
  <2>3. u.c.ch = n
    BY <1>1, <2>1, SetHighIs
  <2> HIDE DEF u
  <2>4. Carry(s) = CarriedUp([t EXCEPT !.c.ch = Up(@)])
    BY DEF Carry, CarriedUp, t
  <2>5. Carry(s) = CarriedUp(u)
    BY <2>2, <2>4
  <2> QED
    BY <2>3, <2>5 DEF CarriedUp, Wrapped
<1> HIDE DEF n, t
<1>4. t \in Machines /\ t.c = s.c /\ SetupOfModuleKept(s, t)
      /\ t.did.overflows = s.did.overflows /\ t.did.counts = s.did.counts
      /\ t.did.wraps = s.did.wraps
  BY <1>2 DEF Stage
<1>5. /\ u \in Machines /\ u.m = t.m /\ u.did = t.did /\ u.out = t.out
      /\ u.c.cl = t.c.cl /\ u.c.ch = n /\ ClockKept(t.c, u.c)
  BY <1>1, <1>4, SetHighIs
<1> HIDE DEF u
<1>6. /\ v \in Machines /\ v.c = u.c /\ v.m = u.m /\ v.out = u.out
      /\ v.did.wraps = u.did.wraps + 1 /\ v.did.overflows = u.did.overflows
      /\ v.did.counts = u.did.counts
      /\ StageNotes(u, v) /\ StageToggles(u, v) /\ StageHigh(u, v)
  BY <1>5, WrappedIs
<1> HIDE DEF v
<1>7. /\ Stage(v, w) /\ StageHigh(v, w)
      /\ IF Captures(v) THEN ~w.m.cex_pos /\ ~w.m.fresh /\ w.did.captures = v.did.captures + 1
         ELSE StageNotes(v, w)
      /\ ~Captures(v) /\ ~(Has(v, {"ECOM"}) /\ Matches(v)) /\ ~IsPwm(v) => w = v
  BY <1>6, DoModuleIs
<1> HIDE DEF w
<1>8. StageHigh(t, u) /\ StageNotes(s, u) /\ StageToggles(s, u)
  BY <1>2, <1>5 DEF StageHigh, StageNotes, StageToggles
<1>9. StageHigh(t, v) /\ StageNotes(s, v) /\ StageToggles(s, v)
  BY <1>6, <1>8 DEF StageHigh, StageNotes, StageToggles
<1>10. Captures(v) <=> Captures(s)
  <2>1. v.m.ccapm = s.m.ccapm /\ v.m.cex_neg = s.m.cex_neg /\ v.m.cex_pos = s.m.cex_pos
    BY <1>4, <1>5, <1>6, <1>9 DEF SetupOfModuleKept, StageNotes
  <2> QED
    BY <2>1 DEF Captures, Has
<1>11. CASE n = 0
  <2>1. r = w
    BY <1>11
  <2>2. AfterCarry(s, w)
    BY <1>4, <1>5, <1>6, <1>7, <1>11 DEF AfterCarry, Stage, SetupOfModuleKept, ClockKept, n
  <2>3. IF Captures(s) THEN ~w.m.cex_pos /\ ~w.m.fresh /\ w.did.captures = s.did.captures + 1
        ELSE StageNotes(s, w)
    BY <1>7, <1>9, <1>10 DEF StageNotes
  <2>4. StageHigh(t, w)
    BY <1>7, <1>9 DEF StageHigh
  <2>5. ASSUME ~Captures(s), ~Has(s, {"PWM"}), ~(Has(s, {"ECOM"}) /\ s.c.cl = s.m.ccapl /\ s.m.ccaph = 0)
        PROVE  w.m = s.m /\ w.out = s.out /\ w.did.toggles = s.did.toggles
    <3>1. t = s /\ v.m = s.m /\ v.out = s.out /\ v.c.cl = s.c.cl /\ v.c.ch = 0
      BY <1>2, <1>5, <1>6, <1>11, <2>5
    <3>2. ~(Has(v, {"ECOM"}) /\ Matches(v)) /\ ~IsPwm(v)
      BY <2>5, <3>1 DEF Has, Matches, IsPwm
    <3>3. w = v
      BY <1>7, <1>10, <2>5, <3>2
    <3> QED
      BY <1>9, <3>1, <3>3 DEF StageToggles
  <2> HIDE DEF r
  <2> QED
    BY <1>3, <1>11, <2>1, <2>2, <2>3, <2>4, <2>5 DEF n, t
<1>12. CASE n # 0
  <2>1. r = u
    BY <1>12
  <2>2. AfterCarry(s, u)
    BY <1>4, <1>5, <1>12 DEF AfterCarry, SetupOfModuleKept, ClockKept, n
  <2>3. ~Has(s, {"PWM"}) => u.m = s.m /\ u.out = s.out /\ u.did.toggles = s.did.toggles
    BY <1>2, <1>5
  <2> HIDE DEF r
  <2> QED
    BY <1>3, <1>8, <1>12, <2>1, <2>2, <2>3 DEF n, t
<1> QED
  BY <1>11, <1>12

(* How many of the first n numbers are in S.                                *)
Among(S, n) == Cardinality({k \in 1..n : k \in S})

(* One number more, and one member more where it is in S.                   *)
LEMMA AmongUp ==
  ASSUME NEW S, NEW n \in Nat
  PROVE  /\ Among(S, n) \in 0..n
         /\ Among(S, n + 1) = Among(S, n) + IF n + 1 \in S THEN 1 ELSE 0
<1> DEFINE A == {k \in 1..n : k \in S}
           B == {k \in 1..(n + 1) : k \in S}
<1>1. IsFiniteSet(1..n) /\ Cardinality(1..n) = n
  BY FS_Interval
<1>2. A \subseteq 1..n
  OBVIOUS
<1>3. IsFiniteSet(A) /\ Cardinality(A) \in Nat /\ Cardinality(A) <= n
  BY <1>1, <1>2, FS_Subset, FS_CardinalityType
<1>4. B = IF n + 1 \in S THEN A \cup {n + 1} ELSE A
  OBVIOUS
<1>5. n + 1 \notin A
  OBVIOUS
<1>6. Cardinality(A \cup {n + 1}) = Cardinality(A) + 1
  BY <1>3, <1>5, FS_AddElement
<1>7. Among(S, n) = Cardinality(A) /\ Among(S, n + 1) = Cardinality(B)
  BY DEF Among
<1> HIDE DEF A, B
<1> QED
  BY <1>3, <1>4, <1>6, <1>7

(* No number, no member.                                                    *)
LEMMA AmongNone ==
  ASSUME NEW S
  PROVE  Among(S, 0) = 0
<1>1. {k \in 1..0 : k \in S} = {}
  OBVIOUS
<1> QED
  BY <1>1, FS_EmptySet DEF Among

(* The counts up to n at which the output is high for a compare value.      *)
HighCounts(n, cmp) == Cardinality({k \in 1..n : k >= cmp})

(* One count more with the output high at and above the compare value.      *)
LEMMA HighUp ==
  ASSUME NEW cmp \in Int, NEW n \in Nat
  PROVE  /\ HighCounts(n, cmp) \in 0..n
         /\ HighCounts(n + 1, cmp) = HighCounts(n, cmp) + IF n + 1 >= cmp THEN 1 ELSE 0
         /\ HighCounts(0, cmp) = 0
<1> DEFINE S == {k \in Nat : k >= cmp}
<1>1. ASSUME NEW m \in Nat
      PROVE  HighCounts(m, cmp) = Among(S, m)
  <2>1. {k \in 1..m : k >= cmp} = {k \in 1..m : k \in S}
    OBVIOUS
  <2> QED
    BY <2>1 DEF HighCounts, Among
<1>2. n + 1 \in Nat /\ 0 \in Nat /\ (n + 1 \in S <=> n + 1 >= cmp)
  OBVIOUS
<1>3. HighCounts(n, cmp) = Among(S, n) /\ HighCounts(n + 1, cmp) = Among(S, n + 1)
      /\ HighCounts(0, cmp) = Among(S, 0)
  BY <1>1, <1>2
<1> HIDE DEF S
<1> QED
  BY <1>2, <1>3, AmongUp, AmongNone

(* What the counts with the output high say of a PWM period, running or     *)
(* ended.                                                                   *)
Duty(s) ==
  /\ s.m.high \in -1..Base
  /\ IsPwm(s) /\ s.m.high # -1 => s.m.high = HighCounts(s.c.cl, Compare(s.m))
  /\ s.did.period # <<>> => s.did.period[1] = HighCounts(Base - 1, s.did.period[2])

(* The nine-bit compare value is a number.                                  *)
LEMMA CompareIsInt ==
  ASSUME NEW s \in Machines
  PROVE  Compare(s.m) \in Int
<1>1. s.m.EPCL \in 0..1 /\ s.m.ccapl \in Byte
  BY DEF Machines, Modules
<1> QED
  BY <1>1, ByteAssumption DEF Compare, Byte

(* Two bytes make each number once.                                         *)
LEMMA NumberOnce ==
  ASSUME NEW h \in Byte, NEW l \in Byte, NEW i \in Byte, NEW k \in Byte
  PROVE  Number(h, l) = Number(i, k) <=> h = i /\ l = k
<1>1. Base \in Nat \ {0} /\ h \in Nat /\ i \in Nat /\ l \in 0..(Base - 1) /\ k \in 0..(Base - 1)
  BY ByteAssumption DEF Byte
<1> DEFINE a == h * Base + l
           b == i * Base + k
<1>2. a \in Nat /\ b \in Nat
  BY <1>1
<1> HIDE DEF a, b
<1>3. a \div Base = h /\ a % Base = l
  BY <1>1, <1>2, DivUnique DEF a
<1>4. b \div Base = i /\ b % Base = k
  BY <1>1, <1>2, DivUnique DEF b
<1>5. a = b <=> h = i /\ l = k
  BY <1>3, <1>4 DEF a, b
<1> QED
  BY <1>5 DEF Number, a, b

(* CL counts, and nothing else yet.                                         *)
LowUp(s) == [s EXCEPT !.c.cl = Up(@), !.did.counts = @ + 1]

(* ... which leaves module and pin alone.                                   *)
LEMMA LowUpIs ==
  ASSUME NEW s \in Machines
  PROVE  LET r == LowUp(s)
         IN /\ r \in Machines /\ r.m = s.m /\ r.out = s.out
            /\ r.c.cl = Up(s.c.cl) /\ r.c.ch = s.c.ch /\ ClockKept(s.c, r.c)
            /\ r.did.counts = s.did.counts + 1 /\ r.did.overflows = s.did.overflows
            /\ r.did.wraps = s.did.wraps
            /\ StageNotes(s, r) /\ StageToggles(s, r) /\ StageHigh(s, r)
<1> DEFINE l == Up(s.c.cl)
           n == s.did.counts + 1
           c2 == [s.c EXCEPT !.cl = l]
           d2 == [s.did EXCEPT !.counts = n]
           r == [s EXCEPT !.c = c2, !.did = d2]
<1>1. s.c \in Counter /\ s.did \in Dids /\ s.c.cl \in Byte
  BY DEF Machines, Counter
<1>2. l \in Byte /\ n \in Nat
  BY <1>1, UpIs DEF Dids
<1>3. LowUp(s) = r
  BY <1>1 DEF LowUp, Counter, Dids, Machines
<1> HIDE DEF l, n
<1>4. c2 \in Counter /\ c2.cl = l /\ c2.ch = s.c.ch /\ ClockKept(s.c, c2)
  BY <1>1, <1>2 DEF Counter, ClockKept
<1>5. /\ d2 \in Dids /\ d2.counts = n /\ d2.overflows = s.did.overflows /\ d2.wraps = s.did.wraps
      /\ d2.captures = s.did.captures /\ d2.toggles = s.did.toggles /\ d2.period = s.did.period
  BY <1>1, <1>2 DEF Dids
<1> HIDE DEF c2, d2
<1>6. r \in Machines /\ r.m = s.m /\ r.out = s.out /\ r.c = c2 /\ r.did = d2
  BY <1>4, <1>5 DEF Machines
<1> HIDE DEF r
<1> QED
  BY <1>3, <1>4, <1>5, <1>6 DEF l, n, StageNotes, StageToggles, StageHigh

(* What one count makes of the counter, ...                                 *)
CountsUp(s, r) ==
  /\ r \in Machines /\ ClockKept(s.c, r.c) /\ SetupOfModuleKept(s, r)
  /\ r.did.overflows = s.did.overflows /\ r.did.counts = s.did.counts + 1
  /\ Value(s.c) \in 0..(Values - 1) /\ Value(r.c) \in 0..(Values - 1)
  /\ IF Value(s.c) = Values - 1
     THEN Value(r.c) = 0 /\ r.did.wraps = s.did.wraps + 1
     ELSE Value(r.c) = Value(s.c) + 1 /\ r.did.wraps = s.did.wraps

(* ... of the edges noted ...                                               *)
CountCaptures(s, r) ==
  IF Value(s.c) = Values - 1 /\ Captures(s)
  THEN ~r.m.cex_pos /\ ~r.m.fresh /\ r.did.captures = s.did.captures + 1
  ELSE StageNotes(s, r)

(* ... and of the pin of a module that toggles it.                          *)
Target(m) == Number(m.ccaph, m.ccapl)

Toggles(s) == s.m.ccapm = {"ECOM", "MAT", "TOG"} /\ Target(s.m) # 0

CountToggles(s, r) ==
  Toggles(s) =>
    /\ r.m.ccapl = s.m.ccapl /\ r.m.ccaph = s.m.ccaph
    /\ IF Value(r.c) = Target(s.m)
       THEN r.did.toggles = s.did.toggles + 1 /\ r.out = ~s.out /\ r.m.CCF
       ELSE r.did.toggles = s.did.toggles /\ r.out = s.out /\ r.m.CCF = s.m.CCF

(* The part of a count that is done when CH has counted, too.               *)
Carried(s) == LET t == PwmOutput(LowUp(s)) IN IF t.c.cl = 0 THEN Carry(t) ELSE t

(* Up to the comparison, a count moves CH:CL by one, captures at the        *)
(* wrap and keeps the PWM period measured.                                  *)
LEMMA CarriedIs ==
  ASSUME NEW s \in Machines
  PROVE  LET r == Carried(s)
         IN /\ CountsUp(s, r) /\ CountCaptures(s, r)
            /\ r.c.cl = Up(s.c.cl)
            /\ Toggles(s) => r.m = s.m /\ r.out = s.out /\ r.did.toggles = s.did.toggles
            /\ Duty(s) => Duty(r)
<1> USE ByteAssumption
<1> DEFINE u == LowUp(s)
           t == PwmOutput(u)
           v == Carry(t)
           r == IF t.c.cl = 0 THEN v ELSE t
           h == IF u.m.high = -1 \/ u.c.cl = 0 \/ u.c.cl < Compare(u.m) THEN u.m.high ELSE u.m.high + 1
<1>0. Carried(s) = r
  BY DEF Carried
<1>1. /\ u \in Machines /\ u.m = s.m /\ u.out = s.out
      /\ u.c.cl = Up(s.c.cl) /\ u.c.ch = s.c.ch /\ ClockKept(s.c, u.c)
      /\ u.did.counts = s.did.counts + 1 /\ u.did.overflows = s.did.overflows
      /\ u.did.wraps = s.did.wraps
      /\ StageNotes(s, u) /\ StageToggles(s, u) /\ StageHigh(s, u)
  BY LowUpIs
<1> HIDE DEF u
<1>2. /\ t \in Machines /\ t.c = u.c /\ t.did = u.did
      /\ ~IsPwm(u) => t = u
      /\ t.m = (IF IsPwm(u) THEN [u.m EXCEPT !.high = h] ELSE u.m)
  BY <1>1, PwmOutputIs
<1> HIDE DEF t
<1>3. /\ AfterCarry(t, v)
      /\ IF Up(t.c.ch) = 0 /\ Captures(t)
         THEN ~v.m.cex_pos /\ ~v.m.fresh /\ v.did.captures = t.did.captures + 1
         ELSE StageNotes(t, v)
      /\ StageHigh(PwmReload(t), v)
      /\ ~Captures(t) /\ ~Has(t, {"PWM"})
           /\ ~(Has(t, {"ECOM"}) /\ t.c.cl = t.m.ccapl /\ t.m.ccaph = 0)
             => v.m = t.m /\ v.out = t.out /\ v.did.toggles = t.did.toggles
  BY <1>2, CarryIs
<1> HIDE DEF v
<1>4. s.c \in Counter /\ s.m \in Modules /\ s.c.cl \in Byte /\ s.c.ch \in Byte /\ s.did \in Dids
  BY DEF Machines, Counter
<1>41. s.m.nr \in PcaModules /\ s.m.high \in Int /\ s.m.ccapl \in Byte /\ s.m.ccaph \in Byte
       /\ s.did.wraps \in Nat /\ s.did.counts \in Nat
  BY <1>4 DEF Modules, Dids
<1>5. /\ t.m.nr = s.m.nr /\ t.m.ccapm = s.m.ccapm /\ t.m.EPCL = s.m.EPCL /\ t.m.cex_neg = s.m.cex_neg
      /\ t.m.cex_pos = s.m.cex_pos /\ t.m.fresh = s.m.fresh /\ t.m.ccapl = s.m.ccapl
      /\ t.m.ccaph = s.m.ccaph
      /\ t.m.high = IF IsPwm(u) THEN h ELSE s.m.high
  <2> HIDE DEF h
  <2>1. u.m \in Modules
    BY <1>1, <1>4
  <2>2. CASE IsPwm(u)
    BY <1>1, <1>2, <2>1, <2>2 DEF Modules
  <2>3. CASE ~IsPwm(u)
    BY <1>1, <1>2, <2>3
  <2> QED
    BY <2>2, <2>3
<1>6. SetupOfModuleKept(s, t) /\ StageNotes(s, t) /\ ClockKept(s.c, t.c)
      /\ (IsPwm(u) <=> IsPwm(s)) /\ (IsPwm(t) <=> IsPwm(s)) /\ (Captures(t) <=> Captures(s))
      /\ Compare(u.m) = Compare(s.m) /\ Compare(t.m) = Compare(s.m)
  BY <1>1, <1>2, <1>5 DEF SetupOfModuleKept, StageNotes, IsPwm, Has, Captures, Compare
<1>7. /\ Up(s.c.cl) = IF s.c.cl = Base - 1 THEN 0 ELSE s.c.cl + 1
      /\ Up(s.c.ch) = IF s.c.ch = Base - 1 THEN 0 ELSE s.c.ch + 1
  BY <1>4, UpIs
<1>8. t.c.cl = 0 <=> s.c.cl = Base - 1
  BY <1>1, <1>2, <1>4, <1>7 DEF Byte
<1>9. /\ Value(s.c) \in 0..(Values - 1)
      /\ Value(s.c) = Values - 1 <=> s.c.ch = Base - 1 /\ s.c.cl = Base - 1
  BY <1>4, Highest DEF Value, Values, Number
<1>10. Up(t.c.ch) = 0 <=> s.c.ch = Base - 1
  BY <1>1, <1>2, <1>4, <1>7 DEF Byte
<1>11. r.c.cl = Up(s.c.cl) /\ r.c.ch = IF s.c.cl = Base - 1 THEN Up(s.c.ch) ELSE s.c.ch
  BY <1>1, <1>2, <1>3, <1>8 DEF AfterCarry
<1>12. r \in Machines /\ ClockKept(s.c, r.c) /\ SetupOfModuleKept(s, r)
       /\ r.did.overflows = s.did.overflows /\ r.did.counts = s.did.counts + 1
       /\ r.did.wraps = IF Value(s.c) = Values - 1 THEN s.did.wraps + 1 ELSE s.did.wraps
  <2>1. CASE t.c.cl = 0
    <3>1. r = v
      BY <2>1
    <3>2. v \in Machines /\ ClockKept(s.c, v.c) /\ SetupOfModuleKept(s, v)
          /\ v.did.overflows = s.did.overflows /\ v.did.counts = s.did.counts + 1
      BY <1>1, <1>2, <1>3, <1>6 DEF AfterCarry, ClockKept, SetupOfModuleKept
    <3>3. v.did.wraps = IF Value(s.c) = Values - 1 THEN s.did.wraps + 1 ELSE s.did.wraps
      BY <1>1, <1>2, <1>3, <1>8, <1>9, <1>10, <2>1 DEF AfterCarry
    <3> QED
      BY <3>1, <3>2, <3>3
  <2>2. CASE t.c.cl # 0
    BY <1>1, <1>2, <1>6, <1>8, <1>9, <2>2
  <2> QED
    BY <2>1, <2>2
<1>13. CountsUp(s, r)
  <2>1. r.c.cl \in Byte /\ r.c.ch \in Byte
    BY <1>4, <1>11, UpIs
  <2>2. Value(r.c) \in 0..(Values - 1)
    BY <2>1, Highest DEF Value, Values, Number
  <2>3. Value(s.c) = Values - 1 => Value(r.c) = 0
    BY <1>7, <1>9, <1>11 DEF Value, Number
  <2>4. ASSUME Value(s.c) # Values - 1
        PROVE  Value(r.c) = Value(s.c) + 1
    <3>1. (IF s.c.cl = Base - 1 THEN Up(s.c.ch) ELSE s.c.ch) * Base + Up(s.c.cl)
            = s.c.ch * Base + s.c.cl + 1
      BY <1>4, <1>9, <2>4, CarriesOver
    <3> HIDE DEF r
    <3>2. Value(r.c) = (IF s.c.cl = Base - 1 THEN Up(s.c.ch) ELSE s.c.ch) * Base + Up(s.c.cl)
      BY <1>11 DEF Value, Number
    <3> QED
      BY <3>1, <3>2 DEF Value, Number
  <2> HIDE DEF r
  <2> QED
    BY <1>9, <1>12, <2>2, <2>3, <2>4 DEF CountsUp
<1>14. CountCaptures(s, r)
  <2>0. t.did.captures = s.did.captures
    BY <1>1, <1>2 DEF StageNotes
  <2>3. StageNotes(s, t)
    BY <2>0, <1>5 DEF StageNotes
  <2>1. CASE t.c.cl = 0
    <3>1. IF Value(s.c) = Values - 1 /\ Captures(s)
          THEN ~v.m.cex_pos /\ ~v.m.fresh /\ v.did.captures = s.did.captures + 1
          ELSE StageNotes(t, v)
      BY <1>3, <1>6, <1>8, <1>9, <1>10, <2>0, <2>1
    <3> QED
      BY <2>1, <2>3, <3>1 DEF CountCaptures, StageNotes
  <2>2. CASE t.c.cl # 0
    BY <1>8, <1>9, <2>2, <2>3 DEF CountCaptures
  <2> QED
    BY <2>1, <2>2
<1>15. ASSUME Toggles(s)
       PROVE  r.m = s.m /\ r.out = s.out /\ r.did.toggles = s.did.toggles
  <2>1. s.m.ccapm = {"ECOM", "MAT", "TOG"} /\ Target(s.m) # 0
    BY <1>15 DEF Toggles
  <2>2. ~IsPwm(u) /\ ~Captures(s)
    BY <1>6, <2>1 DEF IsPwm, Has, Captures
  <2>3. t = u
    BY <1>2, <2>2
  <2>4. t.m = s.m /\ t.out = s.out /\ t.did.toggles = s.did.toggles
    BY <1>1, <2>3 DEF StageToggles
  <2>5. ~Has(t, {"PWM"})
    BY <2>1, <2>4 DEF Has
  <2>6. t.c.cl = 0 => ~(t.c.cl = t.m.ccapl /\ t.m.ccaph = 0)
    BY <2>1, <2>4 DEF Target, Number
  <2>7. t.c.cl = 0 => v.m = t.m /\ v.out = t.out /\ v.did.toggles = t.did.toggles
    BY <1>3, <1>6, <2>2, <2>5, <2>6
  <2> QED
    BY <2>4, <2>7
<1>16. ASSUME Duty(s)
       PROVE  Duty(r)
  <2>1. /\ s.m.high \in -1..Base
        /\ IsPwm(s) /\ s.m.high # -1 => s.m.high = HighCounts(s.c.cl, Compare(s.m))
        /\ s.did.period # <<>> => s.did.period[1] = HighCounts(Base - 1, s.did.period[2])
    BY <1>16 DEF Duty
  <2> DEFINE cmp == Compare(s.m)
  <2>2. cmp \in Int
    BY CompareIsInt
  <2> HIDE DEF cmp
  <2>3. t.did.period = s.did.period
    BY <1>1, <1>2 DEF StageHigh
  <2>4. s.c.cl \in Nat /\ Base - 1 \in Nat
    BY <1>4 DEF Byte
  <2>5. CASE t.c.cl # 0
    <3>1. t.c.cl = s.c.cl + 1 /\ u.c.cl = s.c.cl + 1
      BY <1>1, <1>2, <1>7, <1>8, <2>5
    <3>2. HighCounts(s.c.cl + 1, cmp) = HighCounts(s.c.cl, cmp) + IF s.c.cl + 1 >= cmp THEN 1 ELSE 0
      BY <2>2, <2>4, HighUp
    <3>0. s.c.cl + 1 \in Nat
      BY <2>4
    <3>3. HighCounts(s.c.cl, cmp) \in 0..s.c.cl /\ HighCounts(s.c.cl + 1, cmp) \in 0..(s.c.cl + 1)
      BY <2>2, <2>4, <3>0, HighUp
    <3>4. CASE IsPwm(s)
      <4>1. t.m.high = IF s.m.high = -1 \/ s.c.cl + 1 < cmp THEN s.m.high ELSE s.m.high + 1
        BY <1>1, <1>5, <1>6, <2>4, <3>1, <3>4 DEF cmp
      <4>2. s.m.high # -1 => t.m.high = HighCounts(s.c.cl + 1, cmp)
        BY <2>1, <2>2, <2>4, <3>2, <3>3, <3>4, <4>1 DEF cmp
      <4>3. s.m.high = -1 => t.m.high = -1
        BY <4>1
      <4>4. t.m.high \in -1..Base
        BY <1>4, <1>8, <2>5, <3>3, <4>2, <4>3 DEF Byte
      <4>5. Duty(t)
        BY <1>6, <2>1, <2>3, <3>1, <4>2, <4>3, <4>4 DEF Duty, cmp
      <4> QED
        BY <2>5, <4>5
    <3>5. CASE ~IsPwm(s)
      BY <1>5, <1>6, <2>1, <2>3, <2>5, <3>5 DEF Duty
    <3> QED
      BY <3>4, <3>5
  <2>6. CASE t.c.cl = 0
    <3> DEFINE w == PwmReload(t)
    <3>1. v.m.high = w.m.high /\ v.did.period = w.did.period
      BY <1>3 DEF StageHigh
    <3>2. r = v
      BY <2>6
    <3>3. /\ ~Has(t, {"PWM"}) => w = t
          /\ Has(t, {"PWM"}) =>
               /\ w.m.high = 0
               /\ w.did.period = IF IsPwm(t) /\ t.m.high # -1 THEN <<t.m.high, Compare(t.m)>>
                                 ELSE t.did.period
      BY <1>2, PwmReloadIs
    <3> HIDE DEF w
    <3>4. v.c.cl = 0 /\ v.m.ccapm = t.m.ccapm /\ v \in Machines
      BY <1>3, <2>6 DEF AfterCarry, SetupOfModuleKept
    <3>5. Compare(v.m) \in Int /\ 0 \in Nat
      BY <3>4, CompareIsInt
    <3>6. HighCounts(0, Compare(v.m)) = 0
      BY <3>5, HighUp
    <3>7. CASE ~Has(t, {"PWM"})
      <4>1. ~IsPwm(s) /\ ~IsPwm(v)
        BY <1>6, <3>4, <3>7 DEF IsPwm, Has
      <4>2. v.m.high = s.m.high /\ v.did.period = s.did.period
        BY <1>5, <1>6, <2>3, <3>1, <3>3, <3>7, <4>1
      <4>3. Duty(v)
        BY <2>1, <4>1, <4>2 DEF Duty
      <4> QED
        BY <3>2, <4>3
    <3>8. CASE Has(t, {"PWM"})
      <4>1. v.m.high = 0
        BY <3>1, <3>3, <3>8
      <4>2. CASE IsPwm(t) /\ t.m.high # -1
        <5>1. v.did.period = <<t.m.high, cmp>>
          BY <1>6, <3>1, <3>3, <3>8, <4>2 DEF cmp
        <5>2. t.m.high = s.m.high
          BY <1>1, <1>2, <1>5, <1>6, <2>6, <4>2
        <5>3. s.c.cl = Base - 1 /\ IsPwm(s)
          BY <1>6, <1>8, <2>6, <4>2
        <5>4. t.m.high = HighCounts(Base - 1, cmp)
          BY <2>1, <4>2, <5>2, <5>3 DEF cmp
        <5>5. v.did.period[1] = HighCounts(Base - 1, v.did.period[2])
          BY <5>1, <5>4
        <5>6. Duty(v)
          BY <3>4, <3>6, <4>1, <5>5 DEF Duty
        <5> QED
          BY <3>2, <5>6
      <4>3. CASE ~(IsPwm(t) /\ t.m.high # -1)
        <5>1. v.did.period = s.did.period
          BY <2>3, <3>1, <3>3, <3>8, <4>3
        <5>2. Duty(v)
          BY <2>1, <3>4, <3>6, <4>1, <5>1 DEF Duty
        <5> QED
          BY <3>2, <5>2
      <4> QED
        BY <4>2, <4>3
    <3> QED
      BY <3>7, <3>8
  <2> QED
    BY <2>5, <2>6
<1> HIDE DEF r
<1> QED
  BY <1>0, <1>11, <1>13, <1>14, <1>15, <1>16

(* One count altogether ...                                                 *)
Counted(s, r) ==
  CountsUp(s, r) /\ CountCaptures(s, r) /\ CountToggles(s, r) /\ (Duty(s) => Duty(r))

(* ... is what CountOnce makes.                                             *)
LEMMA CountOnceIs ==
  ASSUME NEW s \in Machines
  PROVE  Counted(s, CountOnce(s))
<1> DEFINE u == Carried(s)
           r == Match(u)
<1>1. /\ CountsUp(s, u) /\ CountCaptures(s, u) /\ u.c.cl = Up(s.c.cl)
      /\ Toggles(s) => u.m = s.m /\ u.out = s.out /\ u.did.toggles = s.did.toggles
      /\ Duty(s) => Duty(u)
  BY CarriedIs
<1>2. CountOnce(s) = r
  BY DEF CountOnce, Carried, LowUp
<1> HIDE DEF u
<1>3. u \in Machines
  BY <1>1 DEF CountsUp
<1>4. IF Has(u, {"ECOM", "MAT"}) /\ ~Has(u, {"PWM"}) /\ Matches(u) THEN MatchDone(u, r) ELSE r = u
  BY <1>3, MatchIs
<1> HIDE DEF r
<1>5. Stage(u, r) /\ StageNotes(u, r) /\ StageCompares(u, r) /\ StageHigh(u, r)
  BY <1>3, <1>4, SameStage DEF MatchDone
<1>6. CountsUp(s, r)
  BY <1>1, <1>5 DEF CountsUp, Stage, SetupOfModuleKept, ClockKept
<1>7. CountCaptures(s, r)
  BY <1>1, <1>5 DEF CountCaptures, StageNotes
<1>8. Duty(s) => Duty(r)
  <2>1. r.c = u.c /\ r.m.high = u.m.high /\ r.did.period = u.did.period
        /\ r.m.ccapm = u.m.ccapm /\ r.m.EPCL = u.m.EPCL /\ r.m.ccapl = u.m.ccapl
    BY <1>5 DEF Stage, StageHigh, StageCompares, SetupOfModuleKept
  <2>2. (IsPwm(r) <=> IsPwm(u)) /\ Compare(r.m) = Compare(u.m)
    BY <2>1 DEF IsPwm, Has, Compare
  <2> QED
    BY <1>1, <2>1, <2>2 DEF Duty
<1>9. CountToggles(s, r)
  <2> SUFFICES ASSUME Toggles(s)
               PROVE  /\ r.m.ccapl = s.m.ccapl /\ r.m.ccaph = s.m.ccaph
                      /\ IF Value(r.c) = Target(s.m)
                         THEN r.did.toggles = s.did.toggles + 1 /\ r.out = ~s.out /\ r.m.CCF
                         ELSE r.did.toggles = s.did.toggles /\ r.out = s.out /\ r.m.CCF = s.m.CCF
    BY DEF CountToggles
  <2>1. u.m = s.m /\ u.out = s.out /\ u.did.toggles = s.did.toggles
    BY <1>1
  <2>2. s.m.ccapm = {"ECOM", "MAT", "TOG"}
    BY DEF Toggles
  <2>3. Has(u, {"ECOM", "MAT"}) /\ ~Has(u, {"PWM"}) /\ Has(u, {"TOG"})
    BY <2>1, <2>2 DEF Has
  <2>4. r.c = u.c
    BY <1>5 DEF Stage
  <2>5. u.c.cl \in Byte /\ u.c.ch \in Byte /\ u.m.ccapl \in Byte /\ u.m.ccaph \in Byte
    BY <1>3 DEF Machines, Counter, Modules
  <2>6. Value(r.c) = Target(s.m) <=> Matches(u)
    <3>1. Number(u.c.ch, u.c.cl) = Number(u.m.ccaph, u.m.ccapl) <=> Matches(u)
      BY <2>5, NumberOnce DEF Matches
    <3> QED
      BY <2>1, <2>4, <3>1 DEF Value, Target
  <2>7. CASE Matches(u)
    BY <1>4, <2>1, <2>3, <2>6, <2>7 DEF MatchDone, StageCompares
  <2>8. CASE ~Matches(u)
    BY <1>4, <2>1, <2>6, <2>8
  <2> QED
    BY <2>7, <2>8
<1> QED
  BY <1>2, <1>6, <1>7, <1>8, <1>9 DEF Counted

(* What n counts make of a state of which nothing has been done yet.        *)
MatchesAt(s, k) == (Value(s.c) + k) % Values = Target(s.m)

ReachedBy(s, n) == Among({k \in Nat : MatchesAt(s, k)}, n)

TogglesAfter(s, n, r) ==
  Toggles(s) =>
    /\ r.m.ccapl = s.m.ccapl /\ r.m.ccaph = s.m.ccaph
    /\ r.did.toggles = ReachedBy(s, n)
    /\ r.out = (IF r.did.toggles % 2 = 0 THEN s.out ELSE ~s.out)
    /\ r.did.toggles > 0 => r.m.CCF

CapturesAfter(s, r) ==
  /\ s.m.cex_pos = s.m.fresh => r.m.cex_pos = r.m.fresh
  /\ s.m.cex_pos = s.m.fresh /\ s.m.ccapm = {"CAPP"} =>
       IF r.did.wraps > 0 /\ s.m.fresh THEN r.did.captures = 1 /\ ~r.m.fresh
       ELSE r.did.captures = 0 /\ r.m.fresh = s.m.fresh

AfterCounts(s, n, r) ==
  /\ r \in Machines /\ ClockKept(s.c, r.c) /\ SetupOfModuleKept(s, r)
  /\ r.did.overflows = s.did.overflows /\ r.did.counts = n
  /\ Value(r.c) \in 0..(Values - 1)
  /\ Value(r.c) + Values * r.did.wraps = Value(s.c) + n
  /\ TogglesAfter(s, n, r)
  /\ CapturesAfter(s, r)
  /\ Duty(s) => Duty(r)

(* CH:CL is below its number of values.                                     *)
LEMMA ValueIn ==
  ASSUME NEW s \in Machines
  PROVE  Value(s.c) \in 0..(Values - 1) /\ Values \in Nat \ {0}
<1>1. s.c.cl \in Byte /\ s.c.ch \in Byte
  BY DEF Machines, Counter
<1>2. Base \in Nat \ {0}
  BY ByteAssumption
<1>3. Base * Base \in Nat \ {0}
  <2>1. PICK d \in Nat : Base = d + 1
    <3>1. Base - 1 \in Nat /\ Base = (Base - 1) + 1
      BY <1>2
    <3> QED
      BY <3>1
  <2>2. Base * Base = d * d + d + d + 1 /\ d * d \in Nat
    BY <2>1
  <2> QED
    BY <2>2
<1> QED
  BY <1>1, <1>3, Highest DEF Value, Values, Number

(* No count does nothing.                                                   *)
LEMMA AfterNone ==
  ASSUME NEW s \in Machines, s.did = Nothing
  PROVE  AfterCounts(s, 0, s)
<1>1. /\ s.did.overflows = 0 /\ s.did.counts = 0 /\ s.did.wraps = 0 /\ s.did.captures = 0
      /\ s.did.toggles = 0
  BY DEF Nothing
<1>2. Value(s.c) \in 0..(Values - 1) /\ Values \in Nat \ {0}
  BY ValueIn
<1>3. Value(s.c) + Values * s.did.wraps = Value(s.c) + 0
  BY <1>1, <1>2
<1>4. TogglesAfter(s, 0, s)
  <2>1. ReachedBy(s, 0) = 0
    BY AmongNone DEF ReachedBy
  <2> QED
    BY <1>1, <2>1 DEF TogglesAfter
<1>5. CapturesAfter(s, s)
  BY <1>1 DEF CapturesAfter
<1>6. ClockKept(s.c, s.c) /\ SetupOfModuleKept(s, s)
  BY DEF ClockKept, SetupOfModuleKept
<1> QED
  BY <1>1, <1>2, <1>3, <1>4, <1>5, <1>6 DEF AfterCounts

(* One count more keeps the account.                                        *)
LEMMA AfterOneMore ==
  ASSUME NEW s \in Machines, NEW n \in Nat, NEW q, AfterCounts(s, n, q)
  PROVE  AfterCounts(s, n + 1, CountOnce(q))
<1> DEFINE r == CountOnce(q)
<1>1. /\ q \in Machines /\ ClockKept(s.c, q.c) /\ SetupOfModuleKept(s, q)
      /\ q.did.overflows = s.did.overflows /\ q.did.counts = n
      /\ Value(q.c) \in 0..(Values - 1)
      /\ Value(q.c) + Values * q.did.wraps = Value(s.c) + n
      /\ TogglesAfter(s, n, q)
      /\ CapturesAfter(s, q)
      /\ Duty(s) => Duty(q)
  BY DEF AfterCounts
<1>2. CountsUp(q, r) /\ CountCaptures(q, r) /\ CountToggles(q, r) /\ (Duty(q) => Duty(r))
  BY <1>1, CountOnceIs DEF Counted
<1> HIDE DEF r
<1>3. r \in Machines /\ ClockKept(s.c, r.c) /\ SetupOfModuleKept(s, r)
      /\ r.did.overflows = s.did.overflows /\ r.did.counts = n + 1
      /\ Value(r.c) \in 0..(Values - 1)
  BY <1>1, <1>2 DEF CountsUp, ClockKept, SetupOfModuleKept
<1>4. Value(s.c) \in 0..(Values - 1) /\ Values \in Nat \ {0}
  BY ValueIn
<1>5. q.did.wraps \in Nat /\ r.did.wraps \in Nat /\ q.did.toggles \in Nat /\ r.did.toggles \in Nat
      /\ q.did.captures \in Nat
      /\ s.m.fresh \in BOOLEAN /\ q.m.fresh \in BOOLEAN /\ r.m.fresh \in BOOLEAN
      /\ s.m.cex_pos \in BOOLEAN /\ q.m.cex_pos \in BOOLEAN /\ r.m.cex_pos \in BOOLEAN
      /\ s.out \in BOOLEAN /\ q.out \in BOOLEAN
  BY <1>1, <1>3 DEF Machines, Dids, Modules
<1>6. Value(r.c) + Values * r.did.wraps = Value(s.c) + (n + 1)
  <2> DEFINE a == Values * q.did.wraps
  <2>1. Values * (q.did.wraps + 1) = a + Values /\ a \in Nat
    BY <1>4, <1>5
  <2> HIDE DEF a
  <2>2. Value(q.c) + a = Value(s.c) + n
    BY <1>1 DEF a
  <2>3. CASE Value(q.c) = Values - 1
    <3>1. Value(r.c) = 0 /\ r.did.wraps = q.did.wraps + 1
      BY <1>2, <2>3 DEF CountsUp
    <3>2. Values * r.did.wraps = a + Values
      BY <2>1, <3>1
    <3> QED
      BY <1>4, <2>1, <2>2, <2>3, <3>1, <3>2
  <2>4. CASE Value(q.c) # Values - 1
    <3>1. Value(r.c) = Value(q.c) + 1 /\ r.did.wraps = q.did.wraps
      BY <1>2, <2>4 DEF CountsUp
    <3>2. Values * r.did.wraps = a
      BY <3>1 DEF a
    <3> QED
      BY <1>1, <1>4, <2>1, <2>2, <3>1, <3>2
  <2> QED
    BY <2>3, <2>4
<1>7. TogglesAfter(s, n + 1, r)
  <2> SUFFICES ASSUME Toggles(s)
               PROVE  /\ r.m.ccapl = s.m.ccapl /\ r.m.ccaph = s.m.ccaph
                      /\ r.did.toggles = ReachedBy(s, n + 1)
                      /\ r.out = (IF r.did.toggles % 2 = 0 THEN s.out ELSE ~s.out)
                      /\ r.did.toggles > 0 => r.m.CCF
    BY DEF TogglesAfter
  <2>1. /\ q.m.ccapl = s.m.ccapl /\ q.m.ccaph = s.m.ccaph
        /\ q.did.toggles = ReachedBy(s, n)
        /\ q.out = (IF q.did.toggles % 2 = 0 THEN s.out ELSE ~s.out)
        /\ q.did.toggles > 0 => q.m.CCF
    BY <1>1 DEF TogglesAfter
  <2>2. Target(q.m) = Target(s.m) /\ q.m.ccapm = s.m.ccapm
    BY <1>1, <2>1 DEF Target, SetupOfModuleKept
  <2>3. Toggles(q)
    BY <2>2 DEF Toggles
  <2>4. /\ r.m.ccapl = s.m.ccapl /\ r.m.ccaph = s.m.ccaph
        /\ IF Value(r.c) = Target(s.m)
           THEN r.did.toggles = q.did.toggles + 1 /\ r.out = ~q.out /\ r.m.CCF
           ELSE r.did.toggles = q.did.toggles /\ r.out = q.out /\ r.m.CCF = q.m.CCF
    BY <1>2, <2>1, <2>2, <2>3 DEF CountToggles
  <2>5. (Value(s.c) + (n + 1)) % Values = Value(r.c)
    <3> DEFINE a == Value(s.c) + (n + 1)
    <3>1. a \in Nat /\ a = r.did.wraps * Values + Value(r.c)
      BY <1>3, <1>4, <1>5, <1>6
    <3> HIDE DEF a
    <3>2. a % Values = Value(r.c)
      BY <1>3, <1>4, <1>5, <3>1, DivUnique
    <3> QED
      BY <3>2 DEF a
  <2>6. ReachedBy(s, n + 1) = ReachedBy(s, n) + IF Value(r.c) = Target(s.m) THEN 1 ELSE 0
    <3> DEFINE S == {k \in Nat : MatchesAt(s, k)}
    <3>1. n + 1 \in S <=> Value(r.c) = Target(s.m)
      BY <2>5 DEF MatchesAt
    <3> HIDE DEF S
    <3>2. Among(S, n + 1) = Among(S, n) + IF n + 1 \in S THEN 1 ELSE 0
      BY AmongUp
    <3>3. ReachedBy(s, n + 1) = Among(S, n + 1) /\ ReachedBy(s, n) = Among(S, n)
      BY DEF ReachedBy, S
    <3> QED
      BY <3>1, <3>2, <3>3
  <2>7. r.did.toggles = ReachedBy(s, n + 1)
    BY <1>5, <2>1, <2>4, <2>6
  <2>8. r.out = (IF r.did.toggles % 2 = 0 THEN s.out ELSE ~s.out)
    <3>1. CASE Value(r.c) = Target(s.m)
      <4>1. r.did.toggles = q.did.toggles + 1 /\ r.out = ~q.out
        BY <2>4, <3>1
      <4>2. (q.did.toggles + 1) % 2 = 0 <=> q.did.toggles % 2 # 0
        BY <1>5
      <4> QED
        BY <1>5, <2>1, <4>1, <4>2
    <3>2. CASE Value(r.c) # Target(s.m)
      BY <2>1, <2>4, <3>2
    <3> QED
      BY <3>1, <3>2
  <2>9. r.did.toggles > 0 => r.m.CCF
    BY <1>5, <2>1, <2>4
  <2> QED
    BY <2>4, <2>7, <2>8, <2>9
<1>8. CapturesAfter(s, r)
  <2>1. q.m.ccapm = s.m.ccapm
    BY <1>1 DEF SetupOfModuleKept
  <2>2. IF Value(q.c) = Values - 1
        THEN r.did.wraps = q.did.wraps + 1
        ELSE r.did.wraps = q.did.wraps
    BY <1>2 DEF CountsUp
  <2>3. IF Value(q.c) = Values - 1 /\ Captures(q)
        THEN ~r.m.cex_pos /\ ~r.m.fresh /\ r.did.captures = q.did.captures + 1
        ELSE r.m.cex_pos = q.m.cex_pos /\ r.m.fresh = q.m.fresh /\ r.did.captures = q.did.captures
    BY <1>2 DEF CountCaptures, StageNotes
  <2>4. /\ s.m.cex_pos = s.m.fresh => q.m.cex_pos = q.m.fresh
        /\ s.m.cex_pos = s.m.fresh /\ s.m.ccapm = {"CAPP"} =>
             IF q.did.wraps > 0 /\ s.m.fresh THEN q.did.captures = 1 /\ ~q.m.fresh
             ELSE q.did.captures = 0 /\ q.m.fresh = s.m.fresh
    BY <1>1 DEF CapturesAfter
  <2>5. s.m.cex_pos = s.m.fresh => r.m.cex_pos = r.m.fresh
    BY <1>5, <2>3, <2>4
  <2>6. ASSUME s.m.cex_pos = s.m.fresh, s.m.ccapm = {"CAPP"}
        PROVE  IF r.did.wraps > 0 /\ s.m.fresh THEN r.did.captures = 1 /\ ~r.m.fresh
               ELSE r.did.captures = 0 /\ r.m.fresh = s.m.fresh
    <3>1. Captures(q) <=> q.m.fresh
      BY <2>1, <2>4, <2>6 DEF Captures, Has
    <3>2. IF q.did.wraps > 0 /\ s.m.fresh THEN q.did.captures = 1 /\ ~q.m.fresh
          ELSE q.did.captures = 0 /\ q.m.fresh = s.m.fresh
      BY <2>4, <2>6
    <3>3. CASE Value(q.c) = Values - 1
      <4>1. r.did.wraps > 0
        BY <1>5, <2>2, <3>3
      <4> QED
        BY <1>5, <2>3, <3>1, <3>2, <3>3, <4>1
    <3>4. CASE Value(q.c) # Values - 1
      BY <2>2, <2>3, <3>2, <3>4
    <3> QED
      BY <3>3, <3>4
  <2> QED
    BY <2>5, <2>6 DEF CapturesAfter
<1>9. AfterCounts(s, n + 1, r)
  BY <1>1, <1>2, <1>3, <1>6, <1>7, <1>8 DEF AfterCounts
<1> QED
  BY <1>9 DEF r

(* So does any number of them: the function of DoCounter is the             *)
(* repetition of CountOnce.                                                 *)
LEMMA DoCounterIs ==
  ASSUME NEW s \in Machines, s.did = Nothing, NEW k \in Nat
  PROVE  AfterCounts(s, k, DoCounter(s, k))
<1> DEFINE F == [r \in Machines |-> CountOnce(r)]
           Eq(g) == g = [n \in 0..k |-> IF n = 0 THEN s ELSE CountOnce(g[n - 1])]
           f == CHOOSE g : Eq(g)
<1>1. F \in [Machines -> Machines]
  BY CountOnceIs DEF Counted, CountsUp
<1>2. \E g : Eq(g)
  <2>4. PICK g : Repetition(Machines, F, s, k, g)
    <3> HIDE DEF F
    <3> QED
      BY <1>1, Repeats
  <2>1. /\ g = [n \in 0..k |-> IF n = 0 THEN s ELSE F[g[n - 1]]]
        /\ \A i \in 0..k : g[i] \in Machines
    <3> HIDE DEF F
    <3> QED
      BY <2>4 DEF Repetition
  <2>2. \A n \in 0..k : (IF n = 0 THEN s ELSE F[g[n - 1]]) = (IF n = 0 THEN s ELSE CountOnce(g[n - 1]))
    <3> SUFFICES ASSUME NEW n \in 0..k, n # 0 PROVE F[g[n - 1]] = CountOnce(g[n - 1])
      OBVIOUS
    <3>1. n - 1 \in 0..k
      OBVIOUS
    <3>2. g[n - 1] \in Machines
      BY <2>1, <3>1
    <3> QED
      BY <3>2
  <2>3. Eq(g)
    <3> HIDE DEF F
    <3> QED
      BY <2>1, <2>2
  <2> HIDE DEF Eq
  <2> QED
    BY <2>3
<1>3. Eq(f)
  <2> HIDE DEF Eq
  <2> QED
    BY <1>2
<1>4. DoCounter(s, k) = f[k]
  BY DEF DoCounter
<1> HIDE DEF f
<1>5. f[0] = s
  BY <1>3
<1>6. \A i \in 0..k : i < k => f[i + 1] = CountOnce(f[i])
  <2> SUFFICES ASSUME NEW i \in 0..k, i < k PROVE f[i + 1] = CountOnce(f[i])
    OBVIOUS
  <2>1. i + 1 \in 0..k /\ i + 1 # 0 /\ (i + 1) - 1 = i
    OBVIOUS
  <2> QED
    BY <1>3, <2>1
<1> HIDE DEF Eq
<1> DEFINE P == {i \in 0..k : AfterCounts(s, i, f[i])}
<1>7. 0 \in P
  BY <1>5, AfterNone
<1>8. \A i \in 0..k : i \in P /\ i < k => i + 1 \in P
  BY <1>6, AfterOneMore
<1> HIDE DEF P
<1>9. 0..k \subseteq P
  BY <1>7, <1>8, UpTo
<1>10. AfterCounts(s, k, f[k])
  BY <1>9 DEF P
<1> QED
  BY <1>4, <1>10

(* Where the clock stands in a period that is measured: after as many       *)
(* cycles as the value and the prescaler say.                               *)
Measured(c, n) ==
  n # -1 =>
    /\ Divides(c)
    /\ IF c.cps = 4 THEN n = Value(c)
       ELSE c.prescaler < Divisor[c.cps] /\ n = Divisor[c.cps] * Value(c) + c.prescaler

Sound(s, n) ==
  /\ s \in Machines /\ Duty(s) /\ s.m.cex_pos = s.m.fresh
  /\ n \in Nat \cup {-1} /\ Measured(s.c, n)

Whole == [c |-> pca, m |-> module, out |-> p1.cex, did |-> pca_did]

(* The inductive invariant.                                                 *)
PcaInv == Sound(Whole, pca_since) /\ p1 \in Port1

(* The types of a module within a count, and between two.                   *)
LEMMA HighInRange ==
  ASSUME NEW m \in Modules, m.high \in -1..Base
  PROVE  m \in Module
BY DEF Modules, Module

(* The invariant holds the types and the PWM duty.                          *)
LEMMA PcaInvTyped ==
  ASSUME PcaInv
  PROVE  PcaTypeOK /\ PwmDuty
<1>1. Whole \in Machines /\ Duty(Whole) /\ pca_since \in Nat \cup {-1} /\ p1 \in Port1
  BY DEF PcaInv, Sound
<1>2. pca \in Counter /\ module \in Modules
  BY <1>1 DEF Machines, Whole
<1>3. module.high \in -1..Base
  BY <1>1 DEF Duty, Whole
<1>4. PwmDuty
  <2>1. pca_did.period # <<>> => pca_did.period[1] = HighCounts(Base - 1, pca_did.period[2])
    BY <1>1 DEF Duty, Whole
  <2> QED
    BY <2>1 DEF PwmDuty, HighCounts
<1> QED
  BY <1>1, <1>2, <1>3, <1>4, HighInRange DEF PcaTypeOK

(* The empty history is one.                                                *)
LEMMA NothingDone == Nothing \in Dids /\ Nothing.period = <<>>
BY DEF Nothing, Dids

(* A step starts from a sound machine.                                      *)
LEMMA MachineSound ==
  ASSUME PcaInv
  PROVE  Sound(Machine, pca_since)
<1>1. Whole \in Machines /\ Duty(Whole) /\ pca_since \in Nat \cup {-1} /\ p1 \in Port1
      /\ module.cex_pos = module.fresh /\ Measured(pca, pca_since)
  BY DEF PcaInv, Sound, Whole
<1>2. Machine \in Machines
  BY <1>1, NothingDone DEF Machines, Whole, Machine
<1>3. Duty(Machine)
  BY <1>1, NothingDone DEF Duty, Whole, Machine, IsPwm, Has
<1> QED
  BY <1>1, <1>2, <1>3 DEF Sound, Machine

(* A step to a sound machine keeps the invariant.                           *)
LEMMA MoveKeeps ==
  ASSUME PcaInv, NEW s, NEW n, Sound(s, n), Move(s, n)
  PROVE  PcaInv'
<1>1. s \in Machines
  BY DEF Sound
<1>2. pca' = s.c /\ module' = s.m /\ p1' = [p1 EXCEPT !.cex = s.out] /\ pca_did' = s.did
      /\ pca_since' = n
  BY DEF Move
<1>3. s.out \in BOOLEAN /\ p1 \in Port1 /\ s = [c |-> s.c, m |-> s.m, out |-> s.out, did |-> s.did]
  BY <1>1 DEF Machines, PcaInv
<1>4. p1' \in Port1 /\ p1'.cex = s.out
  BY <1>2, <1>3 DEF Port1
<1>5. Whole' = s
  BY <1>2, <1>3, <1>4 DEF Whole
<1> QED
  BY <1>2, <1>4, <1>5 DEF PcaInv

(* What the program and the outside change leaves the running period as it  *)
(* is, or marks it.                                                         *)
SameDuty(s, r) ==
  \/ r.m.high = -1
  \/ /\ r.m.high = s.m.high /\ r.m.ccapm = s.m.ccapm /\ r.m.EPCL = s.m.EPCL
     /\ r.m.ccapl = s.m.ccapl /\ r.c.cl = s.c.cl

SameClock(c, d) ==
  /\ d.cps = c.cps /\ d.prescaler = c.prescaler /\ d.cl = c.cl /\ d.ch = c.ch

(* A machine that is edited stays sound when it keeps the running period    *)
(* or marks it.                                                             *)
LEMMA EditSound ==
  ASSUME NEW s, NEW n, Sound(s, n), NEW r \in Machines, NEW m,
         SameDuty(s, r), r.did.period = <<>>, r.m.cex_pos = r.m.fresh,
         m = -1 \/ (m = n /\ SameClock(s.c, r.c))
  PROVE  Sound(r, m)
<1>1. Duty(r)
  <2>1. Base \in Nat
    BY ByteAssumption
  <2> QED
    BY <2>1 DEF Duty, Sound, SameDuty, IsPwm, Has, Compare
<1>2. m \in Nat \cup {-1} /\ Measured(r.c, m)
  <2>1. CASE m = -1
    BY <2>1 DEF Measured
  <2>2. CASE m = n /\ SameClock(s.c, r.c)
    BY <2>2 DEF Sound, Measured, SameClock, Divides, Value, Number
  <2> QED
    BY <2>1, <2>2
<1> QED
  BY <1>1, <1>2 DEF Sound

(* A step that counts nothing, and accounts for the events.                 *)
Accounted ==
  pca.cps \in {Timer0Source, EciSource} /\ pca'.cps = pca.cps =>
    Value(pca') + Values * pca_did'.wraps + Waiting(pca')
      = Value(pca) + Waiting(pca) + Brought

QuietStep ==
  /\ pca_did'.counts = 0 /\ pca_did'.wraps = 0 /\ pca_did'.captures = 0 /\ pca_did'.toggles = 0
  /\ Accounted

EventsKept(c, d) ==
  d.cps = c.cps => /\ d.cl = c.cl /\ d.ch = c.ch
                   /\ d.t0_overflows = c.t0_overflows /\ d.ECI_edge = c.ECI_edge

(* CH:CL has a number of values.                                            *)
LEMMA ValuesType == Values \in Nat
BY ByteAssumption DEF Values

(* The value of the counter and what waits are numbers.                     *)
LEMMA ValueType ==
  ASSUME NEW c \in Counter
  PROVE  /\ Value(c) \in Nat /\ Waiting(c) \in Nat
         /\ Value(c) \in 0..(Values - 1)
<1>1. c.cl \in Byte /\ c.ch \in Byte /\ c.t0_overflows \in Nat /\ c.ECI_edge \in Nat
  BY PcaAssumption DEF Counter
<1>2. Value(c) \in 0..(Values - 1)
  BY <1>1, Highest DEF Value, Values, Number
<1> QED
  BY <1>1, <1>2, ValuesType DEF Waiting

(* A step that only edits keeps the account of the events.                  *)
LEMMA MoveQuiet ==
  ASSUME PcaInv, NEW s, NEW n, Sound(s, n), Move(s, n), s.did = Nothing, EventsKept(pca, s.c)
  PROVE  PcaInv' /\ QuietStep
<1>1. PcaInv'
  BY MoveKeeps
<1>2. pca' = s.c /\ p1' = [p1 EXCEPT !.cex = s.out] /\ pca_did' = Nothing
  BY DEF Move
<1>3. /\ pca_did'.counts = 0 /\ pca_did'.wraps = 0 /\ pca_did'.captures = 0
      /\ pca_did'.toggles = 0 /\ pca_did'.overflows = 0
  BY <1>2 DEF Nothing
<1>4. pca \in Counter /\ p1 \in Port1
  BY PcaInvTyped DEF PcaTypeOK
<1>5. Level(p1, "eci")' = Level(p1, "eci")
  BY <1>2, <1>4 DEF Level, Port1
<1>6. Brought = 0
  BY <1>3, <1>5 DEF Brought, Level
<1>7. Accounted
  <2> SUFFICES ASSUME pca'.cps = pca.cps
               PROVE  Value(pca') + Values * pca_did'.wraps + Waiting(pca')
                        = Value(pca) + Waiting(pca) + Brought
    BY DEF Accounted
  <2>1. Value(pca') = Value(pca) /\ Waiting(pca') = Waiting(pca)
    BY <1>2 DEF EventsKept, Value, Number, Waiting
  <2>2. Values * pca_did'.wraps = 0
    BY <1>3, ValuesType
  <2> QED
    BY <1>4, <1>6, <2>1, <2>2, ValueType
<1> QED
  BY <1>1, <1>3, <1>7 DEF QuietStep

(* A machine with another counter, ...                                      *)
LEMMA OtherCounter ==
  ASSUME NEW s \in Machines, NEW c \in Counter
  PROVE  LET r == [s EXCEPT !.c = c]
         IN r \in Machines /\ r.c = c /\ r.m = s.m /\ r.out = s.out /\ r.did = s.did
BY DEF Machines

(* ... another module ...                                                   *)
LEMMA OtherModule ==
  ASSUME NEW s \in Machines, NEW m \in Modules
  PROVE  LET r == [s EXCEPT !.m = m]
         IN r \in Machines /\ r.m = m /\ r.c = s.c /\ r.out = s.out /\ r.did = s.did
BY DEF Machines

(* ... or something done.                                                   *)
LEMMA OtherDeed ==
  ASSUME NEW s \in Machines, NEW d \in Dids
  PROVE  LET r == [s EXCEPT !.did = d]
         IN r \in Machines /\ r.m = s.m /\ r.c = s.c /\ r.out = s.out /\ r.did = d
BY DEF Machines

(* The parts of the machine a step starts from.                             *)
LEMMA MachineIs ==
  ASSUME PcaInv
  PROVE  /\ Machine \in Machines /\ pca \in Counter /\ module \in Modules /\ p1 \in Port1
         /\ Machine.c = pca /\ Machine.m = module /\ Machine.out = p1.cex /\ Machine.did = Nothing
         /\ module.cex_pos = module.fresh /\ module.high \in -1..Base
BY MachineSound, PcaInvTyped DEF Sound, Machine, Machines, PcaTypeOK, Module, PcaInv

(* A write of CMOD drops the events that wait where it changes the          *)
(* source.                                                                  *)
LEMMA CMODKeeps ==
  ASSUME PcaInv, WriteCMOD
  PROVE  PcaInv' /\ QuietStep
<1>1. PICK use \in Uses :
        Move([Machine EXCEPT
          !.c = IF use[1] % 4 = pca.cps % 4 THEN [pca EXCEPT !.cps = use[1]]
                ELSE [pca EXCEPT !.cps = use[1], !.t0_overflows = 0, !.ECI_edge = 0]], -1)
  BY Zenon DEF WriteCMOD
<1> DEFINE n == use[1]
           c == IF n % 4 = pca.cps % 4 THEN [pca EXCEPT !.cps = n]
                ELSE [pca EXCEPT !.cps = n, !.t0_overflows = 0, !.ECI_edge = 0]
           r == [Machine EXCEPT !.c = c]
<1>2. n \in 0..7 /\ 0 \in 0..MaxEvents
  BY PcaAssumption
<1>3. Move(r, -1)
  BY <1>1
<1> HIDE DEF n
<1>4. [pca EXCEPT !.cps = n] \in Counter /\ [pca EXCEPT !.cps = n].cl = pca.cl
  BY <1>2, MachineIs DEF Counter
<1>5. [pca EXCEPT !.cps = n, !.t0_overflows = 0, !.ECI_edge = 0] \in Counter
      /\ [pca EXCEPT !.cps = n, !.t0_overflows = 0, !.ECI_edge = 0].cl = pca.cl
  BY <1>2, MachineIs DEF Counter
<1>6. c \in Counter /\ c.cl = pca.cl
  BY <1>4, <1>5
<1>61. EventsKept(pca, c)
  <2>1. CASE n % 4 = pca.cps % 4
    BY <2>1, MachineIs DEF EventsKept, Counter
  <2>2. CASE n % 4 # pca.cps % 4
    <3>1. c = [pca EXCEPT !.cps = n, !.t0_overflows = 0, !.ECI_edge = 0] /\ n # pca.cps
      BY <2>2
    <3>2. c.cps = n
      BY <3>1, MachineIs DEF Counter
    <3> QED
      BY <3>1, <3>2 DEF EventsKept
  <2> QED
    BY <2>1, <2>2
<1> HIDE DEF c
<1>7. r \in Machines /\ r.c = c /\ r.m = module /\ r.did = Nothing
  BY <1>6, MachineIs, OtherCounter
<1> HIDE DEF r
<1>8. SameDuty(Machine, r) /\ r.did.period = <<>> /\ r.m.cex_pos = r.m.fresh
  BY <1>6, <1>7, MachineIs, NothingDone DEF SameDuty
<1>9. Sound(r, -1)
  BY <1>7, <1>8, MachineSound, EditSound
<1> QED
  BY <1>3, <1>61, <1>7, <1>9, MoveQuiet

(* A write of CCON.                                                         *)
LEMMA CCONKeeps ==
  ASSUME PcaInv, WriteCCON
  PROVE  PcaInv' /\ QuietStep
<1>1. PICK b \in BOOLEAN : Become([Machine EXCEPT !.c.CR = b, !.c.bit_CR = b, !.m.CCF = FALSE])
  BY Zenon DEF WriteCCON
<1> DEFINE c == [pca EXCEPT !.CR = b, !.bit_CR = b]
           m == [module EXCEPT !.CCF = FALSE]
           q == [Machine EXCEPT !.c = c]
           r == [q EXCEPT !.m = m]
<1>2. r = [Machine EXCEPT !.c.CR = b, !.c.bit_CR = b, !.m.CCF = FALSE]
  BY MachineIs DEF Machines, Counter
<1>3. c \in Counter /\ SameClock(pca, c) /\ EventsKept(pca, c)
  BY MachineIs DEF Counter, SameClock, EventsKept
<1>4. m \in Modules /\ m.high = module.high /\ m.ccapm = module.ccapm /\ m.EPCL = module.EPCL
      /\ m.ccapl = module.ccapl /\ m.cex_pos = module.cex_pos /\ m.fresh = module.fresh
  BY MachineIs DEF Modules
<1> HIDE DEF c, m
<1>5. q \in Machines /\ q.c = c /\ q.m = module /\ q.did = Nothing
  BY <1>3, MachineIs, OtherCounter
<1> HIDE DEF q
<1>6. r \in Machines /\ r.c = c /\ r.m = m /\ r.did = Nothing
  BY <1>4, <1>5, OtherModule
<1> HIDE DEF r
<1>7. SameDuty(Machine, r) /\ r.did.period = <<>> /\ r.m.cex_pos = r.m.fresh
      /\ SameClock(Machine.c, r.c)
  BY <1>3, <1>4, <1>6, MachineIs, NothingDone DEF SameDuty, SameClock
<1>8. Sound(r, pca_since)
  BY <1>6, <1>7, MachineSound, EditSound
<1> QED
  BY <1>1, <1>2, <1>3, <1>6, <1>8, MoveQuiet DEF Become

(* A write of bit CR.                                                       *)
LEMMA BitCRKeeps ==
  ASSUME PcaInv, WriteBitCR
  PROVE  PcaInv' /\ QuietStep
<1>1. PICK b \in BOOLEAN : Become([Machine EXCEPT !.c.CR = b])
  BY Zenon DEF WriteBitCR
<1> DEFINE c == [pca EXCEPT !.CR = b]
           r == [Machine EXCEPT !.c = c]
<1>2. r = [Machine EXCEPT !.c.CR = b]
  BY MachineIs
<1>3. c \in Counter /\ SameClock(pca, c) /\ EventsKept(pca, c)
  BY MachineIs DEF Counter, SameClock, EventsKept
<1> HIDE DEF c
<1>4. r \in Machines /\ r.c = c /\ r.m = module /\ r.did = Nothing
  BY <1>3, MachineIs, OtherCounter
<1> HIDE DEF r
<1>5. SameDuty(Machine, r) /\ r.did.period = <<>> /\ r.m.cex_pos = r.m.fresh
      /\ SameClock(Machine.c, r.c)
  BY <1>3, <1>4, MachineIs, NothingDone DEF SameDuty, SameClock
<1>6. Sound(r, pca_since)
  BY <1>4, <1>5, MachineSound, EditSound
<1> QED
  BY <1>1, <1>2, <1>3, <1>4, <1>6, MoveQuiet DEF Become

(* A write of bit CCF, which may stop the array.                            *)
LEMMA BitCCFKeeps ==
  ASSUME PcaInv, ClearBitCCF
  PROVE  PcaInv' /\ QuietStep
<1> DEFINE b == IF module.nr = 2 THEN FALSE ELSE pca.bit_CR
           c == [pca EXCEPT !.bit_CR = b]
           m == [module EXCEPT !.CCF = FALSE]
           q == [Machine EXCEPT !.c = c]
           r == [q EXCEPT !.m = m]
<1>1. b \in BOOLEAN
  BY MachineIs DEF Counter
<1>2. r = [Machine EXCEPT !.m.CCF = FALSE, !.c.bit_CR = IF module.nr = 2 THEN FALSE ELSE @]
  BY MachineIs DEF Machines, Counter
<1> HIDE DEF b
<1>3. c \in Counter /\ SameClock(pca, c) /\ EventsKept(pca, c)
  BY <1>1, MachineIs DEF Counter, SameClock, EventsKept
<1>4. m \in Modules /\ m.high = module.high /\ m.ccapm = module.ccapm /\ m.EPCL = module.EPCL
      /\ m.ccapl = module.ccapl /\ m.cex_pos = module.cex_pos /\ m.fresh = module.fresh
  BY MachineIs DEF Modules
<1> HIDE DEF c, m
<1>5. q \in Machines /\ q.c = c /\ q.m = module /\ q.did = Nothing
  BY <1>3, MachineIs, OtherCounter
<1> HIDE DEF q
<1>6. r \in Machines /\ r.c = c /\ r.m = m /\ r.did = Nothing
  BY <1>4, <1>5, OtherModule
<1> HIDE DEF r
<1>7. SameDuty(Machine, r) /\ r.did.period = <<>> /\ r.m.cex_pos = r.m.fresh
      /\ SameClock(Machine.c, r.c)
  BY <1>3, <1>4, <1>6, MachineIs, NothingDone DEF SameDuty, SameClock
<1>8. Sound(r, pca_since)
  BY <1>6, <1>7, MachineSound, EditSound
<1> QED
  BY <1>2, <1>3, <1>6, <1>8, MoveQuiet DEF ClearBitCCF, Become

(* A write that sets up the module.                                         *)
LEMMA SetupSound ==
  ASSUME PcaInv, NEW m \in Modules, m.cex_pos = m.fresh,
         \/ m.high = -1
         \/ /\ m.high = module.high /\ m.ccapm = module.ccapm /\ m.EPCL = module.EPCL
            /\ m.ccapl = module.ccapl
  PROVE  LET r == [Machine EXCEPT !.m = m]
         IN Sound(r, pca_since) /\ r.did = Nothing /\ EventsKept(pca, r.c)
<1> DEFINE r == [Machine EXCEPT !.m = m]
<1>1. r \in Machines /\ r.c = pca /\ r.m = m /\ r.did = Nothing
  BY MachineIs, OtherModule
<1> HIDE DEF r
<1>2. SameDuty(Machine, r) /\ r.did.period = <<>> /\ r.m.cex_pos = r.m.fresh
      /\ SameClock(Machine.c, r.c)
  BY <1>1, MachineIs, NothingDone DEF SameDuty, SameClock
<1>3. Sound(r, pca_since)
  BY <1>1, <1>2, MachineSound, EditSound
<1>4. r.did = Nothing /\ EventsKept(pca, r.c)
  BY <1>1 DEF EventsKept
<1> QED
  BY <1>3, <1>4 DEF r

(* A write of CCAPM.                                                        *)
LEMMA CCAPMKeeps ==
  ASSUME PcaInv, WriteCCAPM
  PROVE  PcaInv' /\ QuietStep
<1> DEFINE m(b) == [module EXCEPT !.ccapm = b, !.cex_pos = FALSE, !.cex_neg = FALSE,
                                  !.fresh = FALSE, !.high = -1]
<1>1. PICK use \in Uses : Become([Machine EXCEPT !.m = m(use[2])])
  BY Zenon DEF WriteCCAPM
<1> DEFINE b == use[2]
           m1 == [module EXCEPT !.ccapm = b, !.high = -1]
           m2 == [m1 EXCEPT !.cex_pos = FALSE, !.cex_neg = FALSE, !.fresh = FALSE]
<1>2. b \in SUBSET ModeBits /\ -1 \in Int
  BY PcaAssumption
<1>3. Become([Machine EXCEPT !.m = m(b)])
  BY <1>1
<1> HIDE DEF b
<1>4. m(b) = m2
  BY MachineIs DEF Modules
<1>5. m1 \in Modules /\ m1.high = -1
  BY <1>2, MachineIs DEF Modules
<1> HIDE DEF m, m1
<1>6. m2 \in Modules /\ m2.high = -1 /\ m2.cex_pos = m2.fresh
  BY <1>5 DEF Modules
<1> HIDE DEF m2
<1>7. Sound([Machine EXCEPT !.m = m2], pca_since) /\ [Machine EXCEPT !.m = m2].did = Nothing
      /\ EventsKept(pca, [Machine EXCEPT !.m = m2].c)
  BY <1>6, SetupSound
<1> QED
  BY <1>3, <1>4, <1>7, MoveQuiet DEF Become

(* A write of CCAPL.                                                        *)
LEMMA CCAPLKeeps ==
  ASSUME PcaInv, WriteCCAPL
  PROVE  PcaInv' /\ QuietStep
<1>1. PICK n \in Loads : Become([Machine EXCEPT !.m.ccapl = n, !.m.high = -1])
  BY Zenon DEF WriteCCAPL
<1> DEFINE m == [module EXCEPT !.ccapl = n, !.high = -1]
<1>2. n \in Byte /\ -1 \in Int
  BY ByteAssumption DEF Byte
<1>3. [Machine EXCEPT !.m.ccapl = n, !.m.high = -1] = [Machine EXCEPT !.m = m]
  BY MachineIs DEF Machines, Modules
<1>4. m \in Modules /\ m.high = -1 /\ m.cex_pos = m.fresh
  BY <1>2, MachineIs DEF Modules
<1> HIDE DEF m
<1>5. Sound([Machine EXCEPT !.m = m], pca_since) /\ [Machine EXCEPT !.m = m].did = Nothing
      /\ EventsKept(pca, [Machine EXCEPT !.m = m].c)
  BY <1>4, SetupSound
<1> QED
  BY <1>1, <1>3, <1>5, MoveQuiet DEF Become

(* A write of CCAPH, which the running period does not see.                 *)
LEMMA CCAPHKeeps ==
  ASSUME PcaInv, WriteCCAPH
  PROVE  PcaInv' /\ QuietStep
<1>1. PICK n \in Loads : Become([Machine EXCEPT !.m.ccaph = n])
  BY Zenon DEF WriteCCAPH
<1> DEFINE m == [module EXCEPT !.ccaph = n]
<1>2. n \in Byte
  BY ByteAssumption DEF Byte
<1>3. [Machine EXCEPT !.m.ccaph = n] = [Machine EXCEPT !.m = m]
  BY MachineIs DEF Machines, Modules
<1>4. m \in Modules /\ m.high = module.high /\ m.ccapm = module.ccapm /\ m.EPCL = module.EPCL
      /\ m.ccapl = module.ccapl /\ m.cex_pos = m.fresh
  BY <1>2, MachineIs DEF Modules
<1> HIDE DEF m
<1>5. Sound([Machine EXCEPT !.m = m], pca_since) /\ [Machine EXCEPT !.m = m].did = Nothing
      /\ EventsKept(pca, [Machine EXCEPT !.m = m].c)
  BY <1>4, SetupSound
<1> QED
  BY <1>1, <1>3, <1>5, MoveQuiet DEF Become

(* A write of the ninth bit.                                                *)
LEMMA PWMKeeps ==
  ASSUME PcaInv, WritePWM
  PROVE  PcaInv' /\ QuietStep
<1>1. PICK n \in 0..1 : Become([Machine EXCEPT !.m.EPCL = n, !.m.high = -1])
  BY Zenon DEF WritePWM
<1> DEFINE m == [module EXCEPT !.EPCL = n, !.high = -1]
<1>2. -1 \in Int
  OBVIOUS
<1>3. [Machine EXCEPT !.m.EPCL = n, !.m.high = -1] = [Machine EXCEPT !.m = m]
  BY MachineIs DEF Machines, Modules
<1>4. m \in Modules /\ m.high = -1 /\ m.cex_pos = m.fresh
  BY <1>2, MachineIs DEF Modules
<1> HIDE DEF m
<1>5. Sound([Machine EXCEPT !.m = m], pca_since) /\ [Machine EXCEPT !.m = m].did = Nothing
      /\ EventsKept(pca, [Machine EXCEPT !.m = m].c)
  BY <1>4, SetupSound
<1> QED
  BY <1>1, <1>3, <1>5, MoveQuiet DEF Become

(* An overflow of Timer 0 waits to be counted.                              *)
LEMMA OverflowKeeps ==
  ASSUME PcaInv, Timer0Overflow
  PROVE  PcaInv' /\ QuietStep
<1> DEFINE n == pca.t0_overflows + 1
           c == [pca EXCEPT !.t0_overflows = n]
           d == [Nothing EXCEPT !.overflows = 1]
           q == [Machine EXCEPT !.c = c]
           r == [q EXCEPT !.did = d]
<1>1. Become([Machine EXCEPT !.c.t0_overflows = @ + 1, !.did.overflows = 1])
      /\ pca.t0_overflows < MaxEvents
  BY DEF Timer0Overflow
<1>2. pca.t0_overflows \in 0..MaxEvents /\ MaxEvents \in Nat
  BY MachineIs, PcaAssumption DEF Counter
<1>3. n \in 0..MaxEvents
  BY <1>1, <1>2
<1>4. [Machine EXCEPT !.c.t0_overflows = @ + 1, !.did.overflows = 1] = r
  BY MachineIs DEF Machines, Counter, Dids, Machine
<1> HIDE DEF n
<1>5. c \in Counter /\ SameClock(pca, c)
  BY <1>3, MachineIs DEF Counter, SameClock
<1>6. d \in Dids /\ d.period = <<>>
  BY NothingDone DEF Dids
<1> HIDE DEF c, d
<1>7. q \in Machines /\ q.c = c /\ q.m = module
  BY <1>5, MachineIs, OtherCounter
<1> HIDE DEF q
<1>8. r \in Machines /\ r.c = c /\ r.m = module /\ r.did = d
  BY <1>6, <1>7, OtherDeed
<1> HIDE DEF r
<1>9. SameDuty(Machine, r) /\ r.did.period = <<>> /\ r.m.cex_pos = r.m.fresh
      /\ SameClock(Machine.c, r.c)
  BY <1>5, <1>6, <1>8, MachineIs DEF SameDuty, SameClock
<1>10. Sound(r, pca_since)
  BY <1>8, <1>9, MachineSound, EditSound
<1>11. PcaInv'
  BY <1>1, <1>4, <1>10, MoveKeeps DEF Become
<1>12. pca' = c /\ pca_did' = d /\ p1' = [p1 EXCEPT !.cex = r.out]
  BY <1>1, <1>4, <1>8 DEF Become, Move
<1>13. d.overflows = 1 /\ d.counts = 0 /\ d.wraps = 0 /\ d.captures = 0 /\ d.toggles = 0
  BY DEF Nothing, d
<1>14. c.t0_overflows = pca.t0_overflows + 1 /\ c.ECI_edge = pca.ECI_edge
  BY MachineIs DEF c, n, Counter
<1>15. Accounted
  <2> SUFFICES ASSUME pca.cps \in {Timer0Source, EciSource}
               PROVE  Value(pca') + Values * pca_did'.wraps + Waiting(pca')
                        = Value(pca) + Waiting(pca) + Brought
    BY DEF Accounted
  <2>1. pca.cps = Timer0Source
    BY DEF Timer0Overflow, Timer0Source, EciSource
  <2>2. Value(pca') = Value(pca) /\ Waiting(pca') = Waiting(pca) + 1
    BY <1>5, <1>12, <1>14, <2>1 DEF SameClock, Value, Number, Waiting
  <2>3. Brought = 1 /\ pca_did'.wraps = 0
    BY <1>12, <1>13, <2>1 DEF Brought
  <2>4. Values * pca_did'.wraps = 0
    BY <2>3, ValuesType
  <2>5. Value(pca) \in Nat /\ Waiting(pca) \in Nat
    BY MachineIs, ValueType
  <2> QED
    BY <2>2, <2>3, <2>4, <2>5
<1> QED
  BY <1>11, <1>12, <1>13, <1>15 DEF QuietStep

(* What the port tells the array: edges of ECI wait to be counted, as often *)
(* as they are told, those of CEX to be captured.                           *)
LEMMA EventKeeps ==
  ASSUME PcaInv, NEW p \in Port1, NEW told \in Nat, PortEvent(p, told),
         NotesEci(p) => told = IF p.eci = p1.eci THEN 1 ELSE 2
  PROVE  PcaInv' /\ QuietStep
<1> DEFINE n == IF NotesEci(p) THEN pca.ECI_edge + told ELSE pca.ECI_edge
           c == [pca EXCEPT !.ECI_edge = n]
           neg == module.cex_neg \/ (Falls(p, "cex") /\ "CAPN" \in module.ccapm)
           pos == module.cex_pos \/ (Rises(p, "cex") /\ "CAPP" \in module.ccapm)
           fr == module.fresh \/ (Rises(p, "cex") /\ "CAPP" \in module.ccapm)
           m == [module EXCEPT !.cex_neg = neg, !.cex_pos = pos, !.fresh = fr]
           o == p.cex
           q == [Machine EXCEPT !.c = c]
           t == [q EXCEPT !.m = m]
           r == [c |-> c, m |-> m, out |-> o, did |-> Nothing]
<1>1. /\ NotesEci(p) => pca.ECI_edge + told <= MaxEvents
      /\ p1' = p /\ pca' = c /\ module' = m /\ pca_did' = Nothing /\ pca_since' = pca_since
  BY MachineIs DEF PortEvent, Counter, Modules
<1>2. pca.ECI_edge \in 0..MaxEvents /\ MaxEvents \in Nat
  BY MachineIs, PcaAssumption DEF Counter
<1>3. n \in 0..MaxEvents
  BY <1>1, <1>2
<1>4. neg \in BOOLEAN /\ pos \in BOOLEAN /\ fr \in BOOLEAN /\ pos = fr
  BY MachineIs DEF Modules
<1>5. o \in BOOLEAN
  BY DEF Port1
<1> HIDE DEF n, neg, pos, fr, o
<1>6. c \in Counter /\ SameClock(pca, c)
  BY <1>3, MachineIs DEF Counter, SameClock
<1>7. m \in Modules /\ m.high = module.high /\ m.ccapm = module.ccapm /\ m.EPCL = module.EPCL
      /\ m.ccapl = module.ccapl /\ m.cex_pos = m.fresh
  BY <1>4, MachineIs DEF Modules
<1> HIDE DEF c, m
<1>8. r \in Machines /\ r.c = c /\ r.m = m /\ r.did = Nothing
  BY <1>5, <1>6, <1>7, NothingDone DEF Machines
<1>9. r = Whole'
  BY <1>1 DEF Whole, o
<1> HIDE DEF r
<1>10. SameDuty(Machine, r) /\ r.did.period = <<>> /\ r.m.cex_pos = r.m.fresh
       /\ SameClock(Machine.c, r.c)
  BY <1>6, <1>7, <1>8, MachineIs, NothingDone DEF SameDuty, SameClock
<1>11. Sound(r, pca_since)
  BY <1>8, <1>10, MachineSound, EditSound
<1>12. PcaInv'
  BY <1>1, <1>9, <1>11 DEF PcaInv
<1>13. /\ pca_did'.counts = 0 /\ pca_did'.wraps = 0 /\ pca_did'.captures = 0
       /\ pca_did'.toggles = 0 /\ pca_did'.overflows = 0
  BY <1>1 DEF Nothing
<1>14. c.ECI_edge = n /\ c.t0_overflows = pca.t0_overflows
  BY MachineIs DEF c, Counter
<1>15. Accounted
  <2> SUFFICES ASSUME pca.cps \in {Timer0Source, EciSource}
               PROVE  Value(pca') + Values * pca_did'.wraps + Waiting(pca')
                        = Value(pca) + Waiting(pca) + Brought
    BY DEF Accounted
  <2>1. Value(pca') = Value(pca) /\ pca'.cps = pca.cps
    BY <1>1, <1>6 DEF SameClock, Value, Number
  <2>2. Values * pca_did'.wraps = 0
    BY <1>13, ValuesType
  <2>3. Value(pca) \in Nat /\ pca.t0_overflows \in Nat /\ pca.ECI_edge \in Nat
    BY <1>2, MachineIs, ValueType, PcaAssumption DEF Counter
  <2>4. CASE pca.cps = Timer0Source
    <3>1. Waiting(pca') = Waiting(pca) /\ Waiting(pca) = pca.t0_overflows /\ Brought = 0
      BY <1>1, <1>13, <1>14, <2>1, <2>4
        DEF Waiting, Brought, Timer0Source, EciSource
    <3> QED
      BY <2>1, <2>2, <2>3, <3>1
  <2>5. CASE pca.cps = EciSource
    <3>1. Waiting(pca') = n /\ Waiting(pca) = pca.ECI_edge
      BY <1>1, <1>14, <2>1, <2>5 DEF Waiting, Timer0Source, EciSource
    <3>2. Brought = IF NotesEci(p) THEN told ELSE 0
      BY <1>1, <2>5 DEF Brought, NotesEci, Falls, Level, Timer0Source, EciSource
    <3> QED
      BY <2>1, <2>2, <2>3, <3>1, <3>2 DEF n
  <2> QED
    BY <2>4, <2>5
<1> QED
  BY <1>12, <1>13, <1>15 DEF QuietStep

(* The program writes P1.                                                   *)
LEMMA P1Keeps ==
  ASSUME PcaInv, WriteP1
  PROVE  PcaInv' /\ QuietStep
<1>1. PICK b \in BOOLEAN, e \in BOOLEAN : PortEvent([p1 EXCEPT !.cex = b, !.eci = e], 2)
  BY Zenon DEF WriteP1
<1> DEFINE p == [p1 EXCEPT !.cex = b, !.eci = e]
<1>2. p \in Port1 /\ p.eci = e /\ p.pins = p1.pins
  BY MachineIs DEF Port1
<1> HIDE DEF p
<1>3. NotesEci(p) => p.eci # p1.eci
  BY <1>2 DEF NotesEci, Falls, Level
<1>4. PortEvent(p, 2)
  BY <1>1 DEF p
<1> QED
  BY <1>2, <1>3, <1>4, EventKeeps

(* The outside drives the pins.                                             *)
LEMMA PinKeeps ==
  ASSUME PcaInv, SetPin
  PROVE  PcaInv' /\ QuietStep
<1>1. PICK q \in PcaPins : PortEvent([p1 EXCEPT !.pins = q], 1)
  BY Zenon DEF SetPin
<1>2. q \in [cex : BOOLEAN, eci : BOOLEAN]
  BY PcaAssumption
<1>3. [p1 EXCEPT !.pins = q] \in Port1 /\ [p1 EXCEPT !.pins = q].eci = p1.eci
  BY <1>2, MachineIs DEF Port1
<1> QED
  BY <1>1, <1>3, EventKeeps

(* A reset.                                                                 *)
LEMMA ResetKeeps ==
  ASSUME PcaInv, PcaReset
  PROVE  PcaInv' /\ QuietStep
<1> DEFINE edge == p1.pins.cex /\ "CAPP" \in Reset2(module)
           b == Reset2(module)
           c1 == [pca EXCEPT !.cl = 0, !.ch = 0, !.cps = 0]
           c2 == [c1 EXCEPT !.CR = FALSE, !.bit_CR = FALSE]
           c3 == [c2 EXCEPT !.t0_overflows = 0, !.ECI_edge = 0]
           m1 == [module EXCEPT !.ccapm = b, !.ccapl = 0, !.ccaph = 0]
           m2 == [m1 EXCEPT !.EPCL = 0, !.CCF = FALSE, !.cex_pos = edge]
           m3 == [m2 EXCEPT !.cex_neg = FALSE, !.fresh = edge]
           m4 == [m3 EXCEPT !.high = -1]
           r == [c |-> c3, m |-> m4, out |-> TRUE, did |-> Nothing]
<1>1. /\ p1' = [p1 EXCEPT !.cex = TRUE, !.eci = TRUE] /\ pca_did' = Nothing /\ pca_since' = -1
      /\ pca' = [pca EXCEPT !.cl = 0, !.ch = 0, !.cps = 0, !.CR = FALSE, !.bit_CR = FALSE,
                            !.t0_overflows = 0, !.ECI_edge = 0]
      /\ module' = [module EXCEPT !.ccapm = b, !.ccapl = 0, !.ccaph = 0,
                                  !.EPCL = 0, !.CCF = FALSE, !.cex_pos = edge,
                                  !.cex_neg = FALSE, !.fresh = edge, !.high = -1]
  BY Zenon DEF PcaReset
<1>2. edge \in BOOLEAN /\ b \in SUBSET ModeBits
  BY MachineIs DEF Port1, Modules, Reset2
<1>3. 0 \in Byte /\ 0 \in 0..MaxEvents /\ 0 \in 0..7 /\ 0 \in 0..1 /\ -1 \in Int
  BY ByteAssumption, PcaAssumption DEF Byte
<1> HIDE DEF edge, b
<1>4. pca' = c3
  BY <1>1, MachineIs DEF Counter
<1>5. module' = m4
  BY <1>1, MachineIs DEF Modules
<1>6. c1 \in Counter
  BY <1>3, MachineIs DEF Counter
<1> HIDE DEF c1
<1>7. c2 \in Counter
  BY <1>6 DEF Counter
<1> HIDE DEF c2
<1>8. c3 \in Counter
  BY <1>3, <1>7 DEF Counter
<1>9. m1 \in Modules
  BY <1>2, <1>3, MachineIs DEF Modules
<1> HIDE DEF m1
<1>10. m2 \in Modules /\ m2.cex_pos = edge
  BY <1>2, <1>3, <1>9 DEF Modules
<1> HIDE DEF m2
<1>11. m3 \in Modules /\ m3.cex_pos = edge /\ m3.fresh = edge
  BY <1>2, <1>10 DEF Modules
<1> HIDE DEF m3
<1>12. m4 \in Modules /\ m4.cex_pos = m4.fresh /\ m4.high = -1
  BY <1>3, <1>11 DEF Modules
<1> HIDE DEF c3, m4
<1>13. r \in Machines /\ r.m = m4 /\ r.did = Nothing
  BY <1>8, <1>12, NothingDone DEF Machines
<1>14. p1' \in Port1 /\ p1'.cex = TRUE
  BY <1>1, MachineIs DEF Port1
<1>15. Whole' = r
  BY <1>1, <1>4, <1>5, <1>14 DEF Whole
<1> HIDE DEF r
<1>16. SameDuty(Machine, r) /\ r.did.period = <<>> /\ r.m.cex_pos = r.m.fresh
  BY <1>12, <1>13, NothingDone DEF SameDuty
<1>17. Sound(r, -1)
  BY <1>13, <1>16, MachineSound, EditSound
<1>18. PcaInv'
  BY <1>1, <1>14, <1>15, <1>17 DEF PcaInv
<1>19. /\ pca_did'.counts = 0 /\ pca_did'.wraps = 0 /\ pca_did'.captures = 0
       /\ pca_did'.toggles = 0
  BY <1>1 DEF Nothing
<1>20. Accounted
  <2>1. pca'.cps = 0
    BY <1>4, <1>6, MachineIs DEF c3, c2, c1, Counter
  <2> QED
    BY <2>1 DEF Accounted, Timer0Source, EciSource
<1> QED
  BY <1>18, <1>19, <1>20 DEF QuietStep

(* The initial state.                                                       *)
LEMMA PcaStarts == PcaInit => PcaInv
<1> SUFFICES ASSUME PcaInit PROVE PcaInv
  OBVIOUS
<1>1. pca = [cl |-> 0, ch |-> 0, cps |-> 0, CR |-> FALSE, bit_CR |-> FALSE,
             prescaler |-> 0, t0_overflows |-> 0, ECI_edge |-> 0]
      /\ pca_did = Nothing /\ pca_since = -1
  BY DEF PcaInit
<1>2. PICK n \in PcaModules :
        module = [nr |-> n, ccapm |-> {}, ccapl |-> 0, ccaph |-> 0, EPCL |-> 0,
                  CCF |-> FALSE, cex_pos |-> FALSE, cex_neg |-> FALSE, fresh |-> FALSE,
                  high |-> -1]
  BY DEF PcaInit
<1>3. PICK q \in PcaPins : p1 = [cex |-> TRUE, eci |-> TRUE, pins |-> q]
  BY DEF PcaInit
<1>4. q \in [cex : BOOLEAN, eci : BOOLEAN]
  BY PcaAssumption
<1>5. 0 \in Byte /\ 0 \in 0..MaxEvents /\ 0 \in 0..7 /\ 0 \in 0..1 /\ -1 \in Int
      /\ 0 \in UNION {0..(Divisor[k] - 1) : k \in DOMAIN Divisor}
  <2>1. 0 \in Byte /\ 0 \in 0..MaxEvents /\ -1 \in Int
    BY ByteAssumption, PcaAssumption DEF Byte
  <2>2. 4 \in DOMAIN Divisor /\ Divisor[4] = 1
    BY PcaAssumption
  <2>3. 0 \in 0..(Divisor[4] - 1)
    BY <2>2
  <2> QED
    BY <2>1, <2>2, <2>3
<1>6. pca \in Counter
  BY <1>1, <1>5 DEF Counter
<1>7. module \in Modules /\ module.high = -1 /\ module.cex_pos = module.fresh
  BY <1>2, <1>5 DEF Modules
<1>8. p1 \in Port1 /\ p1.cex \in BOOLEAN
  BY <1>3, <1>4 DEF Port1
<1>9. Whole \in Machines /\ Whole.m = module /\ Whole.did = Nothing
  BY <1>1, <1>6, <1>7, <1>8, NothingDone DEF Machines, Whole
<1>10. Duty(Whole)
  <2>1. Base \in Nat
    BY ByteAssumption
  <2> QED
    BY <1>7, <1>9, <2>1, NothingDone DEF Duty
<1> QED
  BY <1>1, <1>7, <1>8, <1>9, <1>10 DEF PcaInv, Sound, Measured

(* What the clock source hands the counter.                                 *)
Taken(c, d, n) ==
  /\ d \in Counter /\ d.cl = c.cl /\ d.ch = c.ch /\ d.cps = c.cps /\ n \in Nat
  /\ Divides(c) /\ c.cps # 4 =>
       /\ n = (c.prescaler + 1) \div Divisor[c.cps]
       /\ d.prescaler = (c.prescaler + 1) % Divisor[c.cps]
  /\ c.cps = 4 => n = 1
  /\ c.cps \in {Timer0Source, EciSource} => Waiting(c) = n /\ Waiting(d) = 0

(* What is due is taken: a cycle goes into the prescaler, events leave      *)
(* the queue.                                                               *)
LEMMA TakeIs ==
  ASSUME NEW c \in Counter
  PROVE  Taken(c, Take(c), Due(c))
<1>1. /\ c.cps \in 0..7 /\ c.t0_overflows \in 0..MaxEvents /\ c.ECI_edge \in 0..MaxEvents
      /\ c.prescaler \in UNION {0..(Divisor[k] - 1) : k \in DOMAIN Divisor}
  BY DEF Counter
<1>2. MaxEvents \in Nat /\ 0 \in 0..MaxEvents /\ DOMAIN Divisor = {0, 1, 4, 5, 6, 7}
      /\ \A k \in DOMAIN Divisor : Divisor[k] \in Nat \ {0}
  BY PcaAssumption
<1>3. c.prescaler \in Nat
  BY <1>1, <1>2
<1>4. Timer0Source = 2 /\ EciSource = 3
  BY DEF Timer0Source, EciSource
<1>5. CASE Divides(c) /\ c.cps # 4
  <2> DEFINE D == Divisor[c.cps]
             q == (c.prescaler + 1) % D
             d == [c EXCEPT !.prescaler = q]
  <2>1. c.cps \in DOMAIN Divisor /\ D \in Nat \ {0}
    BY <1>2, <1>5 DEF Divides
  <2>2. c.prescaler + 1 \in Nat
    BY <1>3
  <2>3. q \in 0..(D - 1) /\ (c.prescaler + 1) \div D \in Nat
    <3> HIDE DEF D
    <3> QED
      BY <2>1, <2>2, DivMod
  <2>4. q \in UNION {0..(Divisor[k] - 1) : k \in DOMAIN Divisor}
    BY <2>1, <2>3
  <2>7. c.cps # Timer0Source /\ c.cps # EciSource
    BY <1>2, <1>4, <2>1
  <2>51. d = [c EXCEPT !.prescaler = (@ + 1) % Divisor[c.cps]]
    OBVIOUS
  <2>52. Take(c) = d
    <3> HIDE DEF d
    <3> QED
      BY <1>5, <2>51, <2>7 DEF Take
  <2>53. Due(c) = (c.prescaler + 1) \div D
    BY <1>5, <2>7 DEF Due
  <2>5. Take(c) = d /\ Due(c) = (c.prescaler + 1) \div D
    BY <2>52, <2>53
  <2> HIDE DEF q
  <2>6. d \in Counter /\ d.cl = c.cl /\ d.ch = c.ch /\ d.cps = c.cps /\ d.prescaler = q
    BY <2>4 DEF Counter
  <2> HIDE DEF d
  <2> QED
    BY <1>5, <2>3, <2>5, <2>6, <2>7 DEF Taken, q
<1>6. CASE c.cps = 4
  BY <1>4, <1>6 DEF Take, Due, Taken
<1>7. CASE c.cps = Timer0Source
  <2> DEFINE d == [c EXCEPT !.t0_overflows = 0]
  <2>1. ~Divides(c) /\ c.cps # 4
    BY <1>2, <1>4, <1>7 DEF Divides
  <2>2. Take(c) = d /\ Due(c) = c.t0_overflows
    BY <1>4, <1>7, <2>1 DEF Take, Due
  <2>3. d \in Counter /\ d.cl = c.cl /\ d.ch = c.ch /\ d.cps = c.cps /\ d.t0_overflows = 0
    BY <1>2 DEF Counter
  <2> HIDE DEF d
  <2>4. Waiting(c) = c.t0_overflows /\ Waiting(d) = 0
    BY <1>7, <2>3 DEF Waiting
  <2> QED
    BY <1>1, <1>2, <2>1, <2>2, <2>3, <2>4 DEF Taken
<1>8. CASE c.cps = EciSource
  <2> DEFINE d == [c EXCEPT !.ECI_edge = 0]
  <2>1. ~Divides(c) /\ c.cps # 4 /\ c.cps # Timer0Source
    BY <1>2, <1>4, <1>8 DEF Divides
  <2>2. Take(c) = d /\ Due(c) = c.ECI_edge
    BY <1>4, <1>8, <2>1 DEF Take, Due
  <2>3. d \in Counter /\ d.cl = c.cl /\ d.ch = c.ch /\ d.cps = c.cps /\ d.ECI_edge = 0
    BY <1>2 DEF Counter
  <2> HIDE DEF d
  <2>4. Waiting(c) = c.ECI_edge /\ Waiting(d) = 0
    BY <2>1, <2>3 DEF Waiting
  <2> QED
    BY <1>1, <1>2, <2>1, <2>2, <2>3, <2>4 DEF Taken
<1> QED
  BY <1>1, <1>2, <1>4, <1>5, <1>6, <1>7, <1>8 DEF Divides

(* A tick that may count.                                                   *)
Ready == [Machine EXCEPT !.c = Take(pca)]

(* Such a tick is the counts that are due.                                  *)
LEMMA TickIs ==
  ASSUME PcaInv, PcaTick, pca.bit_CR
  PROVE  \E s : /\ Ready \in Machines /\ Ready.c = Take(pca) /\ Ready.m = module
                /\ Ready.out = p1.cex /\ Ready.did = Nothing
                /\ Taken(pca, Take(pca), Due(pca))
                /\ Duty(Ready)
                /\ AfterCounts(Ready, Due(pca), s) /\ Move(s, Since(s.did))
<1>1. PICK s : s = DoCounter(Ready, Due(pca)) /\ Move(s, Since(s.did))
  BY DEF PcaTick, Ready
<1>2. Taken(pca, Take(pca), Due(pca))
  BY MachineIs, TakeIs
<1>3. Take(pca) \in Counter /\ Due(pca) \in Nat /\ Take(pca).cl = pca.cl
  BY <1>2 DEF Taken
<1>4. /\ Ready \in Machines /\ Ready.c = Take(pca) /\ Ready.m = module
      /\ Ready.out = p1.cex /\ Ready.did = Nothing
  BY <1>3, MachineIs, OtherCounter DEF Ready
<1>5. AfterCounts(Ready, Due(pca), s)
  BY <1>1, <1>3, <1>4, DoCounterIs
<1>6. Duty(Ready)
  <2>1. Duty(Machine)
    BY MachineSound DEF Sound
  <2>2. IsPwm(Ready) <=> IsPwm(Machine)
    BY <1>4, MachineIs DEF IsPwm, Has
  <2> QED
    BY <1>3, <1>4, <2>1, <2>2, MachineIs DEF Duty
<1> QED
  BY <1>1, <1>2, <1>4, <1>5, <1>6

(* One cycle in a clock of divisor D that has counted v times.              *)
LEMMA StepOfPeriod ==
  ASSUME NEW D \in Nat \ {0}, NEW v \in Nat, NEW p \in Nat, p < D
  PROVE  LET n == (p + 1) \div D
             q == (p + 1) % D
         IN /\ q \in Nat /\ q < D /\ n \in {0, 1}
            /\ n = 1 => q = 0 /\ p + 1 = D
            /\ D * v + p + 1 = D * (v + n) + q
<1>1. CASE p + 1 = D
  <2>1. p + 1 = 1 * D + 0 /\ 0 \in 0..(D - 1) /\ 1 \in Nat /\ p + 1 \in Nat
    BY <1>1
  <2>2. (p + 1) \div D = 1 /\ (p + 1) % D = 0
    BY <2>1, DivUnique
  <2>3. D * (v + 1) = D * v + D
    OBVIOUS
  <2>4. D * v \in Nat
    OBVIOUS
  <2> QED
    BY <1>1, <2>2, <2>3, <2>4
<1>2. CASE p + 1 < D
  <2>1. p + 1 = 0 * D + (p + 1) /\ p + 1 \in 0..(D - 1) /\ 0 \in Nat /\ p + 1 \in Nat
    BY <1>2
  <2>2. (p + 1) \div D = 0 /\ (p + 1) % D = p + 1
    BY <2>1, DivUnique
  <2>3. v + 0 = v /\ D * v \in Nat
    OBVIOUS
  <2> QED
    BY <1>2, <2>2, <2>3
<1> QED
  BY <1>1, <1>2

(* The measured period goes on through a tick, ends on time, or is given    *)
(* up.                                                                      *)
LEMMA TickMeasures ==
  ASSUME PcaInv, NEW d, NEW n, Taken(pca, d, n), NEW s \in Machines, ClockKept(d, s.c),
         Value(s.c) \in 0..(Values - 1), s.did.wraps \in Nat, s.did.counts = n,
         Value(s.c) + Values * s.did.wraps = Value(d) + n, d = Take(pca)
  PROVE  LET m == Since(s.did)
         IN /\ m \in Nat \cup {-1} /\ Measured(s.c, m)
            /\ pca_since # -1 /\ s.did.wraps > 0 =>
                 pca_since + 1 = Values * Divisor[pca.cps]
<1> DEFINE m == Since(s.did)
           D == Divisor[pca.cps]
           w == s.did.wraps
           v == Value(pca)
           x == Values * w
<1>1. pca \in Counter /\ s.c \in Counter /\ d \in Counter
  BY MachineIs DEF Machines, Taken
<1>2. Value(d) = v /\ v \in 0..(Values - 1) /\ Values \in Nat /\ n \in Nat /\ w \in Nat
  BY <1>1, ValueType, ValuesType DEF Taken, Value, Number
<1>3. s.c.cps = pca.cps /\ s.c.prescaler = d.prescaler
  BY DEF ClockKept, Taken
<1>4. pca_since \in Nat \cup {-1} /\ Measured(pca, pca_since)
  BY DEF PcaInv, Sound, Whole
<1>5. (Divides(s.c) <=> Divides(pca)) /\ (pca.cps = 4 => Divides(pca) /\ D = 1)
  BY <1>3, PcaAssumption DEF Divides
<1>6. Divides(pca) => D \in Nat \ {0}
  BY PcaAssumption DEF Divides
<1>7. x \in Nat /\ (w = 0 => x = 0) /\ (w > 0 => x >= Values)
  <2>1. w = 0 => x = 0
    BY <1>2
  <2>2. ASSUME w > 0 PROVE x \in Nat /\ x >= Values
    <3>1. PICK e \in Nat : w = e + 1
      <4>1. w - 1 \in Nat /\ w = (w - 1) + 1
        BY <1>2, <2>2
      <4> QED
        BY <4>1
    <3>2. Values * w = Values * e + Values /\ Values * e \in Nat
      BY <1>2, <3>1
    <3> QED
      BY <1>2, <3>2
  <2> QED
    BY <1>2, <2>1, <2>2
<1>8. Value(s.c) + x = v + n
  BY <1>2
<1>9. m = IF ~Divides(pca) \/ (w > 0 /\ ~(n = 1 /\ (pca.cps = 4 \/ d.prescaler = 0))) THEN -1
          ELSE IF w > 0 THEN 0
          ELSE IF pca_since = -1 THEN -1
          ELSE pca_since + 1
  BY DEF Since, WholeCount
<1>10. pca.cps = 4 => n = 1
  BY DEF Taken
<1>11. ASSUME Divides(pca), pca.cps # 4, pca_since # -1
       PROVE  /\ d.prescaler \in Nat /\ d.prescaler < D /\ n \in {0, 1}
              /\ n = 1 => d.prescaler = 0 /\ pca.prescaler + 1 = D
              /\ pca_since + 1 = D * (v + n) + d.prescaler
              /\ pca_since = D * v + pca.prescaler
  <2>1. pca.prescaler < D /\ pca_since = D * v + pca.prescaler
    BY <1>4, <1>11 DEF Measured
  <2>2. pca.prescaler \in Nat
    BY <1>1, PcaAssumption DEF Counter
  <2>3. n = (pca.prescaler + 1) \div D /\ d.prescaler = (pca.prescaler + 1) % D
    BY <1>11 DEF Taken
  <2>4. v \in Nat /\ D \in Nat \ {0}
    BY <1>2, <1>6, <1>11
  <2> HIDE DEF D, v
  <2>5. /\ d.prescaler \in Nat /\ d.prescaler < D /\ n \in {0, 1}
        /\ n = 1 => d.prescaler = 0 /\ pca.prescaler + 1 = D
        /\ D * v + pca.prescaler + 1 = D * (v + n) + d.prescaler
    BY <2>1, <2>2, <2>3, <2>4, StepOfPeriod
  <2> QED
    BY <2>1, <2>5
<1> HIDE DEF m, D, w, v, x
<1>12. m \in Nat \cup {-1} /\ Measured(s.c, m)
  <2>1. CASE m = -1
    BY <2>1 DEF Measured
  <2>2. CASE m # -1 /\ w > 0
    <3>1. m = 0 /\ n = 1 /\ Divides(pca) /\ (pca.cps = 4 \/ d.prescaler = 0)
      BY <1>9, <2>2
    <3>2. Value(s.c) = 0
      BY <1>2, <1>7, <1>8, <2>2, <3>1
    <3>3. pca.cps # 4 => d.prescaler < D /\ 0 = D * Value(s.c) + d.prescaler
      BY <1>6, <3>1, <3>2
    <3> QED
      BY <1>3, <1>5, <3>1, <3>2, <3>3 DEF Measured, D
  <2>3. CASE m # -1 /\ ~(w > 0)
    <3>1. m = pca_since + 1 /\ pca_since # -1 /\ Divides(pca) /\ w = 0
      BY <1>2, <1>9, <2>3
    <3>2. Value(s.c) = v + n
      BY <1>2, <1>7, <1>8, <3>1
    <3>3. CASE pca.cps = 4
      <4>1. pca_since = v
        BY <1>4, <3>1, <3>3 DEF Measured, v
      <4>2. m = Value(s.c) /\ m \in Nat
        BY <1>2, <1>10, <3>1, <3>2, <3>3, <4>1
      <4> QED
        BY <1>3, <1>5, <3>1, <3>3, <4>2 DEF Measured
    <3>4. CASE pca.cps # 4
      <4>1. d.prescaler < D /\ m = D * (v + n) + d.prescaler
        BY <1>11, <3>1, <3>4
      <4>2. m = D * Value(s.c) + d.prescaler
        BY <3>2, <4>1
      <4>3. m \in Nat
        BY <1>4, <3>1
      <4> QED
        BY <1>3, <1>5, <3>1, <3>4, <4>1, <4>2, <4>3 DEF Measured, D
    <3> QED
      BY <3>3, <3>4
  <2> QED
    BY <2>1, <2>2, <2>3
<1>13. ASSUME pca_since # -1, w > 0
       PROVE  pca_since + 1 = Values * D
  <2>1. Divides(pca)
    BY <1>4, <1>13 DEF Measured
  <2>2. CASE pca.cps = 4
    <3>1. pca_since = v
      BY <1>4, <1>13, <2>2 DEF Measured, v
    <3>2. v = Values - 1
      BY <1>2, <1>7, <1>8, <1>10, <1>13, <2>2
    <3> QED
      BY <1>2, <1>5, <2>2, <3>1, <3>2
  <2>3. CASE pca.cps # 4
    <3>1. n \in {0, 1} /\ (n = 1 => pca.prescaler + 1 = D) /\ pca_since = D * v + pca.prescaler
      BY <1>11, <1>13, <2>1, <2>3
    <3>2. n = 1 /\ v = Values - 1
      BY <1>2, <1>7, <1>8, <1>13, <3>1
    <3>3. pca_since + 1 = D * (Values - 1) + D
      <4>1. D * v \in Nat /\ pca.prescaler \in Nat
        BY <1>1, <1>2, <1>6, <2>1, PcaAssumption DEF Counter
      <4>2. pca_since + 1 = D * v + D
        BY <3>1, <3>2, <4>1
      <4> QED
        BY <3>2, <4>2
    <3>4. D * (Values - 1) + D = Values * D
      BY <1>2, <1>6, <2>1
    <3> QED
      BY <3>3, <3>4
  <2> QED
    BY <2>2, <2>3
<1> QED
  BY <1>12, <1>13 DEF m, D, w

(* What the checks ask of one step: the period, ...                         *)
PeriodKept ==
  pca_since # -1 /\ pca_did'.wraps > 0 => pca_since + 1 = Values * Divisor[pca.cps]

(* ... the toggles ...                                                      *)
TogglesKept ==
  LET target == Number(module.ccaph, module.ccapl)
  IN module.ccapm = {"ECOM", "MAT", "TOG"} /\ target # 0 /\ pca_did'.counts > 0 =>
       /\ pca_did'.toggles = Reached(target, pca_did'.counts)
       /\ p1'.cex = (IF pca_did'.toggles % 2 = 0 THEN p1.cex ELSE ~p1.cex)
       /\ pca_did'.toggles > 0 => module'.CCF

(* ... and the captures.                                                    *)
RisesKept ==
  module.ccapm = {"CAPP"} =>
    /\ pca_did'.captures > 0 => module.fresh /\ pca_did'.captures = 1
    /\ pca_did'.wraps > 0 /\ module.fresh => pca_did'.captures = 1

(* All of it, with the invariant.                                           *)
GoodStep == PcaInv' /\ Accounted /\ PeriodKept /\ TogglesKept /\ RisesKept

(* A step that counts nothing is a good one.                                *)
LEMMA QuietIsGood ==
  ASSUME PcaInv' /\ QuietStep
  PROVE  GoodStep
BY DEF QuietStep, GoodStep, PeriodKept, TogglesKept, RisesKept

(* A tick of the array when it is stopped.                                  *)
LEMMA StoppedKeeps ==
  ASSUME PcaInv, PcaTick, ~pca.bit_CR
  PROVE  GoodStep
<1>1. Move(Machine, -1)
  BY DEF PcaTick
<1>2. Machine \in Machines /\ SameDuty(Machine, Machine) /\ Machine.did.period = <<>>
      /\ Machine.m.cex_pos = Machine.m.fresh
  BY MachineIs, NothingDone DEF SameDuty
<1>3. Sound(Machine, -1)
  BY <1>2, MachineSound, EditSound
<1>4. Machine.did = Nothing /\ EventsKept(pca, Machine.c)
  BY MachineIs DEF EventsKept
<1> QED
  BY <1>1, <1>3, <1>4, MoveQuiet, QuietIsGood

(* The matches in a tick, as the property counts them.                      *)
LEMMA ReachedIs ==
  ASSUME NEW s, s.c.cl = pca.cl, s.c.ch = pca.ch, s.m = module, NEW n \in Nat
  PROVE  ReachedBy(s, n) = Reached(Target(module), n)
<1>1. Value(s.c) = Value(pca)
  BY DEF Value, Number
<1>2. \A k \in 1..n : k \in {i \in Nat : MatchesAt(s, i)} <=> (Value(pca) + k) % Values = Target(module)
  BY <1>1 DEF MatchesAt
<1>3. {k \in 1..n : k \in {i \in Nat : MatchesAt(s, i)}}
        = {k \in 1..n : (Value(pca) + k) % Values = Target(module)}
  BY <1>2
<1> QED
  BY <1>3 DEF ReachedBy, Among, Reached

(* A tick that counts.                                                      *)
LEMMA CountingKeeps ==
  ASSUME PcaInv, PcaTick, pca.bit_CR
  PROVE  GoodStep
<1>1. PICK s : /\ Ready \in Machines /\ Ready.c = Take(pca) /\ Ready.m = module
               /\ Ready.out = p1.cex /\ Ready.did = Nothing
               /\ Taken(pca, Take(pca), Due(pca))
               /\ Duty(Ready)
               /\ AfterCounts(Ready, Due(pca), s) /\ Move(s, Since(s.did))
  BY TickIs
<1> DEFINE d == Take(pca)
           n == Due(pca)
           m == Since(s.did)
<1>2. /\ d \in Counter /\ d.cl = pca.cl /\ d.ch = pca.ch /\ d.cps = pca.cps /\ n \in Nat
      /\ pca.cps \in {Timer0Source, EciSource} => Waiting(pca) = n /\ Waiting(d) = 0
  BY <1>1 DEF Taken
<1>3. Taken(pca, d, n) /\ d = Take(pca) /\ Ready.c = d /\ m = Since(s.did) /\ Move(s, m)
      /\ AfterCounts(Ready, n, s)
  BY <1>1
<1> HIDE DEF d, n, m
<1>4. /\ s \in Machines /\ ClockKept(d, s.c) /\ SetupOfModuleKept(Ready, s)
      /\ s.did.overflows = 0 /\ s.did.counts = n
      /\ Value(s.c) \in 0..(Values - 1)
      /\ Value(s.c) + Values * s.did.wraps = Value(d) + n
      /\ TogglesAfter(Ready, n, s)
      /\ CapturesAfter(Ready, s)
      /\ Duty(s)
  BY <1>1, <1>3 DEF AfterCounts, Nothing
<1>5. s.did \in Dids /\ s.did.wraps \in Nat /\ s.did.captures \in Nat
  BY <1>4 DEF Machines, Dids
<1>6. /\ m \in Nat \cup {-1} /\ Measured(s.c, m)
      /\ pca_since # -1 /\ s.did.wraps > 0 => pca_since + 1 = Values * Divisor[pca.cps]
  BY <1>3, <1>4, <1>5, TickMeasures
<1>7. s.m.cex_pos = s.m.fresh
  BY <1>1, <1>4, MachineIs DEF CapturesAfter
<1>8. Sound(s, m)
  BY <1>4, <1>6, <1>7 DEF Sound
<1>9. PcaInv'
  BY <1>3, <1>8, MoveKeeps
<1>10. /\ pca' = s.c /\ module' = s.m /\ p1' = [p1 EXCEPT !.cex = s.out] /\ pca_did' = s.did
  BY <1>3 DEF Move
<1>11. p1'.cex = s.out /\ Level(p1, "eci")' = Level(p1, "eci")
  BY <1>10, MachineIs DEF Port1, Level
<1>12. Value(d) = Value(pca)
  BY <1>2 DEF Value, Number
<1>13. Accounted
  <2> SUFFICES ASSUME pca.cps \in {Timer0Source, EciSource}
               PROVE  Value(pca') + Values * pca_did'.wraps + Waiting(pca')
                        = Value(pca) + Waiting(pca) + Brought
    BY DEF Accounted
  <2>1. Brought = 0
    BY <1>4, <1>10, <1>11 DEF Brought, Level
  <2>2. Waiting(pca) = n /\ Waiting(pca') = 0
    BY <1>2, <1>4, <1>10 DEF Waiting, ClockKept
  <2>3. Value(pca) \in Nat /\ Value(s.c) \in Nat
    BY <1>4, MachineIs, ValueType, ValuesType
  <2> DEFINE x == Values * s.did.wraps
  <2>4. x \in Nat /\ Value(s.c) + x = Value(pca) + n
    BY <1>4, <1>5, <1>12, ValuesType
  <2>5. Value(pca') + Values * pca_did'.wraps = Value(s.c) + x
    BY <1>10
  <2> HIDE DEF x
  <2>6. n \in Nat
    BY <1>2
  <2> QED
    BY <2>1, <2>2, <2>3, <2>4, <2>5, <2>6
<1>14. PeriodKept
  BY <1>6, <1>10 DEF PeriodKept
<1>15. TogglesKept
  <2> SUFFICES ASSUME module.ccapm = {"ECOM", "MAT", "TOG"}, Target(module) # 0
               PROVE  /\ s.did.toggles = Reached(Target(module), s.did.counts)
                      /\ s.out = (IF s.did.toggles % 2 = 0 THEN p1.cex ELSE ~p1.cex)
                      /\ s.did.toggles > 0 => s.m.CCF
    BY <1>10, <1>11 DEF TogglesKept, Target
  <2>1. Toggles(Ready)
    BY <1>1 DEF Toggles
  <2>2. /\ s.did.toggles = ReachedBy(Ready, n)
        /\ s.out = (IF s.did.toggles % 2 = 0 THEN p1.cex ELSE ~p1.cex)
        /\ s.did.toggles > 0 => s.m.CCF
    BY <1>1, <1>4, <2>1 DEF TogglesAfter
  <2>3. ReachedBy(Ready, n) = Reached(Target(module), n)
    BY <1>1, <1>2, <1>3, ReachedIs
  <2> QED
    BY <1>4, <2>2, <2>3
<1>16. RisesKept
  BY <1>1, <1>4, <1>5, <1>10, MachineIs DEF RisesKept, CapturesAfter
<1> QED
  BY <1>9, <1>13, <1>14, <1>15, <1>16 DEF GoodStep

(* Every step is good.                                                      *)
LEMMA StepIsGood ==
  ASSUME PcaInv, PcaNext
  PROVE  GoodStep
<1>1. CASE PcaTick
  BY <1>1, StoppedKeeps, CountingKeeps
<1>2. CASE PcaReset
  BY <1>2, ResetKeeps, QuietIsGood
<1>3. CASE Timer0Overflow
  BY <1>3, OverflowKeeps, QuietIsGood
<1>4. CASE WriteP1
  BY <1>4, P1Keeps, QuietIsGood
<1>5. CASE SetPin
  BY <1>5, PinKeeps, QuietIsGood
<1>6. CASE WriteCMOD
  BY <1>6, CMODKeeps, QuietIsGood
<1>7. CASE WriteCCON
  BY <1>7, CCONKeeps, QuietIsGood
<1>8. CASE WriteBitCR
  BY <1>8, BitCRKeeps, QuietIsGood
<1>9. CASE ClearBitCCF
  BY <1>9, BitCCFKeeps, QuietIsGood
<1>10. CASE WriteCCAPM
  BY <1>10, CCAPMKeeps, QuietIsGood
<1>11. CASE WriteCCAPL
  BY <1>11, CCAPLKeeps, QuietIsGood
<1>12. CASE WriteCCAPH
  BY <1>12, CCAPHKeeps, QuietIsGood
<1>13. CASE WritePWM
  BY <1>13, PWMKeeps, QuietIsGood
<1> QED
  BY <1>1, <1>2, <1>3, <1>4, <1>5, <1>6, <1>7, <1>8, <1>9, <1>10, <1>11, <1>12, <1>13 DEF PcaNext

(* A period that is measured is not over its length.                        *)
LEMMA NotLate ==
  ASSUME NEW c \in Counter, NEW n \in Nat \cup {-1}, Measured(c, n)
  PROVE  n # -1 => n < Values * Divisor[c.cps]
<1> SUFFICES ASSUME n # -1 PROVE n < Values * Divisor[c.cps]
  OBVIOUS
<1> DEFINE D == Divisor[c.cps]
           v == Value(c)
<1>1. D \in Nat \ {0} /\ v \in 0..(Values - 1) /\ Values \in Nat
  BY ValueType, ValuesType, PcaAssumption DEF Measured, Divides
<1>2. CASE c.cps = 4
  <2>1. n = v /\ D = 1
    BY <1>2, PcaAssumption DEF Measured
  <2> QED
    BY <1>1, <2>1
<1>3. CASE c.cps # 4
  <2>1. c.prescaler < D /\ n = D * v + c.prescaler /\ c.prescaler \in Int
    BY <1>3, PcaAssumption DEF Measured, Counter
  <2> HIDE DEF D, v
  <2>2. PICK e \in Nat : Values = v + 1 + e
    <3>1. Values - v - 1 \in Nat /\ Values = v + 1 + (Values - v - 1)
      BY <1>1
    <3> QED
      BY <3>1
  <2>3. Values * D = D * v + D + D * e /\ D * e \in Nat /\ D * v \in Nat
    BY <1>1, <2>2
  <2>4. n < Values * D
    BY <1>1, <2>1, <2>3
  <2> QED
    BY <2>4 DEF D
<1> QED
  BY <1>2, <1>3

(* ... nor after the step.                                                  *)
LEMMA StaysNotLate ==
  ASSUME PcaInv'
  PROVE  PcaNotLate'
<1>1. pca' \in Counter /\ pca_since' \in Nat \cup {-1} /\ Measured(pca', pca_since')
  BY DEF PcaInv, Sound, Whole, Machines
<1> QED
  BY <1>1, NotLate DEF PcaNotLate

(* The invariant is inductive.                                              *)
LEMMA PcaInvAlways == PcaSpec => []PcaInv
<1>1. PcaInv /\ [PcaNext]_pca_vars => PcaInv'
  <2>1. PcaInv /\ PcaNext => PcaInv'
    BY StepIsGood DEF GoodStep
  <2>2. PcaInv /\ UNCHANGED pca_vars => PcaInv'
    BY DEF pca_vars, PcaInv, Whole
  <2> QED
    BY <2>1, <2>2
<1> QED
  BY <1>1, PcaStarts, PTL DEF PcaSpec

(* Every variable of the array stays in its range: CL and CH wrap as        *)
(* bytes, and no more events wait than the bound lets come.                 *)
THEOREM PcaTypeCorrect == PcaSpec => []PcaTypeOK
<1>1. PcaInv => PcaTypeOK
  BY PcaInvTyped
<1> QED
  BY <1>1, PcaInvAlways, PTL

(* In every whole PWM period the output of the module is high for           *)
(* exactly the counts at and above the nine-bit compare value, for bytes    *)
(* of any size.                                                             *)
THEOREM DutyIsAsSet == PcaSpec => []PwmDuty
<1>1. PcaInv => PwmDuty
  BY PcaInvTyped
<1> QED
  BY <1>1, PcaInvAlways, PTL

(* Every overflow of Timer 0 and every falling edge of ECI from outside     *)
(* moves CH:CL by one and every one that a write of P1 makes by two,        *)
(* however many wait when the array is ticked and however they are carried  *)
(* from CL into CH.                                                         *)
THEOREM EveryEventCounts == PcaSpec => EventsCountOnce
<1>1. PcaInv /\ [PcaNext]_pca_vars => [Accounted]_pca_vars
  BY StepIsGood DEF GoodStep
<1> QED
  BY <1>1, PcaInvAlways, PTL DEF PcaSpec, EventsCountOnce, Accounted

(* Left alone, the counter wraps in exactly its number of values times      *)
(* the divisor of the source that CMOD selects, for any divisors.           *)
THEOREM WrapsInPeriod == PcaSpec => PcaPeriod
<1>1. PcaInv /\ [PcaNext]_pca_vars => [PeriodKept /\ PcaNotLate']_pca_vars
  <2>1. PcaInv /\ PcaNext => PeriodKept /\ PcaNotLate'
    BY StepIsGood, StaysNotLate DEF GoodStep
  <2> QED
    BY <2>1
<1> QED
  BY <1>1, PcaInvAlways, PTL DEF PcaSpec, PcaPeriod, PeriodKept

(* A module that toggles its pin does so exactly as often as CH:CL          *)
(* reaches its compare value in a tick, however many counts that is.        *)
THEOREM TogglesAtMatches == PcaSpec => MatchTogglesOnce
<1>1. PcaInv /\ [PcaNext]_pca_vars => [TogglesKept]_pca_vars
  BY StepIsGood DEF GoodStep
<1> QED
  BY <1>1, PcaInvAlways, PTL DEF PcaSpec, MatchTogglesOnce, TogglesKept

(* A module that captures rising edges captures, at a wrap of CH:CL,        *)
(* exactly when its line has risen since the last capture, and once.        *)
THEOREM CapturesAtWraps == PcaSpec => RiseCapturedOnce
<1>1. PcaInv /\ [PcaNext]_pca_vars => [RisesKept]_pca_vars
  BY StepIsGood DEF GoodStep
<1> QED
  BY <1>1, PcaInvAlways, PTL DEF PcaSpec, RiseCapturedOnce, RisesKept

-----------------------------------------------------------------------------
(* The watchdog.                                                            *)

(* A count costs two cycles at least.                                       *)
LEMMA TwiceAtMost ==
  ASSUME NEW b \in Nat \ {0, 1}, NEW q \in Nat
  PROVE  2 * q <= b * q
<1>1. (b - 2) * q \in Nat
  OBVIOUS
<1>2. b * q = 2 * q + (b - 2) * q
  OBVIOUS
<1> QED
  BY <1>1, <1>2

(* One cycle at one divisor: what the tick does to counter and prescaler.    *)
LEMMA OneWdtCycle ==
  ASSUME NEW c \in Nat, NEW p \in Nat, NEW s \in Nat \ {0, 1}
  PROVE  /\ (p + 1) \div s \in Nat /\ (p + 1) % s \in 0..(s - 1)
         /\ 2 * (c + (p + 1) \div s) + ((p + 1) % s) <= 2 * c + p + 1
         /\ p < s => \/ p + 1 < s /\ (p + 1) \div s = 0 /\ (p + 1) % s = p + 1
                     \/ p + 1 = s /\ (p + 1) \div s = 1 /\ (p + 1) % s = 0
<1> DEFINE q == (p + 1) \div s  r == (p + 1) % s
<1>1. q \in Nat /\ r \in 0..(s - 1) /\ p + 1 = s * q + r
  <2>1. p + 1 \in Nat /\ s \in Nat \ {0}
    OBVIOUS
  <2> QED
    BY <2>1, DivMod
<1>2. 2 * q <= s * q
  BY <1>1, TwiceAtMost
<1>3. 2 * q + r <= p + 1
  BY <1>1, <1>2
<1>4. ASSUME p < s
      PROVE  \/ p + 1 < s /\ q = 0 /\ r = p + 1
             \/ p + 1 = s /\ q = 1 /\ r = 0
  <2>1. CASE p + 1 < s
    BY <2>1
  <2>2. CASE p + 1 = s
    BY <2>2
  <2> QED
    BY <1>4, <2>1, <2>2
<1> QED
  BY <1>1, <1>3, <1>4

-----------------------------------------------------------------------------
(* The inductive invariant: what has been counted since the last CLR_WDT     *)
(* pays for both counters, two cycles a count, and while PS stays the two    *)
(* counters hold exactly the cycles since they were 0.                       *)
WdtPaid ==
  /\ wdt_fed < Soonest => 2 * wdt.counter + wdt.prescaler_cnt <= wdt_fed
  /\ FedNeverBites

WdtExact ==
  wdt_since # -1 =>
    /\ wdt.prescaler_cnt < Scale[WDT_CONTR.PS]
    /\ wdt_since = wdt.counter * Scale[WDT_CONTR.PS] + wdt.prescaler_cnt

WdtInv == WdtTypeOK /\ WdtPaid /\ WdtExact

(* Every divisor is at least two.                                           *)
LEMMA WdtScaleType == ASSUME WdtTypeOK PROVE Scale[WDT_CONTR.PS] \in Nat \ {0, 1}
  BY WdtAssumption DEF WdtTypeOK, Watchdog

(* The initial state.                                                       *)
LEMMA WdtInitInv == WdtInit => WdtInv
<1> SUFFICES ASSUME WdtInit PROVE WdtInv
  OBVIOUS
<1>1. Soonest \in Nat /\ WdtTop \in Nat \ {0} /\ 0 \in DOMAIN Scale
  BY WdtAssumption DEF Soonest
<1>2. WdtTypeOK
  <2>1. WDT_CONTR \in Watchdog
    BY <1>1 DEF WdtInit, Watchdog
  <2>2. wdt \in [prescaler_cnt : Nat, counter : 0..(WdtTop - 1)]
    BY <1>1 DEF WdtInit
  <2>3. wdt_fed \in 0..Soonest /\ wdt_since \in Nat \cup {-1}
    BY <1>1 DEF WdtInit
  <2>4. wdt_bites \in BOOLEAN
    BY DEF WdtInit
  <2> QED
    BY <2>1, <2>2, <2>3, <2>4 DEF WdtTypeOK
<1>3. Scale[WDT_CONTR.PS] \in Nat \ {0, 1}
  BY <1>2, WdtScaleType
<1>4. WdtPaid /\ WdtExact
  BY <1>1, <1>3 DEF WdtInit, WdtPaid, WdtExact, FedNeverBites
<1> QED
  BY <1>2, <1>4 DEF WdtInv

(* A write of WDT_CONTR.                                                    *)
LEMMA WdtWriteInv == WdtInv /\ WriteWDT_CONTR => WdtInv'
<1> SUFFICES ASSUME WdtInv, WriteWDT_CONTR PROVE WdtInv'
  OBVIOUS
<1>1. PICK v \in Watchdog, clr \in BOOLEAN :
        /\ WDT_CONTR' = v
        /\ wdt' = Cleared(clr)
        /\ wdt_fed' = IF clr THEN 0 ELSE wdt_fed
        /\ wdt_since' = IF clr THEN 0 ELSE IF v.PS # WDT_CONTR.PS THEN -1 ELSE wdt_since
        /\ wdt_bites' = FALSE
  BY DEF WriteWDT_CONTR
<1>2. Soonest \in Nat /\ WdtTop \in Nat \ {0}
  BY WdtAssumption DEF Soonest
<1>3. wdt' \in [prescaler_cnt : Nat, counter : 0..(WdtTop - 1)]
  BY <1>1, <1>2 DEF WdtInv, WdtTypeOK, Cleared
<1>4. WdtTypeOK'
  <2>1. wdt_fed' \in 0..Soonest /\ wdt_since' \in Nat \cup {-1}
    BY <1>1, <1>2 DEF WdtInv, WdtTypeOK
  <2>2. WDT_CONTR' \in Watchdog /\ wdt_bites' \in BOOLEAN
    BY <1>1
  <2> QED
    BY <1>3, <2>1, <2>2 DEF WdtTypeOK
<1>5. Scale[v.PS] \in Nat \ {0, 1}
  BY <1>1, WdtAssumption DEF Watchdog
<1>6. CASE clr
  BY <1>1, <1>2, <1>4, <1>5, <1>6 DEF WdtInv, WdtPaid, WdtExact, FedNeverBites, Cleared
<1>7. CASE ~clr
  BY <1>1, <1>2, <1>4, <1>5, <1>7 DEF WdtInv, WdtPaid, WdtExact, FedNeverBites, Cleared
<1> QED
  BY <1>6, <1>7

-----------------------------------------------------------------------------
(* The cycles while EN_WDT is set, and what an overflow means.               *)
LEMMA OverflowIsExact ==
  ASSUME WdtInv, WDT_CONTR.EN_WDT, WdtTick, Overflows, wdt_since # -1
  PROVE  /\ wdt_since + 1 = WdtTop * Scale[WDT_CONTR.PS]
         /\ wdt' = Cleared(TRUE)
<1> DEFINE s == Scale[WDT_CONTR.PS]  c == wdt.counter  p == wdt.prescaler_cnt
<1>1. s \in Nat \ {0, 1} /\ WdtTop \in Nat \ {0} /\ c \in 0..(WdtTop - 1) /\ p \in Nat
  BY WdtScaleType, WdtAssumption DEF WdtInv, WdtTypeOK
<1>2. p < s /\ wdt_since = c * s + p
  BY DEF WdtInv, WdtExact
<1>3. c + (p + 1) \div s >= WdtTop
  BY DEF Overflows, Counts
<1>4. \/ p + 1 < s /\ (p + 1) \div s = 0
      \/ p + 1 = s /\ (p + 1) \div s = 1 /\ (p + 1) % s = 0
  BY <1>1, <1>2, OneWdtCycle
<1>5. p + 1 = s /\ (p + 1) \div s = 1 /\ (p + 1) % s = 0 /\ c = WdtTop - 1
  BY <1>1, <1>3, <1>4
<1>6. wdt_since + 1 = (WdtTop - 1) * s + s
  BY <1>1, <1>2, <1>5
<1>7. (WdtTop - 1) * s + s = WdtTop * s
  BY <1>1
<1>8. (c + (p + 1) \div s) % WdtTop = 0
  <2>1. c + (p + 1) \div s = WdtTop
    BY <1>1, <1>5
  <2> QED
    BY <2>1, <1>1
<1>9. wdt' = [prescaler_cnt |-> 0, counter |-> 0]
  BY <1>5, <1>8 DEF WdtTick, Ticked, Counts
<1> QED
  BY <1>6, <1>7, <1>9 DEF Cleared

(* A tick.                                                                  *)
LEMMA WdtTickInv == WdtInv /\ WdtTick => WdtInv'
<1> SUFFICES ASSUME WdtInv, WdtTick PROVE WdtInv'
  OBVIOUS
<1>1. CASE ~WDT_CONTR.EN_WDT
  BY <1>1 DEF WdtTick, WdtInv, WdtTypeOK, WdtPaid, WdtExact, FedNeverBites
<1>2. CASE WDT_CONTR.EN_WDT
  <2> DEFINE s == Scale[WDT_CONTR.PS]  c == wdt.counter  p == wdt.prescaler_cnt
             q == (p + 1) \div s  r == (p + 1) % s
  <2>1. /\ s \in Nat \ {0, 1} /\ WdtTop \in Nat \ {0} /\ Soonest \in Nat
        /\ c \in 0..(WdtTop - 1) /\ p \in Nat
    BY WdtScaleType, WdtAssumption DEF WdtInv, WdtTypeOK, Soonest
  <2>2. /\ wdt' = [prescaler_cnt |-> r, counter |-> (c + q) % WdtTop]
        /\ wdt_fed' = IF wdt_fed < Soonest THEN wdt_fed + 1 ELSE wdt_fed
        /\ wdt_since' = IF Overflows THEN IF Ticked = Cleared(TRUE) THEN 0 ELSE -1
                        ELSE IF wdt_since = -1 THEN -1 ELSE wdt_since + 1
        /\ wdt_bites' = Overflows
        /\ wdt' = Ticked
    BY <1>2 DEF WdtTick, Ticked, Counts
  <2>3. /\ q \in Nat /\ r \in 0..(s - 1) /\ 2 * (c + q) + r <= 2 * c + p + 1
        /\ p < s => \/ p + 1 < s /\ q = 0 /\ r = p + 1
                    \/ p + 1 = s /\ q = 1 /\ r = 0
    <3>1. c \in Nat /\ p \in Nat /\ s \in Nat \ {0, 1}
      BY <2>1
    <3> HIDE DEF c, p, s
    <3> QED
      BY <3>1, OneWdtCycle, Zenon
  <2>4. Overflows <=> c + q >= WdtTop
    BY DEF Overflows, Counts
  <2> HIDE DEF q, r
  <2>5. (c + q) % WdtTop \in 0..(WdtTop - 1) /\ (c + q < WdtTop => (c + q) % WdtTop = c + q)
    <3>1. c + q \in Nat /\ WdtTop \in Nat \ {0}
      BY <2>1, <2>3
    <3>2. (c + q) % WdtTop \in 0..(WdtTop - 1)
      BY <3>1, DivMod, Zenon
    <3>3. c + q < WdtTop => (c + q) % WdtTop = c + q
      BY <3>1
    <3> QED
      BY <3>2, <3>3
  <2>6. Overflows \in BOOLEAN
    BY DEF Overflows
  <2>7. WdtTypeOK'
    <3>1. WDT_CONTR' \in Watchdog
      <4>1. /\ WDT_CONTR' = [WDT_CONTR EXCEPT !.WDT_FLAG = @ \/ Overflows]
            /\ (WDT_CONTR.WDT_FLAG \/ Overflows) \in BOOLEAN
            /\ WDT_CONTR \in Watchdog
        BY <1>2 DEF WdtTick, WdtInv, WdtTypeOK
      <4> QED
        BY <4>1, Zenon DEF Watchdog
    <3>2. wdt_fed' \in 0..Soonest /\ wdt_since' \in Nat \cup {-1}
      BY <2>1, <2>2 DEF WdtInv, WdtTypeOK
    <3>3. wdt' \in [prescaler_cnt : Nat, counter : 0..(WdtTop - 1)]
      BY <2>1, <2>2, <2>3, <2>5
    <3> QED
      BY <3>1, <3>2, <3>3, <2>2, <2>6 DEF WdtTypeOK
  <2>8. WdtPaid'
    <3>1. wdt_fed \in 0..Soonest /\ (wdt_fed < Soonest => 2 * c + p <= wdt_fed)
      BY DEF WdtInv, WdtTypeOK, WdtPaid
    <3>2. CASE Overflows
      <4>1. wdt_fed' = Soonest
        BY <3>1, <3>2, <2>1, <2>2, <2>3, <2>4 DEF Soonest
      <4> QED
        BY <4>1, <2>1 DEF WdtPaid, FedNeverBites
    <3>3. CASE ~Overflows
      <4>1. (c + q) % WdtTop = c + q
        BY <3>3, <2>1, <2>3, <2>4, <2>5
      <4>2. wdt'.counter = c + q /\ wdt'.prescaler_cnt = r
        BY <4>1, <2>2
      <4>3. wdt_fed' < Soonest => 2 * (c + q) + r <= wdt_fed'
        BY <3>1, <2>1, <2>2, <2>3
      <4> QED
        BY <4>2, <4>3, <3>3, <2>2 DEF WdtPaid, FedNeverBites
    <3> QED
      BY <3>2, <3>3
  <2>9. WdtExact'
    <3>1. WDT_CONTR'.PS = WDT_CONTR.PS
      <4>1. /\ WDT_CONTR' = [WDT_CONTR EXCEPT !.WDT_FLAG = @ \/ Overflows]
            /\ WDT_CONTR \in Watchdog
        BY <1>2 DEF WdtTick, WdtInv, WdtTypeOK
      <4> QED
        BY <4>1, Zenon DEF Watchdog
    <3>2. CASE Overflows
      <4>1. wdt_since' # -1 => wdt'.counter = 0 /\ wdt'.prescaler_cnt = 0 /\ wdt_since' = 0
        BY <3>2, <2>2 DEF Cleared
      <4> QED
        BY <4>1, <3>1, <2>1 DEF WdtExact
    <3>3. CASE ~Overflows /\ wdt_since # -1
      <4>1. p < s /\ wdt_since = c * s + p
        BY <3>3 DEF WdtInv, WdtExact
      <4>2. wdt'.counter = c + q /\ wdt'.prescaler_cnt = r /\ wdt_since' = wdt_since + 1
        BY <3>3, <2>1, <2>2, <2>3, <2>4, <2>5
      <4>3. CASE p + 1 < s /\ q = 0 /\ r = p + 1
        BY <4>1, <4>2, <4>3, <3>1, <2>1 DEF WdtExact
      <4>4. CASE p + 1 = s /\ q = 1 /\ r = 0
        <5>1. (c + 1) * s = c * s + s
          BY <2>1
        <5>2. c * s \in Nat
          BY <2>1
        <5>3. wdt_since' = (c + 1) * s /\ wdt'.counter = c + 1 /\ wdt'.prescaler_cnt = 0
          BY <5>1, <5>2, <4>1, <4>2, <4>4, <2>1
        <5>4. (c + 1) * s + 0 = (c + 1) * s /\ 0 < s
          BY <5>1, <5>2, <2>1
        <5>5. Scale[WDT_CONTR'.PS] = s
          BY <3>1
        <5> HIDE DEF s, c
        <5> QED
          BY <5>3, <5>4, <5>5 DEF WdtExact
      <4> QED
        BY <4>1, <4>3, <4>4, <2>3
    <3>4. CASE ~Overflows /\ wdt_since = -1
      BY <3>4, <2>2 DEF WdtExact
    <3> QED
      BY <3>2, <3>3, <3>4
  <2> QED
    BY <2>7, <2>8, <2>9 DEF WdtInv
<1> QED
  BY <1>1, <1>2

(* A reset.                                                                 *)
LEMMA WdtResetInv == WdtInv /\ WdtReset => WdtInv'
<1> SUFFICES ASSUME WdtInv, WdtReset PROVE WdtInv'
  OBVIOUS
<1>1. 0 \in DOMAIN Scale
  BY WdtAssumption
<1>2. WdtTypeOK'
  BY <1>1 DEF WdtInv, WdtTypeOK, WdtReset, Watchdog
<1>3. WdtPaid'
  BY DEF WdtInv, WdtPaid, WdtReset, FedNeverBites
<1>4. wdt_since' # -1 => WDT_CONTR.PS = 0 /\ WDT_CONTR'.PS = 0 /\ wdt_since' = wdt_since
  BY DEF WdtReset
<1>5. WdtExact'
  BY <1>4 DEF WdtInv, WdtExact, WdtReset
<1> QED
  BY <1>2, <1>3, <1>5 DEF WdtInv

(* Every step.                                                              *)
LEMMA WdtStepInv == WdtInv /\ [WdtNext]_wdt_vars => WdtInv'
<1> SUFFICES ASSUME WdtInv, [WdtNext]_wdt_vars PROVE WdtInv'
  OBVIOUS
<1>1. CASE WriteWDT_CONTR
  BY <1>1, WdtWriteInv
<1>2. CASE WdtTick
  BY <1>2, WdtTickInv
<1>3. CASE WdtReset
  BY <1>3, WdtResetInv
<1>4. CASE UNCHANGED wdt_vars
  BY <1>4 DEF WdtInv, WdtTypeOK, WdtPaid, WdtExact, FedNeverBites, wdt_vars
<1> QED
  BY <1>1, <1>2, <1>3, <1>4 DEF WdtNext

(* The watchdog's invariant is inductive.                                   *)
LEMMA WdtInvAlways == WdtSpec => []WdtInv
  BY WdtInitInv, WdtStepInv, PTL DEF WdtSpec

-----------------------------------------------------------------------------
(* Every variable of the watchdog stays in its range.                        *)
THEOREM WdtTypeCorrect == WdtSpec => []WdtTypeOK
<1>1. WdtInv => WdtTypeOK
  BY DEF WdtInv
<1> QED
  BY <1>1, WdtInvAlways, PTL

(* A watchdog that is cleared more often than the shortest period never      *)
(* sets WDT_FLAG, for counters and divisors of any size.                     *)
THEOREM FedNeverBitesAlways == WdtSpec => []FedNeverBites
<1>1. WdtInv => FedNeverBites
  BY DEF WdtInv, WdtPaid
<1> QED
  BY <1>1, WdtInvAlways, PTL

(* A watchdog that counts has not missed its period.                        *)
LEMMA WdtNotLate == WdtInv => WdtNeverLate
<1> SUFFICES ASSUME WdtInv, wdt_since # -1
             PROVE  wdt_since < WdtTop * Scale[WDT_CONTR.PS]
  BY DEF WdtNeverLate
<1> DEFINE s == Scale[WDT_CONTR.PS]  c == wdt.counter  p == wdt.prescaler_cnt
<1>1. s \in Nat \ {0, 1} /\ WdtTop \in Nat \ {0} /\ c \in 0..(WdtTop - 1) /\ p \in Nat
  BY WdtScaleType, WdtAssumption DEF WdtInv, WdtTypeOK
<1>2. p < s /\ wdt_since = c * s + p
  BY DEF WdtInv, WdtExact
<1>3. (WdtTop - (c + 1)) * s \in Nat
  BY <1>1
<1>4. WdtTop * s = (c + 1) * s + (WdtTop - (c + 1)) * s
  BY <1>1
<1>5. (c + 1) * s = c * s + s
  BY <1>1
<1> QED
  BY <1>1, <1>2, <1>3, <1>4, <1>5

(* With PS left alone the watchdog overflows in exactly its period.          *)
THEOREM PeriodIsExact == WdtSpec => WdtPeriod
<1>1. ASSUME WdtInv, WdtNext, wdt_since # -1, wdt_bites'
      PROVE  wdt_since + 1 = WdtTop * Scale[WDT_CONTR.PS]
  <2>1. WdtTick /\ WDT_CONTR.EN_WDT /\ Overflows
    BY <1>1 DEF WdtNext, WriteWDT_CONTR, WdtTick, WdtReset
  <2> QED
    BY <1>1, <2>1, OverflowIsExact
<1>2. WdtSpec => []WdtNeverLate
  BY WdtNotLate, WdtInvAlways, PTL
<1>3. WdtInv /\ WdtNeverLate' /\ [WdtNext]_wdt_vars =>
        [/\ wdt_since # -1 /\ wdt_bites' => wdt_since + 1 = WdtTop * Scale[WDT_CONTR.PS]
         /\ WdtNeverLate']_wdt_vars
  BY <1>1
<1> QED
  BY <1>2, <1>3, WdtInvAlways, PTL DEF WdtSpec, WdtPeriod

-----------------------------------------------------------------------------
(* The converter.                                                           *)

(* The alignments: ten bits put into two registers and read back.            *)

(* Ten bits in two registers, with the upper two alone in the first ...     *)
LEMMA RightAligned ==
  ASSUME NEW v \in 0..1023
  PROVE  /\ (v \div 256) % 4 \in Bytes /\ v % 256 \in Bytes
         /\ ((v \div 256) % 4) * 256 + (v % 256) = v
<1>1. v \div 256 \in 0..3 /\ v % 256 \in 0..255 /\ v = 256 * (v \div 256) + (v % 256)
  OBVIOUS
<1>2. (v \div 256) % 4 = v \div 256
  BY <1>1
<1> QED
  BY <1>1, <1>2 DEF Bytes

(* ... and with the lower two alone in the second.                          *)
LEMMA LeftAligned ==
  ASSUME NEW v \in 0..1023
  PROVE  /\ (v \div 4) % 256 \in Bytes /\ v % 4 \in Bytes
         /\ ((v \div 4) % 256) * 4 + (v % 4) = v
<1>1. v \div 4 \in 0..255 /\ v % 4 \in 0..3 /\ v = 4 * (v \div 4) + (v % 4)
  OBVIOUS
<1>2. (v \div 4) % 256 = v \div 4
  BY <1>1
<1> QED
  BY <1>1, <1>2 DEF Bytes

-----------------------------------------------------------------------------
(* The inductive invariant is the conjunction of the three that the runs     *)
(* check: the time and channel of a conversion are tied to the START taken   *)
(* last, which the types of Delay and of the history make positive.          *)
AdcInv == AdcTypeOK /\ ConvertsLastStart /\ StartIsAnswered

AdcState ==
  [part : AdcParts, conversion_delay : Nat, adc_channel : Channels,
   adc_powered : BOOLEAN, adc_input : [Channels -> 0..1023]]

Registers ==
  [RES : Bytes, RESL : Bytes, P1ASF : SUBSET Channels, AUXR1 : BOOLEAN, CLK_DIV : BOOLEAN]

(* Every speed takes its time.                                              *)
LEMMA DelayType == ASSUME NEW s \in Speeds PROVE Delay[s] \in Nat \ {0}
  BY AdcAssumption DEF Speeds

(* The two updates of the converter's own state.                             *)
LEMMA Powered ==
  ASSUME NEW a \in AdcState, NEW b \in BOOLEAN
  PROVE  [a EXCEPT !.adc_powered = b] \in AdcState
  BY DEF AdcState

(* A write of ADC_CONTR that starts a conversion or stops it.               *)
LEMMA Restarted ==
  ASSUME NEW a \in AdcState, NEW b \in BOOLEAN, NEW c \in Channels, NEW d \in Nat
  PROVE  [a EXCEPT !.adc_powered = b, !.adc_channel = c, !.conversion_delay = d] \in AdcState
<1>1. PICK I : I = [Channels -> 0..1023]
  OBVIOUS
<1>2. a \in [part : AdcParts, conversion_delay : Nat, adc_channel : Channels,
             adc_powered : BOOLEAN, adc_input : I]
  BY <1>1 DEF AdcState
<1>3. [a EXCEPT !.adc_powered = b, !.adc_channel = c, !.conversion_delay = d] \in
        [part : AdcParts, conversion_delay : Nat, adc_channel : Channels,
         adc_powered : BOOLEAN, adc_input : I]
  BY <1>2
<1> QED
  BY <1>1, <1>3, SMTT(60) DEF AdcState

(* What a channel may be given fits ten bits.                               *)
LEMMA InputsFit == Analog \subseteq 0..1023
<1> SUFFICES ASSUME NEW v \in Inputs PROVE Clamped(v) \in 0..1023
  BY DEF Analog
<1>1. v \in Nat
  BY AdcAssumption
<1> QED
  BY <1>1 DEF Clamped

(* So does what is converted, ...                                           *)
LEMMA ConvertedType == ASSUME AdcTypeOK PROVE Converted \in 0..1023
<1>1. adc \in AdcState
  BY DEF AdcTypeOK, AdcState
<1>2. adc.adc_channel \in Channels /\ adc.adc_input \in [Channels -> 0..1023]
  BY <1>1 DEF AdcState
<1> DEFINE v == adc.adc_input[adc.adc_channel]
<1>3. v \in 0..1023
  <2>1. PICK I : I = 0..1023
    OBVIOUS
  <2>2. adc.adc_input \in [Channels -> I]
    BY <1>2, <2>1
  <2>3. v \in I
    BY <1>2, <2>2
  <2> QED
    BY <2>1, <2>3
<1>4. Converted = v \/ Converted = 0
  BY Zenon DEF Converted
<1> HIDE DEF v
<1>5. 0 \in 0..1023
  OBVIOUS
<1> QED
  BY <1>3, <1>4, <1>5

(* ... and the registers hold it ...                                        *)
LEMMA AlignedType ==
  ASSUME NEW v \in 0..1023
  PROVE  Aligned(v).RES \in Bytes /\ Aligned(v).RESL \in Bytes
  BY RightAligned, LeftAligned, SMTT(60) DEF Aligned

(* ... so that it reads back as it was.                                     *)
LEMMA AlignedReads == ASSUME NEW v \in 0..1023 PROVE Read(Adrj, Aligned(v)) = v
<1>1. CASE Adrj
  BY <1>1, RightAligned DEF Aligned, Read
<1>2. CASE ~Adrj
  BY <1>2, LeftAligned DEF Aligned, Read
<1> QED
  BY <1>1, <1>2

-----------------------------------------------------------------------------
(* The initial state.                                                       *)
LEMMA AdcInitInv == AdcInit => AdcInv
<1> SUFFICES ASSUME AdcInit PROVE AdcInv
  OBVIOUS
<1>1. 0 \in Channels /\ 0 \in Speeds
  BY AdcAssumption
<1>2. adc \in AdcState /\ adc.conversion_delay = 0 /\ adc.adc_powered = FALSE
  <2>1. PICK kind \in AdcParts, input \in [Channels -> Analog] :
          adc = [part |-> kind, conversion_delay |-> 0, adc_channel |-> 0,
                 adc_powered |-> FALSE, adc_input |-> input]
    BY DEF AdcInit
  <2>2. input \in [Channels -> 0..1023]
    <3>1. \A ch \in Channels : input[ch] \in 0..1023
      <4>1. \A ch \in Channels : input[ch] \in Analog
        OBVIOUS
      <4> QED
        BY <4>1, InputsFit, ZenonT(60)
    <3>2. input = [ch \in Channels |-> input[ch]]
      OBVIOUS
    <3> QED
      BY <3>1, <3>2, ZenonT(60)
  <2> QED
    BY <2>1, <2>2, <1>1 DEF AdcState
<1>3. ADC_CONTR \in Control /\ ~ADC_CONTR.START /\ ADC_CONTR.POWER = FALSE
  <2>1. ADC_CONTR = [POWER |-> FALSE, START |-> FALSE, FLAG |-> FALSE, SPEED |-> 0, CHS |-> 0]
    BY DEF AdcInit
  <2> QED
    BY <2>1, <1>1, Zenon DEF Control
<1>4. adc_sfr \in Registers
  BY DEF AdcInit, Registers, Bytes
<1>5. /\ adc_start \in [channel : Channels, speed : Speeds]
      /\ adc_since = -1 /\ adc_since \in Nat \cup {-1}
  BY <1>1 DEF AdcInit
<1>6. adc_done \in BOOLEAN
  BY DEF AdcInit
<1>7. AdcTypeOK
  <2>1. adc.adc_powered = ADC_CONTR.POWER
    BY <1>2, <1>3
  <2> QED
    BY <1>2, <1>3, <1>4, <1>5, <1>6, <2>1, Zenon DEF AdcTypeOK, AdcState, Registers
<1>8. ConvertsLastStart /\ StartIsAnswered
  BY <1>2, <1>3, <1>5 DEF ConvertsLastStart, StartIsAnswered
<1> QED
  BY <1>7, <1>8 DEF AdcInv

(* A write of ADC_CONTR.                                                    *)
LEMMA WriteControlInv == AdcInv /\ WriteADC_CONTR => AdcInv'
<1> SUFFICES ASSUME AdcInv, WriteADC_CONTR PROVE AdcInv'
  OBVIOUS
<1>1. PICK v \in Control :
        /\ ADC_CONTR' = v
        /\ IF Takes(v)
           THEN /\ adc' = Started(v)
                /\ adc_start' = [channel |-> v.CHS, speed |-> v.SPEED]
                /\ adc_since' = 0
           ELSE /\ adc' = [adc EXCEPT !.adc_powered = v.POWER]
                /\ UNCHANGED <<adc_start, adc_since>>
        /\ adc_done' = FALSE
        /\ UNCHANGED adc_sfr
  BY DEF WriteADC_CONTR
<1>2. adc \in AdcState
  BY DEF AdcInv, AdcTypeOK, AdcState
<1>3. v.CHS \in Channels /\ v.SPEED \in Speeds /\ v.POWER \in BOOLEAN
  BY DEF Control
<1>4. Delay[v.SPEED] \in Nat \ {0}
  BY <1>3, DelayType
<1>5. adc_done' \in BOOLEAN
  BY <1>1
<1>6. CASE Takes(v)
  <2>1. /\ adc' \in AdcState
        /\ adc'.adc_powered = v.POWER
        /\ adc'.adc_channel = v.CHS
        /\ adc'.conversion_delay = Delay[v.SPEED]
    <3>1. adc' = [adc EXCEPT !.adc_powered = v.POWER, !.adc_channel = v.CHS,
                             !.conversion_delay = Delay[v.SPEED]]
      BY <1>1, <1>6 DEF Started
    <3>2. Delay[v.SPEED] \in Nat
      BY <1>4
    <3> QED
      <4>1. adc' \in AdcState
        BY <1>2, <1>3, <3>1, <3>2, Restarted, Zenon
      <4>2. adc'.adc_powered = v.POWER /\ adc'.adc_channel = v.CHS
        BY <1>2, <3>1, ZenonT(60) DEF AdcState
      <4>3. adc'.conversion_delay = Delay[v.SPEED]
        BY <1>2, <3>1, ZenonT(60) DEF AdcState
      <4> QED
        BY <4>1, <4>2, <4>3
  <2>2. /\ adc_start' \in [channel : Channels, speed : Speeds]
        /\ adc_start'.channel = v.CHS /\ adc_start'.speed = v.SPEED
        /\ adc_since' = 0
    BY <1>1, <1>3, <1>6
  <2>3. AdcTypeOK'
    BY <1>1, <1>5, <2>1, <2>2 DEF AdcInv, AdcTypeOK, AdcState
  <2>4. ConvertsLastStart' /\ StartIsAnswered'
    BY <1>4, <2>1, <2>2 DEF ConvertsLastStart, StartIsAnswered
  <2> QED
    BY <2>3, <2>4 DEF AdcInv
<1>7. CASE ~Takes(v)
  <2>1. /\ adc' \in AdcState
        /\ adc'.adc_powered = v.POWER
        /\ adc'.adc_channel = adc.adc_channel
        /\ adc'.conversion_delay = adc.conversion_delay
        /\ adc_start' = adc_start /\ adc_since' = adc_since
    BY <1>1, <1>2, <1>3, <1>7 DEF AdcState
  <2>2. AdcTypeOK'
    BY <1>1, <1>5, <2>1 DEF AdcInv, AdcTypeOK, AdcState
  <2>3. ConvertsLastStart'
    BY <2>1 DEF AdcInv, ConvertsLastStart
  <2>4. StartIsAnswered'
    BY <1>1, <1>7 DEF StartIsAnswered, Takes
  <2> QED
    BY <2>2, <2>3, <2>4 DEF AdcInv
<1> QED
  BY <1>6, <1>7

(* A write of the setup.                                                    *)
LEMMA WriteSetupInv == AdcInv /\ WriteSetup => AdcInv'
<1> SUFFICES ASSUME AdcInv, WriteSetup PROVE AdcInv'
  OBVIOUS
<1>1. PICK s \in Setups :
        /\ adc_sfr' = [adc_sfr EXCEPT !.P1ASF = s.P1ASF, !.AUXR1 = s.AUXR1, !.CLK_DIV = s.CLK_DIV]
        /\ adc_done' = FALSE
        /\ UNCHANGED <<adc, ADC_CONTR, adc_start, adc_since>>
  BY DEF WriteSetup
<1>2. s \in [P1ASF : SUBSET Channels, AUXR1 : BOOLEAN, CLK_DIV : BOOLEAN]
  BY AdcAssumption
<1>3. adc_sfr' \in Registers
  BY <1>1, <1>2 DEF AdcInv, AdcTypeOK, Registers
<1>4. adc_done' \in BOOLEAN
  BY <1>1
<1>5. AdcTypeOK'
  BY <1>1, <1>3, <1>4 DEF AdcInv, AdcTypeOK, Registers
<1> QED
  BY <1>1, <1>5 DEF AdcInv, ConvertsLastStart, StartIsAnswered

(* A tick, which may end a conversion.                                      *)
LEMMA AdcTickInv == AdcInv /\ AdcTick => AdcInv'
<1> SUFFICES ASSUME AdcInv, AdcTick PROVE AdcInv'
  OBVIOUS
<1>1. adc \in AdcState /\ adc_sfr \in Registers /\ ADC_CONTR \in Control
  BY DEF AdcInv, AdcTypeOK, AdcState, Registers
<1>2. CASE adc.conversion_delay = 0
  <2>1. adc_done' \in BOOLEAN /\ UNCHANGED <<adc, ADC_CONTR, adc_sfr, adc_start, adc_since>>
    BY <1>2 DEF AdcTick
  <2> QED
    BY <2>1 DEF AdcInv, AdcTypeOK, ConvertsLastStart, StartIsAnswered
<1>3. CASE adc.conversion_delay # 0
  <2>1. /\ adc' \in AdcState
        /\ adc'.adc_powered = adc.adc_powered
        /\ adc'.adc_channel = adc.adc_channel
        /\ adc'.conversion_delay = adc.conversion_delay - 1
        /\ adc_start' = adc_start
    BY <1>1, <1>3 DEF AdcTick, AdcState
  <2>2. adc_done' \in BOOLEAN
    BY <1>3 DEF AdcTick, AdcEnds
  <2>3. /\ adc_since \in Nat
        /\ adc.conversion_delay + adc_since = Delay[adc_start.speed]
        /\ adc.adc_channel = adc_start.channel
    BY <1>3 DEF AdcInv, AdcTypeOK, ConvertsLastStart
  <2>4. CASE AdcEnds
    <3>1. /\ adc_sfr' = [adc_sfr EXCEPT !.RES = Aligned(Converted).RES,
                                        !.RESL = Aligned(Converted).RESL]
          /\ ADC_CONTR' = Ended
          /\ adc_since' = -1
      BY <1>3, <2>4 DEF AdcTick
    <3>2. Aligned(Converted).RES \in Bytes /\ Aligned(Converted).RESL \in Bytes
      BY ConvertedType, AlignedType, ZenonT(60) DEF AdcInv
    <3>3. adc_sfr' \in Registers
      BY <1>1, <3>1, <3>2 DEF Registers
    <3>4. ADC_CONTR' \in Control /\ ~ADC_CONTR'.START /\ ADC_CONTR'.POWER = ADC_CONTR.POWER
      BY <1>1, <3>1 DEF Ended, Control
    <3>5. AdcTypeOK'
      BY <2>1, <2>2, <3>1, <3>3, <3>4, SMTT(60) DEF AdcInv, AdcTypeOK, AdcState, Registers
    <3>6. adc'.conversion_delay = 0
      BY <2>1, <2>4 DEF AdcEnds
    <3> QED
      BY <3>1, <3>4, <3>5, <3>6 DEF AdcInv, ConvertsLastStart, StartIsAnswered
  <2>5. CASE ~AdcEnds
    <3>1. adc_since' = adc_since + 1 /\ UNCHANGED <<adc_sfr, ADC_CONTR>>
      BY <1>3, <2>5 DEF AdcTick
    <3>2. adc.conversion_delay \in Nat /\ adc.conversion_delay > 1
      BY <1>1, <1>3, <2>5 DEF AdcState, AdcEnds
    <3>3. AdcTypeOK'
      BY <1>1, <2>1, <2>2, <2>3, <3>1 DEF AdcInv, AdcTypeOK, AdcState, Registers
    <3> QED
      BY <2>1, <2>3, <3>1, <3>2, <3>3 DEF AdcInv, ConvertsLastStart, StartIsAnswered
  <2> QED
    BY <2>4, <2>5
<1> QED
  BY <1>2, <1>3

(* A reset.                                                                 *)
LEMMA AdcResetInv == AdcInv /\ AdcReset => AdcInv'
<1> SUFFICES ASSUME AdcInv, AdcReset PROVE AdcInv'
  OBVIOUS
<1>1. 0 \in Channels /\ 0 \in Speeds
  BY AdcAssumption
<1>2. adc \in AdcState
  BY DEF AdcInv, AdcTypeOK, AdcState
<1>3. ADC_CONTR' \in Control /\ ~ADC_CONTR'.START /\ ADC_CONTR'.POWER = FALSE
  BY <1>1 DEF AdcReset, Control
<1>4. /\ adc' \in AdcState
      /\ adc'.adc_powered = FALSE
      /\ adc'.adc_channel = adc.adc_channel
      /\ adc'.conversion_delay = adc.conversion_delay
  <2>1. adc' = [adc EXCEPT !.adc_powered = FALSE]
    BY DEF AdcReset
  <2>2. adc' \in AdcState
    BY <2>1, <1>2, Powered, Zenon
  <2>3. adc'.adc_powered = FALSE
    BY <2>1, <1>2, ZenonT(60) DEF AdcState
  <2>4. adc'.adc_channel = adc.adc_channel
    BY <2>1, <1>2, ZenonT(60) DEF AdcState
  <2>5. adc'.conversion_delay = adc.conversion_delay
    BY <2>1, <1>2, Zenon DEF AdcState
  <2> QED
    BY <2>2, <2>3, <2>4, <2>5
<1>5. adc_sfr' \in Registers
  BY DEF AdcReset, Registers, Bytes
<1>6. adc_done' \in BOOLEAN /\ adc_start' = adc_start /\ adc_since' = adc_since
  BY DEF AdcReset
<1>7. adc_start' \in [channel : Channels, speed : Speeds] /\ adc_since' \in Nat \cup {-1}
  BY <1>6 DEF AdcInv, AdcTypeOK
<1>8. AdcTypeOK'
  <2>1. adc'.adc_powered = ADC_CONTR'.POWER
    BY <1>3, <1>4
  <2> HIDE DEF AdcReset
  <2> QED
    BY <1>3, <1>4, <1>5, <1>6, <1>7, <2>1, ZenonT(60) DEF AdcTypeOK, AdcState, Registers
<1> QED
  BY <1>3, <1>4, <1>6, <1>8 DEF AdcInv, ConvertsLastStart, StartIsAnswered

(* Every step of the converter.                                             *)
LEMMA AdcStepInv == AdcInv /\ [AdcNext]_adc_vars => AdcInv'
<1> SUFFICES ASSUME AdcInv, [AdcNext]_adc_vars PROVE AdcInv'
  OBVIOUS
<1>1. CASE WriteADC_CONTR
  BY <1>1, WriteControlInv
<1>2. CASE WriteSetup
  BY <1>2, WriteSetupInv
<1>3. CASE AdcTick
  BY <1>3, AdcTickInv
<1>4. CASE AdcReset
  BY <1>4, AdcResetInv
<1>5. CASE UNCHANGED adc_vars
  BY <1>5 DEF AdcInv, AdcTypeOK, ConvertsLastStart, StartIsAnswered, adc_vars
<1> QED
  BY <1>1, <1>2, <1>3, <1>4, <1>5 DEF AdcNext

(* The invariant of the converter is inductive.                             *)
LEMMA AdcInvAlways == AdcSpec => []AdcInv
  BY AdcInitInv, AdcStepInv, PTL DEF AdcSpec

-----------------------------------------------------------------------------
(* Every variable of the converter stays in its range.                       *)
THEOREM AdcTypeCorrect == AdcSpec => []AdcTypeOK
<1>1. AdcInv => AdcTypeOK
  BY DEF AdcInv
<1> QED
  BY <1>1, AdcInvAlways, PTL

(* A conversion has the channel and the exact time of the last START, and    *)
(* while START reads as set with the power on, a conversion runs.            *)
THEOREM StartsConvertAlways == AdcSpec => []StartsConvert
<1>1. AdcInv => StartsConvert
  BY DEF AdcInv, StartsConvert
<1> QED
  BY <1>1, AdcInvAlways, PTL

(* What a conversion leaves reads as the channel's input.                    *)
THEOREM ResultReadsAlways == AdcSpec => ResultReads
<1> DEFINE Input == IF adc_start.channel \in adc_sfr.P1ASF
                    THEN adc.adc_input[adc_start.channel] ELSE 0
<1>1. ASSUME AdcInv, AdcNext, adc_done'
      PROVE  Read(Adrj, adc_sfr') = Input
  <2>1. adc.conversion_delay # 0 /\ AdcTick /\ AdcEnds
    BY <1>1 DEF AdcNext, WriteADC_CONTR, WriteSetup, AdcTick, AdcReset
  <2>2. adc_sfr' = [adc_sfr EXCEPT !.RES = Aligned(Converted).RES,
                                   !.RESL = Aligned(Converted).RESL]
    BY <2>1 DEF AdcTick
  <2>3. adc_sfr'.RES = Aligned(Converted).RES /\ adc_sfr'.RESL = Aligned(Converted).RESL
    BY <1>1, <2>2 DEF AdcInv, AdcTypeOK
  <2>4. Converted = Input
    BY <1>1, <2>1 DEF AdcInv, AdcTypeOK, ConvertsLastStart, Converted
  <2>5. Read(Adrj, Aligned(Converted)) = Converted
    BY <1>1, ConvertedType, AlignedReads DEF AdcInv
  <2> QED
    BY <2>3, <2>4, <2>5 DEF Read
<1>2. AdcInv /\ [AdcNext]_adc_vars =>
        [adc_done' =>
          LET adrj == IF adc.part = "STC15" THEN adc_sfr.CLK_DIV ELSE adc_sfr.AUXR1
          IN Read(adrj, adc_sfr') =
               IF adc_start.channel \in adc_sfr.P1ASF THEN adc.adc_input[adc_start.channel]
               ELSE 0]_adc_vars
  BY <1>1 DEF Adrj
<1> QED
  BY <1>2, AdcInvAlways, PTL DEF AdcSpec, ResultReads

-----------------------------------------------------------------------------
(* The trace recorder.                                                      *)

Happened == [overflow : BOOLEAN, conversion : {<<>>} \cup (Channels \X (0..1023))]

Report == [TF : BOOLEAN, ADC : {<<>>} \cup (Channels \X (0..1023)), pins : 0..3]

Reader == [latch : BOOLEAN, m1 : 0..1, m0 : 0..1]

(* The types, with those of the histories.                                   *)
TraceTypes ==
  /\ chip \in Chip /\ shadow \in Shadow
  /\ stage \in Stages /\ left \in 0..MaxCycles
  /\ stage = "ticking" => left > 0
  /\ report \in Report /\ reader \in Reader /\ happened \in Happened

InCycles == stage \in {"ticking", "ticked"}

(* TF0 stands for the overflows since the last comparison: nothing but an    *)
(* overflow sets it, and it is cleared only before the cycles and after them.*)
OverflowsKept ==
  /\ happened.overflow => InCycles /\ chip.TF0
  /\ chip.TF0 /\ ~shadow.TF0 => happened.overflow

(* FLAG and the result stand for the conversion in the same way.             *)
ResultKept == [channel |-> adc_start.channel, value |->
  IF Adrj THEN (adc_sfr.RES % 4) * 256 + adc_sfr.RESL ELSE adc_sfr.RES * 4 + (adc_sfr.RESL % 4)]

ConversionsKept ==
  /\ happened.conversion # <<>> =>
       /\ InCycles /\ ADC_CONTR.FLAG
       /\ happened.conversion = <<ResultKept.channel, ResultKept.value>>
  /\ ADC_CONTR.FLAG /\ ~shadow.ADC_CONTR.FLAG => happened.conversion # <<>>

(* What the events say of the pin is what the shadows hold.                  *)
ReaderHasShadow ==
  /\ reader.latch = shadow.latch
  /\ chip.port = 5 => reader.m1 = shadow.m1 /\ reader.m0 = shadow.m0
  /\ stage = "start" =>
       chip.latch = shadow.latch /\ chip.m1 = shadow.m1 /\ chip.m0 = shadow.m0

TraceInv ==
  AdcInv /\ TraceTypes /\ OverflowsKept /\ ConversionsKept /\ ReaderHasShadow

-----------------------------------------------------------------------------
(* What the recorder reads from the registers is a result.                  *)
LEMMA AdcValueType ==
  ASSUME AdcTypeOK
  PROVE  AdcValue \in 0..1023 /\ adc_sfr.RES \in Bytes /\ adc_sfr.RESL \in Bytes
<1>1. adc_sfr.RES \in 0..255 /\ adc_sfr.RESL \in 0..255
  BY DEF AdcTypeOK, Bytes
<1>2. adc_sfr.RES % 4 \in 0..3 /\ adc_sfr.RESL % 4 \in 0..3
  BY <1>1
<1>3. (adc_sfr.RES % 4) * 256 + adc_sfr.RESL \in 0..1023
  BY <1>1, <1>2
<1>4. adc_sfr.RES * 4 + (adc_sfr.RESL % 4) \in 0..1023
  BY <1>1, <1>2
<1> QED
  BY <1>1, <1>3, <1>4, ZenonT(60) DEF AdcValue, Bytes

(* The types of the events.                                                 *)
LEMMA PinEventsType ==
  ASSUME chip \in Chip, shadow \in Shadow
  PROVE  /\ PinEvents \in 0..3
         /\ PinEvents = 0 => /\ chip.latch = shadow.latch
                             /\ chip.port = 5 => chip.m1 = shadow.m1 /\ chip.m0 = shadow.m0
  BY DEF PinEvents

(* The event of a conversion tells a channel and a result.                  *)
LEMMA AdcEventType ==
  ASSUME AdcTypeOK
  PROVE  AdcEvent \in {<<>>} \cup (Channels \X (0..1023))
<1>1. ADC_CONTR.CHS \in Channels
  BY DEF AdcTypeOK, Control
<1> QED
  BY <1>1, AdcValueType DEF AdcEvent

(* A comparison brings the shadows up to date.                              *)
LEMMA CheckSfrInv ==
  ASSUME TraceInv, CheckSfr, UNCHANGED <<chip, left, adc_vars>>,
         stage' \in {"polled", "start"}
  PROVE  TraceInv'
<1>1. AdcInv' /\ UNCHANGED <<adc, ADC_CONTR, adc_sfr, adc_start>>
  BY DEF TraceInv, AdcInv, AdcTypeOK, ConvertsLastStart, StartIsAnswered, adc_vars
<1>2. /\ chip \in Chip /\ shadow \in Shadow /\ AdcTypeOK /\ reader \in Reader
      /\ chip' = chip /\ left' = left /\ left \in 0..MaxCycles
      /\ stage' \in Stages /\ stage' # "ticking"
  BY DEF TraceInv, TraceTypes, AdcInv, Stages
<1>3. /\ chip.TF0 \in BOOLEAN /\ shadow.TF0 \in BOOLEAN /\ chip.latch \in BOOLEAN
      /\ chip.m1 \in 0..1 /\ chip.m0 \in 0..1 /\ ADC_CONTR \in Control
  BY <1>2 DEF Chip, Shadow, AdcTypeOK
<1>4. report' \in Report
  <2>1. report' = [TF |-> chip.TF0 /\ ~shadow.TF0, ADC |-> AdcEvent, pins |-> PinEvents]
    BY DEF CheckSfr
  <2>2. (chip.TF0 /\ ~shadow.TF0) \in BOOLEAN
    OBVIOUS
  <2> QED
    BY <1>2, <2>1, <2>2, PinEventsType, AdcEventType, Zenon DEF Report
<1>5. /\ shadow' \in Shadow
      /\ shadow'.TF0 = chip.TF0 /\ shadow'.latch = chip.latch
      /\ shadow'.m1 = chip.m1 /\ shadow'.m0 = chip.m0
      /\ shadow'.ADC_CONTR = ADC_CONTR
  BY <1>3, Zenon DEF CheckSfr, Now, Shadow
<1>6. happened' \in Happened /\ happened'.overflow = FALSE /\ happened'.conversion = <<>>
  BY Zenon DEF CheckSfr, NothingHappened, Happened
<1>7. /\ reader' \in Reader /\ reader'.latch = chip.latch
      /\ chip.port = 5 => reader'.m1 = chip.m1 /\ reader'.m0 = chip.m0
  <2>1. CASE PinEvents > 0
    <3>1. reader' = [latch |-> chip.latch, m1 |-> chip.m1, m0 |-> chip.m0]
      BY <2>1 DEF CheckSfr
    <3> QED
      BY <1>3, <3>1, Zenon DEF Reader
  <2>2. CASE ~(PinEvents > 0)
    <3>1. PinEvents = 0 /\ reader' = reader
      BY <1>2, <2>2, PinEventsType DEF CheckSfr
    <3> QED
      BY <1>2, <3>1, PinEventsType DEF TraceInv, ReaderHasShadow
  <2> QED
    BY <2>1, <2>2
<1>8. TraceTypes'
  BY <1>2, <1>4, <1>5, <1>6, <1>7 DEF TraceTypes
<1>9. OverflowsKept'
  BY <1>2, <1>5, <1>6 DEF OverflowsKept
<1>10. ConversionsKept'
  BY <1>1, <1>5, <1>6 DEF ConversionsKept
<1>11. ReaderHasShadow'
  BY <1>2, <1>5, <1>7 DEF ReaderHasShadow
<1> QED
  BY <1>1, <1>8, <1>9, <1>10, <1>11 DEF TraceInv

-----------------------------------------------------------------------------
(* The initial state.                                                       *)
LEMMA TraceInitInv == TraceInit => TraceInv
<1> SUFFICES ASSUME TraceInit PROVE TraceInv
  OBVIOUS
<1>1. AdcInv
  BY AdcInitInv DEF TraceInit
<1>2. PICK w \in Watched, p \in Ports :
        chip = [watched |-> w, port |-> p, TF0 |-> FALSE, latch |-> TRUE, m1 |-> 0, m0 |-> 0]
  BY DEF TraceInit
<1>3. /\ chip \in Chip /\ chip.TF0 = FALSE /\ chip.latch = TRUE /\ chip.m1 = 0 /\ chip.m0 = 0
      /\ chip.latch \in BOOLEAN /\ chip.m1 \in 0..1 /\ chip.m0 \in 0..1
  <2>1. 0 \in 0..1
    OBVIOUS
  <2> QED
    BY <1>2, <2>1, Zenon DEF Chip
<1>4. ADC_CONTR \in Control /\ ADC_CONTR.FLAG = FALSE
  <2>1. ADC_CONTR = [POWER |-> FALSE, START |-> FALSE, FLAG |-> FALSE, SPEED |-> 0, CHS |-> 0]
    BY DEF TraceInit, AdcInit
  <2> QED
    BY <1>1, <2>1, ZenonT(60) DEF AdcInv, AdcTypeOK
<1>5. /\ shadow \in Shadow
      /\ shadow.TF0 = chip.TF0 /\ shadow.latch = chip.latch
      /\ shadow.m1 = chip.m1 /\ shadow.m0 = chip.m0 /\ shadow.ADC_CONTR = ADC_CONTR
  BY <1>3, <1>4, Zenon DEF TraceInit, Now, Shadow
<1>6. happened \in Happened /\ happened.overflow = FALSE /\ happened.conversion = <<>>
  BY Zenon DEF TraceInit, NothingHappened, Happened
<1>7. /\ reader \in Reader /\ reader.latch = chip.latch
      /\ reader.m1 = chip.m1 /\ reader.m0 = chip.m0
  BY <1>3, Zenon DEF TraceInit, Reader
<1>8. report \in Report
  <2>1. 0 \in 0..3
    OBVIOUS
  <2> QED
    BY <2>1, Zenon DEF TraceInit, NoReport, Report
<1>9. stage = "start" /\ left \in 0..MaxCycles
  BY TraceAssumption DEF TraceInit
<1>10. TraceTypes
  BY <1>3, <1>5, <1>6, <1>7, <1>8, <1>9 DEF TraceTypes, Stages
<1>11. OverflowsKept /\ ConversionsKept
  BY <1>3, <1>4, <1>6 DEF OverflowsKept, ConversionsKept
<1>12. ReaderHasShadow
  BY <1>5, <1>7 DEF ReaderHasShadow
<1> QED
  BY <1>1, <1>10, <1>11, <1>12 DEF TraceInv

(* The instructions: nothing has happened yet, and none sets TF0 or FLAG.    *)
LEMMA ExecuteInv ==
  ASSUME TraceInv, AdcInv', chip' \in Chip,
         stage = "start", stage' = "ticking", left' \in 1..MaxCycles,
         UNCHANGED <<shadow, report, reader, happened>>,
         chip'.TF0 => chip.TF0, ADC_CONTR'.FLAG => ADC_CONTR.FLAG,
         chip'.port = chip.port
  PROVE  TraceInv'
<1>1. ~happened.overflow /\ happened.conversion = <<>>
  BY DEF TraceInv, OverflowsKept, ConversionsKept, InCycles
<1>2. left' \in 0..MaxCycles /\ left' > 0
  BY TraceAssumption
<1>3. TraceTypes'
  BY <1>2 DEF TraceInv, TraceTypes, Stages
<1>4. OverflowsKept' /\ ConversionsKept'
  BY <1>1 DEF TraceInv, OverflowsKept, ConversionsKept
<1>5. ReaderHasShadow'
  BY DEF TraceInv, ReaderHasShadow
<1> QED
  BY <1>3, <1>4, <1>5 DEF TraceInv

(* The instructions.                                                        *)
LEMMA ExecutesInv ==
  TraceInv /\ (ExecuteAdc \/ ExecuteClrTF0 \/ ExecuteMovPin \/ ExecuteMovMode \/ ExecuteOther)
    => TraceInv'
<1> SUFFICES ASSUME TraceInv,
                    ExecuteAdc \/ ExecuteClrTF0 \/ ExecuteMovPin \/ ExecuteMovMode \/ ExecuteOther
             PROVE  TraceInv'
  OBVIOUS
<1>1. chip \in Chip /\ AdcInv
  BY DEF TraceInv, TraceTypes
<1>2. /\ stage = "start" /\ stage' = "ticking" /\ left' \in 1..MaxCycles
      /\ UNCHANGED <<shadow, report, reader, happened>>
  BY DEF ExecuteAdc, ExecuteClrTF0, ExecuteMovPin, ExecuteMovMode, ExecuteOther, Execute
<1>3. UNCHANGED adc_vars => AdcInv' /\ ADC_CONTR' = ADC_CONTR
  BY <1>1 DEF AdcInv, AdcTypeOK, ConvertsLastStart, StartIsAnswered, adc_vars
<1>4. CASE ExecuteAdc
  <2>1. (WriteADC_CONTR \/ WriteSetup) /\ chip' = chip
    BY <1>4 DEF ExecuteAdc, Execute
  <2>2. AdcInv'
    BY <1>1, <2>1, WriteControlInv, WriteSetupInv
  <2>3. ADC_CONTR'.FLAG => ADC_CONTR.FLAG
    BY <2>1 DEF WriteADC_CONTR, WriteSetup
  <2> QED
    BY <1>1, <1>2, <2>1, <2>2, <2>3, ExecuteInv
<1>5. CASE ExecuteClrTF0
  <2>1. chip' = [chip EXCEPT !.TF0 = FALSE] /\ UNCHANGED adc_vars
    BY <1>5 DEF ExecuteClrTF0, Execute
  <2>2. chip' \in Chip /\ chip'.TF0 = FALSE /\ chip'.port = chip.port
    BY <1>1, <2>1, Zenon DEF Chip
  <2> QED
    BY <1>1, <1>2, <1>3, <2>1, <2>2, ExecuteInv
<1>6. CASE ExecuteMovPin
  <2>1. PICK b \in BOOLEAN : chip' = [chip EXCEPT !.latch = b] /\ UNCHANGED adc_vars
    BY <1>6 DEF ExecuteMovPin, Execute
  <2>2. chip' \in Chip /\ chip'.TF0 = chip.TF0 /\ chip'.port = chip.port
    BY <1>1, <2>1, Zenon DEF Chip
  <2> QED
    BY <1>1, <1>2, <1>3, <2>1, <2>2, ExecuteInv
<1>7. CASE ExecuteMovMode
  <2>1. PICK b \in 0..1 : /\ chip' = [chip EXCEPT !.m1 = b] \/ chip' = [chip EXCEPT !.m0 = b]
                          /\ UNCHANGED adc_vars
    BY <1>7 DEF ExecuteMovMode, Execute
  <2>2. chip' \in Chip /\ chip'.TF0 = chip.TF0 /\ chip'.port = chip.port
    BY <1>1, <2>1, Zenon DEF Chip
  <2> QED
    BY <1>1, <1>2, <1>3, <2>1, <2>2, ExecuteInv
<1>8. CASE ExecuteOther
  <2>1. chip' = chip /\ UNCHANGED adc_vars
    BY <1>8 DEF ExecuteOther, Execute
  <2> QED
    BY <1>1, <1>2, <1>3, <2>1, ExecuteInv
<1> QED
  BY <1>4, <1>5, <1>6, <1>7, <1>8

-----------------------------------------------------------------------------
(* A cycle.                                                                  *)
LEMMA EndReads ==
  ASSUME AdcInv, AdcTick, adc_done'
  PROVE  /\ ADC_CONTR'.FLAG = TRUE
         /\ adc_start' = adc_start
         /\ Converted \in 0..1023
         /\ ResultKept'.channel = adc_start.channel
         /\ ResultKept'.value = Converted
<1>1. adc.conversion_delay # 0 /\ AdcEnds
  BY DEF AdcTick
<1>2. /\ adc_sfr' = [adc_sfr EXCEPT !.RES = Aligned(Converted).RES,
                                    !.RESL = Aligned(Converted).RESL]
      /\ ADC_CONTR' = Ended
      /\ adc_start' = adc_start
      /\ adc' = [adc EXCEPT !.conversion_delay = @ - 1]
  BY <1>1 DEF AdcTick
<1>3. /\ adc_sfr'.RES = Aligned(Converted).RES /\ adc_sfr'.RESL = Aligned(Converted).RESL
      /\ adc_sfr'.CLK_DIV = adc_sfr.CLK_DIV /\ adc_sfr'.AUXR1 = adc_sfr.AUXR1
      /\ adc'.part = adc.part
  BY <1>2 DEF AdcInv, AdcTypeOK
<1>4. Adrj' = Adrj
  BY <1>3 DEF Adrj
<1>5. Converted \in 0..1023
  BY ConvertedType DEF AdcInv
<1>6. ADC_CONTR'.FLAG = TRUE
  BY <1>2, ZenonT(60) DEF AdcInv, AdcTypeOK, Ended, Control
<1>7. ResultKept'.value = Converted
  <2> DEFINE v == Converted
  <2>1. CASE Adrj
    <3>1. adc_sfr'.RES = (v \div 256) % 4 /\ adc_sfr'.RESL = v % 256
      BY <1>3, <2>1 DEF Aligned
    <3>2. ((v \div 256) % 4) % 4 = (v \div 256) % 4
      BY <1>5
    <3>3. ResultKept'.value = (adc_sfr'.RES % 4) * 256 + adc_sfr'.RESL
      BY <1>4, <2>1 DEF ResultKept
    <3> QED
      BY <1>5, <3>1, <3>2, <3>3, RightAligned
  <2>2. CASE ~Adrj
    <3>1. adc_sfr'.RES = (v \div 4) % 256 /\ adc_sfr'.RESL = v % 4
      BY <1>3, <2>2 DEF Aligned
    <3>2. (v % 4) % 4 = v % 4
      BY <1>5
    <3>3. ResultKept'.value = adc_sfr'.RES * 4 + (adc_sfr'.RESL % 4)
      BY <1>4, <2>2 DEF ResultKept
    <3> QED
      BY <1>5, <3>1, <3>2, <3>3, LeftAligned
  <2> QED
    BY <2>1, <2>2
<1> QED
  BY <1>2, <1>5, <1>6, <1>7 DEF ResultKept

(* A cycle of the peripherals.                                              *)
LEMMA CycleInv == TraceInv /\ Cycle => TraceInv'
<1> SUFFICES ASSUME TraceInv, Cycle PROVE TraceInv'
  OBVIOUS
<1>1. PICK overflow \in BOOLEAN, toggle \in BOOLEAN :
        /\ chip' = [chip EXCEPT !.TF0 = @ \/ overflow, !.latch = IF toggle THEN ~@ ELSE @]
        /\ happened' = [overflow |-> happened.overflow \/ overflow,
                        conversion |-> IF adc_done'
                                       THEN <<adc_start.channel, Converted>>
                                       ELSE happened.conversion]
  BY DEF Cycle
<1>2. /\ stage = "ticking" /\ AdcTick
      /\ left' = left - 1 /\ stage' = IF left > 1 THEN stage ELSE "ticked"
      /\ UNCHANGED <<shadow, report, reader>>
  BY DEF Cycle
<1>3. /\ AdcInv /\ chip \in Chip /\ happened \in Happened
      /\ left \in 0..MaxCycles /\ left > 0 /\ MaxCycles \in Nat
  BY <1>2, TraceAssumption DEF TraceInv, TraceTypes
<1>4. AdcInv'
  BY <1>2, <1>3, AdcTickInv
<1>5. /\ chip.TF0 \in BOOLEAN /\ chip.latch \in BOOLEAN
      /\ happened.overflow \in BOOLEAN
      /\ happened.conversion \in {<<>>} \cup (Channels \X (0..1023))
  BY <1>3 DEF Chip, Happened
<1>6. /\ chip' \in Chip /\ chip'.port = chip.port
      /\ chip'.TF0 <=> chip.TF0 \/ overflow
      /\ chip'.TF0 \in BOOLEAN
  <2>1. (chip.TF0 \/ overflow) \in BOOLEAN /\ (IF toggle THEN ~chip.latch ELSE chip.latch) \in BOOLEAN
    <3>1. (chip.TF0 \/ overflow) \in BOOLEAN
      OBVIOUS
    <3>2. CASE toggle
      BY <3>1, <3>2
    <3>3. CASE ~toggle
      BY <1>5, <3>1, <3>3
    <3> QED
      BY <3>2, <3>3
  <2> QED
    BY <1>1, <1>3, <2>1, Zenon DEF Chip
<1>7. <<adc_start.channel, Converted>> \in Channels \X (0..1023)
  <2>1. adc_start.channel \in Channels
    BY <1>3 DEF AdcInv, AdcTypeOK
  <2>2. Converted \in 0..1023
    BY <1>3, ConvertedType DEF AdcInv
  <2> QED
    BY <2>1, <2>2
<1>8. /\ happened' \in Happened
      /\ happened'.overflow <=> happened.overflow \/ overflow
      /\ happened'.conversion = IF adc_done' THEN <<adc_start.channel, Converted>>
                                ELSE happened.conversion
  <2>1. (happened.overflow \/ overflow) \in BOOLEAN
    BY <1>5
  <2>2. (IF adc_done' THEN <<adc_start.channel, Converted>> ELSE happened.conversion)
          \in {<<>>} \cup (Channels \X (0..1023))
    BY <1>5, <1>7, SMTT(60)
  <2> QED
    BY <1>1, <2>1, <2>2, Zenon DEF Happened
<1>9. /\ stage' \in {"ticking", "ticked"} /\ left' \in 0..MaxCycles
      /\ stage' = "ticking" => left' > 0
  BY <1>2, <1>3
<1>10. TraceTypes'
  BY <1>2, <1>6, <1>8, <1>9 DEF TraceInv, TraceTypes, Stages
<1>11. OverflowsKept'
  BY <1>2, <1>5, <1>6, <1>8, <1>9 DEF TraceInv, OverflowsKept, InCycles
<1>12. ConversionsKept'
  <2>1. CASE adc_done'
    <3>1. happened'.conversion = <<ResultKept'.channel, ResultKept'.value>>
      BY <1>2, <1>3, <1>8, <2>1, EndReads
    <3>2. ADC_CONTR'.FLAG = TRUE
      BY <1>2, <1>3, <2>1, EndReads
    <3>3. happened'.conversion # <<>>
      BY <1>8, <2>1
    <3> QED
      BY <1>9, <3>1, <3>2, <3>3 DEF ConversionsKept, InCycles
  <2>2. CASE ~adc_done'
    <3>1. /\ adc_sfr' = adc_sfr /\ ADC_CONTR' = ADC_CONTR /\ adc_start' = adc_start
          /\ adc'.part = adc.part
      BY <1>2, <1>3, <2>2 DEF AdcTick, AdcInv, AdcTypeOK
    <3>2. ResultKept' = ResultKept
      BY <3>1 DEF ResultKept, Adrj
    <3>3. happened'.conversion = happened.conversion
      BY <1>8, <2>2
    <3> QED
      BY <1>2, <1>9, <3>1, <3>2, <3>3 DEF TraceInv, ConversionsKept, InCycles
  <2> QED
    BY <2>1, <2>2
<1>13. ReaderHasShadow'
  BY <1>2, <1>6, <1>9 DEF TraceInv, ReaderHasShadow
<1> QED
  BY <1>4, <1>10, <1>11, <1>12, <1>13 DEF TraceInv

(* An interrupt that is accepted.                                           *)
LEMMA AcceptInv == TraceInv /\ Accept => TraceInv'
<1> SUFFICES ASSUME TraceInv, Accept PROVE TraceInv'
  OBVIOUS
<1>1. /\ stage = "polled" /\ chip' = [chip EXCEPT !.TF0 = FALSE]
      /\ UNCHANGED <<shadow, stage, left, report, reader, happened, adc_vars>>
  BY DEF Accept
<1>2. AdcInv' /\ UNCHANGED <<adc, ADC_CONTR, adc_sfr, adc_start>>
  BY <1>1 DEF TraceInv, AdcInv, AdcTypeOK, ConvertsLastStart, StartIsAnswered, adc_vars
<1>3. chip \in Chip
  BY DEF TraceInv, TraceTypes
<1>4. chip' \in Chip /\ chip'.TF0 = FALSE /\ chip'.port = chip.port
  BY <1>1, <1>3, Zenon DEF Chip
<1>5. ~happened.overflow /\ happened.conversion = <<>>
  BY <1>1 DEF TraceInv, OverflowsKept, ConversionsKept, InCycles
<1>6. TraceTypes'
  BY <1>1, <1>4 DEF TraceInv, TraceTypes
<1>7. OverflowsKept' /\ ConversionsKept'
  BY <1>1, <1>2, <1>4, <1>5 DEF TraceInv, OverflowsKept, ConversionsKept
<1>8. ReaderHasShadow'
  BY <1>1, <1>4 DEF TraceInv, ReaderHasShadow
<1> QED
  BY <1>2, <1>6, <1>7, <1>8 DEF TraceInv

(* Every step of the recorder.                                              *)
LEMMA TraceStepInv == TraceInv /\ [TraceNext]_trace_vars => TraceInv'
<1> SUFFICES ASSUME TraceInv, [TraceNext]_trace_vars PROVE TraceInv'
  OBVIOUS
<1>1. CASE ExecuteAdc \/ ExecuteClrTF0 \/ ExecuteMovPin \/ ExecuteMovMode \/ ExecuteOther
  BY <1>1, ExecutesInv
<1>2. CASE Cycle
  BY <1>2, CycleInv
<1>3. CASE AfterTicks
  BY <1>3, CheckSfrInv DEF AfterTicks, CompareAfterTicks
<1>4. CASE Accept
  BY <1>4, AcceptInv
<1>5. CASE AfterInst
  BY <1>5, CheckSfrInv DEF AfterInst
<1>6. CASE UNCHANGED trace_vars
  <2>1. UNCHANGED <<chip, shadow, stage, left, report, reader, happened>>
    BY <1>6 DEF trace_vars, trace_only
  <2>2. UNCHANGED <<adc, ADC_CONTR, adc_sfr, adc_start, adc_since, adc_done>>
    BY <1>6 DEF trace_vars, adc_vars
  <2>3. AdcInv'
    BY <2>2 DEF TraceInv, AdcInv, AdcTypeOK, ConvertsLastStart, StartIsAnswered
  <2>4. TraceTypes' /\ OverflowsKept' /\ ReaderHasShadow'
    BY <2>1 DEF TraceInv, TraceTypes, OverflowsKept, ReaderHasShadow, InCycles
  <2>5. ResultKept' = ResultKept
    BY <2>2 DEF ResultKept, Adrj
  <2>6. ConversionsKept'
    BY <2>1, <2>2, <2>5 DEF TraceInv, ConversionsKept, InCycles
  <2> QED
    BY <2>3, <2>4, <2>6 DEF TraceInv
<1> QED
  BY <1>1, <1>2, <1>3, <1>4, <1>5, <1>6 DEF TraceNext

(* The invariant of the recorder is inductive.                              *)
LEMMA TraceInvAlways == TraceSpec => []TraceInv
  BY TraceInitInv, TraceStepInv, PTL DEF TraceSpec

-----------------------------------------------------------------------------
(* The invariant holds the types.                                           *)
LEMMA TraceInvTyped ==
  ASSUME TraceInv
  PROVE  TraceTypeOK
<1>1. report.TF \in BOOLEAN /\ report.pins \in 0..3
  BY DEF TraceInv, TraceTypes, Report
<1>2. report.ADC \in {<<>>} \cup (Channels \X (0..1023))
  BY DEF TraceInv, TraceTypes, Report
<1>3. happened.overflow \in BOOLEAN
  BY DEF TraceInv, TraceTypes, Happened
<1>4. happened.conversion \in {<<>>} \cup (Channels \X (0..1023))
  BY DEF TraceInv, TraceTypes, Happened
<1> QED
  BY <1>1, <1>2, <1>3, <1>4, Zenon DEF TraceInv, TraceTypes, TraceTypeOK, AdcInv, Reader

(* Every variable of the recorder stays in its range.                       *)
THEOREM TraceTypeCorrect == TraceSpec => []TraceTypeOK
BY TraceInvTyped, TraceInvAlways, PTL

(* Between two instructions the PIN events tell the pin as it is.            *)
THEOREM ReaderSeesPinAlways == TraceSpec => []ReaderSeesPin
<1>1. TraceInv => ReaderSeesPin
  BY DEF TraceInv, ReaderHasShadow, ReaderSeesPin
<1> QED
  BY <1>1, TraceInvAlways, PTL

(* The steps that compare.                                                   *)
LEMMA ComparesChecks ==
  ASSUME TraceInv, TraceNext, Compares
  PROVE  CheckSfr
<1>1. ~(ExecuteAdc \/ ExecuteClrTF0 \/ ExecuteMovPin \/ ExecuteMovMode \/ ExecuteOther \/ Cycle \/ Accept)
  BY DEF Compares, ExecuteAdc, ExecuteClrTF0, ExecuteMovPin, ExecuteMovMode, ExecuteOther,
         Execute, Cycle, Accept
<1> QED
  BY <1>1 DEF TraceNext, AfterTicks, CompareAfterTicks, AfterInst

(* Overflows of Timer 0 and TF events correspond.                            *)
LEMMA OverflowsReportedAlways == TraceSpec => OverflowsReported
<1>1. ASSUME TraceInv, TraceNext, Compares
      PROVE  report'.TF <=> happened.overflow /\ ~shadow.TF0
  <2>1. report'.TF <=> chip.TF0 /\ ~shadow.TF0
    <3>1. CheckSfr
      BY <1>1, ComparesChecks
    <3>2. report' = [TF |-> chip.TF0 /\ ~shadow.TF0, ADC |-> AdcEvent, pins |-> PinEvents]
      BY <3>1, Zenon DEF CheckSfr
    <3> QED
      BY <3>2, Zenon
  <2> QED
    BY <1>1, <2>1 DEF TraceInv, OverflowsKept
<1>2. TraceInv /\ [TraceNext]_trace_vars =>
        [Compares => (report'.TF <=> happened.overflow /\ ~shadow.TF0)]_trace_vars
  BY <1>1
<1> QED
  BY <1>2, TraceInvAlways, PTL DEF TraceSpec, OverflowsReported

(* Conversions and ADC events correspond, value and channel with the two     *)
(* provisos.                                                                 *)
LEMMA ConversionsReportedAlways == TraceSpec => ConversionsReported
<1>1. ASSUME TraceInv, TraceNext, Compares
      PROVE  IF happened.conversion # <<>> /\ ~shadow.ADC_CONTR.FLAG
             THEN /\ report'.ADC # <<>>
                  /\ SameChannel /\ AlignedAlike => report'.ADC = happened.conversion
             ELSE report'.ADC = <<>>
  <2>1. report'.ADC = AdcEvent
    <3>1. CheckSfr
      BY <1>1, ComparesChecks
    <3>2. report' = [TF |-> chip.TF0 /\ ~shadow.TF0, ADC |-> AdcEvent, pins |-> PinEvents]
      BY <3>1, Zenon DEF CheckSfr
    <3> QED
      BY <3>2, Zenon
  <2>2. ConversionsKept
    BY <1>1 DEF TraceInv
  <2>3. CASE happened.conversion # <<>> /\ ~shadow.ADC_CONTR.FLAG
    <3>1. AdcEvent = <<ADC_CONTR.CHS, AdcValue>>
      BY <2>2, <2>3 DEF ConversionsKept, AdcEvent
    <3>2. ASSUME SameChannel, AlignedAlike
          PROVE  ADC_CONTR.CHS = ResultKept.channel /\ AdcValue = ResultKept.value
      BY <3>2 DEF SameChannel, AlignedAlike, AdcValue, ResultKept
    <3>3. happened.conversion = <<ResultKept.channel, ResultKept.value>>
      BY <2>2, <2>3 DEF ConversionsKept
    <3>4. <<ADC_CONTR.CHS, AdcValue>> # <<>>
      OBVIOUS
    <3> QED
      BY <2>1, <2>3, <3>1, <3>2, <3>3, <3>4
  <2>4. CASE ~(happened.conversion # <<>> /\ ~shadow.ADC_CONTR.FLAG)
    BY <2>1, <2>2, <2>4 DEF ConversionsKept, AdcEvent
  <2> QED
    BY <2>3, <2>4
<1>2. TraceInv /\ [TraceNext]_trace_vars =>
        [Compares =>
          IF happened.conversion # <<>> /\ ~shadow.ADC_CONTR.FLAG
          THEN /\ report'.ADC # <<>>
               /\ SameChannel /\ AlignedAlike => report'.ADC = happened.conversion
          ELSE report'.ADC = <<>>]_trace_vars
  BY <1>1
<1> QED
  BY <1>2, TraceInvAlways, PTL DEF TraceSpec, ConversionsReported

(* The recorder reports what the hardware does, and nothing else.            *)
THEOREM HardwareReportedAlways == TraceSpec => HardwareReported
  BY OverflowsReportedAlways, ConversionsReportedAlways DEF HardwareReported

-----------------------------------------------------------------------------
(* The parts together.                                                      *)

(* A behaviour of the whole is one of each part but the recorder, which     *)
(* stands still while the converter runs alone.                             *)
THEOREM EveryPeripheralRuns == PeripheralsSpec => PcaSpec /\ WdtSpec /\ SimSpec
<1>1. PeripheralsInit => PcaInit /\ WdtInit /\ SimInit
  BY DEF PeripheralsInit
<1>2. [PeripheralsNext]_all => [PcaNext]_pca_vars /\ [WdtNext]_wdt_vars /\ [SimNext]_sim_vars
  <2>1. UNCHANGED all => UNCHANGED pca_vars /\ UNCHANGED wdt_vars /\ UNCHANGED sim_vars
    BY DEF all
  <2>2. Only("pca", PcaNext, <<trace_vars, wdt_vars, sim_vars>>)
          => PcaNext /\ UNCHANGED wdt_vars /\ UNCHANGED sim_vars
    BY DEF Only
  <2>3. Only("adc", AdcNext, <<trace_only, pca_vars, wdt_vars, sim_vars>>)
          => UNCHANGED pca_vars /\ UNCHANGED wdt_vars /\ UNCHANGED sim_vars
    BY DEF Only
  <2>4. Only("trace", TraceNext, <<pca_vars, wdt_vars, sim_vars>>)
          => UNCHANGED pca_vars /\ UNCHANGED wdt_vars /\ UNCHANGED sim_vars
    BY DEF Only
  <2>5. Only("wdt", WdtNext, <<pca_vars, trace_vars, sim_vars>>)
          => WdtNext /\ UNCHANGED pca_vars /\ UNCHANGED sim_vars
    BY DEF Only
  <2>6. Only("sim", SimNext, <<pca_vars, trace_vars, wdt_vars>>)
          => SimNext /\ UNCHANGED pca_vars /\ UNCHANGED wdt_vars
    BY DEF Only
  <2> QED
    BY <2>1, <2>2, <2>3, <2>4, <2>5, <2>6, Zenon DEF PeripheralsNext
<1> QED
  BY <1>1, <1>2, PTL DEF PeripheralsSpec, PcaSpec, WdtSpec, SimSpec

(* The converter alone keeps its own invariant; otherwise the recorder's    *)
(* holds.                                                                   *)
ConverterInv ==
  /\ part = "adc" => AdcInv /\ TraceTypeOK
  /\ part # "adc" => TraceInv

(* The converter alone leaves the recorder's types as they are.             *)
LEMMA AloneTyped ==
  ASSUME AdcInv', TraceTypeOK, UNCHANGED trace_only
  PROVE  TraceTypeOK'
<1>1. UNCHANGED <<chip, shadow, stage, left, report, reader, happened>>
  BY DEF trace_only
<1>2. AdcTypeOK'
  BY DEF AdcInv
<1> QED
  BY <1>1, <1>2 DEF TraceTypeOK

(* It is inductive.                                                         *)
LEMMA ConverterInvAlways == PeripheralsSpec => []ConverterInv
<1>1. PeripheralsInit => ConverterInv
  BY TraceInitInv, AdcInitInv, TraceInvTyped DEF PeripheralsInit, ConverterInv, TraceInit
<1>2. ConverterInv /\ [PeripheralsNext]_all => ConverterInv'
  <2> SUFFICES ASSUME ConverterInv, [PeripheralsNext]_all PROVE ConverterInv'
    OBVIOUS
  <2>1. UNCHANGED part
    BY DEF PeripheralsNext, Only, all
  <2>2. CASE part = "adc"
    <3>1. [AdcNext]_adc_vars /\ UNCHANGED trace_only
      BY <2>2 DEF PeripheralsNext, Only, all, trace_vars
    <3>2. AdcInv /\ TraceTypeOK
      BY <2>2 DEF ConverterInv
    <3>3. AdcInv'
      BY <3>1, <3>2, AdcStepInv
    <3>4. TraceTypeOK'
      BY <3>1, <3>2, <3>3, AloneTyped
    <3> QED
      BY <2>1, <2>2, <3>3, <3>4 DEF ConverterInv
  <2>3. CASE part # "adc"
    <3>1. [TraceNext]_trace_vars
      BY <2>3 DEF PeripheralsNext, Only, all
    <3>2. TraceInv'
      BY <2>3, <3>1, TraceStepInv DEF ConverterInv
    <3> QED
      BY <2>1, <2>3, <3>2 DEF ConverterInv
  <2> QED
    BY <2>2, <2>3
<1> QED
  BY <1>1, <1>2, PTL DEF PeripheralsSpec

(* Every variable of every part stays in its range.                         *)
THEOREM PeripheralsTypeCorrect == PeripheralsSpec => []PeripheralsTypeOK
<1>1. ConverterInv => TraceTypeOK
  BY TraceInvTyped DEF ConverterInv
<1> QED
  BY <1>1, ConverterInvAlways, EveryPeripheralRuns, PcaTypeCorrect, WdtTypeCorrect,
     SimTypeCorrect, PTL DEF PeripheralsTypeOK

================================================================================
