-------------------------------- MODULE StcTrace --------------------------------
(***************************************************************************)
(* The trace recorder of the STC parts (ucstc12.cc): after the cycles of   *)
(* an instruction, and again after the interrupt that may follow it, it    *)
(* compares the watched registers with their shadows and writes an event   *)
(* for every change.  Watched here are ADC_CONTR, with the converter of    *)
(* StcAdc behind it, TF0 in TCON, and one pin of a port with its two mode  *)
(* registers.  The times of the events, the PC and UNMODELLED events are   *)
(* left out.  A traced part is never reset and, here, never idle.          *)
(***************************************************************************)
EXTENDS StcAdc, Sequences

CONSTANTS
  Ports,       \* the ports the pin may belong to: 1, which the PCA drives, or 5
  Watched,     \* bound: the registers that may change in one behaviour
  MaxCycles    \* bound: cycles of an instruction

ASSUME TraceAssumption ==
  /\ Ports \subseteq 0..5
  /\ Watched \subseteq {"ADC", "TF0", "pin"}
  /\ MaxCycles \in Nat \ {0}

VARIABLES
  chip,      \* the watched registers other than ADC_CONTR
  shadow,    \* trace_sfr_shadow
  stage,     \* where do_inst() is
  left,      \* cycles it has still to tick
  report,    \* the events of the last comparison
  reader,    \* what the PIN events so far say of the pin
  happened   \* history: what the hardware did since the last comparison

trace_only == <<chip, shadow, stage, left, report, reader, happened>>

trace_vars == <<adc_vars, trace_only>>

Chip == [watched : Watched, port : Ports, TF0 : BOOLEAN, latch : BOOLEAN, m1 : 0..1, m0 : 0..1]

Shadow == [ADC_CONTR : Control, TF0 : BOOLEAN, latch : BOOLEAN, m1 : 0..1, m0 : 0..1]

Stages == {"start", "ticking", "ticked", "polled"}

(* TF and ADC events of one comparison; pins counts its PIN events, which   *)
(* are all alike, since each tells the pin's mode and level of this moment. *)
NoReport == [TF |-> FALSE, ADC |-> <<>>, pins |-> 0]

NothingHappened == [overflow |-> FALSE, conversion |-> <<>>]

Now == [ADC_CONTR |-> ADC_CONTR, TF0 |-> chip.TF0, latch |-> chip.latch,
        m1 |-> chip.m1, m0 |-> chip.m0]

-----------------------------------------------------------------------------
(* The value of an ADC event is put together by AUXR1 on every part.        *)
AdcValue ==
  IF adc_sfr.AUXR1 THEN (adc_sfr.RES % 4) * 256 + adc_sfr.RESL
  ELSE adc_sfr.RES * 4 + (adc_sfr.RESL % 4)

(* Only port 5 tells a change of mode.  Mutant: no port does.               *)
PinEventsOfLatch == IF chip.latch # shadow.latch THEN 1 ELSE 0

PinEvents ==
  (IF chip.latch # shadow.latch THEN 1 ELSE 0)
    + (IF chip.port = 5 /\ chip.m1 # shadow.m1 THEN 1 ELSE 0)
    + (IF chip.port = 5 /\ chip.m0 # shadow.m0 THEN 1 ELSE 0)

(* Mutant: an ADC event when FLAG is found set.                             *)
AdcEventLevel == IF ADC_CONTR.FLAG THEN <<ADC_CONTR.CHS, AdcValue>> ELSE <<>>

AdcEvent ==
  IF ADC_CONTR.FLAG /\ ~shadow.ADC_CONTR.FLAG THEN <<ADC_CONTR.CHS, AdcValue>> ELSE <<>>

(* trace_check_sfr().                                                       *)
CheckSfr ==
  /\ report' = [TF |-> chip.TF0 /\ ~shadow.TF0, ADC |-> AdcEvent, pins |-> PinEvents]
  /\ reader' = IF PinEvents > 0 THEN [latch |-> chip.latch, m1 |-> chip.m1, m0 |-> chip.m0]
               ELSE reader
  /\ shadow' = Now
  /\ happened' = NothingHappened

-----------------------------------------------------------------------------
(* do_inst(): an instruction writes one register, or none.                  *)
Execute(write) ==
  /\ stage = "start"
  /\ write
  /\ stage' = "ticking"
  /\ left' \in 1..MaxCycles
  /\ UNCHANGED <<shadow, report, reader, happened>>

ExecuteAdc ==
  /\ chip.watched = "ADC"
  /\ Execute(WriteADC_CONTR \/ WriteSetup)
  /\ UNCHANGED chip

ExecuteClrTF0 ==
  /\ chip.watched = "TF0"
  /\ Execute(chip' = [chip EXCEPT !.TF0 = FALSE])
  /\ UNCHANGED adc_vars

ExecuteMovPin ==
  /\ chip.watched = "pin"
  /\ Execute(\E b \in BOOLEAN : chip' = [chip EXCEPT !.latch = b])
  /\ UNCHANGED adc_vars

ExecuteMovMode ==
  /\ chip.watched = "pin"
  /\ Execute(\E b \in 0..1 : chip' = [chip EXCEPT !.m1 = b] \/ chip' = [chip EXCEPT !.m0 = b])
  /\ UNCHANGED adc_vars

ExecuteOther == Execute(UNCHANGED <<chip, adc_vars>>)

(* One cycle of the hardware: the converter is ticked, Timer 0 may          *)
(* overflow, the PCA may toggle a pin of port 1.                            *)
Cycle ==
  /\ stage = "ticking"
  /\ AdcTick
  /\ \E overflow \in BOOLEAN, toggle \in BOOLEAN :
       /\ overflow => chip.watched = "TF0"
       /\ toggle => chip.watched = "pin" /\ chip.port = 1
       /\ chip' = [chip EXCEPT !.TF0 = @ \/ overflow, !.latch = IF toggle THEN ~@ ELSE @]
       /\ happened' = [overflow |-> happened.overflow \/ overflow,
                       conversion |-> IF adc_done'
                                      THEN <<adc_start.channel, Converted>>
                                      ELSE happened.conversion]
  /\ left' = left - 1
  /\ stage' = IF left > 1 THEN stage ELSE "ticked"
  /\ UNCHANGED <<shadow, report, reader>>

(* tick_hw() compares once, after all cycles of the instruction.            *)
CompareAfterTicks == stage = "ticked" /\ stage' = "polled" /\ CheckSfr

AfterTicks == CompareAfterTicks /\ UNCHANGED <<chip, left, adc_vars>>

(* do_interrupt() may accept Timer 0's interrupt and clear TF0; then the    *)
(* second comparison.                                                       *)
AfterInst ==
  /\ stage = "polled"
  /\ stage' = "start"
  /\ CheckSfr
  /\ UNCHANGED <<chip, left, adc_vars>>

Accept ==
  /\ stage = "polled"
  /\ chip.TF0
  /\ chip' = [chip EXCEPT !.TF0 = FALSE]
  /\ UNCHANGED <<shadow, stage, left, report, reader, happened, adc_vars>>

TraceInit ==
  /\ AdcInit
  /\ \E w \in Watched, p \in Ports :
       chip = [watched |-> w, port |-> p, TF0 |-> FALSE, latch |-> TRUE, m1 |-> 0, m0 |-> 0]
  /\ shadow = Now
  /\ stage = "start"
  /\ left = 0
  /\ report = NoReport
  /\ reader = [latch |-> chip.latch, m1 |-> chip.m1, m0 |-> chip.m0]
  /\ happened = NothingHappened

TraceNext ==
  \/ ExecuteAdc \/ ExecuteClrTF0 \/ ExecuteMovPin \/ ExecuteMovMode \/ ExecuteOther
  \/ Cycle \/ AfterTicks \/ Accept \/ AfterInst

TraceSpec == TraceInit /\ [][TraceNext]_trace_vars

-----------------------------------------------------------------------------
(* Every variable stays in its range.                                       *)
TraceTypeOK ==
  /\ AdcTypeOK
  /\ chip \in Chip
  /\ shadow \in Shadow
  /\ stage \in Stages /\ left \in 0..MaxCycles
  /\ stage = "ticking" => left > 0
  /\ report.TF \in BOOLEAN /\ report.pins \in 0..3
  /\ report.ADC \in {<<>>} \cup (Channels \X (0..1023))
  /\ reader \in [latch : BOOLEAN, m1 : 0..1, m0 : 0..1]
  /\ happened.overflow \in BOOLEAN
  /\ happened.conversion \in {<<>>} \cup (Channels \X (0..1023))

Compares == stage \in {"ticked", "polled"} /\ stage' # stage

(* Every overflow of Timer 0 that the recorder found TF0 clear before gets  *)
(* a TF event, though an interrupt may clear TF0 in the same instruction,   *)
(* and there is no TF event without an overflow.                            *)
OverflowsReported ==
  [][ Compares => (report'.TF <=> happened.overflow /\ ~shadow.TF0) ]_trace_vars

(* A conversion that ends with FLAG cleared before gives one ADC event, and *)
(* nothing else gives one.  It tells the channel and the value converted,   *)
(* unless the program has written another channel into ADC_CONTR meanwhile, *)
(* or the part is an STC15 whose CLK_DIV and AUXR1 disagree.                *)
SameChannel == ADC_CONTR.CHS = adc_start.channel

AlignedAlike == Adrj = adc_sfr.AUXR1

ConversionsReported ==
  [][ Compares =>
        IF happened.conversion # <<>> /\ ~shadow.ADC_CONTR.FLAG
        THEN /\ report'.ADC # <<>>
             /\ SameChannel /\ AlignedAlike => report'.ADC = happened.conversion
        ELSE report'.ADC = <<>> ]_trace_vars

(* Both: what the hardware does is reported, once, and nothing else is.     *)
HardwareReported == OverflowsReported /\ ConversionsReported

(* Between two instructions the last PIN event of a pin tells its level as  *)
(* it is, and on port 5 its mode, however often the program and the PCA     *)
(* have changed it within an instruction.                                   *)
ReaderSeesPin ==
  stage = "start" =>
    /\ reader.latch = chip.latch
    /\ chip.port = 5 => reader.m1 = chip.m1 /\ reader.m0 = chip.m0

=============================================================================
