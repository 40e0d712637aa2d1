-------------------------------- MODULE StcAdc --------------------------------
(***************************************************************************)
(* The analog-digital converter of the STC12 and the STC15, cl_stc12_adc   *)
(* (stc12_adc.cc): the program starts a conversion by a write of           *)
(* ADC_CONTR, tick_hw() ticks it with one cycle, and its end sets ADC_FLAG *)
(* and the two result registers.                                           *)
(***************************************************************************)
EXTENDS Integers

CONSTANTS
  AdcParts,   \* the parts, of which the STC15 has its alignment bit in CLK_DIV
  Delay,      \* cycles of a conversion at each speed
  Channels,   \* channels in use
  Inputs,     \* what set_input() is given, before the program runs
  Setups      \* the choices programs make of P1ASF, AUXR1 and CLK_DIV

Speeds == DOMAIN Delay

Bytes == 0..255

ASSUME AdcAssumption ==
  /\ AdcParts \subseteq {"STC12", "STC15"}
  /\ Channels \subseteq 0..7
  /\ 0 \in Channels
  /\ Delay \in [Speeds -> Nat \ {0}]
  /\ 0 \in Speeds
  /\ Inputs \subseteq Nat
  /\ Setups \subseteq [P1ASF : SUBSET Channels, AUXR1 : BOOLEAN, CLK_DIV : BOOLEAN]

VARIABLES
  adc,         \* the converter's own state
  ADC_CONTR,   \* the register
  adc_sfr,     \* the other registers it reads and writes
  adc_start,   \* history: the channel and speed of the START taken last
  adc_since,   \* history: cycles since then, -1 when its conversion has ended
  adc_done     \* history: the last operation ended a conversion

adc_vars == <<adc, ADC_CONTR, adc_sfr, adc_start, adc_since, adc_done>>

Control == [POWER : BOOLEAN, START : BOOLEAN, FLAG : BOOLEAN, SPEED : Speeds, CHS : Channels]

NoSetup == [P1ASF |-> {}, AUXR1 |-> FALSE, CLK_DIV |-> FALSE]

(* set_input() clamps to ten bits; an input nobody sets stays 0.            *)
Clamped(value) == IF value > 1023 THEN 1023 ELSE value

Analog == {0} \cup {Clamped(v) : v \in Inputs}

(* The bit tick() takes for ADRJ.                                           *)
Adrj == IF adc.part = "STC15" THEN adc_sfr.CLK_DIV ELSE adc_sfr.AUXR1

Converted ==
  IF adc.adc_channel \in adc_sfr.P1ASF THEN adc.adc_input[adc.adc_channel] ELSE 0

(* Mutant: the two high bits of a right-aligned result are dropped.         *)
AlignedByte(result) ==
  IF Adrj THEN [RES |-> 0, RESL |-> result % 256]
  ELSE [RES |-> result \div 4, RESL |-> result % 4]

Aligned(result) ==
  IF Adrj THEN [RES |-> (result \div 256) % 4, RESL |-> result % 256]
  ELSE [RES |-> (result \div 4) % 256, RESL |-> result % 4]

-----------------------------------------------------------------------------
Takes(v) == v.START /\ v.POWER

(* Mutant: the first conversion's time goes on.                             *)
StartedOn(v) ==
  [adc EXCEPT !.adc_powered = v.POWER, !.adc_channel = v.CHS,
              !.conversion_delay = IF @ > 0 THEN @ ELSE Delay[v.SPEED]]

Started(v) ==
  [adc EXCEPT !.adc_powered = v.POWER, !.adc_channel = v.CHS,
              !.conversion_delay = Delay[v.SPEED]]

(* A write of ADC_CONTR.  A START is taken only with the power on; a START  *)
(* during a conversion begins anew, and taking the power away does not end  *)
(* it.  Programs clear FLAG or write back what they have read.              *)
WriteADC_CONTR ==
  \E v \in Control :
    /\ v.FLAG => ADC_CONTR.FLAG
    /\ ADC_CONTR' = v
    /\ IF Takes(v)
       THEN /\ adc' = Started(v)
            /\ adc_start' = [channel |-> v.CHS, speed |-> v.SPEED]
            /\ adc_since' = 0
       ELSE /\ adc' = [adc EXCEPT !.adc_powered = v.POWER]
            /\ UNCHANGED <<adc_start, adc_since>>
    /\ adc_done' = FALSE
    /\ UNCHANGED adc_sfr

(* The registers the converter reads when a conversion ends.                *)
WriteSetup ==
  \E s \in Setups :
    /\ adc_sfr' = [adc_sfr EXCEPT !.P1ASF = s.P1ASF, !.AUXR1 = s.AUXR1, !.CLK_DIV = s.CLK_DIV]
    /\ adc_done' = FALSE
    /\ UNCHANGED <<adc, ADC_CONTR, adc_start, adc_since>>

Ended == [ADC_CONTR EXCEPT !.FLAG = TRUE, !.START = FALSE]

AdcEnds == adc.conversion_delay = 1

AdcTick ==
  IF adc.conversion_delay = 0 THEN adc_done' = FALSE /\ UNCHANGED
       <<adc, ADC_CONTR, adc_sfr, adc_start, adc_since>>
  ELSE /\ adc' = [adc EXCEPT !.conversion_delay = @ - 1]
       /\ IF AdcEnds
          THEN LET r == Aligned(Converted)
               IN /\ adc_sfr' = [adc_sfr EXCEPT !.RES = r.RES, !.RESL = r.RESL]
                  /\ ADC_CONTR' = Ended
                  /\ adc_since' = -1
          ELSE adc_since' = adc_since + 1 /\ UNCHANGED <<adc_sfr, ADC_CONTR>>
       /\ adc_done' = AdcEnds
       /\ UNCHANGED adc_start

(* The reset of the part clears the registers; the converter has no         *)
(* reset(), so a conversion on its way goes on and will set FLAG.           *)
AdcReset ==
  /\ ADC_CONTR' = [POWER |-> FALSE, START |-> FALSE, FLAG |-> FALSE, SPEED |-> 0, CHS |-> 0]
  /\ adc' = [adc EXCEPT !.adc_powered = FALSE]
  /\ adc_sfr' = [RES |-> 0, RESL |-> 0, P1ASF |-> {}, AUXR1 |-> FALSE, CLK_DIV |-> FALSE]
  /\ adc_done' = FALSE
  /\ UNCHANGED <<adc_start, adc_since>>

AdcInit ==
  /\ \E part \in AdcParts, input \in [Channels -> Analog] :
       adc = [part |-> part, conversion_delay |-> 0, adc_channel |-> 0,
              adc_powered |-> FALSE, adc_input |-> input]
  /\ ADC_CONTR = [POWER |-> FALSE, START |-> FALSE, FLAG |-> FALSE, SPEED |-> 0, CHS |-> 0]
  /\ adc_sfr = [RES |-> 0, RESL |-> 0, P1ASF |-> {}, AUXR1 |-> FALSE, CLK_DIV |-> FALSE]
  /\ adc_start = [channel |-> 0, speed |-> 0]
  /\ adc_since = -1
  /\ adc_done = FALSE

AdcNext == WriteADC_CONTR \/ WriteSetup \/ AdcTick \/ AdcReset

AdcSpec == AdcInit /\ [][AdcNext]_adc_vars

-----------------------------------------------------------------------------
(* Every variable stays in its range; the power the converter remembers is  *)
(* the bit's.                                                               *)
AdcTypeOK ==
  /\ adc \in [part : AdcParts, conversion_delay : Nat, adc_channel : Channels,
              adc_powered : BOOLEAN, adc_input : [Channels -> 0..1023]]
  /\ ADC_CONTR \in Control
  /\ adc_sfr \in [RES : Bytes, RESL : Bytes, P1ASF : SUBSET Channels,
                  AUXR1 : BOOLEAN, CLK_DIV : BOOLEAN]
  /\ adc_start \in [channel : Channels, speed : Speeds]
  /\ adc_since \in Nat \cup {-1}
  /\ adc_done \in BOOLEAN
  /\ adc.adc_powered = ADC_CONTR.POWER

(* A conversion belongs to the START taken last, whatever was written into  *)
(* ADC_CONTR meanwhile: it converts that channel, and what is left of its   *)
(* time and what has passed add up to that START's time, so it never ends   *)
(* early or late.                                                           *)
ConvertsLastStart ==
  IF adc_since = -1 THEN adc.conversion_delay = 0
  ELSE /\ adc.conversion_delay > 0
       /\ adc.conversion_delay + adc_since = Delay[adc_start.speed]
       /\ adc.adc_channel = adc_start.channel

(* A program that has the converter on and waits for START to go away never *)
(* waits in vain: while START reads as set a conversion runs.               *)
StartIsAnswered == ADC_CONTR.START /\ ADC_CONTR.POWER => adc.conversion_delay > 0

(* Both: every START is answered, by its own conversion and in its time.    *)
StartsConvert == ConvertsLastStart /\ StartIsAnswered

(* What a conversion leaves, read with the alignment the part's bit says,   *)
(* is the channel's ten-bit input, or 0 for a channel that is not analog.   *)
Read(adrj, r) == IF adrj THEN r.RES * 256 + r.RESL ELSE r.RES * 4 + r.RESL

ResultReads ==
  [][ adc_done' =>
        LET adrj == IF adc.part = "STC15" THEN adc_sfr.CLK_DIV ELSE adc_sfr.AUXR1
        IN Read(adrj, adc_sfr') =
             IF adc_start.channel \in adc_sfr.P1ASF THEN adc.adc_input[adc_start.channel]
             ELSE 0 ]_adc_vars

=============================================================================
