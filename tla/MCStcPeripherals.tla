--------------------------- MODULE MCStcPeripherals ---------------------------
(* Instances of the modules of the STC parts that are small: the counter    *)
(* array with bytes of two values, the converter alone and under the        *)
(* trace recorder, the watchdog, and the control of the simulation.  They   *)
(* share no state here, so a behaviour has one of them move and leaves the  *)
(* others as they are.                                                      *)
EXTENDS StcPca, StcTrace, StcWdt, SimControl, TLC

VARIABLE part   \* what moves

all == <<pca_vars, trace_vars, wdt_vars, sim_vars, part>>

(* Sources 0, 4 and the others divide by 4, 1 and 2.                        *)
Divisors == [k \in {0, 1, 4, 5, 6, 7} |-> CASE k = 0 -> 4 [] k = 4 -> 1 [] OTHER -> 2]

Toggling == {"ECOM", "MAT", "TOG"}

(* Every source with the module off, toggling at a divided clock and at the *)
(* overflows of Timer 0, PWM at the undivided clock, and two captures.      *)
UsesOfPca ==
  ((0..4) \X {{}})
    \cup {<<1, Toggling>>, <<2, Toggling>>, <<4, {"ECOM", "PWM"}>>, <<0, {"CAPP"}>>,
          <<4, {"CAPP", "CAPN"}>>}

BothLevels == {[cex |-> b, eci |-> b] : b \in BOOLEAN}

Delays == 0 :> 3 @@ 1 :> 2

(* The alignment bits agree in two of them.                                 *)
AdcSetups ==
  {[P1ASF |-> {0, 1}, AUXR1 |-> FALSE, CLK_DIV |-> FALSE],
   [P1ASF |-> {1}, AUXR1 |-> TRUE, CLK_DIV |-> TRUE],
   [P1ASF |-> {0, 1}, AUXR1 |-> TRUE, CLK_DIV |-> FALSE]}

Scales == 0 :> 2 @@ 1 :> 4 @@ 2 :> 8

(* What does not move has one initial state; under the trace one channel is *)
(* high and the other low.                                                  *)
PeripheralsInit ==
  /\ part \in {"pca", "adc", "trace", "wdt", "sim"}
  /\ PcaInit /\ TraceInit /\ WdtInit /\ SimInit
  /\ part # "pca" => module.nr = 1 /\ ~p1.pins.cex
  /\ part # "trace" => chip.watched = "ADC" /\ chip.port = 1
  /\ part \notin {"adc", "trace"} => adc.part = "STC12" /\ \A c \in Channels : adc.adc_input[c] = 0
  /\ part = "trace" => adc.adc_input[0] # adc.adc_input[1]
  /\ part # "sim" => PC = 1

Only(name, next, still) == part = name /\ next /\ UNCHANGED <<still, part>>

PeripheralsNext ==
  \/ Only("pca", PcaNext, <<trace_vars, wdt_vars, sim_vars>>)
  \/ Only("adc", AdcNext, <<trace_only, pca_vars, wdt_vars, sim_vars>>)
  \/ Only("trace", TraceNext, <<pca_vars, wdt_vars, sim_vars>>)
  \/ Only("wdt", WdtNext, <<pca_vars, trace_vars, sim_vars>>)
  \/ Only("sim", SimNext, <<pca_vars, trace_vars, wdt_vars>>)

PeripheralsSpec == PeripheralsInit /\ [][PeripheralsNext]_all

(* Every variable of every part stays in its range.                         *)
PeripheralsTypeOK == PcaTypeOK /\ TraceTypeOK /\ WdtTypeOK /\ SimTypeOK

=============================================================================
