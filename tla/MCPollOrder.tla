----------------------------- MODULE MCPollOrder -----------------------------
(* The sources of the parts of the 8051 family with their poll priorities,  *)
(* in the orders their mk_hw_elements() give.                               *)
EXTENDS PollOrder

Timers == <<"timer #0", "timer #1">>
Serial == <<"serial transmit", "serial receive">>
Interrupt == <<"external #0", "external #1", "PCA_CCF0", "PCA_CCF1", "PCA_CF">>
SecondTimer == <<"timer #2 TF2", "timer #2 EXF2">>
Pca == <<"PCA module #4", "PCA module #3", "PCA module #2", "PCA module #1",
         "PCA module #0", "PCA counter">>

FamilySource == UNION {ToSet(s) : s \in {Timers, Serial, Interrupt, SecondTimer, Pca}}

FamilyPoll ==
  [s \in FamilySource |->
     CASE s = "external #0" -> 1
       [] s = "timer #0" -> 2
       [] s = "external #1" -> 3
       [] s = "timer #1" -> 4
       [] s \in ToSet(Pca) -> 5
       [] s \in ToSet(Serial) -> 6
       [] OTHER -> 7]

PcaSource == ToSet(Pca)

(* The 8051, the 8052, which the STC89 is too, and the 89C51R.              *)
Order51 == Timers \o Serial \o Interrupt
Order52 == Order51 \o SecondTimer
Order89C51R == Order52 \o Pca

(* The STC12 and the STC15F have both timers, the STC15W has no Timer 1.    *)
Stc12Order == Order51 \o Pca
Stc15WOrder == <<"timer #0">> \o Serial \o Interrupt \o Pca

FamilyOrders == {Order51, Order52, Order89C51R, Stc12Order}

Orders15W == {Stc15WOrder}

=============================================================================
