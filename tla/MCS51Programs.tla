---------------------------- MODULE MCS51Programs ----------------------------
(* S51Core with whole programs: a main program in 0..4, a handler for each  *)
(* of two sources in 5..8.  TF0 has the higher priority and may be raised   *)
(* in every cycle.                                                          *)
EXTENDS S51Core

MCAddr == 0..8
MCSucc == [a \in MCAddr |-> (a + 1) % 9]
MCSource == {"INT0", "TF0"}
MCItSources == <<"INT0", "TF0">>
MCVector == [INT0 |-> 5, TF0 |-> 7]
MCEnable == {"EX0", "ET0"}
MCEnableOf == [INT0 |-> "EX0", TF0 |-> "ET0"]
MCIpBit == {"PX0", "PT0"}
MCPriorityMask == [INT0 |-> {"PX0"}, TF0 |-> {"PT0"}]
MCRaised == {{}, {"INT0"}, {"TF0"}, MCSource}
MCPinSource == {"INT0"}

(* Enables both, then loops over a call of the subroutine at 4 or the idle  *)
(* mode.                                                                    *)
Program ==
  <<{WriteIP({"PT0"})}, {WriteIE(TRUE, MCEnable)}, {Call(4), WritePCON(TRUE, FALSE), Nop},
    {Jump(2)}, {Ret}, {Call(4), WriteEA(TRUE)}, {Reti}, {Nop}, {Reti}>>

MCRom == [a \in MCAddr |-> Program[a + 1]]

(* It is laid out as a program whose returns pair up.                       *)
MCKind == [a \in MCAddr |-> IF a = 4 THEN "sub" ELSE IF a < 4 THEN "main" ELSE "isr"]
MCDepth == [a \in MCAddr |-> IF a < 4 \/ a = 5 THEN 1 ELSE 0]

ASSUME ProgramLaidOut == LaidOut(MCKind, MCDepth, 1)

=============================================================================
