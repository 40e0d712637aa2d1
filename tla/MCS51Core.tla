------------------------------ MODULE MCS51Core ------------------------------
(* A small instance of S51Core: three sources, a pin whose flag acceptance  *)
(* clears and the receiver and the transmitter, whose flags the program     *)
(* clears and which share an enable and a priority bit; two addresses, of   *)
(* which the second is the vector; every address may hold every             *)
(* instruction of Code, so that the runs range over all programs made of    *)
(* them.  With it the parts that every 8051 has and that share no state     *)
(* with these actions: arithmetic, a port, the address space of the         *)
(* registers, and Timer 2 of the 8052 with bytes of two values, and the     *)
(* list of sources that is built before anything runs.  A behaviour has one *)
(* of them move and leaves the others as they are.                          *)
EXTENDS S51Core, MCPollOrder, AddressSpace, S51Alu, S51Ports, S52Timer2, TLC

VARIABLE part   \* what moves

all == <<vars, list_vars, space_vars, alu_vars, port_vars, w2_vars, part>>

MCAddr == 0..1
MCSucc == [a \in MCAddr |-> (a + 1) % 2]
MCSource == {"INT0", "RI", "TI"}
MCItSources == <<"INT0", "RI", "TI">>
MCVector == [s \in MCSource |-> 1]
MCEnable == {"EX0", "ES"}
MCEnableOf == [INT0 |-> "EX0", RI |-> "ES", TI |-> "ES"]
MCIpBit == {"PX0", "PS"}
MCPriorityMask == [INT0 |-> {"PX0"}, RI |-> {"PS"}, TI |-> {"PS"}]
MCClrBit == {"INT0"}
MCPinSource == {"INT0"}
MCRaised == {{}, {"RI", "TI"}}

Code ==
  {Nop, Call(0), Ret, Reti, WriteEA(FALSE), WriteIP({"PS"}),
   WriteIE(TRUE, MCEnable), WritePCON(TRUE, FALSE), WritePCON(FALSE, TRUE),
   WriteFlag("RI", FALSE), WriteFlag("TI", FALSE)}

AnyProgram == [a \in MCAddr |-> Code]

ChipSizes == "iram" :> 6 @@ "ram" :> 2

(* Reload and capture with T2EX, reload as a counter, and the clock of the  *)
(* UART, from cycles and from the pin.                                      *)
SetupsOfT2 ==
  {[baud |-> FALSE, CP_RL2 |-> FALSE, C_T |-> FALSE, EXEN2 |-> TRUE],
   [baud |-> FALSE, CP_RL2 |-> TRUE, C_T |-> FALSE, EXEN2 |-> TRUE],
   [baud |-> FALSE, CP_RL2 |-> FALSE, C_T |-> TRUE, EXEN2 |-> FALSE],
   [baud |-> TRUE, CP_RL2 |-> FALSE, C_T |-> FALSE, EXEN2 |-> FALSE],
   [baud |-> TRUE, CP_RL2 |-> FALSE, C_T |-> TRUE, EXEN2 |-> TRUE]}

(* One of the two pins is low at a time.                                    *)
LevelsOfT2 == [T : BOOLEAN, T2EX : BOOLEAN] \ {[T |-> FALSE, T2EX |-> FALSE]}

(* The fixed index of the PCA is right in the orders of these parts.        *)
ASSUME FixedIndexFits == \A o \in Orders : FixedFits(o)

(* What does not move has one initial state.                                *)
S51Init ==
  /\ part \in {"core", "list", "space", "alu", "port", "timer2"}
  /\ Init /\ ListInit /\ SpaceInit /\ AluInit /\ PortsInit /\ T2Init
  /\ part # "list" => to_add = Order51
  /\ part # "timer2" => w2.T_edge = 0 /\ w2.t2ex_edge = 0

(* All the sources are added.                                               *)
Built == to_add = <<>> /\ UNCHANGED list_vars

Only(name, next, still) == part = name /\ next /\ UNCHANGED <<still, part>>

S51Next ==
  \/ Only("core", Next, <<list_vars, space_vars, alu_vars, port_vars, w2_vars>>)
  \/ Only("list", ListNext \/ Built, <<vars, space_vars, alu_vars, port_vars, w2_vars>>)
  \/ Only("space", SpaceNext, <<vars, list_vars, alu_vars, port_vars, w2_vars>>)
  \/ Only("alu", AluNext, <<vars, list_vars, space_vars, port_vars, w2_vars>>)
  \/ Only("port", PortsNext, <<vars, list_vars, space_vars, alu_vars, w2_vars>>)
  \/ Only("timer2", T2Next, <<vars, list_vars, space_vars, alu_vars, port_vars>>)

S51Spec == S51Init /\ [][S51Next]_all

(* Every variable of every part stays in its range.                         *)
S51TypeOK == TypeOK /\ SpaceTypeOK /\ AluTypeOK /\ PortsTypeOK /\ T2TypeOK

=============================================================================
