----------------------------- MODULE S51CoreProof -----------------------------
(***************************************************************************)
(* What holds of S51Core for every set of addresses, sources and programs. *)
(* Every stage of do_inst() is a function on machines, so there is a lemma *)
(* for each stage and each thing it preserves, and the theorems about Next *)
(* put the stages together.                                                *)
(***************************************************************************)
EXTENDS S51Core, FiniteSetTheorems, SequenceTheorems, TLAPS

(* The bits of the types that every proof needs: an instruction carries     *)
(* what its operation says.                                                 *)
LEMMA InstructionFields ==
  ASSUME NEW i \in Instruction
  PROVE  /\ i.op \in Op
         /\ i.op \in {"jmp", "call"} => i.to \in Addr
         /\ i.op = "ie" => i.ea \in BOOLEAN /\ i.bits \in SUBSET Enable
         /\ i.op = "ea" => i.ea \in BOOLEAN
         /\ i.op = "ip" => i.bits \in SUBSET IpBit
         /\ i.op = "pcon" => i.idl \in BOOLEAN /\ i.pd \in BOOLEAN
         /\ i.op = "flag" => i.src \in Source /\ i.on \in BOOLEAN
  BY DEF Instruction, Op, Nop, Ret, Reti

(* Removing the innermost element of a sequence.                            *)
LEMMA FrontOfSeq ==
  ASSUME NEW S, NEW s \in Seq(S), s # <<>>
  PROVE  /\ Front(s) \in Seq(S)
         /\ Len(Front(s)) = Len(s) - 1
         /\ \A k \in 1..(Len(s) - 1) : Front(s)[k] = s[k]
         /\ Last(s) \in S
<1>1. Len(s) \in Nat \ {0}
  BY EmptySeq
<1>2. \A k \in 1..(Len(s) - 1) : s[k] \in S
  BY <1>1, ElementOfSeq
<1>3. Last(s) \in S
  BY <1>1, ElementOfSeq DEF Last
<1>4. Front(s) \in Seq(S) /\ Len(Front(s)) = Len(s) - 1
  <2>. DEFINE f == SubSeq(s, 1, Len(s) - 1)
  <2>1. 1 \in Int /\ Len(s) - 1 \in Int
    BY <1>1
  <2>2. f \in Seq(S) /\ Len(f) = IF 1 <= Len(s) - 1 THEN Len(s) - 1 - 1 + 1 ELSE 0
    BY <1>2, <2>1, SubSeqProperties
  <2>3. Front(s) = f
    BY DEF Front
  <2>. HIDE DEF f
  <2>. QED
    BY <1>1, <2>2, <2>3
<1>5. ASSUME NEW k \in 1..(Len(s) - 1)
      PROVE  Front(s)[k] = s[k]
  <2>1. k \in 1..(Len(s) - 1 - 1 + 1) /\ 1 + k - 1 = k
    BY <1>1
  <2>2. SubSeq(s, 1, Len(s) - 1)[k] = s[1 + k - 1]
    BY <1>1, <1>2, <2>1, SubSeqProperties
  <2>. QED
    BY <2>1, <2>2 DEF Front
<1>. QED
  BY <1>3, <1>4, <1>5

LEMMA PushType ==
  ASSUME NEW m \in Machine, NEW isr \in BOOLEAN
  PROVE  Push(m, isr) \in Machine
<1>1. [ret |-> m.PC, it |-> isr] \in Frame
  BY DEF Frame, Machine
<1>2. m.stack \in Seq(Frame) /\ m.paired \in BOOLEAN
  BY DEF Machine
<1>3. Len(m.stack) = Slots => Tail(m.stack) \in Seq(Frame)
  <2>1. Len(m.stack) = Slots => m.stack # <<>>
    BY SizeAssumption, EmptySeq
  <2>. QED
    BY <1>2, <2>1, HeadTailProperties
<1>4. (IF Len(m.stack) = Slots THEN Tail(m.stack) ELSE m.stack) \in Seq(Frame)
  BY <1>2, <1>3
<1>5. Append(IF Len(m.stack) = Slots THEN Tail(m.stack) ELSE m.stack,
             [ret |-> m.PC, it |-> isr]) \in Seq(Frame)
  BY <1>1, <1>4
<1>. QED
  BY <1>2, <1>5 DEF Push, Machine

LEMMA PopType ==
  ASSUME NEW m \in Machine, NEW isr \in BOOLEAN, NEW stale \in Addr
  PROVE  Pop(m, isr, stale) \in Machine
<1>1. m.stack \in Seq(Frame) /\ m.paired \in BOOLEAN
  BY DEF Machine
<1>2. CASE m.stack = <<>>
  BY <1>2 DEF Pop, Machine
<1>3. CASE m.stack # <<>>
  <2>1. Front(m.stack) \in Seq(Frame) /\ Last(m.stack) \in Frame
    BY <1>1, <1>3, FrontOfSeq
  <2>2. Last(m.stack).ret \in Addr /\ Last(m.stack).it \in BOOLEAN
    BY <2>1 DEF Frame
  <2>. QED
    BY <1>1, <1>3, <2>1, <2>2 DEF Pop, Machine
<1>. QED
  BY <1>2, <1>3

LEMMA PopLevelType ==
  ASSUME NEW m \in Machine
  PROVE  PopLevel(m) \in Machine
<1>1. m.levels \in Seq(Level)
  BY DEF Machine
<1>2. m.levels # <<>> => Front(m.levels) \in Seq(Level)
  BY <1>1, FrontOfSeq
<1>. QED
  BY <1>2 DEF PopLevel, Machine

(* fetch and execute keep the machine well-typed.                           *)
LEMMA ExecInstType ==
  ASSUME NEW m \in Machine, NEW i \in Instruction, NEW stale \in Addr
  PROVE  ExecInst(m, i, stale) \in Machine
<1>. DEFINE n == [m EXCEPT !.PC = Succ[m.PC], !.was_reti = FALSE]
<1>1. n \in Machine
  BY AddrAssumption DEF Machine
<1>2. Push(n, FALSE) \in Machine /\ Pop(n, FALSE, stale) \in Machine
      /\ PopLevel(Pop(n, TRUE, stale)) \in Machine
  BY <1>1, PushType, PopType, PopLevelType
<1>. HIDE DEF n
<1>3. CASE i.op = "nop"
  BY <1>1, <1>3 DEF ExecInst, n
<1>4. CASE i.op = "jmp"
  BY <1>1, <1>4, InstructionFields DEF ExecInst, n, Machine
<1>5. CASE i.op = "call"
  BY <1>2, <1>5, InstructionFields DEF ExecInst, n, Machine
<1>6. CASE i.op = "ret"
  BY <1>2, <1>6 DEF ExecInst, n
<1>7. CASE i.op = "reti"
  BY <1>2, <1>7 DEF ExecInst, n, Machine
<1>8. CASE i.op = "ie"
  BY <1>1, <1>8, InstructionFields DEF ExecInst, n, Machine
<1>9. CASE i.op = "ea"
  BY <1>1, <1>9, InstructionFields DEF ExecInst, n, Machine
<1>10. CASE i.op = "ip"
  BY <1>1, <1>10, InstructionFields DEF ExecInst, n, Machine
<1>11. CASE i.op = "pcon"
  BY <1>1, <1>11, InstructionFields DEF ExecInst, n, Machine
<1>12. CASE i.op = "flag"
  <2>1. ExecInst(m, i, stale) = [n EXCEPT !.req = IF i.on THEN @ \cup {i.src} ELSE @ \ {i.src}]
    BY <1>12 DEF ExecInst, n
  <2>2. (IF i.on THEN n.req \cup {i.src} ELSE n.req \ {i.src}) \in SUBSET Source
    BY <1>1, <1>12, InstructionFields DEF Machine
  <2>. QED
    BY <1>1, <2>1, <2>2 DEF Machine
<1>. QED
  BY <1>3, <1>4, <1>5, <1>6, <1>7, <1>8, <1>9, <1>10, <1>11, <1>12,
     InstructionFields DEF Op

LEMMA TickHwType ==
  ASSUME NEW m \in Machine, NEW raised \in Raised
  PROVE  TickHw(m, raised) \in Machine
<1>1. m.req \cup raised \in SUBSET Source
  BY SourceAssumption DEF Machine
<1>. QED
  BY <1>1 DEF TickHw, Machine

(* Priorities are 0 and 1, and the level in service is one of them or -1.   *)
LEMMA PriorityRange ==
  ASSUME NEW m \in Machine, NEW s
  PROVE  PriorityOf(m, s) \in {0, 1}
  BY DEF PriorityOf

LEMMA ReadySource ==
  ASSUME NEW m \in Machine, NEW k \in ReadyPositions(m)
  PROVE  /\ ItSources[k] \in Source
         /\ Ready(m, ItSources[k])
<1>1. k \in 1..Len(ItSources) /\ Ready(m, ItSources[k])
  BY SourceAssumption DEF ReadyPositions
<1>. QED
  BY <1>1, SourceAssumption, ElementOfSeq

LEMMA AcceptType ==
  ASSUME NEW m \in Machine, NEW s \in Source
  PROVE  Accept(m, s) \in Machine
<1>. DEFINE lev == [level |-> PriorityOf(m, s), PC |-> m.PC, src |-> s]
            n == Push(m, TRUE)
            req == IF s \in ClrBit THEN n.req \ {s} ELSE n.req
<1>1. lev \in Level
  BY PriorityRange DEF Level, Machine
<1>2. n \in Machine
  BY PushType
<1>3. Append(m.levels, lev) \in Seq(Level)
  BY <1>1 DEF Machine
<1>4. Vector[s] \in Addr
  BY SourceAssumption
<1>5. req \in SUBSET Source
  BY <1>2 DEF Machine
<1>6. Accept(m, s) = [n EXCEPT !.PC = Vector[s], !.state = "stGO", !.idl = FALSE,
                               !.levels = Append(m.levels, lev), !.req = req]
  BY DEF Accept
<1>. HIDE DEF n, lev, req
<1>. QED
  BY <1>2, <1>3, <1>4, <1>5, <1>6 DEF Machine

LEMMA NotTakenType ==
  ASSUME NEW m \in Machine
  PROVE  IdlePd(NotTaken(m)) \in Machine
<1>1. NotTaken(m) \in Machine
  BY DEF NotTaken, WakeUp, Machine
<1>. QED
  BY <1>1 DEF IdlePd, Machine

LEMMA FinishInstType ==
  ASSUME NEW m \in Machine, FinishInst(m)
  PROVE  cpu' \in Machine /\ result' \in {"resGO", "resINTERRUPT", "resSELFJUMP"}
<1>1. ASSUME NEW k \in FirstReady(m), cpu' = Accept(m, ItSources[k])
      PROVE  cpu' \in Machine
  BY <1>1, ReadySource, AcceptType DEF FirstReady
<1>. QED
  BY <1>1, NotTakenType DEF FinishInst

(* The machine that executing an instruction and ticking the hardware       *)
(* leaves for the rest of do_inst().                                        *)
LEMMA RunStageType ==
  ASSUME cpu \in Machine, NEW i \in Rom[cpu.PC], NEW raised \in Raised,
         NEW stale \in Stale(cpu, i)
  PROVE  /\ i \in Instruction
         /\ stale \in Addr
         /\ TickHw(ExecInst(cpu, i, stale), raised) \in Machine
<1>1. i \in Instruction
  BY AddrAssumption DEF Machine
<1>2. stale \in Addr
  BY AddrAssumption DEF Stale
<1>. QED
  BY <1>1, <1>2, ExecInstType, TickHwType

-----------------------------------------------------------------------------
(* Every variable stays in its range, whatever the program and the          *)
(* hardware do.                                                             *)
LEMMA ResetType == ResetMachine \in Machine
  BY AddrAssumption, EmptySeq DEF ResetMachine, Machine

LEMMA TypeInit == Init => TypeOK
  BY ResetType DEF Init, TypeOK

LEMMA TypeStep == TypeOK /\ [Next]_vars => TypeOK'
<1>. SUFFICES ASSUME TypeOK, [Next]_vars
              PROVE  TypeOK'
  OBVIOUS
<1>1. CASE RunInst
  <2>1. PICK i \in Rom[cpu.PC], raised \in Raised : \E stale \in Stale(cpu, i) :
          LET m == TickHw(ExecInst(cpu, i, stale), raised)
          IN /\ FinishInst(m)
             /\ inst' = i.op
             /\ ticked' = [cpu |-> Cycles(i) + AcceptCycle, hw |-> Cycles(i)]
    BY <1>1 DEF RunInst
  <2>2. PICK stale \in Stale(cpu, i) :
          LET m == TickHw(ExecInst(cpu, i, stale), raised)
          IN /\ FinishInst(m)
             /\ inst' = i.op
             /\ ticked' = [cpu |-> Cycles(i) + AcceptCycle, hw |-> Cycles(i)]
    BY <2>1
  <2>. DEFINE m == TickHw(ExecInst(cpu, i, stale), raised)
  <2>3. i \in Instruction /\ m \in Machine
    BY RunStageType DEF TypeOK
  <2>4. cpu' \in Machine /\ result' \in {"resGO", "resINTERRUPT", "resSELFJUMP"}
    BY <2>2, <2>3, FinishInstType
  <2>5. Cycles(i) \in {1, 2} /\ AcceptCycle \in {0, 1}
    BY DEF Cycles, AcceptCycle
  <2>6. ticked' \in [cpu : 0..3, hw : 0..2]
    <3>. HIDE DEF m
    <3>1. ticked' = [cpu |-> Cycles(i) + AcceptCycle, hw |-> Cycles(i)]
      BY <2>2 DEF m
    <3>. QED
      BY <2>5, <3>1
  <2>. QED
    BY <2>2, <2>3, <2>4, <2>6, InstructionFields DEF TypeOK
<1>2. CASE IdleInst
  <2>1. cpu' \in Machine /\ result' \in {"resGO", "resINTERRUPT", "resSELFJUMP"}
    BY <1>2, FinishInstType DEF IdleInst, TypeOK
  <2>2. ticked' \in [cpu : 0..3, hw : 0..2]
    BY <1>2 DEF IdleInst, AcceptCycle
  <2>. QED
    BY <1>2, <2>1, <2>2 DEF IdleInst, TypeOK
<1>3. CASE PinChange
  <2>1. PICK s \in PinSource \ cpu.req : cpu' = [cpu EXCEPT !.req = @ \cup {s}]
    BY <1>3 DEF PinChange
  <2>2. cpu.req \cup {s} \in SUBSET Source
    BY <2>1, SourceAssumption DEF TypeOK, Machine
  <2>3. cpu' \in Machine
    BY <2>1, <2>2 DEF TypeOK, Machine
  <2>. QED
    BY <1>3, <2>3 DEF PinChange, TypeOK
<1>4. CASE Reset
  BY <1>4, ResetType DEF Reset, TypeOK
<1>5. CASE UNCHANGED vars
  BY <1>5 DEF vars, TypeOK
<1>. QED
  BY <1>1, <1>2, <1>3, <1>4, <1>5 DEF Next, DoInst

THEOREM TypeCorrect == Spec => []TypeOK
<1>. QED
  BY TypeInit, TypeStep, PTL DEF Spec

-----------------------------------------------------------------------------
(***************************************************************************)
(* The levels in service.  Executing an instruction leaves at most the     *)
(* innermost one, and only RETI does; the rest of do_inst() enters at most *)
(* one, above it.                                                          *)
(***************************************************************************)
LEMMA ExecInstLevels ==
  ASSUME NEW m \in Machine, NEW i \in Instruction, NEW stale \in Addr
  PROVE  /\ ExecInst(m, i, stale).levels =
              IF i.op = "reti" /\ m.levels # <<>> THEN Front(m.levels) ELSE m.levels
         /\ i.op \in {"reti", "ie"} => ExecInst(m, i, stale).was_reti
<1>. DEFINE n == [m EXCEPT !.PC = Succ[m.PC], !.was_reti = FALSE]
<1>1. n \in Machine /\ n.levels = m.levels
  BY AddrAssumption DEF Machine
<1>. HIDE DEF n
<1>2. ASSUME NEW isr \in BOOLEAN
      PROVE  /\ Push(n, isr) \in Machine /\ Push(n, isr).levels = m.levels
             /\ Pop(n, isr, stale) \in Machine /\ Pop(n, isr, stale).levels = m.levels
  <2>1. Push(n, isr).levels = n.levels
    BY <1>1 DEF Push, Machine
  <2>2. Pop(n, isr, stale).levels = n.levels
    BY <1>1 DEF Pop, Machine
  <2>. QED
    BY <1>1, <2>1, <2>2, PushType, PopType
<1>3. CASE i.op \in {"nop", "jmp", "ie", "ea", "ip", "pcon", "flag"}
  BY <1>1, <1>3 DEF ExecInst, n, Machine
<1>4. CASE i.op = "call"
  BY <1>2, <1>4 DEF ExecInst, n, Machine
<1>5. CASE i.op = "ret"
  BY <1>2, <1>5 DEF ExecInst, n
<1>6. CASE i.op = "reti"
  <2>. DEFINE p == Pop(n, TRUE, stale)
  <2>1. p \in Machine /\ p.levels = m.levels
    BY <1>2
  <2>2. ExecInst(m, i, stale) = [PopLevel(p) EXCEPT !.was_reti = TRUE]
    BY <1>6 DEF ExecInst, n
  <2>. HIDE DEF p
  <2>3. PopLevel(p) \in Machine
    BY <2>1, PopLevelType
  <2>4. PopLevel(p).levels = IF m.levels # <<>> THEN Front(m.levels) ELSE m.levels
    BY <2>1 DEF PopLevel, Machine
  <2>. QED
    BY <1>6, <2>2, <2>3, <2>4 DEF Machine
<1>. QED
  BY <1>3, <1>4, <1>5, <1>6, InstructionFields DEF Op

(* What the rest of do_inst() may do to the levels of the machine it gets.  *)
EntersAbove(before, after, top) ==
  \E l \in Level : l.level > top /\ after = Append(before, l)

LEMMA AcceptLevels ==
  ASSUME NEW m \in Machine, NEW s \in Source, Ready(m, s)
  PROVE  EntersAbove(m.levels, Accept(m, s).levels, TopLevel(m))
<1>. DEFINE lev == [level |-> PriorityOf(m, s), PC |-> m.PC, src |-> s]
<1>1. lev \in Level
  BY PriorityRange DEF Level, Machine
<1>2. lev.level > TopLevel(m)
  BY DEF Ready
<1>3. Push(m, TRUE) \in Machine
  BY PushType
<1>4. Accept(m, s).levels = Append(m.levels, lev)
  BY <1>3 DEF Accept, Machine
<1>. HIDE DEF lev
<1>. QED
  BY <1>1, <1>2, <1>4 DEF EntersAbove

LEMMA FinishInstLevels ==
  ASSUME NEW m \in Machine, FinishInst(m)
  PROVE  \/ cpu'.levels = m.levels
         \/ ~m.was_reti /\ EntersAbove(m.levels, cpu'.levels, TopLevel(m))
<1>1. CASE SelfJump(m) /\ cpu' = m
  BY <1>1
<1>2. ASSUME Accepts(m), NEW k \in FirstReady(m), cpu' = Accept(m, ItSources[k])
      PROVE  ~m.was_reti /\ EntersAbove(m.levels, cpu'.levels, TopLevel(m))
  <2>1. ItSources[k] \in Source /\ Ready(m, ItSources[k])
    BY ReadySource DEF FirstReady
  <2>. QED
    BY <1>2, <2>1, AcceptLevels DEF Accepts, Takes, Polls
<1>3. ASSUME cpu' = IdlePd(NotTaken(m))
      PROVE  cpu'.levels = m.levels
  <2>1. NotTaken(m) \in Machine /\ NotTaken(m).levels = m.levels
    BY DEF NotTaken, WakeUp, Machine
  <2>. QED
    BY <1>3, <2>1 DEF IdlePd, Machine
<1>. QED
  BY <1>1, <1>2, <1>3 DEF FinishInst

(* Every step leaves the levels alone, enters one above the innermost one   *)
(* (and then it executed no RETI and no write of IE), leaves the innermost  *)
(* one by RETI, or resets.                                                  *)
LevelsStep ==
  \/ cpu'.levels = cpu.levels
  \/ inst' \notin {"reti", "ie"} /\ EntersAbove(cpu.levels, cpu'.levels, TopLevel(cpu))
  \/ inst' = "reti" /\ cpu.levels # <<>> /\ cpu'.levels = Front(cpu.levels)
  \/ inst' = "reset" /\ cpu'.levels = <<>>

LEMMA EveryLevelsStep == TypeOK /\ [Next]_vars => LevelsStep
<1>. SUFFICES ASSUME TypeOK, [Next]_vars
              PROVE  LevelsStep
  OBVIOUS
<1>. USE DEF LevelsStep
<1>1. CASE RunInst
  <2>1. PICK i \in Rom[cpu.PC], raised \in Raised : \E stale \in Stale(cpu, i) :
          FinishInst(TickHw(ExecInst(cpu, i, stale), raised)) /\ inst' = i.op
    BY <1>1 DEF RunInst
  <2>2. PICK stale \in Stale(cpu, i) :
          FinishInst(TickHw(ExecInst(cpu, i, stale), raised)) /\ inst' = i.op
    BY <2>1
  <2>. DEFINE e == ExecInst(cpu, i, stale)
              m == TickHw(e, raised)
  <2>3. i \in Instruction /\ stale \in Addr /\ m \in Machine /\ cpu \in Machine
    BY RunStageType DEF TypeOK
  <2>4. e \in Machine
    BY <2>3, ExecInstType
  <2>5. m.levels = e.levels /\ m.was_reti = e.was_reti
    <3>. HIDE DEF e
    <3>. QED
      BY <2>4 DEF TickHw, Machine
  <2>6. /\ e.levels = IF i.op = "reti" /\ cpu.levels # <<>> THEN Front(cpu.levels) ELSE cpu.levels
        /\ i.op \in {"reti", "ie"} => e.was_reti
    BY <2>3, ExecInstLevels
  <2>7. \/ cpu'.levels = m.levels
        \/ ~m.was_reti /\ EntersAbove(m.levels, cpu'.levels, TopLevel(m))
    BY <2>2, <2>3, FinishInstLevels
  <2>8. m.levels = cpu.levels => TopLevel(m) = TopLevel(cpu)
    BY DEF TopLevel
  <2>. HIDE DEF e, m
  <2>. QED
    BY <2>2, <2>5, <2>6, <2>7, <2>8
<1>2. CASE IdleInst
  BY <1>2, FinishInstLevels DEF IdleInst, TypeOK
<1>3. CASE PinChange
  BY <1>3 DEF PinChange, TypeOK, Machine
<1>4. CASE Reset
  BY <1>4 DEF Reset, ResetMachine
<1>5. CASE UNCHANGED vars
  BY <1>5 DEF vars
<1>. QED
  BY <1>1, <1>2, <1>3, <1>4, <1>5 DEF Next, DoInst

-----------------------------------------------------------------------------
LEMMA LevelRange ==
  ASSUME NEW lv \in Seq(Level), NEW k \in 1..Len(lv)
  PROVE  lv[k].level \in {0, 1}
<1>1. lv[k] \in Level
  BY ElementOfSeq
<1>. QED
  BY <1>1 DEF Level

(* Only a higher priority interrupts a handler.  With TypeOK, StrictNesting *)
(* is inductive: a step that adds a level adds it above the last one.       *)
LEMMA NestingStep == TypeOK /\ StrictNesting /\ [Next]_vars => StrictNesting'
<1>. SUFFICES ASSUME TypeOK, StrictNesting, [Next]_vars
              PROVE  StrictNesting'
  OBVIOUS
<1>. DEFINE lv == cpu.levels
<1>1. lv \in Seq(Level) /\ Len(lv) \in Nat
  BY DEF TypeOK, Machine
<1>2. CASE cpu'.levels = cpu.levels
  BY <1>2 DEF StrictNesting
<1>3. ASSUME NEW l \in Level, l.level > TopLevel(cpu), cpu'.levels = Append(lv, l)
      PROVE  StrictNesting'
  <2>1. Len(cpu'.levels) = Len(lv) + 1
    BY <1>1, <1>3
  <2>. SUFFICES ASSUME NEW k \in 1..Len(lv)
                PROVE  cpu'.levels[k].level < cpu'.levels[k + 1].level
    BY <1>1, <2>1 DEF StrictNesting
  <2>2. cpu'.levels[k] = lv[k]
    BY <1>1, <1>3
  <2>3. CASE k < Len(lv)
    <3>1. cpu'.levels[k + 1] = lv[k + 1]
      BY <1>1, <1>3, <2>3
    <3>2. lv[k].level < lv[k + 1].level
      BY <1>1, <2>3 DEF StrictNesting
    <3>. QED
      BY <2>2, <3>1, <3>2
  <2>4. CASE k = Len(lv)
    <3>1. cpu'.levels[k + 1] = l
      BY <1>1, <1>3, <2>4
    <3>2. TopLevel(cpu) = lv[k].level
      BY <1>1, <2>4 DEF TopLevel, Last
    <3>3. lv[k].level \in {0, 1} /\ l.level \in {0, 1}
      BY <1>1, LevelRange DEF Level
    <3>. QED
      BY <1>3, <2>2, <3>1, <3>2, <3>3
  <2>. QED
    BY <1>1, <2>3, <2>4
<1>4. ASSUME lv # <<>>, cpu'.levels = Front(lv)
      PROVE  StrictNesting'
  <2>1. Len(cpu'.levels) = Len(lv) - 1 /\ \A k \in 1..(Len(lv) - 1) : cpu'.levels[k] = lv[k]
    BY <1>1, <1>4, FrontOfSeq
  <2>. QED
    BY <1>1, <2>1 DEF StrictNesting
<1>5. CASE cpu'.levels = <<>>
  BY <1>5 DEF StrictNesting
<1>. QED
  BY <1>2, <1>3, <1>4, <1>5, EveryLevelsStep DEF LevelsStep, EntersAbove

(* Only a higher priority interrupts a handler, whatever the program does   *)
(* with RETI, IE and IP: do_interrupt() compares with the level that was    *)
(* pushed at acceptance, not with the current value of IP.                  *)
THEOREM NestingIsStrict == Spec => []StrictNesting
<1>1. Init => StrictNesting
  BY DEF Init, ResetMachine, StrictNesting
<1>. QED
  BY <1>1, NestingStep, TypeInit, TypeStep, PTL DEF Spec

(* With two priorities, at most two handlers are in service.                *)
THEOREM AtMostTwoHandlers == Spec => [](Len(cpu.levels) <= 2)
<1>1. ASSUME TypeOK, StrictNesting
      PROVE  Len(cpu.levels) <= 2
  <2>1. cpu.levels \in Seq(Level) /\ Len(cpu.levels) \in Nat
    BY <1>1 DEF TypeOK, Machine
  <2>. SUFFICES ASSUME Len(cpu.levels) > 2
                PROVE  FALSE
    BY <2>1
  <2>2. /\ cpu.levels[1].level < cpu.levels[1 + 1].level
        /\ cpu.levels[2].level < cpu.levels[2 + 1].level
    BY <1>1, <2>1 DEF StrictNesting
  <2>3. \A k \in {1, 2, 3} : cpu.levels[k].level \in {0, 1}
    BY <2>1, LevelRange
  <2>. QED
    BY <2>2, <2>3
<1>. QED
  BY <1>1, TypeCorrect, NestingIsStrict, PTL

(* A level is left only by RETI or a reset, and the innermost one first.    *)
THEOREM LevelsLeaveInnermostFirst == Spec => LevelsLeaveInOrder
<1>. DEFINE A == cpu'.levels # cpu.levels =>
                   \/ Len(cpu'.levels) > Len(cpu.levels) /\ Front(cpu'.levels) = cpu.levels
                   \/ cpu.levels # <<>> /\ cpu'.levels = Front(cpu.levels) /\ inst' = "reti"
                   \/ cpu'.levels = <<>> /\ inst' = "reset"
<1>1. ASSUME TypeOK, [Next]_vars
      PROVE  [A]_vars
  <2>1. cpu.levels \in Seq(Level) /\ Len(cpu.levels) \in Nat
    BY <1>1 DEF TypeOK, Machine
  <2>2. ASSUME NEW l \in Level, cpu'.levels = Append(cpu.levels, l)
        PROVE  Len(cpu'.levels) > Len(cpu.levels) /\ Front(cpu'.levels) = cpu.levels
    <3>1. cpu'.levels \in Seq(Level) /\ Len(cpu'.levels) = Len(cpu.levels) + 1 /\ cpu'.levels # <<>>
      BY <2>1, <2>2
    <3>2. /\ Front(cpu'.levels) \in Seq(Level)
          /\ Len(Front(cpu'.levels)) = Len(cpu'.levels) - 1
          /\ \A k \in 1..(Len(cpu'.levels) - 1) : Front(cpu'.levels)[k] = cpu'.levels[k]
      BY <3>1, FrontOfSeq
    <3>3. \A k \in 1..Len(cpu.levels) : Front(cpu'.levels)[k] = cpu.levels[k]
      BY <2>1, <2>2, <3>1, <3>2
    <3>4. Len(Front(cpu'.levels)) = Len(cpu.levels)
      BY <2>1, <3>1, <3>2
    <3>. QED
      BY <2>1, <3>1, <3>2, <3>3, <3>4, SeqEqual
  <2>. QED
    BY <1>1, <2>2, EveryLevelsStep DEF LevelsStep, EntersAbove
<1>. QED
  BY <1>1, TypeCorrect, PTL DEF Spec, LevelsLeaveInOrder

-----------------------------------------------------------------------------
(***************************************************************************)
(* S51Core implements NestedInterrupts.                                    *)
(***************************************************************************)
ServingOf(lv) == [k \in DOMAIN lv |-> [src |-> lv[k].src, level |-> lv[k].level]]

LEMMA ServingType ==
  ASSUME NEW lv \in Seq(Level)
  PROVE  /\ ServingOf(lv) \in Seq(Nested!Handler)
         /\ Len(ServingOf(lv)) = Len(lv)
         /\ \A k \in 1..Len(lv) : ServingOf(lv)[k] = [src |-> lv[k].src, level |-> lv[k].level]
         /\ ServingOf(lv) = <<>> <=> lv = <<>>
<1>1. Len(lv) \in Nat /\ DOMAIN lv = 1..Len(lv)
  OBVIOUS
<1>2. \A k \in 1..Len(lv) : [src |-> lv[k].src, level |-> lv[k].level] \in Nested!Handler
  <2>. SUFFICES ASSUME NEW k \in 1..Len(lv)
                PROVE  [src |-> lv[k].src, level |-> lv[k].level] \in Nested!Handler
    OBVIOUS
  <2>1. lv[k] \in Level
    BY ElementOfSeq
  <2>. QED
    BY <2>1 DEF Level, Nested!Handler
<1>3. ServingOf(lv) \in [1..Len(lv) -> Nested!Handler]
  BY <1>1, <1>2 DEF ServingOf
<1>4. ServingOf(lv) \in Seq(Nested!Handler)
  BY <1>1, <1>3, SeqDef
<1>5. DOMAIN ServingOf(lv) = 1..Len(lv)
  BY <1>3
<1>6. Len(ServingOf(lv)) = Len(lv)
  BY <1>1, <1>4, <1>5, LenProperties
<1>. QED
  BY <1>1, <1>4, <1>5, <1>6, EmptySeq DEF ServingOf

(* The mapping of a longer and of a shorter stack of levels.                *)
LEMMA ServingAppend ==
  ASSUME NEW lv \in Seq(Level), NEW l \in Level
  PROVE  ServingOf(Append(lv, l)) = Append(ServingOf(lv), [src |-> l.src, level |-> l.level])
<1>. DEFINE a == ServingOf(Append(lv, l))
            b == Append(ServingOf(lv), [src |-> l.src, level |-> l.level])
<1>1. Append(lv, l) \in Seq(Level) /\ Len(Append(lv, l)) = Len(lv) + 1 /\ Len(lv) \in Nat
  OBVIOUS
<1>2. [src |-> l.src, level |-> l.level] \in Nested!Handler
  BY DEF Level, Nested!Handler
<1>3. a \in Seq(Nested!Handler) /\ Len(a) = Len(lv) + 1
  BY <1>1, ServingType
<1>4. b \in Seq(Nested!Handler) /\ Len(b) = Len(lv) + 1
  BY <1>2, ServingType
<1>5. ASSUME NEW k \in 1..(Len(lv) + 1)
      PROVE  a[k] = b[k]
  <2>1. a[k] = [src |-> Append(lv, l)[k].src, level |-> Append(lv, l)[k].level]
    BY <1>1, ServingType
  <2>2. CASE k = Len(lv) + 1
    <3>1. Append(lv, l)[k] = l
      BY <1>1, <2>2
    <3>2. ServingOf(lv) \in Seq(Nested!Handler) /\ Len(ServingOf(lv)) = Len(lv)
      BY ServingType
    <3>3. b[k] = [src |-> l.src, level |-> l.level]
      BY <1>1, <1>2, <2>2, <3>2
    <3>. QED
      BY <2>1, <3>1, <3>3
  <2>3. CASE k \in 1..Len(lv)
    <3>1. b[k] = ServingOf(lv)[k]
      BY <1>2, <2>3, ServingType
    <3>2. Append(lv, l)[k] = lv[k]
      BY <2>3
    <3>3. ServingOf(lv)[k] = [src |-> lv[k].src, level |-> lv[k].level]
      BY <2>3, ServingType
    <3>4. a[k] = [src |-> lv[k].src, level |-> lv[k].level]
      BY <2>1, <3>2
    <3>. HIDE DEF a, b
    <3>. QED
      BY <3>1, <3>3, <3>4
  <2>4. k = Len(lv) + 1 \/ k \in 1..Len(lv)
    BY <1>1
  <2>. HIDE DEF a, b
  <2>. QED
    BY <2>2, <2>3, <2>4
<1>. HIDE DEF a, b
<1>6. a = b
  BY <1>3, <1>4, <1>5, SeqEqual
<1>. QED
  BY <1>6 DEF a, b

LEMMA ServingFront ==
  ASSUME NEW lv \in Seq(Level), lv # <<>>
  PROVE  ServingOf(Front(lv)) = SubSeq(ServingOf(lv), 1, Len(ServingOf(lv)) - 1)
<1>. DEFINE a == ServingOf(Front(lv))
            b == Front(ServingOf(lv))
<1>1. Len(lv) \in Nat /\ Front(lv) \in Seq(Level) /\ Len(Front(lv)) = Len(lv) - 1
      /\ \A k \in 1..(Len(lv) - 1) : Front(lv)[k] = lv[k]
  BY FrontOfSeq
<1>2. a \in Seq(Nested!Handler) /\ Len(a) = Len(lv) - 1
      /\ \A k \in 1..(Len(lv) - 1) : a[k] = [src |-> lv[k].src, level |-> lv[k].level]
  BY <1>1, ServingType
<1>3. ServingOf(lv) \in Seq(Nested!Handler) /\ ServingOf(lv) # <<>> /\ Len(ServingOf(lv)) = Len(lv)
  BY ServingType
<1>4. b \in Seq(Nested!Handler) /\ Len(b) = Len(lv) - 1
      /\ \A k \in 1..(Len(lv) - 1) : b[k] = ServingOf(lv)[k]
  BY <1>3, FrontOfSeq
<1>5. \A k \in 1..(Len(lv) - 1) : b[k] = [src |-> lv[k].src, level |-> lv[k].level]
  BY <1>1, <1>4, ServingType
<1>. HIDE DEF a, b
<1>6. a = b
  BY <1>2, <1>4, <1>5, SeqEqual
<1>. QED
  BY <1>6 DEF a, b, Front

LEMMA ServingCurrent ==
  ASSUME cpu.levels \in Seq(Level)
  PROVE  Nested!Current = TopLevel(cpu)
<1>1. Serving = ServingOf(cpu.levels)
  BY DEF Serving, ServingOf
<1>2. CASE cpu.levels = <<>>
  BY <1>1, <1>2, ServingType DEF Nested!Current, TopLevel
<1>3. CASE cpu.levels # <<>>
  <2>1. Len(cpu.levels) \in 1..Len(cpu.levels)
    BY <1>3, EmptySeq
  <2>2. /\ Serving # <<>>
        /\ Serving[Len(Serving)].level = cpu.levels[Len(cpu.levels)].level
    <3>1. /\ Serving # <<>>
          /\ Len(Serving) = Len(cpu.levels)
          /\ \A k \in 1..Len(cpu.levels) :
               Serving[k] = [src |-> cpu.levels[k].src, level |-> cpu.levels[k].level]
      BY <1>1, <1>3, ServingType
    <3>2. Serving[Len(Serving)] = [src |-> cpu.levels[Len(cpu.levels)].src,
                                   level |-> cpu.levels[Len(cpu.levels)].level]
      BY <2>1, <3>1, Zenon
    <3>. QED
      BY <3>1, <3>2
  <2>. QED
    BY <1>3, <2>2 DEF Nested!Current, TopLevel, Last
<1>. QED
  BY <1>2, <1>3

(* do_interrupt(), accept_it(), RETI and reset() implement the stack of     *)
(* handlers: every step enters one, leaves the innermost one, empties the   *)
(* stack, or does not touch it.                                             *)
THEOREM ImplementsNested == Spec => NestedSpec
<1>1. Init => Nested!Init
  BY DEF Init, ResetMachine, Nested!Init, Serving
<1>2. ASSUME TypeOK, TypeOK', [Next]_vars
      PROVE  [Nested!Next]_Serving
  <2>1. cpu.levels \in Seq(Level) /\ cpu'.levels \in Seq(Level)
    BY <1>2 DEF TypeOK, Machine
  <2>2. Serving = ServingOf(cpu.levels) /\ Serving' = ServingOf(cpu'.levels)
    BY DEF Serving, ServingOf
  <2>3. CASE cpu'.levels = cpu.levels
    BY <2>2, <2>3
  <2>4. ASSUME NEW l \in Level, l.level > TopLevel(cpu), cpu'.levels = Append(cpu.levels, l)
        PROVE  Nested!Next
    <3>. DEFINE h == [src |-> l.src, level |-> l.level]
    <3>1. h \in Nested!Handler /\ h.level = l.level
      BY DEF Level, Nested!Handler
    <3>2. Serving' = Append(Serving, h)
      BY <2>1, <2>2, <2>4, ServingAppend
    <3>3. h.level > Nested!Current
      BY <2>1, <2>4, <3>1, ServingCurrent
    <3>. HIDE DEF h
    <3>. QED
      BY <3>1, <3>2, <3>3 DEF Nested!Next, Nested!Enter
  <2>5. ASSUME cpu.levels # <<>>, cpu'.levels = Front(cpu.levels)
        PROVE  Nested!Next
    <3>1. Serving # <<>>
      BY <2>1, <2>2, <2>5, ServingType
    <3>2. Serving' = SubSeq(Serving, 1, Len(Serving) - 1)
      BY <2>1, <2>2, <2>5, ServingFront
    <3>. QED
      BY <3>1, <3>2 DEF Nested!Next, Nested!Leave
  <2>6. ASSUME cpu'.levels = <<>>
        PROVE  Nested!Next
    <3>1. Serving' = <<>>
      BY <2>1, <2>2, <2>6, ServingType
    <3>. QED
      BY <3>1 DEF Nested!Next, Nested!Reset
  <2>. QED
    BY <1>2, <2>3, <2>4, <2>5, <2>6, EveryLevelsStep DEF LevelsStep, EntersAbove
<1>. QED
  BY <1>1, <1>2, TypeCorrect, PTL DEF Spec, NestedSpec, Nested!Spec

-----------------------------------------------------------------------------
(***************************************************************************)
(* Power modes and requests.                                               *)
(***************************************************************************)

(* Executing an instruction and ticking the hardware leave the execution    *)
(* state alone, set was_reti in RETI and in writes of IE only, and clear no *)
(* request but in the instruction that writes it.                           *)
LEMMA ExecInstRest ==
  ASSUME NEW m \in Machine, NEW i \in Instruction, NEW stale \in Addr
  PROVE  LET e == ExecInst(m, i, stale)
         IN  /\ e.state = m.state
             /\ e.was_reti <=> i.op \in {"reti", "ie"}
             /\ i.op # "flag" => e.req = m.req
<1>. DEFINE n == [m EXCEPT !.PC = Succ[m.PC], !.was_reti = FALSE]
            Same(x) == x \in Machine /\ x.state = m.state /\ x.req = m.req /\ ~x.was_reti
<1>1. Same(n)
  BY AddrAssumption DEF Machine
<1>. HIDE DEF n
<1>2. Same(Push(n, FALSE)) /\ Same(Pop(n, FALSE, stale)) /\ Same(Pop(n, TRUE, stale))
  <2>1. Push(n, FALSE) \in Machine /\ Pop(n, FALSE, stale) \in Machine
        /\ Pop(n, TRUE, stale) \in Machine
    BY <1>1, PushType, PopType
  <2>2. Same(Push(n, FALSE))
    BY <1>1, <2>1 DEF Push, Machine
  <2>3. Same(Pop(n, FALSE, stale))
    BY <1>1, <2>1 DEF Pop, Machine
  <2>4. Same(Pop(n, TRUE, stale))
    BY <1>1, <2>1 DEF Pop, Machine
  <2>. QED
    BY <2>2, <2>3, <2>4
<1>3. Same(PopLevel(Pop(n, TRUE, stale)))
  <2>. DEFINE p == Pop(n, TRUE, stale)
  <2>1. Same(p) /\ PopLevel(p) \in Machine
    BY <1>2, PopLevelType
  <2>. HIDE DEF p
  <2>2. Same(PopLevel(p))
    BY <2>1 DEF PopLevel, Machine
  <2>. QED
    BY <2>2 DEF p
<1>4. CASE i.op \in {"nop", "jmp", "ie", "ea", "ip", "pcon", "flag"}
  BY <1>1, <1>4 DEF ExecInst, n, Machine
<1>5. CASE i.op = "call"
  BY <1>2, <1>5 DEF ExecInst, n, Machine
<1>6. CASE i.op = "ret"
  BY <1>2, <1>6 DEF ExecInst, n
<1>7. CASE i.op = "reti"
  BY <1>3, <1>7 DEF ExecInst, n, Machine
<1>. QED
  BY <1>4, <1>5, <1>6, <1>7, InstructionFields DEF Op

LEMMA AcceptRest ==
  ASSUME NEW m \in Machine, NEW s \in Source
  PROVE  /\ Accept(m, s).state = "stGO"
         /\ ~Accept(m, s).idl
         /\ Accept(m, s).levels # <<>>
         /\ Last(Accept(m, s).levels).src = s
         /\ m.req \ {s} \subseteq Accept(m, s).req
<1>. DEFINE lev == [level |-> PriorityOf(m, s), PC |-> m.PC, src |-> s]
<1>1. lev \in Level
  BY PriorityRange DEF Level, Machine
<1>2. Push(m, TRUE) \in Machine /\ Push(m, TRUE).req = m.req
  BY PushType DEF Push, Machine
<1>3. /\ Accept(m, s).levels = Append(m.levels, lev)
      /\ Accept(m, s).state = "stGO" /\ ~Accept(m, s).idl
      /\ Accept(m, s).req = IF s \in ClrBit THEN m.req \ {s} ELSE m.req
  BY <1>2 DEF Accept, Machine
<1>4. lev.src = s
  OBVIOUS
<1>. HIDE DEF lev
<1>5. Append(m.levels, lev) # <<>> /\ Last(Append(m.levels, lev)) = lev
  BY <1>1 DEF Last, Machine
<1>. QED
  BY <1>3, <1>4, <1>5

(* One statement of how a call of do_inst() ends, for a machine m: it       *)
(* stopped on a jump to itself, entered a handler, or went on.              *)
LEMMA FinishInstCases ==
  ASSUME NEW m \in Machine, FinishInst(m)
  PROVE  \/ cpu' = m /\ result' = "resSELFJUMP"
         \/ /\ Accepts(m) /\ result' = "resINTERRUPT"
            /\ \E s \in Source : cpu' = Accept(m, s)
         \/ ~Accepts(m) /\ cpu' = IdlePd(NotTaken(m)) /\ result' = "resGO"
<1>1. ASSUME NEW k \in FirstReady(m)
      PROVE  ItSources[k] \in Source
  BY ReadySource DEF FirstReady
<1>. QED
  BY <1>1 DEF FinishInst

(* How the last stage leaves the machine when nothing was taken.            *)
LEMMA NotTakenRest ==
  ASSUME NEW m \in Machine
  PROVE  LET d == IdlePd(NotTaken(m))
         IN  /\ d.req = m.req /\ d.pd = m.pd
             /\ d.ea = m.ea /\ d.levels = m.levels /\ d.ip = m.ip /\ d.en = m.en
             /\ ~Takes(m) => /\ d.idl = m.idl /\ ~d.was_reti
                             /\ d.state = IF m.pd THEN "stPD" ELSE IF m.idl THEN "stIDLE" ELSE m.state
             /\ Takes(m) => /\ ~d.idl
                            /\ d.state = IF m.pd THEN "stPD" ELSE "stGO"
<1>. DEFINE n == NotTaken(m)
<1>1. n \in Machine
  BY DEF NotTaken, WakeUp, Machine
<1>2. /\ n.req = m.req /\ n.pd = m.pd
      /\ n.ea = m.ea /\ n.levels = m.levels /\ n.ip = m.ip /\ n.en = m.en
      /\ ~Takes(m) => n.idl = m.idl /\ ~n.was_reti /\ n.state = m.state
      /\ Takes(m) => ~n.idl /\ n.state = "stGO"
  BY DEF NotTaken, WakeUp, Machine
<1>. HIDE DEF n
<1>3. /\ IdlePd(n).req = n.req /\ IdlePd(n).pd = n.pd
      /\ IdlePd(n).ea = n.ea /\ IdlePd(n).levels = n.levels
      /\ IdlePd(n).ip = n.ip /\ IdlePd(n).en = n.en
      /\ IdlePd(n).idl = n.idl /\ IdlePd(n).was_reti = n.was_reti
      /\ IdlePd(n).state = IF n.pd THEN "stPD" ELSE IF n.idl THEN "stIDLE" ELSE n.state
  BY <1>1 DEF IdlePd, Machine
<1>. QED
  BY <1>2, <1>3 DEF n

(* A call of do_inst() is its last stage applied to the machine m that the  *)
(* first stages left: the machine itself in the power modes.                *)
LEMMA DoInstStages ==
  ASSUME TypeOK, DoInst
  PROVE  \E m \in Machine :
           /\ FinishInst(m)
           /\ m.state = cpu.state
           /\ \/ inst' = "idle" /\ m = cpu /\ cpu.state # "stGO"
              \/ /\ inst' \in Op /\ cpu.state = "stGO"
                 /\ m.was_reti <=> inst' \in {"reti", "ie"}
                 /\ inst' # "flag" => cpu.req \subseteq m.req
<1>1. CASE RunInst
  <2>1. PICK i \in Rom[cpu.PC], raised \in Raised : \E stale \in Stale(cpu, i) :
          FinishInst(TickHw(ExecInst(cpu, i, stale), raised)) /\ inst' = i.op
    BY <1>1 DEF RunInst
  <2>2. PICK stale \in Stale(cpu, i) :
          FinishInst(TickHw(ExecInst(cpu, i, stale), raised)) /\ inst' = i.op
    BY <2>1
  <2>. DEFINE e == ExecInst(cpu, i, stale)
              m == TickHw(e, raised)
  <2>3. i \in Instruction /\ stale \in Addr /\ m \in Machine /\ cpu \in Machine
    BY RunStageType DEF TypeOK
  <2>4. /\ e \in Machine /\ e.state = cpu.state
        /\ e.was_reti <=> i.op \in {"reti", "ie"}
        /\ i.op # "flag" => e.req = cpu.req
    BY <2>3, ExecInstType, ExecInstRest
  <2>5. m.state = e.state /\ m.was_reti = e.was_reti /\ e.req \subseteq m.req
    <3>. HIDE DEF e
    <3>. QED
      BY <2>4 DEF TickHw, Machine
  <2>6. i.op \in Op /\ cpu.state = "stGO"
    BY <1>1, <2>3, InstructionFields DEF RunInst
  <2>7. FinishInst(m) /\ inst' = i.op
    BY <2>2
  <2>. HIDE DEF e, m
  <2>. QED
    BY <2>3, <2>4, <2>5, <2>6, <2>7
<1>2. CASE IdleInst
  BY <1>2 DEF IdleInst, TypeOK
<1>. QED
  BY <1>1, <1>2 DEF DoInst

(* After RETI or a write of IE one more instruction executes before an      *)
(* interrupt is accepted: both leave was_reti set, and acceptance needs it  *)
(* clear.                                                                   *)
THEOREM OneInstructionRuns == Spec => OneInstructionFirst
<1>1. ASSUME TypeOK, [Next]_vars
      PROVE  [inst' \in {"reti", "ie"} => result' # "resINTERRUPT"]_vars
  <2>. SUFFICES ASSUME Next, inst' \in {"reti", "ie"}
                PROVE  result' # "resINTERRUPT"
    BY <1>1
  <2>1. DoInst
    BY DEF Next, PinChange, Reset
  <2>2. PICK m \in Machine :
           /\ FinishInst(m)
           /\ m.state = cpu.state
           /\ \/ inst' = "idle" /\ m = cpu /\ cpu.state # "stGO"
              \/ /\ inst' \in Op /\ cpu.state = "stGO"
                 /\ m.was_reti <=> inst' \in {"reti", "ie"}
                 /\ inst' # "flag" => cpu.req \subseteq m.req
    BY <1>1, <2>1, DoInstStages
  <2>3. ~Accepts(m)
    BY <2>2 DEF Accepts, Takes, Polls
  <2>. QED
    BY <2>2, <2>3, FinishInstCases
<1>. QED
  BY <1>1, TypeCorrect, PTL DEF Spec, OneInstructionFirst

(* The inductive invariant of the power modes: the power bits agree with    *)
(* the state, and was_reti, which would pass over a poll, is clear in the   *)
(* power modes.                                                             *)
PowerInv ==
  /\ cpu.state = "stIDLE" => cpu.idl /\ ~cpu.pd
  /\ cpu.state = "stPD" => cpu.pd
  /\ cpu.state = "stGO" /\ result # "resSELFJUMP"
       => ~cpu.idl /\ (cpu.pd => cpu.levels # <<>>)
  /\ cpu.state # "stGO" => ~cpu.was_reti

LEMMA PowerStep == TypeOK /\ PowerInv /\ [Next]_vars => PowerInv'
<1>. SUFFICES ASSUME TypeOK, PowerInv, [Next]_vars
              PROVE  PowerInv'
  OBVIOUS
<1>1. CASE DoInst
  <2>1. PICK m \in Machine :
           /\ FinishInst(m)
           /\ m.state = cpu.state
           /\ \/ inst' = "idle" /\ m = cpu /\ cpu.state # "stGO"
              \/ /\ inst' \in Op /\ cpu.state = "stGO"
                 /\ m.was_reti <=> inst' \in {"reti", "ie"}
                 /\ inst' # "flag" => cpu.req \subseteq m.req
    BY <1>1, DoInstStages
  <2>2. m.state \in {"stGO", "stIDLE", "stPD"}
    BY DEF Machine
  <2>3. CASE cpu' = m /\ result' = "resSELFJUMP"
    BY <2>1, <2>3 DEF PowerInv
  <2>4. ASSUME NEW s \in Source, cpu' = Accept(m, s)
        PROVE  PowerInv'
    BY <2>4, AcceptRest DEF PowerInv
  <2>5. CASE ~Accepts(m) /\ cpu' = IdlePd(NotTaken(m))
    <3>. DEFINE d == IdlePd(NotTaken(m))
    <3>1. d.pd = m.pd /\ d.levels = m.levels
      BY NotTakenRest
    <3>2. CASE Takes(m)
      <4>1. m.state = "stIDLE" /\ m = cpu
        BY <2>1, <2>5, <3>2 DEF Accepts
      <4>2. ~m.pd
        BY <4>1 DEF PowerInv
      <4>3. d.state = "stGO" /\ ~d.idl /\ ~d.pd
        BY <3>1, <3>2, <4>2, NotTakenRest
      <4>. QED
        BY <2>5, <4>3 DEF PowerInv
    <3>3. CASE ~Takes(m)
      <4>1. /\ d.idl = m.idl /\ ~d.was_reti
            /\ d.state = IF m.pd THEN "stPD" ELSE IF m.idl THEN "stIDLE" ELSE m.state
        BY <3>3, NotTakenRest
      <4>2. m.state = "stIDLE" => m.idl
        BY <2>1 DEF PowerInv
      <4>3. m.state = "stPD" => m.pd
        BY <2>1 DEF PowerInv
      <4>. HIDE DEF d
      <4>4. cpu' = d
        BY <2>5 DEF d
      <4>. QED
        BY <2>2, <3>1, <4>1, <4>2, <4>3, <4>4 DEF PowerInv
    <3>. QED
      BY <3>2, <3>3
  <2>. QED
    BY <2>1, <2>3, <2>4, <2>5, FinishInstCases
<1>2. CASE PinChange
  <2>1. PICK s \in PinSource \ cpu.req : cpu' = [cpu EXCEPT !.req = @ \cup {s}]
    BY <1>2 DEF PinChange
  <2>2. result' = result
    BY <1>2 DEF PinChange
  <2>. QED
    BY <2>1, <2>2 DEF PowerInv, TypeOK, Machine
<1>3. CASE Reset
  BY <1>3 DEF Reset, ResetMachine, PowerInv
<1>4. CASE UNCHANGED vars
  BY <1>4 DEF vars, PowerInv
<1>. QED
  BY <1>1, <1>2, <1>3, <1>4 DEF Next

LEMMA PowerInvAlways == Spec => []PowerInv
<1>1. Init => PowerInv
  BY DEF Init, ResetMachine, PowerInv
<1>. QED
  BY <1>1, PowerStep, TypeInit, TypeStep, PTL DEF Spec

(* The power bits and the execution state agree after every call.           *)
THEOREM PowerBitsAgreeAlways == Spec => []PowerBitsAgree
<1>1. PowerInv => PowerBitsAgree
  BY DEF PowerInv, PowerBitsAgree
<1>. QED
  BY <1>1, PowerInvAlways, PTL

(* No request is silently delayed: a call of do_inst() that ends with an    *)
(* interrupt that could be taken has a reason.                              *)
THEOREM NothingSilentlyDelayed == Spec => NoSilentDelay
<1>. DEFINE A == inst' # "pin" /\ cpu'.ea /\ ReadyPositions(cpu') # {}
                   => \/ inst' \in {"reti", "ie"}
                      \/ result' \in {"resINTERRUPT", "resSELFJUMP"}
                      \/ cpu.state = "stIDLE" /\ cpu'.state = "stGO"
<1>1. ASSUME TypeOK, PowerInv, [Next]_vars
      PROVE  [A]_vars
  <2>. SUFFICES ASSUME Next, inst' # "pin", cpu'.ea, ReadyPositions(cpu') # {},
                       inst' \notin {"reti", "ie"},
                       result' \notin {"resINTERRUPT", "resSELFJUMP"}
                PROVE  cpu.state = "stIDLE" /\ cpu'.state = "stGO"
    BY <1>1
  <2>1. DoInst
    BY DEF Next, PinChange, Reset, ResetMachine
  <2>2. PICK m \in Machine :
           /\ FinishInst(m)
           /\ m.state = cpu.state
           /\ \/ inst' = "idle" /\ m = cpu /\ cpu.state # "stGO"
              \/ /\ inst' \in Op /\ cpu.state = "stGO"
                 /\ m.was_reti <=> inst' \in {"reti", "ie"}
                 /\ inst' # "flag" => cpu.req \subseteq m.req
    BY <1>1, <2>1, DoInstStages
  <2>3. ~Accepts(m) /\ cpu' = IdlePd(NotTaken(m))
    BY <2>2, FinishInstCases
  <2>4. ~m.was_reti
    BY <1>1, <2>2 DEF PowerInv
  <2>5. m.ea /\ ReadyPositions(m) = ReadyPositions(cpu')
    <3>1. /\ cpu'.req = m.req /\ cpu'.ea = m.ea /\ cpu'.levels = m.levels
          /\ cpu'.ip = m.ip /\ cpu'.en = m.en
      BY <2>3, NotTakenRest
    <3>2. \A s : Ready(m, s) <=> Ready(cpu', s)
      BY <3>1 DEF Ready, PriorityOf, TopLevel
    <3>. QED
      BY <3>1, <3>2 DEF ReadyPositions
  <2>6. Takes(m)
    BY <2>4, <2>5 DEF Takes, Polls
  <2>7. m.state = "stIDLE" /\ m = cpu
    BY <2>2, <2>3, <2>6 DEF Accepts
  <2>8. ~m.pd
    BY <1>1, <2>7 DEF PowerInv
  <2>. QED
    BY <2>3, <2>6, <2>7, <2>8, NotTakenRest
<1>. QED
  BY <1>1, TypeCorrect, PowerInvAlways, PTL DEF Spec, NoSilentDelay

(* No request is lost: only the program, a reset or its own handler clears  *)
(* a flag.                                                                  *)
THEOREM RequestsAreKept == Spec => RequestsKept
<1>. DEFINE A == \A s \in cpu.req \ cpu'.req :
                   \/ inst' \in {"flag", "reset"}
                   \/ result' = "resINTERRUPT" /\ s = Last(cpu'.levels).src
<1>1. ASSUME TypeOK, [Next]_vars
      PROVE  [A]_vars
  <2>1. CASE DoInst
    <3>. SUFFICES ASSUME NEW s \in cpu.req \ cpu'.req, inst' # "flag"
                  PROVE  result' = "resINTERRUPT" /\ s = Last(cpu'.levels).src
      OBVIOUS
    <3>1. PICK m \in Machine : FinishInst(m) /\ cpu.req \subseteq m.req
      BY <1>1, <2>1, DoInstStages
    <3>2. s \in m.req \ cpu'.req
      BY <3>1
    <3>3. CASE cpu' = m
      BY <3>2, <3>3
    <3>4. CASE cpu' = IdlePd(NotTaken(m))
      BY <3>2, <3>4, NotTakenRest
    <3>5. ASSUME NEW t \in Source, cpu' = Accept(m, t)
          PROVE  s = Last(cpu'.levels).src
      BY <3>2, <3>5, AcceptRest
    <3>. QED
      BY <3>1, <3>3, <3>4, <3>5, FinishInstCases
  <2>2. CASE PinChange
    BY <1>1, <2>2 DEF PinChange, TypeOK, Machine
  <2>3. CASE Reset
    BY <2>3 DEF Reset
  <2>. QED
    BY <1>1, <2>1, <2>2, <2>3 DEF Next
<1>. QED
  BY <1>1, TypeCorrect, PTL DEF Spec, RequestsKept

-----------------------------------------------------------------------------
(***************************************************************************)
(* The stack and the levels.                                               *)
(***************************************************************************)
(* What ReturnsMatchLevels says, of any machine.                            *)
Matched(m) ==
  m.paired =>
    /\ Cardinality(HandlerFrames(m, Len(m.stack))) = Len(m.levels)
    /\ \A k \in HandlerFrames(m, Len(m.stack)) :
         m.stack[k].ret = m.levels[Cardinality(HandlerFrames(m, k))].PC

(* One more place holds one more handler's frame or none.                   *)
LEMMA OneMorePlace ==
  ASSUME NEW m \in Machine, NEW k \in Nat, k < Len(m.stack)
  PROVE  /\ IsFiniteSet(HandlerFrames(m, k)) /\ Cardinality(HandlerFrames(m, k)) \in Nat
         /\ IsFiniteSet(HandlerFrames(m, k + 1))
         /\ Cardinality(HandlerFrames(m, k + 1))
              = Cardinality(HandlerFrames(m, k)) + (IF m.stack[k + 1].it THEN 1 ELSE 0)
<1>1. IsFiniteSet(HandlerFrames(m, k))
  <2>1. IsFiniteSet(1..k) /\ HandlerFrames(m, k) \subseteq 1..k
    BY FS_Interval DEF HandlerFrames
  <2>. QED
    BY <2>1, FS_Subset
<1>2. Cardinality(HandlerFrames(m, k)) \in Nat
  BY <1>1, FS_CardinalityType
<1>3. CASE m.stack[k + 1].it
  <2>1. HandlerFrames(m, k + 1) = HandlerFrames(m, k) \cup {k + 1} /\ k + 1 \notin HandlerFrames(m, k)
    BY <1>3 DEF HandlerFrames
  <2>. QED
    BY <1>1, <1>2, <1>3, <2>1, FS_AddElement
<1>4. CASE ~m.stack[k + 1].it
  <2>1. HandlerFrames(m, k + 1) = HandlerFrames(m, k)
    BY <1>4 DEF HandlerFrames
  <2>. QED
    BY <1>1, <1>2, <1>4, <2>1
<1>. QED
  BY <1>1, <1>2, <1>3, <1>4

(* The machines n and m agree on the first len places of the stack.         *)
LEMMA SamePlaces ==
  ASSUME NEW m, NEW n, NEW len \in Nat, \A k \in 1..len : n.stack[k] = m.stack[k]
  PROVE  \A k \in 0..len : HandlerFrames(n, k) = HandlerFrames(m, k)
  BY DEF HandlerFrames

(* A place is counted up to itself and up to any later one.                 *)
LEMMA CountGrows ==
  ASSUME NEW m \in Machine, NEW len \in Nat, NEW k \in HandlerFrames(m, len)
  PROVE  /\ k \in 1..len
         /\ Cardinality(HandlerFrames(m, k)) \in 1..Cardinality(HandlerFrames(m, len))
<1>1. k \in 1..len /\ k \in HandlerFrames(m, k) /\ HandlerFrames(m, k) \subseteq HandlerFrames(m, len)
  BY DEF HandlerFrames
<1>2. IsFiniteSet(HandlerFrames(m, len))
  <2>1. IsFiniteSet(1..len) /\ HandlerFrames(m, len) \subseteq 1..len
    BY FS_Interval DEF HandlerFrames
  <2>. QED
    BY <2>1, FS_Subset
<1>3. /\ IsFiniteSet(HandlerFrames(m, k))
      /\ Cardinality(HandlerFrames(m, k)) <= Cardinality(HandlerFrames(m, len))
  BY <1>1, <1>2, FS_Subset
<1>4. Cardinality(HandlerFrames(m, k)) \in Nat /\ Cardinality(HandlerFrames(m, len)) \in Nat
  BY <1>2, <1>3, FS_CardinalityType
<1>5. Cardinality(HandlerFrames(m, k)) # 0
  BY <1>1, <1>3, FS_EmptySet
<1>. QED
  BY <1>1, <1>3, <1>4, <1>5

(* A frame is pushed: n is m with one frame more and, if it is a handler's, *)
(* the level with the same PC.                                              *)
LEMMA PushMatched ==
  ASSUME NEW m \in Machine, NEW n \in Machine, NEW f \in Frame, Matched(m),
         n.paired => m.paired /\ n.stack = Append(m.stack, f),
         f.it => Len(n.levels) = Len(m.levels) + 1 /\ n.levels[Len(m.levels) + 1].PC = f.ret,
         ~f.it => n.levels = m.levels,
         \A k \in 1..Len(m.levels) : n.levels[k] = m.levels[k]
  PROVE  Matched(n)
<1>. SUFFICES ASSUME n.paired
              PROVE  /\ Cardinality(HandlerFrames(n, Len(n.stack))) = Len(n.levels)
                     /\ \A k \in HandlerFrames(n, Len(n.stack)) :
                          n.stack[k].ret = n.levels[Cardinality(HandlerFrames(n, k))].PC
  BY DEF Matched
<1>. DEFINE len == Len(m.stack)
<1>1. /\ m.stack \in Seq(Frame) /\ len \in Nat /\ Len(m.levels) \in Nat
      /\ n.stack = Append(m.stack, f)
  BY DEF Machine
<1>2. /\ Len(n.stack) = len + 1 /\ n.stack[len + 1] = f
      /\ \A k \in 1..len : n.stack[k] = m.stack[k]
  BY <1>1
<1>3. /\ Cardinality(HandlerFrames(m, len)) = Len(m.levels)
      /\ \A k \in HandlerFrames(m, len) :
           m.stack[k].ret = m.levels[Cardinality(HandlerFrames(m, k))].PC
  BY DEF Matched
<1>. HIDE DEF len
<1>4. \A k \in 0..len : HandlerFrames(n, k) = HandlerFrames(m, k)
  BY <1>1, <1>2, SamePlaces
<1>5. Cardinality(HandlerFrames(n, len + 1)) = Len(m.levels) + (IF f.it THEN 1 ELSE 0)
  <2>1. HandlerFrames(n, len) = HandlerFrames(m, len)
    BY <1>1, <1>4
  <2>2. n \in Machine /\ len \in Nat /\ len < Len(n.stack)
    BY <1>1, <1>2
  <2>3. Cardinality(HandlerFrames(n, len + 1))
          = Cardinality(HandlerFrames(n, len)) + (IF n.stack[len + 1].it THEN 1 ELSE 0)
    BY <2>2, OneMorePlace
  <2>. QED
    BY <1>2, <1>3, <2>1, <2>3 DEF len
<1>6. Cardinality(HandlerFrames(n, len + 1)) = Len(n.levels)
  <2>1. CASE f.it
    BY <1>5, <2>1
  <2>2. CASE ~f.it
    BY <1>1, <1>5, <2>2
  <2>. QED
    BY <2>1, <2>2
<1>7. ASSUME NEW k \in HandlerFrames(n, len + 1)
      PROVE  n.stack[k].ret = n.levels[Cardinality(HandlerFrames(n, k))].PC
  <2>1. CASE k = len + 1
    <3>1. f.it
      BY <1>2, <2>1 DEF HandlerFrames
    <3>. QED
      BY <1>1, <1>2, <1>5, <2>1, <3>1
  <2>2. CASE k # len + 1
    <3>1. k \in 1..len /\ k \in HandlerFrames(m, len)
      BY <1>1, <1>2, <2>2 DEF HandlerFrames
    <3>2. Cardinality(HandlerFrames(m, k)) \in 1..Len(m.levels)
      BY <1>1, <1>3, <3>1, CountGrows
    <3>3. HandlerFrames(n, k) = HandlerFrames(m, k)
      BY <1>1, <1>4, <3>1
    <3>. QED
      BY <1>2, <1>3, <3>1, <3>2, <3>3
  <2>. QED
    BY <2>1, <2>2
<1>. QED
  BY <1>2, <1>6, <1>7

(* The top frame is popped: n is m with one frame less and, if it was a     *)
(* handler's, one level less.                                               *)
LEMMA PopMatched ==
  ASSUME NEW m \in Machine, NEW n \in Machine, m.stack # <<>>, Matched(m),
         n.paired => m.paired /\ n.stack = Front(m.stack),
         n.paired /\ Last(m.stack).it /\ m.levels # <<>> => n.levels = Front(m.levels),
         n.paired /\ ~Last(m.stack).it => n.levels = m.levels
  PROVE  Matched(n)
<1>. SUFFICES ASSUME n.paired
              PROVE  /\ Cardinality(HandlerFrames(n, Len(n.stack))) = Len(n.levels)
                     /\ \A k \in HandlerFrames(n, Len(n.stack)) :
                          n.stack[k].ret = n.levels[Cardinality(HandlerFrames(n, k))].PC
  BY DEF Matched
<1>. DEFINE len == Len(m.stack) - 1
            it == Last(m.stack).it
<1>1. /\ m.stack \in Seq(Frame) /\ len \in Nat /\ Len(m.levels) \in Nat /\ m.levels \in Seq(Level)
      /\ n.stack = Front(m.stack) /\ len + 1 = Len(m.stack) /\ it = m.stack[len + 1].it
      /\ it \in BOOLEAN
  <2>1. m.stack \in Seq(Frame) /\ m.levels \in Seq(Level) /\ n.stack = Front(m.stack)
    BY DEF Machine
  <2>2. Last(m.stack) \in Frame /\ Len(m.stack) # 0
    BY <2>1, FrontOfSeq, EmptySeq
  <2>. QED
    BY <2>1, <2>2 DEF Last, Frame
<1>2. Len(n.stack) = len /\ \A k \in 1..len : n.stack[k] = m.stack[k]
  <2>1. /\ Len(Front(m.stack)) = Len(m.stack) - 1
        /\ \A k \in 1..(Len(m.stack) - 1) : Front(m.stack)[k] = m.stack[k]
    BY <1>1, FrontOfSeq
  <2>. QED
    BY <1>1, <2>1
<1>3. /\ Cardinality(HandlerFrames(m, len + 1)) = Len(m.levels)
      /\ \A k \in HandlerFrames(m, len + 1) :
           m.stack[k].ret = m.levels[Cardinality(HandlerFrames(m, k))].PC
  BY <1>1 DEF Matched
<1>. HIDE DEF len, it
<1>4. \A k \in 0..len : HandlerFrames(n, k) = HandlerFrames(m, k)
  BY <1>1, <1>2, SamePlaces
<1>5. /\ Cardinality(HandlerFrames(m, len)) \in Nat
      /\ Len(m.levels) = Cardinality(HandlerFrames(m, len)) + (IF it THEN 1 ELSE 0)
  <2>1. m \in Machine /\ len \in Nat /\ len < Len(m.stack)
    BY <1>1
  <2>2. /\ Cardinality(HandlerFrames(m, len)) \in Nat
        /\ Cardinality(HandlerFrames(m, len + 1))
             = Cardinality(HandlerFrames(m, len)) + (IF m.stack[len + 1].it THEN 1 ELSE 0)
    BY <2>1, OneMorePlace
  <2>. QED
    BY <1>1, <1>3, <2>2
<1>6. /\ Len(n.levels) = Cardinality(HandlerFrames(m, len))
      /\ \A k \in 1..Cardinality(HandlerFrames(m, len)) : n.levels[k] = m.levels[k]
  <2>1. CASE it
    <3>1. m.levels # <<>>
      BY <1>1, <1>5, <2>1, EmptySeq
    <3>2. n.levels = Front(m.levels)
      BY <2>1, <3>1 DEF it
    <3>3. /\ Len(Front(m.levels)) = Len(m.levels) - 1
          /\ \A k \in 1..(Len(m.levels) - 1) : Front(m.levels)[k] = m.levels[k]
      BY <1>1, <3>1, FrontOfSeq
    <3>4. Len(m.levels) - 1 = Cardinality(HandlerFrames(m, len))
      BY <1>5, <2>1
    <3>. QED
      BY <3>2, <3>3, <3>4
  <2>2. CASE ~it
    <3>1. n.levels = m.levels
      BY <2>2 DEF it
    <3>. QED
      BY <1>5, <2>2, <3>1
  <2>. QED
    BY <2>1, <2>2
<1>7. ASSUME NEW k \in HandlerFrames(n, len)
      PROVE  n.stack[k].ret = n.levels[Cardinality(HandlerFrames(n, k))].PC
  <2>1. k \in 1..len /\ k \in HandlerFrames(m, len) /\ k \in HandlerFrames(m, len + 1)
    BY <1>1, <1>2 DEF HandlerFrames
  <2>2. Cardinality(HandlerFrames(m, k)) \in 1..Cardinality(HandlerFrames(m, len))
    BY <1>1, <2>1, CountGrows
  <2>. QED
    BY <1>1, <1>2, <1>3, <1>4, <1>6, <2>1, <2>2
<1>. QED
  BY <1>1, <1>2, <1>4, <1>6, <1>7

(* Whatever leaves the stack and the levels alone leaves them matched.      *)
LEMMA SameMatched ==
  ASSUME NEW m, NEW n, Matched(m),
         n.stack = m.stack, n.levels = m.levels, n.paired = m.paired
  PROVE  Matched(n)
<1>1. \A k : HandlerFrames(n, k) = HandlerFrames(m, k)
  BY DEF HandlerFrames
<1>. QED
  BY <1>1 DEF Matched

LEMMA ExecInstMatched ==
  ASSUME NEW m \in Machine, NEW i \in Instruction, NEW stale \in Addr, Matched(m)
  PROVE  Matched(ExecInst(m, i, stale))
<1>. DEFINE n == [m EXCEPT !.PC = Succ[m.PC], !.was_reti = FALSE]
            e == ExecInst(m, i, stale)
<1>1. /\ n \in Machine /\ n.stack = m.stack /\ n.levels = m.levels /\ n.paired = m.paired
      /\ e \in Machine
  BY AddrAssumption, ExecInstType DEF Machine
<1>2. Matched(n)
  BY <1>1, SameMatched
<1>3. e.levels = IF i.op = "reti" /\ m.levels # <<>> THEN Front(m.levels) ELSE m.levels
  BY ExecInstLevels
<1>. HIDE DEF n
<1>4. CASE i.op \in {"nop", "jmp", "ie", "ea", "ip", "pcon", "flag"}
  <2>1. e.stack = n.stack /\ e.levels = n.levels /\ e.paired = n.paired
    BY <1>1, <1>4 DEF ExecInst, n, Machine
  <2>. QED
    BY <1>2, <2>1, SameMatched
<1>5. CASE i.op = "call"
  <2>. DEFINE f == [ret |-> n.PC, it |-> FALSE]
  <2>1. e = [Push(n, FALSE) EXCEPT !.PC = i.to]
    BY <1>5 DEF ExecInst, n
  <2>2. e.stack = Push(n, FALSE).stack /\ e.paired = Push(n, FALSE).paired
    BY <1>1, <2>1, PushType DEF Machine
  <2>3. f \in Frame /\ f.it = FALSE
    BY <1>1 DEF Frame, Machine
  <2>4. e.paired => n.paired /\ e.stack = Append(n.stack, f)
    BY <1>1, <2>2 DEF Push, Machine
  <2>5. e.levels = n.levels
    BY <1>1, <1>3, <1>5
  <2>. HIDE DEF e, f
  <2>. QED
    BY <1>1, <1>2, <2>3, <2>4, <2>5, PushMatched DEF e
<1>6. CASE i.op = "ret" \/ i.op = "reti"
  <2>. DEFINE isr == i.op = "reti"
              p == Pop(n, isr, stale)
  <2>1. p \in Machine
    BY <1>1, PopType
  <2>2. e.stack = p.stack /\ e.paired = p.paired
    <3>1. CASE i.op = "ret"
      BY <3>1 DEF ExecInst, n
    <3>2. CASE i.op = "reti"
      <4>1. p = Pop(n, TRUE, stale)
        BY <3>2
      <4>. HIDE DEF p
      <4>2. e = [PopLevel(p) EXCEPT !.was_reti = TRUE]
        BY <3>2, <4>1 DEF ExecInst, n
      <4>3. PopLevel(p) \in Machine /\ PopLevel(p).stack = p.stack /\ PopLevel(p).paired = p.paired
        BY <2>1, PopLevelType DEF PopLevel, Machine
      <4>. QED
        BY <4>2, <4>3 DEF Machine
    <3>. QED
      BY <1>6, <3>1, <3>2
  <2>3. CASE n.stack = <<>>
    <3>1. ~e.paired
      BY <1>1, <2>2, <2>3 DEF Pop, Machine
    <3>. QED
      BY <3>1 DEF Matched
  <2>4. CASE n.stack # <<>>
    <3>1. p.stack = Front(n.stack) /\ p.paired = (n.paired /\ (Last(n.stack).it = isr))
      BY <1>1, <2>4 DEF Pop, Machine
    <3>2. e.paired => n.paired /\ e.stack = Front(n.stack)
      BY <2>2, <3>1
    <3>3. e.paired /\ Last(n.stack).it /\ n.levels # <<>> => e.levels = Front(n.levels)
      BY <1>1, <1>3, <2>2, <3>1
    <3>4. e.paired /\ ~Last(n.stack).it => e.levels = n.levels
      BY <1>1, <1>3, <2>2, <3>1
    <3>. HIDE DEF e
    <3>. QED
      BY <1>1, <1>2, <2>4, <3>2, <3>3, <3>4, PopMatched DEF e
  <2>. QED
    BY <2>3, <2>4
<1>. QED
  BY <1>4, <1>5, <1>6, InstructionFields DEF Op

LEMMA FinishInstMatched ==
  ASSUME NEW m \in Machine, FinishInst(m), Matched(m)
  PROVE  Matched(cpu')
<1>1. CASE cpu' = m
  BY <1>1
<1>2. CASE cpu' = IdlePd(NotTaken(m))
  <2>. DEFINE n == NotTaken(m)
  <2>1. n \in Machine /\ n.stack = m.stack /\ n.levels = m.levels /\ n.paired = m.paired
    BY DEF NotTaken, WakeUp, Machine
  <2>. HIDE DEF n
  <2>2. IdlePd(n).stack = n.stack /\ IdlePd(n).levels = n.levels /\ IdlePd(n).paired = n.paired
    BY <2>1 DEF IdlePd, Machine
  <2>. QED
    BY <1>2, <2>1, <2>2, SameMatched DEF n
<1>3. ASSUME NEW s \in Source
      PROVE  Matched(Accept(m, s))
  <2>. DEFINE n == Accept(m, s)
              f == [ret |-> m.PC, it |-> TRUE]
              lev == [level |-> PriorityOf(m, s), PC |-> m.PC, src |-> s]
  <2>1. n \in Machine /\ Push(m, TRUE) \in Machine
    BY AcceptType, PushType
  <2>2. n.stack = Push(m, TRUE).stack /\ n.paired = Push(m, TRUE).paired
        /\ n.levels = Append(m.levels, lev)
    BY <2>1 DEF Accept, Machine
  <2>3. f \in Frame /\ f.it /\ lev \in Level /\ lev.PC = f.ret
    BY PriorityRange DEF Frame, Level, Machine
  <2>4. n.paired => m.paired /\ n.stack = Append(m.stack, f)
    BY <2>2 DEF Push, Machine
  <2>. HIDE DEF n, lev, f
  <2>5. /\ Len(n.levels) = Len(m.levels) + 1 /\ n.levels[Len(m.levels) + 1] = lev
        /\ \A k \in 1..Len(m.levels) : n.levels[k] = m.levels[k]
    BY <2>2, <2>3 DEF Machine
  <2>. QED
    BY <2>1, <2>3, <2>4, <2>5, PushMatched DEF n
<1>. QED
  BY <1>1, <1>2, <1>3, FinishInstCases

(* A program that pairs its calls and returns gets every interrupted PC     *)
(* back: the handlers' frames on the stack are those of the levels.         *)
THEOREM ReturnsAlwaysMatch == Spec => []ReturnsMatchLevels
<1>. DEFINE Inv == Matched(cpu)
<1>0. Matched(ResetMachine)
  <2>1. HandlerFrames(ResetMachine, 0) = {}
    BY DEF HandlerFrames
  <2>2. Len(ResetMachine.stack) = 0 /\ Len(ResetMachine.levels) = 0
    BY DEF ResetMachine
  <2>. QED
    BY <2>1, <2>2, FS_EmptySet DEF Matched
<1>1. Init => Inv
  BY <1>0 DEF Init
<1>2. ASSUME TypeOK, Inv, [Next]_vars
      PROVE  Inv'
  <2>1. CASE RunInst
    <3>1. PICK i \in Rom[cpu.PC], raised \in Raised : \E stale \in Stale(cpu, i) :
            FinishInst(TickHw(ExecInst(cpu, i, stale), raised))
      BY <2>1 DEF RunInst
    <3>2. PICK stale \in Stale(cpu, i) : FinishInst(TickHw(ExecInst(cpu, i, stale), raised))
      BY <3>1
    <3>. DEFINE e == ExecInst(cpu, i, stale)
                m == TickHw(e, raised)
    <3>3. i \in Instruction /\ stale \in Addr /\ m \in Machine /\ cpu \in Machine
      BY <1>2, RunStageType DEF TypeOK
    <3>4. e \in Machine /\ Matched(e)
      BY <1>2, <3>3, ExecInstType, ExecInstMatched
    <3>. HIDE DEF e
    <3>5. m.stack = e.stack /\ m.levels = e.levels /\ m.paired = e.paired
      BY <3>4 DEF TickHw, Machine
    <3>. HIDE DEF m
    <3>6. Matched(m)
      BY <3>4, <3>5, SameMatched
    <3>. QED
      BY <3>2, <3>3, <3>6, FinishInstMatched DEF m, e
  <2>2. CASE IdleInst
    BY <1>2, <2>2, FinishInstMatched DEF IdleInst, TypeOK
  <2>3. CASE PinChange
    <3>1. PICK s : cpu' = [cpu EXCEPT !.req = @ \cup {s}]
      BY <2>3 DEF PinChange
    <3>2. cpu'.stack = cpu.stack /\ cpu'.levels = cpu.levels /\ cpu'.paired = cpu.paired
      BY <1>2, <3>1 DEF TypeOK, Machine
    <3>. QED
      BY <1>2, <3>2, SameMatched
  <2>4. CASE Reset
    BY <1>0, <2>4 DEF Reset
  <2>5. CASE UNCHANGED vars
    BY <1>2, <2>5 DEF vars
  <2>. QED
    BY <1>2, <2>1, <2>2, <2>3, <2>4, <2>5 DEF Next, DoInst
<1>3. Inv => ReturnsMatchLevels
  BY DEF Matched, ReturnsMatchLevels
<1>. HIDE DEF Inv
<1>. QED
  BY <1>1, <1>2, <1>3, TypeCorrect, PTL DEF Spec


-----------------------------------------------------------------------------
(***************************************************************************)
(* What the main program sees.                                             *)
(***************************************************************************)
(* MainPC, MainFrames and MainCalls, of any machine.                        *)
MainPCOf(m) == IF m.levels = <<>> THEN m.PC ELSE m.levels[1].PC

MainFramesOf(m) == {k \in DOMAIN m.stack : \A j \in {h \in DOMAIN m.stack : m.stack[h].it} : k < j}

MainCallsOf(m) == [k \in MainFramesOf(m) |-> m.stack[k].ret]

SameView(m, n) == MainPCOf(n) = MainPCOf(m) /\ MainCallsOf(n) = MainCallsOf(m)

(* An instruction of the main program, as PlainProgram has it.              *)
PlainStep(i, m, n) ==
  LET at == MainPCOf(m)
      calls == MainCallsOf(m)
  IN /\ m.levels = <<>>
     /\ \/ /\ i.op = "jmp"
           /\ MainPCOf(n) = i.to /\ MainCallsOf(n) = calls
        \/ /\ i.op = "call"
           /\ MainPCOf(n) = i.to /\ MainCallsOf(n) = Append(calls, Succ[at])
        \/ /\ i.op = "ret" /\ calls # <<>>
           /\ MainPCOf(n) = calls[Len(calls)] /\ MainCallsOf(n) = SubSeq(calls, 1, Len(calls) - 1)
        \/ /\ i.op \notin {"jmp", "call", "ret", "reti"}
           /\ MainPCOf(n) = Succ[at] /\ MainCallsOf(n) = calls

(* While no handler is in service, all frames are the main program's; else  *)
(* there is a handler's frame.                                              *)
LEMMA HandlersOnStack ==
  ASSUME NEW m \in Machine, Matched(m), m.paired
  PROVE  /\ m.levels = <<>> <=> \A k \in 1..Len(m.stack) : ~m.stack[k].it
         /\ m.levels = <<>> => MainFramesOf(m) = 1..Len(m.stack)
<1>1. /\ m.stack \in Seq(Frame) /\ m.levels \in Seq(Level)
      /\ Cardinality(HandlerFrames(m, Len(m.stack))) = Len(m.levels)
  BY DEF Matched, Machine
<1>2. IsFiniteSet(HandlerFrames(m, Len(m.stack)))
  <2>1. Len(m.stack) \in Nat
    BY <1>1
  <2>2. IsFiniteSet(1..Len(m.stack)) /\ HandlerFrames(m, Len(m.stack)) \subseteq 1..Len(m.stack)
    BY <2>1, FS_Interval DEF HandlerFrames
  <2>. QED
    BY <2>2, FS_Subset
<1>3. m.levels = <<>> <=> HandlerFrames(m, Len(m.stack)) = {}
  BY <1>1, <1>2, FS_EmptySet, EmptySeq
<1>4. HandlerFrames(m, Len(m.stack)) = {} <=> \A k \in 1..Len(m.stack) : ~m.stack[k].it
  BY DEF HandlerFrames
<1>5. DOMAIN m.stack = 1..Len(m.stack)
  BY <1>1
<1>. QED
  BY <1>3, <1>4, <1>5 DEF MainFramesOf

(* Whatever leaves the stack and the levels alone, and the PC when no       *)
(* handler is in service, leaves the main program alone.                    *)
LEMMA SameMain ==
  ASSUME NEW m, NEW n, n.stack = m.stack, n.levels = m.levels, m.levels = <<>> => n.PC = m.PC
  PROVE  SameView(m, n)
  BY DEF SameView, MainPCOf, MainCallsOf, MainFramesOf

(* A frame more.                                                            *)
LEMMA PushView ==
  ASSUME NEW m \in Machine, NEW n, NEW f \in Frame, n.stack = Append(m.stack, f),
         f.it \/ \E k \in 1..Len(m.stack) : m.stack[k].it
  PROVE  MainCallsOf(n) = MainCallsOf(m)
<1>. DEFINE len == Len(m.stack)
<1>1. m.stack \in Seq(Frame) /\ len \in Nat
  BY DEF Machine
<1>2. /\ Len(n.stack) = len + 1 /\ n.stack[len + 1] = f
      /\ \A k \in 1..len : n.stack[k] = m.stack[k]
      /\ DOMAIN n.stack = 1..(len + 1) /\ DOMAIN m.stack = 1..len
  BY <1>1
<1>. HIDE DEF len
<1>3. MainFramesOf(n) = MainFramesOf(m)
  <2>1. ASSUME NEW k \in MainFramesOf(m) PROVE k \in MainFramesOf(n)
    BY <1>1, <1>2, <2>1 DEF MainFramesOf
  <2>2. ASSUME NEW k \in MainFramesOf(n) PROVE k \in MainFramesOf(m)
    <3>1. k \in 1..(len + 1) /\ \A j \in 1..(len + 1) : n.stack[j].it => k < j
      BY <1>2 DEF MainFramesOf
    <3>2. k # len + 1
      <4>1. CASE f.it
        BY <1>1, <1>2, <3>1, <4>1
      <4>2. CASE \E h \in 1..len : m.stack[h].it
        <5>1. PICK h \in 1..len : m.stack[h].it
          BY <4>2
        <5>2. h \in 1..(len + 1) /\ n.stack[h].it
          BY <1>1, <1>2, <5>1
        <5>. QED
          BY <1>1, <3>1, <5>2
      <4>. QED
        BY <4>1, <4>2 DEF len
    <3>3. k \in 1..len /\ \A j \in 1..len : m.stack[j].it => k < j
      BY <1>1, <1>2, <3>1, <3>2
    <3>. QED
      BY <1>2, <3>3 DEF MainFramesOf
  <2>. QED
    BY <2>1, <2>2
<1>4. \A k \in MainFramesOf(m) : n.stack[k].ret = m.stack[k].ret
  BY <1>2 DEF MainFramesOf
<1>. QED
  BY <1>3, <1>4 DEF MainCallsOf

(* A frame less.                                                            *)
LEMMA PopView ==
  ASSUME NEW m \in Machine, NEW n, m.stack # <<>>, n.stack = Front(m.stack),
         \E k \in 1..Len(m.stack) : m.stack[k].it
  PROVE  MainCallsOf(n) = MainCallsOf(m)
<1>. DEFINE len == Len(m.stack) - 1
<1>1. m.stack \in Seq(Frame) /\ len \in Nat /\ Len(m.stack) = len + 1
  <2>1. m.stack \in Seq(Frame)
    BY DEF Machine
  <2>. QED
    BY <2>1, EmptySeq
<1>2. /\ Front(m.stack) \in Seq(Frame) /\ Len(n.stack) = len
      /\ \A k \in 1..len : n.stack[k] = m.stack[k]
  BY <1>1, FrontOfSeq, SMTT(60)
<1>3. DOMAIN n.stack = 1..len /\ DOMAIN m.stack = 1..(len + 1)
  BY <1>1, <1>2
<1>. HIDE DEF len
<1>4. PICK h \in 1..(len + 1) : m.stack[h].it
  BY <1>1
<1>5. MainFramesOf(n) = MainFramesOf(m)
  <2>1. ASSUME NEW k \in MainFramesOf(m) PROVE k \in MainFramesOf(n)
    <3>1. k \in 1..(len + 1) /\ \A j \in 1..(len + 1) : m.stack[j].it => k < j
      BY <1>3 DEF MainFramesOf
    <3>2. k \in 1..len
      BY <1>1, <1>4, <3>1
    <3>3. \A j \in 1..len : n.stack[j].it => k < j
      BY <1>1, <1>2, <3>1
    <3>. QED
      BY <1>3, <3>2, <3>3 DEF MainFramesOf
  <2>2. ASSUME NEW k \in MainFramesOf(n) PROVE k \in MainFramesOf(m)
    <3>1. k \in 1..len /\ \A j \in 1..len : n.stack[j].it => k < j
      BY <1>3 DEF MainFramesOf
    <3>2. k \in 1..(len + 1) /\ k < len + 1
      BY <1>1, <3>1
    <3>3. \A j \in 1..(len + 1) : m.stack[j].it => k < j
      BY <1>1, <1>2, <3>1, <3>2
    <3>. QED
      BY <1>3, <3>2, <3>3 DEF MainFramesOf
  <2>. QED
    BY <2>1, <2>2
<1>6. MainFramesOf(n) \subseteq 1..len
  BY <1>3 DEF MainFramesOf
<1>7. \A k \in MainFramesOf(m) : n.stack[k].ret = m.stack[k].ret
  BY <1>2, <1>5, <1>6
<1>. QED
  BY <1>5, <1>7 DEF MainCallsOf

(* The main program's frames, when they are all there are, are a sequence.  *)
LEMMA MainAlone ==
  ASSUME NEW m, m.stack \in Seq(Frame), \A k \in 1..Len(m.stack) : ~m.stack[k].it
  PROVE  MainCallsOf(m) = [k \in 1..Len(m.stack) |-> m.stack[k].ret]
<1>1. DOMAIN m.stack = 1..Len(m.stack)
  OBVIOUS
<1>2. MainFramesOf(m) = 1..Len(m.stack)
  BY <1>1 DEF MainFramesOf
<1>. QED
  BY <1>2 DEF MainCallsOf

(* A call of the main program, ...                                          *)
LEMMA CallView ==
  ASSUME NEW m, NEW n, m.stack \in Seq(Frame), \A k \in 1..Len(m.stack) : ~m.stack[k].it,
         NEW f \in Frame, ~f.it, n.stack = Append(m.stack, f)
  PROVE  MainCallsOf(n) = Append(MainCallsOf(m), f.ret)
<1>. DEFINE len == Len(m.stack)
            c == MainCallsOf(m)
            d == MainCallsOf(n)
<1>1. len \in Nat /\ n.stack \in Seq(Frame) /\ Len(n.stack) = len + 1 /\ n.stack[len + 1] = f
      /\ \A k \in 1..len : n.stack[k] = m.stack[k]
  OBVIOUS
<1>2. c = [k \in 1..len |-> m.stack[k].ret]
  BY MainAlone
<1>3. \A k \in 1..Len(n.stack) : ~n.stack[k].it
  BY <1>1
<1>4. d = [k \in 1..(len + 1) |-> n.stack[k].ret]
  BY <1>1, <1>3, MainAlone
<1>5. \A k \in 1..len : m.stack[k] \in Frame
  BY <1>1, ElementOfSeq
<1>6. f.ret \in Addr /\ \A k \in 1..len : m.stack[k].ret \in Addr
  BY <1>5 DEF Frame
<1>. HIDE DEF len, c, d
<1>7. c \in Seq(Addr) /\ Len(c) = len
  BY <1>1, <1>2, <1>6
<1>8. d \in Seq(Addr) /\ Len(d) = len + 1
  BY <1>1, <1>4, <1>6
<1>9. \A k \in 1..(len + 1) : d[k] = Append(c, f.ret)[k]
  BY <1>1, <1>2, <1>4, <1>6, <1>7
<1>10. Append(c, f.ret) \in Seq(Addr) /\ Len(Append(c, f.ret)) = len + 1
  BY <1>6, <1>7
<1>11. d = Append(c, f.ret)
  BY <1>8, <1>9, <1>10, SeqEqual
<1>. QED
  BY <1>11 DEF c, d

(* ... and a return.                                                        *)
LEMMA RetView ==
  ASSUME NEW m, NEW n, m.stack \in Seq(Frame), m.stack # <<>>,
         \A k \in 1..Len(m.stack) : ~m.stack[k].it, n.stack = Front(m.stack)
  PROVE  LET c == MainCallsOf(m)
         IN /\ c # <<>> /\ c[Len(c)] = Last(m.stack).ret
            /\ MainCallsOf(n) = SubSeq(c, 1, Len(c) - 1)
<1>. DEFINE len == Len(m.stack) - 1
            c == MainCallsOf(m)
            d == MainCallsOf(n)
<1>1. len \in Nat /\ Len(m.stack) = len + 1
  BY EmptySeq
<1>2. /\ n.stack \in Seq(Frame) /\ Len(n.stack) = len
      /\ \A k \in 1..len : n.stack[k] = m.stack[k]
  BY <1>1, FrontOfSeq
<1>3. c = [k \in 1..(len + 1) |-> m.stack[k].ret]
  BY <1>1, MainAlone
<1>4. \A k \in 1..Len(n.stack) : ~n.stack[k].it
  BY <1>1, <1>2
<1>5. d = [k \in 1..len |-> n.stack[k].ret]
  BY <1>2, <1>4, MainAlone
<1>6. \A k \in 1..(len + 1) : m.stack[k] \in Frame
  BY <1>1, ElementOfSeq
<1>7. \A k \in 1..(len + 1) : m.stack[k].ret \in Addr
  BY <1>6 DEF Frame
<1>8. Last(m.stack) = m.stack[len + 1]
  BY <1>1 DEF Last
<1>. HIDE DEF len, c, d
<1>9. c \in Seq(Addr) /\ Len(c) = len + 1
  BY <1>1, <1>3, <1>7
<1>10. c # <<>> /\ c[len + 1] = Last(m.stack).ret
  BY <1>1, <1>3, <1>8, <1>9, EmptySeq
<1>11. d \in Seq(Addr) /\ Len(d) = len
  BY <1>1, <1>2, <1>5, <1>7
<1>12. Front(c) \in Seq(Addr) /\ Len(Front(c)) = len /\ \A k \in 1..len : Front(c)[k] = c[k]
  <2>1. /\ Front(c) \in Seq(Addr) /\ Len(Front(c)) = Len(c) - 1
        /\ \A k \in 1..(Len(c) - 1) : Front(c)[k] = c[k]
    BY <1>9, <1>10, FrontOfSeq
  <2>2. Len(c) - 1 = len
    BY <1>1, <1>9
  <2>. QED
    BY <2>1, <2>2
<1>13. \A k \in 1..len : d[k] = Front(c)[k]
  BY <1>1, <1>2, <1>3, <1>5, <1>12
<1>14. d = Front(c)
  BY <1>11, <1>12, <1>13, SeqEqual
<1>15. Front(c) = SubSeq(c, 1, Len(c) - 1)
  BY DEF Front
<1>. QED
  BY <1>9, <1>10, <1>14, <1>15 DEF c, d

(* The instruction is one of the main program or leaves it alone.           *)
LEMMA ExecInstView ==
  ASSUME NEW m \in Machine, NEW i \in Instruction, NEW stale \in Addr, Matched(m),
         ExecInst(m, i, stale).paired
  PROVE  LET e == ExecInst(m, i, stale)
         IN m.paired /\ (SameView(m, e) \/ PlainStep(i, m, e))
<1>. DEFINE n == [m EXCEPT !.PC = Succ[m.PC], !.was_reti = FALSE]
            e == ExecInst(m, i, stale)
            handled == \E k \in 1..Len(m.stack) : m.stack[k].it
<1>1. /\ n \in Machine /\ n.stack = m.stack /\ n.levels = m.levels /\ n.paired = m.paired
      /\ n.PC = Succ[m.PC] /\ e \in Machine
  BY AddrAssumption, ExecInstType DEF Machine
<1>2. e.levels = IF i.op = "reti" /\ m.levels # <<>> THEN Front(m.levels) ELSE m.levels
  BY ExecInstLevels
<1>3. m.paired => (m.levels = <<>> <=> ~handled)
  BY HandlersOnStack
<1>4. m.stack \in Seq(Frame) /\ m.levels \in Seq(Level)
  BY DEF Machine
<1>5. e.paired
  OBVIOUS
<1>. HIDE DEF n, handled
<1>6. CASE i.op \in {"nop", "jmp", "ie", "ea", "ip", "pcon", "flag"}
  <2>1. e.stack = n.stack /\ e.levels = n.levels /\ e.paired = n.paired
        /\ e.PC = IF i.op = "jmp" THEN i.to ELSE n.PC
    <3>1. CASE i.op = "jmp"
      <4>1. e = [n EXCEPT !.PC = i.to]
        BY <3>1 DEF ExecInst, n
      <4>. QED
        BY <1>1, <3>1, <4>1 DEF Machine
    <3>2. CASE i.op = "nop"
      <4>1. e = n
        BY <3>2 DEF ExecInst, n
      <4>. QED
        BY <3>2, <4>1
    <3>3. CASE i.op = "ie"
      <4>1. e = [n EXCEPT !.ea = i.ea, !.en = i.bits, !.was_reti = TRUE]
        BY <3>3 DEF ExecInst, n
      <4>. QED
        BY <1>1, <3>3, <4>1 DEF Machine
    <3>4. CASE i.op = "ea"
      <4>1. e = [n EXCEPT !.ea = i.ea]
        BY <3>4 DEF ExecInst, n
      <4>. QED
        BY <1>1, <3>4, <4>1 DEF Machine
    <3>5. CASE i.op = "ip"
      <4>1. e = [n EXCEPT !.ip = i.bits]
        BY <3>5 DEF ExecInst, n
      <4>. QED
        BY <1>1, <3>5, <4>1 DEF Machine
    <3>6. CASE i.op = "pcon"
      <4>1. e = [n EXCEPT !.idl = i.idl, !.pd = i.pd]
        BY <3>6 DEF ExecInst, n
      <4>. QED
        BY <1>1, <3>6, <4>1 DEF Machine
    <3>7. CASE i.op = "flag"
      <4>1. e = [n EXCEPT !.req = IF i.on THEN @ \cup {i.src} ELSE @ \ {i.src}]
        BY <3>7 DEF ExecInst, n
      <4>. QED
        BY <1>1, <3>7, <4>1 DEF Machine
    <3>. QED
      BY <1>6, <3>1, <3>2, <3>3, <3>4, <3>5, <3>6, <3>7
  <2>. HIDE DEF e
  <2>2. MainCallsOf(e) = MainCallsOf(m)
    BY <1>1, <2>1 DEF MainCallsOf, MainFramesOf
  <2>3. CASE m.levels = <<>>
    <3>1. MainPCOf(m) = m.PC /\ MainPCOf(e) = e.PC
      BY <1>1, <2>1, <2>3 DEF MainPCOf
    <3>2. PlainStep(i, m, e)
      BY <1>1, <1>6, <2>1, <2>2, <2>3, <3>1 DEF PlainStep
    <3>. QED
      BY <1>1, <1>5, <2>1, <3>2 DEF e
  <2>4. CASE m.levels # <<>>
    <3>1. SameView(m, e)
      BY <1>1, <2>1, <2>4, SameMain
    <3>. QED
      BY <1>1, <1>5, <2>1, <3>1 DEF e
  <2>. QED
    BY <2>3, <2>4
<1>7. CASE i.op = "call"
  <2>. DEFINE f == [ret |-> n.PC, it |-> FALSE]
  <2>1. e = [Push(n, FALSE) EXCEPT !.PC = i.to]
    BY <1>7 DEF ExecInst, n
  <2>2. e.stack = Push(n, FALSE).stack /\ e.paired = Push(n, FALSE).paired /\ e.PC = i.to
    BY <1>1, <2>1, PushType DEF Machine
  <2>3. f \in Frame /\ f.it = FALSE /\ f.ret = Succ[m.PC]
    BY <1>1 DEF Frame, Machine
  <2>4. m.paired /\ e.stack = Append(m.stack, f)
    BY <1>1, <1>5, <2>2 DEF Push, Machine
  <2>5. e.levels = m.levels
    BY <1>2, <1>7
  <2>. HIDE DEF e, f
  <2>6. CASE m.levels = <<>>
    <3>1. MainPCOf(m) = m.PC /\ MainPCOf(e) = i.to
      BY <2>2, <2>5, <2>6 DEF MainPCOf
    <3>2. MainCallsOf(e) = Append(MainCallsOf(m), Succ[m.PC])
      BY <1>3, <1>4, <2>3, <2>4, <2>6, CallView DEF handled
    <3>3. PlainStep(i, m, e)
      BY <1>7, <2>6, <3>1, <3>2 DEF PlainStep
    <3>. QED
      BY <2>4, <3>3 DEF e
  <2>7. CASE m.levels # <<>>
    <3>1. MainCallsOf(e) = MainCallsOf(m)
      BY <1>3, <2>3, <2>4, <2>7, PushView DEF handled
    <3>2. MainPCOf(e) = MainPCOf(m)
      BY <2>5, <2>7 DEF MainPCOf
    <3>. QED
      BY <2>4, <3>1, <3>2 DEF e, SameView
  <2>. QED
    BY <2>6, <2>7
<1>8. CASE i.op = "ret" \/ i.op = "reti"
  <2>. DEFINE isr == i.op = "reti"
              p == Pop(n, isr, stale)
  <2>1. p \in Machine
    BY <1>1, PopType
  <2>2. e.stack = p.stack /\ e.paired = p.paired /\ e.PC = p.PC
    <3>1. CASE i.op = "ret"
      BY <3>1 DEF ExecInst, n
    <3>2. CASE i.op = "reti"
      <4>1. p = Pop(n, TRUE, stale)
        BY <3>2
      <4>. HIDE DEF p
      <4>2. e = [PopLevel(p) EXCEPT !.was_reti = TRUE]
        BY <3>2, <4>1 DEF ExecInst, n
      <4>3. PopLevel(p) \in Machine /\ PopLevel(p).stack = p.stack /\ PopLevel(p).paired = p.paired
            /\ PopLevel(p).PC = p.PC
        BY <2>1, PopLevelType DEF PopLevel, Machine
      <4>. QED
        BY <4>2, <4>3 DEF Machine
    <3>. QED
      BY <1>8, <3>1, <3>2
  <2>3. n.stack # <<>>
    BY <1>1, <1>5, <2>2 DEF Pop, Machine
  <2>4. p.stack = Front(n.stack) /\ p.paired = (n.paired /\ (Last(n.stack).it = isr))
        /\ p.PC = Last(n.stack).ret
    BY <1>1, <2>3 DEF Pop, Machine
  <2>5. /\ m.stack # <<>> /\ e.stack = Front(m.stack) /\ e.PC = Last(m.stack).ret
        /\ m.paired /\ (Last(m.stack).it <=> i.op = "reti")
    <3>1. Last(n.stack) \in Frame
      BY <1>1, <1>4, <2>3, FrontOfSeq
    <3>. QED
      BY <1>1, <1>5, <2>2, <2>3, <2>4, <3>1 DEF Frame
  <2>6. Len(m.stack) \in Nat \ {0} /\ Last(m.stack) = m.stack[Len(m.stack)]
    BY <1>4, <2>5, EmptySeq DEF Last
  <2>. HIDE DEF e
  <2>7. CASE m.levels = <<>>
    <3>1. ~handled
      BY <1>3, <2>5, <2>7
    <3>2. i.op = "ret"
      BY <1>8, <2>5, <2>6, <3>1 DEF handled
    <3>3. MainPCOf(m) = m.PC /\ MainPCOf(e) = e.PC
      BY <1>2, <2>7, <3>2 DEF MainPCOf, e
    <3>4. LET c == MainCallsOf(m)
          IN /\ c # <<>> /\ c[Len(c)] = Last(m.stack).ret
             /\ MainCallsOf(e) = SubSeq(c, 1, Len(c) - 1)
      BY <1>4, <2>5, <3>1, RetView DEF handled
    <3>5. PlainStep(i, m, e)
      BY <2>5, <2>7, <3>2, <3>3, <3>4 DEF PlainStep
    <3>. QED
      BY <2>5, <3>5 DEF e
  <2>8. CASE m.levels # <<>>
    <3>1. MainCallsOf(e) = MainCallsOf(m)
      BY <1>3, <2>5, <2>8, PopView DEF handled
    <3>2. Len(m.levels) \in Nat \ {0}
      BY <1>4, <2>8, EmptySeq
    <3>3. CASE i.op = "ret"
      <4>1. e.levels = m.levels
        BY <1>2, <3>3 DEF e
      <4>2. MainPCOf(e) = MainPCOf(m)
        BY <2>8, <4>1 DEF MainPCOf
      <4>. QED
        BY <2>5, <3>1, <4>2 DEF e, SameView
    <3>4. CASE i.op = "reti"
      <4>1. e.levels = Front(m.levels)
        BY <1>2, <2>8, <3>4 DEF e
      <4>2. /\ Front(m.levels) \in Seq(Level) /\ Len(Front(m.levels)) = Len(m.levels) - 1
            /\ \A k \in 1..(Len(m.levels) - 1) : Front(m.levels)[k] = m.levels[k]
        BY <1>4, <2>8, FrontOfSeq
      <4>3. CASE Len(m.levels) = 1
        <5>1. Len(m.stack) \in HandlerFrames(m, Len(m.stack))
          BY <2>5, <2>6, <3>4 DEF HandlerFrames
        <5>2. /\ Cardinality(HandlerFrames(m, Len(m.stack))) = 1
              /\ m.stack[Len(m.stack)].ret = m.levels[Cardinality(HandlerFrames(m, Len(m.stack)))].PC
          BY <2>5, <4>3, <5>1 DEF Matched
        <5>3. e.levels = <<>>
          BY <4>1, <4>2, <4>3, EmptySeq
        <5>4. MainPCOf(e) = MainPCOf(m)
          BY <2>5, <2>6, <2>8, <5>2, <5>3 DEF MainPCOf
        <5>. QED
          BY <2>5, <3>1, <5>4 DEF e, SameView
      <4>4. CASE Len(m.levels) # 1
        <5>1. e.levels # <<>> /\ e.levels[1] = m.levels[1]
          <6>1. Len(m.levels) - 1 \in Nat \ {0} /\ 1 \in 1..(Len(m.levels) - 1)
            <7>. DEFINE count == Len(m.levels)
            <7>1. count \in Nat /\ count # 1 /\ count # 0
              BY <1>4, <2>8, <4>4, EmptySeq
            <7>. HIDE DEF count
            <7>2. count - 1 \in Nat \ {0} /\ 1 \in 1..(count - 1)
              BY <7>1
            <7>. QED
              BY <7>2 DEF count
          <6>2. e.levels[1] = m.levels[1]
            BY <4>1, <4>2, <6>1
          <6>3. Len(e.levels) # 0 /\ e.levels \in Seq(Level)
            BY <4>1, <4>2, <6>1
          <6>. QED
            BY <6>2, <6>3, EmptySeq
        <5>2. MainPCOf(e) = MainPCOf(m)
          BY <2>8, <5>1 DEF MainPCOf
        <5>. QED
          BY <2>5, <3>1, <5>2 DEF e, SameView
      <4>. QED
        BY <4>3, <4>4
    <3>. QED
      BY <1>8, <3>3, <3>4
  <2>. QED
    BY <2>7, <2>8
<1>. QED
  BY <1>6, <1>7, <1>8, InstructionFields DEF Op

(* The rest of do_inst() leaves the main program alone.                     *)
LEMMA FinishInstView ==
  ASSUME NEW m \in Machine, FinishInst(m), Matched(m), cpu'.paired
  PROVE  m.paired /\ SameView(m, cpu')
<1>1. CASE cpu' = m
  BY <1>1 DEF SameView
<1>2. CASE cpu' = IdlePd(NotTaken(m))
  <2>. DEFINE n == NotTaken(m)
  <2>1. n \in Machine /\ n.stack = m.stack /\ n.levels = m.levels /\ n.paired = m.paired /\ n.PC = m.PC
    BY DEF NotTaken, WakeUp, Machine
  <2>. HIDE DEF n
  <2>2. /\ IdlePd(n).stack = n.stack /\ IdlePd(n).levels = n.levels /\ IdlePd(n).paired = n.paired
        /\ IdlePd(n).PC = n.PC
    BY <2>1 DEF IdlePd, Machine
  <2>3. SameView(m, IdlePd(n))
    BY <2>1, <2>2, SameMain
  <2>. QED
    BY <1>2, <2>1, <2>2, <2>3 DEF n
<1>3. ASSUME NEW s \in Source, cpu' = Accept(m, s)
      PROVE  m.paired /\ SameView(m, cpu')
  <2>. DEFINE n == Accept(m, s)
              f == [ret |-> m.PC, it |-> TRUE]
              lev == [level |-> PriorityOf(m, s), PC |-> m.PC, src |-> s]
  <2>1. n \in Machine /\ Push(m, TRUE) \in Machine
    BY AcceptType, PushType
  <2>2. n.stack = Push(m, TRUE).stack /\ n.paired = Push(m, TRUE).paired
        /\ n.levels = Append(m.levels, lev)
    BY <2>1 DEF Accept, Machine
  <2>3. f \in Frame /\ f.it /\ lev \in Level /\ lev.PC = m.PC
    BY PriorityRange DEF Frame, Level, Machine
  <2>4. n.paired
    BY <1>3
  <2>5. m.paired /\ n.stack = Append(m.stack, f)
    BY <2>2, <2>4 DEF Push, Machine
  <2>6. m.levels \in Seq(Level)
    BY DEF Machine
  <2>. HIDE DEF n, lev, f
  <2>7. MainCallsOf(n) = MainCallsOf(m)
    BY <2>3, <2>5, PushView
  <2>8. n.levels # <<>> /\ n.levels[1] = IF m.levels = <<>> THEN lev ELSE m.levels[1]
    <3>1. Len(m.levels) \in Nat /\ (m.levels = <<>> <=> Len(m.levels) = 0)
      BY <2>6, EmptySeq
    <3>. QED
      BY <2>2, <2>3, <2>6, <3>1
  <2>9. MainPCOf(n) = MainPCOf(m)
    BY <2>3, <2>8 DEF MainPCOf
  <2>. QED
    BY <1>3, <2>5, <2>7, <2>9 DEF n, SameView
<1>. QED
  BY <1>1, <1>2, <1>3, FinishInstCases

(* Every step of the machine is one of the main program, or leaves it alone.*)
LEMMA MainStep ==
  ASSUME TypeOK, Matched(cpu), cpu'.paired, [Next]_vars
  PROVE  \/ SameView(cpu, cpu')
         \/ \E i \in Rom[MainPCOf(cpu)] : PlainStep(i, cpu, cpu')
         \/ MainPCOf(cpu') = ResetVector /\ MainCallsOf(cpu') = <<>>
<1>1. CASE RunInst
  <2>1. PICK i \in Rom[cpu.PC], raised \in Raised : \E stale \in Stale(cpu, i) :
          FinishInst(TickHw(ExecInst(cpu, i, stale), raised))
    BY <1>1 DEF RunInst
  <2>2. PICK stale \in Stale(cpu, i) : FinishInst(TickHw(ExecInst(cpu, i, stale), raised))
    BY <2>1
  <2>. DEFINE e == ExecInst(cpu, i, stale)
              m == TickHw(e, raised)
  <2>3. i \in Instruction /\ stale \in Addr /\ m \in Machine /\ cpu \in Machine
    BY RunStageType DEF TypeOK
  <2>4. e \in Machine /\ Matched(e)
    BY <2>3, ExecInstType, ExecInstMatched
  <2>. HIDE DEF e
  <2>5. m.stack = e.stack /\ m.levels = e.levels /\ m.paired = e.paired /\ m.PC = e.PC
    BY <2>4 DEF TickHw, Machine
  <2>6. Matched(m)
    BY <2>4, <2>5, SameMatched
  <2>. HIDE DEF m
  <2>7. m.paired /\ SameView(m, cpu')
    BY <2>2, <2>3, <2>6, FinishInstView DEF m, e
  <2>8. SameView(e, cpu')
    BY <2>5, <2>7, SameMain DEF SameView
  <2>9. SameView(cpu, e) \/ PlainStep(i, cpu, e)
    BY <2>3, <2>5, <2>7, ExecInstView DEF e
  <2>10. CASE SameView(cpu, e)
    BY <2>8, <2>10 DEF SameView
  <2>11. CASE PlainStep(i, cpu, e) /\ ~SameView(cpu, e)
    <3>1. PlainStep(i, cpu, cpu')
      BY <2>8, <2>11 DEF PlainStep, SameView
    <3>2. cpu.levels = <<>>
      BY <3>1 DEF PlainStep
    <3>. QED
      BY <3>1, <3>2 DEF MainPCOf
  <2>. QED
    BY <2>9, <2>10, <2>11
<1>2. CASE IdleInst
  <2>1. FinishInst(cpu) /\ cpu \in Machine
    BY <1>2 DEF IdleInst, TypeOK
  <2>. QED
    BY <2>1, FinishInstView
<1>3. CASE PinChange
  <2>1. PICK s : cpu' = [cpu EXCEPT !.req = @ \cup {s}]
    BY <1>3 DEF PinChange
  <2>2. cpu'.stack = cpu.stack /\ cpu'.levels = cpu.levels /\ cpu'.PC = cpu.PC
    BY <2>1 DEF TypeOK, Machine
  <2>. QED
    BY <2>2, SameMain
<1>4. CASE Reset
  <2>1. cpu'.PC = ResetVector /\ cpu'.levels = <<>> /\ cpu'.stack = <<>>
    BY <1>4 DEF Reset, ResetMachine
  <2>. QED
    BY <2>1 DEF MainPCOf, MainCallsOf, MainFramesOf
<1>5. CASE UNCHANGED vars
  BY <1>5 DEF vars, SameView
<1>. QED
  BY <1>1, <1>2, <1>3, <1>4, <1>5 DEF Next, DoInst

(* A machine whose returns all pair up executes the main program and        *)
(* nothing else, wherever do_interrupt() strikes: each call of do_inst() is *)
(* an instruction of it, a reset, or leaves where it will go on and its own *)
(* return addresses alone.                                                  *)
THEOREM InterruptsAreTransparent == Spec /\ []cpu.paired => TransparentInterrupts
<1>. DEFINE P == cpu.paired
<1>1. Init => Plain!Init
  BY DEF Init, ResetMachine, Plain!Init, MainPC, MainCalls, MainFrames
<1>2. MainPC = MainPCOf(cpu) /\ MainCalls = MainCallsOf(cpu)
  BY DEF MainPC, MainPCOf, MainCalls, MainCallsOf, MainFrames, MainFramesOf
<1>3. MainPC' = MainPCOf(cpu') /\ MainCalls' = MainCallsOf(cpu')
  BY DEF MainPC, MainPCOf, MainCalls, MainCallsOf, MainFrames, MainFramesOf
<1>4. ASSUME TypeOK, ReturnsMatchLevels, P', [Next]_vars
      PROVE  [Plain!Next]_<<MainPC, MainCalls>>
  <2>1. Matched(cpu)
    BY <1>4 DEF Matched, ReturnsMatchLevels
  <2>2. CASE SameView(cpu, cpu')
    BY <1>2, <1>3, <2>2 DEF SameView
  <2>3. ASSUME NEW i \in Rom[MainPCOf(cpu)], PlainStep(i, cpu, cpu')
        PROVE  Plain!Next
    <3>1. Plain!Step(i)
      BY <1>2, <1>3, <2>3 DEF Plain!Step, PlainStep
    <3>. QED
      BY <1>2, <3>1 DEF Plain!Next
  <2>4. CASE MainPCOf(cpu') = ResetVector /\ MainCallsOf(cpu') = <<>>
    BY <1>3, <2>4 DEF Plain!Next
  <2>. QED
    BY <1>4, <2>1, <2>2, <2>3, <2>4, MainStep
<1>. HIDE DEF P
<1>5. Spec /\ []P => TransparentInterrupts
  BY <1>1, <1>4, TypeCorrect, ReturnsAlwaysMatch, PTL DEF Spec, TransparentInterrupts, Plain!Spec
<1>. QED
  BY <1>5 DEF P

-----------------------------------------------------------------------------
(***************************************************************************)
(* Programs that pair their returns.                                       *)
(***************************************************************************)
(* Where the routine goes on that has k - 1 frames below it.                *)
Place(m, k) == IF k = Len(m.stack) + 1 THEN m.PC ELSE m.stack[k].ret

Handlers(m, k) == Cardinality(HandlerFrames(m, k))

(* The room that the main program and n handlers need.                      *)
Room(depth, isr, n) == depth[ResetVector] + n * (1 + isr)

(* Every routine on the stack is what its frame says, from the main program *)
(* up, and has the room it needs.                                           *)
Placed(kind, depth, isr, m) ==
  /\ kind[Place(m, 1)] = "main"
  /\ \A k \in 1..Len(m.stack) : kind[Place(m, k + 1)] = IF m.stack[k].it THEN "isr" ELSE "sub"
  /\ \A k \in 1..(Len(m.stack) + 1) : k - 1 + depth[Place(m, k)] <= Room(depth, isr, Handlers(m, k - 1))

LEMMA RoomGrows ==
  ASSUME NEW depth, NEW isr \in Nat, depth[ResetVector] \in Nat, NEW n \in Nat
  PROVE  /\ Room(depth, isr, n) \in Nat
         /\ Room(depth, isr, n + 1) = Room(depth, isr, n) + 1 + isr
         /\ n <= 2 => Room(depth, isr, n) <= depth[ResetVector] + 2 * (1 + isr)
         /\ n <= 1 => Room(depth, isr, n) < depth[ResetVector] + 2 * (1 + isr)
<1>. DEFINE w == 1 + isr
<1>1. w \in Nat \ {0} /\ n * w \in Nat /\ (n + 1) * w = n * w + w
  OBVIOUS
<1>2. CASE n = 0
  BY <1>1, <1>2 DEF Room
<1>3. CASE n = 1
  BY <1>1, <1>3 DEF Room
<1>4. CASE n = 2
  BY <1>1, <1>4 DEF Room
<1>5. CASE n > 2
  BY <1>1, <1>5 DEF Room
<1>. QED
  BY <1>2, <1>3, <1>4, <1>5

(* How many of the frames up to a place are handlers'.                      *)
LEMMA HandlersCount ==
  ASSUME NEW m \in Machine, NEW k \in 0..Len(m.stack)
  PROVE  /\ Handlers(m, k) \in Nat
         /\ k < Len(m.stack) => Handlers(m, k + 1) = Handlers(m, k) + (IF m.stack[k + 1].it THEN 1 ELSE 0)
<1>1. IsFiniteSet(1..k) /\ HandlerFrames(m, k) \subseteq 1..k
  BY FS_Interval DEF HandlerFrames
<1>2. IsFiniteSet(HandlerFrames(m, k))
  BY <1>1, FS_Subset
<1>3. Handlers(m, k) \in Nat
  BY <1>2, FS_CardinalityType DEF Handlers
<1>. QED
  BY <1>3, OneMorePlace DEF Handlers

(* Control moves within a routine.                                          *)
LEMMA MovePlaced ==
  ASSUME NEW kind, NEW depth \in [Addr -> Nat], NEW isr \in Nat,
         NEW m \in Machine, NEW n \in Machine, Placed(kind, depth, isr, m),
         n.stack = m.stack, kind[n.PC] = kind[m.PC], depth[n.PC] <= depth[m.PC]
  PROVE  Placed(kind, depth, isr, n)
<1>. DEFINE len == Len(m.stack)
<1>1. len \in Nat /\ m.stack \in Seq(Frame) /\ m.PC \in Addr /\ n.PC \in Addr
  BY DEF Machine
<1>2. \A k \in 1..len : Place(n, k) = Place(m, k)
  BY <1>1 DEF Place
<1>3. Place(n, len + 1) = n.PC /\ Place(m, len + 1) = m.PC
  BY DEF Place
<1>4. \A k \in 0..len : Handlers(n, k) = Handlers(m, k)
  BY DEF Handlers, HandlerFrames
<1>5. Len(n.stack) = len
  OBVIOUS
<1>. HIDE DEF len
<1>6. \A k \in 1..(len + 1) : kind[Place(n, k)] = kind[Place(m, k)]
  BY <1>1, <1>2, <1>3
<1>7. kind[Place(n, 1)] = "main"
  BY <1>1, <1>6 DEF Placed
<1>8. \A k \in 1..len : kind[Place(n, k + 1)] = IF n.stack[k].it THEN "isr" ELSE "sub"
  BY <1>1, <1>6 DEF Placed, len
<1>9. ASSUME NEW k \in 1..(len + 1)
      PROVE  k - 1 + depth[Place(n, k)] <= Room(depth, isr, Handlers(n, k - 1))
  <2>1. k - 1 \in 0..len /\ Handlers(n, k - 1) = Handlers(m, k - 1)
    BY <1>1, <1>4
  <2>2. /\ Handlers(m, k - 1) \in Nat
    BY <2>1, HandlersCount DEF len
  <2>3. Room(depth, isr, Handlers(m, k - 1)) \in Nat
    BY <2>2, AddrAssumption, RoomGrows
  <2>4. k - 1 + depth[Place(m, k)] <= Room(depth, isr, Handlers(m, k - 1))
    BY DEF Placed, len
  <2>5. CASE k = len + 1
    BY <1>1, <1>3, <2>1, <2>3, <2>4, <2>5
  <2>6. CASE k # len + 1
    <3>1. Place(n, k) = Place(m, k)
      BY <1>1, <1>2, <2>6
    <3>. QED
      BY <2>1, <2>4, <3>1
  <2>. QED
    BY <2>5, <2>6
<1>. QED
  BY <1>5, <1>7, <1>8, <1>9 DEF Placed

(* A call or an acceptance.                                                 *)
LEMMA PushPlaced ==
  ASSUME NEW kind, NEW depth \in [Addr -> Nat], NEW isr \in Nat,
         NEW m \in Machine, NEW n \in Machine, Placed(kind, depth, isr, m),
         NEW f \in Frame, n.stack = Append(m.stack, f),
         kind[f.ret] = kind[m.PC], depth[f.ret] <= depth[m.PC],
         kind[n.PC] = IF f.it THEN "isr" ELSE "sub",
         IF f.it THEN depth[n.PC] <= isr ELSE depth[n.PC] < depth[m.PC]
  PROVE  Placed(kind, depth, isr, n)
<1>. DEFINE len == Len(m.stack)
<1>1. /\ len \in Nat /\ m.stack \in Seq(Frame) /\ m.PC \in Addr /\ n.PC \in Addr /\ f.ret \in Addr
      /\ f.it \in BOOLEAN
  BY DEF Machine, Frame
<1>2. /\ Len(n.stack) = len + 1 /\ n.stack[len + 1] = f
      /\ \A k \in 1..len : n.stack[k] = m.stack[k]
  BY <1>1
<1>. HIDE DEF len
<1>3. \A k \in 1..len : Place(n, k) = Place(m, k)
  BY <1>1, <1>2 DEF Place, len
<1>4. Place(n, len + 1) = f.ret /\ Place(n, len + 2) = n.PC /\ Place(m, len + 1) = m.PC
  BY <1>1, <1>2 DEF Place, len
<1>5. \A k \in 0..len : Handlers(n, k) = Handlers(m, k)
  BY <1>1, <1>2, SamePlaces DEF Handlers
<1>6. \A k \in 1..(len + 1) : kind[Place(n, k)] = kind[Place(m, k)]
  BY <1>1, <1>3, <1>4
<1>7. kind[Place(n, 1)] = "main"
  BY <1>1, <1>6 DEF Placed
<1>8. ASSUME NEW k \in 1..(len + 1)
      PROVE  kind[Place(n, k + 1)] = IF n.stack[k].it THEN "isr" ELSE "sub"
  <2>1. CASE k = len + 1
    BY <1>1, <1>2, <1>4, <2>1
  <2>2. CASE k # len + 1
    <3>1. k \in 1..len /\ k + 1 \in 1..(len + 1)
      BY <1>1, <2>2
    <3>2. kind[Place(m, k + 1)] = IF m.stack[k].it THEN "isr" ELSE "sub"
      BY <3>1 DEF Placed, len
    <3>. QED
      BY <1>2, <1>6, <3>1, <3>2
  <2>. QED
    BY <2>1, <2>2
<1>9. /\ \A k \in 0..len : Handlers(m, k) \in Nat /\ Room(depth, isr, Handlers(m, k)) \in Nat
      /\ Handlers(n, len + 1) = Handlers(m, len) + (IF f.it THEN 1 ELSE 0)
      /\ depth[ResetVector] \in Nat
  <2>1. \A k \in 0..len : Handlers(m, k) \in Nat
    BY HandlersCount DEF len
  <2>2. depth[ResetVector] \in Nat
    BY AddrAssumption
  <2>3. len \in 0..Len(n.stack) /\ len < Len(n.stack)
    BY <1>1, <1>2
  <2>4. Handlers(n, len + 1) = Handlers(n, len) + (IF n.stack[len + 1].it THEN 1 ELSE 0)
    BY <2>3, HandlersCount
  <2>5. Handlers(n, len) = Handlers(m, len)
    BY <1>1, <1>5
  <2>. QED
    BY <1>2, <2>1, <2>2, <2>4, <2>5, RoomGrows
<1>10. \A k \in 1..(len + 1) : k - 1 + depth[Place(m, k)] <= Room(depth, isr, Handlers(m, k - 1))
  BY DEF Placed, len
<1>11. ASSUME NEW k \in 1..(len + 2)
       PROVE  k - 1 + depth[Place(n, k)] <= Room(depth, isr, Handlers(n, k - 1))
  <2>1. CASE k \in 1..len
    <3>1. k - 1 \in 0..len /\ k \in 1..(len + 1)
      BY <1>1, <2>1
    <3>. QED
      BY <1>3, <1>5, <1>10, <2>1, <3>1
  <2>2. CASE k = len + 1
    <3>1. k - 1 = len /\ len \in 0..len /\ k \in 1..(len + 1)
      BY <1>1, <2>2
    <3>2. /\ Handlers(n, k - 1) = Handlers(m, len) /\ Room(depth, isr, Handlers(m, len)) \in Nat
          /\ len + depth[m.PC] <= Room(depth, isr, Handlers(m, len))
      BY <1>4, <1>5, <1>9, <1>10, <2>2, <3>1
    <3>3. len + depth[f.ret] <= Room(depth, isr, Handlers(m, len))
      <4>1. depth[f.ret] \in Nat /\ depth[m.PC] \in Nat
        BY <1>1
      <4>. QED
        BY <1>1, <3>2, <4>1
    <3>. QED
      BY <1>4, <2>2, <3>1, <3>2, <3>3
  <2>3. CASE k = len + 2
    <3>1. k - 1 = len + 1 /\ len \in 0..len /\ len + 1 \in 1..(len + 1)
      BY <1>1, <2>3
    <3>2. /\ Handlers(m, len) \in Nat /\ Room(depth, isr, Handlers(m, len)) \in Nat
          /\ len + depth[m.PC] <= Room(depth, isr, Handlers(m, len))
      <4>1. (len + 1) - 1 = len
        BY <1>1
      <4>. QED
        BY <1>4, <1>9, <1>10, <3>1, <4>1
    <3>3. Room(depth, isr, Handlers(m, len) + 1) = Room(depth, isr, Handlers(m, len)) + 1 + isr
      BY <1>9, <3>2, RoomGrows
    <3>4. depth[n.PC] \in Nat /\ depth[m.PC] \in Nat
      BY <1>1
    <3>5. CASE f.it
      <4>1. Handlers(n, len + 1) = Handlers(m, len) + 1 /\ depth[n.PC] <= isr
        BY <1>9, <3>5
      <4>2. len + 1 + depth[n.PC] <= Room(depth, isr, Handlers(m, len)) + 1 + isr
        BY <1>1, <3>2, <3>4, <4>1
      <4>. QED
        BY <1>4, <2>3, <3>1, <3>3, <4>1, <4>2
    <3>6. CASE ~f.it
      <4>1. Handlers(n, len + 1) = Handlers(m, len) /\ depth[n.PC] < depth[m.PC]
        BY <1>9, <3>2, <3>6
      <4>2. len + 1 + depth[n.PC] <= Room(depth, isr, Handlers(m, len))
        BY <1>1, <3>2, <3>4, <4>1
      <4>. QED
        BY <1>4, <2>3, <3>1, <4>1, <4>2
    <3>. QED
      BY <3>5, <3>6
  <2>. QED
    BY <1>1, <2>1, <2>2, <2>3
<1>. QED
  <2>1. (len + 1) + 1 = len + 2
    BY <1>1
  <2>. QED
    BY <1>2, <1>7, <1>8, <1>11, <2>1 DEF Placed

(* A return.                                                                *)
LEMMA PopPlaced ==
  ASSUME NEW kind, NEW depth \in [Addr -> Nat], NEW isr \in Nat,
         NEW m \in Machine, NEW n \in Machine, Placed(kind, depth, isr, m),
         m.stack # <<>>, n.stack = Front(m.stack), n.PC = Last(m.stack).ret
  PROVE  Placed(kind, depth, isr, n)
<1>. DEFINE len == Len(m.stack) - 1
<1>1. m.stack \in Seq(Frame) /\ len \in Nat /\ Len(m.stack) = len + 1
  <2>1. m.stack \in Seq(Frame)
    BY DEF Machine
  <2>. QED
    BY <2>1, EmptySeq
<1>2. Len(n.stack) = len /\ \A k \in 1..len : n.stack[k] = m.stack[k]
  BY <1>1, FrontOfSeq
<1>3. n.PC = m.stack[len + 1].ret
  BY <1>1 DEF Last
<1>. HIDE DEF len
<1>4. \A k \in 1..(len + 1) : Place(n, k) = Place(m, k)
  BY <1>1, <1>2, <1>3 DEF Place
<1>5. \A k \in 0..len : Handlers(n, k) = Handlers(m, k)
  BY <1>1, <1>2, SamePlaces DEF Handlers
<1>6. kind[Place(n, 1)] = "main"
  BY <1>1, <1>4 DEF Placed
<1>7. ASSUME NEW k \in 1..len
      PROVE  kind[Place(n, k + 1)] = IF n.stack[k].it THEN "isr" ELSE "sub"
  <2>1. k \in 1..Len(m.stack) /\ k + 1 \in 1..(len + 1)
    BY <1>1
  <2>2. kind[Place(m, k + 1)] = IF m.stack[k].it THEN "isr" ELSE "sub"
    BY <2>1 DEF Placed
  <2>. QED
    BY <1>2, <1>4, <2>1, <2>2
<1>8. ASSUME NEW k \in 1..(len + 1)
      PROVE  k - 1 + depth[Place(n, k)] <= Room(depth, isr, Handlers(n, k - 1))
  <2>1. k \in 1..(Len(m.stack) + 1) /\ k - 1 \in 0..len
    BY <1>1
  <2>2. k - 1 + depth[Place(m, k)] <= Room(depth, isr, Handlers(m, k - 1))
    BY <2>1 DEF Placed
  <2>. QED
    BY <1>4, <1>5, <2>1, <2>2
<1>. QED
  BY <1>2, <1>6, <1>7, <1>8 DEF Placed

(* The stack has room for the calls to come and for a second handler.       *)
LEMMA StackFits ==
  ASSUME NEW kind, NEW depth, NEW isr, LaidOut(kind, depth, isr),
         NEW m \in Machine, Placed(kind, depth, isr, m), Matched(m), m.paired, Len(m.levels) <= 2,
         depth[m.PC] > 0 \/ Len(m.levels) <= 1
  PROVE  Len(m.stack) # Slots
<1>. DEFINE len == Len(m.stack)
            most == depth[ResetVector] + 2 * (1 + isr)
<1>1. /\ m.stack \in Seq(Frame) /\ m.PC \in Addr /\ m.levels \in Seq(Level)
      /\ depth \in [Addr -> Nat] /\ isr \in Nat /\ ResetVector \in Addr /\ Slots \in Nat
      /\ most <= Slots
  BY AddrAssumption, SizeAssumption DEF Machine, LaidOut
<1>2. len \in Nat /\ Len(m.levels) \in Nat /\ most \in Nat /\ depth[m.PC] \in Nat
  BY <1>1
<1>3. Handlers(m, len) = Len(m.levels)
  BY DEF Matched, Handlers
<1>4. len + depth[m.PC] <= Room(depth, isr, Len(m.levels))
  <2>1. len + 1 \in 1..(Len(m.stack) + 1) /\ (len + 1) - 1 = len
    BY <1>2
  <2>2. (len + 1) - 1 + depth[Place(m, len + 1)] <= Room(depth, isr, Handlers(m, (len + 1) - 1))
    BY <2>1 DEF Placed
  <2>3. Place(m, len + 1) = m.PC
    BY DEF Place
  <2>. QED
    BY <1>3, <2>1, <2>2, <2>3
<1>5. /\ Room(depth, isr, Len(m.levels)) \in Nat
      /\ Room(depth, isr, Len(m.levels)) <= most
      /\ Len(m.levels) <= 1 => Room(depth, isr, Len(m.levels)) < most
  BY <1>1, <1>2, RoomGrows
<1>. HIDE DEF len, most
<1>6. len < most
  BY <1>2, <1>4, <1>5
<1>. QED
  BY <1>1, <1>2, <1>6 DEF len

(* The instructions of a program that is laid out.                          *)
LEMMA ExecInstPlaced ==
  ASSUME NEW kind, NEW depth, NEW isr, LaidOut(kind, depth, isr),
         NEW m \in Machine, Placed(kind, depth, isr, m), Matched(m), m.paired, Len(m.levels) <= 2,
         NEW i \in Rom[m.PC], NEW stale \in Addr
  PROVE  LET e == ExecInst(m, i, stale) IN e.paired /\ Placed(kind, depth, isr, e)
<1>. DEFINE n == [m EXCEPT !.PC = Succ[m.PC], !.was_reti = FALSE]
            e == ExecInst(m, i, stale)
<1>1. /\ m.PC \in Addr /\ i \in Instruction /\ depth \in [Addr -> Nat] /\ isr \in Nat
      /\ m.stack \in Seq(Frame)
  BY AddrAssumption DEF Machine, LaidOut
<1>2. n \in Machine /\ e \in Machine /\ n.stack = m.stack /\ n.paired /\ n.PC = Succ[m.PC]
  BY <1>1, AddrAssumption, ExecInstType DEF Machine
<1>3. /\ i.op = "ret" => kind[m.PC] = "sub"
      /\ i.op = "reti" => kind[m.PC] = "isr"
      /\ i.op = "call" => kind[i.to] = "sub" /\ depth[i.to] < depth[m.PC]
      /\ i.op = "jmp" => kind[i.to] = kind[m.PC] /\ depth[i.to] <= depth[m.PC]
      /\ i.op \notin {"ret", "reti", "jmp"} => kind[n.PC] = kind[m.PC] /\ depth[n.PC] <= depth[m.PC]
  BY <1>1, <1>2 DEF LaidOut
<1>. HIDE DEF n
<1>4. CASE i.op \in {"nop", "ie", "ea", "ip", "pcon", "flag"}
  <2>1. e.stack = n.stack /\ e.paired = n.paired /\ e.PC = n.PC
    <3>1. CASE i.op = "nop"
      <4>1. e = n
        BY <3>1 DEF ExecInst, n
      <4>. QED
        BY <4>1
    <3>2. CASE i.op = "ie"
      <4>1. e = [n EXCEPT !.ea = i.ea, !.en = i.bits, !.was_reti = TRUE]
        BY <3>2 DEF ExecInst, n
      <4>. QED
        BY <1>2, <4>1 DEF Machine
    <3>3. CASE i.op = "ea"
      <4>1. e = [n EXCEPT !.ea = i.ea]
        BY <3>3 DEF ExecInst, n
      <4>. QED
        BY <1>2, <4>1 DEF Machine
    <3>4. CASE i.op = "ip"
      <4>1. e = [n EXCEPT !.ip = i.bits]
        BY <3>4 DEF ExecInst, n
      <4>. QED
        BY <1>2, <4>1 DEF Machine
    <3>5. CASE i.op = "pcon"
      <4>1. e = [n EXCEPT !.idl = i.idl, !.pd = i.pd]
        BY <3>5 DEF ExecInst, n
      <4>. QED
        BY <1>2, <4>1 DEF Machine
    <3>6. CASE i.op = "flag"
      <4>1. e = [n EXCEPT !.req = IF i.on THEN @ \cup {i.src} ELSE @ \ {i.src}]
        BY <3>6 DEF ExecInst, n
      <4>. QED
        BY <1>2, <4>1 DEF Machine
    <3>. QED
      BY <1>4, <3>1, <3>2, <3>3, <3>4, <3>5, <3>6
  <2>2. kind[n.PC] = kind[m.PC] /\ depth[n.PC] <= depth[m.PC]
    BY <1>3, <1>4
  <2>. HIDE DEF e
  <2>3. e.stack = m.stack /\ kind[e.PC] = kind[m.PC] /\ depth[e.PC] <= depth[m.PC]
    BY <1>2, <2>1, <2>2
  <2>4. Placed(kind, depth, isr, e)
    BY <1>1, <1>2, <2>3, MovePlaced
  <2>. QED
    BY <1>2, <2>1, <2>4 DEF e
<1>5. CASE i.op = "jmp"
  <2>1. e = [n EXCEPT !.PC = i.to]
    BY <1>5 DEF ExecInst, n
  <2>2. e.stack = m.stack /\ e.paired /\ e.PC = i.to
    BY <1>2, <2>1 DEF Machine
  <2>. HIDE DEF e
  <2>3. Placed(kind, depth, isr, e)
    BY <1>1, <1>2, <1>3, <1>5, <2>2, MovePlaced
  <2>. QED
    BY <2>2, <2>3 DEF e
<1>6. CASE i.op = "call"
  <2>. DEFINE f == [ret |-> n.PC, it |-> FALSE]
  <2>1. e = [Push(n, FALSE) EXCEPT !.PC = i.to]
    BY <1>6 DEF ExecInst, n
  <2>2. e.stack = Push(n, FALSE).stack /\ e.paired = Push(n, FALSE).paired /\ e.PC = i.to
    BY <1>2, <2>1, PushType DEF Machine
  <2>3. Len(m.stack) # Slots
    <3>1. i.to \in Addr
      BY <1>1, <1>6, InstructionFields
    <3>2. depth[i.to] \in Nat /\ depth[m.PC] \in Nat /\ depth[i.to] < depth[m.PC]
      BY <1>1, <1>3, <1>6, <3>1
    <3>3. depth[m.PC] > 0
      BY <3>2
    <3>. QED
      BY <3>3, StackFits
  <2>4. f \in Frame /\ f.it = FALSE /\ f.ret = n.PC
    BY <1>2 DEF Frame, Machine
  <2>5. e.stack = Append(m.stack, f) /\ e.paired
    BY <1>2, <2>2, <2>3 DEF Push, Machine
  <2>. HIDE DEF e, f
  <2>6. Placed(kind, depth, isr, e)
    BY <1>1, <1>2, <1>3, <1>6, <2>2, <2>4, <2>5, PushPlaced
  <2>. QED
    BY <2>5, <2>6 DEF e
<1>7. CASE i.op \in {"ret", "reti"}
  <2>. DEFINE isReti == i.op = "reti"
              p == Pop(n, isReti, stale)
  <2>1. e.stack = p.stack /\ e.paired = p.paired /\ e.PC = p.PC
    <3>1. p \in Machine
      BY <1>2, PopType
    <3>2. CASE i.op = "ret"
      <4>1. e = p
        BY <3>2 DEF ExecInst, n
      <4>. QED
        BY <4>1
    <3>3. CASE i.op = "reti"
      <4>1. e = [PopLevel(p) EXCEPT !.was_reti = TRUE]
        BY <3>3 DEF ExecInst, n
      <4>. HIDE DEF p
      <4>2. /\ PopLevel(p) \in Machine /\ PopLevel(p).stack = p.stack
            /\ PopLevel(p).paired = p.paired /\ PopLevel(p).PC = p.PC
        BY <3>1, PopLevelType DEF PopLevel, Machine
      <4>. QED
        BY <4>1, <4>2 DEF Machine
    <3>. QED
      BY <1>7, <3>2, <3>3
  <2>2. m.stack # <<>> /\ Last(m.stack).it = isReti
    <3>. DEFINE len == Len(m.stack)
    <3>1. len \in Nat /\ Place(m, len + 1) = m.PC
      BY <1>1 DEF Place
    <3>. HIDE DEF len
    <3>2. len # 0
      <4>1. kind[Place(m, 1)] = "main"
        BY DEF Placed
      <4>2. kind[m.PC] # "main"
        BY <1>3, <1>7
      <4>. QED
        BY <3>1, <4>1, <4>2
    <3>3. len \in 1..len
      BY <3>1, <3>2
    <3>4. kind[m.PC] = IF m.stack[len].it THEN "isr" ELSE "sub"
      BY <3>1, <3>3 DEF Placed, len
    <3>5. m.stack[len] \in Frame
      BY <1>1, <3>3, ElementOfSeq DEF len
    <3>6. m.stack[len].it \in BOOLEAN
      BY <3>5 DEF Frame
    <3>7. m.stack[len].it = isReti
      BY <1>3, <1>7, <3>4, <3>6
    <3>. QED
      BY <1>1, <3>2, <3>7, EmptySeq DEF Last, len
  <2>3. p.stack = Front(m.stack) /\ p.PC = Last(m.stack).ret /\ p.paired
    BY <1>2, <2>2 DEF Pop, Machine
  <2>. HIDE DEF e, p
  <2>4. Placed(kind, depth, isr, e)
    BY <1>1, <1>2, <2>1, <2>2, <2>3, PopPlaced
  <2>. QED
    BY <2>1, <2>3, <2>4 DEF e
<1>. QED
  BY <1>1, <1>4, <1>5, <1>6, <1>7, InstructionFields DEF Op

(* The rest of do_inst().                                                   *)
LEMMA FinishInstPlaced ==
  ASSUME NEW kind, NEW depth, NEW isr, LaidOut(kind, depth, isr),
         NEW m \in Machine, Placed(kind, depth, isr, m), Matched(m), m.paired, FinishInst(m),
         Len(cpu'.levels) <= 2
  PROVE  cpu'.paired /\ Placed(kind, depth, isr, cpu')
<1>1. m.PC \in Addr /\ depth \in [Addr -> Nat] /\ isr \in Nat /\ m.levels \in Seq(Level)
  BY DEF Machine, LaidOut
<1>2. CASE cpu' = m
  BY <1>2
<1>3. CASE cpu' = IdlePd(NotTaken(m))
  <2>. DEFINE n == NotTaken(m)
              d == IdlePd(n)
  <2>1. n \in Machine /\ n.stack = m.stack /\ n.paired = m.paired /\ n.PC = m.PC
    BY DEF NotTaken, WakeUp, Machine
  <2>. HIDE DEF n
  <2>2. d \in Machine /\ d.stack = n.stack /\ d.paired = n.paired /\ d.PC = n.PC
    BY <2>1 DEF IdlePd, Machine
  <2>. HIDE DEF d
  <2>3. depth[d.PC] <= depth[m.PC]
    BY <1>1, <2>1, <2>2
  <2>4. Placed(kind, depth, isr, d)
    BY <1>1, <2>1, <2>2, <2>3, MovePlaced
  <2>. QED
    BY <1>3, <2>1, <2>2, <2>4 DEF d, n
<1>4. ASSUME NEW s \in Source, cpu' = Accept(m, s)
      PROVE  cpu'.paired /\ Placed(kind, depth, isr, cpu')
  <2>. DEFINE n == Accept(m, s)
              f == [ret |-> m.PC, it |-> TRUE]
              lev == [level |-> PriorityOf(m, s), PC |-> m.PC, src |-> s]
  <2>1. n \in Machine /\ Push(m, TRUE) \in Machine
    BY AcceptType, PushType
  <2>2. /\ n.stack = Push(m, TRUE).stack /\ n.paired = Push(m, TRUE).paired
        /\ n.levels = Append(m.levels, lev) /\ n.PC = Vector[s]
    BY <2>1 DEF Accept, Machine
  <2>3. Len(m.levels) <= 1
    <3>1. Len(n.levels) <= 2
      BY <1>4
    <3>. HIDE DEF n, lev
    <3>2. Len(n.levels) = Len(m.levels) + 1 /\ Len(m.levels) \in Nat
      BY <1>1, <2>2
    <3>. QED
      BY <3>1, <3>2
  <2>. HIDE DEF lev
  <2>4. Len(m.levels) <= 2
    BY <1>1, <2>3
  <2>5. Len(m.stack) # Slots
    BY <2>3, <2>4, StackFits
  <2>6. f \in Frame /\ f.it = TRUE /\ f.ret = m.PC
    BY <1>1 DEF Frame
  <2>7. n.stack = Append(m.stack, f) /\ n.paired
    BY <2>2, <2>5 DEF Push, Machine
  <2>8. kind[Vector[s]] = "isr" /\ depth[Vector[s]] <= isr
    BY DEF LaidOut
  <2>. HIDE DEF n, f
  <2>9. depth[f.ret] <= depth[m.PC]
    BY <1>1, <2>6
  <2>10. Placed(kind, depth, isr, n)
    BY <1>1, <2>1, <2>2, <2>6, <2>7, <2>8, <2>9, PushPlaced
  <2>. QED
    BY <1>4, <2>7, <2>10 DEF n
<1>. QED
  BY <1>2, <1>3, <1>4, FinishInstCases

LEMMA ResetPlaced ==
  ASSUME NEW kind, NEW depth, NEW isr, LaidOut(kind, depth, isr)
  PROVE  ResetMachine.paired /\ Placed(kind, depth, isr, ResetMachine)
<1>1. /\ ResetMachine.paired /\ Len(ResetMachine.stack) = 0
      /\ Place(ResetMachine, 1) = ResetVector
  BY DEF ResetMachine, Place
<1>2. Handlers(ResetMachine, 0) = 0
  <2>1. HandlerFrames(ResetMachine, 0) = {}
    BY DEF HandlerFrames
  <2>. QED
    BY <2>1, FS_EmptySet DEF Handlers
<1>3. /\ depth[ResetVector] \in Nat /\ isr \in Nat /\ kind[ResetVector] = "main"
  BY AddrAssumption DEF LaidOut
<1>4. Room(depth, isr, 0) = depth[ResetVector]
  BY <1>3 DEF Room
<1>. HIDE DEF ResetMachine
<1>5. \A k \in 1..1 : k - 1 + depth[Place(ResetMachine, k)] <= Room(depth, isr, Handlers(ResetMachine, k - 1))
  <2>1. 1 - 1 + depth[ResetVector] <= depth[ResetVector] /\ 1 - 1 = 0
    BY <1>3
  <2>2. \A k \in 1..1 : k = 1
    OBVIOUS
  <2>. QED
    BY <1>1, <1>2, <1>4, <2>1, <2>2
<1>. QED
  BY <1>1, <1>3, <1>5 DEF Placed

LEMMA PlacedStep ==
  ASSUME NEW kind, NEW depth, NEW isr, LaidOut(kind, depth, isr),
         TypeOK, Matched(cpu), Len(cpu.levels) <= 2, (Len(cpu.levels) <= 2)',
         cpu.paired, Placed(kind, depth, isr, cpu), [Next]_vars
  PROVE  cpu'.paired /\ Placed(kind, depth, isr, cpu')
<1>1. cpu \in Machine
  BY DEF TypeOK
<1>2. CASE RunInst
  <2>1. PICK i \in Rom[cpu.PC], raised \in Raised : \E stale \in Stale(cpu, i) :
          FinishInst(TickHw(ExecInst(cpu, i, stale), raised))
    BY <1>2 DEF RunInst
  <2>2. PICK stale \in Stale(cpu, i) : FinishInst(TickHw(ExecInst(cpu, i, stale), raised))
    BY <2>1
  <2>. DEFINE e == ExecInst(cpu, i, stale)
              m == TickHw(e, raised)
  <2>3. i \in Instruction /\ stale \in Addr /\ m \in Machine
    BY <1>1, RunStageType
  <2>4. e \in Machine /\ Matched(e)
    BY <1>1, <2>3, ExecInstType, ExecInstMatched
  <2>5. e.paired /\ Placed(kind, depth, isr, e)
    BY <1>1, <2>3, ExecInstPlaced
  <2>. HIDE DEF e
  <2>6. m.stack = e.stack /\ m.levels = e.levels /\ m.paired = e.paired /\ m.PC = e.PC
    BY <2>4 DEF TickHw, Machine
  <2>7. Matched(m) /\ m.paired
    BY <2>4, <2>5, <2>6, SameMatched
  <2>. HIDE DEF m
  <2>8. Placed(kind, depth, isr, m)
    <3>1. depth \in [Addr -> Nat] /\ isr \in Nat /\ e.PC \in Addr
      BY <2>4 DEF LaidOut, Machine
    <3>2. depth[m.PC] <= depth[e.PC]
      BY <2>6, <3>1
    <3>. QED
      BY <2>3, <2>4, <2>5, <2>6, <3>1, <3>2, MovePlaced
  <2>. QED
    BY <2>2, <2>3, <2>7, <2>8, FinishInstPlaced DEF m, e
<1>3. CASE IdleInst
  BY <1>1, <1>3, FinishInstPlaced DEF IdleInst
<1>4. CASE PinChange
  <2>1. PICK s \in PinSource : cpu' = [cpu EXCEPT !.req = @ \cup {s}]
    BY <1>4 DEF PinChange
  <2>2. /\ cpu'.stack = cpu.stack /\ cpu'.paired /\ cpu'.PC = cpu.PC
    BY <1>1, <2>1 DEF Machine
  <2>3. depth \in [Addr -> Nat] /\ isr \in Nat /\ cpu.PC \in Addr
    BY <1>1 DEF LaidOut, Machine
  <2>4. depth[cpu'.PC] <= depth[cpu.PC]
    BY <2>2, <2>3
  <2>5. cpu' \in Machine
    BY TypeStep DEF TypeOK
  <2>. QED
    BY <1>1, <2>2, <2>3, <2>4, <2>5, MovePlaced
<1>5. CASE Reset
  BY <1>5, ResetPlaced DEF Reset
<1>6. CASE UNCHANGED vars
  BY <1>6 DEF vars
<1>. QED
  BY <1>2, <1>3, <1>4, <1>5, <1>6 DEF Next, DoInst

(* A program that is laid out pairs its returns for good, whatever its      *)
(* interrupts do and whenever they strike: the stack never overflows, and   *)
(* every RET and RETI finds its own frame.                                  *)
THEOREM ReturnsAlwaysPair ==
  ASSUME NEW kind, NEW depth, NEW isr, LaidOut(kind, depth, isr)
  PROVE  Spec => []ReturnsPair
<1>. DEFINE Inv == cpu.paired /\ Placed(kind, depth, isr, cpu)
            Two == Len(cpu.levels) <= 2
<1>1. Init => Inv
  BY ResetPlaced DEF Init
<1>2. ASSUME TypeOK, ReturnsMatchLevels, Two, Two', Inv, [Next]_vars
      PROVE  Inv'
  <2>1. Matched(cpu)
    BY <1>2 DEF Matched, ReturnsMatchLevels
  <2>. QED
    BY <1>2, <2>1, PlacedStep
<1>3. Inv => ReturnsPair
  BY DEF ReturnsPair
<1>4. Spec => []Two
  BY AtMostTwoHandlers
<1>. HIDE DEF Inv, Two
<1>. QED
  BY <1>1, <1>2, <1>3, <1>4, TypeCorrect, ReturnsAlwaysMatch, PTL DEF Spec

(* So its interrupts are transparent to it, without any further premise.    *)
THEOREM LaidOutIsTransparent ==
  ASSUME NEW kind, NEW depth, NEW isr, LaidOut(kind, depth, isr)
  PROVE  Spec => TransparentInterrupts
<1>. DEFINE P == cpu.paired
<1>1. Spec => []ReturnsPair
  BY ReturnsAlwaysPair
<1>2. ReturnsPair => P
  BY DEF ReturnsPair
<1>3. Spec /\ []P => TransparentInterrupts
  BY InterruptsAreTransparent
<1>. HIDE DEF P
<1>. QED
  BY <1>1, <1>2, <1>3, PTL
=============================================================================
