------------------------------- MODULE S51Core -------------------------------
(***************************************************************************)
(* The execution core of the s51 simulator, cl_51core (uc51.cc, jmp.cc),   *)
(* on top of cl_uc (uc.cc): one call of do_inst() executes an instruction, *)
(* ticks the on-chip hardware, polls the interrupt sources and acts on the *)
(* power bits of PCON, in that order and without being interrupted: the    *)
(* simulator is one thread.  Between two calls the outside may change a    *)
(* port pin or reset the part.                                             *)
(*                                                                         *)
(* The whole machine is the record cpu.  A stage of do_inst is a function  *)
(* from records to records, and DoInst composes the stages.                *)
(*                                                                         *)
(* Abstracted: registers and RAM other than the stack, and the request     *)
(* flags' causes (any subset of the sources may be raised while the        *)
(* hardware is ticked; the peripherals have modules of their own).         *)
(***************************************************************************)
EXTENDS Integers, SequencesExt

CONSTANTS
  Addr,          \* code addresses
  Succ,          \* Succ[a]: the address after the instruction at a
  ResetVector,   \* where execution starts, address 0 in the code
  Source,        \* the interrupt sources
  ItSources,     \* cl_uc::it_sources, the sources in polling order
  Vector,        \* Vector[s]: cl_it_src::addr
  Enable,        \* the enable bits (of IE, of CCAPMn, of CMOD)
  EnableOf,      \* EnableOf[s]: the bit cl_it_src::enabled() looks at
  IpBit,         \* the bits of IP
  PriorityMask,  \* PriorityMask[s]: the bits of IP under the source's ie_mask
  ClrBit,        \* the sources whose flag is cleared on acceptance
  PinSource,     \* the sources a port pin can raise between two instructions
  Raised,        \* the sets of sources the hardware may raise in one tick_hw()
  Rom,           \* Rom[a]: the instructions that may be found at a
  Slots,         \* return addresses the stack area holds before it wraps
  StopSelfJump   \* the values the user gives cl_uc::stop_selfjump

(***************************************************************************)
(* An instruction matters by what it does to control: it falls through,    *)
(* jumps, calls, returns, writes IE (as a byte, or EA as a bit), IP or     *)
(* PCON, or writes a request flag.                                         *)
(***************************************************************************)
Nop == [op |-> "nop"]
Jump(a) == [op |-> "jmp", to |-> a]
Call(a) == [op |-> "call", to |-> a]
Ret == [op |-> "ret"]
Reti == [op |-> "reti"]
WriteIE(on, bits) == [op |-> "ie", ea |-> on, bits |-> bits]
WriteEA(on) == [op |-> "ea", ea |-> on]
WriteIP(bits) == [op |-> "ip", bits |-> bits]
WritePCON(i, p) == [op |-> "pcon", idl |-> i, pd |-> p]
WriteFlag(s, on) == [op |-> "flag", src |-> s, on |-> on]

Instruction ==
  {Nop, Ret, Reti}
    \cup [op : {"jmp", "call"}, to : Addr]
    \cup [op : {"ie"}, ea : BOOLEAN, bits : SUBSET Enable]
    \cup [op : {"ea"}, ea : BOOLEAN]
    \cup [op : {"ip"}, bits : SUBSET IpBit]
    \cup [op : {"pcon"}, idl : BOOLEAN, pd : BOOLEAN]
    \cup [op : {"flag"}, src : Source, on : BOOLEAN]

Op == {"nop", "jmp", "call", "ret", "reti", "ie", "ea", "ip", "pcon", "flag"}

(* The assumptions on the constants.  ResetVector is an address, the list   *)
(* of sources is a sequence of sources, and every table has its domain.     *)
ASSUME AddrAssumption ==
  /\ ResetVector \in Addr
  /\ Succ \in [Addr -> Addr]
  /\ Rom \in [Addr -> SUBSET Instruction]
ASSUME SourceAssumption ==
  /\ ItSources \in Seq(Source)
  /\ Vector \in [Source -> Addr]
  /\ EnableOf \in [Source -> Enable]
  /\ PriorityMask \in [Source -> SUBSET IpBit]
  /\ ClrBit \subseteq Source
  /\ PinSource \subseteq Source
  /\ Raised \subseteq SUBSET Source
ASSUME SizeAssumption == Slots \in Nat \ {0} /\ StopSelfJump \subseteq BOOLEAN

VARIABLES
  cpu,      \* the machine
  result,   \* what the last do_inst() returned
  inst,     \* history: what happened last: the operation do_inst() executed,
            \* "idle" if it executed none, "pin" or "reset" from outside
  ticked    \* history: the cycles of the last do_inst(), as counted by
            \* cl_uc::ticks and as given to the hardware by tick_hw()

vars == <<cpu, result, inst, ticked>>

Frame == [ret : Addr, it : BOOLEAN]
Level == [level : {0, 1}, PC : Addr, src : Source]

(* ea, en, ip, idl and pd are bits of IE, IP and PCON; req are the sources  *)
(* whose request flag is set; levels is it_levels above the level -1 that   *)
(* is always at its bottom; paired is a history bit: so far every RET has   *)
(* consumed a frame pushed by a call, every RETI one pushed by acceptance.  *)
Machine ==
  [PC : Addr, state : {"stGO", "stIDLE", "stPD"}, idl : BOOLEAN, pd : BOOLEAN,
   ea : BOOLEAN, en : SUBSET Enable, ip : SUBSET IpBit, req : SUBSET Source,
   was_reti : BOOLEAN, levels : Seq(Level), stack : Seq(Frame), paired : BOOLEAN]

-----------------------------------------------------------------------------
(***************************************************************************)
(* The stack.  The stack pointer wraps within the RAM, so a push into a    *)
(* full area overwrites the oldest return address, and a pop from an empty *)
(* one reads whatever the RAM holds there.                                 *)
(***************************************************************************)
(* Mutant: the return address of the instruction after the next one.        *)
PushNext(m, isr) ==
  [m EXCEPT !.stack = Append(@, [ret |-> Succ[m.PC], it |-> isr])]

Push(m, isr) ==
  LET full == Len(m.stack) = Slots
      kept == IF full THEN Tail(m.stack) ELSE m.stack
  IN [m EXCEPT !.stack = Append(kept, [ret |-> m.PC, it |-> isr]),
               !.paired = @ /\ ~full]

Stale(m, i) ==
  IF m.stack = <<>> /\ i.op \in {"ret", "reti"} THEN Addr ELSE {ResetVector}

Pop(m, isr, stale) ==
  IF m.stack = <<>>
  THEN [m EXCEPT !.PC = stale, !.paired = FALSE]
  ELSE [m EXCEPT !.PC = Last(m.stack).ret, !.stack = Front(m.stack),
                 !.paired = @ /\ (Last(m.stack).it = isr)]

(***************************************************************************)
(* The first stage: fetch and execute.  do_inst() clears was_reti before   *)
(* the instruction; RETI and every byte write to IE set it, and the latter *)
(* through cl_interrupt::write, which bit writes do not reach.             *)
(***************************************************************************)
(* Mutants: RETI leaves no level, the outermost level.                      *)
PopNoLevel(m) == m
PopOuterLevel(m) == IF m.levels = <<>> THEN m ELSE [m EXCEPT !.levels = Tail(@)]

PopLevel(m) == IF m.levels = <<>> THEN m ELSE [m EXCEPT !.levels = Front(m.levels)]

ExecInst(m, i, stale) ==
  LET n == [m EXCEPT !.PC = Succ[m.PC], !.was_reti = FALSE]
  IN CASE i.op = "nop"  -> n
       [] i.op = "jmp"  -> [n EXCEPT !.PC = i.to]
       [] i.op = "call" -> [Push(n, FALSE) EXCEPT !.PC = i.to]
       [] i.op = "ret"  -> Pop(n, FALSE, stale)
       [] i.op = "reti" -> [PopLevel(Pop(n, TRUE, stale)) EXCEPT !.was_reti = TRUE]
       [] i.op = "ie"   -> [n EXCEPT !.ea = i.ea, !.en = i.bits, !.was_reti = TRUE]
       [] i.op = "ea"   -> [n EXCEPT !.ea = i.ea]
       [] i.op = "ip"   -> [n EXCEPT !.ip = i.bits]
       [] i.op = "pcon" -> [n EXCEPT !.idl = i.idl, !.pd = i.pd]
       [] i.op = "flag" -> [n EXCEPT !.req = IF i.on THEN @ \cup {i.src} ELSE @ \ {i.src}]

(* tick(1) of the decoder, and another one in the two-cycle instructions.   *)
(* Mutant: the second tick added to a table entry that already holds both.  *)
CyclesTwice(i) == IF i.op \in {"nop", "ea", "flag"} THEN 1 ELSE 3

Cycles(i) == IF i.op \in {"nop", "ea", "flag"} THEN 1 ELSE 2

(* post_inst(): the hardware runs the cycles of the instruction and may     *)
(* raise any request meanwhile.                                             *)
TickHw(m, raised) == [m EXCEPT !.req = @ \cup raised]

(***************************************************************************)
(* do_interrupt(): poll the sources in the order of it_sources and take    *)
(* the first one that is enabled, pending and above the level in service.  *)
(***************************************************************************)
TopLevel(m) == IF m.levels = <<>> THEN -1 ELSE Last(m.levels).level

PriorityOf(m, s) == IF PriorityMask[s] \cap m.ip # {} THEN 1 ELSE 0

(* Mutant: an equal priority interrupts.                                    *)
ReadyAtLevel(m, s) ==
  EnableOf[s] \in m.en /\ s \in m.req /\ PriorityOf(m, s) >= TopLevel(m)

Ready(m, s) ==
  /\ EnableOf[s] \in m.en
  /\ s \in m.req
  /\ PriorityOf(m, s) > TopLevel(m)

ReadyPositions(m) == {k \in DOMAIN ItSources : Ready(m, ItSources[k])}

(* At most one position: the first ready source of the list.                *)
FirstReady(m) == {k \in ReadyPositions(m) : \A j \in ReadyPositions(m) : k <= j}

(* Mutant: IDL stays set, and idle_pd() finds it.                           *)
WakeUpIdling(m) == [m EXCEPT !.state = "stGO", !.was_reti = TRUE]

WakeUp(m) == [m EXCEPT !.state = "stGO", !.idl = FALSE, !.was_reti = TRUE]

(* Mutants: acceptance leaves IDL, or clears the flag of every source.      *)
AcceptIdling(m, s) ==
  LET lev == [level |-> PriorityOf(m, s), PC |-> m.PC, src |-> s]
  IN [Push(m, TRUE) EXCEPT !.PC = Vector[s], !.state = "stGO",
                           !.levels = Append(m.levels, lev), !.req = @ \ {s}]
AcceptClearingAll(m, s) ==
  LET lev == [level |-> PriorityOf(m, s), PC |-> m.PC, src |-> s]
  IN [Push(m, TRUE) EXCEPT !.PC = Vector[s], !.state = "stGO", !.idl = FALSE,
                           !.levels = Append(m.levels, lev), !.req = @ \ ClrBit]

(* is->clear() and accept_it(): the level in service and the return address *)
(* are pushed, IDL is cleared (PD is not) and control goes to the vector.   *)
Accept(m, s) ==
  LET lev == [level |-> PriorityOf(m, s), PC |-> m.PC, src |-> s]
  IN [Push(m, TRUE) EXCEPT !.PC = Vector[s], !.state = "stGO", !.idl = FALSE,
                           !.levels = Append(m.levels, lev),
                           !.req = IF s \in ClrBit THEN @ \ {s} ELSE @]

(* Mutants: was_reti is not looked at; a handler is never interrupted.      *)
PollsAlways(m) == m.ea
TakesOutside(m) == ~m.was_reti /\ m.ea /\ ReadyPositions(m) # {} /\ m.levels = <<>>

Polls(m) == ~m.was_reti /\ m.ea

Takes(m) == Polls(m) /\ ReadyPositions(m) # {}

(* A part in idle is only woken; the request stays and is taken later.      *)
Accepts(m) == Takes(m) /\ m.state # "stIDLE"

NotTaken(m) == IF Takes(m) THEN WakeUp(m) ELSE [m EXCEPT !.was_reti = FALSE]

(* idle_pd(): PD is looked at last and wins.                                *)
IdlePd(m) ==
  [m EXCEPT !.state = IF m.pd THEN "stPD" ELSE IF m.idl THEN "stIDLE" ELSE @]

-----------------------------------------------------------------------------
(***************************************************************************)
(* The end of do_inst(), from the machine m that the first stage left.     *)
(* With stop_selfjump set, a PC that did not move ends the call before the *)
(* interrupts are polled.                                                  *)
(***************************************************************************)
SelfJump(m) == TRUE \in StopSelfJump /\ m.PC = cpu.PC

GoesOn(m) == FALSE \in StopSelfJump \/ m.PC # cpu.PC

FinishInst(m) ==
  \/ /\ SelfJump(m)
     /\ cpu' = m
     /\ result' = "resSELFJUMP"
  \/ /\ GoesOn(m) /\ Accepts(m)
     /\ \E k \in FirstReady(m) : cpu' = Accept(m, ItSources[k])
     /\ result' = "resINTERRUPT"
  \/ /\ GoesOn(m) /\ ~Accepts(m)
     /\ cpu' = IdlePd(NotTaken(m))
     /\ result' = "resGO"

(* accept_it() counts one more cycle, after the hardware was ticked.        *)
AcceptCycle == IF result' = "resINTERRUPT" THEN 1 ELSE 0

(* do_inst() of a running part.                                             *)
RunInst ==
  /\ cpu.state = "stGO"
  /\ \E i \in Rom[cpu.PC], raised \in Raised : \E stale \in Stale(cpu, i) :
       LET m == TickHw(ExecInst(cpu, i, stale), raised)
       IN /\ FinishInst(m)
          /\ inst' = i.op
          /\ ticked' = [cpu |-> Cycles(i) + AcceptCycle, hw |-> Cycles(i)]

(* do_inst() of a part in idle or power-down mode: tick(1) moves the cycle  *)
(* counters; nothing calls tick_hw().                                       *)
IdleInst ==
  /\ cpu.state # "stGO"
  /\ FinishInst(cpu)
  /\ inst' = "idle"
  /\ ticked' = [cpu |-> 1 + AcceptCycle, hw |-> 0]

DoInst == RunInst \/ IdleInst

(* A port pin changes between two instructions (cl_port::set_pin, from a    *)
(* console or the simulator interface); cl_interrupt::happen raises the     *)
(* edge-triggered request there and then.                                   *)
PinChange ==
  /\ \E s \in PinSource \ cpu.req : cpu' = [cpu EXCEPT !.req = @ \cup {s}]
  /\ inst' = "pin"
  /\ UNCHANGED <<result, ticked>>

(* cl_51core::reset().  The write of 0 to IE in clear_sfr() comes after     *)
(* cl_interrupt::reset() and leaves was_reti set.                           *)
ResetMachine ==
  [PC |-> ResetVector, state |-> "stGO", idl |-> FALSE, pd |-> FALSE,
   ea |-> FALSE, en |-> {}, ip |-> {}, req |-> {}, was_reti |-> TRUE,
   levels |-> <<>>, stack |-> <<>>, paired |-> TRUE]

Reset ==
  /\ cpu' = ResetMachine
  /\ result' = "resGO"
  /\ inst' = "reset"
  /\ ticked' = [cpu |-> 0, hw |-> 0]

Init ==
  /\ cpu = ResetMachine
  /\ result = "resGO"
  /\ inst = "reset"
  /\ ticked = [cpu |-> 0, hw |-> 0]

Next == DoInst \/ PinChange \/ Reset

Spec == Init /\ [][Next]_vars

(* The simulator's loop calls do_inst() again and again.                    *)
FairSpec == Spec /\ WF_vars(DoInst)

-----------------------------------------------------------------------------
(* Every variable stays in its range.  (The widths of cl_51core's state.)   *)
TypeOK ==
  /\ cpu \in Machine
  /\ result \in {"resGO", "resINTERRUPT", "resSELFJUMP"}
  /\ inst \in Op \cup {"idle", "pin", "reset"}
  /\ ticked \in [cpu : 0..3, hw : 0..2]

(* it_levels is strictly increasing: only a higher priority interrupts a    *)
(* handler, so at most two handlers are ever in service, whatever the       *)
(* program does with RETI, IE and IP in between.                            *)
StrictNesting ==
  \A k \in 1..(Len(cpu.levels) - 1) : cpu.levels[k].level < cpu.levels[k + 1].level

(* The power bits and the execution state agree after every call: a part    *)
(* in idle has IDL set and PD clear, one in power-down has PD set, and one  *)
(* that executes has IDL clear and has PD set only inside a handler that    *)
(* was accepted in power-down (accept_it() clears IDL, not PD), unless the  *)
(* call stopped on a jump to itself before idle_pd() looked.                *)
PowerBitsAgree ==
  /\ cpu.state = "stIDLE" => cpu.idl /\ ~cpu.pd
  /\ cpu.state = "stPD" => cpu.pd
  /\ cpu.state = "stGO" /\ result # "resSELFJUMP"
       => ~cpu.idl /\ (cpu.pd => cpu.levels # <<>>)

(* The places up to k of the frames that acceptance pushed and that are     *)
(* still on the stack.                                                      *)
HandlerFrames(m, k) == {j \in 1..k : m.stack[j].it}

(* A program that pairs calls with RET and acceptances with RETI gets every *)
(* interrupted PC back: there are as many handlers' frames on the stack as  *)
(* levels in it_levels, and the n-th of them returns to the PC recorded in  *)
(* the n-th level.                                                          *)
ReturnsMatchLevels ==
  cpu.paired =>
    /\ Cardinality(HandlerFrames(cpu, Len(cpu.stack))) = Len(cpu.levels)
    /\ \A k \in HandlerFrames(cpu, Len(cpu.stack)) :
         cpu.stack[k].ret = cpu.levels[Cardinality(HandlerFrames(cpu, k))].PC

(* No return address is lost or taken by the wrong one: every RET meets the *)
(* frame of its call and every RETI that of its acceptance, wherever the    *)
(* interrupts strike.  It holds for a program that is laid out as below.    *)
ReturnsPair == cpu.paired

(* A program as authors and compilers lay it out: every address belongs to  *)
(* the main program, to the handlers or to the subroutines, which both may  *)
(* call; control passes between them by calls, returns and interrupts only. *)
(* From address a at most depth[a] calls are made, in each other, before    *)
(* its routine ends; a handler makes at most isr, and the stack has room    *)
(* for the main program's and for those of two handlers, as IP allows.      *)
LaidOut(kind, depth, isr) ==
  /\ kind \in [Addr -> {"main", "sub", "isr"}]
  /\ depth \in [Addr -> Nat]
  /\ isr \in Nat
  /\ depth[ResetVector] + 2 * (1 + isr) <= Slots
  /\ kind[ResetVector] = "main"
  /\ \A s \in Source : kind[Vector[s]] = "isr" /\ depth[Vector[s]] <= isr
  /\ \A a \in Addr : \A i \in Rom[a] :
       /\ i.op = "ret" => kind[a] = "sub"
       /\ i.op = "reti" => kind[a] = "isr"
       /\ i.op = "call" => kind[i.to] = "sub" /\ depth[i.to] < depth[a]
       /\ i.op = "jmp" => kind[i.to] = kind[a] /\ depth[i.to] <= depth[a]
       /\ i.op \notin {"ret", "reti", "jmp"} => kind[Succ[a]] = kind[a] /\ depth[Succ[a]] <= depth[a]

(* No request is silently delayed: when a call of do_inst() ends with an    *)
(* interrupt that could be taken, it has executed RETI or a write of IE     *)
(* (which defer it by one instruction), has just taken another one, has     *)
(* woken the part from idle, or stopped on a jump to itself.                *)
NoSilentDelay ==
  [][ inst' # "pin" /\ cpu'.ea /\ ReadyPositions(cpu') # {}
        => \/ inst' \in {"reti", "ie"}
           \/ result' \in {"resINTERRUPT", "resSELFJUMP"}
           \/ cpu.state = "stIDLE" /\ cpu'.state = "stGO" ]_vars

(* No request is lost: a flag that was set is cleared by the program, by a  *)
(* reset, or because its own handler was entered.                           *)
RequestsKept ==
  [][ \A s \in cpu.req \ cpu'.req :
        \/ inst' \in {"flag", "reset"}
        \/ result' = "resINTERRUPT" /\ s = Last(cpu'.levels).src ]_vars

(* After RETI or a write of IE one more instruction executes before the     *)
(* next handler starts: no call that executed one of them accepts an        *)
(* interrupt, one that would take the place of the handler RETI has just    *)
(* left included.                                                           *)
OneInstructionFirst ==
  [][ inst' \in {"reti", "ie"} => result' # "resINTERRUPT" ]_vars

(* A level is left by a RETI or a reset and by nothing else, and it is the  *)
(* innermost one that is left.                                              *)
LevelsLeaveInOrder ==
  [][ cpu'.levels # cpu.levels =>
        \/ Len(cpu'.levels) > Len(cpu.levels) /\ Front(cpu'.levels) = cpu.levels
        \/ cpu.levels # <<>> /\ cpu'.levels = Front(cpu.levels) /\ inst' = "reti"
        \/ cpu'.levels = <<>> /\ inst' = "reset" ]_vars

-----------------------------------------------------------------------------
(* The handlers in service as NestedInterrupts sees them.                   *)
Serving == [k \in DOMAIN cpu.levels |->
              [src |-> cpu.levels[k].src, level |-> cpu.levels[k].level]]

Nested == INSTANCE NestedInterrupts WITH serving <- Serving, Priority <- {0, 1}

(* do_interrupt(), accept_it() and RETI implement nested interrupts: every  *)
(* call of do_inst() enters one handler above the current one, leaves the   *)
(* innermost one, or leaves the handlers in service alone.                  *)
NestedSpec == Nested!Spec

(* The interrupted program: where it will resume, and its own calls, which  *)
(* lie below the first handler's frame.                                     *)
MainPC == IF cpu.levels = <<>> THEN cpu.PC ELSE cpu.levels[1].PC

MainFrames ==
  LET isr == {k \in DOMAIN cpu.stack : cpu.stack[k].it}
  IN {k \in DOMAIN cpu.stack : \A j \in isr : k < j}

MainCalls == [k \in MainFrames |-> cpu.stack[k].ret]

Plain == INSTANCE PlainProgram WITH at <- MainPC, calls <- MainCalls, Code <- Rom

(* Interrupts are transparent: seen from the main program, the machine      *)
(* executes the program and nothing else, wherever its interrupts strike.   *)
(* It holds for a Rom that pairs its calls and returns.                     *)
TransparentInterrupts == Plain!Spec

(* A part in idle whose enabled request was raised by a pin is woken and    *)
(* runs the handler.                                                        *)
PinWakesIdle ==
  \A s \in PinSource :
    (cpu.state = "stIDLE" /\ s \in cpu.req)
      ~> (inst = "reset" \/ \E k \in DOMAIN cpu.levels : cpu.levels[k].src = s)

(* Handlers end, even when the hardware raises a request in every cycle:    *)
(* a handler that is interrupted again and again still executes one         *)
(* instruction of its own each time.                                        *)
HandlersReturn == cpu.levels # <<>> ~> cpu.levels = <<>>

(* The main program gets on under the same load or rests in idle.  (At the  *)
(* reset vector it may be held by resets.)                                  *)
MainProgresses ==
  \A a \in Addr \ {ResetVector} : MainPC = a ~> (MainPC # a \/ cpu.state = "stIDLE")

(* Both: neither a handler nor the main program starves.                    *)
ProgramsGetOn == HandlersReturn /\ MainProgresses

(* What the comment in do_inst() says of the branch for a part that is not  *)
(* running: "tick hw in idle state".                                        *)
IdleTicksHw == [][ inst' = "idle" => ticked'.hw = 1 ]_vars

=============================================================================
