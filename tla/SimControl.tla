------------------------------ MODULE SimControl ------------------------------
(***************************************************************************)
(* Starting and stopping a simulation: cl_sim (sim.cc), the commands that  *)
(* start it (cmd_exec.cc), the fetch breakpoints (brk.cc, cl_uc::do_brk)   *)
(* and the stop at a time.  The simulated program is any sequence of       *)
(* addresses; it may also set the limit of cl_sim through the simulator    *)
(* interface.  Conditions of breakpoints, event breakpoints' own lists and *)
(* emulation mode, which looks at no breakpoint, are left out.             *)
(***************************************************************************)
EXTENDS Integers

CONSTANTS
  Addrs,      \* addresses of instructions
  Hits,       \* hit counts of breakpoints
  StepCounts,     \* how many instructions or clocks step is told
  Limits,     \* limits set through the interface, 0 for none
  MaxClocks,  \* bound: clocks of an instruction
  MaxSteps    \* bound: instructions after one start

ASSUME SimAssumption ==
  /\ Addrs # {}
  /\ Hits \subseteq Nat
  /\ StepCounts \subseteq Nat \ {0}
  /\ Limits \subseteq Nat
  /\ MaxClocks \in Nat \ {0}
  /\ MaxSteps \in Nat \ {0}

VARIABLES
  go,         \* SIM_GO
  steps,      \* steps_done, steps_todo and exec_limit
  stop_time,  \* clocks until stop_at_time is reached; 0 when there is none
  fbrk,       \* the fetch breakpoints, at most one at an address
  PC,
  command,    \* history: what the last start was told
  since       \* history: what has been executed since, and why it stopped

sim_vars == <<go, steps, stop_time, fbrk, PC, command, since>>

NoBreak == [perm |-> "none", hit |-> 0, cnt |-> 0]

Break(perm, hit) == [perm |-> perm, hit |-> hit, cnt |-> hit]

IsBreak(a) == fbrk[a] # NoBreak

(* limited: the program has set the limit, which counts the steps anew.     *)
Fresh == [executed |-> 0, clocks |-> 0, limited |-> FALSE, reason |-> "none"]

-----------------------------------------------------------------------------
(* start(con, todo), with the clocks of the stop at a time that goes with   *)
(* it.  A time left over from a run that was stopped before counts on, and  *)
(* the limit applies when neither steps nor a time were given.              *)
Todo(todo, time) == IF todo = 0 /\ time = 0 THEN steps.limit ELSE todo

Start(todo, time, what) ==
  /\ ~go
  /\ go' = TRUE
  /\ stop_time' = time
  /\ steps' = [steps EXCEPT !.done = 0, !.todo = Todo(todo, time)]
  /\ command' = [what |-> what,
                 n |-> CASE what = "clk" -> time [] what = "step" -> todo [] OTHER -> Todo(todo, time)]
  /\ since' = Fresh

Run ==
  Start(0, stop_time, "run") /\ UNCHANGED <<fbrk, PC>>

(* run start end, with a breakpoint that is to stop once.  Equal addresses  *)
(* are refused, after the PC was set.                                       *)
RunTo ==
  \E a \in Addrs, b \in Addrs :
    /\ PC' = a
    /\ IF a = b
       THEN ~go /\ UNCHANGED <<go, steps, stop_time, fbrk, command, since>>
       ELSE /\ Start(0, stop_time, "run")
            /\ fbrk' = IF IsBreak(b) THEN fbrk ELSE [fbrk EXCEPT ![b] = Break("dynamic", 1)]

StepInst ==
  \E n \in StepCounts :
    Start(n, stop_time, "step") /\ UNCHANGED <<fbrk, PC>>

(* step n clk: stop_when() replaces a time that is left over.               *)
StepClocks ==
  \E n \in StepCounts :
    Start(0, n, "clk") /\ UNCHANGED <<fbrk, PC>>

(* next, at a call whose next instruction is at b, or elsewhere.            *)
NextInst ==
  \/ \E b \in Addrs :
       /\ Start(0, stop_time, "run")
       /\ fbrk' = IF IsBreak(b) THEN fbrk ELSE [fbrk EXCEPT ![b] = Break("dynamic", 1)]
       /\ UNCHANGED PC
  \/ Start(1, stop_time, "step") /\ UNCHANGED <<fbrk, PC>>

SetBreak ==
  \E a \in Addrs, n \in Hits :
    /\ ~IsBreak(a)
    /\ fbrk' = [fbrk EXCEPT ![a] = Break("fix", n)]
    /\ UNCHANGED <<go, steps, stop_time, PC, command, since>>

ClearBreak ==
  \E a \in Addrs :
    /\ IsBreak(a)
    /\ fbrk' = [fbrk EXCEPT ![a] = NoBreak]
    /\ UNCHANGED <<go, steps, stop_time, PC, command, since>>

(* The user's stop.                                                         *)
StopUser ==
  /\ go
  /\ go' = FALSE
  /\ since' = [since EXCEPT !.reason = "user"]
  /\ UNCHANGED <<steps, stop_time, fbrk, PC, command>>

-----------------------------------------------------------------------------
(* do_brk(): nothing breaks the first instruction after a start.  Mutant:   *)
(* nor the second.                                                          *)
LooksLate == steps.done > 1 /\ IsBreak(PC)

Looks == steps.done > 0 /\ IsBreak(PC)

Breaks == Looks /\ fbrk[PC].cnt <= 1

Hit ==
  IF ~Looks THEN fbrk
  ELSE IF ~Breaks THEN [fbrk EXCEPT ![PC].cnt = @ - 1]
  ELSE IF fbrk[PC].perm = "dynamic" THEN [fbrk EXCEPT ![PC] = NoBreak]
  ELSE [fbrk EXCEPT ![PC].cnt = fbrk[PC].hit]

(* step(), when do_inst() finds a breakpoint: no instruction is executed,   *)
(* and stop() sets steps_done to 0 again.                                   *)
StepBreaks ==
  /\ go
  /\ Breaks
  /\ fbrk' = Hit
  /\ go' = FALSE
  /\ steps' = [steps EXCEPT !.done = 0]
  /\ since' = [since EXCEPT !.reason = "breakpoint"]
  /\ UNCHANGED <<stop_time, PC, command>>

(* An event breakpoint stops within do_inst() and sets steps_done to 0      *)
(* before it is counted up.                                                 *)
DoneBefore(result) == IF result = "event" THEN 0 ELSE steps.done

(* Mutant: the limit is compared before the step is counted.                *)
ReachesLate(done, todo) == todo > 0 /\ done > todo

Reaches(done, todo) == todo > 0 /\ done >= todo

TimeIsUp(clocks) == stop_time > 0 /\ clocks >= stop_time

TimeLeft(clocks) == IF stop_time = 0 \/ TimeIsUp(clocks) THEN 0 ELSE stop_time - clocks

(* The reasons of one step, in the order step() meets them; the user is     *)
(* told the first.                                                          *)
Reason(result, reaches, up) ==
  IF result # "go" THEN result ELSE IF reaches THEN "step" ELSE IF up THEN "time" ELSE "none"

(* step(), when an instruction is executed.  limit is what the program      *)
(* writes to the interface meanwhile, -1 for nothing.  A stop of the part   *)
(* (a jump to itself, an error) or an event may end it.                     *)
StepExecutes ==
  /\ go
  /\ since.executed < MaxSteps
  /\ ~Breaks
  /\ fbrk' = Hit
  /\ \E pc \in Addrs, clocks \in 1..MaxClocks, limit \in Limits \cup {-1},
        result \in {"go", "event", "halt"} :
       LET limited == limit > 0
           todo == IF limited THEN limit ELSE steps.todo
           done == (IF limited THEN 0 ELSE DoneBefore(result)) + 1
           reason == Reason(result, Reaches(done, todo), TimeIsUp(clocks))
       IN /\ PC' = pc
          /\ go' = (reason = "none")
          /\ steps' = [done |-> done, todo |-> todo,
                       limit |-> IF limit = -1 THEN steps.limit ELSE limit]
          /\ stop_time' = TimeLeft(clocks)
          /\ since' = [executed |-> since.executed + 1, clocks |-> since.clocks + clocks,
                       limited |-> IF limited THEN TRUE ELSE since.limited,
                       reason |-> reason]
  /\ UNCHANGED command

SimInit ==
  /\ go = FALSE
  /\ steps = [done |-> 0, todo |-> 0, limit |-> 0]
  /\ stop_time = 0
  /\ fbrk = [a \in Addrs |-> NoBreak]
  /\ PC \in Addrs
  /\ command = [what |-> "run", n |-> 0]
  /\ since = Fresh

SimNext ==
  \/ Run \/ RunTo \/ StepInst \/ StepClocks \/ NextInst \/ SetBreak \/ ClearBreak
  \/ StopUser \/ StepBreaks \/ StepExecutes

SimSpec == SimInit /\ [][SimNext]_sim_vars

-----------------------------------------------------------------------------
(* Every variable stays in its range; a time that is reached is forgotten.  *)
SimTypeOK ==
  /\ go \in BOOLEAN
  /\ steps \in [done : Nat, todo : Nat, limit : Nat]
  /\ stop_time \in Nat
  /\ PC \in Addrs
  /\ \A a \in Addrs :
       /\ fbrk[a].perm \in {"none", "fix", "dynamic"}
       /\ fbrk[a].cnt \in 0..fbrk[a].hit
  /\ command \in [what : {"run", "step", "clk"}, n : Nat]
  /\ since.executed \in 0..MaxSteps

(* A running simulation executes no instruction at a breakpoint whose count *)
(* is up, but for the first after a start: neither a limit the program sets *)
(* nor an event, which count the steps anew, opens a gap.                   *)
BreaksHold ==
  [][ since'.executed > since.executed /\ IsBreak(PC) /\ fbrk[PC].cnt <= 1 =>
        since.executed = 0 ]_sim_vars

(* A step of n instructions, or a run under a limit of n, executes n of     *)
(* them, unless something stops it before; breakpoints that are passed, set *)
(* or removed, and times left over from other runs change nothing in that.  *)
(* The program may, by setting the limit.                                   *)
StepsAsTold ==
  command.what # "clk" /\ command.n > 0 /\ ~since.limited =>
    /\ go => since.executed < command.n
    /\ since.reason = "step" => since.executed = command.n

(* A step of n clocks ends with the instruction in which they are reached,  *)
(* unless something stops it before.                                        *)
ClocksAsTold ==
  command.what = "clk" =>
    /\ go => since.clocks + stop_time = command.n /\ stop_time > 0
    /\ since.reason = "time" => since.clocks \in command.n..(command.n + MaxClocks - 1)

(* Both: a run stops where it was told to.                                  *)
StopsAsTold == StepsAsTold /\ ClocksAsTold

=============================================================================
