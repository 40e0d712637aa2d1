---------------------------- MODULE SimControlProof ----------------------------
(* Proofs about SimControl, for programs and runs of any length.             *)
EXTENDS SimControl, TLAPS

Reasons == {"none", "user", "breakpoint", "event", "halt", "step", "time"}

Breakpoints == [perm : {"none", "fix", "dynamic"}, hit : Nat, cnt : Nat]

(* The types, with those of the histories.                                   *)
SimTypes ==
  /\ go \in BOOLEAN
  /\ steps \in [done : Nat, todo : Nat, limit : Nat]
  /\ stop_time \in Nat
  /\ PC \in Addrs
  /\ fbrk \in [Addrs -> Breakpoints]
  /\ command \in [what : {"run", "step", "clk"}, n : Nat]
  /\ since \in [executed : 0..MaxSteps, clocks : Nat, limited : BOOLEAN, reason : Reasons]

(* What a breakpoint still waits for is part of what it was set to.          *)
CountsFit == \A a \in Addrs : fbrk[a].cnt <= fbrk[a].hit

(* While the simulation runs, the counter of steps is that of the history,   *)
(* unless the program has set the limit, and is 0 only before the first.     *)
StepsAgree ==
  /\ go => \/ steps.done = 0 /\ since.executed = 0 /\ ~since.limited
           \/ steps.done > 0
  /\ go /\ command.what # "clk" /\ command.n > 0 /\ ~since.limited =>
       /\ steps.done = since.executed
       /\ steps.todo = command.n

SimInv == SimTypes /\ CountsFit /\ StepsAgree /\ StepsAsTold /\ ClocksAsTold

-----------------------------------------------------------------------------
(* The actions that start a run.                                             *)
LEMMA StartInv ==
  ASSUME SimTypes,
         NEW todo \in Nat, NEW time \in Nat, NEW what \in {"run", "step", "clk"},
         what = "clk" => time > 0 /\ todo = 0,
         what = "step" => todo > 0,
         Start(todo, time, what)
  PROVE  /\ go' \in BOOLEAN
         /\ steps' \in [done : Nat, todo : Nat, limit : Nat]
         /\ stop_time' \in Nat
         /\ command' \in [what : {"run", "step", "clk"}, n : Nat]
         /\ since' \in [executed : 0..MaxSteps, clocks : Nat, limited : BOOLEAN, reason : Reasons]
         /\ StepsAgree' /\ StepsAsTold' /\ ClocksAsTold'
<1> DEFINE Told == IF what = "clk" THEN time ELSE Todo(todo, time)
<1>1. Todo(todo, time) \in Nat
  BY DEF SimTypes, Todo
<1>2. what = "step" => Todo(todo, time) = todo
  BY DEF Todo
<1>3. /\ go' = TRUE
      /\ stop_time' = time
      /\ steps' = [steps EXCEPT !.done = 0, !.todo = Todo(todo, time)]
      /\ command' = [what |-> what, n |-> Told]
      /\ since' = Fresh
  BY <1>2 DEF Start
<1>4. /\ steps' \in [done : Nat, todo : Nat, limit : Nat]
      /\ steps'.done = 0 /\ steps'.todo = Todo(todo, time)
  BY <1>1, <1>3 DEF SimTypes
<1>5. /\ command' \in [what : {"run", "step", "clk"}, n : Nat]
      /\ command'.what = what /\ command'.n = Told
  BY <1>1, <1>3
<1>6. /\ since' \in [executed : 0..MaxSteps, clocks : Nat, limited : BOOLEAN, reason : Reasons]
      /\ since'.executed = 0 /\ since'.clocks = 0 /\ ~since'.limited /\ since'.reason = "none"
  <2>1. 0 \in 0..MaxSteps
    BY SimAssumption
  <2> QED
    BY <1>3, <2>1, Zenon DEF Fresh, Reasons
<1>7. StepsAgree'
  BY <1>4, <1>5, <1>6 DEF StepsAgree
<1>8. StepsAsTold'
  BY <1>5, <1>6 DEF StepsAsTold
<1>9. ClocksAsTold'
  BY <1>3, <1>5, <1>6 DEF ClocksAsTold
<1> QED
  BY <1>3, <1>4, <1>5, <1>6, <1>7, <1>8, <1>9

(* A breakpoint that is set fits.                                            *)
LEMMA SetFits ==
  ASSUME SimTypes, CountsFit, NEW a \in Addrs, NEW b \in Breakpoints, b.cnt <= b.hit,
         fbrk' = [fbrk EXCEPT ![a] = b]
  PROVE  fbrk' \in [Addrs -> Breakpoints] /\ CountsFit'
<1>1. fbrk' \in [Addrs -> Breakpoints]
  BY DEF SimTypes
<1>2. ASSUME NEW x \in Addrs PROVE fbrk'[x].cnt <= fbrk'[x].hit
  <2>1. CASE x = a
    BY <2>1 DEF SimTypes
  <2>2. CASE x # a
    BY <2>2 DEF SimTypes, CountsFit
  <2> QED
    BY <2>1, <2>2
<1> QED
  BY <1>1, <1>2 DEF CountsFit

LEMMA BreakType ==
  ASSUME NEW perm \in {"fix", "dynamic"}, NEW hit \in Nat
  PROVE  Break(perm, hit) \in Breakpoints /\ Break(perm, hit).cnt <= Break(perm, hit).hit
  BY DEF Break, Breakpoints

LEMMA NoBreakType == NoBreak \in Breakpoints /\ NoBreak.cnt <= NoBreak.hit
  BY DEF NoBreak, Breakpoints

(* run with an end and next leave at most one breakpoint more.               *)
LEMMA DynamicFits ==
  ASSUME SimTypes, CountsFit, NEW b \in Addrs,
         fbrk' = IF IsBreak(b) THEN fbrk ELSE [fbrk EXCEPT ![b] = Break("dynamic", 1)]
  PROVE  fbrk' \in [Addrs -> Breakpoints] /\ CountsFit'
<1>1. CASE IsBreak(b)
  BY <1>1 DEF SimTypes, CountsFit
<1>2. CASE ~IsBreak(b)
  BY <1>2, SetFits, BreakType
<1> QED
  BY <1>1, <1>2

-----------------------------------------------------------------------------
LEMMA SimInitInv == SimInit => SimInv
<1> SUFFICES ASSUME SimInit PROVE SimInv
  OBVIOUS
<1>1. since \in [executed : 0..MaxSteps, clocks : Nat, limited : BOOLEAN, reason : Reasons]
  <2>1. 0 \in 0..MaxSteps
    BY SimAssumption
  <2>2. since = Fresh
    BY DEF SimInit
  <2> QED
    BY <2>1, <2>2, Zenon DEF Fresh, Reasons
<1>2. fbrk \in [Addrs -> Breakpoints] /\ CountsFit
  BY NoBreakType DEF SimInit, CountsFit
<1>3. go \in BOOLEAN /\ ~go
  BY DEF SimInit
<1>4. SimTypes
  <2>1. /\ steps \in [done : Nat, todo : Nat, limit : Nat]
        /\ stop_time \in Nat
        /\ PC \in Addrs
        /\ command \in [what : {"run", "step", "clk"}, n : Nat]
    BY DEF SimInit
  <2> QED
    BY <1>1, <1>2, <1>3, <2>1 DEF SimTypes
<1>5. command.what = "run" /\ command.n = 0
  BY DEF SimInit
<1> QED
  BY <1>2, <1>3, <1>4, <1>5 DEF SimInv, StepsAgree, StepsAsTold, ClocksAsTold

(* The commands and the user.                                                *)
LEMMA StartsInv == SimInv /\ (Run \/ RunTo \/ StepInst \/ StepClocks \/ NextInst) => SimInv'
<1> SUFFICES ASSUME SimInv, Run \/ RunTo \/ StepInst \/ StepClocks \/ NextInst PROVE SimInv'
  OBVIOUS
<1>1. SimTypes /\ CountsFit /\ stop_time \in Nat
  BY DEF SimInv, SimTypes
<1>2. ASSUME NEW todo \in Nat, NEW time \in Nat, NEW what \in {"run", "step", "clk"},
             what = "clk" => time > 0 /\ todo = 0,
             what = "step" => todo > 0,
             Start(todo, time, what),
             PC' \in Addrs, fbrk' \in [Addrs -> Breakpoints], CountsFit'
      PROVE  SimInv'
  <2>1. /\ go' \in BOOLEAN
        /\ steps' \in [done : Nat, todo : Nat, limit : Nat]
        /\ stop_time' \in Nat
        /\ command' \in [what : {"run", "step", "clk"}, n : Nat]
        /\ since' \in [executed : 0..MaxSteps, clocks : Nat, limited : BOOLEAN, reason : Reasons]
        /\ StepsAgree' /\ StepsAsTold' /\ ClocksAsTold'
    BY <1>1, <1>2, StartInv
  <2> QED
    BY <1>2, <2>1 DEF SimInv, SimTypes
<1>3. ASSUME UNCHANGED <<fbrk, PC>>
      PROVE  PC' \in Addrs /\ fbrk' \in [Addrs -> Breakpoints] /\ CountsFit'
  BY <1>1, <1>3 DEF SimTypes, CountsFit
<1>4. CASE Run
  BY <1>1, <1>2, <1>3, <1>4 DEF Run
<1>5. CASE RunTo
  <2>1. PICK a \in Addrs, b \in Addrs :
          /\ PC' = a
          /\ IF a = b
             THEN ~go /\ UNCHANGED <<go, steps, stop_time, fbrk, command, since>>
             ELSE /\ Start(0, stop_time, "run")
                  /\ fbrk' = IF IsBreak(b) THEN fbrk ELSE [fbrk EXCEPT ![b] = Break("dynamic", 1)]
    BY <1>5 DEF RunTo
  <2>2. CASE a = b
    BY <2>1, <2>2 DEF SimInv, SimTypes, CountsFit, StepsAgree, StepsAsTold, ClocksAsTold
  <2>3. CASE a # b
    <3>1. fbrk' \in [Addrs -> Breakpoints] /\ CountsFit' /\ PC' \in Addrs
      BY <1>1, <2>1, <2>3, DynamicFits
    <3> QED
      BY <1>1, <1>2, <2>1, <2>3, <3>1
  <2> QED
    BY <2>2, <2>3
<1>6. CASE StepInst
  <2>1. PICK n \in StepCounts : Start(n, stop_time, "step") /\ UNCHANGED <<fbrk, PC>>
    BY <1>6 DEF StepInst
  <2>2. n \in Nat /\ n > 0
    BY SimAssumption
  <2> QED
    BY <1>1, <1>2, <1>3, <2>1, <2>2
<1>7. CASE StepClocks
  <2>1. PICK n \in StepCounts : Start(0, n, "clk") /\ UNCHANGED <<fbrk, PC>>
    BY <1>7 DEF StepClocks
  <2>2. n \in Nat /\ n > 0
    BY SimAssumption
  <2> QED
    BY <1>2, <1>3, <2>1, <2>2
<1>8. CASE NextInst
  <2>1. CASE Start(1, stop_time, "step") /\ UNCHANGED <<fbrk, PC>>
    BY <1>1, <1>2, <1>3, <2>1
  <2>2. CASE \E b \in Addrs :
               /\ Start(0, stop_time, "run")
               /\ fbrk' = IF IsBreak(b) THEN fbrk ELSE [fbrk EXCEPT ![b] = Break("dynamic", 1)]
               /\ UNCHANGED PC
    <3>1. fbrk' \in [Addrs -> Breakpoints] /\ CountsFit'
      BY <1>1, <2>2, DynamicFits
    <3>2. PC' \in Addrs
      BY <1>1, <2>2 DEF SimTypes
    <3> QED
      BY <1>1, <1>2, <2>2, <3>1, <3>2
  <2> QED
    BY <1>8, <2>1, <2>2 DEF NextInst
<1> QED
  BY <1>4, <1>5, <1>6, <1>7, <1>8

LEMMA BreakpointsInv == SimInv /\ (SetBreak \/ ClearBreak) => SimInv'
<1> SUFFICES ASSUME SimInv, SetBreak \/ ClearBreak PROVE SimInv'
  OBVIOUS
<1>1. SimTypes /\ CountsFit
  BY DEF SimInv
<1>2. fbrk' \in [Addrs -> Breakpoints] /\ CountsFit'
  <2>1. CASE SetBreak
    <3>1. PICK a \in Addrs, n \in Hits : fbrk' = [fbrk EXCEPT ![a] = Break("fix", n)]
      BY <2>1 DEF SetBreak
    <3>2. n \in Nat
      BY SimAssumption
    <3> QED
      BY <1>1, <3>1, <3>2, BreakType, SetFits
  <2>2. CASE ClearBreak
    BY <1>1, <2>2, NoBreakType, SetFits DEF ClearBreak
  <2> QED
    BY <2>1, <2>2
<1>3. UNCHANGED <<go, steps, stop_time, PC, command, since>>
  BY DEF SetBreak, ClearBreak
<1> QED
  BY <1>2, <1>3 DEF SimInv, SimTypes, StepsAgree, StepsAsTold, ClocksAsTold

LEMMA StopUserInv == SimInv /\ StopUser => SimInv'
<1> SUFFICES ASSUME SimInv, StopUser PROVE SimInv'
  OBVIOUS
<1>1. /\ ~go' /\ go' \in BOOLEAN
      /\ since' = [since EXCEPT !.reason = "user"]
      /\ UNCHANGED <<steps, stop_time, fbrk, PC, command>>
  BY DEF StopUser
<1>2. /\ since' \in [executed : 0..MaxSteps, clocks : Nat, limited : BOOLEAN, reason : Reasons]
      /\ since'.reason = "user"
  BY <1>1 DEF SimInv, SimTypes, Reasons
<1>3. SimTypes' /\ CountsFit'
  BY <1>1, <1>2 DEF SimInv, SimTypes, CountsFit
<1> QED
  BY <1>1, <1>2, <1>3 DEF SimInv, StepsAgree, StepsAsTold, ClocksAsTold

-----------------------------------------------------------------------------
(* The steps of the simulation.                                              *)
LEMMA HitFits ==
  ASSUME SimTypes, CountsFit, fbrk' = Hit
  PROVE  fbrk' \in [Addrs -> Breakpoints] /\ CountsFit'
<1>1. PC \in Addrs /\ fbrk[PC] \in Breakpoints /\ fbrk[PC].cnt <= fbrk[PC].hit
  BY DEF SimTypes, CountsFit
<1>2. fbrk[PC].cnt \in Nat /\ fbrk[PC].hit \in Nat
  BY <1>1 DEF Breakpoints
<1>3. fbrk \in [Addrs -> Breakpoints]
  BY DEF SimTypes
<1>4. ASSUME NEW n \in Nat, n <= fbrk[PC].hit, fbrk' = [fbrk EXCEPT ![PC].cnt = n]
      PROVE  fbrk' \in [Addrs -> Breakpoints] /\ CountsFit'
  <2> DEFINE b == [fbrk[PC] EXCEPT !.cnt = n]
  <2>1. b \in Breakpoints /\ b.cnt <= b.hit
    BY <1>1, <1>4 DEF Breakpoints
  <2>2. fbrk' = [fbrk EXCEPT ![PC] = b]
    BY <1>3, <1>4
  <2> HIDE DEF b
  <2> QED
    BY <1>1, <2>1, <2>2, SetFits
<1>5. CASE ~Looks
  BY <1>5 DEF Hit, SimTypes, CountsFit
<1>6. CASE Looks /\ ~Breaks
  <2>1. fbrk' = [fbrk EXCEPT ![PC].cnt = @ - 1] /\ fbrk[PC].cnt > 1
    BY <1>2, <1>6 DEF Hit, Breaks
  <2>2. fbrk' = [fbrk EXCEPT ![PC].cnt = fbrk[PC].cnt - 1]
    BY <1>1, <1>3, <2>1
  <2>3. fbrk[PC].cnt - 1 \in Nat /\ fbrk[PC].cnt - 1 <= fbrk[PC].hit
    BY <1>1, <1>2, <2>1
  <2> QED
    BY <1>4, <2>2, <2>3
<1>7. CASE Looks /\ Breaks /\ fbrk[PC].perm = "dynamic"
  <2>1. fbrk' = [fbrk EXCEPT ![PC] = NoBreak]
    BY <1>7 DEF Hit
  <2> QED
    BY <1>1, <2>1, NoBreakType, SetFits
<1>8. CASE Looks /\ Breaks /\ fbrk[PC].perm # "dynamic"
  <2>1. fbrk' = [fbrk EXCEPT ![PC].cnt = fbrk[PC].hit]
    BY <1>8 DEF Hit
  <2>2. fbrk[PC].hit <= fbrk[PC].hit
    BY <1>2
  <2> HIDE DEF Hit
  <2> QED
    BY <1>2, <1>4, <2>1, <2>2, Zenon
<1> QED
  BY <1>5, <1>6, <1>7, <1>8

LEMMA StepBreaksInv == SimInv /\ StepBreaks => SimInv'
<1> SUFFICES ASSUME SimInv, StepBreaks PROVE SimInv'
  OBVIOUS
<1>1. fbrk' \in [Addrs -> Breakpoints] /\ CountsFit'
  BY HitFits DEF SimInv, StepBreaks
<1>2. /\ ~go' /\ go' \in BOOLEAN
      /\ steps' = [steps EXCEPT !.done = 0]
      /\ since' = [since EXCEPT !.reason = "breakpoint"]
      /\ UNCHANGED <<stop_time, PC, command>>
  BY DEF StepBreaks
<1>3. /\ since' \in [executed : 0..MaxSteps, clocks : Nat, limited : BOOLEAN, reason : Reasons]
      /\ since'.reason = "breakpoint"
  BY <1>2 DEF SimInv, SimTypes, Reasons
<1>4. steps' \in [done : Nat, todo : Nat, limit : Nat]
  BY <1>2 DEF SimInv, SimTypes
<1>5. SimTypes'
  BY <1>1, <1>2, <1>3, <1>4 DEF SimInv, SimTypes
<1> QED
  BY <1>1, <1>2, <1>3, <1>5 DEF SimInv, StepsAgree, StepsAsTold, ClocksAsTold

LEMMA StepExecutesInv == SimInv /\ StepExecutes => SimInv'
<1> SUFFICES ASSUME SimInv, StepExecutes PROVE SimInv'
  OBVIOUS
<1>1. PICK pc \in Addrs, clocks \in 1..MaxClocks, limit \in Limits \cup {-1},
           result \in {"go", "event", "halt"} :
        LET limited == limit > 0
            todo == IF limited THEN limit ELSE steps.todo
            done == (IF limited THEN 0 ELSE DoneBefore(result)) + 1
            reason == Reason(result, Reaches(done, todo), TimeIsUp(clocks))
        IN /\ PC' = pc
           /\ go' = (reason = "none")
           /\ steps' = [done |-> done, todo |-> todo,
                        limit |-> IF limit = -1 THEN steps.limit ELSE limit]
           /\ stop_time' = TimeLeft(clocks)
           /\ since' = [executed |-> since.executed + 1, clocks |-> since.clocks + clocks,
                        limited |-> IF limited THEN TRUE ELSE since.limited,
                        reason |-> reason]
  BY DEF StepExecutes
<1> DEFINE limited == limit > 0
           todo == IF limited THEN limit ELSE steps.todo
           done == (IF limited THEN 0 ELSE DoneBefore(result)) + 1
           reason == Reason(result, Reaches(done, todo), TimeIsUp(clocks))
<1>2. /\ clocks \in Nat /\ clocks > 0 /\ clocks <= MaxClocks
      /\ MaxSteps \in Nat /\ MaxClocks \in Nat
      /\ limit = -1 \/ limit \in Nat
      /\ limit \in Int
  BY SimAssumption
<1>3. /\ go /\ command' = command /\ since.executed < MaxSteps /\ fbrk' = Hit
      /\ steps.done \in Nat /\ steps.todo \in Nat /\ steps.limit \in Nat
      /\ stop_time \in Nat
      /\ since.executed \in 0..MaxSteps /\ since.clocks \in Nat /\ since.limited \in BOOLEAN
      /\ command.n \in Nat
  BY DEF StepExecutes, SimInv, SimTypes
<1>4. todo \in Nat /\ done \in Nat /\ done > 0
  BY <1>2, <1>3 DEF DoneBefore
<1>5. /\ reason \in Reasons
      /\ reason = "none" <=> result = "go" /\ ~Reaches(done, todo) /\ ~TimeIsUp(clocks)
      /\ reason = "step" <=> result = "go" /\ Reaches(done, todo)
      /\ reason = "time" <=> result = "go" /\ ~Reaches(done, todo) /\ TimeIsUp(clocks)
  BY DEF Reason, Reasons
<1>6. /\ PC' = pc /\ go' = (reason = "none") /\ stop_time' = TimeLeft(clocks)
      /\ steps' = [done |-> done, todo |-> todo,
                   limit |-> IF limit = -1 THEN steps.limit ELSE limit]
      /\ since' = [executed |-> since.executed + 1, clocks |-> since.clocks + clocks,
                   limited |-> IF limited THEN TRUE ELSE since.limited, reason |-> reason]
  BY <1>1, Zenon
<1> HIDE DEF reason, done, todo
<1>7. /\ steps' \in [done : Nat, todo : Nat, limit : Nat]
      /\ steps'.done = done /\ steps'.todo = todo
  BY <1>2, <1>3, <1>4, <1>6
<1>8. /\ since'.executed = since.executed + 1 /\ since'.clocks = since.clocks + clocks
      /\ since'.reason = reason
      /\ ~since'.limited => ~limited /\ ~since.limited
  BY <1>3, <1>6
<1>9. since' \in [executed : 0..MaxSteps, clocks : Nat, limited : BOOLEAN, reason : Reasons]
  <2>1. (IF limited THEN TRUE ELSE since.limited) \in BOOLEAN
    BY <1>3
  <2>2. since.executed + 1 \in 0..MaxSteps /\ since.clocks + clocks \in Nat
    BY <1>2, <1>3
  <2> HIDE DEF limited
  <2> QED
    BY <1>5, <1>6, <2>1, <2>2, Zenon
<1>10. stop_time' \in Nat /\ (stop_time' = IF TimeIsUp(clocks) \/ stop_time = 0 THEN 0
                                           ELSE stop_time - clocks)
  BY <1>2, <1>3, <1>6 DEF TimeLeft, TimeIsUp
<1>11. go' \in BOOLEAN /\ (go' <=> reason = "none")
  BY <1>6
<1>12. fbrk' \in [Addrs -> Breakpoints] /\ CountsFit'
  BY <1>3, HitFits DEF SimInv
<1>13. SimTypes'
  BY <1>3, <1>6, <1>7, <1>9, <1>10, <1>11, <1>12 DEF SimInv, SimTypes
<1>14. ~limited /\ result # "event" => done = steps.done + 1 /\ todo = steps.todo
  BY DEF done, todo, DoneBefore
<1>15. StepsAgree'
  BY <1>3, <1>4, <1>5, <1>7, <1>8, <1>11, <1>14 DEF SimInv, StepsAgree
<1>16. StepsAsTold'
  <2>1. SUFFICES ASSUME command.what # "clk", command.n > 0, ~since'.limited,
                        result = "go"
                 PROVE  /\ ~Reaches(done, todo) => since'.executed < command.n
                        /\ Reaches(done, todo) => since'.executed = command.n
    BY <1>3, <1>5, <1>8, <1>11 DEF StepsAsTold
  <2>2. steps.done = since.executed /\ steps.todo = command.n /\ since.executed < command.n
    BY <1>3, <1>8, <2>1 DEF SimInv, StepsAgree, StepsAsTold
  <2>3. done = since.executed + 1 /\ todo = command.n
    BY <1>8, <1>14, <2>1, <2>2
  <2> QED
    BY <1>3, <1>8, <2>2, <2>3 DEF Reaches
<1>17. ClocksAsTold'
  <2>1. SUFFICES ASSUME command.what = "clk", result = "go"
                 PROVE  /\ ~TimeIsUp(clocks) => since'.clocks + stop_time' = command.n /\ stop_time' > 0
                        /\ TimeIsUp(clocks) =>
                             since'.clocks \in command.n..(command.n + MaxClocks - 1)
    BY <1>3, <1>5, <1>8, <1>11 DEF ClocksAsTold
  <2>2. since.clocks + stop_time = command.n /\ stop_time > 0
    BY <1>3, <2>1 DEF SimInv, ClocksAsTold
  <2> QED
    BY <1>2, <1>3, <1>8, <1>10, <2>2 DEF TimeIsUp
<1> QED
  BY <1>12, <1>13, <1>15, <1>16, <1>17 DEF SimInv

LEMMA SimStepInv == SimInv /\ [SimNext]_sim_vars => SimInv'
<1> SUFFICES ASSUME SimInv, [SimNext]_sim_vars PROVE SimInv'
  OBVIOUS
<1>1. CASE Run \/ RunTo \/ StepInst \/ StepClocks \/ NextInst
  BY <1>1, StartsInv
<1>2. CASE SetBreak \/ ClearBreak
  BY <1>2, BreakpointsInv
<1>3. CASE StopUser
  BY <1>3, StopUserInv
<1>4. CASE StepBreaks
  BY <1>4, StepBreaksInv
<1>5. CASE StepExecutes
  BY <1>5, StepExecutesInv
<1>6. CASE UNCHANGED sim_vars
  BY <1>6 DEF SimInv, SimTypes, CountsFit, StepsAgree, StepsAsTold, ClocksAsTold, sim_vars
<1> QED
  BY <1>1, <1>2, <1>3, <1>4, <1>5, <1>6 DEF SimNext

LEMMA SimInvAlways == SimSpec => []SimInv
  BY SimInitInv, SimStepInv, PTL DEF SimSpec

-----------------------------------------------------------------------------
(* Every variable stays in its range.                                        *)
THEOREM SimTypeCorrect == SimSpec => []SimTypeOK
<1>1. SimInv => SimTypeOK
  <2> SUFFICES ASSUME SimInv, NEW a \in Addrs
               PROVE  fbrk[a].perm \in {"none", "fix", "dynamic"} /\ fbrk[a].cnt \in 0..fbrk[a].hit
    BY DEF SimInv, SimTypes, SimTypeOK
  <2>1. fbrk[a] \in Breakpoints /\ fbrk[a].cnt <= fbrk[a].hit
    BY DEF SimInv, SimTypes, CountsFit
  <2> QED
    BY <2>1 DEF Breakpoints
<1> QED
  BY <1>1, SimInvAlways, PTL

(* A step or limit of n instructions executes n of them, and a step of n     *)
(* clocks ends with the instruction in which they are reached.               *)
THEOREM StopsAsToldAlways == SimSpec => []StopsAsTold
<1>1. SimInv => StopsAsTold
  BY DEF SimInv, StopsAsTold
<1> QED
  BY <1>1, SimInvAlways, PTL

(* Only the first instruction after a start may be at a breakpoint whose     *)
(* count is up.                                                              *)
THEOREM BreaksHoldAlways == SimSpec => BreaksHold
<1>1. ASSUME SimInv, SimNext, since'.executed > since.executed,
             IsBreak(PC), fbrk[PC].cnt <= 1
      PROVE  since.executed = 0
  <2>1. since.executed \in Nat
    BY <1>1, SimAssumption DEF SimInv, SimTypes
  <2>2. StepExecutes
    <3>1. since \in [executed : 0..MaxSteps, clocks : Nat, limited : BOOLEAN, reason : Reasons]
      BY <1>1 DEF SimInv, SimTypes
    <3>2. since' # Fresh /\ since' # since
      <4>1. Fresh.executed = 0
        BY DEF Fresh
      <4>2. ~(since.executed > since.executed) /\ ~(0 > since.executed)
        BY <2>1
      <4> QED
        BY <1>1, <4>1, <4>2
    <3>3. ~(Run \/ RunTo \/ StepInst \/ StepClocks \/ NextInst \/ SetBreak \/ ClearBreak)
      BY <3>2 DEF Run, RunTo, StepInst, StepClocks, NextInst, Start, SetBreak, ClearBreak
    <3>4. ASSUME StopUser PROVE FALSE
      <4>1. since' = [since EXCEPT !.reason = "user"]
        BY <3>4 DEF StopUser
      <4>2. since'.executed = since.executed
        BY <3>1, <4>1
      <4> QED
        BY <1>1, <2>1, <4>2
    <3>5. ASSUME StepBreaks PROVE FALSE
      <4>1. since' = [since EXCEPT !.reason = "breakpoint"]
        BY <3>5 DEF StepBreaks
      <4>2. since'.executed = since.executed
        BY <3>1, <4>1
      <4> QED
        BY <1>1, <2>1, <4>2
    <3> QED
      BY <1>1, <3>3, <3>4, <3>5 DEF SimNext
  <2>3. go /\ ~(steps.done > 0)
    BY <1>1, <2>2 DEF StepExecutes, Breaks, Looks
  <2> QED
    BY <1>1, <2>3 DEF SimInv, StepsAgree
<1>2. SimInv /\ [SimNext]_sim_vars =>
        [since'.executed > since.executed /\ IsBreak(PC) /\ fbrk[PC].cnt <= 1 =>
           since.executed = 0]_sim_vars
  BY <1>1
<1> QED
  BY <1>2, SimInvAlways, PTL DEF SimSpec, BreaksHold

=============================================================================
