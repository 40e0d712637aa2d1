# A TLA+ model of the STC 8051 simulator

`src/ucsim` is a fork of uCsim 0.8.15 that adds four STC microcontrollers to the
s51 simulator. This directory models the part of it that the STC parts run on:
the execution core with its interrupts and power modes, and the peripherals the
fork adds or extends. The modules are checked with TLC on small instances, and
the most important promises are proved with TLAPS for every size.

Everything below cites the source by file and line; `s51.src` is
`src/ucsim/src/sims/s51.src`, `sim.src` is `src/ucsim/src/core/sim.src`.
`PROJECT.json` maps every definition to the lines it models.

## 1. Inventory

The simulator is one thread. `cl_sim::step()` calls `do_inst()` of the processor
once per step, and everything else happens inside that call: the instruction
executes, the hardware objects are ticked one after the other in the order of
their construction, cycle by cycle, then interrupts are polled. Between two
calls the user, a script or `stc12_trace` may change a pin, reset the part or
hand the UART a byte. So the interleavings that matter are those of a program,
of the hardware within its instructions, and of the outside between them; there
are no locks, no messages and nothing is persisted.

Hardware objects interact in three ways: through SFR cells that one writes with
`set()` and another reads, through write hooks (`cl_hw::write`) that see a
program's write of a registered cell, and through `inform_partners()`, which
calls `happen()` of the registered partners at once, in the middle of a tick.

| Component | State it keeps | Operations | Talks to | Hard about it | What makes it correct |
|---|---|---|---|---|---|
| Core `uc51.cc`, `jmp.cc`, `sim.src/uc.cc` | PC, stack, `it_levels`, `state`, PCON | `do_inst`, `do_interrupt`, `accept_it`, `idle_pd`, `reset` | all hardware through `tick_hw` | requests in any cycle, stages in a fixed order, early returns | strict nesting, return addresses, no lost or delayed request, PCON and `state` agree |
| External interrupts `interrupt.cc` | `was_reti`, `bit_INT0/1`, `bit_IT0/1` | `write`, `tick`, `happen` | core, port 3 | `was_reti` set and cleared in several places | one instruction after RETI or a write of IE |
| Interrupt source list `sim.src/itsrc.cc`, `pobj.cc` | `it_sources` | `add`, `add_at` | core polls it | order of construction | sorted by poll priority |
| Arithmetic `arith.cc`, `inc.cc`, `mov.cc`, `bit.cc` | ACC, B, PSW | an instruction each | the cell of ACC keeps P | three flags computed apart, P kept by a write hook | numbers of any length come out exact, signed and unsigned |
| Address spaces `sim.src/mem.cc` | decoders, bankers, banks, cells | `memory` commands, a write of the selector | PSW selects the bank of R0 to R7 | decoders laid over each other, cells that keep pointers | a cell shows what was last said of its address |
| Timer 0/1 `timer0.cc`, `stc12_timer.cc` | mode, TR, TL, TH, `T_edge`, prescaler | `tick`, `write`, `happen` | port 3, PCA, UART | carries, edges between counts, writes while running | exact period, every outside edge once |
| Timer 2 of the STC15 `stc15_timer2.cc` | T2H, T2L, hidden reload, prescaler | `tick` | UART | byte-wise writes, reload | no carry lost, baud tick at each period's end |
| Timer 2 of the 8052 `timer2.cc` | T2CON, TH2:TL2, RCAP2, edges, direction | `tick`, `write`, `happen` | UART, port 1 | four modes in one register, two pins | in each mode a period's length and what it tells |
| UART `serial.cc`, BRT `stc12_brt.cc` | two shift counters with two clocks each, `input`, counter | `tick`, `write`, `happen`, `inject_byte`, `reset` | Timer 1, BRT, Timer 2, `stc12_trace` | reprogramming and reset in a frame, who clocks it | every byte once, in order, in its time; frames end |
| PCA `pca.cc`, `stc12_pca.cc` | CH:CL, three modules, edge flags, a prescaler | `tick`, `write`, `happen` | Timer 0, port 1 | compare at a wrap, edge flags, counting while off | exact period and duty, one toggle per match, each rise captured once |
| ADC `stc12_adc.cc` | delay, channel, power | `write`, `tick`, `set_input` | CLK_DIV, AUXR1, trace | restart and power-off in a conversion | the result is the last START's, after its time |
| Watchdog `stc12_wdt.cc` | prescaler, counter | `write`, `tick` | core's `state` | a clear races the overflow, no `reset()` | bites after exactly one period without a clear |
| Ports `port.cc`, `stc12_port.cc` | latch, pins, configuration cells | `read`, `write`, `set_pin` | timers, interrupts, PCA | `write` runs inside itself, writes that bypass the port | partners hear every edge and none that is not there |
| STC parts and trace `ucstc12.cc` | SFR shadows | `tick_hw`, `do_inst`, `trace_check_sfr`, debug calls | all SFRs | two looks per instruction | a reader of the events knows the pins and what the hardware did |
| Simulator control `sim.cc`, `brk.cc`, `cmd_exec.cc` | `state`, step counts, breakpoints | `step`, `start`, `stop` | core | limits, stops and breakpoints in one step | a step or limit is exact, no breakpoint is passed |
| Other derivatives, other processors, commands, consoles, GUI | | | | | |

The hazards of this code, each at its line, are listed in `PROJECT.json` under
"hazards", with the properties that cover them or the reason why none does yet.

## 2. Modules

`S51Core` models `cl_51core`. The machine is the record `cpu`; every stage of
`do_inst()` is a function from records to records, and the two actions `RunInst`
and `IdleInst` compose the stages in the code's order:

| Code | Model |
|---|---|
| `exec_inst()` clears `was_reti`, fetches, executes (uc51.cc:1956-1959) | `ExecInst`, with `Push`, `Pop`, `PopLevel` |
| `post_inst()` -> `tick_hw()` (uc.cc:2981) | `TickHw`: any set of `Raised` becomes pending |
| self-jump return (uc51.cc:1973-1977) | `SelfJump`, `GoesOn` |
| `do_interrupt()` (2053-2092) | `Polls`, `Ready`, `FirstReady`, `Takes`, `Accepts`, `NotTaken`, `WakeUp` |
| `accept_it()` (2108-2119) | `Accept`, `AcceptCycle` |
| `idle_pd()` (2157-2181) | `IdlePd` |
| `tick(1)` of a part that does not run (1970) | `IdleInst` |
| `cl_interrupt::happen()` on an edge (interrupt.cc:157) | `PinChange` |
| `cl_51core::reset()` (uc51.cc:1734) | `Reset` |

An instruction is what it does to control: fall through, jump, call, return,
write IE, IP, PCON or a request flag. `Rom[a]` is the set of instructions that
may be found at `a`, so one instance covers many programs. The stack is the part
of RAM that holds return addresses; it wraps after `Slots` of them as SP does.
`paired` is a history bit that says whether every RET so far met a call's frame
and every RETI an acceptance's.

`NestedInterrupts` is what an 8051's interrupt system promises: a stack of
handlers of strictly rising priority. `PlainProgram` is a program as its author
reads it, without interrupts. `S51Core` implements both (`NestedSpec`,
`TransparentInterrupts`).

`StcTimer` models `cl_timer0_stc12` on top of `cl_timer0`, for Timer 0 or Timer 1:
`Tick` is `tick(1)`, `WriteTMOD`, `WriteTCON`, `WriteTL`, `WriteTH` and `WriteAUXR`
are the program's writes, `PortChanged` is `happen()`. `since` measures the
cycles between overflows that nothing but the clock brought about.

`Stc15Timer2` models `cl_timer2_stc15`. `start` and `counted` are history: what
the current period began with and the counts since.

`StcUart` models `cl_serial`, `cl_stc12_brt`, the two timers' partners and the
injection of bytes; `Tick` is one cycle of `tick_hw()` in the order Timer 1, UART,
BRT. A byte is the number of its write or injection, so each can be told from
all others; `tx` and `rx` are histories of what became of them. Timer 1 is taken
at its fastest, an overflow in every cycle.

`ByteChannel` is what one direction of a UART promises: it holds at most one byte
and hands that very byte on, once, unless a later byte takes its place or, where
that may happen, it is cut off. The transmitter implements it and so does the
receiver with its line (`UartIsTwoChannels`), where only the transmitter cuts off, in
a reset.

`PollOrder` models how `it_sources` is built by `cl_sorted_list::add()`, with the
binary search of `search()` (`Halve` is one turn of its loop), and by the PCA's
`add_at(4)`. `MCPollOrder` has the sources of the parts in the order in which
their `mk_hw_elements()` add them; `MCS51Core` builds the list before anything runs
as one more part of its bench.

`StcByte` is the arithmetic of 8-bit cells that several of them share, with a
base instead of 256.

`StcPca` models `cl_pca_stc12` on `cl_pca`: the counter, one of its modules and
the two pins. `PcaTick` is `tick(1)`; `p1` is what the module and the program do to
port 1 and what port 1 tells the array, an edge of ECI that the program makes twice. Modules share the counter and nothing else, so one that
may have any number stands for all of them.

`StcAdc` and `StcWdt` model `cl_stc12_adc` and `cl_stc12_wdt`, an action for each
kind of write, for `tick(1)` and for a reset, which touches the SFRs and not the
counters of the objects.

`StcTrace` puts the recorder of `ucstc12.cc` over `StcAdc`: an instruction may
write one of the watched registers, its cycles tick the converter, Timer 0 and
the pin, and `Compare` is `trace_check_sfr()`, after the cycles and again after
the interrupt. `reader` is what a reader of the events knows of the pin.

`SimControl` models `cl_sim::step()`, `start()`, `stop()` and `set_limit()`, the
commands that start a simulation, the fetch breakpoints with their hit counts,
and the stop at a time. The program is any sequence of addresses.

`AddressSpace` models `cl_address_space` with its decoders, bankers and banks:
`memory create addressdecoder`, `create banker`, `create bank` and `remove chip`,
a byte write of PSW, which switches banks, and a bit write, which does not.
`Remains`, `Lost` and `NewParts` are the three effects of `undecode_area()`.
`meant` and `shown` are histories of what the commands said, address by address;
`torn` holds the addresses that a command on a banker disturbs beside its own
area (4 below).

`S51Alu` models the instructions of `arith.cc` and what the others do to ACC, B
and the flags. Its programs calculate with numbers of several bytes, byte by
byte, with instructions in between that leave the carry alone; `calc` is the
number they should get.

`S52Timer2` models `cl_timer2` of the 8052, `S51Ports` one port with the events it
sends. Port events carry a port's value before and after; the model's `seen` is
what a partner that only follows the events believes of the lines.

`MC...` modules give the constants their values. Three of them are benches of
modules that share no state (`MCS51Core`, `MCStcTimers`, `MCStcPeripherals`): the
variable `part` says which one moves in a behaviour, the others rest in their
initial state. `...Proof` modules hold the theorems. Definitions commented
"Mutant" are the same code with a plausible bug; a property is only kept if such
a bug breaks it.

## 3. What the runs check

Passing runs:

| Run | Instance | States | Shows |
|---|---|---|---|
| `core` | the core: all programs over 2 addresses and 11 instructions, 3 sources of either priority, two of which share their bits, stack of 2, self-jump stop on or off; the address space of the registers with 3 addresses, 2 banks, 3 commands; numbers of 2 bytes; a port of 2 lines; Timer 2 of the 8052 with bytes of 2 values; the list of sources of the 8051, the 8052, the 89C51R and the STC12 | 614 874 | `ReturnsMatchLevels`, `PowerBitsAgree`, `NoSilentDelay`, `RequestsKept`, `OneInstructionFirst`, refinement of `NestedInterrupts` (`NestedSpec`); `CellsAsMeant`; `NumbersAreExact`; `PartnersFollow`; `KeepsTime`; `SortedByPoll` |
| `programs` | a main program with idle mode, two handlers of different priority, a subroutine that the main program and a handler call, a stack of 5, requests in every cycle | 205 | refinement of `PlainProgram` (`TransparentInterrupts`); every return meets its own frame (`ReturnsPair`); handlers end and the main program gets on (`ProgramsGetOn`); a pin wakes the part (`PinWakesIdle`) |
| `timers` | Timer 0 and 1: four modes, timer and counter, bytes of 4 values, prescaler 2; Timer 2 of the STC15 | 297 255 | `OverflowPeriod`, `EveryEdgeCountsOnce`, `KeepsOverflowing`; `CountsAdd`, `BaudTickEndsPeriod` |
| `uart` | modes 0 and 1, frames of 1 and 2 bits, 2 writes or 2 injections | 191 008 | refinement of two `ByteChannel`s (`UartIsTwoChannels`), `FramesTakeTheirTime`, `FramesEnd` |
| `peripherals` | PCA with bytes of 2 values and 10 uses; the converter of both kinds of parts, with two channels, alone and under the trace recorder; a watchdog that counts to 4 with divisors 2, 4, 8; 2 breakpoints' addresses, steps of 1 and 2 | 1 352 161 | `PwmDuty`, `PcaPeriod`, `EventsCountOnce`, `MatchTogglesOnce`, `RiseCapturedOnce`; `StartsConvert`, `ResultReads`; `ReaderSeesPin`, `HardwareReported`; `FedNeverBites`, `WdtPeriod`; `StopsAsTold`, `BreaksHold` |

Each run also checks a type invariant. A property names what it says in the
comment above it; the ones that need a word more:

* `EveryEdgeCountsOnce` is about edges from outside. A program's own write of a
  port reaches the partners twice when it changes a line (port.cc:164 and :188):
  `cl_port::write()` writes `port_value`, which runs `write()` again, before the
  latch has changed. `PartnersFollow` says that no such edge is missed or made up,
  and that edges from outside come once.
* `EventsCountOnce` is about what the array is told. The same double report reaches
  `cl_pca::happen()`, which adds 2 to `ECI_edge` (pca.cc:338-341) when a write of P1
  pulls ECI down: such an edge counts twice in the model as in the code, and the
  property says so. An edge from outside and an overflow of Timer 0 count once. The
  notes of a module about its own pin are flags and take no harm.
* `OneInstructionFirst` looks at the result of the call and not at the depth of
  `it_levels`, which a RETI followed by an acceptance would leave as it was.
* `WdtPeriod` is the period that `tick()` counts, in cycles. The comment of
  stc12_wdt.cc:11 gives another one, twelve times as long (see below).
* `CellsAsMeant` leaves out `torn`: when a command cuts a banker, the part above
  is a decoder without a chip (mem.cc:2448); when it removes one, the
  destructors of its banks undecode their areas; defining a bank again undecodes
  the area of the old one, and `activate()` returns early because its number is
  selected already. A command that names the address again sets it right.
* `NumbersAreExact` takes P from ACC except between a write of PSW and the next
  write of ACC: POP PSW and MOV PSW store P as given, and only a write of ACC
  recomputes it (uc51.cc:2313).
* `KeepsTime` leaves out a count down from 0: the underflow is noticed as
  T2 < RCAP2 after the decrement (timer2.cc:303), and from 0, or with RCAP2 = 0,
  nothing is noticed.
* `RiseCapturedOnce` speaks of rising edges: a capture on a falling edge clears
  the rising edge's flag (pca.cc:274), and the falling one is captured at every
  later wrap.
* `FedNeverBites` holds although `WDT_CONTR` can be cleared by the program against
  the comment of stc12_wdt.cc:8, and although the counters survive a reset.
* `BreaksHold` and `StopsAsTold` are about normal runs. A stop time that a
  stopped simulation leaves behind ends the next one; `set_limit()` during a run
  starts the count again; both are in the model.

Runs that find what the code does against what its documentation says of it:

| Run | The documentation | The code |
|---|---|---|
| `idle_ticks` | uc51.cc:1969 "tick hw in idle state" | `tick(1)` moves counters only. No hardware runs in idle, so only a pin ends it, and the trace clock stops: `stc12_trace` never reaches its time limit |
| `timer2_reload` | stc15_timer2.cc:88 "reload from the values that were present BEFORE the counting started this period" | the reload register is taken from the full counter: the first overflow loads 0, and from the second on every period is one count long until the program writes T2 |
| `uart_timer1` | stc12_brt.cc:64 "If S1BRS=0, the serial port uses Timer 1" | Timer 1 of these parts does not know the UART; modes 1 and 3 never end |
| `uart_brt_on` | README.md:44 "exact (BRT at 115200)" | the BRT's `on` flag is never initialised |
| `poll_order_15w` | itsrc.cc:213 "Sorted list of IRQ sources" | on the STC15W, which has no Timer 1, `add_at(4)` lands between the serial sources |
| `pca_cr` | uc51.cc:467 and :470 name bit 0xde CR and bit 0xda CCF2 | pca.cc:79 takes 0xda for CR: SETB CR starts nothing, and CLR CCF2 stops the array |
| `register_banks` | cmd_general.html:641: the bank is the one RS1 and RS0 select | SETB and CLR of RS0 and RS1 write past the operator that switches the bank (mem.cc:2634) |

Three more disagreements have no run. stc12_wdt.cc:11 gives the watchdog's "period =
12M * 32768 * 2^(PS+1) / FOSC", while `tick()` counts 2^(PS+1) cycles for each of the
32768 counts (stc12_wdt.cc:66-73), and a cycle of these parts is one clock
(ucstc12cl.h:90): nothing divides by 12, the watchdog overflows after a twelfth of
that time, and `WdtPeriod` states the period of the code. `src/PARITY-GAPS.md:27`
says of the power modes of the STC12 "PCON bits not acted on", while `idle_pd()` acts on them
(uc51.cc:2163-2179; `PowerBitsAgree` states how); and `src/PARITY-GAPS.md:16` calls
the capture of the PCA modelled, while a pin's edge is captured only in a count
in which the whole counter wraps (`Captures` in `StcPca`).

### Bounds, and why they are enough

* Two addresses suffice for `core` because each may hold every instruction of
  the list in every visit: the run ranges over all sequences of them. The vector
  is one of the two, so a handler may be any of these programs, too.
  Three sources give every order of two priorities and equal ones: one is a pin,
  whose flag acceptance clears and which wakes an idle part, the others are the
  receiver and the transmitter of the UART, whose flags the program clears one by
  one and the hardware raises at any time, and which share the bits ES and PS: a
  write of IP moves both. (Masks with several bits of IP, which two sources of the
  PCA have, interrupt.cc:102 and :109, are covered by the proofs.) Two levels is
  all IP can express (`AtMostTwoHandlers`). A stack of two overflows at once,
  which is the case `paired` excludes from `ReturnsMatchLevels` and no other
  property may depend on. In `programs` the stack has exactly the five places that
  its program needs: its own call, two handlers, and a call in each that may make
  one.
* Three addresses (`Top` = 2) are the least in which an area has a part below, a
  part above and a middle; three commands (`MaxCommands`) the least that lay an
  area over a part that is left of another. Two banks, and chips of which one is
  shorter than an area may ask for (`ChipSize`, `Begins`), give slots that exist
  and slots that do not.
* `Operands` are the bytes at which carry and sign change (1, 127, 128, 255),
  `Decimals` those with digits that do and do not carry, `Digits` = 2 the least
  with a chain. Bytes have their real width there.
* Two lines of a port: one that changes and one that does not, and the lowest,
  which a write of a configuration cell reaches alone.
* Bytes of 4 values with a 2-value precounter contain every relation between TL,
  TH and the reload value that 256 and 32 do: below, at and above the wrap of
  each part. `MaxEdge` = 1 leaves room for an edge that waits while none is lost.
  The prescaler of 2 has a cycle that counts and one that does not. The PCA's
  and the 8052's Timer 2 have bytes of 2 values: 16 bits of two such bytes still
  carry, wrap and meet a compare or reload value in either byte. What more values
  could bring (a compare value that is never met at a wrap, duties between none
  and all) is proved for every size (section 4). `MaxEvents` and `MaxEdges` bound the edges
  and overflows that wait to be counted; 3 of them let an edge that is told twice meet
  one that waits. Divisors of 4, 2 and 1 stand for 12, 8,
  6, 4, 2 and 1: a smaller one after a larger leaves a prescaler behind the end.
* UART frames of one and two bits with two ticks per bit (one with SMOD) have a
  first, a last and an only bit, lengths that differ between modes, and a
  remainder after a change of rate. Counters stop at the longest frame
  (`Longest`), beyond which the code behaves the same. Two bytes are the least
  that can be reordered or replaced. `Duplex` = FALSE lets a behaviour use one of
  the two halves, which share the mode, the rate and the clock and nothing else.
* The converter's `Delays` of 3 and 2 cycles leave room for a write, a restart and
  a power-off within a conversion; one input, 2000, lies
  beyond the ten bits and is clamped. Under the recorder one register changes per
  behaviour (`Watched`) in instructions of at most two cycles (`MaxCycles`):
  each has a shadow and a comparison of its own.
* The watchdog's `WdtTop` of 4 counts and three divisors give periods of which a
  lowered PS leaves counters beyond the new period's end.
* `SimControl`: hit counts of 1 and 2, steps of 1 and 2 instructions or clocks,
  instructions of 1 or 2 clocks, at most 4 (`MaxSteps`) after one start: a limit, a
  breakpoint and a stop can all fall into the same instruction, and two of them
  into neighbours.
* Timer 1's writes (`Timer1Runs`) and the flag bits written to TCON (`Flags`) are
  constant in the runs that do not ask about them.

### Fairness

`FairSpec` of `S51Core` is weak fairness of `DoInst`: the loop of
`cl_sim::step()` calls `do_inst()` again and again while the part runs, and
`DoInst` is always enabled. In `StcUart` and in `MCStcTimers` it is weak fairness
of `Tick`, which every executed instruction brings. Nothing is assumed of the
program's writes, of pins or of resets. That `Tick` is fair is true of a part
that executes; in idle mode it is not, which is what `idle_ticks` shows, and why
the peripherals' liveness says nothing about idle mode. The liveness properties
have the clock's conditions as premises (a UART whose clock runs from some time
on, a timer that keeps running), because a program may stop any clock.

## 4. What is proved

Theorems are proved for every value of the constants, under the named assumptions
on them; the runs above check the same properties on small instances. Eight
modules hold them:

| Module | About | Size of |
|---|---|---|
| `S51CoreProof` | `S51Core` | programs, addresses, sources, priorities, stack, hardware: any |
| `S51AluProof` | `S51Alu` | operands and the length of numbers: any (bytes have 8 bits) |
| `S51PartsProof` | `AddressSpace`, `S51Ports`, `S52Timer2`, `PollOrder`, `MCS51Core` | chips, banks, spaces, commands, lines, bytes, waiting edges, sources, priorities: any |
| `StcTimersProof` | `StcTimer`, `Stc15Timer2`, `MCStcTimers` | bytes, precounter, prescaler, waiting edges: any |
| `StcUartProof` | `StcUart` | frames, rates, number of bytes: any |
| `StcPeripheralsProof` | `StcPca`, `StcAdc`, `StcWdt`, `StcTrace`, `MCStcPeripherals` | bytes, modules, divisors, delays, channels, counters: any |
| `SimControlProof` | `SimControl` | breakpoints, hit counts, limits: any |
| `CountingProof` | lemmas on counting, used by the others | |

The benches are covered as the runs check them: `EveryPartRuns`, `EveryTimerRuns`
and `EveryPeripheralRuns` say that a behaviour of the bench is one of each module
in it, and `S51TypeCorrect`, `TimersTypeCorrect`, `PeripheralsTypeCorrect` put the
type invariants together.

### The core

* `TypeCorrect`: `TypeOK` is inductive by itself. One lemma per stage
  (`PushType`, `PopType`, `ExecInstType`, `AcceptType`, ...) says the stage maps
  machines to machines; `FinishInstType` and `RunStageType` compose them.
* `NestingIsStrict`, `AtMostTwoHandlers`, `LevelsLeaveInnermostFirst`,
  `ImplementsNested` (no run checks the first of them, `StrictNesting`, which `NestedSpec` implies): all rest on one fact about a
  step, `LevelsStep`: a step leaves `it_levels` alone, appends a level above the
  top one, drops the last one (then the operation was RETI) or empties it (then
  it was a reset). `EveryLevelsStep` proves it from the stages' lemmas; nesting
  needs nothing more than its own previous value.
* `ReturnsAlwaysMatch`: `ReturnsMatchLevels` is inductive with the types. It counts
  the handlers' frames up to a place of the stack, so pushing and popping are
  statements about one place more or less (`OneMorePlace`, `PushMatched`,
  `PopMatched`) and need no induction over the stack.
* `ReturnsAlwaysPair`: which programs pair their returns, the premise of the two
  theorems around this one, can be read off the program. `LaidOut` says of it what
  authors and compilers keep to: every address belongs to the main program, to
  subroutines, which all may call, or to handlers; control passes between them by
  calls, returns and interrupts only; `depth` bounds the calls from an address on,
  which therefore do not recurse; and the stack has room for those of the main
  program and of two handlers. `Placed` is the invariant: each frame returns into a
  routine of the kind that pushed the next one, and the frames below it with the
  calls still to come fit into the room for the handlers among them (`Room`). A push
  or a pop concerns the top frame alone (`PushPlaced`, `PopPlaced`), an instruction
  stays in its routine (`MovePlaced`), and that no third handler comes is
  `AtMostTwoHandlers`. The program of the run `programs` is of this kind, which TLC
  evaluates as the assumption `ProgramLaidOut`. `LaidOutIsTransparent` puts this
  together with the next theorem.
* `InterruptsAreTransparent`: the refinement of `PlainProgram`, for every program
  that pairs its calls and returns (`[]cpu.paired`; without it a handler may
  return into the main program by RET, and nothing of the kind can hold). Each
  stage either is an instruction of the main program or leaves alone where it
  will go on and its own return addresses (`ExecInstView`, `FinishInstView`): a
  frame pushed or popped above a handler's frame is none of its own (`PushView`,
  `PopView`), and by `ReturnsAlwaysMatch` the last RETI returns to where it was left.
* `PowerBitsAgreeAlways`, from `PowerInv`: `PowerBitsAgree` together with the fact
  that `was_reti` is clear whenever the part does not execute. The addition is
  what `NothingSilentlyDelayed` needs: with `was_reti` set, a part in idle would
  pass over the request that should wake it. `WakeUp` clears IDL before
  `idle_pd()` looks and PD is clear in idle, so the wake-up cannot end in a power
  mode again; acceptance clears IDL but may leave PD, hence the exception for
  handlers.
* `OneInstructionRuns`, `NothingSilentlyDelayed`, `RequestsAreKept`: from the cases of
  `FinishInst` (`DoInstStages`, `FinishInstCases`), stage by stage.

### List of interrupt sources

`ListIsSorted` and `ListIsNotSorted` say exactly when the order of construction of a
part is right, for any sources and priorities: when each source with a fixed
index finds there a place for its priority among those added before it
(`FixedFits`; TLC evaluates it for the parts as the assumption `FixedIndexFits`). If
one does not, and the index lies within the list, the finished list is unsorted.
`ListInv` says that the list so far is `Ranked`, that is, for every priority the
sources below it come first, as many as the order has brought, or else
`Disordered`. The binary search finds such a place: every turn of its loop shrinks a
window that keeps the place within or next to it (`NarrowedAround`), and after as
many turns as there are sources it is empty (`SearchFinds`, over `Repeats` of
`CountingProof`). A fixed index may fall anywhere among equal priorities and the list
stays ranked (`AddRanked`); a pair in the wrong order stays one wherever others are put
(`DisorderStays`).

### Arithmetic

`NumbersAlwaysExact`: `AluInv` adds to `NumbersAreExact` that the state consists of
bytes and flags, that the place of the next byte is positive, and that the
digits so far are below it, so that the next one starts where they end. The
flags are reduced to arithmetic once per instruction: the carry and overflow of
ADD, ADDC and SUBB, which the code computes from the lower seven bits and from
the whole separately, the two corrections of DA, one bit of a rotation. The
parity of ACC is over the eight weights (`Weight`), so that setting one bit
changes one term.

### Address space, port, Timer 2 of the 8052

* `SpaceTypeCorrect`, `CellsAsMeantAlways`. `SpaceInv` says of every decoder that its
  own geometry yields what its addresses show, of every banker also that each
  bank yields what was said of it and that the bank it believes selected is what
  is shown; that decoders lie apart; that addresses without a decoder show
  nothing; and that no bank is meant of addresses outside bankers. Two lemmas
  about `undecode_area()` carry the proof: what is left of decoders keeps what it
  showed (`UndecodedKeeps`, from `PartOf` for one decoder), and no cell outside the
  area changes (`UndecodedCells`). `Laid` then serves both commands that lay
  something over an area.
* `PartnersFollowAlways`: the events of one operation are alike
  (`LatchEventsAlike`) or only the first has edges (`PinEventsAlike`), whatever
  `port_value` and the partners believed before, so the invariant `PortInv` needs no
  more than the types and what `~unseen` means.
* `Timer2KeepsTime`: `T2Inv` says that T2 stands where its start and the counts since
  put it (`Stands`), in both directions and after any write. A cycle counts up to
  six times and for every edge that waits, with a reload or an underflow at any
  of them; `AfterOneMore` carries what is known over one count and `UpTo` of
  `CountingProof` over all of them.

### Timers

* Timer 2 of the STC15: `Timer2TypeCorrect`, `CountsAlwaysAdd`,
  `BaudTicksEndPeriods`. The inductive invariant is `Timer2Inv`, the
  type invariant together with `CountsAdd`: the bound on what is counted follows
  only from the number it adds up to. `CarriesOver` is the arithmetic of one count
  across the two cells.
* Timer 0 and 1: `TimerTypeCorrect`, `OverflowsInPeriod`, `EdgesCountOnce`.
  `TimerInv` says where an undisturbed timer stands (`TimerStands`): the cycles
  since its last overflow are its counts since then (`Position`) times the cycles
  of a count, plus the prescaler. That it runs and that TL is below TH's reload or the
  precounter's end (`Steady`) belongs to it: a program may have left a timer elsewhere,
  and then its first period differs. Of one count each mode is proved to move
  one place on or to end the period (`Mode0` to `Mode3`); of the edges counted in one
  cycle, that they add up (`CountsAre`).

### UART

`UartTypeCorrect`, `ImplementsChannels`, `WritesAlwaysAccounted`,
`InjectsAlwaysAccounted`, `FramesAlwaysTakeTheirTime`, for any frames, rates and
number of bytes. `ImplementsChannels` is the refinement of two `ByteChannel`s, one
lemma for each kind of step: a cycle hands on what it ends (`TickHandsOn`), a write
or an injection comes in, whatever was on its way (`BytesCome`), a reset cuts off the
transmission and nothing else (`ResetCutsOff`), the control registers stutter. The
two theorems of accounting say of its histories what the channels imply: nothing
twice or out of order, nothing lost without a reason. `UartInv`
says that the byte on its way is the last one made and later than all that
arrived, and that a receiver at work has its byte still on the line: so it holds
over a reset, which stops the receiver and leaves the line, and over an
injection, which replaces the byte in the middle of a frame. For the time of a
frame `OnTime` says that the ticks since its start are its bits so far times the
ticks of a bit plus those of the bit under way, as long as nothing retimed it.

### Peripherals

* Watchdog: `WdtTypeCorrect`, `FedNeverBitesAlways`, `PeriodIsExact`. `WdtInv` adds to
  the types what the two counters hold: the cycles since the last clear pay for
  them (`Paid`, two cycles a count, as no divisor is below 2), whatever was written
  into PS and however often the part was reset; and while PS stays they hold
  exactly the cycles since they were 0 (`Exact`).
* Converter: `AdcTypeCorrect`, `StartsConvertAlways`, `ResultReadsAlways`. `AdcInv` is
  the type invariant with the two halves of `StartsConvert`: time and channel of a
  conversion are tied to the START taken last. `LeftAligned` and its twin are the
  arithmetic of the two alignments.
* Recorder: `TraceTypeCorrect`, `ReaderSeesPinAlways`, `HardwareReportedAlways`.
  `TraceInv` contains `AdcInv` and says that a flag found set against its shadow
  stands for what the hardware did since the last comparison and the other way
  round (`OverflowsKept`, `ConversionsKept`), since flags are cleared only before the
  cycles and after them, and that the events so far say of the pin what the
  shadows hold (`ReaderHasShadow`).
* Counter array: `PcaTypeCorrect`, `DutyIsAsSet`, `EveryEventCounts`, `WrapsInPeriod`,
  `TogglesAtMatches`, `CapturesAtWraps`. `PcaInv` says, besides the types, what is known
  within a period: in PWM, at which counts of it the pin was high so far; that a
  pin's edge is fresh exactly when it came since the last capture; and, for a
  counter left alone, that the cycles since its wrap are its counts times the
  divisor plus the prescaler. A cycle counts once for each overflow or edge that
  waits: `Repeats` of `CountingProof` gives the states in between, and what holds of
  the counts, wraps, toggles and captures so far is carried from each to the next.

### Control of the simulation

`SimTypeCorrect`, `StopsAsToldAlways`, `BreaksHoldAlways`. `SimInv` adds that
`steps_done` is the number of instructions executed since the start unless the
program has set the limit, that it is 0 only before the first, and that no
breakpoint waits for more hits than it was set to.

### Counting

What a recursive function computes is not proved by induction over an operator,
which the provers cannot instantiate, but over a set: `UpTo` says that a set which
holds 0 and with k, as long as k < n, also k + 1, holds all of 0..n. It follows from
the well-foundedness of the numbers (`LeastNumber`). `Repeats` gives the states a
step goes through when it is repeated n times, as a function. `DivUnique` does
the divisions by constants that are not numbers, `CarriesOver`, `Borrow` and
`Highest` the numbers of two bytes.

### Only model-checked

* Liveness (`ProgramsGetOn`, `PinWakesIdle`, `KeepsOverflowing`, `FramesEnd`) and
  ENABLED are out of the prover's reach.
* The mutants and the runs that end in a counterexample are TLC's by nature.
* Of programs that are not laid out as above (that recurse, share code between
  routines, or return by pushed addresses) nothing is proved about the pairing of
  returns; the other theorems about the core hold of them too.

## 5. Not modelled

* The STC89's 12-clock machine cycle: a factor on the times that tickers and the
  UART see. Its Timers 0 and 1 are the plain ones of `timer0.cc`.
* Instructions that move data and leave the flags alone, RAM other than the
  stack, addressing modes: no control of their own.
* Of the UART: the ninth bit, the second and third UART of other parts, the
  console's file input. Of memory: banders, bankers with two selectors, areas
  whose end is before their begin. `remove_chip()` of a chip that a bank uses may
  add the banker to the space a second time; `RemoveChip` is of other chips.
* Of the recorder: the times of events and the UNMODELLED ones, which report SFRs
  the simulator does not know. AUXR1 is read for the ADC's alignment on all parts
  (ucstc12.cc:780) and 0xC8 to 0xCA are watched on all parts.
* The debug interface (`debug_step_insn()`, ucstc12.cc:942-957), an entry for other
  programs; conditions of breakpoints and emulation mode, which looks at no
  breakpoint.
* Other derivatives of the 8051, some twenty other processors, the command
  interpreter, consoles, GUI, VCD and the test harnesses: upstream code the STC
  parts do not depend on, or input and output. They are nine tenths of the
  repository's lines, which is why the map covers a small share of it.

## 6. Plan

Done: the core with its two abstract specifications, all the peripherals of the
STC parts, the UART with the channel it implements, the recorder, the control of
the simulation, address spaces, arithmetic, ports, Timer 2 of the 8052 and the list
of interrupt sources, and the proofs above. What is left:

1. Compositions: `S51Core` with `StcTimer` (a timer interrupt per period under
   other interrupts), `StcUart` with `Stc15Timer2` as its baud clock, `StcPca` with
   `StcTimer`, the recorder over a program with interrupts.
2. Proofs: invariants of the compositions of 1.
3. The debug interface, banders, the second UART of the STC12.
