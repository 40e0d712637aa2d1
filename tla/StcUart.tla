-------------------------------- MODULE StcUart --------------------------------
(***************************************************************************)
(* The UART of the STC12, cl_serial (serial.cc), its baud rate timer,      *)
(* cl_stc12_brt (stc12_brt.cc), and the injection of received bytes by     *)
(* stc12_trace (stc12_trace.cc).  One cycle of tick_hw() ticks Timer 1,    *)
(* the UART and the BRT, in that order; a timer that overflows informs its *)
(* partners at once.                                                       *)
(*                                                                         *)
(* A byte is the number of the write or of the injection that brought it,  *)
(* so that every byte can be told from every other.  Timer 1 is taken at   *)
(* its fastest: when it runs it overflows in every cycle.                  *)
(***************************************************************************)
EXTENDS Integers, SequencesExt

CONSTANTS
  FrameBits,    \* FrameBits[mode]: bits of a frame, 8 10 11 11 in the code
  FixedDiv,     \* cycles per bit in mode 0, 12 in the code
  SlowDiv,      \* baud ticks per bit, 32 in the code
  FastDiv,      \* the same with PCON.SMOD set, 16 in the code
  Base,         \* values of the BRT, 256 in the code
  Prescale,     \* cycles per count of the BRT in 12T mode, 12 in the code
  Modes,        \* the modes the program selects
  Loads,        \* the reload values it writes
  Timer1Runs,   \* the values of TCON.TR1 it writes
  MaxWrites,    \* bound: writes of SBUF
  MaxInjects,   \* bound: injected bytes
  Duplex        \* bound: whether both halves are used in one behaviour

ASSUME UartAssumption ==
  /\ FrameBits \in [0..3 -> Nat \ {0}]
  /\ {FixedDiv, SlowDiv, FastDiv, Base, Prescale} \subseteq Nat \ {0}
  /\ Modes \subseteq 0..3 /\ Loads \subseteq 0..(Base - 1) /\ Timer1Runs \subseteq BOOLEAN
  /\ MaxWrites \in Nat /\ MaxInjects \in Nat /\ Duplex \in BOOLEAN

VARIABLES
  uart,    \* cl_serial
  line,    \* its input and input_avail, which survive a reset
  brt,     \* cl_stc12_brt, the bits of AUXR it looks at, and TCON.TR1
  tx,      \* history: what became of the bytes written
  rx       \* history: what became of the bytes injected

vars == <<uart, line, brt, tx, rx>>

DivBy(u) == IF u.mode = 0 THEN FixedDiv ELSE IF u.SMOD THEN FastDiv ELSE SlowDiv

Bits(u) == FrameBits[u.mode]

FrameTicks(u) == Bits(u) * DivBy(u)

(* The counters of a half that rests count on in the code, to no effect:    *)
(* its next frame starts them from 0.  They are left where they are here,   *)
(* and those of a frame at the longest frame, beyond which nothing differs. *)
Longest == Max({FrameBits[k] : k \in 0..3}) * Max({FixedDiv, SlowDiv, FastDiv})

Plus(n, k) == Min({n + k, Longest})

Uart ==
  [mode : 0..3, REN : BOOLEAN, SMOD : BOOLEAN, TI : BOOLEAN, RI : BOOLEAN,
   sending : BOOLEAN, out : 0..MaxWrites, tr_bit : Nat,
   tr_t1 : 0..Longest, tr_tick : 0..Longest,
   receiving : BOOLEAN, s_in : 0..MaxInjects, rec_bit : Nat,
   rec_t1 : 0..Longest, rec_tick : 0..Longest]

Brt ==
  [on : BOOLEAN, counter : 0..(Base - 1), prescaler : 0..(Prescale - 1),
   reload : 0..(Base - 1), BRTR : BOOLEAN, x12 : BOOLEAN, S1BRS : BOOLEAN, TR1 : BOOLEAN]

(* What became of the bytes 1..made: the ones that arrived, in order, and   *)
(* the ones that were replaced before.  ticks counts the clock of the frame *)
(* on its way, -1 when its mode or its rate was changed meanwhile.          *)
Fate(max) ==
  [made : 0..max, done : Seq(1..max), replaced : SUBSET (1..max), ticks : -1..Longest]

-----------------------------------------------------------------------------
(* serial_bit_cnt(): the bits that the clock of the mode has moved.         *)
Timed(u) == u.mode \in {1, 3}

SendBits(u) ==
  LET clock == IF Timed(u) THEN u.tr_t1 ELSE u.tr_tick
      n == clock \div DivBy(u)
      rest == clock % DivBy(u)
      v == [u EXCEPT !.tr_bit = IF @ < Bits(u) THEN Min({@ + n, Bits(u)}) ELSE @]
  IN IF ~u.sending THEN u
     ELSE IF Timed(u) THEN [v EXCEPT !.tr_t1 = rest] ELSE [v EXCEPT !.tr_tick = rest]

ReceiveBits(u) ==
  LET clock == IF Timed(u) THEN u.rec_t1 ELSE u.rec_tick
      n == clock \div DivBy(u)
      rest == clock % DivBy(u)
      v == [u EXCEPT !.rec_bit = @ + n]
  IN IF ~u.receiving THEN u
     ELSE IF Timed(u) THEN [v EXCEPT !.rec_t1 = rest] ELSE [v EXCEPT !.rec_tick = rest]

Sent(u) == u.sending /\ u.tr_bit >= Bits(u)

FinishSending(u) ==
  IF Sent(u) THEN [u EXCEPT !.sending = FALSE, !.TI = TRUE, !.tr_bit = @ - Bits(u)]
  ELSE u

(* Mutant: the bits of the last frame are not forgotten.                    *)
StartReceivingOn(u, l) ==
  IF u.REN /\ ~u.receiving /\ l.avail
  THEN [u EXCEPT !.receiving = TRUE] ELSE u

StartReceiving(u, l) ==
  IF u.REN /\ ~u.receiving /\ l.avail
  THEN [u EXCEPT !.receiving = TRUE, !.rec_bit = 0, !.rec_tick = 0, !.rec_t1 = 0]
  ELSE u

Received(u) == u.receiving /\ u.rec_bit >= Bits(u)

FinishReceiving(u, l) ==
  IF Received(u)
  THEN [u EXCEPT !.receiving = FALSE, !.RI = TRUE, !.s_in = l.input, !.rec_bit = @ - Bits(u)]
  ELSE u

(* Mutant: the byte stays available.                                        *)
ClearLineNot(u, l) == l

ClearLine(u, l) == IF Received(u) THEN [l EXCEPT !.avail = FALSE] ELSE l

(* The last statements of cl_serial::tick(1).                               *)
SerialTicks(u) ==
  [u EXCEPT !.tr_tick = IF u.sending THEN Plus(@, 1) ELSE @,
            !.rec_tick = IF u.receiving THEN Plus(@, 1) ELSE @]

(* cl_stc12_brt::tick(1), which only a part whose on is set gets.           *)
BrtCycle(b) ==
  IF ~b.on \/ ~b.BRTR \/ b.x12 THEN b
  ELSE [b EXCEPT !.prescaler = (@ + 1) % Prescale]

BrtCounts(b) == b.on /\ b.BRTR /\ (b.x12 \/ BrtCycle(b).prescaler = 0)

BrtOverflows(b) == BrtCounts(b) /\ b.counter = Base - 1

(* Mutant: the counter does not wrap.                                       *)
BrtTickWide(b) ==
  IF ~BrtCounts(b) THEN BrtCycle(b) ELSE [BrtCycle(b) EXCEPT !.counter = @ + 1]

BrtTick(b) ==
  LET v == BrtCycle(b)
  IN IF ~BrtCounts(b) THEN v
     ELSE [v EXCEPT !.counter = IF BrtOverflows(b) THEN b.reload ELSE @ + 1]

(* The timers register their partners in their constructors and init(): the *)
(* Timer 1 of these parts, a cl_timer0_stc12, has the five PCAs of          *)
(* cl_timer0 and not the UART of cl_timer1; the BRT has the UART.           *)
Partners == [timer1 |-> {"pca"}, brt |-> {"uart"}]

(* cl_serial::happen(): what the overflows of this cycle add to the clock   *)
(* of the timed modes.                                                      *)
FromTimer1(b) == IF b.TR1 /\ "uart" \in Partners.timer1 /\ ~b.S1BRS THEN 1 ELSE 0

(* Mutant: S1BRS is looked at as for Timer 1.                               *)
FromBrtUnselected(b) ==
  IF BrtOverflows(b) /\ "uart" \in Partners.brt /\ ~b.S1BRS THEN 1 ELSE 0

FromBrt(b) == IF BrtOverflows(b) /\ "uart" \in Partners.brt /\ b.S1BRS THEN 1 ELSE 0

Happen(u, n) ==
  [u EXCEPT !.tr_t1 = IF u.sending THEN Plus(@, n) ELSE @,
            !.rec_t1 = IF u.receiving THEN Plus(@, n) ELSE @]

-----------------------------------------------------------------------------
(* The clock of a frame as the history counts it.                           *)
FrameClock(u, b) == IF Timed(u) THEN FromTimer1(b) + FromBrt(b) ELSE 1

Elapsed(f, u, b) == IF f.ticks = -1 THEN -1 ELSE Plus(f.ticks, FrameClock(u, b))

(* One cycle of tick_hw(): moved is the UART with the bits of this cycle, v *)
(* with a finished transmission and a started reception.                    *)
Tick ==
  \E moved \in {ReceiveBits(SendBits(Happen(uart, FromTimer1(brt))))} :
  \E v \in {StartReceiving(FinishSending(moved), line)} :
    /\ uart' = Happen(SerialTicks(FinishReceiving(v, line)), FromBrt(brt))
    /\ line' = ClearLine(v, line)
    /\ brt' = BrtTick(brt)
    /\ tx' = [tx EXCEPT !.done = IF Sent(moved) THEN Append(@, moved.out) ELSE @,
                        !.ticks = IF Sent(moved) THEN -1 ELSE Elapsed(tx, moved, brt)]
    /\ rx' = [rx EXCEPT !.done = IF Received(v) THEN Append(@, FinishReceiving(v, line).s_in) ELSE @,
                        !.ticks = IF Received(v) THEN -1
                                  ELSE IF v.receiving /\ ~moved.receiving
                                  THEN FrameClock(v, brt)
                                  ELSE Elapsed(rx, v, brt)]

(* A write of SBUF starts the transmitter, also in the middle of a frame.   *)
WriteSBUF ==
  /\ tx.made < MaxWrites
  /\ Duplex \/ rx.made = 0
  /\ uart' = [uart EXCEPT !.sending = TRUE, !.out = tx.made + 1, !.tr_bit = 0,
                          !.tr_t1 = 0, !.tr_tick = 0]
  /\ tx' = [tx EXCEPT !.made = @ + 1, !.ticks = 0,
                      !.replaced = IF uart.sending THEN @ \cup {uart.out} ELSE @]
  /\ UNCHANGED <<line, brt, rx>>

(* Whether a write of SCON or PCON leaves the clock of the frames as it is. *)
SameTiming(u) ==
  Bits(u) = Bits(uart) /\ DivBy(u) = DivBy(uart) /\ Timed(u) = Timed(uart)

(* A write of SCON or PCON takes effect at once; a frame on its way goes on *)
(* with the new length and rate.                                            *)
Retime(u) ==
  /\ uart' = u
  /\ tx' = [tx EXCEPT !.ticks = IF SameTiming(u) THEN @ ELSE -1]
  /\ rx' = [rx EXCEPT !.ticks = IF SameTiming(u) THEN @ ELSE -1]
  /\ UNCHANGED <<line, brt>>

WriteSCON ==
  /\ \E m \in Modes, ren \in BOOLEAN :
       Retime([uart EXCEPT !.mode = m, !.REN = ren, !.TI = FALSE, !.RI = FALSE])

WritePCON ==
  /\ \E s \in BOOLEAN : Retime([uart EXCEPT !.SMOD = s])

WriteBRT ==
  /\ \E n \in Loads : brt' = [brt EXCEPT !.reload = n]
  /\ UNCHANGED <<uart, line, tx, rx>>

(* AUXR, and TCON for Timer 1.                                              *)
WriteAUXR ==
  /\ \E r, x, s \in BOOLEAN, t \in Timer1Runs :
       brt' = [brt EXCEPT !.BRTR = r, !.x12 = x, !.S1BRS = s, !.TR1 = t]
  /\ UNCHANGED <<uart, line, tx, rx>>

(* inject_byte() between two instructions, at the time the user has given.  *)
Inject ==
  /\ rx.made < MaxInjects
  /\ Duplex \/ tx.made = 0
  /\ line' = [input |-> rx.made + 1, avail |-> TRUE]
  /\ rx' = [rx EXCEPT !.made = @ + 1,
                      !.replaced = IF line.avail THEN @ \cup {line.input} ELSE @]
  /\ UNCHANGED <<uart, brt, tx>>

(* cl_serial::reset() and clear_sfr(); the line and the BRT's counters are  *)
(* not touched.                                                             *)
ResetUart ==
  [mode |-> 0, REN |-> FALSE, SMOD |-> FALSE, TI |-> FALSE, RI |-> FALSE,
   sending |-> FALSE, out |-> 0, tr_bit |-> 0, tr_t1 |-> 0, tr_tick |-> 0,
   receiving |-> FALSE, s_in |-> 0, rec_bit |-> 0, rec_t1 |-> 0, rec_tick |-> 0]

Reset ==
  /\ uart' = ResetUart
  /\ brt' = [brt EXCEPT !.reload = 0, !.BRTR = FALSE, !.x12 = FALSE, !.S1BRS = FALSE,
                        !.TR1 = FALSE]
  /\ tx' = [tx EXCEPT !.ticks = -1,
                      !.replaced = IF uart.sending THEN @ \cup {uart.out} ELSE @]
  /\ rx' = [rx EXCEPT !.ticks = -1]
  /\ UNCHANGED line

(* The BRT's init() does not call cl_hw::init() and leaves on as the        *)
(* allocator has handed it out.                                             *)
Init ==
  /\ uart = ResetUart
  /\ line = [input |-> 0, avail |-> FALSE]
  /\ \E o \in BOOLEAN :
       brt = [on |-> o, counter |-> 0, prescaler |-> 0, reload |-> 0,
              BRTR |-> FALSE, x12 |-> FALSE, S1BRS |-> FALSE, TR1 |-> FALSE]
  /\ tx = [made |-> 0, done |-> <<>>, replaced |-> {}, ticks |-> -1]
  /\ rx = [made |-> 0, done |-> <<>>, replaced |-> {}, ticks |-> -1]

Next ==
  Tick \/ WriteSBUF \/ WriteSCON \/ WritePCON \/ WriteBRT \/ WriteAUXR \/ Inject \/ Reset

Spec == Init /\ [][Next]_vars

(* The part executes and ticks its hardware again and again.                *)
FairSpec == Spec /\ WF_vars(Tick)

-----------------------------------------------------------------------------
(* Every variable stays in its range.                                       *)
UartTypeOK ==
  /\ uart \in Uart
  /\ line \in [input : 0..MaxInjects, avail : BOOLEAN]
  /\ brt \in Brt
  /\ tx \in Fate(MaxWrites) /\ rx \in Fate(MaxInjects)

NoFrameLate ==
  /\ uart.sending => tx.ticks <= FrameTicks(uart)
  /\ uart.receiving => rx.ticks <= FrameTicks(uart)

(* A frame takes exactly the baud ticks its mode and rate say and no more,  *)
(* to the cycle in which TI or RI is set, whatever else the program and the *)
(* other half of the UART do meanwhile.                                     *)
FramesTakeTheirTime ==
  [][ /\ tx'.done # tx.done /\ tx.ticks # -1 => tx.ticks = FrameTicks(uart)
      /\ rx'.done # rx.done /\ rx.ticks # -1 => rx.ticks = FrameTicks(uart)
      /\ NoFrameLate' ]_vars

(* No byte is sent twice or out of order, and every byte written is sent,   *)
(* is being sent, or was cut off by the next write or a reset.              *)
InOrderOnce(f) == \A k \in 1..(Len(f.done) - 1) : f.done[k] < f.done[k + 1]

Arrived(f) == {f.done[k] : k \in DOMAIN f.done}

WritesAccounted ==
  /\ InOrderOnce(tx)
  /\ \A w \in 1..tx.made :
       w \in Arrived(tx) \cup tx.replaced \/ (uart.sending /\ uart.out = w)

(* No byte is received twice or out of order, resets in the middle of a     *)
(* frame included, and every byte injected is received, waits, or was       *)
(* replaced by a later one while it waited.                                 *)
InjectsAccounted ==
  /\ InOrderOnce(rx)
  /\ \A i \in 1..rx.made :
       i \in Arrived(rx) \cup rx.replaced \/ (line.avail /\ line.input = i)
  /\ Arrived(rx) \cap rx.replaced = {}

(* The transmitter and the receiver with its line are channels of one byte. *)
Transmitter ==
  INSTANCE ByteChannel WITH Cuts <- TRUE, made <- tx.made, done <- tx.done, lost <- tx.replaced,
                            held <- IF uart.sending THEN {uart.out} ELSE {}

Receiver ==
  INSTANCE ByteChannel WITH Cuts <- FALSE, made <- rx.made, done <- rx.done, lost <- rx.replaced,
                            held <- IF line.avail THEN {line.input} ELSE {}

(* The transmitter sends what was written last and nothing else, and only a *)
(* reset cuts a byte off that no later one replaces; the receiver hands the *)
(* program, in SBUF, the byte that is on the line when its frame ends, and  *)
(* no byte leaves the line but so or by a later one, in a reset neither.    *)
(* Both whatever is reprogrammed in the middle of a frame.                  *)
UartIsTwoChannels == Transmitter!Spec /\ Receiver!Spec

(* With a baud clock that works, a transmission ends ...                    *)
Clocked == ~Timed(uart) \/ (brt.on /\ brt.BRTR /\ brt.S1BRS)

TransmissionEnds == (<>[]Clocked) => []<>~uart.sending

(* ... and a byte on the line is received.                                  *)
ReceptionEnds == (<>[](Clocked /\ uart.REN)) => []<>~line.avail

(* Both: no frame hangs.                                                    *)
FramesEnd == TransmissionEnds /\ ReceptionEnds

(* What stc12_brt.cc says: "If S1BRS=0, the serial port uses Timer 1".      *)
Timer1Clocks ==
  (<>[](Timed(uart) /\ brt.TR1 /\ ~brt.S1BRS)) => []<>~uart.sending

(* What README.md says of the UART's bit period: "exact (BRT at 115200)".   *)
BrtClocks ==
  (<>[](Timed(uart) /\ brt.BRTR /\ brt.S1BRS)) => []<>~uart.sending

=============================================================================
