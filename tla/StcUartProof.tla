----------------------------- MODULE StcUartProof -----------------------------
(* Proofs about StcUart, for any frames, rates and number of bytes: its      *)
(* types, the ticks a frame takes, and what becomes of the bytes.            *)
EXTENDS StcUart, TLAPS

Half(u) ==
  /\ DOMAIN u = {"mode", "REN", "SMOD", "TI", "RI", "sending", "out", "tr_bit", "tr_t1", "tr_tick",
                 "receiving", "s_in", "rec_bit", "rec_t1", "rec_tick"}
  /\ u.sending \in BOOLEAN /\ u.receiving \in BOOLEAN

(* The counters of u and v may differ, but not what they are at.             *)
SameWork(u, v) ==
  /\ v.sending = u.sending /\ v.out = u.out /\ v.receiving = u.receiving

Increases(s) == \A k \in 1..(Len(s) - 1) : s[k] < s[k + 1]

Below(s, n) == \A k \in DOMAIN s : s[k] < n

(* The bytes of a direction: made so far, arrived, and cut off.              *)
Bytes(f) ==
  /\ DOMAIN f = {"made", "done", "replaced", "ticks"}
  /\ f.made \in Nat /\ f.done \in Seq(Nat)
  /\ f.replaced \subseteq 1..f.made
  /\ Increases(f.done) /\ Below(f.done, f.made + 1)

UartInv ==
  /\ Half(uart)
  /\ line \in [input : Nat, avail : BOOLEAN]
  /\ Bytes(tx) /\ Bytes(rx)
  /\ uart.sending => /\ uart.out = tx.made /\ tx.made >= 1
                     /\ Below(tx.done, uart.out)
  /\ uart.receiving => line.avail
  /\ line.avail => /\ line.input = rx.made /\ rx.made >= 1
                   /\ Below(rx.done, line.input)
                   /\ line.input \notin rx.replaced
  /\ WritesAccounted /\ InjectsAccounted

-----------------------------------------------------------------------------
(* A byte that is later than all that arrived.                               *)
LEMMA Arrives ==
  ASSUME NEW s \in Seq(Nat), NEW n \in Nat, Increases(s), Below(s, n)
  PROVE  /\ Append(s, n) \in Seq(Nat) /\ Increases(Append(s, n)) /\ Below(Append(s, n), n + 1)
         /\ {Append(s, n)[k] : k \in DOMAIN Append(s, n)} = {s[k] : k \in DOMAIN s} \cup {n}
<1> DEFINE t == Append(s, n)
<1>1. t \in Seq(Nat) /\ Len(t) = Len(s) + 1 /\ t[Len(s) + 1] = n /\ \A k \in 1..Len(s) : t[k] = s[k]
  OBVIOUS
<1>2. DOMAIN s = 1..Len(s) /\ DOMAIN t = 1..(Len(s) + 1) /\ Len(s) \in Nat
  BY <1>1
<1> HIDE DEF t
<1>3. \A k \in 1..Len(s) : s[k] \in Nat
  OBVIOUS
<1>4. Increases(t)
  <2> SUFFICES ASSUME NEW k \in 1..Len(s) PROVE t[k] < t[k + 1]
    BY <1>1, <1>2 DEF Increases
  <2>1. CASE k = Len(s)
    BY <2>1, <1>1, <1>2 DEF Below
  <2>2. CASE k # Len(s)
    <3>1. k \in 1..(Len(s) - 1) /\ k + 1 \in 1..Len(s)
      <4>1. Len(s) \in Nat /\ k \in Nat /\ 1 <= k /\ k <= Len(s)
        BY <1>2
      <4> QED
        BY <2>2, <4>1
    <3>2. s[k] < s[k + 1]
      BY <3>1 DEF Increases
    <3> QED
      BY <3>1, <3>2, <1>1
  <2> QED
    BY <2>1, <2>2
<1>5. Below(t, n + 1)
  BY <1>1, <1>2, <1>3 DEF Below
<1>6. {t[k] : k \in DOMAIN t} = {s[k] : k \in DOMAIN s} \cup {n}
  <2>1. ASSUME NEW k \in DOMAIN t PROVE t[k] \in {s[j] : j \in DOMAIN s} \cup {n}
    BY <1>1, <1>2
  <2>2. ASSUME NEW j \in DOMAIN s PROVE s[j] \in {t[k] : k \in DOMAIN t}
    BY <1>1, <1>2
  <2>3. n \in {t[k] : k \in DOMAIN t}
    BY <1>1, <1>2
  <2> QED
    BY <2>1, <2>2, <2>3
<1> QED
  BY <1>1, <1>4, <1>5, <1>6 DEF t

(* The clocks move bits and nothing else.                                    *)
LEMMA ClocksMoveBits ==
  ASSUME NEW u, Half(u), NEW n
  PROVE  /\ Half(Happen(u, n)) /\ SameWork(u, Happen(u, n))
         /\ Half(SendBits(u)) /\ SameWork(u, SendBits(u))
         /\ Half(ReceiveBits(u)) /\ SameWork(u, ReceiveBits(u))
         /\ Half(SerialTicks(u)) /\ SameWork(u, SerialTicks(u))
<1>1. ASSUME NEW x, NEW y, NEW v, v = [u EXCEPT !.tr_t1 = x, !.rec_t1 = y]
      PROVE  Half(v) /\ SameWork(u, v)
  BY <1>1 DEF Half, SameWork
<1>2. ASSUME NEW x, NEW y, NEW v, v = [u EXCEPT !.tr_tick = x, !.rec_tick = y]
      PROVE  Half(v) /\ SameWork(u, v)
  BY <1>2 DEF Half, SameWork
<1>3. ASSUME NEW x, NEW y, NEW v \in {[[u EXCEPT !.tr_bit = x] EXCEPT !.tr_t1 = y],
                                      [[u EXCEPT !.tr_bit = x] EXCEPT !.tr_tick = y],
                                      [[u EXCEPT !.rec_bit = x] EXCEPT !.rec_t1 = y],
                                      [[u EXCEPT !.rec_bit = x] EXCEPT !.rec_tick = y]}
      PROVE  Half(v) /\ SameWork(u, v)
  BY <1>3 DEF Half, SameWork
<1>4. Half(u) /\ SameWork(u, u)
  BY DEF SameWork
<1>5. Half(SendBits(u)) /\ SameWork(u, SendBits(u))
  BY <1>3, <1>4 DEF SendBits
<1>6. Half(ReceiveBits(u)) /\ SameWork(u, ReceiveBits(u))
  BY <1>3, <1>4 DEF ReceiveBits
<1>7. Half(Happen(u, n)) /\ SameWork(u, Happen(u, n))
  BY <1>1 DEF Happen
<1>8. Half(SerialTicks(u)) /\ SameWork(u, SerialTicks(u))
  BY <1>2 DEF SerialTicks
<1> QED
  BY <1>5, <1>6, <1>7, <1>8

(* The ends and the beginning of frames.                                     *)
LEMMA FramesTurn ==
  ASSUME NEW u, Half(u), NEW l, l.avail \in BOOLEAN
  PROVE  /\ Half(FinishSending(u)) /\ FinishSending(u).out = u.out /\ FinishSending(u).receiving = u.receiving
         /\ FinishSending(u).sending = (u.sending /\ ~Sent(u))
         /\ Half(StartReceiving(u, l)) /\ StartReceiving(u, l).out = u.out
         /\ StartReceiving(u, l).sending = u.sending
         /\ StartReceiving(u, l).receiving => u.receiving \/ l.avail
         /\ Half(FinishReceiving(u, l)) /\ FinishReceiving(u, l).out = u.out
         /\ FinishReceiving(u, l).sending = u.sending
         /\ FinishReceiving(u, l).receiving = (u.receiving /\ ~Received(u))
<1>1. /\ Half(FinishSending(u)) /\ FinishSending(u).out = u.out /\ FinishSending(u).receiving = u.receiving
      /\ FinishSending(u).sending = (u.sending /\ ~Sent(u))
  <2>1. CASE Sent(u)
    BY <2>1 DEF FinishSending, Half
  <2>2. CASE ~Sent(u)
    BY <2>2 DEF FinishSending, Half
  <2> QED
    BY <2>1, <2>2
<1>2. /\ Half(StartReceiving(u, l)) /\ StartReceiving(u, l).out = u.out
      /\ StartReceiving(u, l).sending = u.sending
      /\ StartReceiving(u, l).receiving => u.receiving \/ l.avail
  <2>1. CASE u.REN /\ ~u.receiving /\ l.avail
    BY <2>1 DEF StartReceiving, Half
  <2>2. CASE ~(u.REN /\ ~u.receiving /\ l.avail)
    BY <2>2 DEF StartReceiving, Half
  <2> QED
    BY <2>1, <2>2
<1>3. /\ Half(FinishReceiving(u, l)) /\ FinishReceiving(u, l).out = u.out
      /\ FinishReceiving(u, l).sending = u.sending
      /\ FinishReceiving(u, l).receiving = (u.receiving /\ ~Received(u))
  <2>1. CASE Received(u)
    BY <2>1 DEF FinishReceiving, Half
  <2>2. CASE ~Received(u)
    BY <2>2 DEF FinishReceiving, Half
  <2> QED
    BY <2>1, <2>2
<1> QED
  BY <1>1, <1>2, <1>3

(* SBUF gives the program the byte that is on the line.                      *)
LEMMA ReceivedIsLine ==
  ASSUME NEW u, Half(u), NEW l, Received(u)
  PROVE  FinishReceiving(u, l).s_in = l.input
BY DEF FinishReceiving, Half

-----------------------------------------------------------------------------
(* A cycle ends a transmission or not and a reception or not: sent and got.  *)
Moves(sent, got) ==
  /\ Half(uart') /\ uart'.out = uart.out
  /\ sent => uart.sending
  /\ uart'.sending = (uart.sending /\ ~sent)
  /\ line' \in [input : Nat, avail : BOOLEAN] /\ line'.input = line.input
  /\ got => line.avail
  /\ line'.avail = (line.avail /\ ~got)
  /\ uart'.receiving => line'.avail
  /\ DOMAIN tx' = DOMAIN tx /\ tx'.made = tx.made /\ tx'.replaced = tx.replaced
  /\ tx'.done = IF sent THEN Append(tx.done, uart.out) ELSE tx.done
  /\ DOMAIN rx' = DOMAIN rx /\ rx'.made = rx.made /\ rx'.replaced = rx.replaced
  /\ rx'.done = IF got THEN Append(rx.done, line.input) ELSE rx.done

LEMMA TickMoves ==
  ASSUME UartInv, Tick
  PROVE  \E sent, got \in BOOLEAN : Moves(sent, got)
<1> DEFINE moved == ReceiveBits(SendBits(Happen(uart, FromTimer1(brt))))
           v == StartReceiving(FinishSending(moved), line)
           w == FinishReceiving(v, line)
<1>1. /\ uart' = Happen(SerialTicks(w), FromBrt(brt))
      /\ line' = ClearLine(v, line)
      /\ \E t : tx' = [tx EXCEPT !.done = IF Sent(moved) THEN Append(@, moved.out) ELSE @, !.ticks = t]
      /\ \E t : rx' = [rx EXCEPT !.done = IF Received(v) THEN Append(@, FinishReceiving(v, line).s_in) ELSE @, !.ticks = t]
  BY ZenonT(60) DEF Tick
<1>i. Half(uart) /\ line.avail \in BOOLEAN /\ line.input \in Nat /\ line \in [input : Nat, avail : BOOLEAN]
  BY DEF UartInv
<1>2. Half(moved) /\ SameWork(uart, moved)
  <2> DEFINE h == Happen(uart, FromTimer1(brt))
             b == SendBits(h)
  <2>1. Half(h) /\ SameWork(uart, h)
    BY <1>i, ClocksMoveBits
  <2> HIDE DEF h
  <2>2. Half(b) /\ SameWork(h, b)
    BY <2>1, ClocksMoveBits
  <2> HIDE DEF b
  <2>3. Half(ReceiveBits(b)) /\ SameWork(b, ReceiveBits(b))
    BY <2>2, ClocksMoveBits
  <2>4. moved = ReceiveBits(b)
    BY DEF b, h
  <2> HIDE DEF moved
  <2> QED
    BY <2>1, <2>2, <2>3, <2>4 DEF SameWork
<1> HIDE DEF moved
<1>3. /\ Half(v) /\ v.out = uart.out /\ v.sending = (uart.sending /\ ~Sent(moved))
      /\ v.receiving => uart.receiving \/ line.avail
  BY <1>2, <1>i, FramesTurn DEF SameWork
<1> HIDE DEF v
<1>g. Received(v) => FinishReceiving(v, line).s_in = line.input
  BY <1>3, ReceivedIsLine
<1>4. /\ Half(w) /\ w.out = uart.out /\ w.sending = v.sending
      /\ w.receiving = (v.receiving /\ ~Received(v))
  BY <1>3, <1>i, FramesTurn
<1> HIDE DEF w
<1>5. /\ Half(uart') /\ SameWork(w, uart')
  <2> DEFINE x == SerialTicks(w)
  <2>1. uart' = Happen(x, FromBrt(brt))
    BY <1>1 DEF w
  <2>2. Half(x) /\ SameWork(w, x)
    BY <1>4, ClocksMoveBits
  <2> HIDE DEF x
  <2>3. Half(Happen(x, FromBrt(brt))) /\ SameWork(x, Happen(x, FromBrt(brt)))
    BY <2>2, ClocksMoveBits
  <2> QED
    BY <2>1, <2>2, <2>3 DEF SameWork
<1>6. /\ uart'.out = uart.out /\ uart'.sending = (uart.sending /\ ~Sent(moved))
      /\ uart'.receiving = (v.receiving /\ ~Received(v))
      /\ Sent(moved) => uart.sending
      /\ Received(v) => v.receiving /\ line.avail
      /\ v.receiving => line.avail
  <2>1. v.receiving => line.avail
    BY <1>3 DEF UartInv
  <2>2. Sent(moved) => uart.sending
    BY <1>2 DEF Sent, SameWork
  <2>3. Received(v) => v.receiving
    BY DEF Received
  <2> QED
    BY <1>3, <1>4, <1>5, <2>1, <2>2, <2>3 DEF SameWork
<1>7. line' \in [input : Nat, avail : BOOLEAN] /\ line'.input = line.input
      /\ line'.avail = (line.avail /\ ~Received(v))
  BY <1>1, <1>i, <1>6 DEF ClearLine
<1>8. /\ DOMAIN tx' = DOMAIN tx /\ tx'.made = tx.made /\ tx'.replaced = tx.replaced
      /\ tx'.done = IF Sent(moved) THEN Append(tx.done, uart.out) ELSE tx.done
  <2>1. moved.out = uart.out
    BY <1>2 DEF SameWork
  <2> QED
    BY <1>1, <2>1 DEF UartInv, Bytes
<1>9. /\ DOMAIN rx' = DOMAIN rx /\ rx'.made = rx.made /\ rx'.replaced = rx.replaced
      /\ rx'.done = IF Received(v) THEN Append(rx.done, line.input) ELSE rx.done
  BY <1>1, <1>g DEF UartInv, Bytes
<1>10. Sent(moved) \in BOOLEAN /\ Received(v) \in BOOLEAN
  BY <1>2, <1>3 DEF Sent, Received, Half
<1>11. Moves(Sent(moved), Received(v))
  BY <1>5, <1>6, <1>7, <1>8, <1>9 DEF Moves
<1> QED
  BY <1>10, <1>11

LEMMA TickAccounts == UartInv /\ Tick => UartInv'
<1> SUFFICES ASSUME UartInv, Tick PROVE UartInv'
  OBVIOUS
<1>1. PICK sent, got \in BOOLEAN : Moves(sent, got)
  BY TickMoves
<1>i. line.avail \in BOOLEAN /\ uart.sending \in BOOLEAN
  BY DEF UartInv, Half
<1>2. /\ Bytes(tx') /\ WritesAccounted'
      /\ uart'.sending => uart'.out = tx'.made /\ tx'.made >= 1 /\ Below(tx'.done, uart'.out)
  <2>1. CASE sent
    <3>1. /\ uart.out = tx.made /\ tx.made \in Nat /\ tx.done \in Seq(Nat)
          /\ Increases(tx.done) /\ Below(tx.done, uart.out)
      BY <2>1, <1>1 DEF UartInv, Bytes, Moves
    <3>2. /\ tx'.done \in Seq(Nat) /\ Increases(tx'.done) /\ Below(tx'.done, tx'.made + 1)
          /\ {tx'.done[k] : k \in DOMAIN tx'.done} = {tx.done[k] : k \in DOMAIN tx.done} \cup {uart.out}
      <4> DEFINE t == Append(tx.done, uart.out)
      <4>1. t \in Seq(Nat) /\ Increases(t) /\ Below(t, uart.out + 1)
            /\ {t[k] : k \in DOMAIN t} = {tx.done[k] : k \in DOMAIN tx.done} \cup {uart.out}
        BY <3>1, Arrives
      <4>2. tx'.done = t /\ tx'.made = uart.out
        BY <2>1, <3>1, <1>1 DEF Moves
      <4> HIDE DEF t
      <4> QED
        BY <4>1, <4>2
    <3>3. Bytes(tx')
      BY <3>2, <1>1 DEF UartInv, Bytes, Moves
    <3>4. InOrderOnce(tx') /\ Arrived(tx') = Arrived(tx) \cup {uart.out}
      BY <3>2 DEF InOrderOnce, Increases, Arrived
    <3>5. WritesAccounted'
      BY <3>4, <1>1 DEF WritesAccounted, UartInv, Moves
    <3> QED
      BY <2>1, <3>3, <3>5, <1>1 DEF Moves
  <2>2. CASE ~sent
    <3>1. uart'.sending = uart.sending /\ uart'.out = uart.out
      BY <2>2, <1>1 DEF UartInv, Half, Moves
    <3>2. Bytes(tx')
      BY <2>2, <1>1 DEF UartInv, Bytes, Moves
    <3>3. WritesAccounted'
      BY <2>2, <3>1, <1>1 DEF UartInv, WritesAccounted, InOrderOnce, Arrived, Moves
    <3> QED
      BY <2>2, <3>1, <3>2, <3>3, <1>1 DEF UartInv, Moves
  <2> QED
    BY <2>1, <2>2
<1>3. /\ Bytes(rx') /\ InjectsAccounted'
      /\ line'.avail => /\ line'.input = rx'.made /\ rx'.made >= 1 /\ Below(rx'.done, line'.input)
                        /\ line'.input \notin rx'.replaced
  <2>1. CASE got
    <3>1. /\ line.input = rx.made /\ rx.made \in Nat /\ rx.done \in Seq(Nat)
          /\ Increases(rx.done) /\ Below(rx.done, line.input) /\ line.input \notin rx.replaced
      BY <2>1, <1>1 DEF UartInv, Bytes, Moves
    <3>2. /\ rx'.done \in Seq(Nat) /\ Increases(rx'.done) /\ Below(rx'.done, rx'.made + 1)
          /\ {rx'.done[k] : k \in DOMAIN rx'.done} = {rx.done[k] : k \in DOMAIN rx.done} \cup {line.input}
      <4> DEFINE t == Append(rx.done, line.input)
      <4>1. t \in Seq(Nat) /\ Increases(t) /\ Below(t, line.input + 1)
            /\ {t[k] : k \in DOMAIN t} = {rx.done[k] : k \in DOMAIN rx.done} \cup {line.input}
        BY <3>1, Arrives
      <4>2. rx'.done = t /\ rx'.made = line.input
        BY <2>1, <3>1, <1>1 DEF Moves
      <4> HIDE DEF t
      <4> QED
        BY <4>1, <4>2
    <3>3. Bytes(rx')
      BY <3>2, <1>1 DEF UartInv, Bytes, Moves
    <3>4. InOrderOnce(rx') /\ Arrived(rx') = Arrived(rx) \cup {line.input}
      BY <3>2 DEF InOrderOnce, Increases, Arrived
    <3>5. InjectsAccounted'
      BY <3>1, <3>4, <1>1 DEF InjectsAccounted, UartInv, Moves
    <3> QED
      BY <2>1, <3>3, <3>5, <1>1 DEF Moves
  <2>2. CASE ~got
    <3>1. line'.avail = line.avail /\ line'.input = line.input
      BY <2>2, <1>1, <1>i DEF Moves
    <3>2. Bytes(rx')
      BY <2>2, <1>1 DEF UartInv, Bytes, Moves
    <3>3. InjectsAccounted'
      BY <2>2, <3>1, <1>1 DEF UartInv, InjectsAccounted, InOrderOnce, Arrived, Moves
    <3> QED
      BY <2>2, <3>1, <3>2, <3>3, <1>1 DEF UartInv, Moves
  <2> QED
    BY <2>1, <2>2
<1>4. uart'.receiving => line'.avail
  BY <1>1 DEF Moves
<1>5. Half(uart') /\ line' \in [input : Nat, avail : BOOLEAN]
  BY <1>1 DEF Moves
<1> QED
  BY <1>2, <1>3, <1>4, <1>5 DEF UartInv

LEMMA WriteAccounts == UartInv /\ WriteSBUF => UartInv'
<1> SUFFICES ASSUME UartInv, WriteSBUF PROVE UartInv'
  OBVIOUS
<1>1. /\ DOMAIN uart' = DOMAIN uart /\ uart'.sending = TRUE /\ uart'.out = tx.made + 1
      /\ uart'.receiving = uart.receiving
  BY DEF WriteSBUF, UartInv, Half
<1>2. /\ DOMAIN tx' = DOMAIN tx /\ tx'.made = tx.made + 1 /\ tx'.done = tx.done
      /\ tx'.replaced = IF uart.sending THEN tx.replaced \cup {uart.out} ELSE tx.replaced
  BY DEF WriteSBUF, UartInv, Bytes
<1>3. line' = line /\ rx' = rx
  BY DEF WriteSBUF
<1>4. Half(uart')
  BY <1>1 DEF UartInv, Half
<1>t. tx.made \in Nat /\ tx.replaced \subseteq 1..tx.made /\ tx.done \in Seq(Nat) /\ Below(tx.done, tx.made + 1)
      /\ Increases(tx.done) /\ (uart.sending => uart.out = tx.made /\ tx.made >= 1)
  BY DEF UartInv, Bytes
<1>5. Bytes(tx') /\ Below(tx'.done, uart'.out)
  <2>1. Below(tx.done, tx.made + 2)
    BY <1>t DEF Below
  <2>2. tx'.replaced \subseteq 1..tx'.made
    BY <1>2, <1>t
  <2> QED
    BY <2>1, <2>2, <1>1, <1>2, <1>t DEF UartInv, Bytes
<1>6. WritesAccounted'
  <2>1. InOrderOnce(tx') /\ Arrived(tx') = Arrived(tx)
    BY <1>2 DEF UartInv, WritesAccounted, InOrderOnce, Arrived
  <2>2. ASSUME NEW x \in 1..tx'.made
        PROVE  x \in Arrived(tx') \cup tx'.replaced \/ (uart'.sending /\ uart'.out = x)
    <3>1. CASE x = tx.made + 1
      BY <3>1, <1>1
    <3>2. CASE x # tx.made + 1
      <4>1. x \in 1..tx.made
        BY <3>2, <1>2, <1>t
      <4> QED
        BY <4>1, <2>1, <1>2 DEF UartInv, WritesAccounted
    <3> QED
      BY <3>1, <3>2
  <2> QED
    BY <2>1, <2>2 DEF WritesAccounted
<1>7. InjectsAccounted'
  BY <1>3 DEF UartInv, InjectsAccounted, InOrderOnce, Arrived
<1> QED
  BY <1>1, <1>2, <1>3, <1>4, <1>5, <1>6, <1>7, <1>t DEF UartInv

LEMMA InjectAccounts == UartInv /\ Inject => UartInv'
<1> SUFFICES ASSUME UartInv, Inject PROVE UartInv'
  OBVIOUS
<1>1. /\ line'.input = rx.made + 1 /\ line'.avail = TRUE /\ uart' = uart /\ tx' = tx
      /\ line' = [input |-> rx.made + 1, avail |-> TRUE]
  BY DEF Inject
<1>2. /\ DOMAIN rx' = DOMAIN rx /\ rx'.made = rx.made + 1 /\ rx'.done = rx.done
      /\ rx'.replaced = IF line.avail THEN rx.replaced \cup {line.input} ELSE rx.replaced
  BY DEF Inject, UartInv, Bytes
<1>t. /\ rx.made \in Nat /\ rx.replaced \subseteq 1..rx.made /\ rx.done \in Seq(Nat) /\ Below(rx.done, rx.made + 1)
      /\ Increases(rx.done)
      /\ line.avail => line.input = rx.made /\ rx.made >= 1 /\ Below(rx.done, line.input)
  BY DEF UartInv, Bytes
<1>3. line' \in [input : Nat, avail : BOOLEAN]
  BY <1>1, <1>t
<1>4. Bytes(rx') /\ Below(rx'.done, line'.input) /\ line'.input \notin rx'.replaced
  <2>1. Below(rx.done, rx.made + 2)
    BY <1>t DEF Below
  <2>2. rx'.replaced \subseteq 1..rx'.made /\ line'.input \notin rx'.replaced
    BY <1>1, <1>2, <1>t
  <2> QED
    BY <2>1, <2>2, <1>1, <1>2, <1>t DEF UartInv, Bytes
<1>5. InjectsAccounted'
  <2>1. InOrderOnce(rx') /\ Arrived(rx') = Arrived(rx)
    BY <1>2 DEF UartInv, InjectsAccounted, InOrderOnce, Arrived
  <2>2. ASSUME NEW x \in 1..rx'.made
        PROVE  x \in Arrived(rx') \cup rx'.replaced \/ (line'.avail /\ line'.input = x)
    <3>1. CASE x = rx.made + 1
      BY <3>1, <1>1
    <3>2. CASE x # rx.made + 1
      <4>1. x \in 1..rx.made
        BY <3>2, <1>2, <1>t
      <4> QED
        BY <4>1, <2>1, <1>2 DEF UartInv, InjectsAccounted
    <3> QED
      BY <3>1, <3>2
  <2>3. ASSUME line.avail PROVE line.input \notin Arrived(rx)
    <3>1. \A k \in DOMAIN rx.done : rx.done[k] \in Nat /\ rx.done[k] < line.input
      BY <2>3, <1>t DEF Below
    <3> QED
      BY <3>1, <2>3, <1>t DEF Arrived
  <2>4. Arrived(rx') \cap rx'.replaced = {}
    BY <2>1, <2>3, <1>2 DEF UartInv, InjectsAccounted
  <2> QED
    BY <2>1, <2>2, <2>4 DEF InjectsAccounted
<1>6. WritesAccounted'
  BY <1>1 DEF UartInv, WritesAccounted, InOrderOnce, Arrived
<1> QED
  BY <1>1, <1>2, <1>3, <1>4, <1>5, <1>6, <1>t DEF UartInv

(* Writes of the control registers leave the work alone.                     *)
LEMMA RetimeAccounts ==
  ASSUME UartInv, NEW u, Half(u), SameWork(uart, u), Retime(u)
  PROVE  UartInv'
<1>1. uart' = u /\ line' = line
  BY DEF Retime
<1>2. /\ DOMAIN tx' = DOMAIN tx /\ tx'.made = tx.made /\ tx'.done = tx.done /\ tx'.replaced = tx.replaced
      /\ DOMAIN rx' = DOMAIN rx /\ rx'.made = rx.made /\ rx'.done = rx.done /\ rx'.replaced = rx.replaced
  BY DEF Retime, UartInv, Bytes
<1>3. WritesAccounted' /\ InjectsAccounted'
  BY <1>1, <1>2 DEF UartInv, WritesAccounted, InjectsAccounted, InOrderOnce, Arrived, SameWork
<1> QED
  BY <1>1, <1>2, <1>3 DEF UartInv, Bytes, SameWork

LEMMA ResetAccounts == UartInv /\ Reset => UartInv'
<1> SUFFICES ASSUME UartInv, Reset PROVE UartInv'
  OBVIOUS
<1>1. Half(uart') /\ uart'.sending = FALSE /\ uart'.receiving = FALSE
  <2>1. uart' = ResetUart
    BY DEF Reset
  <2>2. Half(ResetUart) /\ ResetUart.sending = FALSE /\ ResetUart.receiving = FALSE
    BY DEF ResetUart, Half
  <2> QED
    BY <2>1, <2>2
<1>2. /\ DOMAIN tx' = DOMAIN tx /\ tx'.made = tx.made /\ tx'.done = tx.done
      /\ tx'.replaced = IF uart.sending THEN tx.replaced \cup {uart.out} ELSE tx.replaced
      /\ DOMAIN rx' = DOMAIN rx /\ rx'.made = rx.made /\ rx'.done = rx.done /\ rx'.replaced = rx.replaced
      /\ line' = line
  BY DEF Reset, UartInv, Bytes
<1>3. Bytes(tx') /\ Bytes(rx')
  <2>1. uart.sending => uart.out \in 1..tx.made
    BY DEF UartInv, Bytes
  <2> QED
    BY <2>1, <1>2 DEF UartInv, Bytes
<1>4. WritesAccounted' /\ InjectsAccounted'
  BY <1>2 DEF UartInv, WritesAccounted, InjectsAccounted, InOrderOnce, Arrived
<1> QED
  BY <1>1, <1>2, <1>3, <1>4 DEF UartInv

LEMMA StartsAccounted == Init => UartInv
<1> SUFFICES ASSUME Init PROVE UartInv
  OBVIOUS
<1>1. Half(uart) /\ uart.sending = FALSE /\ uart.receiving = FALSE
  BY DEF Init, ResetUart, Half
<1>2. line = [input |-> 0, avail |-> FALSE]
  BY DEF Init
<1>3. /\ tx = [made |-> 0, done |-> <<>>, replaced |-> {}, ticks |-> -1]
      /\ rx = [made |-> 0, done |-> <<>>, replaced |-> {}, ticks |-> -1]
  BY DEF Init
<1>4. Bytes(tx) /\ Bytes(rx)
  BY <1>3 DEF Bytes, Increases, Below
<1>5. WritesAccounted /\ InjectsAccounted
  <2>1. Arrived(tx) = {} /\ Arrived(rx) = {} /\ InOrderOnce(tx) /\ InOrderOnce(rx)
    BY <1>3 DEF Arrived, InOrderOnce
  <2> QED
    BY <1>3, <2>1 DEF WritesAccounted, InjectsAccounted
<1> QED
  BY <1>1, <1>2, <1>4, <1>5 DEF UartInv

LEMMA StaysAccounted == UartInv /\ [Next]_vars => UartInv'
<1> SUFFICES ASSUME UartInv, [Next]_vars PROVE UartInv'
  OBVIOUS
<1>1. CASE WriteSCON
  <2>1. PICK m \in Modes, ren \in BOOLEAN :
          Retime([uart EXCEPT !.mode = m, !.REN = ren, !.TI = FALSE, !.RI = FALSE])
    BY <1>1 DEF WriteSCON
  <2>2. Half([uart EXCEPT !.mode = m, !.REN = ren, !.TI = FALSE, !.RI = FALSE])
        /\ SameWork(uart, [uart EXCEPT !.mode = m, !.REN = ren, !.TI = FALSE, !.RI = FALSE])
    BY DEF UartInv, Half, SameWork
  <2> QED
    BY <2>1, <2>2, RetimeAccounts
<1>2. CASE WritePCON
  <2>1. PICK s \in BOOLEAN : Retime([uart EXCEPT !.SMOD = s])
    BY <1>2 DEF WritePCON
  <2>2. Half([uart EXCEPT !.SMOD = s]) /\ SameWork(uart, [uart EXCEPT !.SMOD = s])
    BY DEF UartInv, Half, SameWork
  <2> QED
    BY <2>1, <2>2, RetimeAccounts
<1>3. CASE UNCHANGED <<uart, line, tx, rx>>
  BY <1>3 DEF UartInv, WritesAccounted, InjectsAccounted, InOrderOnce, Arrived
<1>4. WriteBRT \/ WriteAUXR \/ UNCHANGED vars => UNCHANGED <<uart, line, tx, rx>>
  BY DEF WriteBRT, WriteAUXR, vars
<1> QED
  BY <1>1, <1>2, <1>3, <1>4, TickAccounts, WriteAccounts, InjectAccounts, ResetAccounts DEF Next

(* No byte written to SBUF is sent twice or out of order, and each is sent,  *)
(* on its way, or was cut off by a write or a reset (cl_serial::tick()).     *)
THEOREM WritesAlwaysAccounted == Spec => []WritesAccounted
<1>1. UartInv => WritesAccounted
  BY DEF UartInv
<1> QED
  BY <1>1, StartsAccounted, StaysAccounted, PTL DEF Spec

(* No injected byte is received twice or out of order, resets in the middle  *)
(* of a frame included, and none is lost but by a later one on the line.     *)
THEOREM InjectsAlwaysAccounted == Spec => []InjectsAccounted
<1>1. UartInv => InjectsAccounted
  BY DEF UartInv
<1> QED
  BY <1>1, StartsAccounted, StaysAccounted, PTL DEF Spec

-----------------------------------------------------------------------------
(* The two channels of one byte.                                             *)
Sending == IF uart.sending THEN {uart.out} ELSE {}

OnLine == IF line.avail THEN {line.input} ELSE {}

(* A write of the control registers stutters in both.                        *)
LEMMA RetimeStutters ==
  ASSUME UartInv, NEW u, SameWork(uart, u), Retime(u)
  PROVE  UNCHANGED <<Transmitter!channel, Receiver!channel>>
<1>1. uart'.sending = uart.sending /\ uart'.out = uart.out /\ line' = line
  BY DEF Retime, SameWork
<1>2. /\ tx'.made = tx.made /\ tx'.done = tx.done /\ tx'.replaced = tx.replaced
      /\ rx'.made = rx.made /\ rx'.done = rx.done /\ rx'.replaced = rx.replaced
  BY DEF Retime, UartInv, Bytes
<1> QED
  BY <1>1, <1>2 DEF Transmitter!channel, Receiver!channel

(* A cycle hands on the byte of every frame that it ends.                    *)
LEMMA TickHandsOn ==
  ASSUME UartInv, Tick
  PROVE  /\ Transmitter!HandOn \/ UNCHANGED Transmitter!channel
         /\ Receiver!HandOn \/ UNCHANGED Receiver!channel
<1>1. PICK sent, got \in BOOLEAN : Moves(sent, got)
  BY TickMoves
<1>2. ASSUME sent PROVE Transmitter!HandOn
  <2>1. /\ Sending = {uart.out} /\ Sending' = {} /\ tx'.done = Append(tx.done, uart.out)
        /\ tx'.made = tx.made /\ tx'.replaced = tx.replaced
    BY <1>1, <1>2 DEF Moves, Sending
  <2> QED
    BY <2>1 DEF Transmitter!HandOn, Sending
<1>3. ASSUME ~sent PROVE UNCHANGED Transmitter!channel
  <2>1. /\ Sending' = Sending /\ tx'.done = tx.done
        /\ tx'.made = tx.made /\ tx'.replaced = tx.replaced
    BY <1>1, <1>3 DEF Moves, Sending, UartInv, Half
  <2> QED
    BY <2>1 DEF Transmitter!channel, Sending
<1>4. ASSUME got PROVE Receiver!HandOn
  <2>1. /\ OnLine = {line.input} /\ OnLine' = {} /\ rx'.done = Append(rx.done, line.input)
        /\ rx'.made = rx.made /\ rx'.replaced = rx.replaced
    BY <1>1, <1>4 DEF Moves, OnLine
  <2> QED
    BY <2>1 DEF Receiver!HandOn, OnLine
<1>5. ASSUME ~got PROVE UNCHANGED Receiver!channel
  <2>1. /\ OnLine' = OnLine /\ rx'.done = rx.done
        /\ rx'.made = rx.made /\ rx'.replaced = rx.replaced
    BY <1>1, <1>5 DEF Moves, OnLine, UartInv
  <2> QED
    BY <2>1 DEF Receiver!channel, OnLine
<1> QED
  BY <1>2, <1>3, <1>4, <1>5

(* A byte comes into one channel, whatever is on its way there, and leaves   *)
(* the other alone.                                                          *)
LEMMA BytesCome ==
  ASSUME UartInv
  PROVE  /\ WriteSBUF => Transmitter!Come /\ UNCHANGED Receiver!channel
         /\ Inject => Receiver!Come /\ UNCHANGED Transmitter!channel
<1>1. ASSUME WriteSBUF PROVE Transmitter!Come /\ UNCHANGED Receiver!channel
  <2>1. /\ uart'.sending = TRUE /\ uart'.out = tx.made + 1 /\ line' = line /\ rx' = rx
        /\ tx'.made = tx.made + 1 /\ tx'.done = tx.done
        /\ tx'.replaced = IF uart.sending THEN tx.replaced \cup {uart.out} ELSE tx.replaced
    BY <1>1 DEF WriteSBUF, UartInv, Half, Bytes
  <2>2. Sending' = {tx.made + 1} /\ tx'.replaced = tx.replaced \cup Sending
    BY <2>1 DEF Sending
  <2> QED
    BY <2>1, <2>2 DEF Transmitter!Come, Receiver!channel, Sending
<1>2. ASSUME Inject PROVE Receiver!Come /\ UNCHANGED Transmitter!channel
  <2>1. /\ line'.avail = TRUE /\ line'.input = rx.made + 1 /\ uart' = uart /\ tx' = tx
        /\ rx'.made = rx.made + 1 /\ rx'.done = rx.done
        /\ rx'.replaced = IF line.avail THEN rx.replaced \cup {line.input} ELSE rx.replaced
    BY <1>2 DEF Inject, UartInv, Bytes
  <2>2. OnLine' = {rx.made + 1} /\ rx'.replaced = rx.replaced \cup OnLine
    BY <2>1 DEF OnLine
  <2> QED
    BY <2>1, <2>2 DEF Receiver!Come, Transmitter!channel, OnLine
<1> QED
  BY <1>1, <1>2

(* A reset cuts the transmission off and keeps the byte on the line.         *)
LEMMA ResetCutsOff ==
  ASSUME UartInv, Reset
  PROVE  Transmitter!CutOff /\ UNCHANGED Receiver!channel
<1>1. /\ uart'.sending = FALSE /\ line' = line
      /\ tx'.made = tx.made /\ tx'.done = tx.done
      /\ tx'.replaced = IF uart.sending THEN tx.replaced \cup {uart.out} ELSE tx.replaced
      /\ rx'.made = rx.made /\ rx'.done = rx.done /\ rx'.replaced = rx.replaced
  BY DEF Reset, ResetUart, UartInv, Bytes
<1>2. Sending' = {} /\ tx'.replaced = tx.replaced \cup Sending
  BY <1>1 DEF Sending
<1> QED
  BY <1>1, <1>2 DEF Transmitter!CutOff, Receiver!channel, Sending

(* Every step of the UART is one of each channel or leaves it alone.         *)
LEMMA StepsOfChannels ==
  ASSUME UartInv, [Next]_vars
  PROVE  [Transmitter!Next]_(Transmitter!channel) /\ [Receiver!Next]_(Receiver!channel)
<1>1. CASE Tick
  BY <1>1, TickHandsOn DEF Transmitter!Next, Receiver!Next
<1>2. CASE WriteSBUF \/ Inject
  BY <1>2, BytesCome DEF Transmitter!Next, Receiver!Next
<1>3. CASE Reset
  BY <1>3, ResetCutsOff DEF Transmitter!Next
<1>4. CASE WriteSCON
  <2>1. PICK m \in Modes, ren \in BOOLEAN :
          Retime([uart EXCEPT !.mode = m, !.REN = ren, !.TI = FALSE, !.RI = FALSE])
    BY <1>4 DEF WriteSCON
  <2>2. SameWork(uart, [uart EXCEPT !.mode = m, !.REN = ren, !.TI = FALSE, !.RI = FALSE])
    BY DEF UartInv, Half, SameWork
  <2> QED
    BY <2>1, <2>2, RetimeStutters
<1>5. CASE WritePCON
  <2>1. PICK s \in BOOLEAN : Retime([uart EXCEPT !.SMOD = s])
    BY <1>5 DEF WritePCON
  <2>2. SameWork(uart, [uart EXCEPT !.SMOD = s])
    BY DEF UartInv, Half, SameWork
  <2> QED
    BY <2>1, <2>2, RetimeStutters
<1>6. CASE WriteBRT \/ WriteAUXR \/ UNCHANGED vars
  <2>1. UNCHANGED <<uart, line, tx, rx>>
    BY <1>6 DEF WriteBRT, WriteAUXR, vars
  <2> QED
    BY <2>1 DEF Transmitter!channel, Receiver!channel
<1> QED
  BY <1>1, <1>2, <1>3, <1>4, <1>5, <1>6 DEF Next

(* The transmitter of cl_serial and its receiver with the line implement two *)
(* channels of one byte: what is sent is what was written last, what SBUF    *)
(* gives is what was on the line when the frame ended, and nothing is cut    *)
(* off but by a later byte or, in the transmitter, a reset.                  *)
THEOREM ImplementsChannels == Spec => UartIsTwoChannels
<1>1. Init => Transmitter!Init /\ Receiver!Init
  BY DEF Init, ResetUart, Transmitter!Init, Receiver!Init
<1> QED
  BY <1>1, StartsAccounted, StaysAccounted, StepsOfChannels, PTL
  DEF Spec, UartIsTwoChannels, Transmitter!Spec, Receiver!Spec


-----------------------------------------------------------------------------
(* The numbers of a frame: its bits, the cycles or ticks of one, and the     *)
(* longest frame.                                                            *)
LEMMA Longer ==
  ASSUME NEW a \in Nat, NEW b \in Nat, NEW c \in Nat, NEW d \in Nat, a <= b, c <= d
  PROVE  a * c <= b * d
<1>1. a * c <= b * c
  <2>1. PICK e \in Nat : b = a + e
    <3>1. b - a \in Nat /\ b = a + (b - a)
      OBVIOUS
    <3> QED
      BY <3>1
  <2>2. b * c = a * c + e * c /\ e * c >= 0 /\ a * c \in Nat
    BY <2>1
  <2> QED
    BY <2>2
<1>2. b * c <= b * d
  <2>1. PICK e \in Nat : d = c + e
    <3>1. d - c \in Nat /\ d = c + (d - c)
      OBVIOUS
    <3> QED
      BY <3>1
  <2>2. b * d = b * c + b * e /\ b * e >= 0 /\ b * c \in Nat
    BY <2>1
  <2> QED
    BY <2>2
<1>3. a * c \in Nat /\ b * c \in Nat /\ b * d \in Nat
  OBVIOUS
<1> QED
  BY <1>1, <1>2, <1>3

LEMMA MaxOfFour ==
  ASSUME NEW f \in [0..3 -> Nat]
  PROVE  /\ Max({f[k] : k \in 0..3}) \in Nat
         /\ \A k \in 0..3 : f[k] <= Max({f[j] : j \in 0..3})
<1> DEFINE S == {f[k] : k \in 0..3}
<1>1. \A k \in 0..3 : f[k] \in Nat
  OBVIOUS
<1>2. \E m \in 0..3 : \A k \in 0..3 : f[k] <= f[m]
  <2>1. 0..3 = {0, 1, 2, 3}
    OBVIOUS
  <2> QED
    BY <1>1, <2>1
<1>3. \E x \in S : \A y \in S : x >= y
  BY <1>1, <1>2
<1>4. Max(S) \in S /\ \A y \in S : Max(S) >= y
  BY <1>3 DEF Max
<1> QED
  BY <1>1, <1>4

LEMMA FrameNumbers ==
  ASSUME NEW u \in Uart
  PROVE  /\ Bits(u) \in Nat \ {0} /\ DivBy(u) \in Nat \ {0} /\ Longest \in Nat
         /\ FrameTicks(u) \in Nat /\ FrameTicks(u) <= Longest
         /\ DivBy(u) <= FrameTicks(u)
<1> USE UartAssumption
<1>1. Bits(u) \in Nat \ {0} /\ DivBy(u) \in Nat \ {0} /\ u.mode \in 0..3
  BY DEF Bits, DivBy, Uart
<1> DEFINE M == Max({FrameBits[k] : k \in 0..3})
           D == Max({FixedDiv, SlowDiv, FastDiv})
<1>2. M \in Nat /\ Bits(u) <= M
  <2>1. FrameBits \in [0..3 -> Nat]
    OBVIOUS
  <2> QED
    BY <2>1, <1>1, MaxOfFour DEF Bits
<1>3. D \in Nat /\ DivBy(u) <= D
  <2>1. {FixedDiv, SlowDiv, FastDiv} \subseteq Nat
    OBVIOUS
  <2>2. \E x \in {FixedDiv, SlowDiv, FastDiv} : \A y \in {FixedDiv, SlowDiv, FastDiv} : x >= y
    BY <2>1
  <2>3. D \in {FixedDiv, SlowDiv, FastDiv} /\ \A y \in {FixedDiv, SlowDiv, FastDiv} : D >= y
    BY <2>2 DEF Max
  <2> QED
    BY <2>1, <2>3 DEF DivBy
<1>4. Longest = M * D
  BY DEF Longest
<1> HIDE DEF M, D
<1>5. FrameTicks(u) = Bits(u) * DivBy(u)
  BY DEF FrameTicks
<1>6. Bits(u) * DivBy(u) <= M * D /\ M * D \in Nat /\ Bits(u) * DivBy(u) \in Nat
  BY <1>1, <1>2, <1>3, Longer
<1>7. 1 * DivBy(u) <= Bits(u) * DivBy(u)
  BY <1>1, Longer
<1> QED
  BY <1>1, <1>4, <1>5, <1>6, <1>7

LEMMA PlusCounts ==
  ASSUME NEW n \in Nat, NEW k \in Nat, Longest \in Nat
  PROVE  /\ Plus(n, k) \in 0..Longest
         /\ n + k <= Longest => Plus(n, k) = n + k
<1> DEFINE S == {n + k, Longest}
<1>1. S \subseteq Nat /\ \E x \in S : \A y \in S : x <= y
  OBVIOUS
<1>2. Min(S) \in S /\ \A y \in S : Min(S) <= y
  BY <1>1 DEF Min
<1> QED
  BY <1>1, <1>2 DEF Plus

(* A bit takes DivBy(u) of the clock.                                        *)
LEMMA OneBit ==
  ASSUME NEW c \in Nat, NEW d \in Nat \ {0}
  PROVE  /\ c \div d \in Nat /\ c % d \in Nat /\ c % d < d
         /\ c < d => c \div d = 0 /\ c % d = c
         /\ c = d => c \div d = 1 /\ c % d = 0
<1>1. c \div d \in Int /\ c \div d >= 0 /\ c % d \in 0..(d - 1)
  OBVIOUS
<1>2. c < d => c \div d = 0 /\ c % d = c
  OBVIOUS
<1>3. c = d => c \div d = 1 /\ c % d = 0
  OBVIOUS
<1> QED
  BY <1>1, <1>2, <1>3

-----------------------------------------------------------------------------
(* What the stages of a cycle leave alone.                                   *)
SameRate(u, v) == v.mode = u.mode /\ v.SMOD = u.SMOD

SameSender(u, v) ==
  v.sending = u.sending /\ v.tr_bit = u.tr_bit /\ v.tr_t1 = u.tr_t1 /\ v.tr_tick = u.tr_tick

SameReceiver(u, v) ==
  v.receiving = u.receiving /\ v.rec_bit = u.rec_bit /\ v.rec_t1 = u.rec_t1 /\ v.rec_tick = u.rec_tick

LEMMA RateFixes ==
  ASSUME NEW u, NEW v, SameRate(u, v)
  PROVE  Bits(v) = Bits(u) /\ DivBy(v) = DivBy(u) /\ Timed(v) = Timed(u)
BY DEF SameRate, Bits, DivBy, Timed

LEMMA TimersCount ==
  ASSUME NEW u \in Uart, NEW n \in Nat, NEW v, v = Happen(u, n)
  PROVE  /\ v \in Uart /\ SameRate(u, v) /\ v.sending = u.sending /\ v.receiving = u.receiving
         /\ v.out = u.out /\ v.tr_bit = u.tr_bit /\ v.rec_bit = u.rec_bit
         /\ v.tr_tick = u.tr_tick /\ v.rec_tick = u.rec_tick
         /\ v.tr_t1 = IF u.sending THEN Plus(u.tr_t1, n) ELSE u.tr_t1
         /\ v.rec_t1 = IF u.receiving THEN Plus(u.rec_t1, n) ELSE u.rec_t1
<1>1. Longest \in Nat
  BY FrameNumbers
<1>2. u.tr_t1 \in Nat /\ u.rec_t1 \in Nat
  BY DEF Uart
<1>3. Plus(u.tr_t1, n) \in 0..Longest /\ Plus(u.rec_t1, n) \in 0..Longest
  BY <1>1, <1>2, PlusCounts
<1> QED
  BY <1>3 DEF Happen, Uart, SameRate

LEMMA CyclesCount ==
  ASSUME NEW u \in Uart, NEW v, v = SerialTicks(u)
  PROVE  /\ v \in Uart /\ SameRate(u, v) /\ v.sending = u.sending /\ v.receiving = u.receiving
         /\ v.out = u.out /\ v.tr_bit = u.tr_bit /\ v.rec_bit = u.rec_bit
         /\ v.tr_t1 = u.tr_t1 /\ v.rec_t1 = u.rec_t1
         /\ v.tr_tick = IF u.sending THEN Plus(u.tr_tick, 1) ELSE u.tr_tick
         /\ v.rec_tick = IF u.receiving THEN Plus(u.rec_tick, 1) ELSE u.rec_tick
<1>1. Longest \in Nat
  BY FrameNumbers
<1>2. u.tr_tick \in Nat /\ u.rec_tick \in Nat
  BY DEF Uart
<1>3. Plus(u.tr_tick, 1) \in 0..Longest /\ Plus(u.rec_tick, 1) \in 0..Longest
  BY <1>1, <1>2, PlusCounts
<1> QED
  BY <1>3 DEF SerialTicks, Uart, SameRate


-----------------------------------------------------------------------------
(* The clock of a half, and a frame whose bits and clock make up the ticks   *)
(* that the history has counted.                                             *)
TxClock(u) == IF Timed(u) THEN u.tr_t1 ELSE u.tr_tick

RxClock(u) == IF Timed(u) THEN u.rec_t1 ELSE u.rec_tick

TxOnTime(u, t) ==
  /\ u.tr_bit < Bits(u) /\ TxClock(u) <= DivBy(u)
  /\ t = u.tr_bit * DivBy(u) + TxClock(u)

RxOnTime(u, t) ==
  /\ u.rec_bit < Bits(u) /\ RxClock(u) <= DivBy(u)
  /\ t = u.rec_bit * DivBy(u) + RxClock(u)

(* A frame on time is never longer than FrameTicks(u).                       *)
LEMMA OnTimeBound ==
  ASSUME NEW b \in Nat, NEW n \in Nat, NEW c \in Nat, NEW d \in Nat, b < n, c <= d
  PROVE  b * d + c <= n * d /\ b * d + c \in Nat
<1>1. (b + 1) * d <= n * d
  <2>1. b + 1 \in Nat /\ b + 1 <= n
    OBVIOUS
  <2> QED
    BY <2>1, Longer
<1>2. (b + 1) * d = b * d + d /\ b * d \in Nat /\ n * d \in Nat
  OBVIOUS
<1> QED
  BY <1>1, <1>2

LEMMA LeastOfTwo ==
  ASSUME NEW a \in Nat, NEW b \in Nat
  PROVE  Min({a, b}) = IF a <= b THEN a ELSE b
<1>1. \E x \in {a, b} : \A y \in {a, b} : x <= y
  OBVIOUS
<1>2. Min({a, b}) \in {a, b} /\ \A y \in {a, b} : Min({a, b}) <= y
  BY <1>1 DEF Min
<1> QED
  BY <1>2

LEMMA SenderMoves ==
  ASSUME NEW u \in Uart, NEW v, v = SendBits(u)
  PROVE  /\ v \in Uart /\ SameRate(u, v) /\ SameReceiver(u, v)
         /\ v.sending = u.sending /\ v.out = u.out
         /\ u.sending /\ u.tr_bit < Bits(u) /\ TxClock(u) <= DivBy(u) =>
              /\ v.tr_bit <= Bits(u) /\ TxClock(v) < DivBy(u)
              /\ v.tr_bit = Bits(u) => TxClock(v) = 0
              /\ v.tr_bit * DivBy(u) + TxClock(v) = u.tr_bit * DivBy(u) + TxClock(u)
<1> DEFINE c == TxClock(u)
           d == DivBy(u)
           bits == IF u.tr_bit < Bits(u) THEN Min({u.tr_bit + c \div d, Bits(u)}) ELSE u.tr_bit
<1>1. /\ Bits(u) \in Nat \ {0} /\ d \in Nat \ {0} /\ Longest \in Nat /\ d <= Longest
      /\ u.tr_bit \in Nat /\ c \in Nat /\ u.sending \in BOOLEAN
  <2>1. c \in Nat /\ u.tr_bit \in Nat /\ u.sending \in BOOLEAN
    BY DEF Uart, TxClock
  <2> QED
    BY <2>1, FrameNumbers
<1>2. v = IF ~u.sending THEN u
          ELSE IF Timed(u) THEN [[u EXCEPT !.tr_bit = bits] EXCEPT !.tr_t1 = c % d]
          ELSE [[u EXCEPT !.tr_bit = bits] EXCEPT !.tr_tick = c % d]
  BY DEF SendBits, TxClock
<1>3. /\ c \div d \in Nat /\ c % d \in Nat /\ c % d < d
      /\ c < d => c \div d = 0 /\ c % d = c
      /\ c = d => c \div d = 1 /\ c % d = 0
  <2> HIDE DEF c, d
  <2> QED
    BY <1>1, OneBit
<1>4. /\ bits \in Nat
      /\ u.tr_bit < Bits(u) => bits = IF u.tr_bit + c \div d <= Bits(u) THEN u.tr_bit + c \div d ELSE Bits(u)
  <2> DEFINE k == c \div d
  <2>1. k \in Nat
    BY <1>3
  <2> HIDE DEF k
  <2>2. Min({u.tr_bit + k, Bits(u)}) = IF u.tr_bit + k <= Bits(u) THEN u.tr_bit + k ELSE Bits(u)
    <3>1. u.tr_bit + k \in Nat /\ Bits(u) \in Nat
      BY <1>1, <2>1
    <3> QED
      BY <3>1, LeastOfTwo
  <2> QED
    BY <1>1, <2>1, <2>2 DEF k
<1>5. c % d \in 0..Longest
  BY <1>1, <1>3
<1>6. ASSUME u.sending, u.tr_bit < Bits(u), c <= d
      PROVE  /\ bits <= Bits(u) /\ c % d < d /\ (bits = Bits(u) => c % d = 0)
             /\ bits * d + (c % d) = u.tr_bit * d + c
  <2> HIDE DEF bits, c, d
  <2>1. CASE c < d
    BY <2>1, <1>1, <1>3, <1>4, <1>6
  <2>2. CASE c = d
    <3>1. bits = u.tr_bit + 1 /\ c % d = 0
      BY <2>2, <1>1, <1>3, <1>4, <1>6
    <3>2. (u.tr_bit + 1) * d = u.tr_bit * d + d
      BY <1>1
    <3> QED
      BY <3>1, <3>2, <2>2, <1>1, <1>6
  <2> QED
    BY <2>1, <2>2, <1>1, <1>6
<1> DEFINE r == c % d
           t == TxClock(v)
<1> HIDE DEF bits, r
<1>7. /\ v \in Uart /\ SameRate(u, v) /\ SameReceiver(u, v) /\ v.sending = u.sending /\ v.out = u.out
      /\ u.sending => v.tr_bit = bits /\ TxClock(v) = r
  <2>1. CASE ~u.sending
    BY <2>1, <1>2 DEF SameRate, SameReceiver
  <2>2. CASE u.sending /\ Timed(u)
    <3>1. v = [[u EXCEPT !.tr_bit = bits] EXCEPT !.tr_t1 = r]
      BY <2>2, <1>2 DEF r
    <3>2. bits \in Nat /\ r \in 0..Longest
      BY <1>4, <1>5 DEF r
    <3>3. v \in Uart /\ v.tr_t1 = r /\ v.tr_bit = bits /\ v.mode = u.mode
      BY <3>1, <3>2 DEF Uart
    <3>4. SameRate(u, v) /\ SameReceiver(u, v) /\ v.sending = u.sending /\ v.out = u.out
      BY <3>1 DEF Uart, SameRate, SameReceiver
    <3> QED
      BY <2>2, <3>3, <3>4 DEF TxClock, Timed
  <2>3. CASE u.sending /\ ~Timed(u)
    <3>1. v = [[u EXCEPT !.tr_bit = bits] EXCEPT !.tr_tick = r]
      BY <2>3, <1>2 DEF r
    <3>2. bits \in Nat /\ r \in 0..Longest
      BY <1>4, <1>5 DEF r
    <3>3. v \in Uart /\ v.tr_tick = r /\ v.tr_bit = bits /\ v.mode = u.mode
      BY <3>1, <3>2 DEF Uart
    <3>4. SameRate(u, v) /\ SameReceiver(u, v) /\ v.sending = u.sending /\ v.out = u.out
      BY <3>1 DEF Uart, SameRate, SameReceiver
    <3> QED
      BY <2>3, <3>3, <3>4 DEF TxClock, Timed
  <2> QED
    BY <2>1, <2>2, <2>3
<1>8. ASSUME u.sending, u.tr_bit < Bits(u), c <= d
      PROVE  /\ v.tr_bit <= Bits(u) /\ t < d /\ (v.tr_bit = Bits(u) => t = 0)
             /\ v.tr_bit * d + t = u.tr_bit * d + c
  BY <1>6, <1>7, <1>8 DEF r
<1> QED
  BY <1>7, <1>8

LEMMA ReceiverMoves ==
  ASSUME NEW u \in Uart, NEW v, v = ReceiveBits(u)
  PROVE  /\ v \in Uart /\ SameRate(u, v) /\ SameSender(u, v)
         /\ v.receiving = u.receiving /\ v.out = u.out
         /\ u.receiving /\ u.rec_bit < Bits(u) /\ RxClock(u) <= DivBy(u) =>
              /\ v.rec_bit <= Bits(u) /\ RxClock(v) < DivBy(u)
              /\ v.rec_bit = Bits(u) => RxClock(v) = 0
              /\ v.rec_bit * DivBy(u) + RxClock(v) = u.rec_bit * DivBy(u) + RxClock(u)
<1> DEFINE c == RxClock(u)
           d == DivBy(u)
           bits == u.rec_bit + c \div d
<1>1. /\ Bits(u) \in Nat \ {0} /\ d \in Nat \ {0} /\ Longest \in Nat /\ d <= Longest
      /\ u.rec_bit \in Nat /\ c \in Nat /\ u.receiving \in BOOLEAN
  <2>1. c \in Nat /\ u.rec_bit \in Nat /\ u.receiving \in BOOLEAN
    BY DEF Uart, RxClock
  <2> QED
    BY <2>1, FrameNumbers
<1>2. v = IF ~u.receiving THEN u
          ELSE IF Timed(u) THEN [[u EXCEPT !.rec_bit = bits] EXCEPT !.rec_t1 = c % d]
          ELSE [[u EXCEPT !.rec_bit = bits] EXCEPT !.rec_tick = c % d]
  BY DEF ReceiveBits, RxClock
<1>3. /\ c \div d \in Nat /\ c % d \in Nat /\ c % d < d
      /\ c < d => c \div d = 0 /\ c % d = c
      /\ c = d => c \div d = 1 /\ c % d = 0
  <2> HIDE DEF c, d
  <2> QED
    BY <1>1, OneBit
<1>4. bits \in Nat
  BY <1>1, <1>3
<1>5. c % d \in 0..Longest
  BY <1>1, <1>3
<1>6. ASSUME u.receiving, u.rec_bit < Bits(u), c <= d
      PROVE  /\ bits <= Bits(u) /\ c % d < d /\ (bits = Bits(u) => c % d = 0)
             /\ bits * d + (c % d) = u.rec_bit * d + c
  <2> HIDE DEF c, d
  <2>1. CASE c < d
    BY <2>1, <1>1, <1>3, <1>6
  <2>2. CASE c = d
    <3>1. bits = u.rec_bit + 1 /\ c % d = 0
      BY <2>2, <1>1, <1>3, <1>6
    <3>2. (u.rec_bit + 1) * d = u.rec_bit * d + d
      BY <1>1
    <3> HIDE DEF bits
    <3> QED
      BY <3>1, <3>2, <2>2, <1>1, <1>6
  <2> QED
    BY <2>1, <2>2, <1>1, <1>6
<1> DEFINE r == c % d
           t == RxClock(v)
<1> HIDE DEF bits, r
<1>7. /\ v \in Uart /\ SameRate(u, v) /\ SameSender(u, v) /\ v.receiving = u.receiving /\ v.out = u.out
      /\ u.receiving => v.rec_bit = bits /\ RxClock(v) = r
  <2>1. CASE ~u.receiving
    BY <2>1, <1>2 DEF SameRate, SameSender
  <2>2. CASE u.receiving /\ Timed(u)
    <3>1. v = [[u EXCEPT !.rec_bit = bits] EXCEPT !.rec_t1 = r]
      BY <2>2, <1>2 DEF r
    <3>2. bits \in Nat /\ r \in 0..Longest
      BY <1>4, <1>5 DEF r
    <3>3. v \in Uart /\ v.rec_t1 = r /\ v.rec_bit = bits /\ v.mode = u.mode
      BY <3>1, <3>2 DEF Uart
    <3>4. SameRate(u, v) /\ SameSender(u, v) /\ v.receiving = u.receiving /\ v.out = u.out
      BY <3>1 DEF Uart, SameRate, SameSender
    <3> QED
      BY <2>2, <3>3, <3>4 DEF RxClock, Timed
  <2>3. CASE u.receiving /\ ~Timed(u)
    <3>1. v = [[u EXCEPT !.rec_bit = bits] EXCEPT !.rec_tick = r]
      BY <2>3, <1>2 DEF r
    <3>2. bits \in Nat /\ r \in 0..Longest
      BY <1>4, <1>5 DEF r
    <3>3. v \in Uart /\ v.rec_tick = r /\ v.rec_bit = bits /\ v.mode = u.mode
      BY <3>1, <3>2 DEF Uart
    <3>4. SameRate(u, v) /\ SameSender(u, v) /\ v.receiving = u.receiving /\ v.out = u.out
      BY <3>1 DEF Uart, SameRate, SameSender
    <3> QED
      BY <2>3, <3>3, <3>4 DEF RxClock, Timed
  <2> QED
    BY <2>1, <2>2, <2>3
<1>8. ASSUME u.receiving, u.rec_bit < Bits(u), c <= d
      PROVE  /\ v.rec_bit <= Bits(u) /\ t < d /\ (v.rec_bit = Bits(u) => t = 0)
             /\ v.rec_bit * d + t = u.rec_bit * d + c
  BY <1>6, <1>7, <1>8 DEF r
<1> QED
  BY <1>7, <1>8


LEMMA FramesStartAndEnd ==
  ASSUME NEW u \in Uart, NEW l, l.input \in 0..MaxInjects
  PROVE  /\ FinishSending(u) \in Uart /\ SameRate(u, FinishSending(u))
         /\ SameReceiver(u, FinishSending(u)) /\ FinishSending(u).out = u.out
         /\ ~Sent(u) => FinishSending(u) = u
         /\ Sent(u) => ~FinishSending(u).sending
         /\ StartReceiving(u, l) \in Uart /\ SameRate(u, StartReceiving(u, l))
         /\ SameSender(u, StartReceiving(u, l)) /\ StartReceiving(u, l).out = u.out
         /\ u.receiving => StartReceiving(u, l) = u
         /\ StartReceiving(u, l).receiving /\ ~u.receiving =>
              /\ l.avail /\ StartReceiving(u, l).rec_bit = 0
              /\ StartReceiving(u, l).rec_t1 = 0 /\ StartReceiving(u, l).rec_tick = 0
         /\ FinishReceiving(u, l) \in Uart /\ SameRate(u, FinishReceiving(u, l))
         /\ SameSender(u, FinishReceiving(u, l)) /\ FinishReceiving(u, l).out = u.out
         /\ ~Received(u) => FinishReceiving(u, l) = u
         /\ Received(u) => ~FinishReceiving(u, l).receiving
<1>1. Bits(u) \in Nat \ {0} /\ Longest \in Nat /\ 0 \in 0..Longest
  BY FrameNumbers
<1>2. /\ FinishSending(u) \in Uart /\ SameRate(u, FinishSending(u))
      /\ SameReceiver(u, FinishSending(u)) /\ FinishSending(u).out = u.out
      /\ ~Sent(u) => FinishSending(u) = u
      /\ Sent(u) => ~FinishSending(u).sending
  <2>1. CASE Sent(u)
    <3>1. u.tr_bit - Bits(u) \in Nat
      BY <2>1, <1>1 DEF Sent, Uart
    <3>2. FinishSending(u) = [u EXCEPT !.sending = FALSE, !.TI = TRUE, !.tr_bit = u.tr_bit - Bits(u)]
      BY <2>1 DEF FinishSending
    <3> QED
      BY <2>1, <3>1, <3>2 DEF Uart, SameRate, SameReceiver
  <2>2. CASE ~Sent(u)
    BY <2>2 DEF FinishSending, SameRate, SameReceiver
  <2> QED
    BY <2>1, <2>2
<1>3. /\ StartReceiving(u, l) \in Uart /\ SameRate(u, StartReceiving(u, l))
      /\ SameSender(u, StartReceiving(u, l)) /\ StartReceiving(u, l).out = u.out
      /\ u.receiving => StartReceiving(u, l) = u
      /\ StartReceiving(u, l).receiving /\ ~u.receiving =>
           /\ l.avail /\ StartReceiving(u, l).rec_bit = 0
           /\ StartReceiving(u, l).rec_t1 = 0 /\ StartReceiving(u, l).rec_tick = 0
  BY <1>1 DEF StartReceiving, Uart, SameRate, SameSender
<1>4. /\ FinishReceiving(u, l) \in Uart /\ SameRate(u, FinishReceiving(u, l))
      /\ SameSender(u, FinishReceiving(u, l)) /\ FinishReceiving(u, l).out = u.out
      /\ ~Received(u) => FinishReceiving(u, l) = u
      /\ Received(u) => ~FinishReceiving(u, l).receiving
  <2>1. CASE Received(u)
    <3>1. u.rec_bit - Bits(u) \in Nat
      BY <2>1, <1>1 DEF Received, Uart
    <3>2. FinishReceiving(u, l) = [u EXCEPT !.receiving = FALSE, !.RI = TRUE, !.s_in = l.input,
                                            !.rec_bit = u.rec_bit - Bits(u)]
      BY <2>1 DEF FinishReceiving
    <3> QED
      BY <2>1, <3>1, <3>2 DEF Uart, SameRate, SameSender
  <2>2. CASE ~Received(u)
    BY <2>2 DEF FinishReceiving, SameRate, SameSender
  <2> QED
    BY <2>1, <2>2
<1> QED
  BY <1>2, <1>3, <1>4

(* The UART of these parts is no partner of Timer 1.                         *)
LEMMA BrtAloneClocks ==
  FromTimer1(brt) = 0 /\ FromBrt(brt) \in 0..1
BY DEF FromTimer1, FromBrt, Partners

(* A cycle: the sender and the receiver are moved by one clock each, and     *)
(* neither looks at the other.                                               *)
Cycle(moved, v) ==
  /\ SameRate(uart, moved) /\ SameRate(uart, v) /\ SameRate(uart, uart') /\ uart' \in Uart
  /\ moved.out = uart.out /\ uart'.out = uart.out
  /\ moved.sending = uart.sending /\ moved.receiving = uart.receiving
  /\ uart.sending /\ uart.tr_bit < Bits(uart) /\ TxClock(uart) <= DivBy(uart) =>
       /\ moved.tr_bit <= Bits(uart) /\ TxClock(moved) < DivBy(uart)
       /\ moved.tr_bit = Bits(uart) => TxClock(moved) = 0
       /\ moved.tr_bit * DivBy(uart) + TxClock(moved) = uart.tr_bit * DivBy(uart) + TxClock(uart)
  /\ uart.receiving /\ uart.rec_bit < Bits(uart) /\ RxClock(uart) <= DivBy(uart) =>
       /\ moved.rec_bit <= Bits(uart) /\ RxClock(moved) < DivBy(uart)
       /\ moved.rec_bit = Bits(uart) => RxClock(moved) = 0
       /\ moved.rec_bit * DivBy(uart) + RxClock(moved) = uart.rec_bit * DivBy(uart) + RxClock(uart)
  /\ ~Sent(moved) => /\ uart'.tr_bit = moved.tr_bit
                     /\ uart'.sending => TxClock(uart') = Plus(TxClock(moved), FrameClock(uart, brt))
  /\ Sent(moved) => ~uart'.sending
  /\ uart'.sending => uart.sending
  /\ v.receiving /\ ~uart.receiving => line.avail /\ v.rec_bit = 0 /\ RxClock(v) = 0
  /\ uart.receiving => v.receiving /\ v.rec_bit = moved.rec_bit /\ RxClock(v) = RxClock(moved)
  /\ ~Received(v) => /\ uart'.rec_bit = v.rec_bit /\ uart'.receiving = v.receiving
                     /\ uart'.receiving => RxClock(uart') = Plus(RxClock(v), FrameClock(uart, brt))
  /\ Received(v) => ~uart'.receiving
  /\ line' = ClearLine(v, line) /\ brt' = BrtTick(brt)
  /\ tx' = [tx EXCEPT !.done = IF Sent(moved) THEN Append(@, moved.out) ELSE @,
                      !.ticks = IF Sent(moved) THEN -1 ELSE Elapsed(tx, moved, brt)]
  /\ rx' = [rx EXCEPT !.done = IF Received(v) THEN Append(@, line.input) ELSE @,
                      !.ticks = IF Received(v) THEN -1
                                ELSE IF v.receiving /\ ~moved.receiving
                                THEN FrameClock(v, brt)
                                ELSE Elapsed(rx, v, brt)]

LEMMA TickSteps ==
  ASSUME UartTypeOK, Tick
  PROVE  \E moved, v \in Uart : Cycle(moved, v)
<1>1. PICK moved \in {ReceiveBits(SendBits(Happen(uart, FromTimer1(brt))))} :
      \E v \in {StartReceiving(FinishSending(moved), line)} :
        /\ uart' = Happen(SerialTicks(FinishReceiving(v, line)), FromBrt(brt))
        /\ line' = ClearLine(v, line)
        /\ brt' = BrtTick(brt)
        /\ tx' = [tx EXCEPT !.done = IF Sent(moved) THEN Append(@, moved.out) ELSE @,
                            !.ticks = IF Sent(moved) THEN -1 ELSE Elapsed(tx, moved, brt)]
        /\ rx' = [rx EXCEPT !.done = IF Received(v) THEN Append(@, FinishReceiving(v, line).s_in) ELSE @,
                            !.ticks = IF Received(v) THEN -1
                                      ELSE IF v.receiving /\ ~moved.receiving
                                      THEN FrameClock(v, brt)
                                      ELSE Elapsed(rx, v, brt)]
  BY DEF Tick
<1>2. PICK v \in {StartReceiving(FinishSending(moved), line)} :
        /\ uart' = Happen(SerialTicks(FinishReceiving(v, line)), FromBrt(brt))
        /\ line' = ClearLine(v, line)
        /\ brt' = BrtTick(brt)
        /\ tx' = [tx EXCEPT !.done = IF Sent(moved) THEN Append(@, moved.out) ELSE @,
                            !.ticks = IF Sent(moved) THEN -1 ELSE Elapsed(tx, moved, brt)]
        /\ rx' = [rx EXCEPT !.done = IF Received(v) THEN Append(@, FinishReceiving(v, line).s_in) ELSE @,
                            !.ticks = IF Received(v) THEN -1
                                      ELSE IF v.receiving /\ ~moved.receiving
                                      THEN FrameClock(v, brt)
                                      ELSE Elapsed(rx, v, brt)]
  BY <1>1
<1>0. uart \in Uart /\ line.input \in 0..MaxInjects
  BY DEF UartTypeOK
<1> DEFINE h == Happen(uart, FromTimer1(brt))
           s == SendBits(h)
           f == FinishSending(moved)
           w == FinishReceiving(v, line)
           x == SerialTicks(w)
<1>3. /\ h \in Uart /\ SameRate(uart, h) /\ h.out = uart.out
      /\ SameSender(uart, h) /\ SameReceiver(uart, h)
  <2> HIDE DEF h
  <2>1. h = Happen(uart, 0)
    BY BrtAloneClocks DEF h
  <2>2. /\ h \in Uart /\ SameRate(uart, h) /\ h.sending = uart.sending /\ h.receiving = uart.receiving
        /\ h.out = uart.out /\ h.tr_bit = uart.tr_bit /\ h.rec_bit = uart.rec_bit
        /\ h.tr_tick = uart.tr_tick /\ h.rec_tick = uart.rec_tick
        /\ h.tr_t1 = IF uart.sending THEN Plus(uart.tr_t1, 0) ELSE uart.tr_t1
        /\ h.rec_t1 = IF uart.receiving THEN Plus(uart.rec_t1, 0) ELSE uart.rec_t1
    BY <1>0, <2>1, TimersCount
  <2>3. Plus(uart.tr_t1, 0) = uart.tr_t1 /\ Plus(uart.rec_t1, 0) = uart.rec_t1
    <3>1. Longest \in Nat /\ uart.tr_t1 \in 0..Longest /\ uart.rec_t1 \in 0..Longest
      BY <1>0, FrameNumbers DEF Uart
    <3>2. /\ uart.tr_t1 \in Nat /\ uart.tr_t1 + 0 <= Longest /\ uart.tr_t1 + 0 = uart.tr_t1
          /\ uart.rec_t1 \in Nat /\ uart.rec_t1 + 0 <= Longest /\ uart.rec_t1 + 0 = uart.rec_t1
      BY <3>1
    <3>3. 0 \in Nat
      OBVIOUS
    <3>4. Plus(uart.tr_t1, 0) = uart.tr_t1
      BY <3>1, <3>2, <3>3, PlusCounts
    <3>5. Plus(uart.rec_t1, 0) = uart.rec_t1
      BY <3>1, <3>2, <3>3, PlusCounts
    <3> QED
      BY <3>4, <3>5
  <2> QED
    BY <2>2, <2>3 DEF SameSender, SameReceiver
<1> HIDE DEF h
<1>4. /\ s \in Uart /\ SameRate(h, s) /\ SameReceiver(h, s)
      /\ s.sending = h.sending /\ s.out = h.out
      /\ h.sending /\ h.tr_bit < Bits(h) /\ TxClock(h) <= DivBy(h) =>
           /\ s.tr_bit <= Bits(h) /\ TxClock(s) < DivBy(h)
           /\ s.tr_bit = Bits(h) => TxClock(s) = 0
           /\ s.tr_bit * DivBy(h) + TxClock(s) = h.tr_bit * DivBy(h) + TxClock(h)
  BY <1>3, SenderMoves
<1>5. moved = ReceiveBits(s)
  BY <1>1 DEF h
<1> HIDE DEF s
<1>6. /\ moved \in Uart /\ SameRate(s, moved) /\ SameSender(s, moved)
      /\ moved.receiving = s.receiving /\ moved.out = s.out
      /\ s.receiving /\ s.rec_bit < Bits(s) /\ RxClock(s) <= DivBy(s) =>
           /\ moved.rec_bit <= Bits(s) /\ RxClock(moved) < DivBy(s)
           /\ moved.rec_bit = Bits(s) => RxClock(moved) = 0
           /\ moved.rec_bit * DivBy(s) + RxClock(moved) = s.rec_bit * DivBy(s) + RxClock(s)
  BY <1>4, <1>5, ReceiverMoves
<1>7. /\ f \in Uart /\ SameRate(moved, f) /\ SameReceiver(moved, f) /\ f.out = moved.out
      /\ ~Sent(moved) => f = moved
      /\ Sent(moved) => ~f.sending
  BY <1>0, <1>6, FramesStartAndEnd
<1> HIDE DEF f
<1>8. /\ v \in Uart /\ SameRate(f, v) /\ SameSender(f, v) /\ v.out = f.out
      /\ f.receiving => v = f
      /\ v.receiving /\ ~f.receiving => line.avail /\ v.rec_bit = 0 /\ v.rec_t1 = 0 /\ v.rec_tick = 0
  <2>1. v = StartReceiving(f, line)
    BY <1>2 DEF f
  <2> QED
    BY <2>1, <1>0, <1>7, FramesStartAndEnd, SMTT(60)
<1>9. /\ w \in Uart /\ SameRate(v, w) /\ SameSender(v, w) /\ w.out = v.out
      /\ ~Received(v) => w = v
      /\ Received(v) => ~w.receiving
  BY <1>0, <1>8, FramesStartAndEnd
<1> HIDE DEF w
<1>10. /\ x \in Uart /\ SameRate(w, x) /\ x.sending = w.sending /\ x.receiving = w.receiving
       /\ x.out = w.out /\ x.tr_bit = w.tr_bit /\ x.rec_bit = w.rec_bit
       /\ x.tr_t1 = w.tr_t1 /\ x.rec_t1 = w.rec_t1
       /\ x.tr_tick = IF w.sending THEN Plus(w.tr_tick, 1) ELSE w.tr_tick
       /\ x.rec_tick = IF w.receiving THEN Plus(w.rec_tick, 1) ELSE w.rec_tick
  BY <1>9, CyclesCount
<1>11. /\ uart' \in Uart /\ SameRate(x, uart')
       /\ uart'.sending = x.sending /\ uart'.receiving = x.receiving
       /\ uart'.out = x.out /\ uart'.tr_bit = x.tr_bit /\ uart'.rec_bit = x.rec_bit
       /\ uart'.tr_tick = x.tr_tick /\ uart'.rec_tick = x.rec_tick
       /\ uart'.tr_t1 = IF x.sending THEN Plus(x.tr_t1, FromBrt(brt)) ELSE x.tr_t1
       /\ uart'.rec_t1 = IF x.receiving THEN Plus(x.rec_t1, FromBrt(brt)) ELSE x.rec_t1
  <2> DEFINE n == FromBrt(brt)
  <2>1. n \in Nat
    BY BrtAloneClocks
  <2>2. uart' = Happen(x, n)
    BY <1>2 DEF w
  <2> HIDE DEF x, n
  <2>3. /\ uart' \in Uart /\ SameRate(x, uart')
        /\ uart'.sending = x.sending /\ uart'.receiving = x.receiving
        /\ uart'.out = x.out /\ uart'.tr_bit = x.tr_bit /\ uart'.rec_bit = x.rec_bit
        /\ uart'.tr_tick = x.tr_tick /\ uart'.rec_tick = x.rec_tick
        /\ uart'.tr_t1 = IF x.sending THEN Plus(x.tr_t1, n) ELSE x.tr_t1
        /\ uart'.rec_t1 = IF x.receiving THEN Plus(x.rec_t1, n) ELSE x.rec_t1
    BY <1>10, <2>1, <2>2, TimersCount
  <2> QED
    BY <2>3 DEF n
<1> HIDE DEF x
<1>12. /\ SameRate(uart, moved) /\ SameRate(uart, v) /\ SameRate(uart, uart')
       /\ SameRate(uart, s) /\ SameRate(uart, h) /\ SameRate(uart, w) /\ SameRate(uart, x)
  BY <1>3, <1>4, <1>6, <1>7, <1>8, <1>9, <1>10, <1>11 DEF SameRate
<1>13. /\ Bits(h) = Bits(uart) /\ DivBy(h) = DivBy(uart) /\ Timed(h) = Timed(uart)
       /\ Bits(s) = Bits(uart) /\ DivBy(s) = DivBy(uart) /\ Timed(s) = Timed(uart)
       /\ Timed(moved) = Timed(uart) /\ Timed(v) = Timed(uart) /\ Timed(uart') = Timed(uart)
       /\ Timed(w) = Timed(uart)
  BY <1>12, RateFixes
<1>14. FrameClock(uart, brt) = IF Timed(uart) THEN FromBrt(brt) ELSE 1
  BY BrtAloneClocks DEF FrameClock
<1>15. /\ TxClock(h) = TxClock(uart) /\ TxClock(moved) = TxClock(s)
       /\ RxClock(s) = RxClock(uart)
  BY <1>3, <1>4, <1>6, <1>13 DEF TxClock, RxClock, SameSender, SameReceiver
<1>16. ~Sent(moved) => /\ uart'.tr_bit = moved.tr_bit
                       /\ uart'.sending => TxClock(uart') = Plus(TxClock(moved), FrameClock(uart, brt))
  <2> SUFFICES ASSUME ~Sent(moved)
               PROVE  /\ uart'.tr_bit = moved.tr_bit
                      /\ uart'.sending => TxClock(uart') = Plus(TxClock(moved), FrameClock(uart, brt))
    OBVIOUS
  <2>1. SameSender(moved, w)
    BY <1>7, <1>8, <1>9 DEF SameSender
  <2>2. uart'.tr_bit = moved.tr_bit /\ x.sending = uart'.sending /\ w.sending = x.sending
    BY <2>1, <1>10, <1>11 DEF SameSender
  <2>3. uart'.sending =>
          /\ uart'.tr_t1 = Plus(moved.tr_t1, FromBrt(brt))
          /\ uart'.tr_tick = Plus(moved.tr_tick, 1)
    BY <2>1, <2>2, <1>10, <1>11 DEF SameSender
  <2> QED
    BY <2>2, <2>3, <1>13, <1>14 DEF TxClock
<1>17. Sent(moved) => ~uart'.sending
  BY <1>7, <1>8, <1>9, <1>10, <1>11 DEF SameSender
<1>18. uart'.sending => uart.sending
  <2>1. ~Sent(moved) => uart'.sending = uart.sending
    BY <1>3, <1>4, <1>6, <1>7, <1>8, <1>9, <1>10, <1>11 DEF SameSender
  <2> QED
    BY <2>1, <1>17
<1>19. f.receiving = uart.receiving /\ f.rec_bit = moved.rec_bit
       /\ f.rec_t1 = moved.rec_t1 /\ f.rec_tick = moved.rec_tick
  BY <1>3, <1>4, <1>6, <1>7 DEF SameReceiver
<1>20. /\ v.receiving /\ ~uart.receiving => line.avail /\ v.rec_bit = 0 /\ RxClock(v) = 0
       /\ uart.receiving => v.receiving /\ v.rec_bit = moved.rec_bit /\ RxClock(v) = RxClock(moved)
  BY <1>8, <1>13, <1>19 DEF RxClock
<1>21. ~Received(v) => /\ uart'.rec_bit = v.rec_bit /\ uart'.receiving = v.receiving
                       /\ uart'.receiving => RxClock(uart') = Plus(RxClock(v), FrameClock(uart, brt))
  <2> SUFFICES ASSUME ~Received(v)
               PROVE  /\ uart'.rec_bit = v.rec_bit /\ uart'.receiving = v.receiving
                      /\ uart'.receiving => RxClock(uart') = Plus(RxClock(v), FrameClock(uart, brt))
    OBVIOUS
  <2>1. w = v
    BY <1>9
  <2>2. uart'.rec_bit = v.rec_bit /\ uart'.receiving = v.receiving /\ x.receiving = uart'.receiving
    BY <2>1, <1>10, <1>11
  <2>3. uart'.receiving =>
          /\ uart'.rec_t1 = Plus(v.rec_t1, FromBrt(brt))
          /\ uart'.rec_tick = Plus(v.rec_tick, 1)
    BY <2>1, <2>2, <1>10, <1>11
  <2> QED
    BY <2>2, <2>3, <1>13, <1>14 DEF RxClock
<1>22. Received(v) => ~uart'.receiving
  BY <1>9, <1>10, <1>11
<1>23. /\ moved.out = uart.out /\ uart'.out = uart.out
       /\ moved.sending = uart.sending /\ moved.receiving = uart.receiving
  BY <1>3, <1>4, <1>6, <1>7, <1>8, <1>9, <1>10, <1>11 DEF SameSender, SameReceiver
<1>24. uart.sending /\ uart.tr_bit < Bits(uart) /\ TxClock(uart) <= DivBy(uart) =>
         /\ moved.tr_bit <= Bits(uart) /\ TxClock(moved) < DivBy(uart)
         /\ moved.tr_bit = Bits(uart) => TxClock(moved) = 0
         /\ moved.tr_bit * DivBy(uart) + TxClock(moved) = uart.tr_bit * DivBy(uart) + TxClock(uart)
  <2>1. h.sending = uart.sending /\ h.tr_bit = uart.tr_bit /\ s.tr_bit = moved.tr_bit
    BY <1>3, <1>6 DEF SameSender
  <2> QED
    BY <2>1, <1>4, <1>13, <1>15
<1>25. uart.receiving /\ uart.rec_bit < Bits(uart) /\ RxClock(uart) <= DivBy(uart) =>
         /\ moved.rec_bit <= Bits(uart) /\ RxClock(moved) < DivBy(uart)
         /\ moved.rec_bit = Bits(uart) => RxClock(moved) = 0
         /\ moved.rec_bit * DivBy(uart) + RxClock(moved) = uart.rec_bit * DivBy(uart) + RxClock(uart)
  <2>1. s.receiving = uart.receiving /\ s.rec_bit = uart.rec_bit
    BY <1>3, <1>4 DEF SameReceiver
  <2> QED
    BY <2>1, <1>6, <1>13, <1>15
<1>g. Half(v)
  BY <1>8 DEF Uart, Half
<1>26. /\ line' = ClearLine(v, line) /\ brt' = BrtTick(brt)
       /\ tx' = [tx EXCEPT !.done = IF Sent(moved) THEN Append(@, moved.out) ELSE @,
                           !.ticks = IF Sent(moved) THEN -1 ELSE Elapsed(tx, moved, brt)]
       /\ rx' = [rx EXCEPT !.done = IF Received(v) THEN Append(@, line.input) ELSE @,
                           !.ticks = IF Received(v) THEN -1
                                     ELSE IF v.receiving /\ ~moved.receiving
                                     THEN FrameClock(v, brt)
                                     ELSE Elapsed(rx, v, brt)]
  <2>1. CASE Received(v)
    <3>1. FinishReceiving(v, line).s_in = line.input
      BY <2>1, <1>g, ReceivedIsLine
    <3> QED
      BY <2>1, <3>1, <1>2
  <2>2. CASE ~Received(v)
    BY <2>2, <1>2
  <2> QED
    BY <2>1, <2>2
<1>27. moved \in Uart /\ v \in Uart /\ uart' \in Uart
  BY <1>6, <1>8, <1>11
<1>28. Cycle(moved, v)
  BY <1>12, <1>16, <1>17, <1>18, <1>20, <1>21, <1>22, <1>23, <1>24, <1>25, <1>26, <1>27 DEF Cycle
<1> QED
  BY <1>27, <1>28


-----------------------------------------------------------------------------
(* Every variable in its range, and every frame whose length and rate were   *)
(* left alone at the bit and the clock that its ticks make up.               *)
OnTime ==
  /\ UartTypeOK
  /\ uart.sending /\ tx.ticks # -1 => TxOnTime(uart, tx.ticks)
  /\ uart.receiving /\ rx.ticks # -1 => RxOnTime(uart, rx.ticks)

LEMMA ClocksAreNumbers ==
  ASSUME NEW u \in Uart
  PROVE  TxClock(u) \in Nat /\ RxClock(u) \in Nat /\ u.tr_bit \in Nat /\ u.rec_bit \in Nat
BY DEF Uart, TxClock, RxClock

LEMMA LongerByOne ==
  ASSUME NEW S, NEW s \in Seq(S), NEW x \in S
  PROVE  Append(s, x) \in Seq(S)
OBVIOUS

LEMMA HistoryCounts ==
  ASSUME NEW t \in -1..Longest, NEW k \in Nat, Longest \in Nat
  PROVE  (IF t = -1 THEN -1 ELSE Plus(t, k)) \in -1..Longest
<1>1. CASE t = -1
  BY <1>1
<1>2. CASE t # -1
  <2>1. t \in Nat
    BY <1>2
  <2>2. Plus(t, k) \in 0..Longest
    BY <2>1, PlusCounts
  <2> QED
    BY <2>2, <1>2
<1> QED
  BY <1>1, <1>2

(* The baud rate timer stays in its range, whatever is written.              *)
LEMMA BrtStays ==
  ASSUME NEW b \in Brt
  PROVE  BrtTick(b) \in Brt
<1> USE UartAssumption
<1>1. (b.prescaler + 1) % Prescale \in 0..(Prescale - 1)
  BY DEF Brt
<1>2. BrtCycle(b) \in Brt /\ BrtCycle(b).counter = b.counter
  BY <1>1 DEF BrtCycle, Brt
<1>3. b.counter # Base - 1 => b.counter + 1 \in 0..(Base - 1)
  BY DEF Brt
<1>4. b.reload \in 0..(Base - 1)
  BY DEF Brt
<1> DEFINE c == BrtCycle(b)
           n == IF BrtOverflows(b) THEN b.reload ELSE c.counter + 1
<1>5. BrtTick(b) = IF ~BrtCounts(b) THEN c ELSE [c EXCEPT !.counter = n]
  BY DEF BrtTick
<1>6. BrtCounts(b) => n \in 0..(Base - 1)
  BY <1>2, <1>3, <1>4 DEF BrtOverflows
<1>7. c \in Brt
  BY <1>2
<1> HIDE DEF c, n
<1> QED
  BY <1>5, <1>6, <1>7 DEF Brt

LEMMA TickTypes == UartTypeOK /\ UartInv /\ Tick => UartTypeOK'
<1> SUFFICES ASSUME UartTypeOK, UartInv, Tick PROVE UartTypeOK'
  OBVIOUS
<1>1. PICK moved, v \in Uart : Cycle(moved, v)
  BY TickSteps
<1>2. uart' \in Uart /\ line' \in [input : 0..MaxInjects, avail : BOOLEAN]
  BY <1>1 DEF Cycle, ClearLine, UartTypeOK
<1>3. brt' \in Brt
  BY <1>1, BrtStays DEF Cycle, UartTypeOK
<1>4. Longest \in Nat /\ 1 <= Longest
  BY FrameNumbers DEF UartTypeOK
<1>5. FrameClock(moved, brt) \in 0..1 /\ FrameClock(v, brt) \in 0..1
  BY BrtAloneClocks DEF FrameClock
<1>6. Elapsed(tx, moved, brt) \in -1..Longest /\ Elapsed(rx, v, brt) \in -1..Longest
  <2>1. tx.ticks \in -1..Longest /\ rx.ticks \in -1..Longest
    BY DEF UartTypeOK, Fate
  <2>2. FrameClock(moved, brt) \in Nat /\ FrameClock(v, brt) \in Nat
    BY <1>5
  <2> QED
    BY <2>1, <2>2, <1>4, HistoryCounts DEF Elapsed
<1>7. tx' \in Fate(MaxWrites)
  <2> DEFINE d == IF Sent(moved) THEN Append(tx.done, moved.out) ELSE tx.done
             t == IF Sent(moved) THEN -1 ELSE Elapsed(tx, moved, brt)
  <2>1. tx' = [tx EXCEPT !.done = d, !.ticks = t]
    BY <1>1 DEF Cycle
  <2>2. Sent(moved) => moved.out \in 1..MaxWrites
    <3>1. Sent(moved) => uart.sending /\ moved.out = uart.out
      BY <1>1 DEF Cycle, Sent
    <3>2. uart.sending => uart.out = tx.made /\ tx.made >= 1
      BY DEF UartInv
    <3>3. tx.made \in 0..MaxWrites /\ MaxWrites \in Nat
      BY UartAssumption DEF UartTypeOK, Fate
    <3> QED
      BY <3>1, <3>2, <3>3
  <2>3. d \in Seq(1..MaxWrites)
    <3>1. tx.done \in Seq(1..MaxWrites)
      BY DEF UartTypeOK, Fate
    <3>2. ASSUME Sent(moved) PROVE Append(tx.done, moved.out) \in Seq(1..MaxWrites)
      BY <2>2, <3>1, <3>2, LongerByOne
    <3> QED
      BY <3>1, <3>2
  <2>4. t \in -1..Longest
    BY <1>4, <1>6
  <2> HIDE DEF d, t
  <2> QED
    BY <2>1, <2>3, <2>4 DEF UartTypeOK, Fate
<1>8. rx' \in Fate(MaxInjects)
  <2> DEFINE d == IF Received(v) THEN Append(rx.done, line.input) ELSE rx.done
             t == IF Received(v) THEN -1
                  ELSE IF v.receiving /\ ~moved.receiving
                  THEN FrameClock(v, brt)
                  ELSE Elapsed(rx, v, brt)
  <2>1. rx' = [rx EXCEPT !.done = d, !.ticks = t]
    BY <1>1 DEF Cycle
  <2>2. Received(v) => line.input \in 1..MaxInjects
    <3>1. Received(v) => line.avail
      <4>1. v.receiving => uart.receiving \/ line.avail
        BY <1>1 DEF Cycle
      <4> QED
        BY <4>1 DEF UartInv, Received
    <3>2. line.avail => line.input = rx.made /\ rx.made >= 1
      BY DEF UartInv
    <3>3. rx.made \in 0..MaxInjects /\ MaxInjects \in Nat
      BY UartAssumption DEF UartTypeOK, Fate
    <3> QED
      BY <3>1, <3>2, <3>3
  <2>3. d \in Seq(1..MaxInjects)
    <3>1. rx.done \in Seq(1..MaxInjects)
      BY DEF UartTypeOK, Fate
    <3>2. ASSUME Received(v) PROVE Append(rx.done, line.input) \in Seq(1..MaxInjects)
      BY <2>2, <3>1, <3>2, LongerByOne
    <3> QED
      BY <3>1, <3>2
  <2>4. t \in -1..Longest
    BY <1>4, <1>5, <1>6
  <2> HIDE DEF d, t
  <2> QED
    BY <2>1, <2>3, <2>4 DEF UartTypeOK, Fate
<1> QED
  BY <1>2, <1>3, <1>7, <1>8 DEF UartTypeOK


LEMMA RetimeTypes ==
  ASSUME UartTypeOK, NEW u \in Uart, Retime(u)
  PROVE  UartTypeOK'
<1>1. -1 \in -1..Longest
  BY FrameNumbers
<1> QED
  BY <1>1 DEF Retime, UartTypeOK, Fate

LEMMA StaysTyped == UartTypeOK /\ UartInv /\ [Next]_vars => UartTypeOK'
<1> SUFFICES ASSUME UartTypeOK, UartInv, [Next]_vars PROVE UartTypeOK'
  OBVIOUS
<1> USE UartAssumption
<1>0. Longest \in Nat /\ 0 \in 0..Longest /\ -1 \in -1..Longest /\ 0 \in -1..Longest
  BY FrameNumbers DEF UartTypeOK
<1>m. /\ MaxWrites \in Nat /\ tx.made \in 0..MaxWrites
      /\ MaxInjects \in Nat /\ rx.made \in 0..MaxInjects
  BY DEF UartTypeOK, Fate
<1>c. /\ uart.sending => uart.out = tx.made /\ tx.made >= 1
      /\ line.avail => line.input = rx.made /\ rx.made >= 1
  BY DEF UartInv
<1>1. CASE Tick
  BY <1>1, TickTypes
<1>2. CASE WriteSBUF
  <2>1. tx.made + 1 \in 0..MaxWrites /\ tx.made \in Nat
    BY <1>2, <1>m DEF WriteSBUF
  <2>2. uart' \in Uart
    <3> DEFINE n == tx.made + 1
    <3>1. n \in 0..MaxWrites /\ uart' = [uart EXCEPT !.sending = TRUE, !.out = n, !.tr_bit = 0,
                                                     !.tr_t1 = 0, !.tr_tick = 0]
      BY <1>2, <2>1 DEF WriteSBUF
    <3> HIDE DEF n
    <3> QED
      BY <3>1, <1>0 DEF UartTypeOK, Uart
  <2>3. tx' \in Fate(MaxWrites)
    <3> DEFINE n == tx.made + 1
               r == IF uart.sending THEN tx.replaced \cup {uart.out} ELSE tx.replaced
    <3>1. tx' = [tx EXCEPT !.made = n, !.ticks = 0, !.replaced = r]
      BY <1>2 DEF WriteSBUF
    <3>2. r \in SUBSET (1..MaxWrites)
      <4>1. uart.sending => uart.out \in 1..MaxWrites
        BY <1>m, <1>c
      <4> QED
        BY <4>1 DEF UartTypeOK, Fate
    <3>3. n \in 0..MaxWrites
      BY <2>1
    <3> HIDE DEF n, r
    <3> QED
      BY <3>1, <3>2, <3>3, <1>0 DEF UartTypeOK, Fate
  <2> QED
    BY <1>2, <2>2, <2>3 DEF WriteSBUF, UartTypeOK
<1>3. CASE WriteSCON
  <2>1. PICK m \in Modes, ren \in BOOLEAN :
          Retime([uart EXCEPT !.mode = m, !.REN = ren, !.TI = FALSE, !.RI = FALSE])
    BY <1>3, Zenon DEF WriteSCON
  <2>2. [uart EXCEPT !.mode = m, !.REN = ren, !.TI = FALSE, !.RI = FALSE] \in Uart
    BY DEF UartTypeOK, Uart
  <2> QED
    BY <2>1, <2>2, RetimeTypes
<1>4. CASE WritePCON
  <2>1. PICK s \in BOOLEAN : Retime([uart EXCEPT !.SMOD = s])
    BY <1>4 DEF WritePCON
  <2>2. [uart EXCEPT !.SMOD = s] \in Uart
    BY DEF UartTypeOK, Uart
  <2> QED
    BY <2>1, <2>2, RetimeTypes
<1>5. CASE WriteBRT
  BY <1>5 DEF WriteBRT, UartTypeOK, Brt
<1>6. CASE WriteAUXR
  <2>1. PICK r, x, s \in BOOLEAN, t \in Timer1Runs :
          brt' = [brt EXCEPT !.BRTR = r, !.x12 = x, !.S1BRS = s, !.TR1 = t]
    BY <1>6, Zenon DEF WriteAUXR
  <2>2. brt' \in Brt
    <3>1. r \in BOOLEAN /\ x \in BOOLEAN /\ s \in BOOLEAN /\ t \in BOOLEAN
      OBVIOUS
    <3>2. brt \in Brt
      BY DEF UartTypeOK
    <3> QED
      BY ONLY <2>1, <3>1, <3>2 DEF Brt
  <2> QED
    BY <2>2, <1>6 DEF WriteAUXR, UartTypeOK
<1>7. CASE Inject
  <2>1. rx.made + 1 \in 0..MaxInjects
    BY <1>7, <1>m DEF Inject
  <2>2. line' \in [input : 0..MaxInjects, avail : BOOLEAN]
    BY <1>7, <2>1 DEF Inject
  <2>3. rx' \in Fate(MaxInjects)
    <3> DEFINE n == rx.made + 1
               r == IF line.avail THEN rx.replaced \cup {line.input} ELSE rx.replaced
    <3>1. rx' = [rx EXCEPT !.made = n, !.replaced = r]
      BY <1>7 DEF Inject
    <3>2. r \in SUBSET (1..MaxInjects)
      <4>1. line.avail => line.input \in 1..MaxInjects
        BY <1>m, <1>c
      <4> QED
        BY <4>1 DEF UartTypeOK, Fate
    <3>3. n \in 0..MaxInjects
      BY <2>1
    <3> HIDE DEF n, r
    <3> QED
      BY <3>1, <3>2, <3>3, <1>0 DEF UartTypeOK, Fate
  <2> QED
    BY <1>7, <2>2, <2>3 DEF Inject, UartTypeOK
<1>8. CASE Reset
  <2>1. uart' \in Uart
    BY <1>8, <1>0 DEF Reset, ResetUart, Uart
  <2>2. brt' \in Brt
    <3>1. brt' = [brt EXCEPT !.reload = 0, !.BRTR = FALSE, !.x12 = FALSE, !.S1BRS = FALSE,
                             !.TR1 = FALSE]
      BY <1>8 DEF Reset
    <3>2. 0 \in 0..(Base - 1)
      OBVIOUS
    <3> QED
      BY <3>1, <3>2 DEF UartTypeOK, Brt
  <2>3. tx' \in Fate(MaxWrites)
    <3> DEFINE r == IF uart.sending THEN tx.replaced \cup {uart.out} ELSE tx.replaced
    <3>1. tx' = [tx EXCEPT !.ticks = -1, !.replaced = r]
      BY <1>8 DEF Reset
    <3>2. r \in SUBSET (1..MaxWrites)
      <4>1. uart.sending => uart.out \in 1..MaxWrites
        BY <1>m, <1>c
      <4> QED
        BY <4>1 DEF UartTypeOK, Fate
    <3> HIDE DEF r
    <3> QED
      BY <3>1, <3>2, <1>0 DEF UartTypeOK, Fate
  <2>4. rx' \in Fate(MaxInjects)
    BY <1>8, <1>0 DEF Reset, UartTypeOK, Fate
  <2> QED
    BY <1>8, <2>1, <2>2, <2>3, <2>4 DEF Reset, UartTypeOK
<1>9. CASE UNCHANGED vars
  BY <1>9 DEF vars, UartTypeOK
<1> QED
  BY <1>1, <1>2, <1>3, <1>4, <1>5, <1>6, <1>7, <1>8, <1>9 DEF Next

LEMMA StartsTyped == Init => UartTypeOK
<1> SUFFICES ASSUME Init PROVE UartTypeOK
  OBVIOUS
<1> USE UartAssumption
<1>1. uart.mode \in 0..3 /\ uart = ResetUart
  BY DEF Init, ResetUart
<1>2. Longest \in Nat
  <2> DEFINE M == Max({FrameBits[k] : k \in 0..3})
             D == Max({FixedDiv, SlowDiv, FastDiv})
  <2>1. M \in Nat
    <3>1. FrameBits \in [0..3 -> Nat]
      OBVIOUS
    <3> QED
      BY <3>1, MaxOfFour
  <2>2. D \in Nat
    <3>1. {FixedDiv, SlowDiv, FastDiv} \subseteq Nat
      OBVIOUS
    <3>2. \E x \in {FixedDiv, SlowDiv, FastDiv} : \A y \in {FixedDiv, SlowDiv, FastDiv} : x >= y
      BY <3>1
    <3> QED
      BY <3>1, <3>2 DEF Max
  <2>3. Longest = M * D
    BY DEF Longest
  <2> HIDE DEF M, D
  <2> QED
    BY <2>1, <2>2, <2>3
<1>3. uart \in Uart
  BY <1>1, <1>2 DEF ResetUart, Uart
<1>4. brt \in Brt
  BY DEF Init, Brt
<1>5. <<>> \in Seq(1..MaxWrites) /\ <<>> \in Seq(1..MaxInjects)
  OBVIOUS
<1>6. tx \in Fate(MaxWrites) /\ rx \in Fate(MaxInjects)
  BY <1>2, <1>5 DEF Init, Fate
<1> QED
  BY <1>3, <1>4, <1>6 DEF Init, UartTypeOK

(* Every variable of the UART, its line and its baud rate timer stays in its *)
(* range (cl_serial::tick(), cl_stc12_brt::tick()).                          *)
THEOREM UartTypeCorrect == Spec => []UartTypeOK
BY StartsTyped, StaysTyped, StartsAccounted, StaysAccounted, PTL DEF Spec


-----------------------------------------------------------------------------
(* The clock counts as the history does, up to the end of a bit.             *)
LEMMA ClockAndTicks ==
  ASSUME NEW u \in Uart, NEW b \in Nat, NEW c \in Nat, NEW k \in 0..1,
         b < Bits(u), c < DivBy(u)
  PROVE  /\ Plus(c, k) = c + k /\ c + k <= DivBy(u)
         /\ Plus(b * DivBy(u) + c, k) = b * DivBy(u) + c + k
         /\ b * DivBy(u) + c \in Nat
<1> DEFINE d == DivBy(u)
           n == Bits(u)
<1>1. /\ n \in Nat \ {0} /\ d \in Nat \ {0} /\ Longest \in Nat
      /\ n * d \in Nat /\ n * d <= Longest /\ d <= n * d
  BY FrameNumbers DEF FrameTicks
<1>2. b < n /\ c < d
  OBVIOUS
<1> HIDE DEF n, d
<1>3. c + 1 <= d /\ c + 1 \in Nat /\ c + k \in Nat /\ c + k <= c + 1 /\ k \in Nat
  BY <1>1, <1>2
<1>4. b * d + (c + 1) <= n * d /\ b * d + (c + 1) \in Nat
  BY <1>1, <1>2, <1>3, OnTimeBound
<1>5. b * d + c \in Nat
  BY <1>1
<1>6. (b * d + c) + k <= Longest /\ c + k <= Longest
  BY <1>1, <1>3, <1>4, <1>5
<1>7. Plus(b * d + c, k) = (b * d + c) + k
  BY <1>1, <1>3, <1>5, <1>6, PlusCounts
<1>8. Plus(c, k) = c + k
  BY <1>1, <1>3, <1>6, PlusCounts
<1> QED
  BY <1>1, <1>3, <1>5, <1>7, <1>8 DEF d

LEMMA TickOnTime ==
  ASSUME OnTime, Tick
  PROVE  /\ uart'.sending /\ tx'.ticks # -1 => TxOnTime(uart', tx'.ticks)
         /\ uart'.receiving /\ rx'.ticks # -1 => RxOnTime(uart', rx'.ticks)
         /\ tx'.done # tx.done /\ tx.ticks # -1 => tx.ticks = FrameTicks(uart)
         /\ rx'.done # rx.done /\ rx.ticks # -1 => rx.ticks = FrameTicks(uart)
<1>0. UartTypeOK /\ uart \in Uart
  BY DEF OnTime, UartTypeOK
<1>1. PICK moved, v \in Uart : Cycle(moved, v)
  BY <1>0, TickSteps
<1> DEFINE n == Bits(uart)
           d == DivBy(uart)
           k == FrameClock(uart, brt)
<1>2. /\ n \in Nat \ {0} /\ d \in Nat \ {0} /\ Longest \in Nat /\ k \in 0..1
      /\ FrameTicks(uart) = n * d
  BY <1>0, FrameNumbers, BrtAloneClocks DEF FrameTicks, FrameClock
<1>3. /\ Bits(moved) = n /\ Bits(v) = n /\ Bits(uart') = n /\ DivBy(uart') = d
      /\ FrameClock(moved, brt) = k /\ FrameClock(v, brt) = k
  BY <1>1, RateFixes DEF Cycle, FrameClock
<1>4. uart' \in Uart /\ TxClock(moved) \in Nat /\ moved.tr_bit \in Nat
      /\ RxClock(v) \in Nat /\ v.rec_bit \in Nat /\ RxClock(moved) \in Nat /\ moved.rec_bit \in Nat
  BY <1>1, ClocksAreNumbers DEF Cycle
<1>5. /\ tx'.done = (IF Sent(moved) THEN Append(tx.done, moved.out) ELSE tx.done)
      /\ tx'.ticks = (IF Sent(moved) THEN -1 ELSE IF tx.ticks = -1 THEN -1 ELSE Plus(tx.ticks, k))
  BY <1>1, <1>3 DEF Cycle, Elapsed, OnTime, UartTypeOK, Fate
<1>6. /\ rx'.done = (IF Received(v) THEN Append(rx.done, line.input) ELSE rx.done)
      /\ rx'.ticks = (IF Received(v) THEN -1
                      ELSE IF v.receiving /\ ~uart.receiving THEN k
                      ELSE IF rx.ticks = -1 THEN -1 ELSE Plus(rx.ticks, k))
  <2>1. moved.receiving = uart.receiving
    BY <1>1 DEF Cycle
  <2> QED
    BY <1>1, <1>3, <2>1 DEF Cycle, Elapsed, OnTime, UartTypeOK, Fate
<1> HIDE DEF k
<1>7. ASSUME uart.sending, tx.ticks # -1
      PROVE  /\ moved.tr_bit <= n /\ TxClock(moved) < d
             /\ moved.tr_bit = n => TxClock(moved) = 0
             /\ tx.ticks = moved.tr_bit * d + TxClock(moved)
  <2>1. /\ uart.tr_bit < Bits(uart) /\ TxClock(uart) <= DivBy(uart)
        /\ tx.ticks = uart.tr_bit * DivBy(uart) + TxClock(uart)
    BY <1>7 DEF OnTime, TxOnTime
  <2> QED
    BY <2>1, <1>1, <1>7 DEF Cycle
<1>8. ASSUME Sent(moved), tx.ticks # -1 PROVE tx.ticks = FrameTicks(uart)
  <2>1. uart.sending /\ moved.tr_bit >= n
    BY <1>1, <1>3, <1>8 DEF Sent, Cycle
  <2>2. moved.tr_bit = n /\ TxClock(moved) = 0
    <3>1. moved.tr_bit <= n /\ (moved.tr_bit = n => TxClock(moved) = 0)
      BY <2>1, <1>7, <1>8
    <3>2. moved.tr_bit \in Nat /\ n \in Nat
      BY <1>2, <1>4
    <3> HIDE DEF n
    <3> QED
      BY <2>1, <3>1, <3>2
  <2>3. n * d \in Nat
    BY <1>2
  <2> HIDE DEF n, d
  <2> QED
    BY <2>1, <2>2, <2>3, <1>2, <1>7, <1>8
<1>9. ASSUME uart'.sending, tx'.ticks # -1 PROVE TxOnTime(uart', tx'.ticks)
  <2>1. ~Sent(moved) /\ uart.sending /\ tx.ticks # -1
    BY <1>1, <1>5, <1>9 DEF Cycle
  <2>2. uart'.tr_bit = moved.tr_bit /\ TxClock(uart') = Plus(TxClock(moved), k)
    BY <1>1, <1>9, <2>1 DEF Cycle, k
  <2>3. tx'.ticks = Plus(tx.ticks, k)
    BY <1>5, <2>1
  <2>4. moved.tr_bit < n
    <3>1. moved.sending = uart.sending
      BY <1>1 DEF Cycle
    <3> QED
      BY <3>1, <2>1, <1>2, <1>3, <1>4 DEF Sent
  <2>5. /\ Plus(TxClock(moved), k) = TxClock(moved) + k /\ TxClock(moved) + k <= d
        /\ Plus(moved.tr_bit * d + TxClock(moved), k) = moved.tr_bit * d + TxClock(moved) + k
    <3> DEFINE c == TxClock(moved)
    <3>1. c \in Nat /\ c < d
      BY <1>4, <1>7, <2>1
    <3> HIDE DEF c
    <3>2. /\ Plus(c, k) = c + k /\ c + k <= DivBy(uart)
          /\ Plus(moved.tr_bit * DivBy(uart) + c, k) = moved.tr_bit * DivBy(uart) + c + k
      BY <3>1, <2>4, <1>0, <1>2, <1>4, ClockAndTicks
    <3> QED
      BY <3>2 DEF c
  <2>6. tx.ticks = moved.tr_bit * d + TxClock(moved)
    BY <1>7, <2>1
  <2>7. moved.tr_bit * d \in Nat
    BY <1>2, <1>4
  <2> HIDE DEF n, d
  <2>8. tx'.ticks = uart'.tr_bit * d + TxClock(uart')
    BY <2>2, <2>3, <2>5, <2>6, <2>7, <1>2, <1>4
  <2> QED
    BY <2>2, <2>4, <2>5, <2>8, <1>3 DEF TxOnTime
<1>10. ASSUME uart.receiving, rx.ticks # -1
       PROVE  /\ v.rec_bit <= n /\ RxClock(v) < d
              /\ v.rec_bit = n => RxClock(v) = 0
              /\ rx.ticks = v.rec_bit * d + RxClock(v)
  <2>1. /\ uart.rec_bit < Bits(uart) /\ RxClock(uart) <= DivBy(uart)
        /\ rx.ticks = uart.rec_bit * DivBy(uart) + RxClock(uart)
    BY <1>10 DEF OnTime, RxOnTime
  <2> QED
    BY <2>1, <1>1, <1>10 DEF Cycle
<1>11. v.receiving /\ ~uart.receiving => v.rec_bit = 0 /\ RxClock(v) = 0
  BY <1>1 DEF Cycle
<1>12. ASSUME Received(v), rx.ticks # -1 PROVE rx.ticks = FrameTicks(uart)
  <2>1. v.receiving /\ v.rec_bit >= n
    BY <1>3, <1>12 DEF Received
  <2>2. uart.receiving
    BY <2>1, <1>2, <1>11
  <2>3. v.rec_bit = n /\ RxClock(v) = 0
    <3>1. v.rec_bit <= n /\ (v.rec_bit = n => RxClock(v) = 0)
      BY <2>2, <1>10, <1>12
    <3>2. v.rec_bit \in Nat /\ n \in Nat
      BY <1>2, <1>4
    <3> HIDE DEF n
    <3> QED
      BY <2>1, <3>1, <3>2
  <2>4. n * d \in Nat
    BY <1>2
  <2> HIDE DEF n, d
  <2> QED
    BY <2>2, <2>3, <2>4, <1>2, <1>10, <1>12
<1>13. ASSUME uart'.receiving, rx'.ticks # -1 PROVE RxOnTime(uart', rx'.ticks)
  <2>1. ~Received(v)
    BY <1>1, <1>13 DEF Cycle
  <2>2. v.receiving /\ uart'.rec_bit = v.rec_bit /\ RxClock(uart') = Plus(RxClock(v), k)
    BY <1>1, <1>13, <2>1 DEF Cycle, k
  <2>3. v.rec_bit < n
    BY <2>1, <2>2, <1>2, <1>3, <1>4 DEF Received
  <2>4. RxClock(v) < d /\ rx'.ticks = Plus(v.rec_bit * d + RxClock(v), k)
    <3>1. CASE uart.receiving
      <4>1. rx.ticks # -1 /\ rx'.ticks = Plus(rx.ticks, k)
        BY <3>1, <1>6, <1>13, <2>1
      <4> QED
        BY <4>1, <3>1, <1>10
    <3>2. CASE ~uart.receiving
      <4>1. v.rec_bit = 0 /\ RxClock(v) = 0 /\ rx'.ticks = k
        BY <3>2, <2>1, <2>2, <1>6, <1>11
      <4>2. Plus(0, k) = k
        <5>1. 0 \in Nat /\ k \in Nat /\ 0 + k = k /\ k <= Longest
          <6>1. 1 <= Longest
            BY <1>0, FrameNumbers
          <6> QED
            BY <6>1, <1>2
        <5> QED
          BY <5>1, <1>2, PlusCounts
      <4>3. 0 * d + 0 = 0 /\ 0 < d
        BY <1>2
      <4> HIDE DEF d
      <4> QED
        BY <4>1, <4>2, <4>3
    <3> QED
      BY <3>1, <3>2, <1>0 DEF Uart
  <2>5. /\ Plus(RxClock(v), k) = RxClock(v) + k /\ RxClock(v) + k <= d
        /\ Plus(v.rec_bit * d + RxClock(v), k) = v.rec_bit * d + RxClock(v) + k
    <3> DEFINE c == RxClock(v)
    <3>1. c \in Nat /\ c < d
      BY <1>4, <2>4
    <3> HIDE DEF c
    <3>3. v.rec_bit \in Nat /\ v.rec_bit < Bits(uart) /\ c < DivBy(uart) /\ k \in 0..1 /\ uart \in Uart
      BY <3>1, <2>3, <1>0, <1>2, <1>4
    <3>2. /\ Plus(c, k) = c + k /\ c + k <= DivBy(uart)
          /\ Plus(v.rec_bit * DivBy(uart) + c, k) = v.rec_bit * DivBy(uart) + c + k
      BY ONLY <3>1, <3>3, ClockAndTicks, ZenonT(60)
    <3> QED
      BY <3>2 DEF c
  <2>7. v.rec_bit * d \in Nat
    BY <1>2, <1>4
  <2> HIDE DEF n, d
  <2>8. rx'.ticks = uart'.rec_bit * d + RxClock(uart')
    BY <2>2, <2>4, <2>5, <2>7, <1>2, <1>4
  <2> QED
    BY <2>2, <2>3, <2>5, <2>8, <1>3 DEF RxOnTime
<1> QED
  BY <1>5, <1>6, <1>8, <1>9, <1>12, <1>13

(* Nothing but a cycle ends a frame.                                         *)
LEMMA NothingNew ==
  ASSUME OnTime, [Next]_vars, ~Tick
  PROVE  tx'.done = tx.done /\ rx'.done = rx.done
<1>1. tx \in Fate(MaxWrites) /\ rx \in Fate(MaxInjects)
  BY DEF OnTime, UartTypeOK
<1>2. ASSUME NEW u, Retime(u) PROVE tx'.done = tx.done /\ rx'.done = rx.done
  BY <1>1, <1>2 DEF Retime, Fate
<1>3. CASE WriteSCON
  <2>1. \E u : Retime(u)
    BY <1>3, Zenon DEF WriteSCON
  <2> QED
    BY <2>1, <1>2
<1>4. CASE WritePCON
  <2>1. \E u : Retime(u)
    BY <1>4, Zenon DEF WritePCON
  <2> QED
    BY <2>1, <1>2
<1>5. CASE WriteSBUF
  BY <1>1, <1>5 DEF WriteSBUF, Fate
<1>6. CASE Inject
  BY <1>1, <1>6 DEF Inject, Fate
<1>7. CASE Reset
  BY <1>1, <1>7 DEF Reset, Fate
<1>8. CASE UNCHANGED <<tx, rx>>
  BY <1>8
<1>9. WriteBRT \/ WriteAUXR \/ UNCHANGED vars => UNCHANGED <<tx, rx>>
  BY DEF WriteBRT, WriteAUXR, vars
<1> QED
  BY <1>3, <1>4, <1>5, <1>6, <1>7, <1>8, <1>9 DEF Next

(* A control register that is written keeps a frame on time or gives it up.  *)
LEMMA RetimeOnTime ==
  ASSUME OnTime, NEW u \in Uart, Retime(u),
         SameSender(uart, u), SameReceiver(uart, u)
  PROVE  /\ uart'.sending /\ tx'.ticks # -1 => TxOnTime(uart', tx'.ticks)
         /\ uart'.receiving /\ rx'.ticks # -1 => RxOnTime(uart', rx'.ticks)
<1>1. uart' = u
  BY DEF Retime
<1>2. CASE SameTiming(u)
  <2>1. tx'.ticks = tx.ticks /\ rx'.ticks = rx.ticks
    BY <1>2 DEF Retime, OnTime, UartTypeOK, Fate
  <2>2. Bits(u) = Bits(uart) /\ DivBy(u) = DivBy(uart) /\ Timed(u) = Timed(uart)
    BY <1>2 DEF SameTiming
  <2> QED
    BY <1>1, <2>1, <2>2 DEF OnTime, TxOnTime, RxOnTime, TxClock, RxClock, SameSender, SameReceiver
<1>3. CASE ~SameTiming(u)
  <2>1. tx'.ticks = -1 /\ rx'.ticks = -1
    BY <1>3 DEF Retime, OnTime, UartTypeOK, Fate
  <2> QED
    BY <2>1
<1> QED
  BY <1>2, <1>3

LEMMA StaysOnTime == OnTime /\ UartTypeOK' /\ [Next]_vars => OnTime'
<1> SUFFICES ASSUME OnTime, UartTypeOK', [Next]_vars
             PROVE  /\ uart'.sending /\ tx'.ticks # -1 => TxOnTime(uart', tx'.ticks)
                    /\ uart'.receiving /\ rx'.ticks # -1 => RxOnTime(uart', rx'.ticks)
  BY DEF OnTime
<1>0. uart \in Uart /\ tx \in Fate(MaxWrites) /\ rx \in Fate(MaxInjects)
  BY DEF OnTime, UartTypeOK
<1>1. CASE Tick
  BY <1>1, TickOnTime
<1>2. CASE WriteSCON
  <2>1. PICK m \in Modes, ren \in BOOLEAN :
          Retime([uart EXCEPT !.mode = m, !.REN = ren, !.TI = FALSE, !.RI = FALSE])
    BY <1>2, Zenon DEF WriteSCON
  <2> DEFINE u == [uart EXCEPT !.mode = m, !.REN = ren, !.TI = FALSE, !.RI = FALSE]
  <2>2. u \in Uart /\ SameSender(uart, u) /\ SameReceiver(uart, u)
    BY <1>0, UartAssumption DEF Uart, SameSender, SameReceiver
  <2>3. Retime(u)
    BY <2>1
  <2> HIDE DEF u
  <2> QED
    BY <2>2, <2>3, RetimeOnTime
<1>3. CASE WritePCON
  <2>1. PICK s \in BOOLEAN : Retime([uart EXCEPT !.SMOD = s])
    BY <1>3, Zenon DEF WritePCON
  <2> DEFINE u == [uart EXCEPT !.SMOD = s]
  <2>2. u \in Uart /\ SameSender(uart, u) /\ SameReceiver(uart, u)
    BY <1>0 DEF Uart, SameSender, SameReceiver
  <2>3. Retime(u)
    BY <2>1
  <2> HIDE DEF u
  <2> QED
    BY <2>2, <2>3, RetimeOnTime
<1>4. CASE WriteSBUF
  <2>1. /\ uart' = [uart EXCEPT !.sending = TRUE, !.out = tx.made + 1, !.tr_bit = 0,
                                !.tr_t1 = 0, !.tr_tick = 0]
        /\ tx'.ticks = 0 /\ rx' = rx
    BY <1>0, <1>4 DEF WriteSBUF, Fate
  <2>2. /\ uart' \in Uart /\ uart'.tr_bit = 0 /\ TxClock(uart') = 0
        /\ SameReceiver(uart, uart') /\ SameRate(uart, uart')
    <3>1. uart' \in Uart
      BY DEF UartTypeOK
    <3>2. uart'.tr_bit = 0 /\ uart'.tr_t1 = 0 /\ uart'.tr_tick = 0
          /\ SameReceiver(uart, uart') /\ SameRate(uart, uart')
      BY <1>0, <2>1 DEF Uart, SameReceiver, SameRate
    <3> QED
      BY <3>1, <3>2 DEF TxClock
  <2>3. Bits(uart') = Bits(uart) /\ DivBy(uart') = DivBy(uart) /\ Timed(uart') = Timed(uart)
    BY <2>2, RateFixes
  <2>4. Bits(uart') \in Nat \ {0} /\ DivBy(uart') \in Nat \ {0}
    BY <2>2, FrameNumbers
  <2>5. TxOnTime(uart', 0)
    BY <2>2, <2>4 DEF TxOnTime
  <2>6. uart'.receiving /\ rx'.ticks # -1 => RxOnTime(uart', rx'.ticks)
    BY <2>1, <2>2, <2>3 DEF OnTime, RxOnTime, RxClock, SameReceiver
  <2> QED
    BY <2>1, <2>5, <2>6
<1>5. CASE Inject
  <2>1. uart' = uart /\ tx' = tx /\ rx'.ticks = rx.ticks
    BY <1>0, <1>5 DEF Inject, Fate
  <2> QED
    BY <2>1 DEF OnTime
<1>6. CASE Reset
  <2>1. tx'.ticks = -1 /\ rx'.ticks = -1
    BY <1>0, <1>6 DEF Reset, Fate
  <2> QED
    BY <2>1
<1>7. CASE UNCHANGED <<uart, tx, rx>>
  BY <1>7 DEF OnTime
<1>8. WriteBRT \/ WriteAUXR \/ UNCHANGED vars => UNCHANGED <<uart, tx, rx>>
  BY DEF WriteBRT, WriteAUXR, vars
<1> QED
  BY <1>1, <1>2, <1>3, <1>4, <1>5, <1>6, <1>7, <1>8 DEF Next

LEMMA NeverLate == OnTime => NoFrameLate
<1> SUFFICES ASSUME OnTime PROVE NoFrameLate
  OBVIOUS
<1>1. /\ uart \in Uart /\ tx.ticks \in -1..Longest /\ rx.ticks \in -1..Longest
  BY DEF OnTime, UartTypeOK, Fate
<1>2. /\ Bits(uart) \in Nat /\ DivBy(uart) \in Nat /\ FrameTicks(uart) = Bits(uart) * DivBy(uart)
      /\ TxClock(uart) \in Nat /\ RxClock(uart) \in Nat /\ uart.tr_bit \in Nat /\ uart.rec_bit \in Nat
      /\ FrameTicks(uart) \in Nat
  BY <1>1, FrameNumbers, ClocksAreNumbers DEF FrameTicks
<1>3. ASSUME uart.sending PROVE tx.ticks <= FrameTicks(uart)
  <2>1. CASE tx.ticks = -1
    BY <2>1, <1>2
  <2>2. CASE tx.ticks # -1
    <3>1. TxOnTime(uart, tx.ticks)
      BY <2>2, <1>3 DEF OnTime
    <3> QED
      BY <3>1, <1>2, OnTimeBound DEF TxOnTime
  <2> QED
    BY <2>1, <2>2
<1>4. ASSUME uart.receiving PROVE rx.ticks <= FrameTicks(uart)
  <2>1. CASE rx.ticks = -1
    BY <2>1, <1>2
  <2>2. CASE rx.ticks # -1
    <3>1. RxOnTime(uart, rx.ticks)
      BY <2>2, <1>4 DEF OnTime
    <3> QED
      BY <3>1, <1>2, OnTimeBound DEF RxOnTime
  <2> QED
    BY <2>1, <2>2
<1> QED
  BY <1>3, <1>4 DEF NoFrameLate

LEMMA StartsOnTime == Init => OnTime
<1> SUFFICES ASSUME Init PROVE OnTime
  OBVIOUS
<1>1. UartTypeOK
  BY StartsTyped
<1>2. tx.ticks = -1 /\ rx.ticks = -1
  BY DEF Init
<1> QED
  BY <1>1, <1>2 DEF OnTime

(* A frame takes exactly the ticks of the clock that its mode and rate say,  *)
(* and none on its way has taken more (cl_serial::tick()).                   *)
THEOREM FramesAlwaysTakeTheirTime == Spec => FramesTakeTheirTime
<1>1. ASSUME OnTime, OnTime', [Next]_vars
      PROVE  [ /\ tx'.done # tx.done /\ tx.ticks # -1 => tx.ticks = FrameTicks(uart)
               /\ rx'.done # rx.done /\ rx.ticks # -1 => rx.ticks = FrameTicks(uart)
               /\ NoFrameLate' ]_vars
  <2>1. NoFrameLate'
    BY <1>1, NeverLate, PTL
  <2>2. CASE Tick
    BY <2>1, <2>2, <1>1, TickOnTime
  <2>3. CASE ~Tick
    BY <2>1, <2>3, <1>1, NothingNew
  <2> QED
    BY <2>2, <2>3
<1>2. OnTime /\ UartInv /\ [Next]_vars => OnTime'
  <2>1. OnTime => UartTypeOK
    BY DEF OnTime
  <2> QED
    BY <2>1, StaysTyped, StaysOnTime
<1> QED
  BY <1>1, <1>2, StartsOnTime, StartsAccounted, StaysAccounted, PTL DEF Spec, FramesTakeTheirTime

=============================================================================
