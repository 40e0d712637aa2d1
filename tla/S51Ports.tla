-------------------------------- MODULE S51Ports --------------------------------
(***************************************************************************)
(* A port of the 8051, cl_port (port.cc): the latch in the cell of Px, the *)
(* levels that outside circuits give its pins, the configuration cells     *)
(* beside them, and what its partners (the timers, the external            *)
(* interrupts, the counter array) hear of it in EV_PORT_CHANGED events.  A *)
(* write of any of its cells runs cl_port::write, and so does the write of *)
(* port_value that it does itself.  Left out are the other ports' lines.   *)
(***************************************************************************)
EXTENDS Integers, Sequences, FiniteSets

CONSTANT Lines   \* the bits of the port; 0 is the lowest

ASSUME PortsAssumption == IsFiniteSet(Lines) /\ 0 \in Lines

VARIABLES
  port,         \* latch, port_pins and port_value: the lines that are high
  seen,         \* the level of each line as the last event told it
  port_events,  \* the lines before and after, as each event of the last
                \* operation told them
  port_inst,    \* history: who did the last operation
  unseen        \* history: the latch or a level changed, or an event lied,
                \* and no true event came since

port_vars == <<port, seen, port_events, port_inst, unseen>>

(* Portx = Px AND Pinx.                                                     *)
PortLines(p) == p.latch \cap p.pins

-----------------------------------------------------------------------------
(* The event that write() sends at its end: old and new are the cell of Px  *)
(* and what was written into a cell, whichever that is.                     *)
PortEventOf(p, new) == IF new = p.latch THEN <<>> ELSE <<[old |-> PortLines(p), new |-> p.pins \cap new]>>

(* cfg->write(port_value, level), unless it is that already: write() runs   *)
(* for the cell of port_value.                                              *)
ValueEvents(p, level) == IF level = p.value THEN <<>> ELSE PortEventOf(p, level)

(* Mutant: no event when port_value is right already.                       *)
LatchEventsOfValue(p, n) == ValueEvents(p, n \cap p.pins)

(* A write of Px, or of a bit of it: port_value is written first.           *)
LatchEvents(p, n) == ValueEvents(p, n \cap p.pins) \o PortEventOf(p, n)

WithLatch(p, n) == [p EXCEPT !.latch = n, !.value = n \cap p.pins]

(* set_pin().                                                               *)
PinEventsOf(p, q) ==
  LET after == [p EXCEPT !.pins = q]
  IN (IF q = p.pins THEN <<>> ELSE <<[old |-> PortLines(p), new |-> PortLines(after)]>>)
       \o ValueEvents(after, PortLines(after))

WithPins(p, q) == [p EXCEPT !.pins = q, !.value = p.latch \cap q]

PortDone(who, p, events) ==
  /\ port' = p
  /\ port_events' = events
  /\ port_inst' = who
  /\ seen' = IF events = <<>> THEN seen ELSE events[Len(events)].new
  /\ unseen' = IF events = <<>> THEN unseen \/ PortLines(p) # PortLines(port) \/ p.value # PortLines(p)
               ELSE seen' # PortLines(p) \/ p.value # PortLines(p)

WritePort ==
  \E n \in SUBSET Lines : PortDone("program", WithLatch(port, n), LatchEvents(port, n))

(* SETB, CLR and the like put the byte together from the latch.             *)
WritePortBit ==
  \E i \in Lines, b \in BOOLEAN :
    LET n == IF b THEN port.latch \cup {i} ELSE port.latch \ {i}
    IN PortDone("program", WithLatch(port, n), LatchEvents(port, n))

(* set hardware port[].                                                     *)
SetPins ==
  \E q \in SUBSET Lines : PortDone("outside", WithPins(port, q), PinEventsOf(port, q))

(* The counter array and Timer 2 use set(), which runs nothing.             *)
HardwareSet ==
  \E n \in SUBSET Lines : PortDone("hardware", [port EXCEPT !.latch = n], <<>>)

(* The configuration cells, which are variables of the simulator: an event  *)
(* with what was written follows, as if it had been written into Px.        *)
WritePinCell ==
  \E q \in SUBSET Lines :
    PortDone("user", WithPins(port, q), PinEventsOf(port, q) \o PortEventOf(WithPins(port, q), q))

WriteValueCell ==
  \E v \in SUBSET Lines : PortDone("user", [port EXCEPT !.value = v], PortEventOf(port, v))

WriteOdrCell ==
  \E n \in SUBSET Lines : PortDone("user", WithLatch(port, n), LatchEvents(port, n))

WriteOnCell ==
  \E n \in {{}, {0}} : PortDone("user", port, PortEventOf(port, n))

(* clear_sfr() sets the cell of Px to 0 without an event and writes 0xff.   *)
PortReset ==
  LET cleared == [port EXCEPT !.latch = {}]
  IN PortDone("reset", WithLatch(cleared, Lines), LatchEvents(cleared, Lines))

PortsInit ==
  /\ port = [latch |-> Lines, pins |-> Lines, value |-> Lines]
  /\ seen = Lines
  /\ port_events = <<>>
  /\ port_inst = "reset"
  /\ unseen = FALSE

PortsNext ==
  \/ WritePort \/ WritePortBit \/ SetPins \/ HardwareSet
  \/ WritePinCell \/ WriteValueCell \/ WriteOdrCell \/ WriteOnCell \/ PortReset

PortsSpec == PortsInit /\ [][PortsNext]_port_vars

-----------------------------------------------------------------------------
(* Every variable stays in its range.                                       *)
PortsTypeOK ==
  /\ port \in [latch : SUBSET Lines, pins : SUBSET Lines, value : SUBSET Lines]
  /\ seen \in SUBSET Lines
  /\ Len(port_events) <= 3
  /\ port_inst \in {"program", "outside", "hardware", "user", "reset"}
  /\ unseen \in BOOLEAN

(* The edges of a line that partners count in the events of an operation.   *)
RisesIn(i, events) == {k \in DOMAIN events : i \in events[k].new \ events[k].old}
FallsIn(i, events) == {k \in DOMAIN events : i \in events[k].old \ events[k].new}

(* Partners follow the lines: whatever a program writes into the port and   *)
(* outside circuits do to its pins, and whatever happened behind the port's *)
(* back before, every edge of a line is heard and none is made up.  Edges   *)
(* from outside are heard once.  The levels that partners last heard, and   *)
(* port_value, are those of the lines after every event, but for events     *)
(* that a user makes by writing a configuration cell.                       *)
PartnersFollow ==
  [][ /\ port_inst' \in {"program", "outside"} =>
           \A i \in Lines :
             /\ RisesIn(i, port_events') # {} <=> i \in PortLines(port') \ PortLines(port)
             /\ FallsIn(i, port_events') # {} <=> i \in PortLines(port) \ PortLines(port')
      /\ port_inst' = "outside" =>
           \A i \in Lines : Cardinality(RisesIn(i, port_events') \cup FallsIn(i, port_events')) <= 1
      /\ port_events' # <<>> /\ port_inst' # "user" => seen' = PortLines(port') /\ ~unseen'
      /\ ~unseen' => seen' = PortLines(port') /\ port'.value = PortLines(port') ]_port_vars

=============================================================================
