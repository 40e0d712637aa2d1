----------------------------- MODULE AddressSpace -----------------------------
(***************************************************************************)
(* One address space of the simulator (cl_address_space, mem.cc): decoders *)
(* that map areas of it to chips, bankers that map an area to the bank a   *)
(* register selects, and the cells, which keep the slot they were last     *)
(* decoded to.  It starts as `regs', whose banker is steered by RS1 and    *)
(* RS0 of PSW; the user's `memory' commands change it at any moment.       *)
(*                                                                         *)
(* Left out: banders, bankers with two selectors, and areas given with     *)
(* their end before their begin.                                           *)
(***************************************************************************)
EXTENDS Integers, FiniteSets

CONSTANTS
  Top,          \* the highest address; the lowest is 0
  RS,           \* what the selector can hold: one bank each
  ChipSize,     \* the size of each chip
  RegsChip,     \* the chip of the registers
  Begins,       \* chip addresses that commands name
  MaxCommands   \* bound: commands in one behaviour

Cells == 0..Top
Chips == DOMAIN ChipSize
NoChip == "none"
NoSlot == <<>>

ASSUME SpaceAssumption ==
  /\ Top \in Nat
  /\ RS \subseteq Nat /\ 0 \in RS
  /\ ChipSize \in [Chips -> Nat \ {0}]
  /\ NoChip \notin Chips /\ RegsChip \in Chips
  /\ Begins \subseteq Nat
  /\ MaxCommands \in Nat

VARIABLES
  decoders,   \* the decoders and bankers of the space
  cell,       \* the slot each cell shows, or NoSlot
  rs,         \* RS1 and RS0 as PSW holds them
  commands,   \* commands given so far
  meant,      \* history: what the commands say of each address, bank by bank
  shown,      \* history: the slot each address was last made to show
  torn        \* history: addresses that a command disturbed which cut or
              \* removed a banker, or defined one of its banks anew

space_vars == <<decoders, cell, rs, commands, meant, shown, torn>>

-----------------------------------------------------------------------------
Slot(chip, a) == IF chip \in Chips /\ a < ChipSize[chip] THEN <<chip, a>> ELSE NoSlot

Area(d) == d.begin..d.end

Bankers(ds) == {d \in ds : d.is_banker}

(* A bank is a decoder of its own, made with the area of its banker.        *)
Bank(home, chip, cb) == [home |-> home, chip |-> chip, chip_begin |-> cb]
NoBanks == [b \in RS |-> Bank({}, NoChip, 0)]

Decoder(b, e, chip, cb) ==
  [begin |-> b, end |-> e, chip |-> chip, chip_begin |-> cb,
   is_banker |-> FALSE, banks |-> NoBanks, bank |-> -1]

Banker(b, e) ==
  [begin |-> b, end |-> e, chip |-> NoChip, chip_begin |-> 0,
   is_banker |-> TRUE, banks |-> NoBanks, bank |-> -1]

Decoded(d, a) == Slot(d.chip, d.chip_begin + a - d.begin)

(* What a banker's area shows with bank b: it starts at the banker's begin, *)
(* wherever the bank's own area began.                                      *)
Banked(d, b, a) == Slot(d.banks[b].chip, d.banks[b].chip_begin + a - d.begin)

-----------------------------------------------------------------------------
(* undecode_area(): what is left of d beside b..e.  The part above becomes  *)
(* a new decoder when there is a part below as well; such a part of a       *)
(* banker has no chip.                                                      *)
Below(d, b) == IF d.begin < b THEN {[d EXCEPT !.end = b - 1]} ELSE {}

(* Mutant: the part above goes on where the chip of d began.                *)
AboveUnmoved(d, b, e) == IF e < d.end THEN {[d EXCEPT !.begin = e + 1]} ELSE {}

Above(d, b, e) ==
  IF e >= d.end THEN {}
  ELSE IF ~d.is_banker THEN {[d EXCEPT !.begin = e + 1, !.chip_begin = @ + e - d.begin + 1]}
  ELSE IF d.begin < b THEN {Decoder(e + 1, d.end, NoChip, 0)}
  ELSE {[d EXCEPT !.begin = e + 1]}

Touches(d, b, e) == d.begin <= e /\ b <= d.end

Remains(d, b, e) == IF Touches(d, b, e) THEN Below(d, b) \cup Above(d, b, e) ELSE {d}

Undecoded(b, e) == UNION {Remains(d, b, e) : d \in decoders}

(* The cells it undecodes: what d gives up, everything above b if d begins  *)
(* below it, and all the areas of the banks of a banker of which nothing is *)
(* left.                                                                    *)
Lost(d, b, e) ==
  IF ~Touches(d, b, e) THEN {}
  ELSE IF d.is_banker /\ Remains(d, b, e) = {}
  THEN Area(d) \cup UNION {d.banks[k].home : k \in RS}
  ELSE IF d.begin < b THEN b..d.end ELSE Area(d) \cap 0..e

(* The parts above that are new decoders, and activated.                    *)
NewParts(b, e) == UNION {Above(d, b, e) : d \in {d \in decoders : d.begin < b /\ e < d.end}}

CellsUndecoded(b, e) ==
  [a \in Cells |->
     IF \E d \in NewParts(b, e) : a \in Area(d)
     THEN Decoded(CHOOSE d \in NewParts(b, e) : a \in Area(d), a)
     ELSE IF \E d \in decoders : a \in Lost(d, b, e) THEN NoSlot ELSE cell[a]]

(* Addresses outside b..e that the command b..e disturbs: what is left of a *)
(* banker that it cuts, and the areas of the banks of one that it removes.  *)
Disturbed(b, e) ==
  (UNION {IF Remains(d, b, e) # {} THEN Area(d) ELSE UNION {d.banks[k].home : k \in RS} :
            d \in {d \in Bankers(decoders) : Touches(d, b, e)}}) \ (b..e)

-----------------------------------------------------------------------------
(* cl_banker::activate(): a bank that is selected already, or not defined,  *)
(* changes nothing.                                                         *)
Switches(d, v) == d.bank # v /\ d.banks[v].chip # NoChip

Activated(d, v) == IF Switches(d, v) THEN [d EXCEPT !.bank = v] ELSE d

CellsAfter(ds, v, cells) ==
  [a \in Cells |->
     IF \E d \in Bankers(ds) : a \in Area(d) /\ Switches(d, v)
     THEN LET d == CHOOSE d \in Bankers(ds) : a \in Area(d) /\ Switches(d, v)
          IN Banked(d, v, a)
     ELSE cells[a]]

(* What the commands make the addresses of `area' show when v is selected.  *)
ShownAfter(table, area, v) ==
  [a \in Cells |-> IF a \in area /\ v \in DOMAIN table[a] THEN table[a][v] ELSE shown[a]]

Command == commands < MaxCommands /\ commands' = commands + 1

(* memory create addressdecoder: add() and activate().                      *)
CreateDecoder ==
  \E b \in Cells, e \in Cells, chip \in Chips, cb \in Begins :
    LET d == Decoder(b, e, chip, cb)
    IN /\ Command
       /\ b <= e /\ cb < ChipSize[chip] /\ e - b <= ChipSize[chip] - cb
       /\ decoders' = Undecoded(b, e) \cup {d}
       /\ cell' = [a \in Cells |-> IF a \in b..e THEN Decoded(d, a)
                                   ELSE CellsUndecoded(b, e)[a]]
       /\ meant' = [a \in Cells |-> IF a \in b..e THEN <<>> ELSE meant[a]]
       /\ shown' = [a \in Cells |-> IF a \in b..e THEN Slot(chip, cb + a - b) ELSE shown[a]]
       /\ torn' = (torn \ b..e) \cup Disturbed(b, e)
       /\ UNCHANGED rs

(* memory create banker: add(), undecode_area() and activate(), which finds *)
(* no bank.                                                                 *)
CreateBanker ==
  \E b \in Cells, e \in Cells :
    /\ Command /\ b <= e
    /\ decoders' = Undecoded(b, e) \cup {Banker(b, e)}
    /\ cell' = CellsUndecoded(b, e)
    /\ meant' = [a \in Cells |-> IF a \in b..e THEN <<>> ELSE meant[a]]
    /\ shown' = [a \in Cells |-> IF a \in b..e THEN NoSlot ELSE shown[a]]
    /\ torn' = (torn \ b..e) \cup Disturbed(b, e)
    /\ UNCHANGED rs

(* memory create bank: add_bank() of the banker at an address.  A bank that *)
(* was defined is deleted first, which undecodes all of its area.           *)
CreateBank ==
  \E d \in Bankers(decoders), k \in RS, chip \in Chips, cb \in Begins :
    LET new == [d EXCEPT !.banks[k] = Bank(Area(d), chip, cb)]
        wiped == [a \in Cells |-> IF a \in d.banks[k].home THEN NoSlot ELSE cell[a]]
        table == [a \in Cells |-> IF a \in Area(d)
                                  THEN [v \in DOMAIN meant[a] \cup {k} |->
                                          IF v = k THEN Slot(chip, cb + a - d.begin)
                                          ELSE meant[a][v]]
                                  ELSE meant[a]]
    IN /\ Command /\ cb < ChipSize[chip]
       /\ decoders' = (decoders \ {d}) \cup {Activated(new, rs)}
       /\ cell' = CellsAfter({new}, rs, wiped)
       /\ meant' = table
       /\ shown' = ShownAfter(table, Area(d), rs)
       /\ torn' = torn \cup d.banks[k].home
       /\ UNCHANGED rs

(* memory remove chip, of a chip that no bank uses.                         *)
RemoveChip ==
  \E chip \in Chips :
    LET gone == {d \in decoders : d.chip = chip}
        area == UNION {Area(d) : d \in gone}
    IN /\ Command /\ gone # {}
       /\ \A d \in Bankers(decoders), k \in RS : d.banks[k].chip # chip
       /\ decoders' = decoders \ gone
       /\ cell' = [a \in Cells |-> IF a \in area THEN NoSlot ELSE cell[a]]
       /\ shown' = [a \in Cells |-> IF a \in area THEN NoSlot ELSE shown[a]]
       /\ UNCHANGED <<rs, meant, torn>>

(* A write of PSW as a byte: the operators of the bankers set the cell and  *)
(* activate.                                                                *)
WritePSW ==
  \E v \in RS :
    /\ rs' = v
    /\ decoders' = {IF d.is_banker THEN Activated(d, v) ELSE d : d \in decoders}
    /\ cell' = CellsAfter(decoders, v, cell)
    /\ shown' = ShownAfter(meant, Cells, v)
    /\ UNCHANGED <<commands, meant, torn>>

(* SETB and CLR of a bit of PSW: the bit's cell writes the byte in the chip *)
(* and no operator of sfr sees it.                                          *)
WriteBitRS == \E v \in RS : rs' = v /\ UNCHANGED <<decoders, cell, commands, meant, shown, torn>>

(* decode_regs(): one bank after the other in the registers' chip.          *)
RegsSlot(k, a) == Slot(RegsChip, k * (Top + 1) + a)

SpaceInit ==
  /\ decoders = {[Banker(0, Top) EXCEPT !.bank = 0,
                    !.banks = [k \in RS |-> Bank(Cells, RegsChip, k * (Top + 1))]]}
  /\ cell = [a \in Cells |-> RegsSlot(0, a)]
  /\ rs = 0
  /\ commands = 0
  /\ meant = [a \in Cells |-> [k \in RS |-> RegsSlot(k, a)]]
  /\ shown = [a \in Cells |-> RegsSlot(0, a)]
  /\ torn = {}

SpaceNext ==
  CreateDecoder \/ CreateBanker \/ CreateBank \/ RemoveChip \/ WritePSW \/ WriteBitRS

SpaceSpec == SpaceInit /\ [][SpaceNext]_space_vars

-----------------------------------------------------------------------------
(* Every variable stays in its range and no address has two decoders.       *)
SpaceTypeOK ==
  /\ \A d \in decoders : /\ d.begin \in Cells /\ d.end \in Cells /\ d.begin <= d.end
                         /\ d.chip \in Chips \cup {NoChip} /\ d.bank \in RS \cup {-1}
  /\ \A d1, d2 \in decoders : d1 = d2 \/ Area(d1) \cap Area(d2) = {}
  /\ \A a \in Cells : cell[a] = NoSlot \/ cell[a] \in Chips \X Nat
  /\ rs \in RS
  /\ commands \in 0..MaxCommands
  /\ torn \subseteq Cells

(* However decoders, bankers and banks are laid over each other, a cell     *)
(* shows what the last command that named its address said, and in a banked *)
(* area the bank selected at the last byte write: the parts of a split      *)
(* decoder keep their slots, and no command disturbs another's area.  Left  *)
(* out is what commands on bankers disturb, until a command names it again. *)
CellsAsMeant == \A a \in Cells \ torn : cell[a] = shown[a]

(* docs/cmd_general.html: the register bank is the one RS0 and RS1 select.  *)
RegsFollowRS ==
  \A a \in Cells \ torn : rs \in DOMAIN meant[a] => cell[a] = meant[a][rs]

=============================================================================
