----------------------------- MODULE S51PartsProof -----------------------------
(***************************************************************************)
(* Proofs about the parts that MCS51Core puts beside the core, and about    *)
(* the whole: AddressSpace, for spaces, chips and banks of any size and     *)
(* number, S51Ports, for any lines, PollOrder, for any sources, priorities  *)
(* and orders, and S52Timer2, for bytes of any number of values.  A cycle   *)
(* of Timer 2 counts several times: its proof goes over the counts with the *)
(* lemmas of CountingProof, and so does that of the list's binary search.   *)
(***************************************************************************)
EXTENDS MCS51Core, S51CoreProof, S51AluProof, CountingProof

CellSlots == {NoSlot} \cup (Chips \X Nat)

Banks == [home : SUBSET Cells, chip : Chips \cup {NoChip}, chip_begin : Nat]

Decoders ==
  [begin : Cells, end : Cells, chip : Chips \cup {NoChip}, chip_begin : Nat,
   is_banker : BOOLEAN, banks : [RS -> Banks], bank : RS \cup {-1}]

Defined(d) == {k \in RS : d.banks[k].chip # NoChip}

(* What holds of each decoder alone.                                         *)
Sound(d) ==
  /\ d \in Decoders
  /\ d.begin <= d.end
  /\ d.is_banker => d.chip = NoChip /\ \A k \in Defined(d) : Area(d) \subseteq d.banks[k].home
  /\ d.bank \in RS => d.bank \in Defined(d)

Apart(ds) == \A d1, d2 \in ds : d1 = d2 \/ Area(d1) \cap Area(d2) = {}

(* A plain decoder has all its cells, and a banker's banks are what the      *)
(* commands said of each address, of which the selected one is shown.        *)
PlainShown(d, s, t) == \A a \in Area(d) \ t : Decoded(d, a) = s[a]

BanksShown(d, m, s, t) ==
  \A a \in Area(d) \ t :
    /\ DOMAIN m[a] = Defined(d)
    /\ \A k \in Defined(d) : m[a][k] = Banked(d, k, a)
    /\ d.bank \in RS => s[a] = Banked(d, d.bank, a)

Shows(d, m, s, t) == IF d.is_banker THEN BanksShown(d, m, s, t) ELSE PlainShown(d, s, t)

(* No bank is known of an address outside the bankers.                       *)
Unbanked(ds, m, t) == \A a \in Cells \ t : (\A d \in Bankers(ds) : a \notin Area(d)) => DOMAIN m[a] = {}

(* A cell that no decoder has is not decoded.                                *)
Bare(ds, c) == \A a \in Cells : (\A d \in ds : a \notin Area(d)) => c[a] = NoSlot

SpaceTypes ==
  /\ cell \in [Cells -> CellSlots] /\ shown \in [Cells -> CellSlots]
  /\ DOMAIN meant = Cells
  /\ \A a \in Cells : DOMAIN meant[a] \subseteq RS /\ \A k \in DOMAIN meant[a] : meant[a][k] \in CellSlots
  /\ rs \in RS /\ commands \in 0..MaxCommands /\ torn \subseteq Cells

SpaceInv ==
  /\ SpaceTypes
  /\ \A d \in decoders : Sound(d)
  /\ Apart(decoders)
  /\ \A d \in decoders : Shows(d, meant, shown, torn)
  /\ Unbanked(decoders, meant, torn)
  /\ Bare(decoders, cell)
  /\ CellsAsMeant

-----------------------------------------------------------------------------
(* What a chip decodes an address to.                                       *)
LEMMA SlotType ==
  ASSUME NEW chip \in Chips \cup {NoChip}, NEW a \in Nat
  PROVE  Slot(chip, a) \in CellSlots
  BY DEF Slot, CellSlots

(* A decoder gives every address of its area a slot, and every bank its     *)
(* own.                                                                     *)
LEMMA DecodedType ==
  ASSUME NEW d \in Decoders, NEW a \in Area(d)
  PROVE  Decoded(d, a) \in CellSlots /\ \A k \in RS : Banked(d, k, a) \in CellSlots
<1>1. a - d.begin \in Nat /\ d.chip_begin + a - d.begin \in Nat
  BY SpaceAssumption DEF Decoders, Area, Cells
<1>2. ASSUME NEW k \in RS PROVE d.banks[k].chip_begin + a - d.begin \in Nat /\ d.banks[k].chip \in Chips \cup {NoChip}
  BY <1>1, SpaceAssumption DEF Decoders, Banks, Area, Cells
<1> QED
  BY <1>1, <1>2, SlotType DEF Decoded, Banked, Decoders

(* An area lies in the address space.                                       *)
LEMMA AreaInCells ==
  ASSUME NEW d \in Decoders PROVE Area(d) \subseteq Cells
  BY SpaceAssumption DEF Decoders, Area, Cells

(* A part that is left of a decoder beside b..e.                             *)
LEMMA PartOf ==
  ASSUME NEW d, Sound(d), NEW b \in Cells, NEW e \in Cells, b <= e, NEW p \in Remains(d, b, e)
  PROVE  /\ Sound(p)
         /\ Area(p) \subseteq Area(d) \ (b..e)
         /\ ~d.is_banker => ~p.is_banker /\ \A a \in Area(p) : Decoded(p, a) = Decoded(d, a)
         /\ p = d \/ Touches(d, b, e)
         /\ d.is_banker \/ ~p.is_banker
<1>d. d \in Decoders /\ d.begin \in Int /\ d.end \in Int /\ d.begin <= d.end /\ b \in Int /\ e \in Int
      /\ 0 <= d.begin /\ d.end <= Top /\ Top \in Nat /\ 0 <= b /\ e <= Top
  BY SpaceAssumption DEF Sound, Decoders, Cells
<1>1. CASE ~Touches(d, b, e)
  <2>1. p = d
    BY <1>1 DEF Remains
  <2>2. Area(d) \cap (b..e) = {}
    BY <1>1, <1>d DEF Touches, Area
  <2> QED
    BY <2>1, <2>2
<1>2. CASE Touches(d, b, e) /\ p \in Below(d, b)
  <2>1. d.begin < b /\ p = [d EXCEPT !.end = b - 1]
    BY <1>2 DEF Below
  <2>2. p \in Decoders /\ p.begin = d.begin /\ p.end = b - 1 /\ p.chip = d.chip /\ p.chip_begin = d.chip_begin
        /\ p.is_banker = d.is_banker /\ p.banks = d.banks /\ p.bank = d.bank
    BY <2>1, <1>d, SpaceAssumption DEF Decoders, Cells
  <2>3. Area(p) \subseteq Area(d) \ (b..e)
    BY <2>2, <1>d, <1>2 DEF Area, Touches
  <2>4. Sound(p)
    BY <2>1, <2>2, <2>3, <1>d DEF Sound, Defined
  <2> QED
    BY <1>2, <2>2, <2>3, <2>4 DEF Decoded
<1>3. CASE Touches(d, b, e) /\ p \in Above(d, b, e)
  <2>0. e < d.end
    BY <1>3, <1>d DEF Above
  <2>1. CASE d.is_banker /\ d.begin < b
    <3>1. p = Decoder(e + 1, d.end, NoChip, 0)
      BY <1>3, <1>d, <2>0, <2>1 DEF Above
    <3>2. NoBanks \in [RS -> Banks] /\ -1 \notin RS /\ \A k \in RS : NoBanks[k].chip = NoChip
      BY SpaceAssumption DEF NoBanks, Bank, Banks
    <3>3. p \in Decoders /\ p.begin = e + 1 /\ p.end = d.end /\ ~p.is_banker /\ p.bank = -1
      BY <3>1, <3>2, <2>0, <1>d DEF Decoder, Decoders, Cells
    <3> QED
      BY <3>2, <3>3, <2>0, <2>1, <1>3, <1>d DEF Sound, Area, Touches
  <2>2. CASE d.is_banker /\ ~(d.begin < b)
    <3>1. p = [d EXCEPT !.begin = e + 1]
      BY <1>3, <1>d, <2>0, <2>2 DEF Above
    <3>2. p \in Decoders /\ p.begin = e + 1 /\ p.end = d.end /\ p.chip = d.chip
          /\ p.is_banker = d.is_banker /\ p.banks = d.banks /\ p.bank = d.bank
      BY <3>1, <2>0, <1>d DEF Decoders, Cells
    <3>3. Area(p) \subseteq Area(d) \ (b..e)
      BY <3>2, <2>0, <2>2, <1>d, <1>3 DEF Area, Touches
    <3> QED
      BY <3>2, <3>3, <2>0, <2>2, <1>3, <1>d DEF Sound, Defined
  <2>3. CASE ~d.is_banker
    <3>1. p = [d EXCEPT !.begin = e + 1, !.chip_begin = d.chip_begin + e - d.begin + 1]
      BY <1>3, <1>d, <2>0, <2>3 DEF Above
    <3>2. d.chip_begin \in Nat /\ d.chip_begin + e - d.begin + 1 \in Nat
      BY <1>d, <1>3 DEF Decoders, Touches
    <3>3. p \in Decoders /\ p.begin = e + 1 /\ p.end = d.end /\ p.chip = d.chip /\ p.banks = d.banks
          /\ p.chip_begin = d.chip_begin + e - d.begin + 1 /\ ~p.is_banker /\ p.bank = d.bank
      <4>1. e + 1 \in Cells
        BY <2>0, <1>d DEF Cells
      <4>2. p \in Decoders
        BY <3>1, <3>2, <4>1, <1>d DEF Decoders
      <4>3. p.begin = e + 1 /\ p.end = d.end /\ p.chip = d.chip /\ p.banks = d.banks /\ p.bank = d.bank
            /\ p.chip_begin = d.chip_begin + e - d.begin + 1 /\ p.is_banker = d.is_banker
        BY <3>1, <1>d DEF Decoders
      <4> QED
        BY <4>2, <4>3, <2>3
    <3>4. Area(p) \subseteq Area(d) \ (b..e)
      BY <3>3, <2>0, <1>d, <1>3 DEF Area, Touches
    <3>5. ASSUME NEW a \in Area(p) PROVE Decoded(p, a) = Decoded(d, a)
      <4>1. p.chip_begin + a - p.begin = d.chip_begin + a - d.begin
        BY <3>2, <3>3, <1>d DEF Area
      <4> QED
        BY <4>1, <3>3 DEF Decoded
    <3>6. Sound(p)
      BY <3>3, <2>0, <2>3, <1>d DEF Sound, Defined
    <3> QED
      BY <3>3, <3>4, <3>5, <3>6, <1>3
  <2> QED
    BY <2>1, <2>2, <2>3
<1> QED
  BY <1>1, <1>2, <1>3 DEF Remains

(* Two parts of one decoder lie apart.                                       *)
LEMMA PartsApart ==
  ASSUME NEW d, Sound(d), NEW b \in Cells, NEW e \in Cells, b <= e,
         NEW p \in Remains(d, b, e), NEW q \in Remains(d, b, e)
  PROVE  p = q \/ Area(p) \cap Area(q) = {}
<1>d. d.begin \in Int /\ d.end \in Int /\ b \in Int /\ e \in Int
  BY SpaceAssumption DEF Sound, Decoders, Cells
<1>1. CASE ~Touches(d, b, e)
  BY <1>1 DEF Remains
<1>2. ASSUME NEW x \in Below(d, b) PROVE x = [d EXCEPT !.end = b - 1] /\ Area(x) \subseteq d.begin..(b - 1)
  <2>1. x = [d EXCEPT !.end = b - 1]
    BY <1>2 DEF Below
  <2> QED
    BY <2>1 DEF Area, Sound, Decoders
<1>3. ASSUME NEW x \in Above(d, b, e), NEW y \in Above(d, b, e) PROVE x = y
  BY DEF Above
<1>4. ASSUME NEW x \in Above(d, b, e) PROVE Area(x) \subseteq (e + 1)..d.end
  <2>1. e < d.end
    BY <1>4, <1>d DEF Above
  <2>2. x.begin = e + 1 /\ x.end = d.end
    <3>1. CASE ~d.is_banker
      <4>1. x = [d EXCEPT !.begin = e + 1, !.chip_begin = @ + e - d.begin + 1]
        BY <1>4, <2>1, <3>1, <1>d DEF Above
      <4> QED
        BY <4>1 DEF Sound, Decoders
    <3>2. CASE d.is_banker /\ d.begin < b
      BY <1>4, <2>1, <3>2, <1>d DEF Above, Decoder
    <3>3. CASE d.is_banker /\ ~(d.begin < b)
      <4>1. x = [d EXCEPT !.begin = e + 1]
        BY <1>4, <2>1, <3>3, <1>d DEF Above
      <4> QED
        BY <4>1 DEF Sound, Decoders
    <3> QED
      BY <3>1, <3>2, <3>3
  <2> QED
    BY <2>2 DEF Area
<1>5. (d.begin..(b - 1)) \cap ((e + 1)..d.end) = {}
  BY <1>d
<1> QED
  BY <1>1, <1>2, <1>3, <1>4, <1>5 DEF Remains

(* An address outside a range that is taken away from a banker is           *)
(* disturbed when the banker still shows it.                                *)
LEMMA IsDisturbed ==
  ASSUME NEW b, NEW e, NEW a, a \notin b..e, NEW d \in Bankers(decoders), Touches(d, b, e),
         IF Remains(d, b, e) # {} THEN a \in Area(d) ELSE \E k \in RS : a \in d.banks[k].home
  PROVE  a \in Disturbed(b, e)
<1> DEFINE D(x) == IF Remains(x, b, e) # {} THEN Area(x) ELSE UNION {x.banks[k].home : k \in RS}
           S == {x \in Bankers(decoders) : Touches(x, b, e)}
<1>1. d \in S
  OBVIOUS
<1>2. a \in D(d)
  OBVIOUS
<1>3. a \in UNION {D(x) : x \in S}
  <2> HIDE DEF D, S
  <2> QED
    BY <1>1, <1>2
<1>4. Disturbed(b, e) = (UNION {D(x) : x \in S}) \ (b..e)
  BY Zenon DEF Disturbed
<1> HIDE DEF D, S
<1> QED
  BY <1>3, <1>4

(* Undecoding keeps decoders sound and apart, and what plain ones show; a    *)
(* banker that it touches has the addresses left of it disturbed.            *)
LEMMA UndecodedKeeps ==
  ASSUME NEW b \in Cells, NEW e \in Cells, b <= e,
         \A d \in decoders : Sound(d), Apart(decoders)
  PROVE  /\ \A p \in Undecoded(b, e) : Sound(p) /\ Area(p) \cap (b..e) = {}
         /\ Apart(Undecoded(b, e))
         /\ \A p \in Undecoded(b, e) :
              \/ p \in decoders
              \/ Area(p) \subseteq Disturbed(b, e)
              \/ /\ ~p.is_banker
                 /\ \E d \in decoders : /\ ~d.is_banker /\ Area(p) \subseteq Area(d)
                                        /\ \A a \in Area(p) : Decoded(p, a) = Decoded(d, a)
<1>1. ASSUME NEW p \in Undecoded(b, e) PROVE \E d \in decoders : p \in Remains(d, b, e)
  BY <1>1 DEF Undecoded
<1>2. \A p \in Undecoded(b, e) : Sound(p) /\ Area(p) \cap (b..e) = {}
  BY <1>1, PartOf
<1>3. ASSUME NEW p \in Undecoded(b, e), NEW q \in Undecoded(b, e)
      PROVE  p = q \/ Area(p) \cap Area(q) = {}
  <2>1. PICK d1 \in decoders : p \in Remains(d1, b, e)
    BY <1>1
  <2>2. PICK d2 \in decoders : q \in Remains(d2, b, e)
    BY <1>1
  <2>3. CASE d1 = d2
    BY <2>1, <2>2, <2>3, PartsApart
  <2>4. CASE d1 # d2
    <3>1. Area(d1) \cap Area(d2) = {}
      BY <2>4 DEF Apart
    <3>2. Area(p) \subseteq Area(d1) /\ Area(q) \subseteq Area(d2)
      BY <2>1, <2>2, PartOf
    <3> QED
      BY <3>1, <3>2
  <2> QED
    BY <2>3, <2>4
<1>4. ASSUME NEW p \in Undecoded(b, e), p \notin decoders
      PROVE  \/ Area(p) \subseteq Disturbed(b, e)
             \/ /\ ~p.is_banker
                /\ \E d \in decoders : /\ ~d.is_banker /\ Area(p) \subseteq Area(d)
                                       /\ \A a \in Area(p) : Decoded(p, a) = Decoded(d, a)
  <2>1. PICK d \in decoders : p \in Remains(d, b, e)
    BY <1>1
  <2>2. /\ Area(p) \subseteq Area(d) \ (b..e)
        /\ ~d.is_banker => ~p.is_banker /\ \A a \in Area(p) : Decoded(p, a) = Decoded(d, a)
        /\ Touches(d, b, e)
    BY <2>1, <1>4, PartOf
  <2>3. CASE d.is_banker
    <3>1. d \in Bankers(decoders) /\ Remains(d, b, e) # {}
      BY <2>1, <2>3 DEF Bankers
    <3> QED
      BY <3>1, <2>2, IsDisturbed
  <2> QED
    BY <2>2, <2>3
<1> QED
  BY <1>2, <1>3, <1>4 DEF Apart

(* No cell outside b..e that is not disturbed changes.                       *)
LEMMA UndecodedCells ==
  ASSUME SpaceInv, NEW b \in Cells, NEW e \in Cells, b <= e,
         NEW a \in Cells \ (b..e), a \notin torn, a \notin Disturbed(b, e)
  PROVE  CellsUndecoded(b, e)[a] = shown[a]
<1>i. b \in Int /\ e \in Int /\ a \in Int
  BY SpaceAssumption DEF Cells
<1>d. \A d \in decoders : Sound(d) /\ d.begin \in Int /\ d.end \in Int /\ d.begin <= d.end
  BY SpaceAssumption DEF SpaceInv, Sound, Decoders, Cells
<1>b. ASSUME NEW d \in Bankers(decoders), Touches(d, b, e), Remains(d, b, e) # {} PROVE a \notin Area(d)
  BY <1>b, IsDisturbed
<1>1. ASSUME NEW p \in NewParts(b, e), a \in Area(p) PROVE Decoded(p, a) = shown[a]
  <2>1. PICK d \in decoders : d.begin < b /\ e < d.end /\ p \in Above(d, b, e)
    BY <1>1 DEF NewParts
  <2>2. Touches(d, b, e) /\ p \in Remains(d, b, e)
    BY <2>1, <1>d, <1>i DEF Touches, Remains
  <2>3. a \in Area(d) /\ (~d.is_banker => Decoded(p, a) = Decoded(d, a))
    BY <2>2, <1>1, <1>d, PartOf
  <2>4. ~d.is_banker
    BY <2>2, <2>3, <1>b DEF Bankers
  <2> QED
    BY <2>3, <2>4 DEF SpaceInv, Shows, PlainShown
<1>2. ASSUME \A p \in NewParts(b, e) : a \notin Area(p), NEW d \in decoders, a \in Lost(d, b, e) PROVE FALSE
  <2>1. Touches(d, b, e)
    BY <1>2 DEF Lost
  <2>2. CASE d.is_banker /\ Remains(d, b, e) = {}
    <3>1. d.begin >= b /\ d.end <= e
      <4>1. Below(d, b) = {} /\ Above(d, b, e) = {}
        BY <2>1, <2>2 DEF Remains
      <4>2. d.begin >= b
        <5> SUFFICES ASSUME d.begin < b PROVE FALSE
          BY <1>d, <1>i
        <5>1. [d EXCEPT !.end = b - 1] \in Below(d, b)
          BY DEF Below
        <5> QED
          BY <4>1, <5>1
      <4>3. d.end <= e
        BY <4>1, <1>d, <1>i, Zenon DEF Above
      <4> QED
        BY <4>2, <4>3
    <3>2. a \notin Area(d)
      BY <3>1, <1>d, <1>i DEF Area
    <3>3. a \in UNION {d.banks[k].home : k \in RS}
      BY <1>2, <2>1, <2>2, <3>2 DEF Lost
    <3>4. a \in Disturbed(b, e)
      BY <3>3, <2>1, <2>2, IsDisturbed DEF Bankers
    <3> QED
      BY <3>4
  <2>3. CASE ~(d.is_banker /\ Remains(d, b, e) = {}) /\ d.begin < b
    <3>1. a \in b..d.end
      BY <1>2, <2>1, <2>3 DEF Lost
    <3>2. e < a /\ a <= d.end
      BY <3>1, <1>d, <1>i
    <3>3. a \in Area(d)
      BY <3>2, <2>3, <1>d, <1>i DEF Area
    <3>4. ~d.is_banker
      BY <3>3, <2>1, <2>3, <1>b DEF Bankers
    <3>5. [d EXCEPT !.begin = e + 1, !.chip_begin = @ + e - d.begin + 1] \in Above(d, b, e)
      BY <3>2, <3>4, <1>d, <1>i DEF Above
    <3>6. a \in Area([d EXCEPT !.begin = e + 1, !.chip_begin = @ + e - d.begin + 1])
      BY <3>2, <1>d, <1>i DEF Area, Sound, Decoders
    <3>7. e < d.end
      BY <3>2, <1>d, <1>i
    <3> QED
      BY <3>5, <3>6, <3>7, <2>3, <1>2 DEF NewParts
  <2>4. CASE ~(d.is_banker /\ Remains(d, b, e) = {}) /\ ~(d.begin < b)
    <3>1. a \in Area(d) /\ a \in 0..e
      BY <1>2, <2>1, <2>4 DEF Lost
    <3> QED
      BY <3>1, <2>4, <1>d, <1>i DEF Area
  <2> QED
    BY <2>2, <2>3, <2>4
<1>3. CASE \E d \in NewParts(b, e) : a \in Area(d)
  <2>1. (CHOOSE d \in NewParts(b, e) : a \in Area(d)) \in NewParts(b, e)
        /\ a \in Area(CHOOSE d \in NewParts(b, e) : a \in Area(d))
    BY <1>3
  <2> QED
    BY <1>1, <1>3, <2>1 DEF CellsUndecoded
<1>4. CASE ~\E d \in NewParts(b, e) : a \in Area(d)
  BY <1>2, <1>4 DEF CellsUndecoded, SpaceInv, CellsAsMeant
<1> QED
  BY <1>3, <1>4

(* What is left of a decoder beside b..e has all its other addresses.        *)
LEMMA Covers ==
  ASSUME NEW d, Sound(d), NEW b \in Cells, NEW e \in Cells, b <= e, NEW a \in Area(d), a \notin b..e
  PROVE  \E p \in Remains(d, b, e) : a \in Area(p)
<1>d. d \in Decoders /\ d.begin \in Int /\ d.end \in Int /\ b \in Int /\ e \in Int /\ a \in Int
      /\ d.begin <= a /\ a <= d.end
  BY SpaceAssumption DEF Sound, Decoders, Cells, Area
<1>1. CASE ~Touches(d, b, e)
  BY <1>1 DEF Remains
<1>2. CASE Touches(d, b, e) /\ a < b
  <2>1. [d EXCEPT !.end = b - 1] \in Remains(d, b, e)
    BY <1>2, <1>d DEF Remains, Below
  <2>2. a \in Area([d EXCEPT !.end = b - 1])
    BY <1>2, <1>d DEF Area, Decoders
  <2> QED
    BY <2>1, <2>2
<1>3. CASE Touches(d, b, e) /\ e < a
  <2>0. e < d.end
    BY <1>3, <1>d
  <2>1. \E p \in Above(d, b, e) : p.begin = e + 1 /\ p.end = d.end
    <3>1. CASE ~d.is_banker
      <4> DEFINE p == [d EXCEPT !.begin = e + 1, !.chip_begin = @ + e - d.begin + 1]
      <4>1. p.begin = e + 1 /\ p.end = d.end
        BY <1>d DEF Decoders
      <4>2. p \in Above(d, b, e)
        BY <2>0, <3>1, <1>d DEF Above
      <4> QED
        BY <4>1, <4>2
    <3>2. CASE d.is_banker /\ d.begin < b
      <4> DEFINE p == Decoder(e + 1, d.end, NoChip, 0)
      <4>1. p.begin = e + 1 /\ p.end = d.end
        BY DEF Decoder
      <4>2. p \in Above(d, b, e)
        BY <2>0, <3>2, <1>d DEF Above
      <4> QED
        BY <4>1, <4>2
    <3>3. CASE d.is_banker /\ ~(d.begin < b)
      <4> DEFINE p == [d EXCEPT !.begin = e + 1]
      <4>1. p.begin = e + 1 /\ p.end = d.end
        BY <1>d DEF Decoders
      <4>2. p \in Above(d, b, e)
        BY <2>0, <3>3, <1>d DEF Above
      <4> QED
        BY <4>1, <4>2
    <3> QED
      BY <3>1, <3>2, <3>3
  <2> QED
    BY <2>1, <1>3, <1>d DEF Area, Remains
<1> QED
  BY <1>1, <1>2, <1>3, <1>d

(* Taking a range out of use leaves cells and slots.                        *)
LEMMA UndecodedTypes ==
  ASSUME SpaceInv, NEW b \in Cells, NEW e \in Cells, b <= e
  PROVE  /\ CellsUndecoded(b, e) \in [Cells -> CellSlots]
         /\ Disturbed(b, e) \subseteq Cells
<1>1. ASSUME NEW a \in Cells PROVE CellsUndecoded(b, e)[a] \in CellSlots
  <2>1. CASE \E d \in NewParts(b, e) : a \in Area(d)
    <3> DEFINE p == CHOOSE d \in NewParts(b, e) : a \in Area(d)
    <3>1. p \in NewParts(b, e) /\ a \in Area(p)
      BY <2>1
    <3>2. PICK d \in decoders : d.begin < b /\ e < d.end /\ p \in Above(d, b, e)
      BY <3>1 DEF NewParts
    <3>3. Sound(d) /\ Touches(d, b, e)
      BY <3>2, SpaceAssumption DEF SpaceInv, Touches, Sound, Decoders, Cells
    <3>4. Sound(p)
      BY <3>2, <3>3, PartOf DEF Remains
    <3>5. Decoded(p, a) \in CellSlots
      BY <3>1, <3>4, DecodedType DEF Sound
    <3> QED
      BY <2>1, <3>5 DEF CellsUndecoded
  <2>2. CASE ~\E d \in NewParts(b, e) : a \in Area(d)
    BY <2>2 DEF CellsUndecoded, SpaceInv, SpaceTypes, CellSlots
  <2> QED
    BY <2>1, <2>2
<1>2. ASSUME NEW d \in decoders PROVE Area(d) \subseteq Cells /\ \A k \in RS : d.banks[k].home \subseteq Cells
  <2>1. d \in Decoders
    BY DEF SpaceInv, Sound
  <2>2. d.banks \in [RS -> Banks]
    BY <2>1 DEF Decoders
  <2> QED
    BY <2>1, <2>2, AreaInCells DEF Banks
<1>3. Disturbed(b, e) \subseteq Cells
  <2> DEFINE D(x) == IF Remains(x, b, e) # {} THEN Area(x) ELSE UNION {x.banks[k].home : k \in RS}
             S == {x \in Bankers(decoders) : Touches(x, b, e)}
  <2>1. Disturbed(b, e) = (UNION {D(x) : x \in S}) \ (b..e)
    BY Zenon DEF Disturbed
  <2>2. ASSUME NEW x \in S PROVE D(x) \subseteq Cells
    BY <1>2 DEF Bankers
  <2> HIDE DEF D, S
  <2> QED
    BY <2>1, <2>2
<1>4. CellsUndecoded(b, e) = [a \in Cells |-> CellsUndecoded(b, e)[a]]
  BY DEF CellsUndecoded
<1> QED
  BY <1>1, <1>3, <1>4

(* A decoder or a banker without banks is laid over b..e.                    *)
LEMMA Laid ==
  ASSUME SpaceInv, NEW b \in Cells, NEW e \in Cells, b <= e,
         NEW d, Sound(d), Area(d) = b..e, Defined(d) = {},
         NEW g \in [b..e -> CellSlots],
         ~d.is_banker => \A a \in b..e : Decoded(d, a) = g[a],
         decoders' = Undecoded(b, e) \cup {d},
         cell' = [a \in Cells |-> IF a \in b..e THEN g[a] ELSE CellsUndecoded(b, e)[a]],
         meant' = [a \in Cells |-> IF a \in b..e THEN <<>> ELSE meant[a]],
         shown' = [a \in Cells |-> IF a \in b..e THEN g[a] ELSE shown[a]],
         torn' = (torn \ b..e) \cup Disturbed(b, e),
         rs' = rs, Command
  PROVE  SpaceInv'
<1>s. \A x \in decoders : Sound(x)
  BY DEF SpaceInv
<1>a. Apart(decoders)
  BY DEF SpaceInv
<1>e. DOMAIN <<>> = {}
  OBVIOUS
<1>1. SpaceTypes'
  <2>1. cell' \in [Cells -> CellSlots] /\ shown' \in [Cells -> CellSlots] /\ torn' \subseteq Cells
    BY UndecodedTypes DEF SpaceInv, SpaceTypes
  <2>2. DOMAIN meant' = Cells
    OBVIOUS
  <2>3. ASSUME NEW a \in Cells PROVE DOMAIN meant'[a] \subseteq RS /\ \A k \in DOMAIN meant'[a] : meant'[a][k] \in CellSlots
    <3>1. CASE a \in b..e
      <4>1. meant'[a] = <<>>
        BY <3>1
      <4> QED
        BY <4>1, <1>e
    <3>2. CASE a \notin b..e
      <4>1. meant'[a] = meant[a]
        BY <3>2
      <4> QED
        BY <4>1 DEF SpaceInv, SpaceTypes
    <3> QED
      BY <3>1, <3>2
  <2>4. rs' \in RS /\ commands' \in 0..MaxCommands
    BY SpaceAssumption DEF SpaceInv, SpaceTypes, Command
  <2> QED
    BY <2>1, <2>2, <2>3, <2>4 DEF SpaceTypes
<1>k. /\ \A p \in Undecoded(b, e) : Sound(p) /\ Area(p) \cap (b..e) = {}
      /\ Apart(Undecoded(b, e))
      /\ \A p \in Undecoded(b, e) :
           \/ p \in decoders
           \/ Area(p) \subseteq Disturbed(b, e)
           \/ /\ ~p.is_banker
              /\ \E x \in decoders : /\ ~x.is_banker /\ Area(p) \subseteq Area(x)
                                     /\ \A a \in Area(p) : Decoded(p, a) = Decoded(x, a)
  BY <1>s, <1>a, UndecodedKeeps
<1>2. \A p \in decoders' : Sound(p)
  BY <1>k
<1>3. Apart(decoders')
  BY <1>k DEF Apart
<1>o. ASSUME NEW a \in Cells \ torn', a \notin b..e
      PROVE  a \notin torn /\ a \notin Disturbed(b, e) /\ meant'[a] = meant[a] /\ shown'[a] = shown[a]
  BY <1>o
<1>4. ASSUME NEW p \in decoders' PROVE Shows(p, meant', shown', torn')
  <2>1. CASE p = d /\ ~d.is_banker
    <3>1. ASSUME NEW a \in Area(d) \ torn' PROVE Decoded(d, a) = shown'[a]
      <4>1. a \in Cells
        BY AreaInCells DEF Sound
      <4> QED
        BY <2>1, <4>1
    <3> QED
      BY <2>1, <3>1 DEF Shows, PlainShown
  <2>2. CASE p = d /\ d.is_banker
    <3>1. d.bank \notin RS
      BY DEF Sound
    <3>2. ASSUME NEW a \in Area(d) PROVE DOMAIN meant'[a] = {}
      <4>1. a \in Cells /\ a \in b..e
        BY AreaInCells DEF Sound
      <4>2. meant'[a] = <<>>
        BY <4>1
      <4> QED
        BY <4>2, <1>e
    <3> QED
      BY <2>2, <3>1, <3>2 DEF Shows, BanksShown
  <2>3. CASE p \in Undecoded(b, e)
    <3>1. ASSUME NEW a \in Area(p) \ torn'
          PROVE  /\ a \in Cells /\ a \notin torn /\ a \notin Disturbed(b, e)
                 /\ meant'[a] = meant[a] /\ shown'[a] = shown[a]
      <4>1. a \in Cells /\ a \notin b..e
        BY <2>3, <1>k, AreaInCells DEF Sound
      <4> QED
        BY <4>1, <1>o
    <3>2. CASE p \in decoders
      <4>1. Shows(p, meant, shown, torn)
        BY <3>2 DEF SpaceInv
      <4>2. CASE p.is_banker
        BY <3>1, <4>1, <4>2, SMTT(60) DEF Shows, BanksShown
      <4>3. CASE ~p.is_banker
        BY <3>1, <4>1, <4>3 DEF Shows, PlainShown
      <4> QED
        BY <4>2, <4>3
    <3>3. CASE Area(p) \subseteq Disturbed(b, e)
      <4>1. Area(p) \ torn' = {}
        BY <3>3
      <4> QED
        BY <4>1 DEF Shows, BanksShown, PlainShown
    <3>4. ASSUME ~p.is_banker, NEW x \in decoders, ~x.is_banker, Area(p) \subseteq Area(x),
                 \A a \in Area(p) : Decoded(p, a) = Decoded(x, a)
          PROVE  Shows(p, meant', shown', torn')
      <4>1. PlainShown(x, shown, torn)
        BY <3>4 DEF SpaceInv, Shows
      <4>2. PlainShown(p, shown', torn')
        BY <3>1, <3>4, <4>1 DEF PlainShown
      <4> QED
        BY <3>4, <4>2 DEF Shows
    <3> QED
      BY <2>3, <3>2, <3>3, <3>4, <1>k
  <2> QED
    BY <2>1, <2>2, <2>3
<1>5. Unbanked(decoders', meant', torn')
  <2> SUFFICES ASSUME NEW a \in Cells \ torn', \A x \in Bankers(decoders') : a \notin Area(x)
               PROVE  DOMAIN meant'[a] = {}
    BY DEF Unbanked
  <2>1. CASE a \in b..e
    <3>1. meant'[a] = <<>>
      BY <2>1
    <3> QED
      BY <3>1, <1>e
  <2>2. CASE a \notin b..e
    <3>1. ASSUME NEW x \in Bankers(decoders), a \in Area(x) PROVE FALSE
      <4>1. Sound(x) /\ x \in decoders /\ x.is_banker
        BY <1>s DEF Bankers
      <4>2. \E p \in Remains(x, b, e) : a \in Area(p)
        BY <4>1, <3>1, <2>2, Covers
      <4>3. CASE Touches(x, b, e)
        BY <4>2, <4>3, <3>1, <2>2, <1>o, IsDisturbed
      <4>4. CASE ~Touches(x, b, e)
        <5>1. x \in Undecoded(b, e)
          BY <4>1, <4>4 DEF Undecoded, Remains
        <5> QED
          BY <5>1, <4>1, <3>1 DEF Bankers
      <4> QED
        BY <4>3, <4>4
    <3> QED
      BY <3>1, <2>2, <1>o DEF SpaceInv, Unbanked
  <2> QED
    BY <2>1, <2>2
<1>6. Bare(decoders', cell')
  <2> SUFFICES ASSUME NEW a \in Cells, \A x \in decoders' : a \notin Area(x)
               PROVE  cell'[a] = NoSlot
    BY DEF Bare
  <2>1. a \notin b..e
    OBVIOUS
  <2>2. ASSUME NEW x \in decoders, a \in Area(x) PROVE FALSE
    <3>1. PICK p \in Remains(x, b, e) : a \in Area(p)
      BY <2>1, <2>2, <1>s, Covers
    <3> QED
      BY <3>1 DEF Undecoded
  <2>3. cell[a] = NoSlot
    BY <2>2 DEF SpaceInv, Bare
  <2>4. ASSUME NEW p \in NewParts(b, e), a \in Area(p) PROVE FALSE
    <3>1. PICK x \in decoders : x.begin < b /\ e < x.end /\ p \in Above(x, b, e)
      BY <2>4 DEF NewParts
    <3>2. Sound(x) /\ Touches(x, b, e)
      BY <3>1, <1>s, SpaceAssumption DEF Touches, Sound, Decoders, Cells
    <3>3. p \in Undecoded(b, e)
      BY <3>1, <3>2 DEF Undecoded, Remains
    <3> QED
      BY <3>3, <2>4
  <2> QED
    BY <2>1, <2>3, <2>4 DEF CellsUndecoded
<1>7. CellsAsMeant'
  <2> SUFFICES ASSUME NEW a \in Cells \ torn' PROVE cell'[a] = shown'[a]
    BY DEF CellsAsMeant
  <2>1. CASE a \in b..e
    BY <2>1
  <2>2. CASE a \notin b..e
    BY <2>2, <1>o, UndecodedCells
  <2> QED
    BY <2>1, <2>2
<1> QED
  BY <1>1, <1>2, <1>3, <1>4, <1>5, <1>6, <1>7 DEF SpaceInv

-----------------------------------------------------------------------------
(* The steps.                                                                *)
LEMMA CreatesDecoder == SpaceInv /\ CreateDecoder => SpaceInv'
<1> SUFFICES ASSUME SpaceInv, CreateDecoder PROVE SpaceInv'
  OBVIOUS
<1>1. PICK b \in Cells, e \in Cells, chip \in Chips, cb \in Begins :
        LET d == Decoder(b, e, chip, cb)
        IN /\ Command
           /\ b <= e
           /\ decoders' = Undecoded(b, e) \cup {d}
           /\ cell' = [a \in Cells |-> IF a \in b..e THEN Decoded(d, a)
                                       ELSE CellsUndecoded(b, e)[a]]
           /\ meant' = [a \in Cells |-> IF a \in b..e THEN <<>> ELSE meant[a]]
           /\ shown' = [a \in Cells |-> IF a \in b..e THEN Slot(chip, cb + a - b) ELSE shown[a]]
           /\ torn' = (torn \ b..e) \cup Disturbed(b, e)
           /\ rs' = rs
  BY DEF CreateDecoder
<1> DEFINE d == Decoder(b, e, chip, cb)
           g == [a \in b..e |-> Slot(chip, cb + a - b)]
<1>2. NoBanks \in [RS -> Banks] /\ -1 \notin RS /\ \A k \in RS : NoBanks[k].chip = NoChip
  BY SpaceAssumption DEF NoBanks, Bank, Banks
<1>3. d.begin = b /\ d.end = e /\ d.chip = chip /\ d.chip_begin = cb /\ d.is_banker = FALSE
      /\ d.banks = NoBanks /\ d.bank = -1 /\ d \in Decoders
  BY <1>2, SpaceAssumption DEF Decoder, Decoders
<1>4. Sound(d) /\ Area(d) = b..e /\ Defined(d) = {}
  BY <1>1, <1>2, <1>3 DEF Sound, Area, Defined
<1>5. ASSUME NEW a \in b..e PROVE Decoded(d, a) = Slot(chip, cb + a - b) /\ Slot(chip, cb + a - b) \in CellSlots
  <2>1. cb + a - b \in Nat
    BY SpaceAssumption DEF Cells
  <2> QED
    BY <2>1, <1>3, SlotType DEF Decoded
<1>6. g \in [b..e -> CellSlots] /\ \A a \in b..e : Decoded(d, a) = g[a]
  BY <1>5
<1>7. /\ cell' = [a \in Cells |-> IF a \in b..e THEN g[a] ELSE CellsUndecoded(b, e)[a]]
      /\ shown' = [a \in Cells |-> IF a \in b..e THEN g[a] ELSE shown[a]]
  BY <1>1, <1>5
<1>8. decoders' = Undecoded(b, e) \cup {d} /\ rs' = rs /\ Command /\ b <= e
      /\ meant' = [a \in Cells |-> IF a \in b..e THEN <<>> ELSE meant[a]]
      /\ torn' = (torn \ b..e) \cup Disturbed(b, e)
  BY <1>1
<1> HIDE DEF d, g
<1> QED
  BY <1>4, <1>6, <1>7, <1>8, Laid

(* A banker is created.                                                     *)
LEMMA CreatesBanker == SpaceInv /\ CreateBanker => SpaceInv'
<1> SUFFICES ASSUME SpaceInv, CreateBanker PROVE SpaceInv'
  OBVIOUS
<1>1. PICK b \in Cells, e \in Cells :
        /\ Command /\ b <= e
        /\ decoders' = Undecoded(b, e) \cup {Banker(b, e)}
        /\ cell' = CellsUndecoded(b, e)
        /\ meant' = [a \in Cells |-> IF a \in b..e THEN <<>> ELSE meant[a]]
        /\ shown' = [a \in Cells |-> IF a \in b..e THEN NoSlot ELSE shown[a]]
        /\ torn' = (torn \ b..e) \cup Disturbed(b, e)
        /\ rs' = rs
  BY DEF CreateBanker
<1> DEFINE d == Banker(b, e)
           g == [a \in b..e |-> NoSlot]
<1>2. NoBanks \in [RS -> Banks] /\ -1 \notin RS /\ \A k \in RS : NoBanks[k].chip = NoChip
  BY SpaceAssumption DEF NoBanks, Bank, Banks
<1>3. d.begin = b /\ d.end = e /\ d.chip = NoChip /\ d.chip_begin = 0 /\ d.is_banker = TRUE
      /\ d.banks = NoBanks /\ d.bank = -1 /\ d \in Decoders
  BY <1>2, SpaceAssumption DEF Banker, Decoders
<1>4. Sound(d) /\ Area(d) = b..e /\ Defined(d) = {}
  BY <1>1, <1>2, <1>3 DEF Sound, Area, Defined
<1>6. g \in [b..e -> CellSlots] /\ d.is_banker
  BY <1>3 DEF CellSlots
<1>s. \A x \in decoders : Sound(x) /\ x.begin \in Int /\ x.end \in Int
  BY SpaceAssumption DEF SpaceInv, Sound, Decoders, Cells
<1>7. ASSUME NEW a \in b..e PROVE CellsUndecoded(b, e)[a] = NoSlot
  <2>1. a \in Cells /\ a \in Int /\ b \in Int /\ e \in Int
    BY SpaceAssumption DEF Cells
  <2>2. ASSUME NEW p \in NewParts(b, e), a \in Area(p) PROVE FALSE
    <3>1. PICK x \in decoders : x.begin < b /\ e < x.end /\ p \in Above(x, b, e)
      BY <2>2 DEF NewParts
    <3>2. Sound(x) /\ Touches(x, b, e)
      BY <3>1, <1>1, <1>s, <2>1 DEF Touches
    <3>3. Area(p) \cap (b..e) = {}
      BY <3>1, <3>2, <1>1, PartOf DEF Remains
    <3> QED
      BY <3>3, <2>2
  <2>3. CASE \E x \in decoders : a \in Area(x)
    <3>1. PICK x \in decoders : a \in Area(x)
      BY <2>3
    <3>2. Touches(x, b, e) /\ a \in b..x.end /\ a \in 0..e
      BY <3>1, <2>1, <1>s, SpaceAssumption DEF Touches, Area, Cells
    <3>3. a \in Lost(x, b, e)
      BY <3>1, <3>2 DEF Lost
    <3> QED
      BY <2>1, <2>2, <3>3 DEF CellsUndecoded
  <2>4. CASE ~\E x \in decoders : a \in Area(x)
    <3>1. cell[a] = NoSlot
      BY <2>1, <2>4 DEF SpaceInv, Bare
    <3> QED
      BY <3>1, <2>1, <2>2 DEF CellsUndecoded
  <2> QED
    BY <2>3, <2>4
<1>8. cell' = [a \in Cells |-> IF a \in b..e THEN g[a] ELSE CellsUndecoded(b, e)[a]]
  <2>1. CellsUndecoded(b, e) = [a \in Cells |-> CellsUndecoded(b, e)[a]]
    BY DEF CellsUndecoded
  <2>2. \A a \in Cells : CellsUndecoded(b, e)[a] = IF a \in b..e THEN g[a] ELSE CellsUndecoded(b, e)[a]
    BY <1>7
  <2> QED
    BY <1>1, <2>1, <2>2
<1>9. /\ shown' = [a \in Cells |-> IF a \in b..e THEN g[a] ELSE shown[a]]
      /\ decoders' = Undecoded(b, e) \cup {d} /\ rs' = rs /\ Command /\ b <= e
      /\ meant' = [a \in Cells |-> IF a \in b..e THEN <<>> ELSE meant[a]]
      /\ torn' = (torn \ b..e) \cup Disturbed(b, e)
  BY <1>1
<1> HIDE DEF d, g
<1> QED
  BY <1>4, <1>6, <1>8, <1>9, Laid

(* A chip goes, and its decoders go or keep their cells.                    *)
LEMMA RemovesChip == SpaceInv /\ RemoveChip => SpaceInv'
<1> SUFFICES ASSUME SpaceInv, RemoveChip PROVE SpaceInv'
  OBVIOUS
<1>1. PICK chip \in Chips :
        LET gone == {d \in decoders : d.chip = chip}
            area == UNION {Area(d) : d \in gone}
        IN /\ Command
           /\ decoders' = decoders \ gone
           /\ cell' = [a \in Cells |-> IF a \in area THEN NoSlot ELSE cell[a]]
           /\ shown' = [a \in Cells |-> IF a \in area THEN NoSlot ELSE shown[a]]
           /\ rs' = rs /\ meant' = meant /\ torn' = torn
  BY Zenon DEF RemoveChip
<1> DEFINE gone == {d \in decoders : d.chip = chip}
           area == UNION {Area(d) : d \in gone}
<1>2. /\ decoders' = decoders \ gone
      /\ cell' = [a \in Cells |-> IF a \in area THEN NoSlot ELSE cell[a]]
      /\ shown' = [a \in Cells |-> IF a \in area THEN NoSlot ELSE shown[a]]
      /\ Command /\ rs' = rs /\ meant' = meant /\ torn' = torn
  BY <1>1
<1>3. ASSUME NEW d \in gone PROVE ~d.is_banker
  BY SpaceAssumption DEF SpaceInv, Sound
<1>4. ASSUME NEW d \in decoders', NEW a \in Area(d) PROVE a \notin area
  <2>1. ASSUME NEW x \in gone, a \in Area(x) PROVE FALSE
    <3>1. x \in decoders /\ d \in decoders /\ x # d
      BY <1>2
    <3> QED
      BY <3>1, <2>1, <1>4 DEF SpaceInv, Apart
  <2> QED
    BY <2>1
<1> HIDE DEF area
<1>5. SpaceTypes'
  <2>1. cell' \in [Cells -> CellSlots] /\ shown' \in [Cells -> CellSlots]
    BY <1>2 DEF SpaceInv, SpaceTypes, CellSlots
  <2>2. rs' \in RS /\ commands' \in 0..MaxCommands
    BY <1>2, SpaceAssumption DEF SpaceInv, SpaceTypes, Command
  <2> QED
    BY <2>1, <2>2, <1>2 DEF SpaceInv, SpaceTypes
<1>6. (\A d \in decoders' : Sound(d)) /\ Apart(decoders')
  BY <1>2 DEF SpaceInv, Apart
<1>7. ASSUME NEW d \in decoders' PROVE Shows(d, meant', shown', torn')
  <2>1. d \in decoders /\ Shows(d, meant, shown, torn) /\ Sound(d)
    BY <1>2 DEF SpaceInv
  <2>2. ASSUME NEW a \in Area(d) PROVE shown'[a] = shown[a]
    BY <1>2, <1>4, <2>1, AreaInCells DEF Sound
  <2>3. CASE d.is_banker
    BY <1>2, <2>1, <2>2, <2>3 DEF Shows, BanksShown
  <2>4. CASE ~d.is_banker
    BY <1>2, <2>1, <2>2, <2>4 DEF Shows, PlainShown
  <2> QED
    BY <2>3, <2>4
<1>8. Unbanked(decoders', meant', torn')
  <2>1. Bankers(decoders) \subseteq Bankers(decoders')
    BY <1>2, <1>3 DEF Bankers
  <2> QED
    BY <1>2, <2>1 DEF SpaceInv, Unbanked
<1>9. Bare(decoders', cell')
  <2> SUFFICES ASSUME NEW a \in Cells, \A x \in decoders' : a \notin Area(x), a \notin area
               PROVE  cell[a] = NoSlot
    BY <1>2 DEF Bare
  <2>1. \A x \in gone : a \notin Area(x)
    BY DEF area
  <2> QED
    BY <1>2, <2>1 DEF SpaceInv, Bare
<1>10. CellsAsMeant'
  BY <1>2 DEF SpaceInv, CellsAsMeant
<1> QED
  BY <1>5, <1>6, <1>7, <1>8, <1>9, <1>10 DEF SpaceInv

(* A bank of a banker is created, and shown when it is the one that is      *)
(* selected.                                                                *)
LEMMA CreatesBank == SpaceInv /\ CreateBank => SpaceInv'
<1> SUFFICES ASSUME SpaceInv, CreateBank PROVE SpaceInv'
  OBVIOUS
<1>1. PICK d \in Bankers(decoders), k \in RS, chip \in Chips, cb \in Begins :
    LET new == [d EXCEPT !.banks[k] = Bank(Area(d), chip, cb)]
        wiped == [a \in Cells |-> IF a \in d.banks[k].home THEN NoSlot ELSE cell[a]]
        table == [a \in Cells |-> IF a \in Area(d)
                                  THEN [v \in DOMAIN meant[a] \cup {k} |->
                                          IF v = k THEN Slot(chip, cb + a - d.begin)
                                          ELSE meant[a][v]]
                                  ELSE meant[a]]
    IN /\ Command /\ cb < ChipSize[chip]
       /\ decoders' = (decoders \ {d}) \cup {Activated(new, rs)}
       /\ cell' = CellsAfter({new}, rs, wiped)
       /\ meant' = table
       /\ shown' = ShownAfter(table, Area(d), rs)
       /\ torn' = torn \cup d.banks[k].home
       /\ UNCHANGED rs
  BY DEF CreateBank
<1> DEFINE new == [d EXCEPT !.banks[k] = Bank(Area(d), chip, cb)]
           n == Activated(new, rs)
           home == d.banks[k].home
           wiped == [a \in Cells |-> IF a \in home THEN NoSlot ELSE cell[a]]
<1>2. /\ decoders' = (decoders \ {d}) \cup {n}
      /\ cell' = CellsAfter({new}, rs, wiped)
      /\ shown' = ShownAfter(meant', Area(d), rs)
      /\ torn' = torn \cup home
      /\ Command /\ rs' = rs
  BY <1>1
<1>3. /\ DOMAIN meant' = Cells
      /\ \A a \in Cells \ Area(d) : meant'[a] = meant[a]
      /\ \A a \in Cells \cap Area(d) :
           /\ DOMAIN meant'[a] = DOMAIN meant[a] \cup {k}
           /\ meant'[a][k] = Slot(chip, cb + a - d.begin)
           /\ \A v \in DOMAIN meant[a] \ {k} : meant'[a][v] = meant[a][v]
  BY <1>1
<1>d. d \in decoders /\ d.is_banker /\ Sound(d) /\ d \in Decoders /\ d.begin \in Int /\ d.end \in Int /\ Area(d) \subseteq Cells
      /\ BanksShown(d, meant, shown, torn) /\ d.chip = NoChip
  <2>1. d \in decoders /\ d.is_banker /\ Sound(d) /\ d \in Decoders /\ Shows(d, meant, shown, torn)
    BY DEF Bankers, SpaceInv, Sound
  <2>2. d.begin \in Int /\ d.end \in Int /\ d.chip = NoChip
    BY <2>1, SpaceAssumption DEF Decoders, Cells, Sound
  <2> QED
    BY <2>1, <2>2, AreaInCells DEF Shows
<1>b. d.banks \in [RS -> Banks] /\ home \subseteq Cells
  BY <1>d DEF Decoders, Banks
<1>4. /\ new.banks = [d.banks EXCEPT ![k] = Bank(Area(d), chip, cb)]
      /\ new.begin = d.begin /\ new.end = d.end /\ new.chip = NoChip /\ new.is_banker = TRUE
      /\ new.bank = d.bank /\ new.chip_begin = d.chip_begin
  BY <1>d DEF Decoders
<1>5. new \in Decoders
  <2>1. Bank(Area(d), chip, cb) \in Banks
    BY <1>d, SpaceAssumption DEF Bank, Banks
  <2>2. new.banks \in [RS -> Banks]
    BY <1>b, <1>4, <2>1
  <2> QED
    BY <1>d, <1>4, <2>2 DEF Decoders
<1> HIDE DEF new
<1>6. /\ n.banks = new.banks /\ n.begin = d.begin /\ n.end = d.end /\ n.chip = NoChip /\ n.is_banker = TRUE
      /\ n \in Decoders /\ n.bank = IF Switches(new, rs) THEN rs ELSE d.bank
  <2>0. rs \in RS
    BY DEF SpaceInv, SpaceTypes
  <2>1. CASE Switches(new, rs)
    <3>1. n = [new EXCEPT !.bank = rs]
      BY <2>1 DEF Activated
    <3> QED
      BY <2>0, <2>1, <3>1, <1>4, <1>5 DEF Decoders
  <2>2. CASE ~Switches(new, rs)
    <3>1. n = new
      BY <2>2 DEF Activated
    <3> QED
      BY <2>2, <3>1, <1>4, <1>5
  <2> QED
    BY <2>1, <2>2
<1>7. /\ n.banks[k].home = Area(d) /\ n.banks[k].chip = chip /\ n.banks[k].chip_begin = cb
      /\ \A v \in RS \ {k} : n.banks[v] = d.banks[v]
      /\ Defined(n) = Defined(d) \cup {k} /\ Area(n) = Area(d)
      /\ \A v \in RS : new.banks[v].chip # NoChip <=> v \in Defined(n)
  <2>1. n.banks[k] = Bank(Area(d), chip, cb) /\ \A v \in RS \ {k} : n.banks[v] = d.banks[v]
    BY <1>b, <1>4, <1>6
  <2>2. chip # NoChip
    BY SpaceAssumption
  <2>3. n.banks[k].home = Area(d) /\ n.banks[k].chip = chip /\ n.banks[k].chip_begin = cb
    BY <2>1 DEF Bank
  <2>4. Defined(n) = Defined(d) \cup {k}
    BY <2>1, <2>2, <2>3 DEF Defined
  <2>5. \A v \in RS : new.banks[v].chip # NoChip <=> v \in Defined(n)
    BY <1>6 DEF Defined
  <2>6. Area(n) = Area(d)
    BY <1>6 DEF Area
  <2> QED
    BY <2>1, <2>3, <2>4, <2>5, <2>6
<1>r. rs \in RS
  BY DEF SpaceInv, SpaceTypes
<1>w. n.bank = IF d.bank # rs /\ rs \in Defined(n) THEN rs ELSE d.bank
  BY <1>4, <1>6, <1>7, <1>r DEF Switches
<1>h. d.bank = k => Area(d) \subseteq home
  BY <1>d DEF Sound
<1> HIDE DEF n, home
<1>8. Sound(n)
  <2>1. n.begin <= n.end /\ n.chip = NoChip
    BY <1>6, <1>d DEF Sound
  <2>2. \A v \in Defined(n) : Area(n) \subseteq n.banks[v].home
    BY <1>7, <1>d DEF Sound, Defined
  <2>3. n.bank \in RS => n.bank \in Defined(n)
    BY <1>w, <1>7, <1>d DEF Sound
  <2> QED
    BY <2>1, <2>2, <2>3, <1>6 DEF Sound
<1>9. ASSUME NEW a \in Area(d) \ torn'
      PROVE  /\ DOMAIN meant'[a] = Defined(n)
             /\ \A v \in Defined(n) : meant'[a][v] = Banked(n, v, a)
             /\ shown'[a] = IF rs \in Defined(n) THEN Banked(n, rs, a) ELSE shown[a]
             /\ \A v \in Defined(d) \ {k} : Banked(n, v, a) = Banked(d, v, a)
  <2>1. a \in Cells /\ a \notin torn
    BY <1>2, <1>d, <1>9
  <2>2. DOMAIN meant[a] = Defined(d) /\ \A v \in Defined(d) : meant[a][v] = Banked(d, v, a)
    BY <2>1, <1>d DEF BanksShown
  <2>3. DOMAIN meant'[a] = Defined(n)
    BY <2>1, <2>2, <1>3, <1>7
  <2>4. \A v \in Defined(d) \ {k} : Banked(n, v, a) = Banked(d, v, a)
    BY <1>6, <1>7 DEF Banked, Defined
  <2>5. Banked(n, k, a) = Slot(chip, cb + a - d.begin)
    BY <1>6, <1>7 DEF Banked
  <2>6. \A v \in Defined(n) : meant'[a][v] = Banked(n, v, a)
    BY <2>1, <2>2, <2>4, <2>5, <1>3, <1>7
  <2>7. shown'[a] = IF rs \in DOMAIN meant'[a] THEN meant'[a][rs] ELSE shown[a]
    BY <2>1, <1>2 DEF ShownAfter
  <2> QED
    BY <2>3, <2>4, <2>6, <2>7
<1>10. ASSUME NEW a \in Cells, a \notin Area(d) PROVE meant'[a] = meant[a] /\ shown'[a] = shown[a]
  BY <1>2, <1>3, <1>10 DEF ShownAfter
<1>11. BanksShown(n, meant', shown', torn')
  <2> SUFFICES ASSUME NEW a \in Area(d) \ torn', n.bank \in RS
               PROVE  shown'[a] = Banked(n, n.bank, a)
    BY <1>7, <1>9 DEF BanksShown
  <2>1. CASE rs \in Defined(n)
    BY <2>1, <1>9, <1>w
  <2>2. CASE rs \notin Defined(n)
    <3>1. n.bank = d.bank /\ d.bank \in RS /\ d.bank \in Defined(d)
      BY <2>2, <1>w, <1>d DEF Sound
    <3>2. shown[a] = Banked(d, d.bank, a)
      BY <3>1, <1>2, <1>d DEF BanksShown
    <3>3. d.bank # k
      BY <1>h, <1>2
    <3> QED
      BY <2>2, <3>1, <3>2, <3>3, <1>9
  <2> QED
    BY <2>1, <2>2
<1>12. ASSUME NEW p \in decoders, p # d
       PROVE  /\ Sound(p) /\ Area(p) \cap Area(d) = {} /\ Shows(p, meant', shown', torn')
  <2>1. Sound(p) /\ Area(p) \cap Area(d) = {} /\ Shows(p, meant, shown, torn)
    BY <1>12, <1>d DEF SpaceInv, Apart
  <2>2. ASSUME NEW a \in Area(p) PROVE meant'[a] = meant[a] /\ shown'[a] = shown[a]
    BY <2>1, <1>10, AreaInCells DEF Sound
  <2>3. CASE p.is_banker
    BY <1>2, <2>1, <2>2, <2>3 DEF Shows, BanksShown
  <2>4. CASE ~p.is_banker
    BY <1>2, <2>1, <2>2, <2>4 DEF Shows, PlainShown
  <2> QED
    BY <2>1, <2>3, <2>4
<1>13. \A p \in decoders' : Sound(p) /\ Shows(p, meant', shown', torn')
  <2>1. Shows(n, meant', shown', torn')
    BY <1>6, <1>11 DEF Shows
  <2> QED
    BY <1>2, <1>8, <1>12, <2>1
<1>14. Apart(decoders')
  BY <1>2, <1>7, <1>12 DEF Apart, SpaceInv
<1>15. Unbanked(decoders', meant', torn')
  <2> SUFFICES ASSUME NEW a \in Cells \ torn', \A x \in Bankers(decoders') : a \notin Area(x)
               PROVE  DOMAIN meant'[a] = {}
    BY DEF Unbanked
  <2>1. a \notin Area(d)
    BY <1>2, <1>6, <1>7 DEF Bankers
  <2>2. \A x \in Bankers(decoders) : a \notin Area(x)
    BY <1>2, <2>1 DEF Bankers
  <2> QED
    BY <1>2, <1>10, <2>1, <2>2 DEF SpaceInv, Unbanked
<1>16. ASSUME NEW a \in Cells
       PROVE  cell'[a] = IF a \in Area(d) /\ d.bank # rs /\ rs \in Defined(n) THEN Banked(n, rs, a)
                         ELSE IF a \in home THEN NoSlot ELSE cell[a]
  <2>1. Bankers({new}) = {new} /\ Area(new) = Area(d)
    BY <1>4 DEF Bankers, Area
  <2>2. Switches(new, rs) <=> d.bank # rs /\ rs \in Defined(n)
    BY <1>4, <1>7, <1>r DEF Switches
  <2>3. Banked(new, rs, a) = Banked(n, rs, a)
    BY <1>4, <1>6 DEF Banked
  <2>4. CASE a \in Area(d) /\ Switches(new, rs)
    <3>1. (CHOOSE x \in Bankers({new}) : a \in Area(x) /\ Switches(x, rs)) = new
      BY <2>1, <2>4
    <3>2. cell'[a] = Banked(new, rs, a)
      BY <1>2, <2>1, <2>4, <3>1 DEF CellsAfter
    <3> QED
      BY <2>2, <2>3, <2>4, <3>2
  <2>5. CASE ~(a \in Area(d) /\ Switches(new, rs))
    <3>1. cell'[a] = wiped[a]
      BY <1>2, <2>1, <2>5 DEF CellsAfter
    <3> QED
      BY <2>2, <2>5, <3>1
  <2> QED
    BY <2>4, <2>5
<1>17. CellsAsMeant'
  <2> SUFFICES ASSUME NEW a \in Cells \ torn' PROVE cell'[a] = shown'[a]
    BY DEF CellsAsMeant
  <2>0. a \notin home /\ cell[a] = shown[a] /\ a \notin torn
    BY <1>2 DEF SpaceInv, CellsAsMeant
  <2>1. CASE a \notin Area(d)
    BY <2>0, <2>1, <1>10, <1>16
  <2>2. CASE a \in Area(d) /\ d.bank # rs
    BY <2>0, <2>2, <1>9, <1>16
  <2>3. CASE a \in Area(d) /\ d.bank = rs
    <3>1. rs \in Defined(d) /\ rs # k
      BY <2>0, <2>3, <1>r, <1>h, <1>d DEF Sound
    <3>2. shown[a] = Banked(d, rs, a)
      BY <2>0, <2>3, <1>r, <1>d DEF BanksShown
    <3>3. shown'[a] = Banked(d, rs, a)
      BY <3>1, <2>3, <1>7, <1>9
    <3> QED
      BY <2>0, <2>3, <3>2, <3>3, <1>16
  <2> QED
    BY <2>1, <2>2, <2>3
<1>18. Bare(decoders', cell')
  <2> SUFFICES ASSUME NEW a \in Cells, \A x \in decoders' : a \notin Area(x)
               PROVE  cell'[a] = NoSlot
    BY DEF Bare
  <2>1. a \notin Area(d)
    BY <1>2, <1>7
  <2>2. cell[a] = NoSlot
    BY <1>2, <2>1 DEF SpaceInv, Bare
  <2> QED
    BY <2>1, <2>2, <1>16
<1>19. SpaceTypes'
  <2>1. ASSUME NEW a \in Cells, NEW v \in RS, a \in Area(d) PROVE Banked(n, v, a) \in CellSlots
    BY <2>1, <1>6, <1>7, DecodedType
  <2>2. cell' \in [Cells -> CellSlots]
    <3>1. cell' = [a \in Cells |-> cell'[a]]
      BY <1>2 DEF CellsAfter
    <3>2. \A a \in Cells : cell'[a] \in CellSlots
      BY <2>1, <1>16, <1>r DEF SpaceInv, SpaceTypes, CellSlots
    <3> QED
      BY <3>1, <3>2
  <2>3. ASSUME NEW a \in Cells PROVE DOMAIN meant'[a] \subseteq RS /\ \A v \in DOMAIN meant'[a] : meant'[a][v] \in CellSlots
    <3>1. DOMAIN meant[a] \subseteq RS /\ \A v \in DOMAIN meant[a] : meant[a][v] \in CellSlots
      BY DEF SpaceInv, SpaceTypes
    <3>2. CASE a \in Area(d)
      <4>1. cb + a - d.begin \in Nat
        BY <3>2, <1>d, SpaceAssumption DEF Area
      <4>2. Slot(chip, cb + a - d.begin) \in CellSlots
        BY <4>1, SlotType
      <4> QED
        BY <3>1, <3>2, <4>2, <1>3
    <3>3. CASE a \notin Area(d)
      BY <3>1, <3>3, <1>10
    <3> QED
      BY <3>2, <3>3
  <2>4. shown' \in [Cells -> CellSlots]
    <3>1. shown' = [a \in Cells |-> IF a \in Area(d) /\ rs \in DOMAIN meant'[a] THEN meant'[a][rs] ELSE shown[a]]
      BY <1>2 DEF ShownAfter
    <3> QED
      BY <2>3, <3>1 DEF SpaceInv, SpaceTypes
  <2>5. commands' \in 0..MaxCommands
    BY <1>2, SpaceAssumption DEF Command, SpaceInv, SpaceTypes
  <2> QED
    BY <1>2, <1>3, <1>b, <1>r, <2>2, <2>3, <2>4, <2>5 DEF SpaceInv, SpaceTypes
<1> QED
  BY <1>13, <1>14, <1>15, <1>17, <1>18, <1>19 DEF SpaceInv

(* A write of PSW switches the banks.                                       *)
LEMMA WritesPSW == SpaceInv /\ WritePSW => SpaceInv'
<1> SUFFICES ASSUME SpaceInv, WritePSW PROVE SpaceInv'
  OBVIOUS
<1>1. PICK v \in RS :
    /\ rs' = v
    /\ decoders' = {IF d.is_banker THEN Activated(d, v) ELSE d : d \in decoders}
    /\ cell' = CellsAfter(decoders, v, cell)
    /\ shown' = ShownAfter(meant, Cells, v)
    /\ commands' = commands /\ meant' = meant /\ torn' = torn
  BY Zenon DEF WritePSW
<1> DEFINE A(d) == IF d.is_banker THEN Activated(d, v) ELSE d
<1>2. ASSUME NEW d \in decoders
      PROVE  /\ A(d) \in Decoders /\ A(d).begin = d.begin /\ A(d).end = d.end /\ A(d).chip = d.chip
             /\ A(d).chip_begin = d.chip_begin /\ A(d).is_banker = d.is_banker /\ A(d).banks = d.banks
             /\ A(d).bank = IF d.is_banker /\ Switches(d, v) THEN v ELSE d.bank
  <2>1. d \in Decoders
    BY DEF SpaceInv, Sound
  <2>2. CASE d.is_banker /\ Switches(d, v)
    <3>1. A(d) = [d EXCEPT !.bank = v]
      BY <2>2 DEF Activated
    <3> QED
      BY <2>1, <2>2, <3>1 DEF Decoders
  <2>3. CASE ~(d.is_banker /\ Switches(d, v))
    <3>1. A(d) = d
      BY <2>3 DEF Activated
    <3> QED
      BY <2>1, <2>3, <3>1
  <2> QED
    BY <2>2, <2>3
<1>3. decoders' = {A(d) : d \in decoders}
  BY <1>1
<1> HIDE DEF A
<1>4. ASSUME NEW d \in decoders PROVE Area(A(d)) = Area(d) /\ Defined(A(d)) = Defined(d)
  BY <1>2 DEF Area, Defined
<1>5. ASSUME NEW d \in decoders PROVE Sound(A(d)) /\ Sound(d)
  <2>1. Sound(d)
    BY DEF SpaceInv
  <2> QED
    BY <1>2, <1>4, <2>1 DEF Sound, Switches, Defined
<1>6. Apart(decoders')
  <2>1. ASSUME NEW d1 \in decoders, NEW d2 \in decoders
        PROVE  A(d1) = A(d2) \/ Area(A(d1)) \cap Area(A(d2)) = {}
    BY <1>4 DEF SpaceInv, Apart
  <2> QED
    BY <1>3, <2>1 DEF Apart
<1>7. ASSUME NEW a \in Cells PROVE shown'[a] = IF v \in DOMAIN meant[a] THEN meant[a][v] ELSE shown[a]
  BY <1>1 DEF ShownAfter
<1>8. ASSUME NEW d \in decoders, ~d.is_banker, NEW a \in Area(d) \ torn
      PROVE  a \in Cells /\ shown'[a] = shown[a]
  <2>1. a \in Cells
    BY <1>5, AreaInCells DEF Sound
  <2>2. \A x \in Bankers(decoders) : a \notin Area(x)
    BY <1>8 DEF Bankers, SpaceInv, Apart
  <2>3. DOMAIN meant[a] = {}
    BY <2>1, <2>2 DEF SpaceInv, Unbanked
  <2> QED
    BY <2>1, <2>3, <1>7
<1>9. ASSUME NEW d \in decoders, d.is_banker, NEW a \in Area(d) \ torn
      PROVE  /\ a \in Cells /\ DOMAIN meant[a] = Defined(d) /\ \A k \in Defined(d) : meant[a][k] = Banked(d, k, a)
             /\ shown'[a] = IF v \in Defined(d) THEN Banked(d, v, a) ELSE shown[a]
             /\ d.bank \in RS => shown[a] = Banked(d, d.bank, a) /\ d.bank \in Defined(d)
  <2>1. a \in Cells
    BY <1>5, AreaInCells DEF Sound
  <2>2. BanksShown(d, meant, shown, torn) /\ Sound(d)
    BY <1>9 DEF SpaceInv, Shows
  <2> QED
    BY <2>1, <2>2, <1>7 DEF BanksShown, Sound
<1>10. ASSUME NEW d \in decoders PROVE Shows(A(d), meant', shown', torn')
  <2>1. CASE d.is_banker
    <3>1. ASSUME NEW a \in Area(d) \ torn
          PROVE  /\ \A k \in Defined(d) : Banked(A(d), k, a) = Banked(d, k, a)
                 /\ A(d).bank \in RS => shown'[a] = Banked(d, A(d).bank, a)
      <4>1. \A k \in Defined(d) : Banked(A(d), k, a) = Banked(d, k, a)
        BY <1>2 DEF Banked
      <4>2. v \in Defined(d) => shown'[a] = Banked(d, v, a) /\ A(d).bank = v
        BY <2>1, <1>2, <1>9 DEF Switches, Defined
      <4>3. v \notin Defined(d) => shown'[a] = shown[a] /\ A(d).bank = d.bank
        BY <2>1, <1>2, <1>9 DEF Switches, Defined
      <4> QED
        BY <2>1, <4>1, <4>2, <4>3, <1>9
    <3>2. A(d).bank \in RS => A(d).bank \in Defined(d)
      BY <1>4, <1>5 DEF Sound
    <3>3. BanksShown(A(d), meant', shown', torn')
      BY <2>1, <3>1, <3>2, <1>1, <1>4, <1>9 DEF BanksShown
    <3> QED
      BY <2>1, <3>3, <1>2 DEF Shows
  <2>2. CASE ~d.is_banker
    <3>1. PlainShown(d, shown, torn)
      BY <2>2 DEF SpaceInv, Shows
    <3>2. \A a \in Area(d) : Decoded(A(d), a) = Decoded(d, a)
      BY <1>2 DEF Decoded
    <3>3. PlainShown(A(d), shown', torn')
      BY <2>2, <3>1, <3>2, <1>1, <1>4, <1>8 DEF PlainShown
    <3> QED
      BY <2>2, <3>3, <1>2 DEF Shows
  <2> QED
    BY <2>1, <2>2
<1>11. Unbanked(decoders', meant', torn')
  <2> SUFFICES ASSUME NEW a \in Cells \ torn, \A x \in Bankers(decoders') : a \notin Area(x)
               PROVE  DOMAIN meant[a] = {}
    BY <1>1 DEF Unbanked
  <2>1. \A x \in Bankers(decoders) : a \notin Area(x)
    BY <1>2, <1>3, <1>4 DEF Bankers
  <2> QED
    BY <2>1 DEF SpaceInv, Unbanked
<1>12. ASSUME NEW a \in Cells, NEW d \in Bankers(decoders), a \in Area(d), Switches(d, v)
       PROVE  cell'[a] = Banked(d, v, a)
  <2>1. ASSUME NEW x \in Bankers(decoders), a \in Area(x) PROVE x = d
    BY <1>12, <2>1 DEF Bankers, SpaceInv, Apart
  <2>2. (CHOOSE x \in Bankers(decoders) : a \in Area(x) /\ Switches(x, v)) = d
    BY <1>12, <2>1
  <2> QED
    BY <1>1, <1>12, <2>2 DEF CellsAfter
<1>13. ASSUME NEW a \in Cells, ~\E d \in Bankers(decoders) : a \in Area(d) /\ Switches(d, v)
       PROVE  cell'[a] = cell[a]
  BY <1>1, <1>13 DEF CellsAfter
<1>14. CellsAsMeant'
  <2> SUFFICES ASSUME NEW a \in Cells \ torn PROVE cell'[a] = shown'[a]
    BY <1>1 DEF CellsAsMeant
  <2>0. cell[a] = shown[a]
    BY DEF SpaceInv, CellsAsMeant
  <2>1. CASE \E d \in Bankers(decoders) : a \in Area(d)
    <3>1. PICK d \in Bankers(decoders) : a \in Area(d)
      BY <2>1
    <3>2. d \in decoders /\ d.is_banker
      BY DEF Bankers
    <3>3. CASE Switches(d, v)
      <4>1. v \in Defined(d)
        BY <3>3 DEF Switches, Defined
      <4> QED
        BY <3>1, <3>2, <3>3, <4>1, <1>9, <1>12
    <3>4. CASE ~Switches(d, v)
      <4>1. cell'[a] = cell[a]
        <5>1. ASSUME NEW x \in Bankers(decoders), a \in Area(x) PROVE x = d
          BY <3>1, <5>1 DEF Bankers, SpaceInv, Apart
        <5> QED
          BY <3>4, <5>1, <1>13
      <4>2. shown'[a] = shown[a]
        BY <3>1, <3>2, <3>4, <1>9 DEF Switches, Defined
      <4> QED
        BY <2>0, <4>1, <4>2
    <3> QED
      BY <3>3, <3>4
  <2>2. CASE ~\E d \in Bankers(decoders) : a \in Area(d)
    <3>1. DOMAIN meant[a] = {}
      BY <2>2 DEF SpaceInv, Unbanked
    <3> QED
      BY <2>0, <2>2, <3>1, <1>7, <1>13
  <2> QED
    BY <2>1, <2>2
<1>15. Bare(decoders', cell')
  <2> SUFFICES ASSUME NEW a \in Cells, \A x \in decoders' : a \notin Area(x)
               PROVE  cell'[a] = NoSlot
    BY DEF Bare
  <2>1. \A x \in decoders : a \notin Area(x)
    BY <1>3, <1>4
  <2> QED
    BY <2>1, <1>13 DEF SpaceInv, Bare, Bankers
<1>16. SpaceTypes'
  <2>1. ASSUME NEW a \in Cells PROVE cell'[a] \in CellSlots
    <3>1. CASE \E d \in Bankers(decoders) : a \in Area(d) /\ Switches(d, v)
      <4>1. PICK d \in Bankers(decoders) : a \in Area(d) /\ Switches(d, v)
        BY <3>1
      <4>2. d \in Decoders
        BY <1>5 DEF Bankers, Sound
      <4> QED
        BY <4>1, <4>2, <1>12, DecodedType
    <3>2. CASE ~\E d \in Bankers(decoders) : a \in Area(d) /\ Switches(d, v)
      BY <3>2, <1>13 DEF SpaceInv, SpaceTypes
    <3> QED
      BY <3>1, <3>2
  <2>2. cell' = [a \in Cells |-> cell'[a]] /\ shown' = [a \in Cells |-> shown'[a]]
    BY <1>1 DEF CellsAfter, ShownAfter
  <2>3. \A a \in Cells : shown'[a] \in CellSlots
    BY <1>7 DEF SpaceInv, SpaceTypes
  <2>4. cell' \in [Cells -> CellSlots] /\ shown' \in [Cells -> CellSlots]
    BY <2>1, <2>2, <2>3
  <2> QED
    BY <1>1, <2>4 DEF SpaceInv, SpaceTypes
<1>17. \A d \in decoders' : Sound(d) /\ Shows(d, meant', shown', torn')
  BY <1>3, <1>5, <1>10
<1> QED
  BY <1>6, <1>11, <1>14, <1>15, <1>16, <1>17 DEF SpaceInv

(* The initial state.                                                       *)
LEMMA StartsSound == SpaceInit => SpaceInv
<1> SUFFICES ASSUME SpaceInit PROVE SpaceInv
  OBVIOUS
<1> DEFINE banks == [k \in RS |-> Bank(Cells, RegsChip, k * (Top + 1))]
           d == [Banker(0, Top) EXCEPT !.bank = 0, !.banks = banks]
<1>1. ASSUME NEW k \in RS PROVE k * (Top + 1) \in Nat
  <2>1. k \in Nat /\ Top + 1 \in Nat
    BY SpaceAssumption
  <2> QED
    BY <2>1
<1>2. /\ d.begin = 0 /\ d.end = Top /\ d.chip = NoChip /\ d.chip_begin = 0 /\ d.is_banker = TRUE
      /\ d.banks = banks /\ d.bank = 0
  BY DEF Banker
<1>3. ASSUME NEW k \in RS
      PROVE  banks[k] \in Banks /\ banks[k].chip = RegsChip /\ banks[k].home = Cells
             /\ banks[k].chip_begin = k * (Top + 1)
  BY <1>1, SpaceAssumption DEF Bank, Banks
<1>4. d \in Decoders
  <2>1. NoBanks \in [RS -> Banks] /\ 0 \in Cells /\ Top \in Cells /\ 0 \in RS
    BY SpaceAssumption DEF NoBanks, Bank, Banks, Cells
  <2>2. banks \in [RS -> Banks]
    BY <1>3
  <2>3. Banker(0, Top) \in Decoders
    BY <2>1 DEF Banker, Decoders
  <2> HIDE DEF banks
  <2> QED
    BY <2>1, <2>2, <2>3 DEF Decoders
<1>5. decoders = {d}
  BY DEF SpaceInit
<1>6. Area(d) = Cells /\ Defined(d) = RS
  BY <1>2, <1>3, SpaceAssumption DEF Area, Cells, Defined
<1>7. ASSUME NEW a \in Cells, NEW k \in RS PROVE Banked(d, k, a) = RegsSlot(k, a) /\ RegsSlot(k, a) \in CellSlots
  <2>1. a \in Nat
    BY SpaceAssumption DEF Cells
  <2>2. k * (Top + 1) + a \in Nat /\ k * (Top + 1) + a - 0 = k * (Top + 1) + a
    BY <2>1, <1>1
  <2> QED
    BY <2>2, <1>2, <1>3, SlotType, SpaceAssumption DEF Banked, RegsSlot
<1> HIDE DEF d, banks
<1>8. Sound(d)
  <2>1. 0 <= Top /\ 0 \in RS
    BY SpaceAssumption
  <2>2. \A k \in Defined(d) : Area(d) \subseteq d.banks[k].home
    BY <1>2, <1>3, <1>6
  <2> QED
    BY <2>1, <2>2, <1>2, <1>4, <1>6 DEF Sound
<1>9. SpaceTypes
  <2>1. 0 \in RS /\ 0 \in 0..MaxCommands /\ {} \subseteq Cells
    BY SpaceAssumption
  <2>2. cell \in [Cells -> CellSlots] /\ shown \in [Cells -> CellSlots]
    BY <2>1, <1>7 DEF SpaceInit
  <2>3. DOMAIN meant = Cells
    BY DEF SpaceInit
  <2>4. \A a \in Cells : DOMAIN meant[a] \subseteq RS /\ \A k \in DOMAIN meant[a] : meant[a][k] \in CellSlots
    BY <1>7 DEF SpaceInit
  <2> QED
    BY <2>1, <2>2, <2>3, <2>4 DEF SpaceInit, SpaceTypes
<1>10. Shows(d, meant, shown, torn)
  BY <1>2, <1>6, <1>7, SpaceAssumption DEF Shows, BanksShown, SpaceInit
<1>11. Unbanked(decoders, meant, torn) /\ Bare(decoders, cell)
  BY <1>2, <1>5, <1>6 DEF Unbanked, Bare, Bankers
<1>12. Apart(decoders) /\ CellsAsMeant
  BY <1>5 DEF Apart, SpaceInit, CellsAsMeant
<1> QED
  BY <1>5, <1>8, <1>9, <1>10, <1>11, <1>12 DEF SpaceInv

(* Every step keeps what the space shows.                                   *)
LEMMA StaysSound == SpaceInv /\ [SpaceNext]_space_vars => SpaceInv'
<1>1. SpaceInv /\ WriteBitRS => SpaceInv'
  BY DEF WriteBitRS, SpaceInv, SpaceTypes, CellsAsMeant
<1>2. SpaceInv /\ UNCHANGED space_vars => SpaceInv'
  BY DEF space_vars, SpaceInv, SpaceTypes, CellsAsMeant
<1> QED
  BY <1>1, <1>2, CreatesDecoder, CreatesBanker, CreatesBank, RemovesChip, WritesPSW DEF SpaceNext

(* The address space keeps its types, and no address gets two decoders       *)
(* (decode_cell() and undecode_area()).                                      *)
THEOREM SpaceTypeCorrect == SpaceSpec => []SpaceTypeOK
<1>1. SpaceInv => SpaceTypeOK
  BY DEF SpaceInv, SpaceTypeOK, SpaceTypes, Sound, Decoders, Apart, CellSlots
<1> QED
  BY <1>1, StartsSound, StaysSound, PTL DEF SpaceSpec

(* Whatever decoders, bankers and banks the commands lay over each other and *)
(* take away, and whenever the selector changes, every cell shows what was   *)
(* said of its address last: undecode_area() cuts exactly b..e out of the    *)
(* decoders it meets, and cl_banker::activate() leaves no cell behind.       *)
THEOREM CellsAsMeantAlways == SpaceSpec => []CellsAsMeant
<1>1. SpaceInv => CellsAsMeant
  BY DEF SpaceInv
<1> QED
  BY <1>1, StartsSound, StaysSound, PTL DEF SpaceSpec

-----------------------------------------------------------------------------
(* The port.                                                                 *)
PortRecords == [latch : SUBSET Lines, pins : SUBSET Lines, value : SUBSET Lines]

PortInv ==
  /\ port \in PortRecords
  /\ ~unseen => seen = PortLines(port) /\ port.value = PortLines(port)

(* The events of a write of Px are alike: all tell its lines before and      *)
(* after.                                                                    *)
LEMMA Concatenated ==
  ASSUME NEW x, NEW y
  PROVE  /\ <<>> \o <<>> = <<>> /\ <<x>> \o <<>> = <<x>>
         /\ <<>> \o <<y>> = <<y>> /\ <<x>> \o <<y>> = <<x, y>>
<1> DEFINE S == {x, y}
<1>1. <<>> \in Seq(S) /\ <<x>> \in Seq(S) /\ <<y>> \in Seq(S) /\ x \in S /\ y \in S
  OBVIOUS
<1>2. <<>> \o <<>> = <<>> /\ <<x>> \o <<>> = <<x>> /\ <<>> \o <<y>> = <<y>>
  BY <1>1, ConcatEmptySeq
<1>3. <<x>> \o <<y>> \in Seq(S) /\ Len(<<x>> \o <<y>>) = 2
      /\ \A i \in 1..2 : (<<x>> \o <<y>>)[i] = IF i <= 1 THEN x ELSE y
  <2>1. Len(<<x>>) = 1 /\ Len(<<y>>) = 1 /\ <<x>>[1] = x /\ <<y>>[1] = y
    OBVIOUS
  <2>2. /\ <<x>> \o <<y>> \in Seq(S)
        /\ Len(<<x>> \o <<y>>) = Len(<<x>>) + Len(<<y>>)
        /\ \A i \in 1..(Len(<<x>>) + Len(<<y>>)) :
             (<<x>> \o <<y>>)[i] = IF i <= Len(<<x>>) THEN <<x>>[i] ELSE <<y>>[i - Len(<<x>>)]
    BY <1>1, ConcatProperties, Zenon
  <2> QED
    BY <2>1, <2>2
<1>4. <<x, y>> \in Seq(S) /\ Len(<<x, y>>) = 2 /\ \A i \in 1..2 : <<x, y>>[i] = IF i <= 1 THEN x ELSE y
  OBVIOUS
<1>5. <<x>> \o <<y>> = <<x, y>>
  BY <1>3, <1>4, SeqEqual
<1> QED
  BY <1>2, <1>5

(* A write of the latch gives one event or the same one twice, and one      *)
(* at least when a line changes.                                            *)
LEMMA LatchEventsAlike ==
  ASSUME NEW p \in PortRecords, NEW n \in SUBSET Lines,
         NEW x, x = [old |-> PortLines(p), new |-> PortLines(WithLatch(p, n))]
  PROVE  /\ WithLatch(p, n) \in PortRecords
         /\ LatchEvents(p, n) \in {<<>>, <<x>>, <<x, x>>}
         /\ WithLatch(p, n).value = PortLines(WithLatch(p, n))
         /\ PortLines(p) # PortLines(WithLatch(p, n)) => LatchEvents(p, n) # <<>>
<1>1. WithLatch(p, n).latch = n /\ WithLatch(p, n).pins = p.pins /\ WithLatch(p, n).value = n \cap p.pins
      /\ WithLatch(p, n) \in PortRecords
  BY DEF WithLatch, PortRecords
<1>2. PortLines(WithLatch(p, n)) = n \cap p.pins
  BY <1>1 DEF PortLines
<1>3. PortEventOf(p, n) = IF n = p.latch THEN <<>> ELSE <<x>>
  <2>1. p.pins \cap n = n \cap p.pins
    OBVIOUS
  <2> QED
    BY <2>1, <1>2 DEF PortEventOf
<1>4. ValueEvents(p, n \cap p.pins) \in {<<>>, <<x>>}
  <2>1. p.pins \cap (n \cap p.pins) = n \cap p.pins
    OBVIOUS
  <2> QED
    BY <2>1, <1>2 DEF ValueEvents, PortEventOf
<1>5. n = p.latch => PortLines(p) = PortLines(WithLatch(p, n))
  BY <1>2 DEF PortLines
<1>6. <<x>> # <<>> /\ <<x, x>> # <<>>
  OBVIOUS
<1> QED
  BY <1>1, <1>2, <1>3, <1>4, <1>5, <1>6, Concatenated, Zenon DEF LatchEvents

(* Of the events of set_pin() only the first tells of edges.                 *)
LEMMA PinEventsAlike ==
  ASSUME NEW p \in PortRecords, NEW q \in SUBSET Lines,
         NEW x, x = [old |-> PortLines(p), new |-> PortLines(WithPins(p, q))],
         NEW y, y = [old |-> PortLines(WithPins(p, q)), new |-> PortLines(WithPins(p, q))]
  PROVE  /\ WithPins(p, q) \in PortRecords
         /\ PinEventsOf(p, q) \in {<<>>, <<x>>, <<y>>, <<x, y>>}
         /\ WithPins(p, q).value = PortLines(WithPins(p, q))
         /\ PortLines(p) # PortLines(WithPins(p, q)) => PinEventsOf(p, q) \in {<<x>>, <<x, y>>}
<1> DEFINE after == [p EXCEPT !.pins = q]
<1>1. after.latch = p.latch /\ after.pins = q /\ after.value = p.value
  BY DEF PortRecords
<1>2. WithPins(p, q).latch = p.latch /\ WithPins(p, q).pins = q /\ WithPins(p, q).value = p.latch \cap q
      /\ WithPins(p, q) \in PortRecords
  BY DEF WithPins, PortRecords
<1>3. PortLines(WithPins(p, q)) = p.latch \cap q /\ PortLines(after) = p.latch \cap q
  BY <1>1, <1>2 DEF PortLines
<1> HIDE DEF after
<1>4. ValueEvents(after, PortLines(after)) \in {<<>>, <<y>>}
  <2>1. q \cap (p.latch \cap q) = p.latch \cap q
    OBVIOUS
  <2> QED
    BY <2>1, <1>1, <1>3 DEF ValueEvents, PortEventOf
<1>5. PinEventsOf(p, q) = (IF q = p.pins THEN <<>> ELSE <<x>>) \o ValueEvents(after, PortLines(after))
  BY <1>3 DEF PinEventsOf, after
<1>6. q = p.pins => PortLines(p) = PortLines(WithPins(p, q))
  BY <1>3 DEF PortLines
<1> QED
  BY <1>2, <1>3, <1>4, <1>5, <1>6, Concatenated, Zenon

(* Edges in one event, or in two of which the other tells the same or none.  *)
LEMMA EdgesOf ==
  ASSUME NEW x, NEW i, NEW ev, ev \in {<<x>>, <<x, x>>}
  PROVE  /\ RisesIn(i, ev) # {} <=> i \in x.new \ x.old
         /\ FallsIn(i, ev) # {} <=> i \in x.old \ x.new
<1>1. CASE ev = <<x>>
  <2>1. DOMAIN ev = {1} /\ ev[1] = x
    BY <1>1
  <2> QED
    BY <2>1 DEF RisesIn, FallsIn
<1>2. CASE ev = <<x, x>>
  <2>1. DOMAIN ev = {1, 2} /\ ev[1] = x /\ ev[2] = x
    BY <1>2
  <2> QED
    BY <2>1 DEF RisesIn, FallsIn
<1> QED
  BY <1>1, <1>2

(* No event brings no edge.                                                 *)
LEMMA NoEdges ==
  ASSUME NEW i PROVE RisesIn(i, <<>>) = {} /\ FallsIn(i, <<>>) = {}
<1>1. DOMAIN <<>> = {}
  OBVIOUS
<1> QED
  BY <1>1 DEF RisesIn, FallsIn

(* An event that repeats the line brings no edge of its own.                *)
LEMMA FirstEdges ==
  ASSUME NEW x, NEW y, y.new = y.old, NEW i, NEW ev, ev \in {<<x>>, <<x, y>>}
  PROVE  /\ RisesIn(i, ev) = IF i \in x.new \ x.old THEN {1} ELSE {}
         /\ FallsIn(i, ev) = IF i \in x.old \ x.new THEN {1} ELSE {}
<1>1. CASE ev = <<x>>
  <2>1. DOMAIN ev = {1} /\ ev[1] = x
    BY <1>1
  <2> QED
    BY <2>1 DEF RisesIn, FallsIn
<1>2. CASE ev = <<x, y>>
  <2>1. DOMAIN ev = {1, 2} /\ ev[1] = x /\ ev[2] = y
    BY <1>2
  <2> QED
    BY <2>1 DEF RisesIn, FallsIn
<1> QED
  BY <1>1, <1>2

(* What a step owes, given what its operation did.                           *)
Followed ==
  /\ port_inst' \in {"program", "outside"} =>
       \A i \in Lines :
         /\ RisesIn(i, port_events') # {} <=> i \in PortLines(port') \ PortLines(port)
         /\ FallsIn(i, port_events') # {} <=> i \in PortLines(port) \ PortLines(port')
  /\ port_inst' = "outside" =>
       \A i \in Lines : Cardinality(RisesIn(i, port_events') \cup FallsIn(i, port_events')) <= 1
  /\ port_events' # <<>> /\ port_inst' # "user" => seen' = PortLines(port') /\ ~unseen'
  /\ ~unseen' => seen' = PortLines(port') /\ port'.value = PortLines(port')

(* A port that is done has told its partners what it shows.                 *)
LEMMA DoneKeeps ==
  ASSUME PortInv, NEW who, NEW p \in PortRecords, NEW ev, PortDone(who, p, ev)
  PROVE  /\ PortInv'
         /\ ~unseen' => seen' = PortLines(port') /\ port'.value = PortLines(port')
         /\ port' = p /\ port_events' = ev /\ port_inst' = who
  BY DEF PortDone, PortInv

(* The last event tells the lines as they are.                              *)
LEMMA LastTold ==
  ASSUME NEW who, NEW p, NEW ev, PortDone(who, p, ev), p.value = PortLines(p),
         ev # <<>> => ev[Len(ev)].new = PortLines(p)
  PROVE  ev # <<>> => seen' = PortLines(p) /\ ~unseen'
  BY DEF PortDone

(* The latch is written, by whom it may.                                    *)
LEMMA LatchWritten ==
  ASSUME PortInv, NEW n \in SUBSET Lines, NEW who, NEW p \in PortRecords,
         PortDone(who, WithLatch(p, n), LatchEvents(p, n)),
         who \in {"program", "user", "reset"}, who = "program" => p = port
  PROVE  PortInv' /\ Followed
<1> DEFINE x == [old |-> PortLines(p), new |-> PortLines(WithLatch(p, n))]
           ev == LatchEvents(p, n)
<1>1. /\ WithLatch(p, n) \in PortRecords
      /\ ev \in {<<>>, <<x>>, <<x, x>>}
      /\ WithLatch(p, n).value = PortLines(WithLatch(p, n))
      /\ PortLines(p) # PortLines(WithLatch(p, n)) => ev # <<>>
  BY LatchEventsAlike
<1>2. x.old = PortLines(p) /\ x.new = PortLines(WithLatch(p, n))
  OBVIOUS
<1> HIDE DEF x, ev
<1>3. PortDone(who, WithLatch(p, n), ev)
  BY DEF ev
<1>4. /\ PortInv'
      /\ ~unseen' => seen' = PortLines(port') /\ port'.value = PortLines(port')
      /\ port' = WithLatch(p, n) /\ port_events' = ev /\ port_inst' = who
  BY <1>1, <1>3, DoneKeeps
<1>5. ev # <<>> => ev[Len(ev)].new = PortLines(WithLatch(p, n))
  <2>1. <<x>>[Len(<<x>>)] = x /\ <<x, x>>[Len(<<x, x>>)] = x
    OBVIOUS
  <2> QED
    BY <1>1, <1>2, <2>1
<1>6. port_events' # <<>> => seen' = PortLines(port') /\ ~unseen'
  BY <1>1, <1>3, <1>4, <1>5, LastTold
<1>7. ASSUME who = "program", NEW i \in Lines
      PROVE  /\ RisesIn(i, ev) # {} <=> i \in PortLines(port') \ PortLines(port)
             /\ FallsIn(i, ev) # {} <=> i \in PortLines(port) \ PortLines(port')
  <2>1. CASE ev = <<>>
    BY <2>1, <1>1, <1>4, <1>7, NoEdges
  <2>2. CASE ev # <<>>
    BY <2>2, <1>1, <1>2, <1>4, <1>7, EdgesOf
  <2> QED
    BY <2>1, <2>2
<1> QED
  BY <1>4, <1>6, <1>7 DEF Followed

(* The outside drives the pins.                                             *)
LEMMA PinsSet == PortInv /\ SetPins => PortInv' /\ Followed
<1> SUFFICES ASSUME PortInv, SetPins PROVE PortInv' /\ Followed
  OBVIOUS
<1>0. PICK q \in SUBSET Lines : PortDone("outside", WithPins(port, q), PinEventsOf(port, q))
  BY DEF SetPins
<1> DEFINE x == [old |-> PortLines(port), new |-> PortLines(WithPins(port, q))]
           y == [old |-> PortLines(WithPins(port, q)), new |-> PortLines(WithPins(port, q))]
           ev == PinEventsOf(port, q)
<1>1. /\ WithPins(port, q) \in PortRecords
      /\ ev \in {<<>>, <<x>>, <<y>>, <<x, y>>}
      /\ WithPins(port, q).value = PortLines(WithPins(port, q))
      /\ PortLines(port) # PortLines(WithPins(port, q)) => ev \in {<<x>>, <<x, y>>}
  BY PinEventsAlike DEF PortInv
<1>2. x.old = PortLines(port) /\ x.new = PortLines(WithPins(port, q))
      /\ y.old = PortLines(WithPins(port, q)) /\ y.new = PortLines(WithPins(port, q))
  OBVIOUS
<1>p. PortDone("outside", WithPins(port, q), ev)
  BY <1>0
<1> HIDE DEF x, y, ev
<1>3. /\ PortInv'
      /\ ~unseen' => seen' = PortLines(port') /\ port'.value = PortLines(port')
      /\ port' = WithPins(port, q) /\ port_events' = ev /\ port_inst' = "outside"
  BY <1>1, <1>p, DoneKeeps
<1>4. port_events' # <<>> => seen' = PortLines(port') /\ ~unseen'
  <2>1. <<x>>[Len(<<x>>)] = x /\ <<y>>[Len(<<y>>)] = y /\ <<x, y>>[Len(<<x, y>>)] = y
    OBVIOUS
  <2>2. ev # <<>> => ev[Len(ev)].new = PortLines(WithPins(port, q))
    BY <1>1, <1>2, <2>1
  <2> QED
    BY <1>1, <1>3, <1>p, <2>2, LastTold
<1>5. ASSUME NEW i \in Lines
      PROVE  /\ RisesIn(i, ev) # {} <=> i \in PortLines(port') \ PortLines(port)
             /\ FallsIn(i, ev) # {} <=> i \in PortLines(port) \ PortLines(port')
             /\ RisesIn(i, ev) \cup FallsIn(i, ev) \in {{}, {1}}
  <2>1. CASE ev = <<>>
    BY <2>1, <1>1, <1>3, NoEdges
  <2>2. CASE ev = <<y>>
    <3>1. RisesIn(i, ev) = {} /\ FallsIn(i, ev) = {}
      BY <2>2, <1>2, FirstEdges
    <3>2. PortLines(port) = PortLines(port') \/ y = x
      <4>1. ev \in {<<x>>, <<x, y>>} => x = y
        <5>1. <<x>>[1] = x /\ <<y>>[1] = y /\ <<x, y>>[1] = x
          OBVIOUS
        <5> QED
          BY <2>2, <5>1
      <4> QED
        BY <4>1, <1>1, <1>3
    <3> QED
      BY <3>1, <3>2, <1>2, <1>3
  <2>3. CASE ev \in {<<x>>, <<x, y>>}
    BY <2>3, <1>2, <1>3, FirstEdges
  <2> QED
    BY <2>1, <2>2, <2>3, <1>1
<1>6. Cardinality({}) = 0 /\ Cardinality({1}) = 1
  BY FS_EmptySet, FS_Singleton
<1>7. \A i \in Lines : Cardinality(RisesIn(i, ev) \cup FallsIn(i, ev)) <= 1
  BY <1>5, <1>6
<1> QED
  BY <1>3, <1>4, <1>5, <1>7 DEF Followed

(* Every step of the port.                                                  *)
LEMMA PortStep == PortInv /\ PortsNext => PortInv' /\ Followed
<1> SUFFICES ASSUME PortInv, PortsNext PROVE PortInv' /\ Followed
  OBVIOUS
<1>0. port \in PortRecords
  BY DEF PortInv
<1>1. CASE WritePort
  BY <1>0, <1>1, LatchWritten DEF WritePort
<1>2. CASE WritePortBit
  <2>1. PICK i \in Lines, b \in BOOLEAN :
          LET n == IF b THEN port.latch \cup {i} ELSE port.latch \ {i}
          IN PortDone("program", WithLatch(port, n), LatchEvents(port, n))
    BY <1>2 DEF WritePortBit
  <2>2. (IF b THEN port.latch \cup {i} ELSE port.latch \ {i}) \in SUBSET Lines
    BY <1>0 DEF PortRecords
  <2> QED
    BY <1>0, <2>1, <2>2, LatchWritten
<1>3. CASE SetPins
  BY <1>3, PinsSet
<1>4. CASE HardwareSet
  <2>1. PICK n \in SUBSET Lines : PortDone("hardware", [port EXCEPT !.latch = n], <<>>)
    BY <1>4 DEF HardwareSet
  <2>2. [port EXCEPT !.latch = n] \in PortRecords
    BY <1>0 DEF PortRecords
  <2> QED
    BY <2>1, <2>2, DoneKeeps DEF Followed
<1>5. CASE WritePinCell
  <2>1. PICK q \in SUBSET Lines :
          PortDone("user", WithPins(port, q), PinEventsOf(port, q) \o PortEventOf(WithPins(port, q), q))
    BY <1>5 DEF WritePinCell
  <2>2. WithPins(port, q) \in PortRecords
    BY <1>0 DEF PortRecords, WithPins
  <2> QED
    BY <2>1, <2>2, DoneKeeps DEF Followed
<1>6. CASE WriteValueCell
  <2>1. PICK v \in SUBSET Lines : PortDone("user", [port EXCEPT !.value = v], PortEventOf(port, v))
    BY <1>6 DEF WriteValueCell
  <2>2. [port EXCEPT !.value = v] \in PortRecords
    BY <1>0 DEF PortRecords
  <2> QED
    BY <2>1, <2>2, DoneKeeps DEF Followed
<1>7. CASE WriteOdrCell
  BY <1>0, <1>7, LatchWritten DEF WriteOdrCell
<1>8. CASE WriteOnCell
  BY <1>0, <1>8, DoneKeeps DEF WriteOnCell, Followed
<1>9. CASE PortReset
  <2>1. [port EXCEPT !.latch = {}] \in PortRecords
    BY <1>0 DEF PortRecords
  <2> QED
    BY <1>9, <2>1, LatchWritten DEF PortReset
<1> QED
  BY <1>1, <1>2, <1>3, <1>4, <1>5, <1>6, <1>7, <1>8, <1>9 DEF PortsNext

(* Whatever happened behind the back of the port, its partners hear of every *)
(* edge that a program or an outside circuit makes and of none that is not   *)
(* there, whatever the number of lines (cl_port::write(), set_pin()).        *)
THEOREM PartnersFollowAlways == PortsSpec => PartnersFollow
<1>1. PortsInit => PortInv
  BY DEF PortsInit, PortInv, PortRecords, PortLines
<1>2. PortInv /\ [PortsNext]_port_vars => PortInv'
  <2>1. PortInv /\ UNCHANGED port_vars => PortInv'
    BY DEF PortInv, port_vars
  <2> QED
    BY <2>1, PortStep
<1>3. PortInv /\ [PortsNext]_port_vars => [Followed]_port_vars
  BY PortStep
<1>4. PartnersFollow <=> [][Followed]_port_vars
  BY DEF PartnersFollow, Followed
<1>5. PortsSpec => [][Followed]_port_vars
  BY <1>1, <1>2, <1>3, PTL DEF PortsSpec
<1> QED
  BY <1>4, <1>5

-----------------------------------------------------------------------------
(* An operation of a port tells its partners of three events at most.       *)
(* At most n events.                                                        *)
PortEvent == [old : SUBSET Lines, new : SUBSET Lines]

Told(ev, n) == ev \in Seq(PortEvent) /\ Len(ev) <= n

(* No event is a list of events, ...                                        *)
LEMMA ToldNone == Told(<<>>, 0)
BY DEF Told

(* ... one is, ...                                                          *)
LEMMA ToldOne ==
  ASSUME NEW x \in SUBSET Lines, NEW y \in SUBSET Lines
  PROVE  Told(<<[old |-> x, new |-> y]>>, 1)
<1> DEFINE e == [old |-> x, new |-> y]
<1>1. e \in PortEvent
  BY DEF PortEvent
<1> HIDE DEF e
<1>2. <<e>> \in Seq(PortEvent) /\ Len(<<e>>) = 1
  BY <1>1
<1> QED
  BY <1>2 DEF Told, e

(* ... two lists in a row are ...                                           *)
LEMMA ToldBoth ==
  ASSUME NEW m \in Nat, NEW n \in Nat, NEW x, NEW y, Told(x, m), Told(y, n)
  PROVE  Told(x \o y, m + n)
<1>1. x \o y \in Seq(PortEvent) /\ Len(x \o y) = Len(x) + Len(y) /\ Len(x) \in Nat /\ Len(y) \in Nat
  BY ConcatProperties DEF Told
<1> QED
  BY <1>1 DEF Told

(* ... and a bound may be wider.                                            *)
LEMMA ToldMore ==
  ASSUME NEW m \in Nat, NEW n \in Nat, m <= n, NEW x, Told(x, m)
  PROVE  Told(x, n)
<1>1. Len(x) \in Nat
  BY DEF Told
<1> QED
  BY <1>1 DEF Told

(* The event of the latch alone.                                            *)
LEMMA EventOfTold ==
  ASSUME NEW p \in PortRecords, NEW n \in SUBSET Lines
  PROVE  Told(PortEventOf(p, n), 1)
<1>1. PortLines(p) \in SUBSET Lines /\ p.pins \cap n \in SUBSET Lines
  BY DEF PortRecords, PortLines
<1>2. Told(<<[old |-> PortLines(p), new |-> p.pins \cap n]>>, 1)
  BY <1>1, ToldOne
<1>3. Told(<<>>, 1)
  BY ToldNone, ToldMore
<1> QED
  BY <1>2, <1>3 DEF PortEventOf

(* The event of a cell that shows the lines.                                *)
LEMMA ValueTold ==
  ASSUME NEW p \in PortRecords, NEW n \in SUBSET Lines
  PROVE  Told(ValueEvents(p, n), 1)
<1>1. Told(PortEventOf(p, n), 1)
  BY EventOfTold
<1>2. Told(<<>>, 1)
  BY ToldNone, ToldMore
<1> QED
  BY <1>1, <1>2 DEF ValueEvents

(* A write of the latch gives two events at most, ...                       *)
LEMMA LatchTold ==
  ASSUME NEW p \in PortRecords, NEW n \in SUBSET Lines
  PROVE  Told(LatchEvents(p, n), 2) /\ WithLatch(p, n) \in PortRecords
<1>1. n \cap p.pins \in SUBSET Lines
  OBVIOUS
<1>2. Told(ValueEvents(p, n \cap p.pins), 1) /\ Told(PortEventOf(p, n), 1)
  BY <1>1, ValueTold, EventOfTold
<1>3. Told(ValueEvents(p, n \cap p.pins) \o PortEventOf(p, n), 1 + 1)
  BY <1>2, ToldBoth
<1>4. WithLatch(p, n) \in PortRecords
  BY DEF WithLatch, PortRecords
<1> QED
  BY <1>3, <1>4 DEF LatchEvents

(* ... and so does a change of the pins.                                    *)
LEMMA PinsTold ==
  ASSUME NEW p \in PortRecords, NEW q \in SUBSET Lines
  PROVE  Told(PinEventsOf(p, q), 2) /\ WithPins(p, q) \in PortRecords
<1> DEFINE after == [p EXCEPT !.pins = q]
           a == IF q = p.pins THEN <<>> ELSE <<[old |-> PortLines(p), new |-> PortLines(after)]>>
           b == ValueEvents(after, PortLines(after))
<1>1. after \in PortRecords
  BY DEF PortRecords
<1>2. PortLines(p) \in SUBSET Lines /\ PortLines(after) \in SUBSET Lines
  BY <1>1 DEF PortRecords, PortLines
<1>3. Told(a, 1)
  <2>1. Told(<<[old |-> PortLines(p), new |-> PortLines(after)]>>, 1)
    BY <1>2, ToldOne
  <2>2. Told(<<>>, 1)
    BY ToldNone, ToldMore
  <2> QED
    BY <2>1, <2>2
<1>4. Told(b, 1)
  BY <1>1, <1>2, ValueTold
<1>5. PinEventsOf(p, q) = a \o b
  BY DEF PinEventsOf
<1>6. WithPins(p, q) \in PortRecords
  BY DEF WithPins, PortRecords
<1> HIDE DEF a, b
<1>7. Told(a \o b, 1 + 1)
  BY <1>3, <1>4, ToldBoth
<1> QED
  BY <1>5, <1>6, <1>7

(* With three of them the types are kept.                                   *)
LEMMA DoneType ==
  ASSUME PortsTypeOK, NEW who \in {"program", "outside", "hardware", "user", "reset"},
         NEW p \in PortRecords, NEW ev, Told(ev, 3), PortDone(who, p, ev)
  PROVE  PortsTypeOK'
<1>1. port' = p /\ port_events' = ev /\ port_inst' = who
      /\ seen' = (IF ev = <<>> THEN seen ELSE ev[Len(ev)].new)
  BY DEF PortDone
<1>2. unseen' \in BOOLEAN
  BY DEF PortDone, PortsTypeOK
<1>3. seen' \in SUBSET Lines
  <2>1. CASE ev = <<>>
    BY <1>1, <2>1 DEF PortsTypeOK
  <2>2. CASE ev # <<>>
    <3>1. ev \in Seq(PortEvent) /\ Len(ev) \in 1..Len(ev)
      BY <2>2 DEF Told
    <3>2. ev[Len(ev)] \in PortEvent
      BY <3>1
    <3> QED
      BY <1>1, <2>2, <3>2 DEF PortEvent
  <2> QED
    BY <2>1, <2>2
<1> QED
  BY <1>1, <1>2, <1>3 DEF PortsTypeOK, PortRecords, Told

(* Every step of the port keeps the types.                                  *)
LEMMA PortTypeStep == PortsTypeOK /\ [PortsNext]_port_vars => PortsTypeOK'
<1> SUFFICES ASSUME PortsTypeOK, [PortsNext]_port_vars PROVE PortsTypeOK'
  OBVIOUS
<1>0. port \in PortRecords
  BY DEF PortsTypeOK, PortRecords
<1>1. ASSUME NEW who \in {"program", "user", "reset"}, NEW p \in PortRecords, NEW n \in SUBSET Lines,
             PortDone(who, WithLatch(p, n), LatchEvents(p, n))
      PROVE  PortsTypeOK'
  <2>1. Told(LatchEvents(p, n), 2) /\ WithLatch(p, n) \in PortRecords
    BY LatchTold
  <2>2. Told(LatchEvents(p, n), 3)
    BY <2>1, ToldMore
  <2> QED
    BY <1>1, <2>1, <2>2, DoneType
<1>2. CASE WritePort
  BY <1>0, <1>1, <1>2 DEF WritePort
<1>3. CASE WritePortBit
  <2>1. PICK i \in Lines, b \in BOOLEAN :
          LET n == IF b THEN port.latch \cup {i} ELSE port.latch \ {i}
          IN PortDone("program", WithLatch(port, n), LatchEvents(port, n))
    BY <1>3 DEF WritePortBit
  <2>2. (IF b THEN port.latch \cup {i} ELSE port.latch \ {i}) \in SUBSET Lines
    BY <1>0 DEF PortRecords
  <2> QED
    BY <1>0, <1>1, <2>1, <2>2
<1>4. CASE SetPins
  <2>1. PICK q \in SUBSET Lines : PortDone("outside", WithPins(port, q), PinEventsOf(port, q))
    BY <1>4 DEF SetPins
  <2>2. Told(PinEventsOf(port, q), 3) /\ WithPins(port, q) \in PortRecords
    BY <1>0, PinsTold, ToldMore
  <2> QED
    BY <2>1, <2>2, DoneType
<1>5. CASE HardwareSet
  <2>1. PICK n \in SUBSET Lines : PortDone("hardware", [port EXCEPT !.latch = n], <<>>)
    BY <1>5 DEF HardwareSet
  <2>2. [port EXCEPT !.latch = n] \in PortRecords
    BY <1>0 DEF PortRecords
  <2>3. Told(<<>>, 3)
    BY ToldNone, ToldMore
  <2> QED
    BY <2>1, <2>2, <2>3, DoneType
<1>6. CASE WritePinCell
  <2>1. PICK q \in SUBSET Lines :
          PortDone("user", WithPins(port, q), PinEventsOf(port, q) \o PortEventOf(WithPins(port, q), q))
    BY <1>6 DEF WritePinCell
  <2>2. Told(PinEventsOf(port, q), 2) /\ WithPins(port, q) \in PortRecords
    BY <1>0, PinsTold
  <2>3. Told(PortEventOf(WithPins(port, q), q), 1)
    BY <2>2, EventOfTold
  <2>4. Told(PinEventsOf(port, q) \o PortEventOf(WithPins(port, q), q), 2 + 1)
    BY <2>2, <2>3, ToldBoth
  <2> QED
    BY <2>1, <2>2, <2>4, DoneType
<1>7. CASE WriteValueCell
  <2>1. PICK v \in SUBSET Lines : PortDone("user", [port EXCEPT !.value = v], PortEventOf(port, v))
    BY <1>7 DEF WriteValueCell
  <2>2. [port EXCEPT !.value = v] \in PortRecords
    BY <1>0 DEF PortRecords
  <2>3. Told(PortEventOf(port, v), 3)
    BY <1>0, EventOfTold, ToldMore
  <2> QED
    BY <2>1, <2>2, <2>3, DoneType
<1>8. CASE WriteOdrCell
  BY <1>0, <1>1, <1>8 DEF WriteOdrCell
<1>9. CASE WriteOnCell
  <2>1. PICK n \in {{}, {0}} : PortDone("user", port, PortEventOf(port, n))
    BY <1>9 DEF WriteOnCell
  <2>2. n \in SUBSET Lines
    BY PortsAssumption
  <2>3. Told(PortEventOf(port, n), 3)
    BY <1>0, <2>2, EventOfTold, ToldMore
  <2> QED
    BY <1>0, <2>1, <2>3, DoneType
<1>10. CASE PortReset
  <2>1. [port EXCEPT !.latch = {}] \in PortRecords
    BY <1>0 DEF PortRecords
  <2> QED
    BY <1>1, <1>10, <2>1 DEF PortReset
<1>11. CASE UNCHANGED port_vars
  BY <1>11 DEF port_vars, PortsTypeOK
<1> QED
  BY <1>2, <1>3, <1>4, <1>5, <1>6, <1>7, <1>8, <1>9, <1>10, <1>11 DEF PortsNext

(* The initial state.                                                       *)
LEMMA PortTypeInit == PortsInit => PortsTypeOK
<1> SUFFICES ASSUME PortsInit
             PROVE  PortsTypeOK
  OBVIOUS
<1>1. port = [latch |-> Lines, pins |-> Lines, value |-> Lines] /\ seen = Lines /\ unseen = FALSE
  BY DEF PortsInit
<1>2. port_events = <<>> /\ port_inst = "reset"
  BY DEF PortsInit
<1>3. Lines \in SUBSET Lines
  OBVIOUS
<1>4. port \in [latch : SUBSET Lines, pins : SUBSET Lines, value : SUBSET Lines]
  BY <1>1, <1>3
<1>5. Len(port_events) <= 3
  BY <1>2
<1>6. seen \in SUBSET Lines /\ unseen \in BOOLEAN
  BY <1>1, <1>3
<1>7. port_inst \in {"program", "outside", "hardware", "user", "reset"}
  BY <1>2
<1> QED
  BY <1>4, <1>5, <1>6, <1>7 DEF PortsTypeOK

(* The types of the port hold always.                                       *)
LEMMA PortTypeAlways == PortsSpec => []PortsTypeOK
<1>1. PortsTypeOK /\ [PortsNext]_port_vars => PortsTypeOK'
  BY PortTypeStep
<1> QED
  BY PortTypeInit, <1>1, PTL DEF PortsSpec

-----------------------------------------------------------------------------
(* What a count leaves alone.                                               *)
Alike(u, v) ==
  /\ v \in W2
  /\ v.rcap = u.rcap /\ v.baud = u.baud /\ v.CP_RL2 = u.CP_RL2 /\ v.C_T = u.C_T
  /\ v.EXEN2 = u.EXEN2 /\ v.TR = u.TR /\ v.TF2 = u.TF2 /\ v.EXF2 = u.EXF2 /\ v.mode = u.mode
  /\ v.exf2it = u.exf2it /\ v.T_edge = u.T_edge /\ v.t2ex_edge = u.t2ex_edge /\ v.P1_6 = u.P1_6

RestartOf(u) == IF u.mode = "capture" THEN 0 ELSE RcapOf(u)

Runs == [u : W2, ends : Nat, start : 0..(Whole - 1), since : Nat]

(* The values of T2, and of its bytes.                                      *)
LEMMA WholeType == Whole \in Nat \ {0} /\ Whole > 1 /\ 0 \in Byte /\ Base - 1 \in Byte
<1> USE ByteAssumption, S52Timer2Assumption
<1>1. 0 \in Byte /\ Base - 1 \in Byte
  BY DEF Byte
<1>2. Base * Base >= 2 * Base
  <2>1. PICK e \in Nat : Base = e + 2
    <3>1. Base - 2 \in Nat /\ Base = (Base - 2) + 2
      OBVIOUS
    <3> QED
      BY <3>1
  <2>2. Base * Base = 2 * Base + e * Base /\ e * Base \in Nat
    BY <2>1
  <2> QED
    BY <2>2
<1>3. Base * Base \in Nat
  OBVIOUS
<1> QED
  BY <1>1, <1>2, <1>3 DEF Whole

(* T2, RCAP2 and the value T2 is reloaded with are values of two bytes.     *)
LEMMA NumberType ==
  ASSUME NEW u \in W2
  PROVE  /\ T2Of(u) \in 0..(Whole - 1) /\ RcapOf(u) \in 0..(Whole - 1)
         /\ RestartOf(u) \in 0..(Whole - 1)
         /\ u.h \in Byte /\ u.l \in Byte
<1>1. u.h \in Byte /\ u.l \in Byte /\ u.rcap[1] \in Byte /\ u.rcap[2] \in Byte
  BY DEF W2
<1>2. T2Of(u) \in 0..(Whole - 1)
  BY <1>1, Highest DEF T2Of, Sixteen, Whole
<1>3. RcapOf(u) \in 0..(Whole - 1)
  <2> DEFINE h == u.rcap[1]
             l == u.rcap[2]
  <2>1. h \in Byte /\ l \in Byte
    BY <1>1
  <2> HIDE DEF h, l
  <2>2. h * Base + l \in 0..(Whole - 1)
    BY <2>1, Highest DEF Whole
  <2> QED
    BY <2>2 DEF RcapOf, Sixteen, h, l
<1>4. 0 \in 0..(Whole - 1)
  BY WholeType
<1> QED
  BY <1>1, <1>2, <1>3, <1>4 DEF RestartOf

(* Counting up, T2 wraps at its highest value.                              *)
LEMMA Incremented ==
  ASSUME NEW u \in W2
  PROVE  /\ Alike(u, Increment(u))
         /\ T2Of(Increment(u)) = IF T2Of(u) = Whole - 1 THEN 0 ELSE T2Of(u) + 1
<1> DEFINE v == Increment(u)
           l2 == Up(u.l)
           h2 == IF Up(u.l) = 0 THEN Up(u.h) ELSE u.h
<1>1. u.h \in Byte /\ u.l \in Byte /\ 0 \in Byte
  BY NumberType, WholeType
<1>2. \A n \in Byte : Up(n) = (IF n = Base - 1 THEN 0 ELSE n + 1) /\ Up(n) \in Byte
  BY ByteAssumption DEF Up, Byte
<1>3. l2 \in Byte /\ h2 \in Byte
  BY <1>1, <1>2
<1>4. v = [u EXCEPT !.l = l2, !.h = h2]
  BY DEF Increment
<1> HIDE DEF l2, h2, v
<1>5. Alike(u, v) /\ v.h = h2 /\ v.l = l2
  BY <1>3, <1>4 DEF Alike, W2
<1>6. T2Of(v) = h2 * Base + l2
  BY <1>5 DEF T2Of, Sixteen
<1> DEFINE h == u.h
           l == u.l
<1>7. T2Of(u) = h * Base + l
  BY DEF T2Of, Sixteen
<1>8. CASE h = Base - 1 /\ l = Base - 1
  <2>1. T2Of(u) = Whole - 1
    BY <1>1, <1>7, <1>8, Highest DEF Whole
  <2>2. l2 = 0 /\ h2 = 0
    BY <1>1, <1>2, <1>8 DEF l2, h2
  <2>3. 0 * Base + 0 = 0
    BY ByteAssumption
  <2> QED
    BY <1>5, <1>6, <2>1, <2>2, <2>3 DEF v
<1>9. CASE ~ (h = Base - 1 /\ l = Base - 1)
  <2>1. T2Of(u) # Whole - 1
    BY <1>1, <1>7, <1>9, Highest DEF Whole
  <2>2. h2 = IF l = Base - 1 THEN Up(h) ELSE h
    BY <1>1, <1>2, ByteAssumption DEF h2, Byte
  <2> HIDE DEF h, l
  <2>3. h \in Byte /\ l \in Byte
    BY <1>1 DEF h, l
  <2>4. (IF l = Base - 1 THEN Up(h) ELSE h) * Base + Up(l) = h * Base + l + 1
    BY <1>9, <2>3, CarriesOver
  <2>5. T2Of(v) = T2Of(u) + 1
    BY <1>6, <1>7, <2>2, <2>4 DEF l2, l
  <2> QED
    BY <1>5, <2>1, <2>5 DEF v
<1> QED
  BY <1>8, <1>9

(* Counting down, it wraps at 0.                                            *)
LEMMA Decremented ==
  ASSUME NEW u \in W2
  PROVE  /\ Alike(u, Decrement(u))
         /\ T2Of(Decrement(u)) = IF T2Of(u) = 0 THEN Whole - 1 ELSE T2Of(u) - 1
<1> DEFINE v == Decrement(u)
           h == u.h
           l == u.l
           l2 == Lower(l)
           h2 == IF l = 0 THEN Lower(h) ELSE h
<1>1. h \in Byte /\ l \in Byte /\ 0 \in Byte
  BY NumberType, WholeType
<1>2. \A n \in Byte : Lower(n) = (IF n = 0 THEN Base - 1 ELSE n - 1) /\ Lower(n) \in Byte
  <2> SUFFICES ASSUME NEW n \in Byte
               PROVE  Lower(n) = (IF n = 0 THEN Base - 1 ELSE n - 1) /\ Lower(n) \in Byte
    OBVIOUS
  <2>1. CASE n # 0
    BY <1>1, <2>1, Borrow, ByteAssumption DEF Lower, Byte
  <2>2. CASE n = 0
    BY <2>2, ByteAssumption DEF Lower, Byte
  <2> QED
    BY <2>1, <2>2
<1>3. l2 \in Byte /\ h2 \in Byte
  BY <1>1, <1>2
<1>4. v = [u EXCEPT !.l = l2, !.h = h2]
  BY DEF Decrement
<1> HIDE DEF l2, h2, v
<1>5. Alike(u, v) /\ v.h = h2 /\ v.l = l2
  BY <1>3, <1>4 DEF Alike, W2
<1>6. T2Of(v) = h2 * Base + l2 /\ T2Of(u) = h * Base + l
  BY <1>5 DEF T2Of, Sixteen
<1>7. CASE h = 0 /\ l = 0
  <2>1. T2Of(u) = 0
    <3>1. 0 * Base + 0 = 0
      BY ByteAssumption
    <3> QED
      BY <1>6, <1>7, <3>1
  <2>2. l2 = Base - 1 /\ h2 = Base - 1
    BY <1>1, <1>2, <1>7 DEF l2, h2
  <2>3. (Base - 1) * Base + (Base - 1) = Whole - 1
    BY WholeType, Highest DEF Whole
  <2> QED
    BY <1>5, <1>6, <2>1, <2>2, <2>3 DEF v
<1>8. CASE ~ (h = 0 /\ l = 0)
  <2> HIDE DEF h, l
  <2>1. CASE l = 0
    <3>1. h - 1 \in Byte /\ h2 = h - 1 /\ l2 = Base - 1 /\ (h - 1) * Base + (Base - 1) = h * Base - 1
      BY <1>1, <1>2, <1>8, <2>1, Borrow DEF h2, l2
    <3>2. h * Base \in Int /\ (h - 1) * Base + (Base - 1) \in Nat
      BY <1>1, <3>1, ByteAssumption DEF Byte
    <3>3. T2Of(v) = T2Of(u) - 1 /\ T2Of(u) # 0
      BY <1>6, <2>1, <3>1, <3>2
    <3> QED
      BY <1>5, <3>3 DEF v
  <2>2. CASE l # 0
    <3>1. h2 = h /\ l2 = l - 1
      BY <1>1, <1>2, <2>2 DEF h2, l2
    <3>2. h * Base \in Nat /\ l \in Nat
      BY <1>1, ByteAssumption DEF Byte
    <3>3. T2Of(v) = T2Of(u) - 1 /\ T2Of(u) # 0
      BY <1>6, <2>2, <3>1, <3>2
    <3> QED
      BY <1>5, <3>3 DEF v
  <2> QED
    BY <2>1, <2>2
<1> QED
  BY <1>7, <1>8

(* A reload.                                                                *)
LEMMA LoadedIs ==
  ASSUME NEW u \in W2
  PROVE  Alike(u, Loaded(u)) /\ T2Of(Loaded(u)) = RestartOf(u)
<1>1. u.rcap[1] \in Byte /\ u.rcap[2] \in Byte /\ 0 \in Byte
  BY WholeType DEF W2
<1>2. CASE u.mode = "capture"
  <2>1. Loaded(u) = [u EXCEPT !.h = 0, !.l = 0]
    BY <1>2 DEF Loaded
  <2>2. Alike(u, Loaded(u)) /\ Loaded(u).h = 0 /\ Loaded(u).l = 0
    BY <1>1, <2>1 DEF Alike, W2
  <2>3. 0 * Base + 0 = 0
    BY ByteAssumption
  <2> QED
    BY <1>2, <2>2, <2>3 DEF T2Of, Sixteen, RestartOf
<1>3. CASE u.mode # "capture"
  <2> DEFINE h == u.rcap[1]
             l == u.rcap[2]
  <2>1. Loaded(u) = [u EXCEPT !.h = h, !.l = l]
    BY <1>3 DEF Loaded
  <2> HIDE DEF h, l
  <2>2. Alike(u, Loaded(u)) /\ Loaded(u).h = h /\ Loaded(u).l = l
    BY <1>1, <2>1 DEF Alike, W2, h, l
  <2> QED
    BY <1>3, <2>2 DEF T2Of, RestartOf, RcapOf, h, l
<1> QED
  BY <1>2, <1>3

(* What leaves the setup alone twice leaves it alone.                       *)
LEMMA AlikeAlso ==
  ASSUME NEW u, NEW v, NEW w, Alike(u, v), Alike(v, w)
  PROVE  Alike(u, w)
BY DEF Alike

(* What a count does, in numbers.                                           *)
CountedUp(r, c) ==
  IF T2Of(r.u) = Whole - 1
  THEN /\ c.ends = r.ends + 1 /\ T2Of(c.u) = RestartOf(r.u)
       /\ c.start = RestartOf(r.u) /\ c.since = 0
  ELSE c.ends = r.ends /\ T2Of(c.u) = T2Of(r.u) + 1 /\ c.start = r.start /\ c.since = r.since + 1

CountedDown(r, c) ==
  IF T2Of(r.u) = 0
  THEN c.ends = r.ends /\ T2Of(c.u) = Whole - 1 /\ c.start = Whole - 1 /\ c.since = 0
  ELSE IF T2Of(r.u) <= RcapOf(r.u)
  THEN c.ends = r.ends + 1 /\ T2Of(c.u) = Whole - 1 /\ c.start = Whole - 1 /\ c.since = 0
  ELSE c.ends = r.ends /\ T2Of(c.u) = T2Of(r.u) - 1 /\ c.start = r.start /\ c.since = r.since + 1

CountIs(r, c) ==
  /\ c \in Runs /\ Alike(r.u, c.u)
  /\ IF Downwards(r.u) THEN CountedDown(r, c) ELSE CountedUp(r, c)

(* One count of T2 in the direction it has, with the reload it brings.      *)
LEMMA CountsOnce ==
  ASSUME NEW r \in Runs
  PROVE  CountIs(r, Counted1(r))
<1>1. r.u \in W2 /\ r.ends \in Nat /\ r.start \in 0..(Whole - 1) /\ r.since \in Nat
  BY DEF Runs
<1> DEFINE x == T2Of(r.u)
           p == RcapOf(r.u)
           c == Counted1(r)
<1>2. x \in 0..(Whole - 1) /\ p \in 0..(Whole - 1) /\ RestartOf(r.u) \in 0..(Whole - 1)
  BY <1>1, NumberType
<1>3. Whole \in Nat \ {0} /\ Whole > 1 /\ Whole - 1 \in 0..(Whole - 1)
  BY WholeType
<1>4. CASE Downwards(r.u)
  <2> DEFINE v == Decrement(r.u)
             top == [v EXCEPT !.h = Base - 1, !.l = Base - 1]
             y == T2Of(v)
  <2>1. Alike(r.u, v) /\ y = IF x = 0 THEN Whole - 1 ELSE x - 1
    BY <1>1, Decremented
  <2>2. v \in W2 /\ RcapOf(v) = p
    BY <2>1 DEF Alike, RcapOf
  <2>3. Alike(v, top) /\ T2Of(top) = Whole - 1
    <3> HIDE DEF v
    <3>1. Base - 1 \in Byte
      BY WholeType
    <3>2. Alike(v, top) /\ top.h = Base - 1 /\ top.l = Base - 1
      BY <2>2, <3>1 DEF Alike, W2
    <3>3. (Base - 1) * Base + (Base - 1) = Whole - 1
      BY WholeType, Highest DEF Whole
    <3> QED
      BY <3>2, <3>3 DEF T2Of, Sixteen
  <2>4. Alike(r.u, top) /\ top \in W2
    <3> HIDE DEF v, top
    <3> QED
      BY <2>1, <2>3, AlikeAlso DEF Alike
  <2>5. Underflows(v) <=> y < p
    BY <2>2 DEF Underflows
  <2>6. c = IF Underflows(v)
            THEN [u |-> top, ends |-> r.ends + 1, start |-> Whole - 1, since |-> 0]
            ELSE IF y = Whole - 1 THEN [r EXCEPT !.u = v, !.start = Whole - 1, !.since = 0]
            ELSE [r EXCEPT !.u = v, !.since = @ + 1]
    BY <1>4 DEF Counted1
  <2> HIDE DEF v, top, c
  <2>7. CASE y < p
    <3>1. c = [u |-> top, ends |-> r.ends + 1, start |-> Whole - 1, since |-> 0]
      BY <2>5, <2>6, <2>7
    <3>2. /\ c \in Runs /\ c.u = top /\ c.ends = r.ends + 1 /\ c.start = Whole - 1 /\ c.since = 0
      BY <1>1, <1>3, <2>4, <3>1 DEF Runs
    <3>3. x # 0 /\ x <= p
      BY <1>2, <1>3, <2>1, <2>7
    <3>4. CountedDown(r, c)
      BY <2>3, <3>2, <3>3 DEF CountedDown
    <3> QED
      BY <1>4, <2>4, <3>2, <3>4 DEF CountIs, c
  <2>8. CASE ~ (y < p) /\ x = 0
    <3>1. y = Whole - 1
      BY <2>1, <2>8
    <3>2. c = [r EXCEPT !.u = v, !.start = Whole - 1, !.since = 0]
      BY <2>5, <2>6, <2>8, <3>1
    <3>3. c \in Runs /\ c.u = v /\ c.ends = r.ends /\ c.start = Whole - 1 /\ c.since = 0
      BY <1>1, <1>3, <2>2, <3>2 DEF Runs
    <3>4. CountedDown(r, c)
      BY <2>8, <3>1, <3>3 DEF CountedDown
    <3> QED
      BY <1>4, <2>1, <3>3, <3>4 DEF CountIs, c
  <2>9. CASE ~ (y < p) /\ x # 0
    <3>1. y = x - 1 /\ y # Whole - 1 /\ ~ (x <= p)
      BY <1>2, <1>3, <2>1, <2>9
    <3> DEFINE n == r.since + 1
    <3>2. c = [r EXCEPT !.u = v, !.since = n] /\ n \in Nat
      BY <1>1, <2>5, <2>6, <2>9, <3>1
    <3> HIDE DEF n
    <3>3. c \in Runs /\ c.u = v /\ c.ends = r.ends /\ c.start = r.start /\ c.since = n
      BY <1>1, <2>2, <3>2 DEF Runs
    <3>4. CountedDown(r, c)
      BY <2>9, <3>1, <3>3 DEF CountedDown, n
    <3> QED
      BY <1>4, <2>1, <3>3, <3>4 DEF CountIs, c
  <2> QED
    BY <2>7, <2>8, <2>9
<1>5. CASE ~ Downwards(r.u)
  <2> DEFINE v == Increment(r.u)
             y == T2Of(v)
  <2>1. Alike(r.u, v) /\ y = IF x = Whole - 1 THEN 0 ELSE x + 1
    BY <1>1, Incremented
  <2>2. v \in W2 /\ RestartOf(v) = RestartOf(r.u)
    BY <2>1 DEF Alike, RestartOf, RcapOf
  <2>3. Alike(v, Loaded(v)) /\ T2Of(Loaded(v)) = RestartOf(r.u)
    BY <2>2, LoadedIs
  <2>4. Alike(r.u, Loaded(v)) /\ Loaded(v) \in W2
    <3> HIDE DEF v
    <3> QED
      BY <2>1, <2>3, AlikeAlso DEF Alike
  <2>5. c = IF y # 0 THEN [r EXCEPT !.u = v, !.since = @ + 1]
            ELSE [u |-> Loaded(v), ends |-> r.ends + 1, start |-> T2Of(Loaded(v)), since |-> 0]
    BY <1>5 DEF Counted1
  <2> HIDE DEF v, c
  <2>6. CASE x = Whole - 1
    <3>1. c = [u |-> Loaded(v), ends |-> r.ends + 1, start |-> RestartOf(r.u), since |-> 0]
      BY <2>1, <2>3, <2>5, <2>6
    <3>2. /\ c \in Runs /\ c.u = Loaded(v) /\ c.ends = r.ends + 1 /\ c.start = RestartOf(r.u)
          /\ c.since = 0
      BY <1>1, <1>2, <2>4, <3>1 DEF Runs
    <3>3. CountedUp(r, c)
      BY <2>3, <2>6, <3>2 DEF CountedUp
    <3> QED
      BY <1>5, <2>4, <3>2, <3>3 DEF CountIs, c
  <2>7. CASE x # Whole - 1
    <3>1. y = x + 1 /\ y # 0
      BY <1>2, <2>1, <2>7
    <3> DEFINE n == r.since + 1
    <3>2. c = [r EXCEPT !.u = v, !.since = n] /\ n \in Nat
      BY <1>1, <2>5, <3>1
    <3> HIDE DEF n
    <3>3. c \in Runs /\ c.u = v /\ c.ends = r.ends /\ c.start = r.start /\ c.since = n
      BY <1>1, <2>2, <3>2 DEF Runs
    <3>4. CountedUp(r, c)
      BY <2>7, <3>1, <3>3 DEF CountedUp, n
    <3> QED
      BY <1>5, <2>1, <3>3, <3>4 DEF CountIs, c
  <2> QED
    BY <2>6, <2>7
<1> QED
  BY <1>4, <1>5

(* The states that k counts go through.                                     *)
LEMMA CountedRuns ==
  ASSUME NEW r0 \in Runs, NEW k \in Nat
  PROVE  \E g : /\ g[0] = r0 /\ \A i \in 0..k : g[i] \in Runs
                /\ \A i \in 0..k : i < k => CountIs(g[i], g[i + 1])
                /\ Counted(r0, k) = g[k]
<1> DEFINE F == [r \in Runs |-> Counted1(r)]
           Eq(g) == g = [n \in 0..k |-> IF n = 0 THEN r0 ELSE Counted1(g[n - 1])]
           f == CHOOSE g : Eq(g)
<1>1. F \in [Runs -> Runs]
  BY CountsOnce DEF CountIs
<1>2. \E g : Eq(g)
  <2>4. PICK g : Repetition(Runs, F, r0, k, g)
    <3> HIDE DEF F
    <3> QED
      BY <1>1, Repeats
  <2>1. /\ g = [n \in 0..k |-> IF n = 0 THEN r0 ELSE F[g[n - 1]]]
        /\ \A i \in 0..k : g[i] \in Runs
    <3> HIDE DEF F
    <3> QED
      BY <2>4 DEF Repetition
  <2>2. \A n \in 0..k : (IF n = 0 THEN r0 ELSE F[g[n - 1]]) = (IF n = 0 THEN r0 ELSE Counted1(g[n - 1]))
    <3> SUFFICES ASSUME NEW n \in 0..k, n # 0 PROVE F[g[n - 1]] = Counted1(g[n - 1])
      OBVIOUS
    <3>1. n - 1 \in 0..k
      OBVIOUS
    <3>2. g[n - 1] \in Runs
      BY <2>1, <3>1
    <3> QED
      BY <3>2
  <2>3. Eq(g)
    <3> HIDE DEF F
    <3> QED
      BY <2>1, <2>2
  <2> HIDE DEF Eq
  <2> QED
    BY <2>3
<1>3. Eq(f)
  <2> HIDE DEF Eq
  <2> QED
    BY <1>2
<1>4. Counted(r0, k) = f[k]
  BY DEF Counted
<1> HIDE DEF f
<1>5. f[0] = r0
  BY <1>3
<1>6. \A i \in 0..k : i < k => f[i + 1] = Counted1(f[i])
  <2> SUFFICES ASSUME NEW i \in 0..k, i < k PROVE f[i + 1] = Counted1(f[i])
    OBVIOUS
  <2>1. i + 1 \in 0..k /\ i + 1 # 0 /\ (i + 1) - 1 = i
    OBVIOUS
  <2> QED
    BY <1>3, <2>1
<1> HIDE DEF Eq
<1>7. \A i \in 0..k : f[i] \in Runs
  <2> DEFINE P == {i \in 0..k : f[i] \in Runs}
  <2>1. 0 \in P
    BY <1>5
  <2>2. \A i \in 0..k : i \in P /\ i < k => i + 1 \in P
    BY <1>6, CountsOnce DEF CountIs
  <2> HIDE DEF P
  <2>3. 0..k \subseteq P
    BY <2>1, <2>2, UpTo
  <2> QED
    BY <2>3 DEF P
<1>8. \A i \in 0..k : i < k => CountIs(f[i], f[i + 1])
  BY <1>6, <1>7, CountsOnce
<1> QED
  BY <1>4, <1>5, <1>7, <1>8

(* T2 is where its period began and its counts since then put it.           *)
Stands(u, down, start, since) ==
  /\ since \in Nat
  /\ IF down THEN T2Of(u) = start - since /\ (since > 0 => T2Of(u) >= RcapOf(u))
     ELSE T2Of(u) = start + since

(* After n counts from start, the first end of a period is due at first and *)
(* the next ones every whole - p counts.                                    *)
DueUp(x, ends, start, n, p, whole) ==
  IF ends = 0 THEN x = start + n
  ELSE x \in p..(whole - 1) /\ n - (whole - start) = (ends - 1) * (whole - p) + (x - p)

FirstDown(start, p) == IF start < p THEN 1 ELSE start - p + 1

DueDown(x, ends, start, n, p, whole) ==
  IF ends = 0 THEN n < FirstDown(start, p) /\ x = start - n
  ELSE /\ x \in p..(whole - 1) /\ p > 0
       /\ n - FirstDown(start, p) = (ends - 1) * (whole - p) + (whole - 1 - x)

(* One period more in the product of periods and their length.              *)
LEMMA OneMore ==
  ASSUME NEW whole \in Nat \ {0}, NEW p \in 0..(whole - 1), NEW ends \in Nat, ends # 0
  PROVE  (ends - 1) * (whole - p) + (whole - p) = ((ends + 1) - 1) * (whole - p)
<1> DEFINE w == whole - p
<1>1. w \in Int
  OBVIOUS
<1> HIDE DEF w
<1>2. (ends - 1) * w + w = ((ends + 1) - 1) * w
  BY <1>1
<1> QED
  BY <1>2 DEF w

(* One count up, one count down.                                            *)
StepUp(x, ends, start, n, p, whole, x2, ends2) ==
  DueUp(x, ends, start, n, p, whole)
    /\ (IF x = whole - 1 THEN ends2 = ends + 1 /\ x2 = p ELSE ends2 = ends /\ x2 = x + 1)
    => DueUp(x2, ends2, start, n + 1, p, whole)

StepDown(x, ends, start, n, p, whole, x2, ends2) ==
  DueDown(x, ends, start, n, p, whole) /\ x # 0
    /\ (IF x <= p THEN ends2 = ends + 1 /\ x2 = whole - 1 ELSE ends2 = ends /\ x2 = x - 1)
    => DueDown(x2, ends2, start, n + 1, p, whole)

(* The account of one count upwards, ...                                    *)
LEMMA StepsUp ==
  ASSUME NEW whole \in Nat \ {0}, NEW p \in 0..(whole - 1), NEW x \in 0..(whole - 1),
         NEW ends \in Nat, NEW start \in 0..(whole - 1), NEW n \in Nat, NEW x2, NEW ends2
  PROVE  StepUp(x, ends, start, n, p, whole, x2, ends2)
<1> SUFFICES ASSUME DueUp(x, ends, start, n, p, whole),
                    IF x = whole - 1 THEN ends2 = ends + 1 /\ x2 = p ELSE ends2 = ends /\ x2 = x + 1
             PROVE  DueUp(x2, ends2, start, n + 1, p, whole)
  BY DEF StepUp
<1>1. CASE x = whole - 1 /\ ends = 0
  <2>1. x = start + n /\ ends2 = 1 /\ x2 = p
    BY <1>1 DEF DueUp
  <2>2. (n + 1) - (whole - start) = 0
    BY <1>1, <2>1
  <2>3. (1 - 1) * (whole - p) + (p - p) = 0
    OBVIOUS
  <2> QED
    BY <2>1, <2>2, <2>3 DEF DueUp
<1>2. CASE x = whole - 1 /\ ends # 0
  <2>1. n - (whole - start) = (ends - 1) * (whole - p) + (x - p) /\ ends2 = ends + 1 /\ x2 = p
    BY <1>2 DEF DueUp
  <2> DEFINE z == (ends - 1) * (whole - p)
  <2>2. z \in Int /\ z + (whole - p) = ((ends + 1) - 1) * (whole - p)
    BY <1>2, OneMore
  <2>3. n - (whole - start) = z + (x - p)
    BY <2>1
  <2> HIDE DEF z
  <2>4. (n + 1) - (whole - start) = z + (whole - p)
    BY <1>2, <2>2, <2>3
  <2>5. (n + 1) - (whole - start) = (ends2 - 1) * (whole - p) + (x2 - p)
    BY <2>1, <2>2, <2>4
  <2>6. ends2 # 0
    BY <2>1
  <2> QED
    BY <2>1, <2>5, <2>6 DEF DueUp
<1>3. CASE x # whole - 1
  <2>1. ends2 = ends /\ x2 = x + 1
    BY <1>3
  <2>2. CASE ends = 0
    BY <2>1, <2>2 DEF DueUp
  <2>3. CASE ends # 0
    <3> DEFINE z == (ends - 1) * (whole - p)
    <3>1. n - (whole - start) = z + (x - p) /\ x \in p..(whole - 1)
      BY <2>3 DEF DueUp
    <3>2. z \in Int
      OBVIOUS
    <3> HIDE DEF z
    <3>3. (n + 1) - (whole - start) = z + (x2 - p) /\ x2 \in p..(whole - 1)
      BY <1>3, <2>1, <3>1, <3>2
    <3> QED
      BY <2>1, <2>3, <3>3 DEF DueUp, z
  <2> QED
    BY <2>2, <2>3
<1> QED
  BY <1>1, <1>2, <1>3

(* ... and downwards.                                                       *)
LEMMA StepsDown ==
  ASSUME NEW whole \in Nat \ {0}, NEW p \in 0..(whole - 1), NEW x \in 0..(whole - 1),
         NEW ends \in Nat, NEW start \in 0..(whole - 1), NEW n \in Nat, NEW x2, NEW ends2
  PROVE  StepDown(x, ends, start, n, p, whole, x2, ends2)
<1> SUFFICES ASSUME DueDown(x, ends, start, n, p, whole), x # 0,
                    IF x <= p THEN ends2 = ends + 1 /\ x2 = whole - 1 ELSE ends2 = ends /\ x2 = x - 1
             PROVE  DueDown(x2, ends2, start, n + 1, p, whole)
  BY DEF StepDown
<1> DEFINE first == FirstDown(start, p)
<1>0. first \in Int
  BY DEF FirstDown
<1>1. CASE x <= p /\ ends = 0
  <2>1. x = start - n /\ n < first /\ ends2 = 1 /\ x2 = whole - 1
    BY <1>1 DEF DueDown
  <2>2. (n + 1) - first = 0
    BY <1>1, <2>1 DEF FirstDown
  <2>3. (1 - 1) * (whole - p) + (whole - 1 - (whole - 1)) = 0
    OBVIOUS
  <2>4. p > 0
    BY <1>1
  <2> QED
    BY <2>1, <2>2, <2>3, <2>4 DEF DueDown
<1>2. CASE x <= p /\ ends # 0
  <2> DEFINE z == (ends - 1) * (whole - p)
  <2>1. n - first = z + (whole - 1 - x) /\ x \in p..(whole - 1) /\ p > 0
    BY <1>2 DEF DueDown
  <2>2. z \in Int /\ z + (whole - p) = ((ends + 1) - 1) * (whole - p)
    BY <1>2, OneMore
  <2>3. ends2 = ends + 1 /\ x2 = whole - 1 /\ x = p
    BY <1>2, <2>1
  <2> HIDE DEF z, first
  <2>4. (n + 1) - first = z + (whole - p)
    BY <1>0, <2>1, <2>2, <2>3
  <2>5. (n + 1) - first = (ends2 - 1) * (whole - p) + (whole - 1 - x2)
    BY <2>2, <2>3, <2>4
  <2>6. ends2 # 0
    BY <2>3
  <2> QED
    BY <2>1, <2>3, <2>5, <2>6 DEF DueDown, first
<1>3. CASE ~ (x <= p)
  <2>1. ends2 = ends /\ x2 = x - 1
    BY <1>3
  <2>2. CASE ends = 0
    <3>1. x = start - n /\ n < first
      BY <2>2 DEF DueDown
    <3>2. n + 1 < first /\ x2 = start - (n + 1)
      BY <1>3, <2>1, <3>1 DEF FirstDown
    <3> QED
      BY <2>1, <2>2, <3>2 DEF DueDown
  <2>3. CASE ends # 0
    <3> DEFINE z == (ends - 1) * (whole - p)
    <3>1. n - first = z + (whole - 1 - x) /\ x \in p..(whole - 1) /\ p > 0
      BY <2>3 DEF DueDown
    <3>2. z \in Int
      OBVIOUS
    <3> HIDE DEF z, first
    <3>3. (n + 1) - first = z + (whole - 1 - x2) /\ x2 \in p..(whole - 1)
      BY <1>0, <1>3, <2>1, <3>1, <3>2
    <3> QED
      BY <2>1, <2>3, <3>1, <3>3 DEF DueDown, z, first
  <2> QED
    BY <2>2, <2>3
<1> QED
  BY <1>1, <1>2, <1>3

FirstUp(start, whole) == whole - start

EndedUp(x, ends, start, n, p, whole) ==
  /\ n < FirstUp(start, whole) => ends = 0 /\ x = start + n
  /\ ~ (n < FirstUp(start, whole)) =>
       /\ ends = 1 + ((n - FirstUp(start, whole)) \div (whole - p))
       /\ x = p + ((n - FirstUp(start, whole)) % (whole - p))

(* From the account follow value and reloads after n counts upwards, by     *)
(* division with remainder, ...                                             *)
LEMMA EndsUp ==
  ASSUME NEW whole \in Nat \ {0}, NEW p \in 0..(whole - 1), NEW x \in 0..(whole - 1),
         NEW ends \in Nat, NEW start \in 0..(whole - 1), NEW n \in Nat,
         DueUp(x, ends, start, n, p, whole)
  PROVE  EndedUp(x, ends, start, n, p, whole)
<1>1. CASE ends = 0
  BY <1>1 DEF DueUp, FirstUp, EndedUp
<1>2. CASE ends # 0
  <2> DEFINE a == n - (whole - start)
             w == whole - p
             q == ends - 1
             r == x - p
  <2>1. q \in Nat /\ w \in Nat \ {0} /\ r \in 0..(w - 1) /\ a = q * w + r /\ a \in Int
    BY <1>2 DEF DueUp
  <2>2. ends = 1 + q /\ x = p + r /\ (n < whole - start <=> a < 0)
    BY <1>2
  <2> HIDE DEF a, w, q, r
  <2>3. q * w \in Nat
    BY <2>1
  <2>4. a \in Nat
    BY <2>1, <2>3
  <2>5. a \div w = q /\ a % w = r
    BY <2>1, <2>4, DivUnique
  <2>6. ends = 1 + (a \div w) /\ x = p + (a % w) /\ ~ (n < whole - start)
    BY <2>2, <2>4, <2>5
  <2> QED
    BY <2>6 DEF a, w, FirstUp, EndedUp
<1> QED
  BY <1>1, <1>2

(* ... and downwards, where the first period is the longer one.             *)
LEMMA EndsDown ==
  ASSUME NEW whole \in Nat \ {0}, NEW p \in 0..(whole - 1), NEW x \in 0..(whole - 1),
         NEW ends \in Nat, NEW start \in 0..(whole - 1), NEW n \in Nat,
         DueDown(x, ends, start, n, p, whole)
  PROVE  /\ n < FirstDown(start, p) => ends = 0 /\ x = start - n
         /\ ~ (n < FirstDown(start, p)) =>
              /\ ends = 1 + ((n - FirstDown(start, p)) \div (whole - p))
              /\ x = whole - 1 - ((n - FirstDown(start, p)) % (whole - p))
<1> DEFINE f == FirstDown(start, p)
<1>0. f \in Int
  BY DEF FirstDown
<1>1. CASE ends = 0
  BY <1>1 DEF DueDown
<1>2. CASE ends # 0
  <2> DEFINE a == n - f
             w == whole - p
             q == ends - 1
             r == whole - 1 - x
  <2>1. q \in Nat /\ w \in Nat \ {0} /\ r \in 0..(w - 1) /\ a = q * w + r
    BY <1>2 DEF DueDown
  <2>2. ends = 1 + q /\ x = whole - 1 - r /\ (n < f <=> a < 0) /\ a \in Int
    <3> HIDE DEF f
    <3> QED
      BY <1>0, <1>2
  <2> HIDE DEF a, w, q, r, f
  <2>3. q * w \in Nat
    BY <2>1
  <2>4. a \in Nat
    BY <2>1, <2>2, <2>3
  <2>5. a \div w = q /\ a % w = r
    BY <2>1, <2>4, DivUnique
  <2>6. ends = 1 + (a \div w) /\ x = whole - 1 - (a % w) /\ ~ (n < f)
    BY <2>2, <2>4, <2>5
  <2> QED
    BY <2>6 DEF a, w, f
<1> QED
  BY <1>1, <1>2

(* What holds after i of k counts from r0.                                  *)
After(r0, k, i, r) ==
  /\ Alike(r0.u, r.u) /\ r.ends <= i
  /\ Stands(r.u, Downwards(r0.u), r.start, r.since)
  /\ ~ Downwards(r0.u) =>
       DueUp(T2Of(r.u), r.ends, r0.start, r0.since + i, RestartOf(r0.u), Whole)
  /\ Downwards(r0.u) /\ T2Of(r0.u) > k =>
       DueDown(T2Of(r.u), r.ends, r0.start, r0.since + i, RcapOf(r0.u), Whole)

(* No count keeps the account.                                              *)
LEMMA AfterNone ==
  ASSUME NEW r0 \in Runs, NEW k \in Nat, r0.ends = 0,
         Stands(r0.u, Downwards(r0.u), r0.start, r0.since)
  PROVE  After(r0, k, 0, r0)
<1>1. r0.u \in W2 /\ r0.start \in 0..(Whole - 1) /\ r0.since \in Nat
  BY DEF Runs
<1>2. T2Of(r0.u) \in 0..(Whole - 1) /\ RcapOf(r0.u) \in 0..(Whole - 1)
  BY <1>1, NumberType
<1>3. Whole \in Nat
  BY WholeType
<1>4. Alike(r0.u, r0.u)
  BY <1>1 DEF Alike
<1>5. ASSUME ~ Downwards(r0.u)
      PROVE  DueUp(T2Of(r0.u), r0.ends, r0.start, r0.since + 0, RestartOf(r0.u), Whole)
  BY <1>1, <1>5 DEF DueUp, Stands
<1>6. ASSUME Downwards(r0.u)
      PROVE  DueDown(T2Of(r0.u), r0.ends, r0.start, r0.since + 0, RcapOf(r0.u), Whole)
  <2> DEFINE x == T2Of(r0.u)
             p == RcapOf(r0.u)
             s == r0.start
             n == r0.since
  <2>1. x = s - n /\ (n > 0 => x >= p)
    BY <1>6 DEF Stands
  <2>2. x \in Nat /\ p \in Nat /\ s \in Nat /\ n \in Nat
    BY <1>1, <1>2, <1>3
  <2> HIDE DEF x, p, s, n
  <2>3. n + 0 < FirstDown(s, p) /\ x = s - (n + 0)
    BY <2>1, <2>2 DEF FirstDown
  <2> QED
    BY <2>3 DEF DueDown, x, p, s, n
<1> QED
  BY <1>4, <1>5, <1>6 DEF After

(* One count more keeps it.                                                 *)
LEMMA AfterOneMore ==
  ASSUME NEW r0 \in Runs, NEW k \in Nat, NEW i \in 0..k, i < k, NEW r \in Runs, NEW c,
         Stands(r0.u, Downwards(r0.u), r0.start, r0.since),
         After(r0, k, i, r), CountIs(r, c)
  PROVE  After(r0, k, i + 1, c)
<1> DEFINE x == T2Of(r.u)
           p == RcapOf(r0.u)
           q == RestartOf(r0.u)
           x2 == T2Of(c.u)
           n == r0.since + i
<1>1. r.u \in W2 /\ r.ends \in Nat /\ r.start \in 0..(Whole - 1) /\ r.since \in Nat /\ c \in Runs
  BY DEF Runs, CountIs
<1>2. r0.u \in W2 /\ r0.start \in 0..(Whole - 1) /\ r0.since \in Nat
  BY DEF Runs
<1>3. c.u \in W2 /\ c.ends \in Nat /\ c.start \in 0..(Whole - 1) /\ c.since \in Nat
  BY <1>1 DEF Runs
<1>4. /\ x \in 0..(Whole - 1) /\ p \in 0..(Whole - 1) /\ q \in 0..(Whole - 1)
      /\ x2 \in 0..(Whole - 1) /\ T2Of(r0.u) \in 0..(Whole - 1)
  BY <1>1, <1>2, <1>3, NumberType
<1>5. Whole \in Nat \ {0} /\ n \in Nat /\ (r0.since + (i + 1)) = n + 1
  BY <1>2, WholeType
<1>6. Alike(r0.u, c.u) /\ Alike(r0.u, r.u) /\ Alike(r.u, c.u)
  BY AlikeAlso DEF After, CountIs
<1>7. Downwards(r.u) = Downwards(r0.u) /\ RcapOf(r.u) = p /\ RestartOf(r.u) = q /\ RcapOf(c.u) = p
  BY <1>6 DEF Alike, Downwards, RcapOf, RestartOf
<1>8. r.ends <= i
  BY DEF After
<1>9. CASE ~ Downwards(r0.u)
  <2>1. CountedUp(r, c)
    BY <1>7, <1>9 DEF CountIs
  <2>2. c.ends <= i + 1
    BY <1>1, <1>8, <2>1 DEF CountedUp
  <2>3. Stands(c.u, FALSE, c.start, c.since)
    <3>1. x = r.start + r.since
      BY <1>9 DEF After, Stands
    <3>2. x2 = c.start + c.since
      <4> DEFINE s == r.start
                 m == r.since
                 s2 == c.start
                 m2 == c.since
      <4>1. IF x = Whole - 1 THEN x2 = q /\ s2 = q /\ m2 = 0 ELSE x2 = x + 1 /\ s2 = s /\ m2 = m + 1
        BY <1>7, <2>1 DEF CountedUp
      <4>2. s \in Int /\ m \in Int /\ x \in Int /\ q \in Int
        BY <1>1, <1>4, <1>5
      <4> HIDE DEF s, m, s2, m2, x, x2, q
      <4>3. x2 = s2 + m2
        BY <3>1, <4>1, <4>2 DEF s, m
      <4> QED
        BY <4>3 DEF s2, m2
    <3> QED
      BY <1>3, <3>2 DEF Stands
  <2>4. DueUp(x2, c.ends, r0.start, n + 1, q, Whole)
    <3>1. DueUp(x, r.ends, r0.start, n, q, Whole)
      BY <1>9 DEF After
    <3>2. StepUp(x, r.ends, r0.start, n, q, Whole, x2, c.ends)
      <4> DEFINE e == r.ends
                 e2 == c.ends
                 s == r0.start
      <4>1. e \in Nat /\ s \in 0..(Whole - 1)
        BY <1>1, <1>2
      <4> HIDE DEF e, e2, s, x, x2, n, q
      <4>2. StepUp(x, e, s, n, q, Whole, x2, e2)
        BY <1>4, <1>5, <4>1, StepsUp
      <4> QED
        BY <4>2 DEF e, e2, s
    <3>3. IF x = Whole - 1 THEN c.ends = r.ends + 1 /\ x2 = q ELSE c.ends = r.ends /\ x2 = x + 1
      BY <1>7, <2>1 DEF CountedUp
    <3> HIDE DEF x, x2, n, q
    <3> QED
      BY <3>1, <3>2, <3>3 DEF StepUp
  <2>5. Downwards(r0.u) = FALSE
    BY <1>9 DEF Downwards
  <2> QED
    BY <1>5, <1>6, <2>2, <2>3, <2>4, <2>5 DEF After
<1>10. CASE Downwards(r0.u)
  <2>1. CountedDown(r, c)
    BY <1>7, <1>10 DEF CountIs
  <2>2. c.ends <= i + 1
    BY <1>1, <1>8, <2>1 DEF CountedDown
  <2>3. Stands(c.u, TRUE, c.start, c.since)
    <3>1. x = r.start - r.since
      BY <1>10 DEF After, Stands
    <3>2. x2 = c.start - c.since /\ (c.since > 0 => x2 >= p)
      <4> DEFINE s == r.start
                 m == r.since
                 s2 == c.start
                 m2 == c.since
      <4>1. IF x = 0 \/ x <= p THEN x2 = Whole - 1 /\ s2 = Whole - 1 /\ m2 = 0
            ELSE x2 = x - 1 /\ s2 = s /\ m2 = m + 1
        BY <1>7, <2>1 DEF CountedDown
      <4>2. s \in Int /\ m \in Int /\ x \in Int /\ p \in Int /\ Whole \in Int
        BY <1>1, <1>4, <1>5
      <4> HIDE DEF s, m, s2, m2, x, x2, p
      <4>3. x2 = s2 - m2 /\ (m2 > 0 => x2 >= p)
        BY <3>1, <4>1, <4>2 DEF s, m
      <4> QED
        BY <4>3 DEF s2, m2
    <3> QED
      BY <1>3, <1>7, <3>2 DEF Stands
  <2>4. ASSUME T2Of(r0.u) > k PROVE DueDown(x2, c.ends, r0.start, n + 1, p, Whole)
    <3>1. DueDown(x, r.ends, r0.start, n, p, Whole)
      BY <1>10, <2>4 DEF After
    <3>2. StepDown(x, r.ends, r0.start, n, p, Whole, x2, c.ends)
      <4> DEFINE e == r.ends
                 e2 == c.ends
                 s == r0.start
      <4>1. e \in Nat /\ s \in 0..(Whole - 1)
        BY <1>1, <1>2
      <4> HIDE DEF e, e2, s, x, x2, n, p
      <4>2. StepDown(x, e, s, n, p, Whole, x2, e2)
        BY <1>4, <1>5, <4>1, StepsDown
      <4> QED
        BY <4>2 DEF e, e2, s
    <3>3. x # 0
      <4>1. T2Of(r0.u) = r0.start - r0.since
        BY <1>10 DEF Stands
      <4>2. CASE r.ends = 0
        <5>1. x = r0.start - n
          BY <3>1, <4>2 DEF DueDown
        <5> DEFINE y == T2Of(r0.u)
                   s == r0.start
                   m == r0.since
        <5>2. y \in Int /\ s \in Int /\ m \in Int /\ y = s - m /\ y > k /\ x = s - (m + i)
          BY <1>2, <1>4, <1>5, <2>4, <4>1, <5>1
        <5> HIDE DEF y, s, m, x
        <5> QED
          BY <5>2
      <4>3. CASE r.ends # 0
        BY <1>4, <3>1, <4>3 DEF DueDown
      <4> QED
        BY <4>2, <4>3
    <3>4. IF x <= p THEN c.ends = r.ends + 1 /\ x2 = Whole - 1 ELSE c.ends = r.ends /\ x2 = x - 1
      BY <1>7, <2>1, <3>3 DEF CountedDown
    <3> HIDE DEF x, x2, n, p
    <3> QED
      BY <3>1, <3>2, <3>3, <3>4 DEF StepDown
  <2> QED
    BY <1>5, <1>6, <1>10, <2>2, <2>3, <2>4 DEF After
<1> QED
  BY <1>9, <1>10

(* So does any number of them.                                              *)
LEMMA AfterAll ==
  ASSUME NEW r0 \in Runs, NEW k \in Nat, r0.ends = 0,
         Stands(r0.u, Downwards(r0.u), r0.start, r0.since)
  PROVE  Counted(r0, k) \in Runs /\ After(r0, k, k, Counted(r0, k))
<1>1. PICK g : /\ g[0] = r0 /\ \A i \in 0..k : g[i] \in Runs
               /\ \A i \in 0..k : i < k => CountIs(g[i], g[i + 1])
               /\ Counted(r0, k) = g[k]
  BY CountedRuns
<1> DEFINE P == {i \in 0..k : After(r0, k, i, g[i])}
<1>2. 0 \in P
  BY <1>1, AfterNone
<1>3. \A i \in 0..k : i \in P /\ i < k => i + 1 \in P
  <2> SUFFICES ASSUME NEW i \in 0..k, i \in P, i < k PROVE i + 1 \in P
    OBVIOUS
  <2>1. i + 1 \in 0..k /\ g[i] \in Runs /\ CountIs(g[i], g[i + 1]) /\ After(r0, k, i, g[i])
    BY <1>1
  <2>2. After(r0, k, i + 1, g[i + 1])
    BY <2>1, AfterOneMore
  <2> QED
    BY <2>1, <2>2
<1> HIDE DEF P
<1>4. 0..k \subseteq P
  BY <1>2, <1>3, UpTo
<1>5. k \in P /\ g[k] \in Runs
  BY <1>1, <1>4
<1> QED
  BY <1>1, <1>5 DEF P

(* The inductive invariant of Timer 2 of the 8052: its types, and that      *)
(* it stands where its start and the counts since put it.                   *)
T2Inv ==
  /\ T2TypeOK
  /\ Stands(w2, Downwards(w2), w2_start, w2_since)

(* A tick counts no more than its edges and the clock give.                 *)
LEMMA CountsType ==
  ASSUME NEW u \in W2
  PROVE  CountsOf(u) \in 0..(6 + MaxEdges)
<1>1. u.TR \in BOOLEAN /\ u.C_T \in BOOLEAN /\ u.mode \in {"reload", "capture", "baud", "down"}
      /\ u.T_edge \in 0..MaxEdges
  BY DEF W2
<1>2. MaxEdges \in Nat
  BY S52Timer2Assumption
<1>3. CountsOf(u) \in {0, 1, 6, u.T_edge}
  <2>1. CASE ~ u.TR
    BY <2>1 DEF CountsOf
  <2>2. CASE u.TR /\ u.mode \in {"reload", "capture"}
    BY <2>2 DEF CountsOf
  <2>3. CASE u.TR /\ u.mode \notin {"reload", "capture"} /\ u.C_T
    BY <1>1, <2>3 DEF CountsOf
  <2>4. CASE u.TR /\ u.mode \notin {"reload", "capture"} /\ ~ u.C_T
    BY <1>1, <2>4 DEF CountsOf
  <2> QED
    BY <2>1, <2>2, <2>3, <2>4
<1> QED
  BY <1>1, <1>2, <1>3

(* What an edge that is taken leaves alone.                                 *)
LEMMA EdgeIs ==
  ASSUME NEW u \in W2
  PROVE  LET e == EdgeTaken(u)
         IN /\ e \in W2 /\ e.mode = u.mode /\ e.TR = u.TR /\ e.C_T = u.C_T /\ e.T_edge = u.T_edge
            /\ e.TF2 = u.TF2
            /\ ~ Reloaded(u) => T2Of(e) = T2Of(u) /\ RestartOf(e) = RestartOf(u)
            /\ Downwards(u) => e = u
            /\ Reloaded(u) => ~ Downwards(u)
<1> DEFINE e == EdgeTaken(u)
           v == [u EXCEPT !.EXF2 = TRUE, !.t2ex_edge = 0]
<1>1. CASE ~ TakesEdge(u)
  BY <1>1 DEF EdgeTaken, Reloaded
<1>2. CASE TakesEdge(u)
  <2>1. /\ v \in W2 /\ v.mode = u.mode /\ v.TR = u.TR /\ v.C_T = u.C_T /\ v.T_edge = u.T_edge
        /\ v.TF2 = u.TF2 /\ v.h = u.h /\ v.l = u.l /\ v.rcap = u.rcap
    <3>1. 0 \in 0..MaxEdges
      BY S52Timer2Assumption
    <3> QED
      BY <3>1 DEF W2
  <2>2. ~ Downwards(u)
    BY <1>2 DEF TakesEdge, Downwards
  <2>3. u.h \in Byte /\ u.l \in Byte
    BY NumberType
  <2> HIDE DEF v
  <2>4. CASE u.mode = "capture"
    <3>1. e = [v EXCEPT !.rcap = <<u.h, u.l>>]
      BY <1>2, <2>4 DEF EdgeTaken, v
    <3> DEFINE c == <<u.h, u.l>>
    <3>2. c \in Byte \X Byte
      BY <2>3
    <3> HIDE DEF c, e
    <3>3. /\ e \in W2 /\ e.mode = v.mode /\ e.TR = v.TR /\ e.C_T = v.C_T /\ e.T_edge = v.T_edge
          /\ e.TF2 = v.TF2 /\ e.h = v.h /\ e.l = v.l
      BY <2>1, <3>1, <3>2 DEF W2, c
    <3> QED
      BY <2>1, <2>2, <2>4, <3>3 DEF T2Of, RestartOf, Reloaded, e
  <2>5. CASE u.mode = "reload"
    <3>1. e = Loaded(v)
      BY <1>2, <2>5 DEF EdgeTaken, v
    <3>2. Alike(v, e)
      BY <2>1, <3>1, LoadedIs
    <3> QED
      BY <1>2, <2>1, <2>2, <2>5, <3>2 DEF Alike, Reloaded
  <2>6. CASE u.mode \notin {"capture", "reload"}
    <3>1. e = v
      BY <1>2, <2>6 DEF EdgeTaken, v
    <3> QED
      BY <2>1, <2>2, <2>6, <3>1 DEF T2Of, RestartOf, RcapOf, Reloaded
  <2> QED
    BY <2>4, <2>5, <2>6
<1> QED
  BY <1>1, <1>2

(* What a tick begins to count from.                                        *)
Begun ==
  LET e == EdgeTaken(w2)
  IN [u |-> e, ends |-> 0, start |-> IF Reloaded(w2) THEN T2Of(e) ELSE w2_start,
      since |-> IF Reloaded(w2) THEN 0 ELSE w2_since]

(* A tick begins where the last one left T2.                                *)
LEMMA BegunStands ==
  ASSUME T2Inv
  PROVE  /\ Begun \in Runs /\ Begun.u = EdgeTaken(w2) /\ Begun.ends = 0
         /\ Downwards(EdgeTaken(w2)) = Downwards(w2)
         /\ Stands(Begun.u, Downwards(w2), Begun.start, Begun.since)
         /\ ~ Reloaded(w2) => Begun.start = w2_start /\ Begun.since = w2_since
<1> DEFINE e == EdgeTaken(w2)
           s == IF Reloaded(w2) THEN T2Of(e) ELSE w2_start
           n == IF Reloaded(w2) THEN 0 ELSE w2_since
<1>1. w2 \in W2 /\ w2_start \in 0..(Whole - 1) /\ w2_since \in Nat
  BY DEF T2Inv, T2TypeOK, Stands
<1>2. /\ e \in W2 /\ e.mode = w2.mode
      /\ ~ Reloaded(w2) => T2Of(e) = T2Of(w2) /\ RestartOf(e) = RestartOf(w2)
      /\ Downwards(w2) => e = w2
      /\ Reloaded(w2) => ~ Downwards(w2)
  BY <1>1, EdgeIs
<1>3. T2Of(e) \in 0..(Whole - 1)
  BY <1>2, NumberType
<1>4. s \in 0..(Whole - 1) /\ n \in Nat
  BY <1>1, <1>3
<1>5. Begun = [u |-> e, ends |-> 0, start |-> s, since |-> n]
  BY DEF Begun
<1>6. Downwards(e) = Downwards(w2)
  BY <1>2 DEF Downwards
<1>7. Stands(e, Downwards(w2), s, n)
  <2>1. CASE Reloaded(w2)
    BY <1>2, <1>3, <2>1, WholeType DEF Stands
  <2>2. CASE ~ Reloaded(w2)
    BY <1>1, <1>2, <2>2 DEF T2Inv, Stands
  <2> QED
    BY <2>1, <2>2
<1>8. ~ Reloaded(w2) => s = w2_start /\ n = w2_since
  OBVIOUS
<1> HIDE DEF e, s, n
<1>9. Begun \in Runs /\ Begun.u = e /\ Begun.ends = 0 /\ Begun.start = s /\ Begun.since = n
  BY <1>2, <1>4, <1>5 DEF Runs
<1> QED
  BY <1>6, <1>7, <1>8, <1>9 DEF e

(* What a tick does, in numbers.                                            *)
LEMMA Ticked ==
  ASSUME T2Inv, T2Tick
  PROVE  LET e == EdgeTaken(w2)
             k == CountsOf(e)
             r == Counted(Begun, k)
         IN /\ r \in Runs /\ After(Begun, k, k, r) /\ k \in 0..(6 + MaxEdges)
            /\ w2' \in W2 /\ w2'.h = r.u.h /\ w2'.l = r.u.l /\ w2'.rcap = r.u.rcap
            /\ w2'.mode = w2.mode
            /\ w2'.TF2 = (w2.TF2 \/ (w2.mode # "baud" /\ r.ends > 0))
            /\ w2_told' = (IF w2.mode = "baud" THEN r.ends ELSE 0)
            /\ w2_start' = r.start /\ w2_since' = r.since /\ UNCHANGED w2_pins
<1> DEFINE e == EdgeTaken(w2)
           k == CountsOf(e)
           r == Counted(Begun, k)
<1>1. w2 \in W2
  BY DEF T2Inv, T2TypeOK
<1>2. /\ e \in W2 /\ e.mode = w2.mode /\ e.TF2 = w2.TF2
  BY <1>1, EdgeIs
<1>3. k \in 0..(6 + MaxEdges) /\ k \in Nat
  <2>1. k \in 0..(6 + MaxEdges)
    BY <1>2, CountsType
  <2> HIDE DEF k
  <2> QED
    BY <2>1, S52Timer2Assumption
<1>4. /\ Begun \in Runs /\ Begun.u = e /\ Begun.ends = 0
      /\ Stands(Begun.u, Downwards(Begun.u), Begun.start, Begun.since)
  BY BegunStands
<1>5. r \in Runs /\ After(Begun, k, k, r)
  <2> HIDE DEF k, e
  <2> QED
    BY <1>3, <1>4, AfterAll
<1> DEFINE te == IF e.TR /\ e.C_T THEN 0 ELSE r.u.T_edge
           tf == r.u.TF2 \/ (e.mode # "baud" /\ r.ends > 0)
           p1 == IF e.mode = "down" /\ r.ends > 0 THEN ~ r.u.P1_6 ELSE r.u.P1_6
<1>6. /\ w2' = [r.u EXCEPT !.T_edge = te, !.TF2 = tf, !.P1_6 = p1]
      /\ w2_told' = (IF e.mode = "baud" THEN r.ends ELSE 0)
      /\ w2_start' = r.start /\ w2_since' = r.since /\ UNCHANGED w2_pins
  BY DEF T2Tick, Begun
<1>7. r.u \in W2 /\ Alike(e, r.u) /\ r.ends \in Nat
  BY <1>4, <1>5 DEF Runs, After
<1> HIDE DEF r
<1>8. te \in 0..MaxEdges /\ tf \in BOOLEAN /\ p1 \in BOOLEAN
  <2>1. r.u.T_edge \in 0..MaxEdges /\ r.u.TF2 \in BOOLEAN /\ r.u.P1_6 \in BOOLEAN
    BY <1>7 DEF W2
  <2>2. te \in 0..MaxEdges
    BY <2>1, S52Timer2Assumption
  <2>3. tf \in BOOLEAN
    OBVIOUS
  <2>4. p1 \in BOOLEAN
    BY <2>1
  <2> QED
    BY <2>2, <2>3, <2>4
<1>9. tf = (w2.TF2 \/ (w2.mode # "baud" /\ r.ends > 0))
  BY <1>2, <1>7 DEF Alike
<1> HIDE DEF te, tf, p1, e, k
<1>10. /\ w2' \in W2 /\ w2'.h = r.u.h /\ w2'.l = r.u.l /\ w2'.rcap = r.u.rcap
       /\ w2'.mode = r.u.mode /\ w2'.TF2 = tf
  BY <1>6, <1>7, <1>8 DEF W2
<1>11. w2'.mode = w2.mode
  BY <1>2, <1>7, <1>10 DEF Alike
<1> QED
  BY <1>2, <1>3, <1>5, <1>6, <1>9, <1>10, <1>11 DEF e, k, r

(* A tick keeps the invariant.                                              *)
LEMMA TickStands == T2Inv /\ T2Tick => T2Inv'
<1> SUFFICES ASSUME T2Inv, T2Tick PROVE T2Inv'
  OBVIOUS
<1> DEFINE e == EdgeTaken(w2)
           k == CountsOf(e)
           r == Counted(Begun, k)
<1>1. /\ r \in Runs /\ After(Begun, k, k, r) /\ k \in 0..(6 + MaxEdges)
      /\ w2' \in W2 /\ w2'.h = r.u.h /\ w2'.l = r.u.l /\ w2'.rcap = r.u.rcap
      /\ w2'.mode = w2.mode
      /\ w2_told' = (IF w2.mode = "baud" THEN r.ends ELSE 0)
      /\ w2_start' = r.start /\ w2_since' = r.since /\ UNCHANGED w2_pins
  BY Ticked
<1>2. Begun.u = e /\ Downwards(e) = Downwards(w2)
  BY BegunStands
<1> HIDE DEF k, r
<1>3. r.ends \in Nat /\ r.start \in 0..(Whole - 1) /\ r.since \in Nat /\ r.u \in W2
  BY <1>1 DEF Runs
<1>4. r.ends <= k /\ Stands(r.u, Downwards(w2), r.start, r.since)
  BY <1>1, <1>2 DEF After
<1>5. w2_told' \in -1..(6 + MaxEdges)
  BY <1>1, <1>3, <1>4, S52Timer2Assumption
<1>6. Stands(w2', Downwards(w2), r.start, r.since)
  BY <1>1, <1>4 DEF Stands, T2Of, RcapOf
<1>7. Downwards(w2)' = Downwards(w2)
  BY <1>1 DEF Downwards
<1>8. Stands(w2, Downwards(w2), w2_start, w2_since)'
  BY <1>1, <1>6, <1>7 DEF Stands, T2Of, RcapOf
<1>9. r.since \in 0..Whole
  <2>1. T2Of(r.u) \in 0..(Whole - 1) /\ Whole \in Nat
    BY <1>3, NumberType, WholeType
  <2> QED
    BY <1>3, <1>4, <2>1 DEF Stands
<1>10. T2TypeOK'
  BY <1>1, <1>3, <1>5, <1>9 DEF T2TypeOK, T2Inv
<1> QED
  BY <1>8, <1>10 DEF T2Inv

(* What the program or the outside makes of T2 begins a new account.        *)
LEMMA BecomesInv ==
  ASSUME T2Inv, NEW u \in W2, NEW levels \in [T : BOOLEAN, T2EX : BOOLEAN], Becomes(u, levels)
  PROVE  T2Inv'
<1>1. w2' = u /\ w2_pins' = levels /\ w2_told' = -1
  BY DEF Becomes
<1>2. T2Of(u) \in 0..(Whole - 1) /\ Whole \in Nat /\ T2Of(w2') = T2Of(u) /\ RcapOf(w2') = RcapOf(u)
  BY <1>1, NumberType, WholeType
<1>3. Downwards(w2)' = (u.mode = "down" /\ ~ levels.T2EX)
  BY <1>1 DEF Downwards
<1>4. /\ w2_start \in 0..(Whole - 1) /\ w2_since \in 0..Whole
      /\ Stands(w2, Downwards(w2), w2_start, w2_since)
  BY DEF T2Inv, T2TypeOK
<1>5. /\ w2_start' \in 0..(Whole - 1) /\ w2_since' \in 0..Whole
      /\ Stands(w2, Downwards(w2), w2_start, w2_since)'
  <2>1. CASE w2_start' = T2Of(u) /\ w2_since' = 0
    <3>1. Stands(w2, Downwards(w2), w2_start, w2_since)'
      BY <1>2, <2>1 DEF Stands
    <3> QED
      BY <1>2, <2>1, <3>1
  <2>2. CASE ~ (w2_start' = T2Of(u) /\ w2_since' = 0)
    <3>1. /\ T2Of(u) = T2Of(w2) /\ Downwards(w2) = (u.mode = "down" /\ ~ levels.T2EX)
          /\ Downwards(w2) => u.rcap = w2.rcap
          /\ UNCHANGED <<w2_start, w2_since>>
      BY <2>2 DEF Becomes
    <3>2. Downwards(w2)' = Downwards(w2) /\ (Downwards(w2) => RcapOf(w2') = RcapOf(w2))
      BY <1>1, <1>3, <3>1 DEF RcapOf
    <3>3. T2Of(w2') = T2Of(w2)
      BY <1>2, <3>1
    <3>4. Stands(w2, Downwards(w2), w2_start, w2_since)'
      BY <1>4, <3>1, <3>2, <3>3 DEF Stands
    <3> QED
      BY <1>4, <3>1, <3>4
  <2> QED
    BY <2>1, <2>2
<1>6. -1 \in -1..(6 + MaxEdges)
  BY S52Timer2Assumption
<1> QED
  BY <1>1, <1>5, <1>6 DEF T2Inv, T2TypeOK

(* A capture.                                                               *)
LEMMA LatchedIs ==
  ASSUME NEW u \in W2
  PROVE  Latched(u) \in W2
<1>1. 0 \in 0..MaxEdges
  BY S52Timer2Assumption
<1> QED
  BY <1>1, ZenonT(60) DEF Latched, W2

(* The bits of T2CON, two at a time.                                        *)
LEMMA FlagsSet ==
  ASSUME NEW u \in W2, NEW a \in BOOLEAN, NEW b \in BOOLEAN
  PROVE  /\ [u EXCEPT !.baud = a, !.CP_RL2 = b] \in W2 /\ [u EXCEPT !.C_T = a, !.EXEN2 = b] \in W2
         /\ [u EXCEPT !.TR = a, !.TF2 = b] \in W2 /\ [u EXCEPT !.EXF2 = a, !.exf2it = b] \in W2
<1>1. [u EXCEPT !.baud = a, !.CP_RL2 = b] \in W2
  BY DEF W2
<1>2. [u EXCEPT !.C_T = a, !.EXEN2 = b] \in W2
  BY DEF W2
<1>3. [u EXCEPT !.TR = a, !.TF2 = b] \in W2
  BY DEF W2
<1>4. [u EXCEPT !.EXF2 = a, !.exf2it = b] \in W2
  BY DEF W2
<1> QED
  BY <1>1, <1>2, <1>3, <1>4

(* A write of T2CON.                                                        *)
LEMMA T2CONIs ==
  ASSUME T2Inv, NEW c \in [baud : BOOLEAN, CP_RL2 : BOOLEAN, C_T : BOOLEAN, EXEN2 : BOOLEAN],
         NEW tr \in BOOLEAN, NEW tf2 \in BOOLEAN, NEW exf2 \in BOOLEAN
  PROVE  WithT2CON(c, tr, tf2, exf2) \in W2
<1> DEFINE u == [w2 EXCEPT !.baud = c.baud, !.CP_RL2 = c.CP_RL2, !.C_T = c.C_T, !.EXEN2 = c.EXEN2,
                           !.TR = tr, !.TF2 = tf2, !.EXF2 = exf2, !.exf2it = TRUE]
           m == ModeOf(u)
           v == [u EXCEPT !.mode = m]
<1>1. w2 \in W2
  BY DEF T2Inv, T2TypeOK
<1>2. u \in W2
  <2> DEFINE a1 == c.baud
             a2 == c.CP_RL2
             a3 == c.C_T
             a4 == c.EXEN2
  <2>1. a1 \in BOOLEAN /\ a2 \in BOOLEAN /\ a3 \in BOOLEAN /\ a4 \in BOOLEAN /\ TRUE \in BOOLEAN
    OBVIOUS
  <2> HIDE DEF a1, a2, a3, a4
  <2> DEFINE u1 == [w2 EXCEPT !.baud = a1, !.CP_RL2 = a2]
             u2 == [u1 EXCEPT !.C_T = a3, !.EXEN2 = a4]
             u3 == [u2 EXCEPT !.TR = tr, !.TF2 = tf2]
             u4 == [u3 EXCEPT !.EXF2 = exf2, !.exf2it = TRUE]
  <2>2. u = u4
    BY DEF a1, a2, a3, a4
  <2>3. u1 \in W2
    BY <1>1, <2>1, FlagsSet
  <2> HIDE DEF u1
  <2>4. u2 \in W2
    BY <2>1, <2>3, FlagsSet
  <2> HIDE DEF u2
  <2>5. u3 \in W2
    BY <2>4, FlagsSet
  <2> HIDE DEF u3
  <2>6. u4 \in W2
    BY <2>1, <2>5, FlagsSet
  <2> QED
    BY <2>2, <2>6
<1>3. m \in {"reload", "capture", "baud", "down"}
  BY DEF ModeOf
<1> HIDE DEF u, m
<1>4. v \in W2
  BY <1>2, <1>3 DEF W2
<1> HIDE DEF v
<1>5. Latched(v) \in W2
  BY <1>4, LatchedIs
<1> QED
  BY <1>5 DEF WithT2CON, v, u, m

(* Every step.                                                              *)
LEMMA T2StepInv == T2Inv /\ [T2Next]_w2_vars => T2Inv'
<1> SUFFICES ASSUME T2Inv, [T2Next]_w2_vars PROVE T2Inv'
  OBVIOUS
<1>0. w2 \in W2 /\ w2_pins \in [T : BOOLEAN, T2EX : BOOLEAN]
  BY DEF T2Inv, T2TypeOK
<1>1. CASE T2Tick
  BY <1>1, TickStands
<1>2. CASE WriteT2CON
  <2>1. PICK c \in T2Setups, tr \in BOOLEAN, tf2 \in {FALSE, w2.TF2}, exf2 \in {FALSE, w2.EXF2} :
          Becomes(WithT2CON(c, tr, tf2, exf2), w2_pins)
    BY <1>2 DEF WriteT2CON
  <2>2. tf2 \in BOOLEAN /\ exf2 \in BOOLEAN
    BY <1>0 DEF W2
  <2>3. c \in [baud : BOOLEAN, CP_RL2 : BOOLEAN, C_T : BOOLEAN, EXEN2 : BOOLEAN]
    BY S52Timer2Assumption
  <2>4. WithT2CON(c, tr, tf2, exf2) \in W2
    BY <2>2, <2>3, T2CONIs
  <2> QED
    BY <1>0, <2>1, <2>4, BecomesInv
<1>3. CASE WriteT2MOD
  <2> DEFINE Down(dcen) == dcen /\ w2.mode = "reload"
             U(dcen) == [w2 EXCEPT !.mode = IF Down(dcen) THEN "down" ELSE @, !.exf2it = ~Down(dcen)]
  <2>1. PICK dcen \in BOOLEAN : Becomes(Latched(U(dcen)), w2_pins)
    BY <1>3, Zenon DEF WriteT2MOD
  <2> DEFINE m == IF Down(dcen) THEN "down" ELSE w2.mode
             b == ~Down(dcen)
  <2>2. U(dcen) = [w2 EXCEPT !.mode = m, !.exf2it = b]
    OBVIOUS
  <2>3. m \in {"reload", "capture", "baud", "down"} /\ b \in BOOLEAN
    BY <1>0 DEF W2
  <2> HIDE DEF m, b, U
  <2>4. U(dcen) \in W2
    BY <1>0, <2>2, <2>3 DEF W2
  <2> DEFINE u == U(dcen)
  <2> HIDE DEF u
  <2>5. Latched(u) \in W2
    BY <2>4, LatchedIs DEF u
  <2> QED
    BY <1>0, <2>1, <2>5, BecomesInv DEF u
<1>4. CASE WriteT2
  <2>1. PICK n \in Loads : \/ Becomes([w2 EXCEPT !.h = n], w2_pins)
                           \/ Becomes([w2 EXCEPT !.l = n], w2_pins)
    BY <1>4 DEF WriteT2
  <2>2. n \in Byte
    BY ByteAssumption DEF Byte
  <2>3. [w2 EXCEPT !.h = n] \in W2 /\ [w2 EXCEPT !.l = n] \in W2
    BY <1>0, <2>2 DEF W2
  <2> QED
    BY <1>0, <2>1, <2>3, BecomesInv
<1>5. CASE WriteRCAP2
  <2>1. PICK n \in Loads : \/ Becomes([w2 EXCEPT !.rcap[1] = n], w2_pins)
                           \/ Becomes([w2 EXCEPT !.rcap[2] = n], w2_pins)
    BY <1>5 DEF WriteRCAP2
  <2>2. n \in Byte
    BY ByteAssumption DEF Byte
  <2>3. [w2 EXCEPT !.rcap[1] = n] \in W2 /\ [w2 EXCEPT !.rcap[2] = n] \in W2
    <3> DEFINE c1 == [w2.rcap EXCEPT ![1] = n]
               c2 == [w2.rcap EXCEPT ![2] = n]
    <3>1. w2.rcap \in Byte \X Byte
      BY <1>0 DEF W2
    <3>2. c1 \in Byte \X Byte /\ c2 \in Byte \X Byte
      BY <2>2, <3>1
    <3>3. [w2 EXCEPT !.rcap[1] = n] = [w2 EXCEPT !.rcap = c1]
          /\ [w2 EXCEPT !.rcap[2] = n] = [w2 EXCEPT !.rcap = c2]
      OBVIOUS
    <3> HIDE DEF c1, c2
    <3>4. [w2 EXCEPT !.rcap = c1] \in W2 /\ [w2 EXCEPT !.rcap = c2] \in W2
      BY <1>0, <3>2 DEF W2
    <3> QED
      BY <3>3, <3>4
  <2> QED
    BY <1>0, <2>1, <2>3, BecomesInv
<1>6. CASE T2PortChanged
  <2> DEFINE A(levels) == WithEdge(w2_pins.T, levels.T, w2.T_edge)
             B(levels) == WithEdge(w2_pins.T2EX, levels.T2EX, w2.t2ex_edge)
  <2>1. PICK levels \in T2Levels :
          /\ A(levels) <= MaxEdges /\ B(levels) <= MaxEdges
          /\ Becomes([w2 EXCEPT !.T_edge = A(levels), !.t2ex_edge = B(levels)], levels)
    BY <1>6, Zenon DEF T2PortChanged
  <2>2. levels \in [T : BOOLEAN, T2EX : BOOLEAN]
    BY S52Timer2Assumption
  <2> DEFINE a == A(levels)
             b == B(levels)
  <2>3. a \in 0..MaxEdges /\ b \in 0..MaxEdges
    <3>1. w2.T_edge \in Nat /\ w2.t2ex_edge \in Nat
      BY <1>0, S52Timer2Assumption DEF W2
    <3>2. a \in Nat /\ b \in Nat
      BY <3>1 DEF WithEdge
    <3> HIDE DEF A, B
    <3> QED
      BY <2>1, <3>2, S52Timer2Assumption
  <2> HIDE DEF a, b
  <2>4. [w2 EXCEPT !.T_edge = a, !.t2ex_edge = b] \in W2
    BY <1>0, <2>3 DEF W2
  <2>5. Becomes([w2 EXCEPT !.T_edge = a, !.t2ex_edge = b], levels)
    BY <2>1 DEF a, b
  <2> QED
    BY <2>2, <2>4, <2>5, BecomesInv
<1>7. CASE T2Reset
  <2> DEFINE off == [baud |-> FALSE, CP_RL2 |-> FALSE, C_T |-> FALSE, EXEN2 |-> FALSE]
             v == WithT2CON(off, FALSE, FALSE, FALSE)
             u == [v EXCEPT !.h = 0, !.l = 0, !.rcap = <<0, 0>>]
  <2>1. Becomes(u, w2_pins)
    BY <1>7 DEF T2Reset
  <2>2. off \in [baud : BOOLEAN, CP_RL2 : BOOLEAN, C_T : BOOLEAN, EXEN2 : BOOLEAN]
    OBVIOUS
  <2>3. v \in W2
    <3> HIDE DEF off
    <3> QED
      BY <2>2, T2CONIs
  <2> HIDE DEF v
  <2>4. u \in W2
    BY <2>3, WholeType DEF W2
  <2> HIDE DEF u
  <2> QED
    BY <1>0, <2>1, <2>4, BecomesInv
<1>8. CASE UNCHANGED w2_vars
  BY <1>8 DEF w2_vars, T2Inv, T2TypeOK, Stands, Downwards, T2Of, RcapOf
<1> QED
  BY <1>1, <1>2, <1>3, <1>4, <1>5, <1>6, <1>7, <1>8 DEF T2Next

(* The initial state.                                                       *)
LEMMA T2InitInv == T2Init => T2Inv
<1> SUFFICES ASSUME T2Init PROVE T2Inv
  OBVIOUS
<1>1. PICK x, y \in 0..MaxEdges :
       w2 = [h |-> 0, l |-> 0, rcap |-> <<0, 0>>, baud |-> FALSE, CP_RL2 |-> FALSE, C_T |-> FALSE,
             EXEN2 |-> FALSE, TR |-> FALSE, TF2 |-> FALSE, EXF2 |-> FALSE, mode |-> "reload",
             exf2it |-> TRUE, T_edge |-> x, t2ex_edge |-> y, P1_6 |-> TRUE]
  BY DEF T2Init
<1>2. w2 \in W2 /\ w2.h = 0 /\ w2.l = 0 /\ w2.mode = "reload"
  BY <1>1, WholeType DEF W2
<1>3. w2_pins = [T |-> TRUE, T2EX |-> TRUE] /\ w2_told = -1 /\ w2_start = 0 /\ w2_since = 0
  BY DEF T2Init
<1>4. T2Of(w2) = 0
  <2>1. 0 * Base + 0 = 0
    BY ByteAssumption
  <2> QED
    BY <1>2, <2>1 DEF T2Of, Sixteen
<1>5. Stands(w2, Downwards(w2), w2_start, w2_since)
  BY <1>2, <1>3, <1>4 DEF Stands, Downwards
<1>6. 0 \in 0..(Whole - 1) /\ 0 \in 0..Whole /\ -1 \in -1..(6 + MaxEdges)
  BY WholeType, S52Timer2Assumption
<1>7. w2_pins \in [T : BOOLEAN, T2EX : BOOLEAN]
  BY <1>3
<1> QED
  BY <1>2, <1>3, <1>5, <1>6, <1>7 DEF T2Inv, T2TypeOK

(* The invariant of Timer 2 is inductive.                                   *)
LEMMA T2InvAlways == T2Spec => []T2Inv
BY T2InitInv, T2StepInv, PTL DEF T2Spec

(* What KeepsTime says of a step.                                           *)
TimeKept ==
  w2_told' # -1 /\ ~Reloaded(w2) /\ (Downwards(w2) => T2Of(w2) > CountsOf(w2)) =>
    /\ T2Of(w2') = T2Due
    /\ w2_told' = IF w2.mode = "baud" THEN EndsDue ELSE 0
    /\ w2'.TF2 = (w2.TF2 \/ (w2.mode # "baud" /\ EndsDue > 0))

(* Every step keeps the time.                                               *)
LEMMA StepKeepsTime == T2Inv /\ T2Next => TimeKept
<1> SUFFICES ASSUME T2Inv, T2Next, w2_told' # -1, ~Reloaded(w2),
                    Downwards(w2) => T2Of(w2) > CountsOf(w2)
             PROVE  /\ T2Of(w2') = T2Due
                    /\ w2_told' = IF w2.mode = "baud" THEN EndsDue ELSE 0
                    /\ w2'.TF2 = (w2.TF2 \/ (w2.mode # "baud" /\ EndsDue > 0))
  BY DEF TimeKept
<1>1. T2Tick
  BY DEF T2Next, WriteT2CON, WriteT2MOD, WriteT2, WriteRCAP2, T2PortChanged, T2Reset, Becomes
<1> DEFINE e == EdgeTaken(w2)
           k == CountsOf(e)
           r == Counted(Begun, k)
<1>2. /\ r \in Runs /\ After(Begun, k, k, r) /\ k \in 0..(6 + MaxEdges)
      /\ w2'.h = r.u.h /\ w2'.l = r.u.l
      /\ w2'.TF2 = (w2.TF2 \/ (w2.mode # "baud" /\ r.ends > 0))
      /\ w2_told' = (IF w2.mode = "baud" THEN r.ends ELSE 0)
  BY <1>1, Ticked
<1>3. w2 \in W2 /\ w2_start \in 0..(Whole - 1) /\ w2_since \in Nat
  BY DEF T2Inv, T2TypeOK, Stands
<1>4. /\ e \in W2 /\ e.mode = w2.mode /\ e.TR = w2.TR /\ e.C_T = w2.C_T /\ e.T_edge = w2.T_edge
      /\ T2Of(e) = T2Of(w2) /\ RestartOf(e) = RestartOf(w2) /\ (Downwards(w2) => e = w2)
  BY <1>3, EdgeIs
<1>5. k = CountsOf(w2)
  BY <1>4 DEF CountsOf
<1>6. /\ Begun.u = e /\ Downwards(e) = Downwards(w2)
      /\ Begun.start = w2_start /\ Begun.since = w2_since
  BY BegunStands
<1>7. T2Of(w2') = T2Of(r.u) /\ r.u \in W2 /\ r.ends \in Nat
  BY <1>2 DEF T2Of, Runs
<1>8. Restart = RestartOf(w2) /\ Restart \in 0..(Whole - 1) /\ RcapOf(w2) \in 0..(Whole - 1)
  BY <1>3, NumberType DEF Restart, RestartOf
<1>9. k \in Nat /\ w2_since + k \in Nat /\ Passed = w2_since + k /\ T2Of(r.u) \in 0..(Whole - 1)
      /\ Whole \in Nat \ {0}
  <2>1. k \in Nat
    <3> HIDE DEF k
    <3> QED
      BY <1>2, S52Timer2Assumption
  <2> QED
    BY <1>3, <1>5, <1>7, <2>1, NumberType, WholeType DEF Passed
<1> DEFINE n == w2_since + k
           x == T2Of(r.u)
           ends == r.ends
<1>10. x = T2Due /\ ends = EndsDue
  <2>1. CASE ~ Downwards(w2)
    <3>1. DueUp(x, ends, w2_start, n, Restart, Whole)
      BY <1>2, <1>4, <1>6, <1>8, <2>1 DEF After
    <3>2. FirstPeriod = FirstUp(w2_start, Whole)
      BY <2>1 DEF FirstPeriod, FirstUp
    <3> HIDE DEF n, x, ends, k, r, e
    <3>3. n \in Nat /\ Passed = n /\ x \in 0..(Whole - 1) /\ ends \in Nat
      BY <1>7, <1>9 DEF n, x, ends
    <3> DEFINE f == FirstUp(w2_start, Whole)
    <3>4. /\ n < f => ends = 0 /\ x = w2_start + n
          /\ ~ (n < f) =>
               /\ ends = 1 + ((n - f) \div (Whole - Restart))
               /\ x = Restart + ((n - f) % (Whole - Restart))
      <4>1. EndedUp(x, ends, w2_start, n, Restart, Whole)
        BY <1>3, <1>8, <1>9, <3>1, <3>3, EndsUp
      <4> QED
        BY <4>1 DEF EndedUp
    <3> HIDE DEF f
    <3>5. FirstPeriod = f
      BY <3>2 DEF f
    <3> QED
      BY <2>1, <3>3, <3>4, <3>5 DEF T2Due, EndsDue
  <2>2. CASE Downwards(w2)
    <3>0. e = w2 /\ Restart = RcapOf(w2)
      BY <1>4, <2>2 DEF Restart, Downwards
    <3>1. DueDown(x, ends, w2_start, n, Restart, Whole)
      BY <1>2, <1>5, <1>6, <2>2, <3>0 DEF After
    <3>2. FirstPeriod = FirstDown(w2_start, Restart)
      BY <2>2, <3>0 DEF FirstPeriod, FirstDown
    <3> HIDE DEF n, x, ends, k, r, e
    <3>3. n \in Nat /\ Passed = n /\ x \in 0..(Whole - 1) /\ ends \in Nat
      BY <1>7, <1>9 DEF n, x, ends
    <3> DEFINE f == FirstDown(w2_start, Restart)
    <3>4. /\ n < f => ends = 0 /\ x = w2_start - n
          /\ ~ (n < f) =>
               /\ ends = 1 + ((n - f) \div (Whole - Restart))
               /\ x = Whole - 1 - ((n - f) % (Whole - Restart))
      BY <1>3, <1>8, <1>9, <3>1, <3>3, EndsDown, SMTT(60)
    <3> HIDE DEF f
    <3>5. FirstPeriod = f
      BY <3>2 DEF f
    <3> QED
      BY <2>2, <3>3, <3>4, <3>5 DEF T2Due, EndsDue
  <2> QED
    BY <2>1, <2>2
<1> QED
  BY <1>2, <1>7, <1>10

(* Left alone, Timer 2 of the 8052 is where its reload value and the        *)
(* cycles and edges since it was set up put it, counting up or down, and    *)
(* has ended as many periods as fit into them, for bytes of any size.       *)
THEOREM Timer2KeepsTime == T2Spec => KeepsTime
<1>1. T2Inv /\ [T2Next]_w2_vars => [TimeKept]_w2_vars
  BY StepKeepsTime
<1>2. T2Spec => [][TimeKept]_w2_vars
  BY <1>1, T2InvAlways, PTL DEF T2Spec
<1> QED
  BY <1>2 DEF KeepsTime, TimeKept

-----------------------------------------------------------------------------
(***************************************************************************)
(* The list of interrupt sources.                                          *)
(***************************************************************************)
(* What the counts of an order are: at most all, more for a higher          *)
(* priority, and one more with a source that is polled before it.           *)
LEMMA CountsBelow ==
  ASSUME NEW o \in Seq(DOMAIN Poll), NEW n \in 0..Len(o), NEW p \in Int
  PROVE  /\ CountBelow(o, n, p) \in 0..n
         /\ \A q \in Int : p <= q => CountBelow(o, n, p) <= CountBelow(o, n, q)
         /\ n < Len(o) => CountBelow(o, n + 1, p) =
                            CountBelow(o, n, p) + (IF Poll[o[n + 1]] < p THEN 1 ELSE 0)
<1> DEFINE Under(k, q) == {j \in 1..k : Poll[o[j]] < q}
<1>1. \A j \in 1..Len(o) : Poll[o[j]] \in Int
  BY ListAssumption, ElementOfSeq
<1>2. Len(o) \in Nat /\ n \in Nat
  OBVIOUS
<1>3. \A k \in Nat : \A q : IsFiniteSet(Under(k, q)) /\ Cardinality(Under(k, q)) \in 0..k
  <2> SUFFICES ASSUME NEW k \in Nat, NEW q
               PROVE  IsFiniteSet(Under(k, q)) /\ Cardinality(Under(k, q)) \in 0..k
    OBVIOUS
  <2>1. IsFiniteSet(1..k) /\ Cardinality(1..k) = k
    BY FS_Interval
  <2>2. Under(k, q) \subseteq 1..k
    OBVIOUS
  <2> HIDE DEF Under
  <2>3. IsFiniteSet(Under(k, q)) /\ Cardinality(Under(k, q)) <= k
    BY <2>1, <2>2, FS_Subset
  <2>4. Cardinality(Under(k, q)) \in Nat
    BY <2>3, FS_CardinalityType
  <2> QED
    BY <2>3, <2>4
<1>4. \A k, q : CountBelow(o, k, q) = Cardinality(Under(k, q))
  BY DEF CountBelow
<1>5. ASSUME NEW q \in Int, p <= q PROVE CountBelow(o, n, p) <= CountBelow(o, n, q)
  <2>1. Under(n, p) \subseteq Under(n, q)
    BY <1>1, <1>5
  <2>2. IsFiniteSet(Under(n, q))
    BY <1>2, <1>3
  <2> HIDE DEF Under
  <2>3. Cardinality(Under(n, p)) <= Cardinality(Under(n, q))
    BY <2>1, <2>2, FS_Subset
  <2> QED
    BY <1>4, <2>3
<1>6. ASSUME n < Len(o)
      PROVE  CountBelow(o, n + 1, p) = CountBelow(o, n, p) + (IF Poll[o[n + 1]] < p THEN 1 ELSE 0)
  <2>1. CASE Poll[o[n + 1]] < p
    <3>1. Under(n + 1, p) = Under(n, p) \cup {n + 1} /\ n + 1 \notin Under(n, p)
      BY <1>2, <2>1
    <3>2. IsFiniteSet(Under(n, p))
      BY <1>2, <1>3
    <3> HIDE DEF Under
    <3>3. Cardinality(Under(n + 1, p)) = Cardinality(Under(n, p)) + 1
      BY <3>1, <3>2, FS_AddElement
    <3> QED
      BY <1>4, <2>1, <3>3
  <2>2. CASE ~ (Poll[o[n + 1]] < p)
    <3>1. Under(n + 1, p) = Under(n, p)
      BY <1>2, <2>2
    <3> HIDE DEF Under
    <3>2. Cardinality(Under(n, p)) \in 0..n
      BY <1>2, <1>3
    <3> QED
      BY <1>2, <1>4, <2>2, <3>1, <3>2
  <2> QED
    BY <2>1, <2>2
<1> HIDE DEF Under
<1> QED
  BY <1>2, <1>3, <1>4, <1>5, <1>6

(* The list holds n sources, and those polled before a priority come first  *)
(* in it, as many as there are in the order.                                *)
Ranked(list, o, n) ==
  /\ list \in Seq(DOMAIN Poll) /\ Len(list) = n
  /\ \A p \in Int : \A j \in 1..n : Poll[list[j]] < p <=> j <= CountBelow(o, n, p)

(* Such a list is sorted.                                                   *)
LEMMA RankedIsSorted ==
  ASSUME NEW o \in Seq(DOMAIN Poll), NEW n \in 0..Len(o), Ranked(it_sources, o, n)
  PROVE  SortedByPoll
<1> SUFFICES ASSUME NEW j \in DOMAIN it_sources, NEW k \in DOMAIN it_sources, j < k
             PROVE  Poll[it_sources[j]] <= Poll[it_sources[k]]
  BY DEF SortedByPoll
<1> DEFINE p == Poll[it_sources[j]]
           c == CountBelow(o, n, p)
<1>1. j \in 1..n /\ k \in 1..n /\ it_sources \in Seq(DOMAIN Poll) /\ Len(it_sources) = n
  BY DEF Ranked
<1>2. p \in Int /\ Poll[it_sources[k]] \in Int
  BY <1>1, ListAssumption, ElementOfSeq
<1>3. c \in 0..n
  BY <1>2, CountsBelow
<1>4. (Poll[it_sources[j]] < p <=> j <= c) /\ (Poll[it_sources[k]] < p <=> k <= c)
  BY <1>1, <1>2 DEF Ranked
<1> HIDE DEF c
<1>5. ~ (j <= c)
  BY <1>2, <1>4
<1>6. ~ (k <= c)
  BY <1>1, <1>3, <1>5
<1> QED
  BY <1>2, <1>4, <1>6

(* The windows of the search, and those that may still be reached after k   *)
(* passes, with the places C, at most one, that it may look for.            *)
Windows == [l : Int, h : Int]

Around(w, C, n, k) ==
  /\ w \in Windows /\ 0 <= w.l /\ w.l <= w.h + 1 /\ w.h + 1 <= n
  /\ (w.h - w.l) + 1 <= n - k
  /\ \A c \in C : w.l <= c /\ c <= w.h + 1

(* The places before which all sources are polled before p, and no others.  *)
IsPlace(list, p, c) == \A j \in 1..Len(list) : Poll[list[j]] < p <=> j <= c

(* What one pass of the loop does to a window.                              *)
Narrowed(list, w, p) == IF w.l <= w.h THEN Halve(list, w, p) ELSE w

LEMMA Middle ==
  ASSUME NEW a \in Int, NEW b \in Int
  PROVE  /\ (a + b) \div 2 \in Int
         /\ a <= b => a <= (a + b) \div 2 /\ (a + b) \div 2 <= b
  OBVIOUS

LEMMA NarrowedType ==
  ASSUME NEW list, NEW w \in Windows, NEW p
  PROVE  Narrowed(list, w, p) \in Windows
<1> DEFINE i == (w.l + w.h) \div 2
<1>1. w.l \in Int /\ w.h \in Int
  BY DEF Windows
<1>2. i \in Int
  BY <1>1, Middle
<1>3. Halve(list, w, p) = IF Poll[list[i + 1]] < p THEN [w EXCEPT !.l = i + 1] ELSE [w EXCEPT !.h = i - 1]
  BY DEF Halve
<1> HIDE DEF i
<1>4. i + 1 \in Int /\ i - 1 \in Int
  BY <1>2
<1>5. [w EXCEPT !.l = i + 1] \in Windows /\ [w EXCEPT !.h = i - 1] \in Windows
  BY <1>4 DEF Windows
<1> QED
  BY <1>3, <1>5 DEF Narrowed

(* It keeps the place, and is a pass nearer to the end.                     *)
LEMMA NarrowedAround ==
  ASSUME NEW list, NEW p, NEW n \in Nat, Len(list) = n, NEW C \in SUBSET (0..n),
         \A c \in C : IsPlace(list, p, c),
         NEW k \in 0..n, k < n, NEW w, Around(w, C, n, k)
  PROVE  Around(Narrowed(list, w, p), C, n, k + 1)
<1> DEFINE i == (w.l + w.h) \div 2
           v == Narrowed(list, w, p)
<1>1. w.l \in Int /\ w.h \in Int /\ w \in Windows
  BY DEF Around, Windows
<1>2. CASE w.l <= w.h
  <2>1. i \in Int /\ w.l <= i /\ i <= w.h
    BY <1>1, <1>2, Middle
  <2>2. v = IF Poll[list[i + 1]] < p THEN [w EXCEPT !.l = i + 1] ELSE [w EXCEPT !.h = i - 1]
    BY <1>2 DEF Narrowed, Halve
  <2> HIDE DEF i, v
  <2>3. i + 1 \in 1..n
    BY <1>1, <2>1 DEF Around
  <2>4. \A c \in C : c \in Int /\ (Poll[list[i + 1]] < p <=> i + 1 <= c)
    BY <2>3 DEF IsPlace
  <2>5. CASE Poll[list[i + 1]] < p
    <3>1. v = [w EXCEPT !.l = i + 1]
      BY <2>2, <2>5
    <3>2. v \in Windows /\ v.l = i + 1 /\ v.h = w.h
      BY <1>1, <2>1, <3>1 DEF Windows
    <3>3. \A c \in C : v.l <= c /\ c <= v.h + 1
      BY <2>4, <2>5, <3>2 DEF Around
    <3> QED
      BY <1>1, <2>1, <3>2, <3>3 DEF Around, v
  <2>6. CASE ~ (Poll[list[i + 1]] < p)
    <3>1. v = [w EXCEPT !.h = i - 1]
      BY <2>2, <2>6
    <3>2. v \in Windows /\ v.l = w.l /\ v.h = i - 1
      BY <1>1, <2>1, <3>1 DEF Windows
    <3>3. \A c \in C : v.l <= c /\ c <= v.h + 1
      <4> SUFFICES ASSUME NEW c \in C PROVE v.l <= c /\ c <= v.h + 1
        OBVIOUS
      <4>1. c \in Int /\ w.l <= c /\ ~ (i + 1 <= c)
        BY <2>4, <2>6 DEF Around
      <4> QED
        BY <2>1, <3>2, <4>1
    <3> QED
      BY <1>1, <2>1, <3>2, <3>3 DEF Around, v
  <2> QED
    BY <2>5, <2>6
<1>3. CASE ~ (w.l <= w.h)
  <2>1. v = w
    BY <1>3 DEF Narrowed
  <2> HIDE DEF v
  <2> QED
    BY <1>1, <1>3, <2>1 DEF Around, v
<1> QED
  BY <1>2, <1>3

(* The search ends within the list, and at the first source that is not     *)
(* polled before p where there is such a place.                             *)
LEMMA SearchFinds ==
  ASSUME NEW list \in Seq(DOMAIN Poll), NEW p \in Int, NEW C \in SUBSET (0..Len(list)),
         \A c \in C : IsPlace(list, p, c)
  PROVE  Search(list, p) \in 0..Len(list) /\ \A c \in C : Search(list, p) = c
<1> DEFINE n == Len(list)
           first == [l |-> 0, h |-> n - 1]
           F == [w \in Windows |-> Narrowed(list, w, p)]
           Eq(g) == g = [k \in 0..n |->
                           IF k = 0 THEN [l |-> 0, h |-> n - 1]
                           ELSE IF g[k - 1].l <= g[k - 1].h THEN Halve(list, g[k - 1], p)
                           ELSE g[k - 1]]
           f == CHOOSE g : Eq(g)
<1>0. n \in Nat
  OBVIOUS
<1>1. F \in [Windows -> Windows] /\ first \in Windows
  <2>1. \A w \in Windows : Narrowed(list, w, p) \in Windows
    BY NarrowedType
  <2> QED
    BY <1>0, <2>1 DEF Windows
<1>2. Search(list, p) = f[n].l
  BY DEF Search
<1> HIDE DEF n
<1>3. \E g : Eq(g)
  <2>1. PICK g : Repetition(Windows, F, first, n, g)
    <3> HIDE DEF F, first
    <3> QED
      BY <1>0, <1>1, Repeats
  <2>2. /\ g = [k \in 0..n |-> IF k = 0 THEN first ELSE F[g[k - 1]]]
        /\ \A k \in 0..n : g[k] \in Windows
    <3> HIDE DEF F, first
    <3> QED
      BY <2>1 DEF Repetition
  <2>3. \A k \in 0..n : (IF k = 0 THEN first ELSE F[g[k - 1]])
                          = IF k = 0 THEN first ELSE Narrowed(list, g[k - 1], p)
    <3> SUFFICES ASSUME NEW k \in 0..n, k # 0 PROVE F[g[k - 1]] = Narrowed(list, g[k - 1], p)
      OBVIOUS
    <3>1. k - 1 \in 0..n
      BY <1>0
    <3>2. g[k - 1] \in Windows
      BY <2>2, <3>1
    <3> QED
      BY <3>2
  <2>4. g = [k \in 0..n |-> IF k = 0 THEN first ELSE Narrowed(list, g[k - 1], p)]
    <3> HIDE DEF F, first
    <3> QED
      BY <2>2, <2>3
  <2>5. Eq(g)
    BY <2>4, Zenon DEF Narrowed
  <2> HIDE DEF Eq
  <2> QED
    BY <2>5
<1>4. Eq(f)
  <2> HIDE DEF Eq
  <2> QED
    BY <1>3
<1> HIDE DEF f
<1>5. f[0] = first
  BY <1>0, <1>4
<1>6. \A i \in 0..n : i < n => f[i + 1] = Narrowed(list, f[i], p)
  <2> SUFFICES ASSUME NEW i \in 0..n, i < n PROVE f[i + 1] = Narrowed(list, f[i], p)
    OBVIOUS
  <2>1. i + 1 \in 0..n /\ i + 1 # 0 /\ (i + 1) - 1 = i
    BY <1>0
  <2> QED
    BY <1>4, <2>1 DEF Narrowed
<1> HIDE DEF Eq
<1> DEFINE P == {k \in 0..n : Around(f[k], C, n, k)}
<1>7. Len(list) = n /\ C \in SUBSET (0..n) /\ \A c \in C : c \in Int
  BY DEF n
<1>8. 0 \in P
  <2>1. Around(first, C, n, 0)
    BY <1>0, <1>1, <1>7 DEF Around
  <2> QED
    BY <1>0, <1>5, <2>1
<1>9. \A k \in 0..n : k \in P /\ k < n => k + 1 \in P
  <2> SUFFICES ASSUME NEW k \in 0..n, k \in P, k < n PROVE k + 1 \in P
    OBVIOUS
  <2>1. Around(Narrowed(list, f[k], p), C, n, k + 1)
    BY <1>0, <1>7, NarrowedAround
  <2> QED
    BY <1>0, <1>6, <2>1
<1> HIDE DEF P
<1>10. n \in P
  <2>1. 0..n \subseteq P
    BY <1>0, <1>8, <1>9, UpTo
  <2> QED
    BY <1>0, <2>1
<1>11. Around(f[n], C, n, n)
  BY <1>10 DEF P
<1>12. f[n].l \in 0..n /\ \A c \in C : f[n].l = c
  <2>1. f[n].l \in Int /\ f[n].h \in Int
    BY <1>11 DEF Around, Windows
  <2> QED
    BY <1>0, <1>7, <1>11, <2>1 DEF Around
<1> QED
  BY <1>2, <1>12 DEF n

(* What a list is after an addition.                                        *)
LEMMA Inserted ==
  ASSUME NEW list \in Seq(DOMAIN Poll), NEW i \in 0..Len(list), NEW s \in DOMAIN Poll
  PROVE  LET r == AddAt(list, i, s)
         IN /\ r \in Seq(DOMAIN Poll) /\ Len(r) = Len(list) + 1
            /\ \A j \in 1..i : r[j] = list[j]
            /\ r[i + 1] = s
            /\ \A j \in (i + 2)..(Len(list) + 1) : r[j] = list[j - 1]
<1> DEFINE n == Len(list)
           a == SubSeq(list, 1, i)
           b == <<s>>
           d == SubSeq(list, i + 1, n)
           r == AddAt(list, i, s)
<1>1. n \in Nat /\ i \in Nat /\ i <= n
  OBVIOUS
<1>2. r = (a \o b) \o d
  <2>1. (i + 1) - 1 = i
    OBVIOUS
  <2> QED
    BY <2>1 DEF AddAt, InsertAt
<1>3. a \in Seq(DOMAIN Poll) /\ Len(a) = i /\ \A j \in 1..i : a[j] = list[j]
  BY <1>1, SubSeqProperties
<1>4. d \in Seq(DOMAIN Poll) /\ Len(d) = n - i /\ \A j \in 1..(n - i) : d[j] = list[i + j]
  <2>1. n - (i + 1) + 1 = n - i /\ \A j \in 1..(n - i) : (i + 1) + j - 1 = i + j
    BY <1>1
  <2>2. /\ d \in Seq(DOMAIN Poll)
        /\ Len(d) = IF i + 1 <= n THEN n - (i + 1) + 1 ELSE 0
        /\ \A j \in 1..(n - (i + 1) + 1) : d[j] = list[(i + 1) + j - 1]
    BY <1>1, SubSeqProperties
  <2> HIDE DEF d, n
  <2>3. Len(d) = n - i
    BY <1>1, <2>1, <2>2
  <2> QED
    BY <2>1, <2>2, <2>3
<1>5. b \in Seq(DOMAIN Poll) /\ Len(b) = 1 /\ b[1] = s
  OBVIOUS
<1> HIDE DEF a, b, d, n, r
<1> DEFINE e == a \o b
<1>6. /\ e \in Seq(DOMAIN Poll) /\ Len(e) = i + 1
      /\ \A j \in 1..i : e[j] = list[j]
      /\ e[i + 1] = s
  <2>1. /\ e \in Seq(DOMAIN Poll) /\ Len(e) = Len(a) + Len(b)
        /\ \A j \in 1..Len(a) + Len(b) : e[j] = IF j <= Len(a) THEN a[j] ELSE b[j - Len(a)]
    BY <1>3, <1>5, ConcatProperties
  <2>2. i + 1 \in 1..(i + 1) /\ ~ (i + 1 <= i) /\ (i + 1) - i = 1
    BY <1>1
  <2>3. \A j \in 1..i : j \in 1..(i + 1) /\ j <= i
    BY <1>1
  <2> HIDE DEF e
  <2> QED
    BY <1>3, <1>5, <2>1, <2>2, <2>3
<1>7. r = e \o d
  BY <1>2
<1> HIDE DEF e
<1>8. /\ r \in Seq(DOMAIN Poll) /\ Len(r) = n + 1
      /\ \A j \in 1..(i + 1) : r[j] = e[j]
      /\ \A j \in (i + 2)..(n + 1) : r[j] = d[j - (i + 1)]
  <2>1. /\ r \in Seq(DOMAIN Poll) /\ Len(r) = Len(e) + Len(d)
        /\ \A j \in 1..Len(e) + Len(d) : r[j] = IF j <= Len(e) THEN e[j] ELSE d[j - Len(e)]
    BY <1>4, <1>6, <1>7, ConcatProperties
  <2>2. Len(e) + Len(d) = n + 1
    BY <1>1, <1>4, <1>6
  <2>3. \A j \in 1..(i + 1) : j \in 1..(n + 1) /\ j <= i + 1
    BY <1>1
  <2>4. \A j \in (i + 2)..(n + 1) : j \in 1..(n + 1) /\ ~ (j <= i + 1)
    BY <1>1
  <2> QED
    BY <1>6, <2>1, <2>2, <2>3, <2>4
<1>9. \A j \in (i + 2)..(n + 1) : d[j - (i + 1)] = list[j - 1]
  <2> SUFFICES ASSUME NEW j \in (i + 2)..(n + 1) PROVE d[j - (i + 1)] = list[j - 1]
    OBVIOUS
  <2>1. j - (i + 1) \in 1..(n - i) /\ i + (j - (i + 1)) = j - 1
    BY <1>1
  <2> QED
    BY <1>4, <2>1
<1> QED
  BY <1>1, <1>6, <1>8, <1>9 DEF r, n

(* A source that is put where it belongs leaves the list ranked.            *)
LEMMA AddRanked ==
  ASSUME NEW o \in Seq(DOMAIN Poll), NEW n \in 0..Len(o), n < Len(o),
         NEW list, Ranked(list, o, n), NEW i,
         i \in CountBelow(o, n, Poll[o[n + 1]])..CountBelow(o, n, Poll[o[n + 1]] + 1)
  PROVE  Ranked(AddAt(list, i, o[n + 1]), o, n + 1)
<1> DEFINE s == o[n + 1]
           p == Poll[s]
           r == AddAt(list, i, s)
           C(q) == CountBelow(o, n, q)
           D(q) == CountBelow(o, n + 1, q)
<1>1. s \in DOMAIN Poll /\ p \in Int /\ n \in Nat
  <2>1. n + 1 \in 1..Len(o)
    OBVIOUS
  <2> QED
    BY <2>1, ListAssumption, ElementOfSeq
<1>2. \A q \in Int : C(q) \in 0..n /\ D(q) = C(q) + (IF p < q THEN 1 ELSE 0)
  BY CountsBelow
<1>3. \A q1, q2 \in Int : q1 <= q2 => C(q1) <= C(q2)
  BY CountsBelow
<1>4. list \in Seq(DOMAIN Poll) /\ Len(list) = n
  BY DEF Ranked
<1>5. \A q \in Int : \A j \in 1..n : Poll[list[j]] < q <=> j <= C(q)
  BY DEF Ranked
<1>6. i \in C(p)..C(p + 1)
  OBVIOUS
<1> HIDE DEF C, D, s, p
<1>7. i \in 0..n /\ C(p) <= i /\ i <= C(p + 1)
  BY <1>1, <1>2, <1>6
<1>8. /\ r \in Seq(DOMAIN Poll) /\ Len(r) = n + 1
      /\ \A j \in 1..i : r[j] = list[j]
      /\ r[i + 1] = s
      /\ \A j \in (i + 2)..(n + 1) : r[j] = list[j - 1]
  BY <1>1, <1>4, <1>7, Inserted
<1> HIDE DEF r
<1>9. ASSUME NEW q \in Int, NEW j \in 1..(n + 1) PROVE Poll[r[j]] < q <=> j <= D(q)
  <2>1. C(q) \in 0..n /\ D(q) = C(q) + (IF p < q THEN 1 ELSE 0)
    BY <1>2
  <2>2. p < q => i <= C(q)
    <3> SUFFICES ASSUME p < q PROVE i <= C(q)
      OBVIOUS
    <3>1. p + 1 \in Int /\ p + 1 <= q
      BY <1>1
    <3>2. C(p + 1) <= C(q) /\ C(p + 1) \in 0..n
      BY <1>2, <1>3, <3>1
    <3> QED
      BY <1>7, <2>1, <3>2
  <2>3. ~ (p < q) => C(q) <= i
    <3> SUFFICES ASSUME ~ (p < q) PROVE C(q) <= i
      OBVIOUS
    <3>1. q <= p
      BY <1>1
    <3>2. C(q) <= C(p) /\ C(p) \in 0..n
      BY <1>1, <1>2, <1>3, <3>1
    <3> QED
      BY <1>7, <2>1, <3>2
  <2>4. CASE j \in 1..i
    <3>1. Poll[r[j]] < q <=> j <= C(q)
      <4>1. j \in 1..n
        BY <1>1, <1>7, <2>4
      <4> QED
        BY <1>5, <1>8, <2>4, <4>1
    <3> QED
      BY <1>7, <2>1, <2>2, <2>4, <3>1
  <2>5. CASE j = i + 1
    <3>1. r[j] = s
      BY <1>8, <2>5
    <3>2. Poll[r[j]] < q <=> p < q
      BY <3>1 DEF p
    <3> QED
      BY <1>7, <2>1, <2>2, <2>3, <2>5, <3>2
  <2>6. CASE j \in (i + 2)..(n + 1)
    <3>1. Poll[r[j]] < q <=> j - 1 <= C(q)
      <4>1. j - 1 \in 1..n
        BY <1>1, <1>7, <2>6
      <4> QED
        BY <1>5, <1>8, <2>6, <4>1
    <3> QED
      BY <1>7, <2>1, <2>3, <2>6, <3>1
  <2> QED
    BY <1>1, <1>7, <2>4, <2>5, <2>6
<1>10. Ranked(r, o, n + 1)
  BY <1>8, <1>9 DEF Ranked, D
<1> QED
  BY <1>10 DEF r, s

(* Two sources stand in the wrong order.                                    *)
Disordered(list) ==
  \E j, k \in 1..Len(list) : j < k /\ Poll[list[k]] < Poll[list[j]]

(* They do for good, wherever others are put.                               *)
LEMMA DisorderStays ==
  ASSUME NEW list \in Seq(DOMAIN Poll), NEW i \in 0..Len(list), NEW s \in DOMAIN Poll,
         Disordered(list)
  PROVE  Disordered(AddAt(list, i, s))
<1> DEFINE n == Len(list)
           r == AddAt(list, i, s)
           At(j) == IF j <= i THEN j ELSE j + 1
<1>1. PICK j \in 1..n, k \in 1..n : j < k /\ Poll[list[k]] < Poll[list[j]]
  BY DEF Disordered
<1>2. n \in Nat /\ i \in 0..n
  OBVIOUS
<1>3. /\ Len(r) = n + 1
      /\ \A m \in 1..i : r[m] = list[m]
      /\ \A m \in (i + 2)..(n + 1) : r[m] = list[m - 1]
  BY Inserted
<1> HIDE DEF n, r
<1>4. \A m \in 1..n : At(m) \in 1..(n + 1) /\ r[At(m)] = list[m]
  <2> SUFFICES ASSUME NEW m \in 1..n PROVE At(m) \in 1..(n + 1) /\ r[At(m)] = list[m]
    OBVIOUS
  <2>1. CASE m <= i
    BY <1>2, <1>3, <2>1
  <2>2. CASE ~ (m <= i)
    <3>1. m + 1 \in (i + 2)..(n + 1) /\ m + 1 \in 1..(n + 1) /\ (m + 1) - 1 = m
      BY <1>2, <2>2
    <3> QED
      BY <1>3, <2>2, <3>1
  <2> QED
    BY <2>1, <2>2
<1>5. At(j) < At(k)
  BY <1>1, <1>2
<1> HIDE DEF At
<1>6. /\ At(j) \in 1..(n + 1) /\ r[At(j)] = list[j]
      /\ At(k) \in 1..(n + 1) /\ r[At(k)] = list[k]
  BY <1>1, <1>4
<1> QED
  BY <1>1, <1>3, <1>5, <1>6 DEF Disordered, r

(* A source that is put where it does not belong stands in the wrong order  *)
(* with the one before it or the one after it.                              *)
LEMMA AddDisorders ==
  ASSUME NEW o \in Seq(DOMAIN Poll), NEW n \in 0..Len(o), n < Len(o),
         NEW list, Ranked(list, o, n), NEW i \in 0..n,
         i \notin CountBelow(o, n, Poll[o[n + 1]])..CountBelow(o, n, Poll[o[n + 1]] + 1)
  PROVE  Disordered(AddAt(list, i, o[n + 1]))
<1> DEFINE s == o[n + 1]
           p == Poll[s]
           r == AddAt(list, i, s)
           low == CountBelow(o, n, p)
           high == CountBelow(o, n, p + 1)
<1>1. s \in DOMAIN Poll /\ p \in Int /\ n \in Nat
  <2>1. n + 1 \in 1..Len(o)
    OBVIOUS
  <2> QED
    BY <2>1, ListAssumption, ElementOfSeq
<1>2. low \in 0..n /\ high \in 0..n
  <2>1. p + 1 \in Int
    BY <1>1
  <2> HIDE DEF p
  <2> QED
    BY <1>1, <2>1, CountsBelow
<1>3. /\ list \in Seq(DOMAIN Poll) /\ Len(list) = n
      /\ \A j \in 1..n : Poll[list[j]] \in Int
      /\ \A j \in 1..n : Poll[list[j]] < p <=> j <= low
      /\ \A j \in 1..n : Poll[list[j]] < p + 1 <=> j <= high
  <2>1. p + 1 \in Int
    BY <1>1
  <2>2. list \in Seq(DOMAIN Poll) /\ Len(list) = n
    BY DEF Ranked
  <2>3. \A j \in 1..n : Poll[list[j]] \in Int
    BY <2>2, ListAssumption, ElementOfSeq
  <2> QED
    BY <1>1, <2>1, <2>2, <2>3 DEF Ranked
<1>4. i \notin low..high
  OBVIOUS
<1> HIDE DEF s, p, low, high
<1>5. /\ Len(r) = n + 1
      /\ \A j \in 1..i : r[j] = list[j]
      /\ r[i + 1] = s
      /\ \A j \in (i + 2)..(n + 1) : r[j] = list[j - 1]
  <2>1. i \in 0..Len(list) /\ list \in Seq(DOMAIN Poll) /\ Len(list) = n /\ s \in DOMAIN Poll
    BY <1>1, <1>3
  <2>2. /\ r \in Seq(DOMAIN Poll) /\ Len(r) = Len(list) + 1
        /\ \A j \in 1..i : r[j] = list[j]
        /\ r[i + 1] = s
        /\ \A j \in (i + 2)..(Len(list) + 1) : r[j] = list[j - 1]
    BY ONLY <2>1, Inserted
  <2> HIDE DEF r
  <2> QED
    BY <2>1, <2>2
<1> HIDE DEF r
<1>6. Poll[r[i + 1]] = p
  BY <1>5 DEF p
<1>7. CASE i < low
  <2>1. i + 1 \in 1..n /\ i + 2 \in (i + 2)..(n + 1) /\ (i + 2) - 1 = i + 1
    BY <1>1, <1>2, <1>7
  <2>2. r[i + 2] = list[i + 1]
    BY <1>5, <2>1
  <2>3. Poll[r[i + 2]] < p
    BY <1>2, <1>3, <1>7, <2>1, <2>2
  <2>4. i + 1 \in 1..(n + 1) /\ i + 2 \in 1..(n + 1) /\ i + 1 < i + 2
    BY <1>1, <2>1
  <2>5. Disordered(r)
    BY <1>5, <1>6, <2>3, <2>4 DEF Disordered
  <2> QED
    BY <2>5 DEF r, s
<1>8. CASE ~ (i < low)
  <2>1. high < i
    BY <1>1, <1>2, <1>4, <1>8
  <2>2. i \in 1..n /\ ~ (i <= high)
    BY <1>1, <1>2, <2>1
  <2>3. Poll[list[i]] \in Int /\ ~ (Poll[list[i]] < p + 1)
    BY <1>3, <2>2
  <2>4. p < Poll[r[i]]
    <3>1. r[i] = list[i]
      BY <1>5, <2>2
    <3> QED
      BY <1>1, <2>3, <3>1
  <2>5. i \in 1..(n + 1) /\ i + 1 \in 1..(n + 1) /\ i < i + 1
    BY <1>1, <2>2
  <2>6. Disordered(r)
    BY <1>5, <1>6, <2>4, <2>5 DEF Disordered
  <2> QED
    BY <2>6 DEF r, s
<1> QED
  BY <1>7, <1>8

(* The inductive invariant: some of an order is in the list, which is       *)
(* ranked if the fixed index was right every time, and has two sources in   *)
(* the wrong order otherwise.                                               *)
BuiltSoFar(o, n) ==
  /\ it_sources \in Seq(DOMAIN Poll) /\ Len(it_sources) = n
  /\ to_add = SubSeq(o, n + 1, Len(o))
  /\ (\A k \in 1..n : FixedFitsAt(o, k)) => Ranked(it_sources, o, n)
  /\ ~ (\A k \in 1..n : FixedFitsAt(o, k)) => Disordered(it_sources)

ListInv == \E o \in Orders : \E n \in 0..Len(o) : BuiltSoFar(o, n)

LEMMA ListInitInv == ASSUME ListInit PROVE ListInv
<1> DEFINE o == to_add
<1>1. o \in Orders /\ o \in Seq(DOMAIN Poll) /\ it_sources = <<>>
  BY ListAssumption DEF ListInit
<1>2. Ranked(it_sources, o, 0) /\ it_sources \in Seq(DOMAIN Poll) /\ Len(it_sources) = 0
  BY <1>1 DEF Ranked
<1>3. 0 \in 0..Len(o) /\ 0 + 1 = 1
  BY <1>1
<1>4. to_add = SubSeq(o, 1, Len(o))
  BY <1>1, SubSeqFull
<1>5. \A k \in 1..0 : FixedFitsAt(o, k)
  OBVIOUS
<1> HIDE DEF o
<1> QED
  BY <1>1, <1>2, <1>3, <1>4, <1>5 DEF ListInv, BuiltSoFar

(* One source more of an order.                                             *)
LEMMA ListAddInv ==
  ASSUME NEW o \in Orders, InReach(o), NEW n \in 0..Len(o), BuiltSoFar(o, n), ListNext
  PROVE  n < Len(o) /\ BuiltSoFar(o, n + 1)'
<1>1. o \in Seq(DOMAIN Poll) /\ Len(o) \in Nat /\ n \in Nat
  BY ListAssumption
<1>2. to_add # <<>> /\ to_add = SubSeq(o, n + 1, Len(o))
  BY DEF ListNext, AddSorted, AddFixed, BuiltSoFar
<1>3. n < Len(o)
  <2>1. n + 1 > Len(o) => to_add = <<>>
    BY <1>1, <1>2, SubSeqEmpty
  <2> QED
    BY <1>1, <1>2, <2>1
<1>4. n + 1 \in 1..Len(o) /\ (n + 1) + 1 = n + 2 /\ (n + 1) - 1 = n
  BY <1>1, <1>3
<1>5. Head(to_add) = o[n + 1] /\ Tail(to_add) = SubSeq(o, n + 2, Len(o))
  BY <1>1, <1>2, <1>4, HeadTailOfSubSeq
<1> DEFINE s == o[n + 1]
           p == Poll[s]
           low == CountBelow(o, n, p)
           high == CountBelow(o, n, p + 1)
           Fit == \A k \in 1..n : FixedFitsAt(o, k)
           here == FixedFitsAt(o, n + 1)
<1>6. s \in DOMAIN Poll /\ p \in Int
  BY <1>1, <1>4, ListAssumption, ElementOfSeq
<1>7. low \in 0..n /\ high \in 0..n /\ low <= high
  <2>1. p + 1 \in Int /\ p <= p + 1
    BY <1>6
  <2> HIDE DEF p
  <2>2. low \in 0..n /\ (\A q \in Int : p <= q => low <= CountBelow(o, n, q))
    BY <1>1, <1>6, CountsBelow
  <2>3. high \in 0..n
    BY <1>1, <2>1, CountsBelow
  <2> QED
    BY <2>1, <2>2, <2>3
<1>8. it_sources \in Seq(DOMAIN Poll) /\ Len(it_sources) = n
  BY DEF BuiltSoFar
<1>9. (\A k \in 1..(n + 1) : FixedFitsAt(o, k)) <=> Fit /\ here
  <2>1. 1..(n + 1) = (1..n) \cup {n + 1}
    BY <1>1
  <2> QED
    BY <2>1
<1>10. here <=> (s \in Fixed => FixedAt \in low..high)
  BY <1>4 DEF FixedFitsAt
<1>11. PICK i \in 0..n : /\ it_sources' = AddAt(it_sources, i, s)
                         /\ Fit => (here <=> i \in low..high)
  <2>1. CASE AddSorted
    <3>1. it_sources' = AddAt(it_sources, Search(it_sources, p), s) /\ s \notin Fixed
      BY <1>5, <2>1 DEF AddSorted
    <3> DEFINE C == {c \in {low} : Fit}
    <3>2. \A c \in C : IsPlace(it_sources, p, c)
      BY <1>6, <1>8 DEF Ranked, IsPlace, BuiltSoFar
    <3>3. C \in SUBSET (0..Len(it_sources))
      BY <1>7, <1>8
    <3> HIDE DEF C
    <3>4. /\ Search(it_sources, p) \in 0..n
          /\ \A c \in C : Search(it_sources, p) = c
      BY <1>6, <1>8, <3>2, <3>3, SearchFinds
    <3>5. Fit => Search(it_sources, p) \in low..high
      <4> SUFFICES ASSUME Fit PROVE Search(it_sources, p) \in low..high
        OBVIOUS
      <4>1. low \in C
        BY DEF C
      <4>2. Search(it_sources, p) = low
        BY <3>4, <4>1
      <4> QED
        BY <1>7, <4>2
    <3> HIDE DEF s, p, low, high, Fit, here
    <3> QED
      BY <1>10, <3>1, <3>4, <3>5
  <2>2. CASE AddFixed
    <3>1. it_sources' = AddAt(it_sources, FixedAt, s) /\ s \in Fixed
      BY <1>5, <2>2 DEF AddFixed
    <3>2. FixedAt \in 0..n
      <4>1. n + 1 \in DOMAIN o
        BY <1>1, <1>4
      <4>2. FixedAt < n + 1
        BY <3>1, <4>1 DEF InReach
      <4> QED
        BY <1>1, <4>2, ListAssumption
    <3> HIDE DEF s, low, high, Fit, here
    <3> QED
      BY <1>10, <3>1, <3>2
  <2> QED
    BY <2>1, <2>2 DEF ListNext
<1>12. it_sources' \in Seq(DOMAIN Poll) /\ Len(it_sources') = n + 1
  BY <1>6, <1>8, <1>11, Inserted
<1>13. to_add' = SubSeq(o, (n + 1) + 1, Len(o))
  BY <1>4, <1>5 DEF ListNext, AddSorted, AddFixed
<1>14. ASSUME Fit, here PROVE Ranked(it_sources', o, n + 1)
  <2>1. Ranked(it_sources, o, n) /\ i \in low..high
    BY <1>11, <1>14 DEF BuiltSoFar
  <2> QED
    BY <1>1, <1>3, <1>11, <2>1, AddRanked
<1>15. ASSUME ~ (Fit /\ here) PROVE Disordered(it_sources')
  <2>1. CASE Fit
    <3>1. Ranked(it_sources, o, n) /\ i \notin low..high
      BY <1>11, <1>15, <2>1 DEF BuiltSoFar
    <3> QED
      BY <1>1, <1>3, <1>11, <3>1, AddDisorders
  <2>2. CASE ~ Fit
    <3>1. Disordered(it_sources)
      BY <2>2 DEF BuiltSoFar
    <3> HIDE DEF s
    <3> QED
      BY <1>6, <1>8, <1>11, <3>1, DisorderStays
  <2> QED
    BY <2>1, <2>2
<1> HIDE DEF Fit, here
<1>16. /\ (\A k \in 1..(n + 1) : FixedFitsAt(o, k)) => Ranked(it_sources', o, n + 1)
       /\ ~ (\A k \in 1..(n + 1) : FixedFitsAt(o, k)) => Disordered(it_sources')
  BY <1>9, <1>14, <1>15
<1> QED
  BY <1>3, <1>12, <1>13, <1>16 DEF BuiltSoFar

LEMMA ListStepInv ==
  ASSUME \A o \in Orders : InReach(o), ListInv, [ListNext]_list_vars
  PROVE  ListInv'
<1>1. PICK o \in Orders : \E n \in 0..Len(o) : BuiltSoFar(o, n)
  BY DEF ListInv
<1>2. PICK n \in 0..Len(o) : BuiltSoFar(o, n)
  BY <1>1
<1>3. CASE UNCHANGED list_vars
  <2>1. BuiltSoFar(o, n)'
    BY <1>2, <1>3 DEF BuiltSoFar, list_vars
  <2> QED
    BY <2>1 DEF ListInv
<1>4. CASE ListNext
  <2>1. n < Len(o) /\ BuiltSoFar(o, n + 1)'
    BY <1>2, <1>4, ListAddInv
  <2>2. n + 1 \in 0..Len(o)
    BY <2>1, ListAssumption
  <2> QED
    BY <2>1, <2>2 DEF ListInv
<1> QED
  BY <1>3, <1>4

LEMMA ListInvAlways ==
  ASSUME \A o \in Orders : InReach(o)
  PROVE  ListSpec => []ListInv
<1>1. ListInit => ListInv
  BY ListInitInv
<1>2. ListInv /\ [ListNext]_list_vars => ListInv'
  BY ListStepInv
<1> QED
  BY <1>1, <1>2, PTL DEF ListSpec

(* Where the fixed index is right it is within the list.                    *)
LEMMA FitsInReach == ASSUME NEW o \in Orders, FixedFits(o) PROVE InReach(o)
<1> SUFFICES ASSUME NEW k \in DOMAIN o, o[k] \in Fixed PROVE FixedAt < k
  BY DEF InReach
<1> DEFINE p == Poll[o[k]]
           high == CountBelow(o, k - 1, p + 1)
<1>1. o \in Seq(DOMAIN Poll) /\ k \in 1..Len(o) /\ k - 1 \in 0..Len(o)
  BY ListAssumption
<1>2. p \in Int /\ p + 1 \in Int
  BY <1>1, ListAssumption, ElementOfSeq
<1>3. FixedAt \in CountBelow(o, k - 1, p)..high
  BY DEF FixedFits, FixedFitsAt
<1> HIDE DEF p
<1>4. high \in 0..(k - 1)
  BY <1>1, <1>2, CountsBelow
<1> HIDE DEF high
<1> QED
  BY <1>1, <1>3, <1>4, ListAssumption

(* The list of interrupt sources is sorted by poll priority while it is     *)
(* built and after, whatever the priorities, in every part in whose order   *)
(* the fixed index is right: cl_sorted_list::search() finds the place among *)
(* any number of sources, and equal priorities do not mislead it.           *)
THEOREM ListIsSorted ==
  ASSUME \A o \in Orders : FixedFits(o)
  PROVE  ListSpec => []SortedByPoll
<1>1. \A o \in Orders : InReach(o)
  BY FitsInReach
<1>2. ListInv => SortedByPoll
  <2> SUFFICES ASSUME ListInv PROVE SortedByPoll
    OBVIOUS
  <2>1. PICK o \in Orders : \E n \in 0..Len(o) : BuiltSoFar(o, n)
    BY DEF ListInv
  <2>2. PICK n \in 0..Len(o) : BuiltSoFar(o, n)
    BY <2>1
  <2>3. o \in Seq(DOMAIN Poll) /\ \A k \in 1..n : FixedFitsAt(o, k)
    BY ListAssumption DEF FixedFits
  <2> QED
    BY <2>2, <2>3, RankedIsSorted DEF BuiltSoFar
<1> QED
  BY <1>1, <1>2, ListInvAlways, PTL

(* In every other part whose fixed index is within the list, as on the      *)
(* STC15W, the finished list is not sorted: nothing that is added later     *)
(* puts two sources in order that were not.                                 *)
THEOREM ListIsNotSorted ==
  ASSUME \A o \in Orders : InReach(o) /\ ~ FixedFits(o)
  PROVE  ListSpec => [](to_add = <<>> => ~ SortedByPoll)
<1>1. \A o \in Orders : InReach(o)
  OBVIOUS
<1>2. ListInv => (to_add = <<>> => ~ SortedByPoll)
  <2> SUFFICES ASSUME ListInv, to_add = <<>> PROVE ~ SortedByPoll
    OBVIOUS
  <2>1. PICK o \in Orders : \E n \in 0..Len(o) : BuiltSoFar(o, n)
    BY DEF ListInv
  <2>2. PICK n \in 0..Len(o) : BuiltSoFar(o, n)
    BY <2>1
  <2>3. o \in Seq(DOMAIN Poll) /\ Len(o) \in Nat /\ n \in Nat
    BY ListAssumption
  <2>4. n = Len(o)
    <3>1. SubSeq(o, n + 1, Len(o)) = <<>>
      BY <2>2 DEF BuiltSoFar
    <3>2. CASE n < Len(o)
      <4>1. n + 1 \in 1..Len(o)
        BY <2>3, <3>2
      <4>2. Len(SubSeq(o, n + 1, Len(o))) = Len(o) - (n + 1) + 1
        BY <2>3, <4>1, SubSeqProperties
      <4> DEFINE rest == SubSeq(o, n + 1, Len(o))
      <4>3. rest = <<>> /\ Len(rest) = Len(o) - (n + 1) + 1
        BY <3>1, <4>2
      <4> HIDE DEF rest
      <4>4. Len(rest) = 0
        BY <4>3
      <4> QED
        BY <2>3, <3>2, <4>3, <4>4
    <3> QED
      BY <2>3, <3>2
  <2>5. ~ (\A k \in 1..n : FixedFitsAt(o, k))
    BY <2>3, <2>4 DEF FixedFits
  <2>6. Disordered(it_sources) /\ it_sources \in Seq(DOMAIN Poll)
    BY <2>2, <2>5 DEF BuiltSoFar
  <2>7. PICK j \in 1..Len(it_sources), k \in 1..Len(it_sources) :
          j < k /\ Poll[it_sources[k]] < Poll[it_sources[j]]
    BY <2>6 DEF Disordered
  <2>8. Poll[it_sources[j]] \in Int /\ Poll[it_sources[k]] \in Int
    BY <2>6, ListAssumption, ElementOfSeq
  <2>9. ~ (Poll[it_sources[j]] <= Poll[it_sources[k]])
    BY <2>7, <2>8
  <2>10. j \in DOMAIN it_sources /\ k \in DOMAIN it_sources
    BY <2>6
  <2> QED
    BY <2>7, <2>9, <2>10 DEF SortedByPoll
<1> QED
  BY <1>1, <1>2, ListInvAlways, PTL

-----------------------------------------------------------------------------
(* A behaviour of the whole is one of each of its parts, which share no     *)
(* state: what is proved of a part holds of the whole.                      *)
THEOREM EveryPartRuns ==
  S51Spec => Spec /\ ListSpec /\ SpaceSpec /\ AluSpec /\ PortsSpec /\ T2Spec
<1>1. S51Init => Init /\ ListInit /\ SpaceInit /\ AluInit /\ PortsInit /\ T2Init
  BY Zenon DEF S51Init
<1>2. [S51Next]_all =>
        /\ [Next]_vars /\ [ListNext]_list_vars /\ [SpaceNext]_space_vars /\ [AluNext]_alu_vars
        /\ [PortsNext]_port_vars /\ [T2Next]_w2_vars
  <2>1. UNCHANGED all =>
          UNCHANGED vars /\ UNCHANGED list_vars /\ UNCHANGED space_vars /\ UNCHANGED alu_vars
          /\ UNCHANGED port_vars /\ UNCHANGED w2_vars
    BY DEF all
  <2>2. Only("core", Next, <<list_vars, space_vars, alu_vars, port_vars, w2_vars>>) =>
          Next /\ UNCHANGED list_vars /\ UNCHANGED space_vars /\ UNCHANGED alu_vars
          /\ UNCHANGED port_vars /\ UNCHANGED w2_vars
    BY DEF Only
  <2>3. Only("list", ListNext \/ Built, <<vars, space_vars, alu_vars, port_vars, w2_vars>>) =>
          [ListNext]_list_vars /\ UNCHANGED vars /\ UNCHANGED space_vars /\ UNCHANGED alu_vars
          /\ UNCHANGED port_vars /\ UNCHANGED w2_vars
    BY DEF Only, Built
  <2>4. Only("space", SpaceNext, <<vars, list_vars, alu_vars, port_vars, w2_vars>>) =>
          SpaceNext /\ UNCHANGED vars /\ UNCHANGED list_vars /\ UNCHANGED alu_vars
          /\ UNCHANGED port_vars /\ UNCHANGED w2_vars
    BY DEF Only
  <2>5. Only("alu", AluNext, <<vars, list_vars, space_vars, port_vars, w2_vars>>) =>
          AluNext /\ UNCHANGED vars /\ UNCHANGED list_vars /\ UNCHANGED space_vars
          /\ UNCHANGED port_vars /\ UNCHANGED w2_vars
    BY DEF Only
  <2>6. Only("port", PortsNext, <<vars, list_vars, space_vars, alu_vars, w2_vars>>) =>
          PortsNext /\ UNCHANGED vars /\ UNCHANGED list_vars /\ UNCHANGED space_vars
          /\ UNCHANGED alu_vars /\ UNCHANGED w2_vars
    BY DEF Only
  <2>7. Only("timer2", T2Next, <<vars, list_vars, space_vars, alu_vars, port_vars>>) =>
          T2Next /\ UNCHANGED vars /\ UNCHANGED list_vars /\ UNCHANGED space_vars
          /\ UNCHANGED alu_vars /\ UNCHANGED port_vars
    BY DEF Only
  <2> QED
    BY <2>1, <2>2, <2>3, <2>4, <2>5, <2>6, <2>7, Zenon DEF S51Next
<1> QED
  BY <1>1, <1>2, PTL DEF S51Spec, Spec, ListSpec, SpaceSpec, AluSpec, PortsSpec, T2Spec

(* Every variable of every part stays in its range.                         *)
THEOREM S51TypeCorrect == S51Spec => []S51TypeOK
<1>1. AluInv => AluTypeOK
  BY DEF AluInv, AluTypeOK, AluStates, Calcs
<1>2. T2Inv => T2TypeOK
  BY DEF T2Inv
<1> QED
  BY EveryPartRuns, TypeCorrect, SpaceTypeCorrect, AluInvAlways, <1>1, PortTypeAlways, T2InvAlways,
     <1>2, PTL DEF S51TypeOK

================================================================================
