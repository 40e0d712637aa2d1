------------------------------ MODULE S51AluProof ------------------------------
(***************************************************************************)
(* What holds of S51Alu for numbers of any length and any operands.  The    *)
(* inductive invariant AluInv says of the bytes done so far what the result *)
(* will be: they and the carry make an exact result of the lower bytes of   *)
(* the numbers.  There is a lemma for the registers that each instruction   *)
(* leaves, one for what it adds at the next place, and one for each step.   *)
(***************************************************************************)
EXTENDS S51Alu, FiniteSetTheorems, TLAPS

AluStates == [A : 0..255, B : 0..255, CY : BOOLEAN, AC : BOOLEAN, OV : BOOLEAN, P : BOOLEAN]

(* What an instruction leaves: a state whose P is ACC's parity.             *)
Left(s) == s \in AluStates /\ s.P = Parity(s.A)

(* The carry as a number.                                                   *)
LEMMA BitType == \A c \in BOOLEAN : Bit(c) \in 0..1 /\ (Bit(c) = 1 <=> c) /\ (Bit(c) = 0 <=> ~c)
BY DEF Bit

(* P is a bit.                                                              *)
LEMMA ParityType == \A a : Parity(a) \in BOOLEAN
BY DEF Parity

(* What each instruction leaves in the registers, in numbers: MOV A         *)
(* first.                                                                   *)
LEMMA AccFields ==
  ASSUME NEW s \in AluStates, NEW a \in Int
  PROVE  /\ Left(Acc(s, a)) /\ Acc(s, a).A = a % 256
         /\ Acc(s, a).CY = s.CY /\ Acc(s, a).OV = s.OV /\ Acc(s, a).AC = s.AC /\ Acc(s, a).B = s.B
<1> DEFINE r == a % 256
<1>1. r \in 0..255
  OBVIOUS
<1>2. Parity(r) \in BOOLEAN
  BY ParityType
<1>3. Acc(s, a) = [s EXCEPT !.A = r, !.P = Parity(r)]
  BY DEF Acc
<1> HIDE DEF r
<1>4. /\ Acc(s, a).A = r /\ Acc(s, a).P = Parity(r) /\ Acc(s, a) \in AluStates
      /\ Acc(s, a).CY = s.CY /\ Acc(s, a).OV = s.OV /\ Acc(s, a).AC = s.AC /\ Acc(s, a).B = s.B
  BY <1>1, <1>2, <1>3 DEF AluStates
<1> QED
  BY <1>4 DEF Left, r

(* ACC, CY, AC and OV of ADD and ADDC.                                      *)
AddA(x, y, c) == (x + y + c) % 256
AddCY(x, y, c) == x + y + c > 255
AddAC(x, y, c) == (x % 16) + (y % 16) + c > 15
AddOV(x, y, c) == (x + y + c > 255) # ((x % 128) + (y % 128) + c > 127)

(* ADD and ADDC.                                                            *)
LEMMA AddFields ==
  ASSUME NEW s \in AluStates, NEW y \in 0..255, NEW c \in 0..1
  PROVE  /\ Left(Add(s, y, c))
         /\ Add(s, y, c).A = AddA(s.A, y, c)
         /\ Add(s, y, c).CY = AddCY(s.A, y, c)
         /\ Add(s, y, c).AC = AddAC(s.A, y, c)
         /\ Add(s, y, c).OV = AddOV(s.A, y, c)
         /\ Add(s, y, c).B = s.B
<1> DEFINE a == Acc(s, s.A + y + c)
<1>1. s.A + y + c \in Int /\ s.A \in 0..255
  BY DEF AluStates
<1>2. Left(a) /\ a.A = AddA(s.A, y, c) /\ a.B = s.B
  BY <1>1, AccFields DEF AddA
<1> DEFINE cy == AddCY(s.A, y, c)
           ac == AddAC(s.A, y, c)
           ov == AddOV(s.A, y, c)
<1>6. cy \in BOOLEAN /\ ac \in BOOLEAN /\ ov \in BOOLEAN
  BY DEF AddCY, AddAC, AddOV
<1>3. Add(s, y, c) = [a EXCEPT !.CY = cy, !.AC = ac, !.OV = ov]
  BY DEF Add, AddCY, AddAC, AddOV
<1> HIDE DEF a, cy, ac, ov
<1>4. a \in AluStates
  BY <1>2 DEF Left
<1>5. Add(s, y, c) \in AluStates
  BY <1>3, <1>4, <1>6 DEF AluStates
<1>7. /\ Add(s, y, c).P = a.P /\ Add(s, y, c).A = a.A /\ Add(s, y, c).B = a.B
      /\ Add(s, y, c).CY = cy /\ Add(s, y, c).AC = ac /\ Add(s, y, c).OV = ov
  BY <1>3, <1>4 DEF AluStates
<1> QED
  BY <1>2, <1>5, <1>7 DEF Left, cy, ac, ov

(* ACC and CY of SUBB; OV of what is subtracted from what, and the result.  *)
SubbA(x, y, c) == (x + 512 - y - c) % 256
SubbCY(x, y, c) == x < y + c
SubbOV(x, y, r) ==
  \/ x < 128 /\ y > 127 /\ r > 127
  \/ x > 127 /\ y < 128 /\ r < 128

(* SUBB.                                                                    *)
LEMMA SubbFields ==
  ASSUME NEW s \in AluStates, NEW y \in 0..255
  PROVE  /\ Left(Subb(s, y))
         /\ Subb(s, y).A = SubbA(s.A, y, Bit(s.CY))
         /\ Subb(s, y).CY = SubbCY(s.A, y, Bit(s.CY))
         /\ Subb(s, y).OV = SubbOV(s.A, y, Subb(s, y).A)
         /\ Subb(s, y).B = s.B
<1> DEFINE c == Bit(s.CY)
           r == SubbA(s.A, y, c)
           a == Acc(s, r)
           ac == (s.A % 16 < (y + c) % 16) \/ (c = 1 /\ y % 16 = 15)
           ov == SubbOV(s.A, y, r)
           cy == SubbCY(s.A, y, c)
<1>1. c \in 0..1 /\ s.A \in 0..255
  BY BitType DEF AluStates
<1>8. ac \in BOOLEAN /\ ov \in BOOLEAN /\ cy \in BOOLEAN
  BY DEF SubbOV, SubbCY
<1>2. r \in 0..255
  <2> HIDE DEF c
  <2>1. c \in Int /\ s.A \in Int
    BY <1>1
  <2>2. s.A + 512 - y - c \in Int
    BY <2>1
  <2> QED
    BY <2>2 DEF SubbA
<1>3. Left(a) /\ a.A = r /\ a.B = s.B
  <2> HIDE DEF r
  <2>1. r % 256 = r
    BY <1>2
  <2> QED
    BY <2>1, <1>2, AccFields
<1>4. Subb(s, y) = [a EXCEPT !.CY = cy, !.OV = ov, !.AC = ac]
  BY DEF Subb, SubbA, SubbCY, SubbOV
<1> HIDE DEF a, r, ac, ov, c, cy
<1>5. a \in AluStates
  BY <1>3 DEF Left
<1>6. Subb(s, y) \in AluStates
  BY <1>4, <1>5, <1>8 DEF AluStates
<1>7. /\ Subb(s, y).P = a.P /\ Subb(s, y).A = r /\ Subb(s, y).CY = cy /\ Subb(s, y).OV = ov
      /\ Subb(s, y).B = s.B
  BY <1>3, <1>4, <1>5 DEF AluStates
<1>9. Left(Subb(s, y)) /\ (Subb(s, y).OV = SubbOV(s.A, y, Subb(s, y).A))
  BY <1>3, <1>6, <1>7 DEF Left, ov
<1> QED
  BY <1>7, <1>9 DEF r, c, cy

(* DA.                                                                      *)
LEMMA DaFields ==
  ASSUME NEW s \in AluStates
  PROVE  LET a == IF s.A % 16 > 9 \/ s.AC THEN s.A + 6 ELSE s.A
             cy == s.CY \/ a > 255
             b == IF (a % 256) \div 16 > 9 \/ cy THEN (a % 256) + 96 ELSE a
         IN Left(Da(s)) /\ Da(s).A = b % 256 /\ Da(s).CY = (cy \/ b > 255)
<1> DEFINE a == IF s.A % 16 > 9 \/ s.AC THEN s.A + 6 ELSE s.A
           cy == s.CY \/ a > 255
           b == IF (a % 256) \div 16 > 9 \/ cy THEN (a % 256) + 96 ELSE a
           w == Acc(s, b)
           out == cy \/ b > 255
<1>1. s.A \in 0..255 /\ s.CY \in BOOLEAN
  BY DEF AluStates
<1>2. a \in Nat
  BY <1>1
<1>3. b \in Nat
  BY <1>2
<1>4. out \in BOOLEAN
  OBVIOUS
<1>5. Left(w) /\ w.A = b % 256
  BY <1>3, AccFields
<1>6. Da(s) = [w EXCEPT !.CY = out]
  BY DEF Da
<1> HIDE DEF w, a, b, cy, out
<1>8. Da(s) \in AluStates /\ Da(s).P = w.P /\ Da(s).A = w.A /\ Da(s).CY = out
  BY <1>4, <1>5, <1>6 DEF Left, AluStates
<1> QED
  BY <1>5, <1>8 DEF Left, a, b, cy, out

(* A product of two bytes has two bytes.                                    *)
LEMMA ProductRange ==
  ASSUME NEW x \in 0..255, NEW y \in 0..255
  PROVE  x * y \in Nat /\ x * y <= 65025
<1>1. x * y \in Nat
  OBVIOUS
<1>2. x * y <= 255 * y
  BY Z3
<1>3. 255 * y <= 65025
  OBVIOUS
<1> QED
  BY <1>1, <1>2, <1>3

(* ACC and B of MUL.                                                        *)
MulA(x, y) == (x * y) % 256
MulB(x, y) == (x * y) \div 256

(* MUL.                                                                     *)
LEMMA MulFields ==
  ASSUME NEW s \in AluStates
  PROVE  /\ Left(Mul(s)) /\ Mul(s).A = MulA(s.A, s.B) /\ Mul(s).B = MulB(s.A, s.B)
         /\ Mul(s).CY = FALSE
<1>1. s.A \in 0..255 /\ s.B \in 0..255
  BY DEF AluStates
<1> DEFINE ab == s.A * s.B
           a == Acc(s, ab)
           h == ab \div 256
           ov == ab > 255
<1>2. ab \in Int /\ h \in 0..255
  <2> DEFINE x == s.A
             y == s.B
  <2>1. x \in 0..255 /\ y \in 0..255
    BY <1>1
  <2>2. ab = x * y
    OBVIOUS
  <2> HIDE DEF x, y
  <2>3. x * y \in Nat /\ x * y <= 65025
    BY <2>1, ProductRange
  <2> HIDE DEF ab
  <2>4. ab \in Nat /\ ab <= 65025
    BY <2>2, <2>3
  <2> QED
    BY <2>4
<1>3. ov \in BOOLEAN
  OBVIOUS
<1>4. Mul(s) = [a EXCEPT !.B = h, !.OV = ov, !.CY = FALSE]
  BY DEF Mul
<1> HIDE DEF ab
<1>5. Left(a) /\ a.A = ab % 256
  BY <1>2, AccFields
<1>6. a \in AluStates
  BY <1>5 DEF Left
<1> HIDE DEF a, h, ov
<1>7. Mul(s) \in AluStates
  BY <1>2, <1>3, <1>4, <1>6 DEF AluStates
<1>8. Mul(s).P = a.P /\ Mul(s).A = a.A /\ Mul(s).B = h /\ Mul(s).CY = FALSE
  BY <1>4, <1>6 DEF AluStates
<1> QED
  BY <1>5, <1>7, <1>8 DEF Left, MulA, MulB, ab, h

(* DIV by what is not 0.                                                    *)
LEMMA DivFields ==
  ASSUME NEW s \in AluStates
  PROVE  /\ Left(Div(s))
         /\ s.B # 0 => Div(s).A = (s.A \div s.B) % 256 /\ Div(s).B = s.A % s.B
<1>1. s.A \in 0..255 /\ s.B \in 0..255
  BY DEF AluStates
<1>2. CASE s.B = 0
  <2> DEFINE a == Acc(s, s.A)
  <2>1. Left(a)
    <3>1. s.A \in Int
      BY <1>1
    <3> QED
      BY <3>1, AccFields, Zenon
  <2>2. Div(s) = [a EXCEPT !.OV = TRUE, !.CY = FALSE]
    BY <1>2 DEF Div
  <2> HIDE DEF a
  <2>3. Div(s) \in AluStates /\ Div(s).P = a.P /\ Div(s).A = a.A
    BY <2>1, <2>2 DEF Left, AluStates
  <2> QED
    BY <1>2, <2>1, <2>3 DEF Left
<1>3. CASE s.B # 0
  <2> DEFINE q == s.A \div s.B
             m == s.A % s.B
             a == Acc(s, q)
  <2>1. q \in Int /\ m \in 0..(s.B - 1)
    <3>1. \A x \in Nat, d \in Nat \ {0} : x \div d \in Int /\ x % d \in 0..(d - 1)
      OBVIOUS
    <3>2. s.A \in Nat /\ s.B \in Nat \ {0}
      BY <1>1, <1>3
    <3> QED
      BY <3>1, <3>2
  <2>2. m \in 0..255
    <3> HIDE DEF m
    <3> QED
      BY <1>1, <2>1
  <2>3. Left(a) /\ a.A = q % 256
    BY <2>1, AccFields
  <2>4. Div(s) = [a EXCEPT !.B = m, !.OV = FALSE, !.CY = FALSE]
    BY <1>3 DEF Div
  <2> HIDE DEF a, m
  <2>5. a \in AluStates
    BY <2>3 DEF Left
  <2>6. Div(s) \in AluStates
    BY <2>2, <2>4, <2>5 DEF AluStates
  <2>7. Div(s).P = a.P /\ Div(s).A = a.A /\ Div(s).B = m
    BY <2>4, <2>5 DEF AluStates
  <2> QED
    BY <2>3, <2>6, <2>7 DEF Left, m
<1> QED
  BY <1>2, <1>3

(* RRC and RLC.                                                             *)
LEMMA RotateFields ==
  ASSUME NEW s \in AluStates
  PROVE  /\ Left(Rrc(s)) /\ Left(Rlc(s))
         /\ Rrc(s).A = (s.A \div 2) + 128 * Bit(s.CY) /\ Rrc(s).CY = (s.A % 2 = 1)
         /\ Rlc(s).A = (2 * s.A + Bit(s.CY)) % 256 /\ Rlc(s).CY = (s.A > 127)
<1>1. s.A \in 0..255 /\ Bit(s.CY) \in 0..1
  BY BitType DEF AluStates
<1> DEFINE l == 2 * s.A + Bit(s.CY)
           r == (s.A \div 2) + 128 * Bit(s.CY)
           al == Acc(s, l)
           ar == Acc(s, r)
<1>2. l \in Nat /\ r \in 0..255
  BY <1>1
<1>3. r % 256 = r
  BY <1>2
<1>4. Left(al) /\ al.A = l % 256 /\ Left(ar) /\ ar.A = r
  <2>1. l \in Int /\ r \in Int
    BY <1>2
  <2> HIDE DEF l, r
  <2> QED
    BY <1>3, <2>1, AccFields
<1> DEFINE cl == s.A > 127
           cr == s.A % 2 = 1
<1>5. Rlc(s) = [al EXCEPT !.CY = cl] /\ Rrc(s) = [ar EXCEPT !.CY = cr]
  BY DEF Rlc, Rrc
<1>8. cl \in BOOLEAN /\ cr \in BOOLEAN
  OBVIOUS
<1> HIDE DEF al, ar, cl, cr
<1>6. al \in AluStates /\ ar \in AluStates
  BY <1>4 DEF Left
<1>7. /\ Rlc(s) \in AluStates /\ Rlc(s).P = al.P /\ Rlc(s).A = al.A /\ Rlc(s).CY = cl
      /\ Rrc(s) \in AluStates /\ Rrc(s).P = ar.P /\ Rrc(s).A = ar.A /\ Rrc(s).CY = cr
  BY <1>5, <1>6, <1>8 DEF AluStates
<1> QED
  BY <1>4, <1>7 DEF Left, cl, cr

(* SWAP.                                                                    *)
LEMMA SwapFields ==
  ASSUME NEW s \in AluStates
  PROVE  Left(Swap(s)) /\ Swap(s).A = (16 * s.A + (s.A \div 16)) % 256 /\ Swap(s).B = s.B
<1>1. 16 * s.A + (s.A \div 16) \in Int
  BY DEF AluStates
<1> QED
  BY <1>1, AccFields DEF Swap

(* The top byte of a number as a signed one.                                *)
Top8(x) == IF x > 127 THEN x - 256 ELSE x

(* A byte put in front of the bytes that are done.                          *)
LEMMA ByteAtPlace ==
  ASSUME NEW p \in Nat \ {0}, NEW w \in 0..(p - 1), NEW x \in 0..255
  PROVE  w + x * p \in 0..(256 * p - 1)
<1>1. x * p \in Nat /\ x * p <= 255 * p
  <2>1. x * p \in Nat
    OBVIOUS
  <2>2. x * p <= 255 * p
    BY Z3
  <2> QED
    BY <2>1, <2>2
<1> DEFINE q == x * p
<1> HIDE DEF q
<1>2. q \in Nat /\ q <= 255 * p
  BY <1>1 DEF q
<1>3. w + q \in 0..(256 * p - 1)
  BY <1>2
<1> QED
  BY <1>3 DEF q

(* One byte more of a sum, of a decimal sum and of a difference.            *)
SumGrows(p, X, Y, r, c, d, x, y, a) ==
  X + Y = r + c * p /\ x + y + c = a + 256 * d =>
    (X + x * p) + (Y + y * p) = (r + a * p) + d * (256 * p)
DecimalGrows(p, X, Y, r, c, d, x, y, a) ==
  X + Y = r + c * p /\ x + y + c = a + 100 * d =>
    (X + x * p) + (Y + y * p) = (r + a * p) + d * (100 * p)
DifferenceGrows(p, X, Y, r, c, d, x, y, a) ==
  X - Y = r - c * p /\ x - y - c = a - 256 * d =>
    (X + x * p) - (Y + y * p) = (r + a * p) - d * (256 * p)

(* Numbers whose lower bytes add up still do with one byte more each,       *)
(* when those bytes add up with the carries; the same for decimal sums      *)
(* and for differences.                                                     *)
LEMMA SumsAtPlace ==
  ASSUME NEW p \in Int, NEW X \in Int, NEW Y \in Int, NEW r \in Int, NEW c \in Int, NEW d \in Int,
         NEW x \in Int, NEW y \in Int, NEW a \in Int
  PROVE  /\ SumGrows(p, X, Y, r, c, d, x, y, a)
         /\ DecimalGrows(p, X, Y, r, c, d, x, y, a)
         /\ DifferenceGrows(p, X, Y, r, c, d, x, y, a)
<1>1. ASSUME X + Y = r + c * p, x + y + c = a + 256 * d
      PROVE  (X + x * p) + (Y + y * p) = (r + a * p) + d * (256 * p)
  <2>1. a = x + y + c - 256 * d
    BY <1>1
  <2>2. a * p = x * p + y * p + c * p - d * (256 * p)
    BY <2>1
  <2> QED
    BY <1>1, <2>2
<1>2. ASSUME X + Y = r + c * p, x + y + c = a + 100 * d
      PROVE  (X + x * p) + (Y + y * p) = (r + a * p) + d * (100 * p)
  <2>1. a = x + y + c - 100 * d
    BY <1>2
  <2>2. a * p = x * p + y * p + c * p - d * (100 * p)
    BY <2>1
  <2> QED
    BY <1>2, <2>2
<1>3. ASSUME X - Y = r - c * p, x - y - c = a - 256 * d
      PROVE  (X + x * p) - (Y + y * p) = (r + a * p) - d * (256 * p)
  <2>1. a = x - y - c + 256 * d
    BY <1>3
  <2>2. a * p = x * p - y * p - c * p + d * (256 * p)
    BY <2>1
  <2> QED
    BY <1>3, <2>2
<1> QED
  BY <1>1, <1>2, <1>3 DEF SumGrows, DecimalGrows, DifferenceGrows

(* The signed value of a number is that of its highest byte in front of     *)
(* the rest.                                                                *)
LEMMA SignedTop ==
  ASSUME NEW p \in Nat \ {0}, NEW w \in 0..(p - 1), NEW x \in 0..255
  PROVE  (IF 2 * (w + x * p) >= 256 * p THEN (w + x * p) - 256 * p ELSE w + x * p)
            = Top8(x) * p + w
<1>1. CASE x > 127
  <2>1. x * p >= 128 * p
    BY <1>1, Z3
  <2>2. x * p \in Int /\ 2 * (w + x * p) >= 256 * p
    BY <2>1
  <2>3. (x - 256) * p = x * p - 256 * p
    OBVIOUS
  <2> QED
    BY <1>1, <2>2, <2>3 DEF Top8
<1>2. CASE ~ (x > 127)
  <2>1. x * p <= 127 * p
    BY <1>2, Z3
  <2>2. x * p \in Int /\ ~ (2 * (w + x * p) >= 256 * p)
    BY <2>1
  <2> QED
    BY <1>2, <2>2 DEF Top8
<1> QED
  BY <1>1, <1>2

(* Whether it fits depends on the highest byte alone.                       *)
LEMMA SignedRange ==
  ASSUME NEW p \in Nat \ {0}, NEW w \in 0..(p - 1), NEW t \in Int
  PROVE  (-(256 * p) <= 2 * (t * p + w) /\ 2 * (t * p + w) < 256 * p) <=> t \in -128..127
<1>1. CASE t >= -128 /\ t <= 127
  <2>1. t * p >= (-128) * p
    BY <1>1, Z3
  <2>2. t * p <= 127 * p
    BY <1>1, Z3
  <2>3. t * p \in Int
    OBVIOUS
  <2> QED
    BY <1>1, <2>1, <2>2, <2>3
<1>2. CASE t > 127
  <2>1. t * p >= 128 * p
    BY <1>2, Z3
  <2>3. t * p \in Int
    OBVIOUS
  <2> QED
    BY <1>2, <2>1, <2>3
<1>3. CASE t < -128
  <2>1. t * p <= (-129) * p
    BY <1>3, Z3
  <2>3. t * p \in Int
    OBVIOUS
  <2> QED
    BY <1>3, <2>1, <2>3
<1> QED
  BY <1>1, <1>2, <1>3

(* The byte and the carry are what a sum or a difference comes to, and OV   *)
(* whether it is no signed byte.                                            *)
AddsUp(x, y, c, t) == x + y + c = t.A + 256 * Bit(t.CY)
TakesAway(x, y, c, t) == x - y - c = t.A - 256 * Bit(t.CY)
Overflows(n, t) == t.OV <=> ~ (n \in -128..127)

(* ADDC adds bytes exactly, and its OV says whether the signed sum fits.    *)
LEMMA AddExact ==
  ASSUME NEW s \in AluStates, NEW y \in 0..255, NEW c \in 0..1
  PROVE  /\ AddsUp(s.A, y, c, Add(s, y, c))
         /\ Overflows(Top8(s.A) + Top8(y) + c, Add(s, y, c))
<1> DEFINE x == s.A
           t == Add(s, y, c)
<1>1. t.A = (x + y + c) % 256
  BY AddFields DEF AddA
<1>5. t.CY = (x + y + c > 255)
  <2>1. t.CY = AddCY(x, y, c)
    BY AddFields
  <2> QED
    BY <2>1 DEF AddCY
<1>6. t.OV = AddOV(x, y, c)
  BY AddFields
<1>7. t.CY \in BOOLEAN /\ t.OV \in BOOLEAN
  <2>1. t \in AluStates
    BY AddFields DEF Left
  <2> HIDE DEF t
  <2> QED
    BY <2>1 DEF AluStates
<1>2. x \in 0..255
  BY DEF AluStates
<1> HIDE DEF x, t
<1>3. x + y + c = t.A + 256 * Bit(t.CY)
  <2> DEFINE q == x + y + c
             m == q % 256
  <2>3. q \in 0..511 /\ t.A = m
    BY <1>1, <1>2
  <2>4. \/ q > 255 /\ m = q - 256
        \/ ~ (q > 255) /\ m = q
    <3> HIDE DEF q
    <3> QED
      BY <2>3
  <2> HIDE DEF m
  <2>1. CASE q > 255
    <3>1. t.CY = TRUE
      BY <1>5, <1>7, <2>1
    <3> QED
      BY <2>3, <2>4, <2>1, <3>1 DEF Bit
  <2>2. CASE ~ (q > 255)
    <3>1. t.CY = FALSE
      BY <1>5, <1>7, <2>2
    <3> QED
      BY <2>3, <2>4, <2>2, <3>1 DEF Bit
  <2> QED
    BY <2>1, <2>2
<1>4. t.OV <=> ~ (Top8(x) + Top8(y) + c \in -128..127)
  <2>1. x % 128 = (IF x > 127 THEN x - 128 ELSE x) /\ y % 128 = (IF y > 127 THEN y - 128 ELSE y)
    BY <1>2
  <2>2. AddOV(x, y, c) <=> ~ (Top8(x) + Top8(y) + c \in -128..127)
    BY <1>2, <2>1 DEF Top8, AddOV
  <2> QED
    BY <1>6, <2>2
<1> QED
  BY <1>3, <1>4 DEF x, t, AddsUp, Overflows

(* SUBB takes away exactly, and its OV says whether the difference fits.    *)
LEMMA SubbExact ==
  ASSUME NEW s \in AluStates, NEW y \in 0..255
  PROVE  /\ TakesAway(s.A, y, Bit(s.CY), Subb(s, y))
         /\ Overflows(Top8(s.A) - Top8(y) - Bit(s.CY), Subb(s, y))
<1> DEFINE x == s.A
           c == Bit(s.CY)
           t == Subb(s, y)
<1>1. t.A = (x + 512 - y - c) % 256
  <2>1. t.A = SubbA(x, y, c)
    BY SubbFields
  <2> QED
    BY <2>1 DEF SubbA
<1>5. t.CY = (x < y + c)
  BY SubbFields DEF SubbCY
<1>6. t.OV = SubbOV(x, y, t.A)
  BY SubbFields
<1>7. t.CY \in BOOLEAN /\ t.OV \in BOOLEAN /\ t.A \in 0..255
  <2>1. t \in AluStates
    BY SubbFields DEF Left
  <2> HIDE DEF t
  <2> QED
    BY <2>1 DEF AluStates
<1>2. x \in 0..255 /\ c \in 0..1 /\ t.A \in 0..255
  BY <1>7, BitType DEF AluStates
<1> HIDE DEF x, c, t
<1>3. x - y - c = t.A - 256 * Bit(t.CY)
  <2> DEFINE q == x + 512 - y - c
             m == q % 256
  <2>3. q \in 256..767 /\ t.A = m
    BY <1>1, <1>2
  <2>4. \/ q > 511 /\ m = q - 512
        \/ ~ (q > 511) /\ m = q - 256
    <3> HIDE DEF q
    <3> QED
      BY <2>3
  <2> HIDE DEF m
  <2>1. CASE x < y + c
    <3>1. t.CY = TRUE
      BY <1>5, <1>7, <2>1
    <3> QED
      BY <1>2, <2>3, <2>4, <2>1, <3>1 DEF Bit
  <2>2. CASE ~ (x < y + c)
    <3>1. t.CY = FALSE
      BY <1>5, <1>7, <2>2
    <3> QED
      BY <1>2, <2>3, <2>4, <2>2, <3>1 DEF Bit
  <2> QED
    BY <2>1, <2>2
<1>4. t.OV <=> ~ (Top8(x) - Top8(y) - c \in -128..127)
  <2> DEFINE r == t.A
             b == Bit(t.CY)
             v == Top8(x) - Top8(y) - c
  <2>1. x - y - c = r - 256 * b /\ r \in 0..255 /\ b \in 0..1
    BY <1>2, <1>3, <1>7, BitType
  <2>2. t.OV = SubbOV(x, y, r)
    BY <1>6
  <2> HIDE DEF r, b
  <2>3. CASE x > 127 <=> y > 127
    <3>1. v = x - y - c
      BY <1>2, <2>3 DEF Top8
    <3>2. v \in -128..127
      BY <1>2, <2>3, <3>1
    <3>3. ~ SubbOV(x, y, r)
      BY <1>2, <2>3 DEF SubbOV
    <3> QED
      BY <2>2, <3>2, <3>3
  <2>4. CASE x > 127 /\ ~ (y > 127)
    <3>1. v = r - 256 * b - 256
      BY <1>2, <2>1, <2>4 DEF Top8
    <3>2. b = 0
      BY <1>2, <2>1, <2>4
    <3>3. v \in -128..127 <=> ~ (r < 128)
      BY <2>1, <3>1, <3>2
    <3>4. SubbOV(x, y, r) <=> r < 128
      BY <1>2, <2>4 DEF SubbOV
    <3> QED
      BY <2>2, <3>3, <3>4
  <2>5. CASE ~ (x > 127) /\ y > 127
    <3>1. v = r - 256 * b + 256
      BY <1>2, <2>1, <2>5 DEF Top8
    <3>2. b = 1
      BY <1>2, <2>1, <2>5
    <3>3. v \in -128..127 <=> ~ (r > 127)
      BY <2>1, <3>1, <3>2
    <3>4. SubbOV(x, y, r) <=> r > 127
      BY <1>2, <2>5 DEF SubbOV
    <3> QED
      BY <2>2, <3>3, <3>4
  <2> QED
    BY <2>3, <2>4, <2>5
<1> QED
  BY <1>3, <1>4 DEF x, c, t, TakesAway, Overflows

(* The digits of a byte.                                                    *)
AreDigits(q, d, e) == q \div 16 = d /\ q % 16 = e

LEMMA TwoDigits ==
  ASSUME NEW d \in 0..15, NEW e \in 0..15, NEW q, q = 16 * d + e
  PROVE  q \in 0..255 /\ AreDigits(q, d, e)
<1>1. q \in 0..255
  OBVIOUS
<1>2. q \div 16 = d /\ q % 16 = e /\ q = 16 * (q \div 16) + (q % 16)
  OBVIOUS
<1> QED
  BY <1>1, <1>2 DEF AreDigits

(* DA after ADDC of two decimal bytes: the decimal sum, with its carry.     *)
LEMMA DecimalAdjust ==
  ASSUME NEW s \in AluStates, NEW y \in 0..255, NEW c \in 0..1, IsDecimal(s.A), IsDecimal(y)
  PROVE  LET t == Da(Add(s, y, c))
         IN /\ Left(t) /\ IsDecimal(t.A)
            /\ InDecimal(s.A) + InDecimal(y) + c = InDecimal(t.A) + 100 * Bit(t.CY)
<1> DEFINE x == s.A
           u == Add(s, y, c)
           t == Da(u)
           xl == x % 16
           xh == x \div 16
           yl == y % 16
           yh == y \div 16
           h == xh + yh
           l == xl + yl + c
<1>1. x \in 0..255 /\ u \in AluStates /\ u.A \in 0..255 /\ u.CY \in BOOLEAN /\ u.AC \in BOOLEAN
  <2>1. u \in AluStates
    BY AddFields DEF Left
  <2> HIDE DEF u
  <2> QED
    BY <2>1 DEF AluStates
<1>2. u.AC = (l > 15)
  BY AddFields DEF AddAC
<1>3. x + y + c = u.A + 256 * Bit(u.CY)
  <2>1. AddsUp(x, y, c, u)
    BY AddExact
  <2> QED
    BY <2>1 DEF AddsUp
<1>4. /\ xl \in 0..9 /\ xh \in 0..9 /\ x = 16 * xh + xl
      /\ yl \in 0..9 /\ yh \in 0..9 /\ y = 16 * yh + yl
  BY <1>1 DEF IsDecimal
<1>5. InDecimal(x) = 10 * xh + xl /\ InDecimal(y) = 10 * yh + yl
  BY DEF InDecimal
<1> DEFINE low == u.A % 16 > 9 \/ u.AC
           a == IF low THEN u.A + 6 ELSE u.A
           cy == u.CY \/ a > 255
           high == (a % 256) \div 16 > 9 \/ cy
           b == IF high THEN (a % 256) + 96 ELSE a
<1>6. Left(t)
  BY <1>1, DaFields
<1>7. t.A = b % 256
  BY <1>1, DaFields
<1>8. t.CY = (cy \/ b > 255)
  BY <1>1, DaFields
<1>9. t.CY \in BOOLEAN
  BY <1>6 DEF Left, AluStates
<1> DEFINE uc == Bit(u.CY)
<1>10. uc \in 0..1 /\ (uc = 1 <=> u.CY)
  BY <1>1, BitType
<1> HIDE DEF x, xl, xh, yl, yh, uc
<1>11. h \in 0..18 /\ l \in 0..19 /\ u.A = 16 * h + l - 256 * uc
  BY <1>1, <1>3, <1>4, <1>10 DEF uc
<1> DEFINE A1 == u.A
<1>12. A1 \in 0..255 /\ A1 = 16 * h + l - 256 * uc
  BY <1>1, <1>11
<1> HIDE DEF h, l, u, A1
<1>13. A1 % 16 = IF l > 15 THEN l - 16 ELSE l
  <2> DEFINE m == A1 % 16
             d == A1 \div 16
  <2>1. A1 = 16 * d + m /\ m \in 0..15 /\ d \in 0..15
    BY <1>12
  <2> HIDE DEF m, d
  <2>2. 16 * d + m = 16 * h + l - 256 * uc
    BY <1>12, <2>1
  <2>3. m - l = 16 * (h - 16 * uc - d)
    BY <2>1, <2>2, <1>11, <1>10
  <2>4. m = IF l > 15 THEN l - 16 ELSE l
    BY <2>1, <2>3, <1>11, <1>10
  <2> QED
    BY <2>4 DEF m
<1>14. low <=> l > 9
  <2>1. (A1 % 16 > 9 \/ l > 15) <=> l > 9
    BY <1>11, <1>13
  <2>2. u.AC <=> l > 15
    BY <1>1, <1>2
  <2> QED
    BY <2>1, <2>2 DEF A1
<1> HIDE DEF low
<1> DEFINE k == IF l > 9 THEN 1 ELSE 0
           hh == h + k
           ll == l - 10 * k
           n == 16 * hh + ll
<1>15. k \in 0..1 /\ hh \in 0..19 /\ ll \in 0..9 /\ n \in 0..313
  BY <1>11
<1>16. 10 * h + l = 10 * hh + ll
  BY <1>11
<1>17. a = n - 256 * uc /\ a \in 0..261
  <2>1. a = IF low THEN A1 + 6 ELSE A1
    BY DEF A1
  <2> HIDE DEF a
  <2>2. CASE l > 9
    <3>1. n = 16 * h + l + 6 /\ a = A1 + 6
      BY <2>1, <2>2, <1>14, <1>11
    <3> HIDE DEF n
    <3> QED
      BY <3>1, <1>10, <1>11, <1>12
  <2>3. CASE ~ (l > 9)
    <3>1. n = 16 * h + l /\ a = A1
      BY <2>1, <2>3, <1>14, <1>11
    <3> HIDE DEF n
    <3> QED
      BY <3>1, <1>10, <1>11, <1>12
  <2> QED
    BY <2>2, <2>3
<1>18. cy <=> n > 255
  BY <1>10, <1>11, <1>12, <1>17
<1> HIDE DEF a, cy, k, hh, ll
<1>19. a \in Int /\ a % 256 = n - 256 * (IF n > 255 THEN 1 ELSE 0)
  <2> HIDE DEF n
  <2>1. a \in 0..313 /\ (a = n \/ a = n - 256)
    BY <1>10, <1>15, <1>17
  <2>2. a % 256 = IF a > 255 THEN a - 256 ELSE a
    BY <2>1
  <2> QED
    BY <2>1, <2>2, <1>15
<1>20. hh > 15 <=> n > 255
  BY <1>15
<1>21. (a % 256) \div 16 = hh - 16 * (IF n > 255 THEN 1 ELSE 0)
  <2> DEFINE q == a % 256
             d == hh - 16 * (IF n > 255 THEN 1 ELSE 0)
  <2>1. d \in 0..15 /\ ll \in 0..15 /\ q = 16 * d + ll
    BY <1>15, <1>19, <1>20
  <2> HIDE DEF q, d
  <2>2. q \div 16 = d
    BY <2>1
  <2> QED
    BY <2>2 DEF q, d
<1>22. high <=> hh > 9
  BY <1>15, <1>18, <1>20, <1>21
<1>23. CASE hh > 9
  <2>1. b = n - 256 * (IF n > 255 THEN 1 ELSE 0) + 96
    BY <1>19, <1>22, <1>23
  <2> DEFINE e == n - 160
  <2>2. e = 16 * (hh - 10) + ll /\ hh - 10 \in 0..9
    BY <1>15, <1>23
  <2>3. b % 256 = e
    <3> HIDE DEF b
    <3>1. b = e \/ b = e + 256
      BY <2>1, <1>15
    <3>2. e \in 0..255
      BY <2>2, <1>15
    <3> HIDE DEF e
    <3> QED
      BY <3>1, <3>2
  <2>4. b > 255 \/ n > 255
    BY <2>1, <1>15, <1>23
  <2>5. t.CY = TRUE
    BY <1>8, <1>9, <1>18, <2>4
  <2>6. e \div 16 = hh - 10 /\ e % 16 = ll
    <3> HIDE DEF e
    <3> QED
      BY <2>2, <1>15
  <2>7. t.A = e
    BY <1>7, <2>3
  <2> HIDE DEF t, e, n
  <2>8. IsDecimal(t.A) /\ InDecimal(t.A) = 10 * (hh - 10) + ll
    BY <2>2, <2>6, <2>7, <1>15 DEF IsDecimal, InDecimal
  <2>9. 10 * h + l = InDecimal(t.A) + 100 * Bit(t.CY)
    BY <2>5, <2>8, <1>15, <1>16 DEF Bit
  <2> QED
    BY <1>4, <1>5, <1>6, <2>8, <2>9 DEF x, t, u, h, l
<1>24. CASE ~ (hh > 9)
  <2>1. b = a /\ n < 256 /\ a = n
    <3>1. n < 160
      BY <1>15, <1>24
    <3>2. uc = 0
      BY <1>10, <1>15, <1>17, <1>12, <3>1, <1>11 DEF k, hh, ll
    <3> QED
      BY <1>15, <1>17, <1>22, <1>24, <3>1, <3>2
  <2>2. b % 256 = n
    <3> HIDE DEF n, b
    <3> QED
      BY <2>1, <1>15
  <2>5. t.CY = FALSE
    <3>1. ~ cy /\ ~ (b > 255)
      BY <1>15, <1>18, <2>1
    <3> QED
      BY <1>8, <1>9, <3>1
  <2>6. n \div 16 = hh /\ n % 16 = ll
    BY <1>15, <1>24
  <2>7. t.A = n
    BY <1>7, <2>2
  <2> HIDE DEF t, n
  <2>8. IsDecimal(t.A) /\ InDecimal(t.A) = 10 * hh + ll
    BY <2>6, <2>7, <1>15, <1>24 DEF IsDecimal, InDecimal
  <2>9. 10 * h + l = InDecimal(t.A) + 100 * Bit(t.CY)
    BY <2>5, <2>8, <1>15, <1>16 DEF Bit
  <2> QED
    BY <1>4, <1>5, <1>6, <2>8, <2>9 DEF x, t, u, h, l
<1> QED
  BY <1>15, <1>23, <1>24

CalcKinds ==
  {"none", "sum", "difference", "decimal_sum", "double", "half", "product", "decimal"}

Calcs ==
  [kind : CalcKinds, n : 0..Digits, place : Nat \ {0}, X : Nat, Y : Nat, result : Nat,
   decimal : BOOLEAN, carry : 0..255]

(* The numbers fit into the bytes done, as long as they are numbers of      *)
(* bytes, lowest first.                                                     *)
Fits ==
  calc.kind \in {"none", "sum", "difference", "double"} =>
    /\ calc.X \in 0..(calc.place - 1) /\ calc.Y \in 0..(calc.place - 1)
    /\ calc.result \in 0..(calc.place - 1)

(* The inductive invariant.                                                 *)
AluInv ==
  /\ alu \in AluStates /\ psw_p \in BOOLEAN /\ calc \in Calcs
  /\ calc.n = 0 => calc = NoCalc
  /\ Fits
  /\ NumbersAreExact

(* No calculation is one of them.                                           *)
LEMMA NoCalcYet == NoCalc \in Calcs
BY AluAssumption DEF NoCalc, Calcs, CalcKinds

(* Whatever ends a calculation keeps the invariant, when P is right.        *)
LEMMA GivenUp ==
  ASSUME alu' \in AluStates, psw_p' \in BOOLEAN, ParityOfAcc', calc' = NoCalc
  PROVE  AluInv'
<1>1. calc' \in Calcs
  BY NoCalcYet
<1>2. calc'.kind = "none" /\ calc'.X = 0 /\ calc'.Y = 0 /\ calc'.result = 0 /\ calc'.place = 1
  BY DEF NoCalc
<1>3. Fits'
  BY <1>2 DEF Fits
<1>4. Exact' /\ OverflowIsSigned'
  BY <1>2 DEF Exact, OverflowIsSigned
<1> QED
  BY <1>1, <1>3, <1>4 DEF AluInv, NumbersAreExact

(* What a calculation may meet between two bytes keeps CY and OV.           *)
LEMMA KeptAre ==
  ASSUME alu \in AluStates, NEW y \in 0..255, NEW t \in Kept(y)
  PROVE  Left(t) /\ t.CY = alu.CY /\ t.OV = alu.OV
<1>1. alu.A \in 0..255
  BY DEF AluStates
<1>2. \E a \in Int : t = Acc(alu, a)
  <2>1. CASE t = Acc(alu, y)
    BY <2>1
  <2>2. CASE t = Rr(alu)
    <3>1. (alu.A \div 2) + 128 * (alu.A % 2) \in Int
      BY <1>1
    <3> QED
      BY <2>2, <3>1 DEF Rr
  <2>3. CASE t = Rl(alu)
    <3>1. 2 * alu.A + (alu.A \div 128) \in Int
      BY <1>1
    <3> QED
      BY <2>3, <3>1 DEF Rl
  <2>4. CASE t = Inc(alu) \/ t = Dec(alu) \/ t = Cpl(alu)
    <3>1. alu.A + 1 \in Int /\ alu.A + 255 \in Int /\ 255 - alu.A \in Int
      BY <1>1
    <3> QED
      BY <2>4, <3>1 DEF Inc, Dec, Cpl
  <2>5. CASE t = Xchd(alu, y)
    <3>1. alu.A - (alu.A % 16) + (y % 16) \in Int
      BY <1>1
    <3> QED
      BY <2>5, <3>1 DEF Xchd
  <2>6. CASE t \in {AccBit(alu, i, v) : i \in {0, 7}, v \in BOOLEAN}
    <3>1. PICK i \in {0, 7}, v \in BOOLEAN : t = AccBit(alu, i, v)
      BY <2>6
    <3>2. Weight[i] \in Int
      BY DEF Weight
    <3>3. Bit(BitOf(alu.A, i)) \in 0..1 /\ Bit(v) \in 0..1
      BY DEF Bit
    <3> DEFINE w == Weight[i]
               e == Bit(BitOf(alu.A, i))
               f == Bit(v)
    <3>4. alu.A - (w * e) + (w * f) \in Int
      <4> HIDE DEF w, e, f
      <4>1. w \in Int /\ e \in Int /\ f \in Int
        BY <3>2, <3>3 DEF w, e, f
      <4> QED
        BY <1>1, <4>1
    <3> QED
      BY <3>1, <3>4 DEF AccBit
  <2> QED
    BY <2>1, <2>2, <2>3, <2>4, <2>5, <2>6 DEF Kept
<1>3. PICK a \in Int : t = Acc(alu, a)
  BY <1>2
<1> QED
  BY <1>3, AccFields

(* Writes of B, of its bits, and of the operand.                            *)
LEMMA SetType ==
  ASSUME NEW s \in AluStates, NEW y \in 0..255
  PROVE  /\ Set(s, y) \in AluStates /\ Set(s, y).A = s.A /\ Set(s, y).B = y /\ Set(s, y).P = s.P
         /\ Set(s, y).CY = s.CY
BY DEF Set, AluStates

LEMMA UnsetType ==
  ASSUME NEW s \in AluStates
  PROVE  /\ Unset(s) \in AluStates /\ Unset(s).A = s.A /\ Unset(s).P = s.P
         /\ Left(s) => Left(Unset(s))
<1>1. 0 \in 0..255
  OBVIOUS
<1> QED
  BY <1>1, SetType DEF Unset, Left

(* What ends a calculation leaves P as it is, or right.                     *)
LEMMA SpoiltAre ==
  ASSUME alu \in AluStates, NEW y \in 0..255, NEW t \in Spoilt(y)
  PROVE  t \in AluStates /\ (t.P = Parity(t.A) \/ (t.A = alu.A /\ t.P = alu.P))
<1>1. CASE t = Cjne(alu, y)
  <2> DEFINE cy == alu.A < y
  <2>1. cy \in BOOLEAN /\ t = [alu EXCEPT !.CY = cy]
    BY <1>1 DEF Cjne
  <2> HIDE DEF cy
  <2> QED
    BY <2>1 DEF AluStates
<1>2. CASE t # Cjne(alu, y)
  <2>1. Left(Add(alu, y, 0)) /\ Left(Subb(alu, y)) /\ Left(Da(alu)) /\ Left(Rrc(alu))
    <3>1. Left(Add(alu, y, 0))
      <4>1. 0 \in 0..1
        OBVIOUS
      <4> QED
        BY <4>1, AddFields
    <3>2. Left(Subb(alu, y))
      BY SubbFields
    <3>3. Left(Da(alu))
      BY DaFields
    <3>4. Left(Rrc(alu))
      BY RotateFields
    <3> QED
      BY <3>1, <3>2, <3>3, <3>4
  <2>2. Set(alu, y) \in AluStates
    BY SetType
  <2>3. Left(Mul(Set(alu, y))) /\ Left(Div(Set(alu, y)))
    BY <2>2, MulFields, DivFields
  <2>4. Left(Unset(Mul(Set(alu, y)))) /\ Left(Unset(Div(Set(alu, y))))
    BY <2>3, UnsetType DEF Left
  <2>5. Left(t)
    BY <1>2, <2>1, <2>4 DEF Spoilt
  <2> QED
    BY <2>5 DEF Left
<1> QED
  BY <1>1, <1>2

(* Between two bytes.                                                       *)
LEMMA BetweenInv == AluInv /\ Between => AluInv'
<1> SUFFICES ASSUME AluInv, Between PROVE AluInv'
  OBVIOUS
<1>1. PICK y \in Operands : alu' \in Kept(y)
  BY DEF Between
<1>2. y \in 0..255
  BY AluAssumption
<1>3. Left(alu') /\ alu'.CY = alu.CY /\ alu'.OV = alu.OV
  BY <1>1, <1>2, KeptAre DEF AluInv
<1>4. calc' = calc /\ psw_p' = FALSE
  BY DEF Between
<1>5. ParityOfAcc'
  BY <1>3 DEF ParityOfAcc, Left
<1>6. Exact' /\ OverflowIsSigned'
  BY <1>3, <1>4 DEF AluInv, NumbersAreExact, Exact, OverflowIsSigned, IsSigned, Signed
<1> QED
  BY <1>3, <1>4, <1>5, <1>6 DEF AluInv, NumbersAreExact, Fits, Left

(* The parity of an ACC that was cleared.                                   *)
LEMMA NoParity == Parity(0) = FALSE
<1>1. \A i \in 0..7 : ~ BitOf(0, i)
  <2>1. \A w \in {1, 2, 4, 8, 16, 32, 64, 128} : ~ ((0 \div w) % 2 = 1)
    OBVIOUS
  <2>2. \A i \in 0..7 : Weight[i] \in {1, 2, 4, 8, 16, 32, 64, 128}
    BY DEF Weight
  <2> QED
    BY <2>1, <2>2 DEF BitOf
<1>2. {i \in 0..7 : BitOf(0, i)} = {}
  BY <1>1
<1>3. Cardinality({i \in 0..7 : BitOf(0, i)}) = 0
  BY <1>2, FS_EmptySet
<1> QED
  BY <1>3 DEF Parity

(* What ends a calculation: other instructions, writes of the flags, a      *)
(* reset.                                                                   *)
LEMMA OtherInv == AluInv /\ (Other \/ WritePSWFlags \/ AluReset) => AluInv'
<1> SUFFICES ASSUME AluInv, Other \/ WritePSWFlags \/ AluReset PROVE AluInv'
  OBVIOUS
<1>1. CASE Other
  <2>1. PICK y \in Operands : alu' \in Spoilt(y)
    BY <1>1 DEF Other
  <2>2. y \in 0..255
    BY AluAssumption
  <2>3. alu' \in AluStates /\ (alu'.P = Parity(alu'.A) \/ (alu'.A = alu.A /\ alu'.P = alu.P))
    BY <2>1, <2>2, SpoiltAre DEF AluInv
  <2>4. psw_p' = (psw_p /\ alu'.A = alu.A /\ alu'.P = alu.P) /\ calc' = NoCalc
    BY <1>1 DEF Other
  <2>5. ParityOfAcc'
    BY <2>3, <2>4 DEF AluInv, NumbersAreExact, ParityOfAcc
  <2> QED
    BY <2>3, <2>4, <2>5, GivenUp
<1>2. CASE WritePSWFlags
  <2>1. PICK cy, p \in BOOLEAN : alu' = [alu EXCEPT !.CY = cy, !.P = p]
    BY <1>2, Zenon DEF WritePSWFlags
  <2>2. alu' \in AluStates
    BY <2>1 DEF AluInv, AluStates
  <2>3. psw_p' = TRUE /\ calc' = NoCalc
    BY <1>2 DEF WritePSWFlags
  <2> QED
    BY <2>2, <2>3, GivenUp DEF ParityOfAcc
<1>3. CASE AluReset
  <2>1. alu' \in AluStates /\ alu'.A = 0 /\ alu'.P = FALSE
    BY <1>3 DEF AluReset, AluStates
  <2>2. Parity(0) = FALSE
    BY NoParity
  <2>3. psw_p' = FALSE /\ calc' = NoCalc
    BY <1>3 DEF AluReset
  <2>4. ParityOfAcc'
    BY <2>1, <2>2 DEF ParityOfAcc
  <2> QED
    BY <2>1, <2>3, <2>4, GivenUp
<1> QED
  BY <1>1, <1>2, <1>3

(* One byte of a calculation is done.                                       *)
LEMMA Taken ==
  ASSUME calc \in Calcs, calc.n < Digits, NEW kind \in CalcKinds, NEW x \in 0..255,
         NEW y \in 0..255, NEW s, Left(s), Takes2(kind, x, y, s)
  PROVE  /\ calc' \in Calcs /\ calc'.kind = kind /\ calc'.n # 0
         /\ calc'.place = 256 * calc.place
         /\ calc'.X = calc.X + x * calc.place /\ calc'.Y = calc.Y + y * calc.place
         /\ calc'.result = calc.result + s.A * calc.place
         /\ alu' = s /\ psw_p' = FALSE /\ ParityOfAcc'
<1> DEFINE n == calc.n + 1
           place == 256 * calc.place
           X == calc.X + x * calc.place
           Y == calc.Y + y * calc.place
           r == calc.result + s.A * calc.place
<1>1. calc' = [calc EXCEPT !.kind = kind, !.n = n, !.place = place, !.X = X, !.Y = Y, !.result = r]
  BY DEF Takes2
<1>2. n \in 0..Digits /\ n # 0 /\ place \in Nat \ {0}
  BY AluAssumption DEF Calcs
<1>3. X \in Nat /\ Y \in Nat /\ r \in Nat
  <2> DEFINE p == calc.place
             a == s.A
  <2>1. p \in Nat /\ calc.X \in Nat /\ calc.Y \in Nat /\ calc.result \in Nat /\ a \in Nat
    BY DEF Calcs, Left, AluStates
  <2> HIDE DEF p, a
  <2>2. x * p \in Nat /\ y * p \in Nat /\ a * p \in Nat
    BY <2>1
  <2>3. calc.X + x * p \in Nat /\ calc.Y + y * p \in Nat /\ calc.result + a * p \in Nat
    BY <2>1, <2>2
  <2> QED
    BY <2>3 DEF p, a
<1> HIDE DEF n, place, X, Y, r
<1>4. /\ calc' \in Calcs /\ calc'.kind = kind /\ calc'.n = n /\ calc'.place = place
      /\ calc'.X = X /\ calc'.Y = Y /\ calc'.result = r
  BY <1>1, <1>2, <1>3 DEF Calcs
<1>5. alu' = s /\ psw_p' = FALSE
  BY DEF Takes2
<1>6. ParityOfAcc'
  BY <1>5 DEF ParityOfAcc, Left
<1> QED
  BY <1>2, <1>4, <1>5, <1>6 DEF n, place, X, Y, r

(* The carry with which the next byte of a sum or a difference is added.    *)
CarryIn == IF calc.n = 0 THEN 0 ELSE Bit(alu.CY)

(* A calculation that goes on, and one that begins, has the carry that      *)
(* its numbers need.                                                        *)
LEMMA CalculationGoesOn ==
  ASSUME AluInv, NEW kind \in {"sum", "difference", "decimal_sum", "double", "half", "product"},
         Calculates(kind)
  PROVE  /\ calc.n < Digits /\ CarryIn \in 0..1
         /\ kind \in {"sum", "difference", "double"} =>
              /\ calc.X \in 0..(calc.place - 1) /\ calc.Y \in 0..(calc.place - 1)
              /\ calc.result \in 0..(calc.place - 1)
         /\ kind \in {"sum", "double", "decimal_sum"} =>
              calc.X + calc.Y = calc.result + CarryIn * calc.place
         /\ kind = "difference" => calc.X - calc.Y = calc.result - CarryIn * calc.place
         /\ kind = "decimal_sum" => calc.decimal = TRUE
         /\ kind = "half" => calc.X = 2 * calc.result + CarryIn
         /\ kind = "product" => calc.X * calc.Y = calc.result + calc.carry * calc.place
         /\ calc \in Calcs
<1>1. CASE calc.n = 0
  <2>1. calc \in Calcs /\ calc = NoCalc
    BY <1>1 DEF AluInv
  <2>2. /\ calc.X = 0 /\ calc.Y = 0 /\ calc.result = 0 /\ calc.place = 1 /\ calc.carry = 0
        /\ calc.decimal = TRUE
    BY <2>1 DEF NoCalc
  <2>3. calc.n < Digits
    BY <1>1, AluAssumption
  <2>4. CarryIn = 0
    BY <1>1 DEF CarryIn
  <2>5. /\ calc.X * calc.Y = 0 /\ calc.carry * calc.place = 0 /\ CarryIn * calc.place = 0
        /\ CarryIn \in 0..1
    BY <2>2, <2>4
  <2> QED
    BY <2>1, <2>2, <2>3, <2>4, <2>5
<1>2. CASE calc.n # 0
  <2>1. calc.kind = kind /\ calc.n < Digits /\ CarryIn = Bit(alu.CY) /\ calc \in Calcs
    BY <1>2 DEF Calculates, CarryIn, AluInv
  <2>2. CarryIn \in 0..1
    <3>1. Bit(alu.CY) = 0 \/ Bit(alu.CY) = 1
      BY DEF Bit
    <3> QED
      BY <2>1, <3>1
  <2>3. calc.decimal \in BOOLEAN
    BY <2>1 DEF Calcs
  <2> QED
    BY <2>1, <2>2, <2>3 DEF AluInv, Fits, NumbersAreExact, Exact
<1> QED
  BY <1>1, <1>2

(* The next state has the bytes x, y and a above the numbers X, Y and r.    *)
Grown(p, X, Y, r, x, y, a) ==
  /\ calc'.place = 256 * p /\ calc'.X = X + x * p /\ calc'.Y = Y + y * p
  /\ calc'.result = r + a * p

(* The numbers fit into one byte more.                                      *)
LEMMA StillFits ==
  ASSUME NEW p \in Nat \ {0}, NEW X \in 0..(p - 1), NEW Y \in 0..(p - 1), NEW r \in 0..(p - 1),
         NEW x \in 0..255, NEW y \in 0..255, NEW a \in 0..255, Grown(p, X, Y, r, x, y, a)
  PROVE  Fits'
<1>1. X + x * p \in 0..(256 * p - 1)
  BY ByteAtPlace
<1>2. Y + y * p \in 0..(256 * p - 1)
  BY ByteAtPlace
<1>3. r + a * p \in 0..(256 * p - 1)
  BY ByteAtPlace
<1> QED
  BY <1>1, <1>2, <1>3 DEF Fits, Grown

(* One more byte of a sum.                                                  *)
LEMMA SumInv == AluInv /\ Sum => AluInv'
<1> SUFFICES ASSUME AluInv, Sum PROVE AluInv'
  OBVIOUS
<1>1. PICK x, y \in Operands :
        Takes2("sum", x, y, IF calc.n = 0 THEN Add(Acc(alu, x), y, 0) ELSE Addc(Acc(alu, x), y))
  BY DEF Sum
<1>2. x \in 0..255 /\ y \in 0..255
  BY AluAssumption
<1> DEFINE c == CarryIn
           u == Acc(alu, x)
           s == Add(u, y, c)
<1>3. /\ calc.n < Digits /\ c \in 0..1 /\ calc \in Calcs
      /\ calc.X \in 0..(calc.place - 1) /\ calc.Y \in 0..(calc.place - 1)
      /\ calc.result \in 0..(calc.place - 1)
      /\ calc.X + calc.Y = calc.result + c * calc.place
  <2>1. Calculates("sum")
    BY DEF Sum
  <2> QED
    BY <2>1, CalculationGoesOn
<1>4. alu \in AluStates
  BY DEF AluInv
<1>5. u \in AluStates /\ u.A = x /\ u.CY = alu.CY
  <2>1. x % 256 = x
    BY <1>2
  <2>2. x \in Int
    BY <1>2
  <2> QED
    BY <1>4, <2>1, <2>2, AccFields, SMTT(60) DEF Left
<1>6. Takes2("sum", x, y, s)
  BY <1>1, <1>5 DEF Addc, CarryIn
<1> HIDE DEF u, c
<1>7. Left(s)
  BY <1>2, <1>3, <1>5, AddFields
<1>8. AddsUp(x, y, c, s) /\ Overflows(Top8(x) + Top8(y) + c, s)
  BY <1>2, <1>3, <1>5, AddExact
<1> HIDE DEF s
<1>9. "sum" \in CalcKinds
  BY DEF CalcKinds
<1>10. /\ calc' \in Calcs /\ calc'.kind = "sum" /\ calc'.n # 0
       /\ calc'.place = 256 * calc.place
       /\ calc'.X = calc.X + x * calc.place /\ calc'.Y = calc.Y + y * calc.place
       /\ calc'.result = calc.result + s.A * calc.place
       /\ alu' = s /\ psw_p' = FALSE /\ ParityOfAcc'
  BY <1>2, <1>3, <1>6, <1>7, <1>9, Taken
<1>11. s.A \in 0..255 /\ s.CY \in BOOLEAN /\ s.OV \in BOOLEAN /\ s \in AluStates
  BY <1>7 DEF Left, AluStates
<1> DEFINE p == calc.place
           X == calc.X
           Y == calc.Y
           r == calc.result
           a == s.A
           d == Bit(s.CY)
<1>12. p \in Nat \ {0} /\ X \in 0..(p - 1) /\ Y \in 0..(p - 1) /\ r \in 0..(p - 1) /\ a \in 0..255
  BY <1>3, <1>11 DEF Calcs
<1>13. Fits'
  <2> HIDE DEF p, X, Y, r, a
  <2>1. Grown(p, X, Y, r, x, y, a)
    BY <1>10 DEF p, X, Y, r, a, Grown
  <2> QED
    BY <1>2, <1>12, <2>1, StillFits
<1>14. d \in 0..1 /\ X + Y = r + c * p /\ x + y + c = a + 256 * d
  BY <1>3, <1>8, <1>11, BitType DEF AddsUp
<1>15. calc'.X + calc'.Y = calc'.result + Bit(alu'.CY) * calc'.place
  <2>1. calc'.X = X + x * p /\ calc'.Y = Y + y * p /\ calc'.result = r + a * p /\ calc'.place = 256 * p
        /\ Bit(alu'.CY) = d
    BY <1>10
  <2> HIDE DEF p, X, Y, r, a, d
  <2>3. SumGrows(p, X, Y, r, c, d, x, y, a)
    <3>1. /\ p \in Int /\ X \in Int /\ Y \in Int /\ r \in Int /\ c \in Int /\ d \in Int
          /\ x \in Int /\ y \in Int /\ a \in Int
      BY <1>2, <1>3, <1>12, <1>14
    <3> QED
      BY <3>1, SumsAtPlace
  <2>2. (X + x * p) + (Y + y * p) = (r + a * p) + d * (256 * p)
    BY <1>14, <2>3 DEF SumGrows
  <2> QED
    BY <2>1, <2>2
<1>16. alu'.OV <=> ~ IsSigned(Signed(calc.X) + Signed(calc.Y))'
  <2>1. calc'.X = X + x * p /\ calc'.Y = Y + y * p /\ calc'.place = 256 * p
    BY <1>10
  <2>2. Signed(calc.X)' = Top8(x) * p + X /\ Signed(calc.Y)' = Top8(y) * p + Y
    <3> HIDE DEF p, X, Y
    <3>1. (IF 2 * (X + x * p) >= 256 * p THEN (X + x * p) - 256 * p ELSE X + x * p) = Top8(x) * p + X
      BY <1>2, <1>12, SignedTop, ZenonT(60)
    <3>2. (IF 2 * (Y + y * p) >= 256 * p THEN (Y + y * p) - 256 * p ELSE Y + y * p) = Top8(y) * p + Y
      BY <1>2, <1>12, SignedTop, ZenonT(60)
    <3> QED
      BY <2>1, <3>1, <3>2 DEF Signed
  <2> DEFINE t == Top8(x) + Top8(y) + c
             v == Signed(calc.X)' + Signed(calc.Y)'
  <2>3. t \in Int /\ Top8(x) \in Int /\ Top8(y) \in Int
    BY <1>2, <1>3 DEF Top8
  <2> HIDE DEF p, X, Y, r, a, d
  <2>4. v = t * p + r
    <3> DEFINE xx == Top8(x)
               yy == Top8(y)
    <3>1. v = (xx * p + X) + (yy * p + Y) /\ xx \in Int /\ yy \in Int
      BY <2>2, <2>3
    <3> HIDE DEF xx, yy, v
    <3>2. v = (xx + yy + c) * p + r
      BY <3>1, <1>3, <1>12, <1>14
    <3> QED
      BY <3>2 DEF xx, yy
  <2>5. (-(256 * p) <= 2 * (t * p + r) /\ 2 * (t * p + r) < 256 * p) <=> t \in -128..127
    <3> HIDE DEF t
    <3> QED
      BY <1>12, <2>3, SignedRange
  <2>6. IsSigned(Signed(calc.X) + Signed(calc.Y))' <=> (-(256 * p) <= 2 * v /\ 2 * v < 256 * p)
    BY <2>1 DEF IsSigned
  <2>7. s.OV <=> ~ (t \in -128..127)
    BY <1>8 DEF Overflows
  <2> HIDE DEF t, v
  <2> QED
    BY <1>10, <2>4, <2>5, <2>6, <2>7
<1>17. Exact' /\ OverflowIsSigned'
  BY <1>10, <1>11, <1>15, <1>16 DEF Exact, OverflowIsSigned
<1> QED
  BY <1>10, <1>11, <1>13, <1>17 DEF AluInv, NumbersAreExact

(* One more byte of a difference.                                           *)
LEMMA DifferenceInv == AluInv /\ Difference => AluInv'
<1> SUFFICES ASSUME AluInv, Difference PROVE AluInv'
  OBVIOUS
<1>1. PICK x, y \in Operands :
        Takes2("difference", x, y,
               Subb(Acc(IF calc.n = 0 THEN [alu EXCEPT !.CY = FALSE] ELSE alu, x), y))
  BY DEF Difference
<1>2. x \in 0..255 /\ y \in 0..255
  BY AluAssumption
<1> DEFINE c == CarryIn
           v0 == IF calc.n = 0 THEN [alu EXCEPT !.CY = FALSE] ELSE alu
           u == Acc(v0, x)
           s == Subb(u, y)
<1>3. /\ calc.n < Digits /\ c \in 0..1 /\ calc \in Calcs
      /\ calc.X \in 0..(calc.place - 1) /\ calc.Y \in 0..(calc.place - 1)
      /\ calc.result \in 0..(calc.place - 1)
      /\ calc.X - calc.Y = calc.result - c * calc.place
  <2>1. Calculates("difference")
    BY DEF Difference
  <2> QED
    BY <2>1, CalculationGoesOn
<1>4. alu \in AluStates
  BY DEF AluInv
<1>5. u \in AluStates /\ u.A = x /\ Bit(u.CY) = c
  <2>1. x % 256 = x
    BY <1>2
  <2>2. x \in Int
    BY <1>2
  <2>3. v0 \in AluStates /\ Bit(v0.CY) = c
    BY <1>4, ZenonT(60) DEF AluStates, CarryIn, Bit
  <2> HIDE DEF v0, c
  <2> QED
    BY <2>1, <2>2, <2>3, AccFields, SMTT(60) DEF Left
<1>6. Takes2("difference", x, y, s)
  BY <1>1
<1> HIDE DEF u, c, v0
<1>7. Left(s)
  BY <1>2, <1>5, SubbFields
<1>8. TakesAway(x, y, c, s) /\ Overflows(Top8(x) - Top8(y) - c, s)
  BY <1>2, <1>5, SubbExact
<1> HIDE DEF s
<1>9. "difference" \in CalcKinds
  BY DEF CalcKinds
<1>10. /\ calc' \in Calcs /\ calc'.kind = "difference" /\ calc'.n # 0
       /\ calc'.place = 256 * calc.place
       /\ calc'.X = calc.X + x * calc.place /\ calc'.Y = calc.Y + y * calc.place
       /\ calc'.result = calc.result + s.A * calc.place
       /\ alu' = s /\ psw_p' = FALSE /\ ParityOfAcc'
  BY <1>2, <1>3, <1>6, <1>7, <1>9, Taken
<1>11. s.A \in 0..255 /\ s.CY \in BOOLEAN /\ s.OV \in BOOLEAN /\ s \in AluStates
  BY <1>7 DEF Left, AluStates
<1> DEFINE p == calc.place
           X == calc.X
           Y == calc.Y
           r == calc.result
           a == s.A
           d == Bit(s.CY)
<1>12. p \in Nat \ {0} /\ X \in 0..(p - 1) /\ Y \in 0..(p - 1) /\ r \in 0..(p - 1) /\ a \in 0..255
  BY <1>3, <1>11 DEF Calcs
<1>13. Fits'
  <2> HIDE DEF p, X, Y, r, a
  <2>1. Grown(p, X, Y, r, x, y, a)
    BY <1>10 DEF p, X, Y, r, a, Grown
  <2> QED
    BY <1>2, <1>12, <2>1, StillFits
<1>14. d \in 0..1 /\ X - Y = r - c * p /\ x - y - c = a - 256 * d
  BY <1>3, <1>8, <1>11, BitType DEF TakesAway
<1>15. calc'.X - calc'.Y = calc'.result - Bit(alu'.CY) * calc'.place
  <2>1. calc'.X = X + x * p /\ calc'.Y = Y + y * p /\ calc'.result = r + a * p /\ calc'.place = 256 * p
        /\ Bit(alu'.CY) = d
    BY <1>10
  <2> HIDE DEF p, X, Y, r, a, d
  <2>3. DifferenceGrows(p, X, Y, r, c, d, x, y, a)
    <3>1. /\ p \in Int /\ X \in Int /\ Y \in Int /\ r \in Int /\ c \in Int /\ d \in Int
          /\ x \in Int /\ y \in Int /\ a \in Int
      BY <1>2, <1>3, <1>12, <1>14
    <3> QED
      BY <3>1, SumsAtPlace
  <2>2. (X + x * p) - (Y + y * p) = (r + a * p) - d * (256 * p)
    BY <1>14, <2>3 DEF DifferenceGrows
  <2> QED
    BY <2>1, <2>2
<1>16. alu'.OV <=> ~ IsSigned(Signed(calc.X) - Signed(calc.Y))'
  <2>1. calc'.X = X + x * p /\ calc'.Y = Y + y * p /\ calc'.place = 256 * p
    BY <1>10
  <2>2. Signed(calc.X)' = Top8(x) * p + X /\ Signed(calc.Y)' = Top8(y) * p + Y
    <3> HIDE DEF p, X, Y
    <3>1. (IF 2 * (X + x * p) >= 256 * p THEN (X + x * p) - 256 * p ELSE X + x * p) = Top8(x) * p + X
      BY <1>2, <1>12, SignedTop, ZenonT(60)
    <3>2. (IF 2 * (Y + y * p) >= 256 * p THEN (Y + y * p) - 256 * p ELSE Y + y * p) = Top8(y) * p + Y
      BY <1>2, <1>12, SignedTop, ZenonT(60)
    <3> QED
      BY <2>1, <3>1, <3>2 DEF Signed
  <2> DEFINE t == Top8(x) - Top8(y) - c
             v == Signed(calc.X)' - Signed(calc.Y)'
  <2>3. t \in Int /\ Top8(x) \in Int /\ Top8(y) \in Int
    BY <1>2, <1>3 DEF Top8
  <2> HIDE DEF p, X, Y, r, a, d
  <2>4. v = t * p + r
    <3> DEFINE xx == Top8(x)
               yy == Top8(y)
    <3>1. v = (xx * p + X) - (yy * p + Y) /\ xx \in Int /\ yy \in Int
      BY <2>2, <2>3
    <3> HIDE DEF xx, yy, v
    <3>2. v = (xx - yy - c) * p + r
      BY <3>1, <1>3, <1>12, <1>14
    <3> QED
      BY <3>2 DEF xx, yy
  <2>5. (-(256 * p) <= 2 * (t * p + r) /\ 2 * (t * p + r) < 256 * p) <=> t \in -128..127
    <3> HIDE DEF t
    <3> QED
      BY <1>12, <2>3, SignedRange
  <2>6. IsSigned(Signed(calc.X) - Signed(calc.Y))' <=> (-(256 * p) <= 2 * v /\ 2 * v < 256 * p)
    BY <2>1 DEF IsSigned
  <2>7. s.OV <=> ~ (t \in -128..127)
    BY <1>8 DEF Overflows
  <2> HIDE DEF t, v
  <2> QED
    BY <1>10, <2>4, <2>5, <2>6, <2>7
<1>17. Exact' /\ OverflowIsSigned'
  BY <1>10, <1>11, <1>15, <1>16 DEF Exact, OverflowIsSigned
<1> QED
  BY <1>10, <1>11, <1>13, <1>17 DEF AluInv, NumbersAreExact

(* One more byte of a number that is doubled by RLC.                        *)
LEMMA DoubleInv == AluInv /\ Double => AluInv'
<1> SUFFICES ASSUME AluInv, Double PROVE AluInv'
  OBVIOUS
<1>1. PICK x \in Operands :
        Takes2("double", x, x,
               Rlc(Acc(IF calc.n = 0 THEN [alu EXCEPT !.CY = FALSE] ELSE alu, x)))
  BY DEF Double
<1>2. x \in 0..255
  BY AluAssumption
<1> DEFINE c == CarryIn
           v0 == IF calc.n = 0 THEN [alu EXCEPT !.CY = FALSE] ELSE alu
           u == Acc(v0, x)
           s == Rlc(u)
<1>3. /\ calc.n < Digits /\ c \in 0..1 /\ calc \in Calcs
      /\ calc.X \in 0..(calc.place - 1) /\ calc.Y \in 0..(calc.place - 1)
      /\ calc.result \in 0..(calc.place - 1)
      /\ calc.X + calc.Y = calc.result + c * calc.place
  <2>1. Calculates("double")
    BY DEF Double
  <2> QED
    BY <2>1, CalculationGoesOn
<1>4. alu \in AluStates
  BY DEF AluInv
<1>5. u \in AluStates /\ u.A = x /\ Bit(u.CY) = c
  <2>1. x % 256 = x
    BY <1>2
  <2>2. x \in Int
    BY <1>2
  <2>3. v0 \in AluStates /\ Bit(v0.CY) = c
    BY <1>4 DEF AluStates, CarryIn, Bit
  <2> HIDE DEF v0, c
  <2> QED
    BY <2>1, <2>2, <2>3, AccFields DEF Left
<1>6. Takes2("double", x, x, s)
  BY <1>1
<1> HIDE DEF u, c, v0
<1>7. Left(s)
  BY <1>5, RotateFields
<1>8. x + x + c = s.A + 256 * Bit(s.CY)
  <2>1. s.A = (2 * x + c) % 256
    BY <1>5, RotateFields
  <2>2. s.CY = (x > 127)
    BY <1>5, RotateFields
  <2> HIDE DEF s
  <2> DEFINE q == 2 * x + c
  <2>3. q \in 0..511
    BY <1>2, <1>3
  <2>4. q % 256 = IF q > 255 THEN q - 256 ELSE q
    <3> HIDE DEF q
    <3> QED
      BY <2>3
  <2>5. CASE x > 127
    <3>1. Bit(s.CY) = 1
      BY <2>2, <2>5 DEF Bit
    <3> QED
      BY <1>2, <1>3, <2>1, <2>4, <2>5, <3>1
  <2>6. CASE ~ (x > 127)
    <3>1. Bit(s.CY) = 0
      BY <2>2, <2>6 DEF Bit
    <3> QED
      BY <1>2, <1>3, <2>1, <2>4, <2>6, <3>1
  <2> QED
    BY <2>5, <2>6
<1> HIDE DEF s
<1>9. "double" \in CalcKinds
  BY DEF CalcKinds
<1>10. /\ calc' \in Calcs /\ calc'.kind = "double" /\ calc'.n # 0
       /\ calc'.place = 256 * calc.place
       /\ calc'.X = calc.X + x * calc.place /\ calc'.Y = calc.Y + x * calc.place
       /\ calc'.result = calc.result + s.A * calc.place
       /\ alu' = s /\ psw_p' = FALSE /\ ParityOfAcc'
  BY <1>2, <1>3, <1>6, <1>7, <1>9, Taken
<1>11. s.A \in 0..255 /\ s.CY \in BOOLEAN /\ s \in AluStates
  BY <1>7 DEF Left, AluStates
<1> DEFINE p == calc.place
           X == calc.X
           Y == calc.Y
           r == calc.result
           a == s.A
           d == Bit(s.CY)
<1>12. p \in Nat \ {0} /\ X \in 0..(p - 1) /\ Y \in 0..(p - 1) /\ r \in 0..(p - 1) /\ a \in 0..255
  BY <1>3, <1>11 DEF Calcs
<1>13. Fits'
  <2> HIDE DEF p, X, Y, r, a
  <2>1. Grown(p, X, Y, r, x, x, a)
    BY <1>10 DEF p, X, Y, r, a, Grown
  <2> QED
    BY <1>2, <1>12, <2>1, StillFits
<1>14. d \in 0..1 /\ X + Y = r + c * p /\ x + x + c = a + 256 * d
  BY <1>3, <1>8, <1>11, BitType
<1>15. calc'.X + calc'.Y = calc'.result + Bit(alu'.CY) * calc'.place
  <2>1. calc'.X = X + x * p /\ calc'.Y = Y + x * p /\ calc'.result = r + a * p /\ calc'.place = 256 * p
        /\ Bit(alu'.CY) = d
    BY <1>10
  <2> HIDE DEF p, X, Y, r, a, d
  <2>3. SumGrows(p, X, Y, r, c, d, x, x, a)
    <3>1. /\ p \in Int /\ X \in Int /\ Y \in Int /\ r \in Int /\ c \in Int /\ d \in Int
          /\ x \in Int /\ a \in Int
      BY <1>2, <1>3, <1>12, <1>14
    <3> QED
      BY <3>1, SumsAtPlace
  <2>2. (X + x * p) + (Y + x * p) = (r + a * p) + d * (256 * p)
    BY <1>14, <2>3 DEF SumGrows
  <2> QED
    BY <2>1, <2>2
<1>17. Exact' /\ OverflowIsSigned'
  BY <1>10, <1>15 DEF Exact, OverflowIsSigned
<1> QED
  BY <1>10, <1>11, <1>13, <1>17 DEF AluInv, NumbersAreExact

(* One more byte of a decimal sum.                                          *)
LEMMA DecimalSumInv == AluInv /\ DecimalSum => AluInv'
<1> SUFFICES ASSUME AluInv, DecimalSum PROVE AluInv'
  OBVIOUS
<1> DEFINE Result(x, y) == Da(IF calc.n = 0 THEN Add(Acc(alu, x), y, 0) ELSE Addc(Acc(alu, x), y))
           Next2(x, y, s) ==
             [calc EXCEPT !.kind = "decimal_sum", !.n = @ + 1, !.place = 100 * @,
                          !.X = @ + InDecimal(x) * calc.place, !.Y = @ + InDecimal(y) * calc.place,
                          !.result = @ + InDecimal(s.A) * calc.place,
                          !.decimal = @ /\ IsDecimal(s.A)]
<1>1. PICK x, y \in Decimals :
        alu' = Result(x, y) /\ psw_p' = FALSE /\ calc' = Next2(x, y, Result(x, y))
  BY Zenon DEF DecimalSum
<1>2. x \in 0..255 /\ y \in 0..255 /\ IsDecimal(x) /\ IsDecimal(y)
  BY AluAssumption
<1> DEFINE c == CarryIn
           u == Acc(alu, x)
           s == Da(Add(u, y, c))
<1>3. /\ calc.n < Digits /\ c \in 0..1 /\ calc \in Calcs
      /\ calc.X + calc.Y = calc.result + c * calc.place /\ calc.decimal = TRUE
  <2>1. Calculates("decimal_sum")
    BY DEF DecimalSum
  <2> QED
    BY <2>1, CalculationGoesOn
<1>4. alu \in AluStates
  BY DEF AluInv
<1>5. u \in AluStates /\ u.A = x /\ u.CY = alu.CY
  <2>1. x % 256 = x
    BY <1>2
  <2>2. x \in Int
    BY <1>2
  <2> QED
    BY <1>4, <2>1, <2>2, AccFields, SMTT(60) DEF Left
<1>6. alu' = s /\ psw_p' = FALSE /\ calc' = Next2(x, y, s)
  <2>1. Result(x, y) = s
    BY <1>5 DEF Addc, CarryIn
  <2> HIDE DEF Result, Next2, s
  <2> QED
    BY <1>1, <2>1
<1> HIDE DEF u, c
<1>7. /\ Left(s) /\ IsDecimal(s.A)
      /\ InDecimal(x) + InDecimal(y) + c = InDecimal(s.A) + 100 * Bit(s.CY)
  BY <1>2, <1>3, <1>5, DecimalAdjust
<1> HIDE DEF s
<1>8. s.A \in 0..255 /\ s.CY \in BOOLEAN /\ s \in AluStates
  BY <1>7 DEF Left, AluStates
<1> DEFINE p == calc.place
           X == calc.X
           Y == calc.Y
           r == calc.result
           dx == InDecimal(x)
           dy == InDecimal(y)
           a == InDecimal(s.A)
           d == Bit(s.CY)
           n == calc.n + 1
           p2 == 100 * p
           X2 == X + dx * p
           Y2 == Y + dy * p
           r2 == r + a * p
           dec == calc.decimal /\ IsDecimal(s.A)
<1>9. /\ p \in Nat \ {0} /\ X \in Nat /\ Y \in Nat /\ r \in Nat /\ n \in 0..Digits /\ n # 0
      /\ dec = TRUE
  <2>1. p \in Nat \ {0} /\ X \in Nat /\ Y \in Nat /\ r \in Nat /\ calc.n \in 0..Digits
    BY <1>3 DEF Calcs
  <2>3. n \in 0..Digits /\ n # 0
    BY <1>3, <2>1, AluAssumption
  <2>2. dec = TRUE
    BY <1>3, <1>7
  <2> QED
    BY <2>1, <2>2, <2>3
<1>10. dx \in Nat /\ dy \in Nat /\ a \in Nat /\ d \in 0..1
  BY <1>2, <1>8, BitType DEF InDecimal
<1>11. p2 \in Nat \ {0} /\ X2 \in Nat /\ Y2 \in Nat /\ r2 \in Nat
  <2> HIDE DEF p, X, Y, r, dx, dy, a
  <2>1. dx * p \in Nat /\ dy * p \in Nat /\ a * p \in Nat
    BY <1>9, <1>10
  <2> QED
    BY <1>9, <2>1
<1>12. X2 + Y2 = r2 + d * p2
  <2>1. X + Y = r + c * p /\ dx + dy + c = a + 100 * d
    BY <1>3, <1>7
  <2> HIDE DEF p, X, Y, r, dx, dy, a, d
  <2>2. DecimalGrows(p, X, Y, r, c, d, dx, dy, a)
    <3>1. /\ p \in Int /\ X \in Int /\ Y \in Int /\ r \in Int /\ c \in Int /\ d \in Int
          /\ dx \in Int /\ dy \in Int /\ a \in Int
      BY <1>3, <1>9, <1>10
    <3> QED
      BY <3>1, SumsAtPlace
  <2> QED
    BY <2>1, <2>2 DEF DecimalGrows
<1>13. calc' = [calc EXCEPT !.kind = "decimal_sum", !.n = n, !.place = p2, !.X = X2, !.Y = Y2,
                            !.result = r2, !.decimal = dec]
  BY <1>6
<1> HIDE DEF Result, Next2, p, X, Y, r, dx, dy, a, n, p2, X2, Y2, r2, dec
<1>14. /\ calc' \in Calcs /\ calc'.kind = "decimal_sum" /\ calc'.n = n /\ calc'.place = p2
       /\ calc'.X = X2 /\ calc'.Y = Y2 /\ calc'.result = r2 /\ calc'.decimal = dec
  BY <1>3, <1>9, <1>11, <1>13 DEF Calcs, CalcKinds
<1>15. ParityOfAcc' /\ Fits'
  BY <1>6, <1>7, <1>14 DEF ParityOfAcc, Fits, Left
<1>16. Exact' /\ OverflowIsSigned'
  BY <1>6, <1>9, <1>12, <1>14 DEF Exact, OverflowIsSigned
<1> QED
  BY <1>6, <1>8, <1>9, <1>14, <1>15, <1>16 DEF AluInv, NumbersAreExact

(* One more byte, from the highest down, of a number that is halved by      *)
(* RRC.                                                                     *)
LEMMA HalfInv == AluInv /\ Half => AluInv'
<1> SUFFICES ASSUME AluInv, Half PROVE AluInv'
  OBVIOUS
<1> DEFINE v0 == IF calc.n = 0 THEN [alu EXCEPT !.CY = FALSE] ELSE alu
           Result(x) == Rrc(Acc(v0, x))
           Next1(x, s) == [calc EXCEPT !.kind = "half", !.n = @ + 1, !.X = 256 * @ + x,
                                       !.result = 256 * @ + s.A]
<1>1. PICK x \in Operands :
        alu' = Result(x) /\ psw_p' = FALSE /\ calc' = Next1(x, Result(x))
  BY Zenon DEF Half
<1>2. x \in 0..255
  BY AluAssumption
<1> DEFINE c == CarryIn
           u == Acc(v0, x)
           s == Rrc(u)
<1>3. calc.n < Digits /\ c \in 0..1 /\ calc \in Calcs /\ calc.X = 2 * calc.result + c
  <2>1. Calculates("half")
    BY DEF Half
  <2> QED
    BY <2>1, CalculationGoesOn
<1>4. alu \in AluStates
  BY DEF AluInv
<1>5. u \in AluStates /\ u.A = x /\ Bit(u.CY) = c
  <2>1. x % 256 = x
    BY <1>2
  <2>2. x \in Int
    BY <1>2
  <2>3. v0 \in AluStates /\ Bit(v0.CY) = c
    BY <1>4 DEF AluStates, CarryIn, Bit
  <2> HIDE DEF v0, c
  <2> QED
    BY <2>1, <2>2, <2>3, AccFields DEF Left
<1>6. alu' = s /\ psw_p' = FALSE /\ calc' = Next1(x, s)
  BY <1>1
<1> HIDE DEF u, c, v0
<1>7. Left(s) /\ s.A = (x \div 2) + 128 * c
  BY <1>5, RotateFields
<1>8. s.CY = (x % 2 = 1)
  BY <1>5, RotateFields
<1> HIDE DEF s
<1>9. s.A \in 0..255 /\ s.CY \in BOOLEAN /\ s \in AluStates
  BY <1>7 DEF Left, AluStates
<1>10. Bit(s.CY) = x % 2
  <2>1. x % 2 \in 0..1
    BY <1>2
  <2>2. CASE x % 2 = 1
    BY <1>8, <2>2 DEF Bit
  <2>3. CASE x % 2 # 1
    <3>1. s.CY = FALSE
      BY <1>8, <1>9, <2>3
    <3>2. x % 2 = 0
      BY <2>1, <2>3
    <3> QED
      BY <3>1, <3>2 DEF Bit
  <2> QED
    BY <2>2, <2>3
<1> DEFINE n == calc.n + 1
           X2 == 256 * calc.X + x
           r2 == 256 * calc.result + s.A
<1>11. n \in 0..Digits /\ n # 0 /\ X2 \in Nat /\ r2 \in Nat
  <2>1. n \in 0..Digits /\ n # 0
    BY <1>3, AluAssumption DEF Calcs
  <2>2. calc.X \in Nat /\ calc.result \in Nat
    BY <1>3 DEF Calcs
  <2> QED
    BY <1>2, <1>9, <2>1, <2>2
<1>12. X2 = 2 * r2 + Bit(s.CY)
  <2>1. x = 2 * (x \div 2) + (x % 2) /\ x \div 2 \in Int
    BY <1>2
  <2>2. calc.X \in Int /\ calc.result \in Int
    BY <1>3 DEF Calcs
  <2> QED
    BY <1>2, <1>3, <1>7, <1>10, <2>1, <2>2
<1>13. calc' = [calc EXCEPT !.kind = "half", !.n = n, !.X = X2, !.result = r2]
  BY <1>6
<1> HIDE DEF Result, Next1, n, X2, r2
<1>14. /\ calc' \in Calcs /\ calc'.kind = "half" /\ calc'.n = n /\ calc'.X = X2 /\ calc'.result = r2
  BY <1>3, <1>11, <1>13 DEF Calcs, CalcKinds
<1>15. ParityOfAcc' /\ Fits'
  BY <1>6, <1>7, <1>14 DEF ParityOfAcc, Fits, Left
<1>16. Exact' /\ OverflowIsSigned'
  BY <1>6, <1>12, <1>14 DEF Exact, OverflowIsSigned
<1> QED
  BY <1>6, <1>9, <1>11, <1>14, <1>15, <1>16 DEF AluInv, NumbersAreExact

ProductUp(x, y, k, low, high) == x * y + k = low.A + 256 * high.A

(* MUL of two bytes and the addition of the byte that was carried.          *)
LEMMA ProductOfBytes ==
  ASSUME NEW s \in AluStates, NEW x \in 0..255, NEW y \in 0..255, NEW k \in 0..255
  PROVE  LET low == Add(Mul(Set(Acc(s, x), y)), k, 0)
             high == Addc(Acc(low, low.B), 0)
         IN low.A \in 0..255 /\ Left(high) /\ ProductUp(x, y, k, low, high)
<1> DEFINE m == Mul(Set(Acc(s, x), y))
           low == Add(m, k, 0)
           w == Acc(low, low.B)
           high == Addc(w, 0)
           ab == x * y
<1>0. 0 \in 0..1 /\ 0 \in 0..255
  OBVIOUS
<1>1. Acc(s, x) \in AluStates /\ Acc(s, x).A = x
  <2>1. x % 256 = x /\ x \in Int
    OBVIOUS
  <2> QED
    BY <2>1, AccFields DEF Left
<1>2. Set(Acc(s, x), y) \in AluStates /\ Set(Acc(s, x), y).A = x /\ Set(Acc(s, x), y).B = y
  BY <1>1, SetType
<1>3. Left(m) /\ m.A = ab % 256 /\ m.B = ab \div 256
  <2>1. Left(m) /\ m.A = MulA(x, y) /\ m.B = MulB(x, y)
    BY <1>2, MulFields
  <2> QED
    BY <2>1 DEF MulA, MulB
<1>4. m \in AluStates
  BY <1>3 DEF Left
<1> HIDE DEF m
<1>5. Left(low) /\ low.B = m.B
  <2>1. Left(low)
    BY <1>0, <1>4, AddFields
  <2>2. low.B = m.B
    BY <1>0, <1>4, AddFields
  <2> QED
    BY <2>1, <2>2
<1>6. AddsUp(m.A, k, 0, low)
  BY <1>0, <1>4, AddExact
<1>7. low \in AluStates /\ low.A \in 0..255 /\ low.B \in 0..255 /\ low.CY \in BOOLEAN
  <2>1. low \in AluStates
    BY <1>5 DEF Left
  <2> HIDE DEF low
  <2> QED
    BY <2>1 DEF AluStates
<1> HIDE DEF low
<1>8. w \in AluStates /\ w.A = low.B /\ w.CY = low.CY
  <2>1. low.B % 256 = low.B /\ low.B \in Int
    BY <1>7
  <2> QED
    BY <1>7, <2>1, AccFields DEF Left
<1> HIDE DEF w
<1>9. high = Add(w, 0, Bit(w.CY)) /\ Bit(w.CY) \in 0..1 /\ Bit(w.CY) = Bit(low.CY)
  BY <1>7, <1>8, BitType DEF Addc
<1>10. Left(Add(w, 0, Bit(w.CY)))
  BY <1>0, <1>8, <1>9, AddFields
<1>11. Add(w, 0, Bit(w.CY)).A = (w.A + 0 + Bit(w.CY)) % 256
  <2>1. Add(w, 0, Bit(w.CY)).A = AddA(w.A, 0, Bit(w.CY))
    BY <1>0, <1>8, <1>9, AddFields
  <2> QED
    BY <2>1 DEF AddA
<1>12. ab \in Nat /\ ab <= 65025
  BY ProductRange
<1>13. ab \div 256 \in 0..254 /\ ab % 256 \in 0..255 /\ ab = 256 * (ab \div 256) + (ab % 256)
  <2> HIDE DEF ab
  <2> DEFINE d == ab \div 256
  <2>1. (ab \div 256) \in 0..254 /\ (ab % 256) \in 0..255 /\ ab = 256 * (ab \div 256) + (ab % 256)
    BY <1>12
  <2> QED
    BY <2>1
<1>14. high.A = low.B + Bit(low.CY)
  <2> DEFINE q == w.A + 0 + Bit(w.CY)
  <2>1. q = low.B + Bit(low.CY)
    BY <1>7, <1>8, <1>9
  <2>2. q \in 0..255
    <3> HIDE DEF q, ab
    <3> QED
      BY <1>3, <1>5, <1>8, <1>9, <1>13, <2>1
  <2>3. q % 256 = q
    <3> HIDE DEF q
    <3> QED
      BY <2>2
  <2> QED
    BY <1>9, <1>11, <2>1, <2>3
<1>15. m.A + k = low.A + 256 * Bit(low.CY)
  <2>1. m.A + k + 0 = low.A + 256 * Bit(low.CY)
    BY <1>6 DEF AddsUp
  <2>2. m.A \in Int
    BY <1>4 DEF AluStates
  <2> QED
    BY <2>1, <2>2
<1> DEFINE e == Bit(low.CY)
<1>16. ab + k = low.A + 256 * high.A
  <2>1. e \in 0..1
    BY <1>7, BitType
  <2> HIDE DEF ab, e, high
  <2>2. high.A = low.B + e /\ m.A + k = low.A + 256 * e
    BY <1>14, <1>15 DEF e
  <2>3. low.B = ab \div 256 /\ m.A = ab % 256
    BY <1>3, <1>5
  <2> DEFINE h == ab \div 256
             l == ab % 256
  <2>4. h \in Int /\ l \in Int /\ ab = 256 * h + l
    BY <1>13
  <2>5. low.B = h /\ m.A = l
    BY <2>3
  <2> HIDE DEF h, l
  <2> DEFINE la == low.A
             ha == high.A
  <2>6. la \in Int /\ k \in Int /\ e \in Int
    BY <1>7, <2>1
  <2>7. ha = h + e /\ l + k = la + 256 * e
    BY <2>2, <2>5
  <2> HIDE DEF la, ha
  <2>8. ab + k = la + 256 * ha
    BY <2>4, <2>6, <2>7
  <2> QED
    BY <2>8 DEF la, ha
<1> QED
  BY <1>7, <1>9, <1>10, <1>16 DEF low, m, w, ProductUp

(* One more byte of a product by a byte.                                    *)
LEMMA ProductInv == AluInv /\ Product => AluInv'
<1> SUFFICES ASSUME AluInv, Product PROVE AluInv'
  OBVIOUS
<1> DEFINE Low(x, y) == Add(Mul(Set(Acc(alu, x), y)), calc.carry, 0)
           High(x, y) == Addc(Acc(Low(x, y), Low(x, y).B), 0)
           Next2(x, y, low, high) ==
             [calc EXCEPT !.kind = "product", !.n = @ + 1, !.place = 256 * @,
                          !.X = @ + x * calc.place, !.Y = y, !.result = @ + low.A * calc.place,
                          !.carry = high.A]
<1>1. PICK x, y \in Operands :
        /\ calc.n = 0 \/ y = calc.Y
        /\ alu' = Unset(High(x, y)) /\ psw_p' = FALSE
        /\ calc' = Next2(x, y, Low(x, y), High(x, y))
  BY Zenon DEF Product
<1>2. x \in 0..255 /\ y \in 0..255
  BY AluAssumption
<1> DEFINE low == Low(x, y)
           high == High(x, y)
<1>3. /\ calc.n < Digits /\ calc \in Calcs
      /\ calc.X * calc.Y = calc.result + calc.carry * calc.place
  <2>1. Calculates("product")
    BY DEF Product
  <2> QED
    BY <2>1, CalculationGoesOn
<1>4. alu \in AluStates /\ calc.carry \in 0..255
  BY <1>3 DEF AluInv, Calcs
<1>5. low.A \in 0..255 /\ Left(high) /\ x * y + calc.carry = low.A + 256 * high.A
  <2> DEFINE k == calc.carry
  <2>1. k \in 0..255
    BY <1>4
  <2> HIDE DEF k
  <2>2. LET l == Add(Mul(Set(Acc(alu, x), y)), k, 0)
            g == Addc(Acc(l, l.B), 0)
        IN l.A \in 0..255 /\ Left(g) /\ ProductUp(x, y, k, l, g)
    BY <1>2, <1>4, <2>1, ProductOfBytes, Zenon
  <2>3. low.A \in 0..255 /\ Left(high) /\ ProductUp(x, y, k, low, high)
    BY <2>2, Zenon DEF k
  <2> HIDE DEF low, high
  <2> QED
    BY <2>3 DEF ProductUp, k
<1>6. alu' = Unset(high) /\ psw_p' = FALSE /\ calc' = Next2(x, y, low, high)
  BY <1>1
<1> HIDE DEF low, high
<1>7. Left(Unset(high)) /\ high.A \in 0..255
  <2>1. high \in AluStates
    BY <1>5 DEF Left
  <2>2. high.A \in 0..255
    BY <2>1 DEF AluStates
  <2>3. Left(Unset(high))
    BY <1>5, <2>1, UnsetType
  <2> QED
    BY <2>2, <2>3
<1> DEFINE p == calc.place
           X == calc.X
           r == calc.result
           k == calc.carry
           a == low.A
           h == high.A
           n == calc.n + 1
           p2 == 256 * p
           X2 == X + x * p
           r2 == r + a * p
<1>8. n \in 0..Digits /\ n # 0
  BY <1>3, AluAssumption DEF Calcs
<1>9. p \in Nat \ {0} /\ X \in Nat /\ r \in Nat /\ k \in 0..255
  BY <1>3 DEF Calcs
<1>10. p2 \in Nat \ {0} /\ X2 \in Nat /\ r2 \in Nat
  <2>1. a \in Nat
    BY <1>5
  <2> HIDE DEF p, X, r, a
  <2>2. x * p \in Nat /\ a * p \in Nat
    BY <1>2, <1>9, <2>1
  <2> QED
    BY <1>9, <2>2
<1>11. X2 * y = r2 + h * p2
  <2>1. X * y = r + k * p
    <3>1. CASE calc.n = 0
      <4>1. X = 0 /\ r = 0 /\ k = 0
        BY <3>1 DEF AluInv, NoCalc
      <4> HIDE DEF X, r, k, p
      <4> QED
        BY <1>2, <1>9, <4>1
    <3>2. CASE calc.n # 0
      BY <1>1, <1>3, <3>2
    <3> QED
      BY <3>1, <3>2
  <2>2. x * y + k = a + 256 * h
    BY <1>5
  <2>3. a \in Int /\ h \in Int
    BY <1>5, <1>7
  <2> HIDE DEF p, X, r, k, a, h
  <2>4. X2 * y = X * y + (x * y) * p
    BY <1>2, <1>9
  <2>5. x * y = a + 256 * h - k
    BY <1>2, <1>9, <2>2, <2>3
  <2>6. (x * y) * p = a * p + (256 * h) * p - k * p
    BY <1>9, <2>3, <2>5
  <2>7. h * (256 * p) = (256 * h) * p
    BY <1>9, <2>3
  <2> DEFINE z1 == X * y
             z2 == (x * y) * p
             z3 == k * p
             z4 == a * p
             z5 == (256 * h) * p
  <2>8. z1 \in Int /\ z2 \in Int /\ z3 \in Int /\ z4 \in Int /\ z5 \in Int
    BY <1>2, <1>9, <2>3
  <2>9. /\ X2 * y = z1 + z2 /\ z1 = r + z3 /\ z2 = z4 + z5 - z3
        /\ r2 = r + z4 /\ h * p2 = z5
    BY <2>1, <2>4, <2>6, <2>7
  <2> HIDE DEF z1, z2, z3, z4, z5, X2, r2, p2
  <2> QED
    BY <1>9, <2>8, <2>9
<1>12. calc' = [calc EXCEPT !.kind = "product", !.n = n, !.place = p2, !.X = X2, !.Y = y,
                            !.result = r2, !.carry = h]
  BY <1>6
<1> HIDE DEF Low, High, Next2, n, p2, X2, r2, h, a, p, X, r, k
<1>13. /\ calc' \in Calcs /\ calc'.kind = "product" /\ calc'.n = n /\ calc'.place = p2
       /\ calc'.X = X2 /\ calc'.Y = y /\ calc'.result = r2 /\ calc'.carry = h
  <2>1. h \in 0..255 /\ y \in Nat
    BY <1>2, <1>7 DEF h
  <2> QED
    BY <1>3, <1>8, <1>10, <1>12, <2>1 DEF Calcs, CalcKinds
<1>14. ParityOfAcc' /\ Fits' /\ alu' \in AluStates
  BY <1>6, <1>7, <1>13 DEF ParityOfAcc, Fits, Left
<1>15. Exact' /\ OverflowIsSigned'
  BY <1>11, <1>13 DEF Exact, OverflowIsSigned
<1> QED
  BY <1>6, <1>8, <1>13, <1>14, <1>15 DEF AluInv, NumbersAreExact

(* DIV by the weights of the decimal digits.                                *)
LEMMA DivideBy ==
  ASSUME NEW s \in AluStates, NEW a \in 0..255, NEW d \in {10, 100}
  PROVE  /\ Left(Div(Set(Acc(s, a), d))) /\ Div(Set(Acc(s, a), d)).A = a \div d
         /\ Div(Set(Acc(s, a), d)).B = a % d
<1> DEFINE w == Acc(s, a)
           u == Set(w, d)
<1>0. d \in 0..255
  OBVIOUS
<1>1. d # 0 /\ a % 256 = a /\ a \in Int
  OBVIOUS
<1>2. w \in AluStates /\ w.A = a
  BY <1>1, AccFields DEF Left
<1> HIDE DEF w
<1>3. u \in AluStates /\ u.A = a /\ u.B = d
  BY <1>0, <1>2, SetType, ZenonT(60)
<1> USE DEF w
<1> HIDE DEF u
<1>4. Left(Div(u)) /\ Div(u).A = (a \div d) % 256 /\ Div(u).B = a % d
  BY <1>0, <1>1, <1>3, DivFields
<1>5. a \div d \in 0..255
  <2>1. CASE d = 10
    <3>1. a \div 10 \in 0..25 /\ a % 10 \in 0..9 /\ a = 10 * (a \div 10) + (a % 10)
      OBVIOUS
    <3> QED
      BY <2>1, <3>1
  <2>2. CASE d = 100
    <3>1. a \div 100 \in 0..2 /\ a % 100 \in 0..99 /\ a = 100 * (a \div 100) + (a % 100)
      OBVIOUS
    <3> QED
      BY <2>2, <3>1
  <2> QED
    BY <2>1, <2>2
<1> DEFINE q == a \div d
<1>6. q % 256 = q
  <2> HIDE DEF q
  <2>1. q \in 0..255
    BY <1>5 DEF q
  <2> QED
    BY <2>1
<1> QED
  BY <1>4, <1>6 DEF u

(* A byte is taken apart into its decimal digits, two DIVs and a SWAP.      *)
LEMMA ToDecimalInv == AluInv /\ ToDecimal => AluInv'
<1> SUFFICES ASSUME AluInv, ToDecimal PROVE AluInv'
  OBVIOUS
<1> DEFINE Hundreds(x) == Div(Set(Acc(alu, x), 100))
           Tens(x) == Swap(Div(Set(Acc(Hundreds(x), Hundreds(x).B), 10)))
           Last(x) == Add(Tens(x), Tens(x).B, 0)
           Next1(x, hundreds, s) ==
             [NoCalc EXCEPT !.kind = "decimal", !.n = Digits, !.X = x,
                            !.result = 100 * InDecimal(hundreds.A) + InDecimal(s.A),
                            !.decimal = IsDecimal(hundreds.A) /\ IsDecimal(s.A)]
<1>1. PICK x \in Operands :
        alu' = Unset(Last(x)) /\ psw_p' = FALSE /\ calc' = Next1(x, Hundreds(x), Last(x))
  <2>1. PICK x \in Operands :
          LET hundreds == Div(Set(Acc(alu, x), 100))
              tens == Swap(Div(Set(Acc(hundreds, hundreds.B), 10)))
              s == Add(tens, tens.B, 0)
          IN /\ alu' = Unset(s)
             /\ psw_p' = FALSE
             /\ calc' = [NoCalc EXCEPT !.kind = "decimal", !.n = Digits, !.X = x,
                           !.result = 100 * InDecimal(hundreds.A) + InDecimal(s.A),
                           !.decimal = IsDecimal(hundreds.A) /\ IsDecimal(s.A)]
    BY Zenon DEF ToDecimal
  <2>2. alu' = Unset(Last(x)) /\ psw_p' = FALSE /\ calc' = Next1(x, Hundreds(x), Last(x))
    BY <2>1
  <2> HIDE DEF Last, Next1, Hundreds
  <2> QED
    BY <2>2
<1>2. x \in 0..255 /\ alu \in AluStates
  BY AluAssumption DEF AluInv
<1> DEFINE hundreds == Hundreds(x)
           m == x % 100
           ones == Div(Set(Acc(hundreds, m), 10))
           tens == Swap(ones)
           s == Add(tens, tens.B, 0)
           h == x \div 100
           t == m \div 10
           e == m % 10
<1>3. h \in 0..2 /\ m \in 0..99 /\ x = 100 * h + m
  BY <1>2
<1>4. t \in 0..9 /\ e \in 0..9 /\ m = 10 * t + e
  <2> HIDE DEF m
  <2>1. m \in 0..99
    BY <1>3
  <2> QED
    BY <2>1
<1>5. 100 \in {10, 100} /\ 10 \in {10, 100} /\ 0 \in 0..1
  OBVIOUS
<1>6. Left(hundreds) /\ hundreds.A = h /\ hundreds.B = m
  BY <1>2, <1>5, DivideBy
<1>7. hundreds \in AluStates /\ m \in 0..255
  BY <1>3, <1>6 DEF Left
<1>8. alu' = Unset(s) /\ psw_p' = FALSE /\ calc' = Next1(x, hundreds, s)
  <2>1. Last(x) = s
    BY <1>6
  <2> HIDE DEF Last, Next1, s, hundreds
  <2> QED
    BY <1>1, <2>1 DEF hundreds
<1> HIDE DEF hundreds, m, h
<1>9. Left(ones) /\ ones.A = t /\ ones.B = e
  BY <1>5, <1>7, DivideBy
<1>10. ones \in AluStates
  BY <1>9 DEF Left
<1> HIDE DEF ones, t, e
<1>11. Left(tens) /\ tens.A = (16 * t + (t \div 16)) % 256 /\ tens.B = e
  BY <1>9, <1>10, SwapFields
<1>12. (16 * t + (t \div 16)) % 256 = 16 * t
  <2>1. t \div 16 = 0
    BY <1>4
  <2> DEFINE q == 16 * t
  <2>2. q \in 0..255
    BY <1>4
  <2> HIDE DEF q
  <2>3. (q + 0) % 256 = q
    BY <2>2
  <2> QED
    BY <2>1, <2>3 DEF q
<1>13. tens \in AluStates /\ tens.A = 16 * t /\ tens.B \in 0..255
  BY <1>4, <1>11, <1>12 DEF Left
<1> HIDE DEF tens
<1>14. Left(s)
  BY <1>5, <1>13, AddFields
<1>15. s.A = (tens.A + tens.B + 0) % 256
  <2>1. s.A = AddA(tens.A, tens.B, 0)
    BY <1>5, <1>13, AddFields
  <2> QED
    BY <2>1 DEF AddA
<1> HIDE DEF s
<1>16. s.A = 16 * t + e
  <2> DEFINE q == 16 * t + e
  <2>1. q \in 0..255
    BY <1>4
  <2>2. tens.A + tens.B + 0 = q
    BY <1>4, <1>11, <1>13
  <2> HIDE DEF q
  <2>3. q % 256 = q
    BY <2>1
  <2> QED
    BY <1>15, <2>2, <2>3 DEF q
<1>17. IsDecimal(s.A) /\ InDecimal(s.A) = 10 * t + e
  <2> DEFINE q == s.A
  <2>1. t \in 0..15 /\ e \in 0..15 /\ q = 16 * t + e
    BY <1>4, <1>16
  <2> HIDE DEF q
  <2>2. q \div 16 = t /\ q % 16 = e
    <3>1. AreDigits(q, t, e)
      BY <2>1, TwoDigits
    <3> QED
      BY <3>1 DEF AreDigits
  <2>3. q \div 16 <= 9 /\ q % 16 <= 9
    BY <1>4, <2>2
  <2> QED
    BY <2>2, <2>3 DEF IsDecimal, InDecimal, q
<1>18. IsDecimal(hundreds.A) /\ InDecimal(hundreds.A) = h
  <2>1. h \div 16 = 0 /\ h % 16 = h
    BY <1>3
  <2> QED
    BY <1>3, <1>6, <2>1 DEF IsDecimal, InDecimal
<1> DEFINE r == 100 * InDecimal(hundreds.A) + InDecimal(s.A)
           dec == IsDecimal(hundreds.A) /\ IsDecimal(s.A)
<1>19. r = x /\ dec = TRUE
  <2>1. r = 100 * h + (10 * t + e)
    BY <1>17, <1>18
  <2>2. dec = TRUE
    BY <1>17, <1>18
  <2>3. 100 * h + (10 * t + e) = x
    BY <1>3, <1>4
  <2> QED
    BY <2>1, <2>2, <2>3
<1>20. calc' = [NoCalc EXCEPT !.kind = "decimal", !.n = Digits, !.X = x, !.result = r, !.decimal = dec]
  BY <1>8
<1> HIDE DEF Hundreds, Tens, Last, Next1, r, dec
<1>21. /\ calc' \in Calcs /\ calc'.kind = "decimal" /\ calc'.n = Digits /\ calc'.X = x
       /\ calc'.result = r /\ calc'.decimal = dec
  <2>1. Digits \in 0..Digits /\ x \in Nat /\ r \in Nat /\ dec \in BOOLEAN
    BY <1>2, <1>19, AluAssumption
  <2> QED
    BY <1>20, <2>1, NoCalcYet DEF Calcs, CalcKinds
<1>22. Left(Unset(s)) /\ s \in AluStates
  BY <1>14, UnsetType DEF Left
<1>23. ParityOfAcc' /\ Fits' /\ alu' \in AluStates
  BY <1>8, <1>21, <1>22 DEF ParityOfAcc, Fits, Left
<1>24. Exact' /\ OverflowIsSigned'
  BY <1>19, <1>21 DEF Exact, OverflowIsSigned
<1>25. calc'.n # 0
  BY <1>21, AluAssumption
<1> QED
  BY <1>8, <1>21, <1>23, <1>24, <1>25 DEF AluInv, NumbersAreExact

(* The invariant holds after a reset,                                       *)
LEMMA AluStarts == AluInit => AluInv
<1> SUFFICES ASSUME AluInit PROVE AluInv
  OBVIOUS
<1>1. alu \in AluStates /\ alu.A = 0 /\ alu.P = FALSE /\ psw_p = FALSE /\ calc = NoCalc
  BY DEF AluInit, AluStates
<1>2. ParityOfAcc
  BY <1>1, NoParity DEF ParityOfAcc
<1>3. calc \in Calcs
  BY <1>1, NoCalcYet
<1>4. calc.kind = "none" /\ calc.X = 0 /\ calc.Y = 0 /\ calc.result = 0 /\ calc.place = 1
  BY <1>1 DEF NoCalc
<1>5. Fits /\ Exact /\ OverflowIsSigned
  BY <1>4 DEF Fits, Exact, OverflowIsSigned
<1> QED
  BY <1>1, <1>2, <1>3, <1>5 DEF AluInv, NumbersAreExact

(* and is kept by every instruction.                                        *)
LEMMA AluSteps == AluInv /\ [AluNext]_alu_vars => AluInv'
<1> SUFFICES ASSUME AluInv, [AluNext]_alu_vars PROVE AluInv'
  OBVIOUS
<1>1. CASE Between
  BY <1>1, BetweenInv
<1>2. CASE Other \/ WritePSWFlags \/ AluReset
  BY <1>2, OtherInv
<1>3. CASE Sum
  BY <1>3, SumInv
<1>4. CASE Difference
  BY <1>4, DifferenceInv
<1>5. CASE DecimalSum
  BY <1>5, DecimalSumInv
<1>6. CASE Double
  BY <1>6, DoubleInv
<1>7. CASE Half
  BY <1>7, HalfInv
<1>8. CASE Product
  BY <1>8, ProductInv
<1>9. CASE ToDecimal
  BY <1>9, ToDecimalInv
<1>10. CASE UNCHANGED alu_vars
  BY <1>10 DEF alu_vars, AluInv, Fits, NumbersAreExact, Exact, OverflowIsSigned, ParityOfAcc,
               IsSigned, Signed
<1> QED
  BY <1>1, <1>2, <1>3, <1>4, <1>5, <1>6, <1>7, <1>8, <1>9, <1>10 DEF AluNext

(* So it always holds.                                                      *)
LEMMA AluInvAlways == AluSpec => []AluInv
BY AluStarts, AluSteps, PTL DEF AluSpec

(* Whatever is done between the bytes that the instructions allow, and      *)
(* for numbers of any length: a calculation of several bytes by the         *)
(* instructions of arith.cc, logic.cc and move.cc is exact at every         *)
(* byte, OV says whether its signed result fits, and P is the parity of     *)
(* ACC.                                                                     *)
THEOREM NumbersAlwaysExact == AluSpec => []NumbersAreExact
<1>1. AluInv => NumbersAreExact
  BY DEF AluInv
<1> QED
  BY AluInvAlways, <1>1, PTL

================================================================================
