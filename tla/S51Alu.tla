-------------------------------- MODULE S51Alu --------------------------------
(***************************************************************************)
(* The arithmetic of the 8051 core: the instructions of arith.cc and what  *)
(* inc.cc, jmp.cc, logic.cc, bit.cc and mov.cc do to the accumulator and   *)
(* the flags, with the parity that the core keeps whenever ACC is written  *)
(* (cl_uc51_cpu::write, uc51.cc).  The addressing modes of an instruction  *)
(* compute alike, so one operator stands for all of them.                  *)
(*                                                                         *)
(* A program calculates with numbers of several bytes, a byte at a time,   *)
(* and may do anything in between that is to leave the carry alone.        *)
(***************************************************************************)
EXTENDS Integers, FiniteSets

CONSTANTS
  Operands,   \* operands of the binary calculations
  Decimals,   \* operands of the decimal ones: bytes of two decimal digits
  Digits      \* bound: bytes of a number

(* A byte of two decimal digits, and the number they stand for.             *)
IsDecimal(b) == b \div 16 <= 9 /\ b % 16 <= 9
InDecimal(b) == 10 * (b \div 16) + (b % 16)

ASSUME AluAssumption ==
  /\ Operands \subseteq 0..255
  /\ Decimals \subseteq {b \in 0..255 : IsDecimal(b)}
  /\ Digits \in Nat \ {0}

VARIABLES
  alu,    \* ACC, B and the flags of PSW
  psw_p,  \* history: P is what the program wrote into PSW, not ACC's parity
  calc    \* history: the kind of calculation, the bytes done, what the next
          \* one is worth, the numbers X and Y, the result, whether its bytes
          \* are decimal, and what a product carries to the next byte

alu_vars == <<alu, psw_p, calc>>

Bit(c) == IF c THEN 1 ELSE 0

Weight == [i \in 0..7 |-> <<1, 2, 4, 8, 16, 32, 64, 128>>[i + 1]]

BitOf(a, i) == (a \div Weight[i]) % 2 = 1

(* ptab51.                                                                  *)
Parity(a) == Cardinality({i \in 0..7 : BitOf(a, i)}) % 2 = 1

(* A write of ACC, as a byte.                                               *)
Acc(s, a) == [s EXCEPT !.A = a % 256, !.P = Parity(a % 256)]

-----------------------------------------------------------------------------
(* The instructions on a state s of ACC, B and the flags.                   *)
Add(s, y, c) ==
  LET sum == s.A + y + c
  IN [Acc(s, sum) EXCEPT
        !.CY = sum > 255,
        !.AC = (s.A % 16) + (y % 16) + c > 15,
        !.OV = (sum > 255) # ((s.A % 128) + (y % 128) + c > 127)]

Addc(s, y) == Add(s, y, Bit(s.CY))

Subb(s, y) ==
  LET c == Bit(s.CY)
      result == (s.A + 512 - y - c) % 256
  IN [Acc(s, result) EXCEPT
        !.CY = s.A < y + c,
        !.OV = \/ s.A < 128 /\ y > 127 /\ result > 127
               \/ s.A > 127 /\ y < 128 /\ result < 128,
        !.AC = (s.A % 16 < (y + c) % 16) \/ (c = 1 /\ y % 16 = 15)]

(* Mutant: the upper digit is looked at before the lower one is adjusted.   *)
DaAtOnce(s) ==
  LET low == s.A % 16 > 9 \/ s.AC
      high == s.A \div 16 > 9 \/ s.CY
  IN [Acc(s, s.A + (IF low THEN 6 ELSE 0) + (IF high THEN 96 ELSE 0)) EXCEPT
        !.CY = @ \/ s.A + (IF low THEN 6 ELSE 0) + (IF high THEN 96 ELSE 0) > 255]

Da(s) ==
  LET a == IF s.A % 16 > 9 \/ s.AC THEN s.A + 6 ELSE s.A
      cy == s.CY \/ a > 255
      high == (a % 256) \div 16 > 9 \/ cy
      b == IF high THEN (a % 256) + 96 ELSE a
  IN [Acc(s, b) EXCEPT !.CY = cy \/ b > 255]

Mul(s) ==
  LET p == s.A * s.B
  IN [Acc(s, p) EXCEPT !.B = p \div 256, !.OV = p > 255, !.CY = FALSE]

Div(s) ==
  IF s.B = 0 THEN [Acc(s, s.A) EXCEPT !.OV = TRUE, !.CY = FALSE]
  ELSE [Acc(s, s.A \div s.B) EXCEPT !.B = s.A % s.B, !.OV = FALSE, !.CY = FALSE]

Rrc(s) == [Acc(s, s.A \div 2 + 128 * Bit(s.CY)) EXCEPT !.CY = s.A % 2 = 1]
Rlc(s) == [Acc(s, 2 * s.A + Bit(s.CY)) EXCEPT !.CY = s.A > 127]
Rr(s) == Acc(s, s.A \div 2 + 128 * (s.A % 2))
Rl(s) == Acc(s, 2 * s.A + s.A \div 128)
Swap(s) == Acc(s, 16 * s.A + s.A \div 16)
Inc(s) == Acc(s, s.A + 1)
Dec(s) == Acc(s, s.A + 255)
Cpl(s) == Acc(s, 255 - s.A)
Xchd(s, y) == Acc(s, s.A - (s.A % 16) + (y % 16))
Cjne(s, y) == [s EXCEPT !.CY = s.A < y]

(* A bit instruction that writes a bit of ACC.                              *)
AccBit(s, i, v) ==
  Acc(s, s.A - (Weight[i] * Bit(BitOf(s.A, i))) + (Weight[i] * Bit(v)))

-----------------------------------------------------------------------------
(* MOV B,#y.  Between two steps nothing depends on what B holds.            *)
Set(s, y) == [s EXCEPT !.B = y]
Unset(s) == Set(s, 0)

(* What a program may do between two bytes without harm to the carry, and   *)
(* what it does when it gives the calculation up.                           *)
Kept(y) ==
  {Acc(alu, y), Rr(alu), Rl(alu), Inc(alu), Dec(alu), Cpl(alu), Xchd(alu, y)}
    \cup {AccBit(alu, i, v) : i \in {0, 7}, v \in BOOLEAN}

Spoilt(y) ==
  {Add(alu, y, 0), Subb(alu, y), Da(alu), Cjne(alu, y), Rrc(alu),
   Unset(Mul(Set(alu, y))), Unset(Div(Set(alu, y)))}

NoCalc ==
  [kind |-> "none", n |-> 0, place |-> 1, X |-> 0, Y |-> 0, result |-> 0, decimal |-> TRUE,
   carry |-> 0]

Between ==
  /\ calc.n < Digits
  /\ \E y \in Operands : alu' \in Kept(y)
  /\ psw_p' = FALSE
  /\ UNCHANGED calc

Other ==
  /\ \E y \in Operands : alu' \in Spoilt(y)
  /\ psw_p' = (psw_p /\ alu'.A = alu.A /\ alu'.P = alu.P)
  /\ calc' = NoCalc

(* A byte of PSW is written or popped, with its P.                          *)
WritePSWFlags ==
  /\ \E cy, p \in BOOLEAN : alu' = [alu EXCEPT !.CY = cy, !.P = p]
  /\ psw_p' = TRUE
  /\ calc' = NoCalc

(* The bytes of the calculations, lowest first but for RRC.                 *)
Calculates(kind) ==
  IF calc.n = 0 THEN calc.kind = "none" ELSE calc.kind = kind /\ calc.n < Digits

Takes2(kind, x, y, s) ==
  /\ alu' = s
  /\ psw_p' = FALSE
  /\ calc' = [calc EXCEPT !.kind = kind, !.n = @ + 1, !.place = 256 * @, !.X = @ + x * calc.place,
                          !.Y = @ + y * calc.place, !.result = @ + s.A * calc.place]

Sum ==
  /\ Calculates("sum")
  /\ \E x, y \in Operands :
       Takes2("sum", x, y, IF calc.n = 0 THEN Add(Acc(alu, x), y, 0) ELSE Addc(Acc(alu, x), y))

Difference ==
  /\ Calculates("difference")
  /\ \E x, y \in Operands :
       Takes2("difference", x, y,
              Subb(Acc(IF calc.n = 0 THEN [alu EXCEPT !.CY = FALSE] ELSE alu, x), y))

DecimalSum ==
  /\ Calculates("decimal_sum")
  /\ \E x, y \in Decimals :
       LET s == Da(IF calc.n = 0 THEN Add(Acc(alu, x), y, 0) ELSE Addc(Acc(alu, x), y))
       IN /\ alu' = s
          /\ psw_p' = FALSE
          /\ calc' = [calc EXCEPT !.kind = "decimal_sum", !.n = @ + 1, !.place = 100 * @,
                        !.X = @ + InDecimal(x) * calc.place, !.Y = @ + InDecimal(y) * calc.place,
                        !.result = @ + InDecimal(s.A) * calc.place,
                        !.decimal = @ /\ IsDecimal(s.A)]

Double ==
  /\ Calculates("double")
  /\ \E x \in Operands :
       Takes2("double", x, x,
              Rlc(Acc(IF calc.n = 0 THEN [alu EXCEPT !.CY = FALSE] ELSE alu, x)))

(* The next lower byte of X.                                                *)
Half ==
  /\ Calculates("half")
  /\ \E x \in Operands :
       LET s == Rrc(Acc(IF calc.n = 0 THEN [alu EXCEPT !.CY = FALSE] ELSE alu, x))
       IN /\ alu' = s
          /\ psw_p' = FALSE
          /\ calc' = [calc EXCEPT !.kind = "half", !.n = @ + 1, !.X = 256 * @ + x,
                                  !.result = 256 * @ + s.A]

(* MOV A,#x; MOV B,#y; MUL AB; ADD A,carry; and B with ADDC A,#0 is the next *)
(* carry.                                                                   *)
Product ==
  /\ Calculates("product")
  /\ \E x, y \in Operands :
       LET low == Add(Mul(Set(Acc(alu, x), y)), calc.carry, 0)
           high == Addc(Acc(low, low.B), 0)
       IN /\ calc.n = 0 \/ y = calc.Y
          /\ alu' = Unset(high)
          /\ psw_p' = FALSE
          /\ calc' = [calc EXCEPT !.kind = "product", !.n = @ + 1, !.place = 256 * @,
                        !.X = @ + x * calc.place, !.Y = y, !.result = @ + low.A * calc.place,
                        !.carry = high.A]

(* A byte in decimal: DIV AB by 100 and by 10, SWAP A and ADD A,B.          *)
ToDecimal ==
  /\ Calculates("decimal")
  /\ calc.n = 0
  /\ \E x \in Operands :
       LET hundreds == Div(Set(Acc(alu, x), 100))
           tens == Swap(Div(Set(Acc(hundreds, hundreds.B), 10)))
           s == Add(tens, tens.B, 0)
       IN /\ alu' = Unset(s)
          /\ psw_p' = FALSE
          /\ calc' = [NoCalc EXCEPT !.kind = "decimal", !.n = Digits, !.X = x,
                        !.result = 100 * InDecimal(hundreds.A) + InDecimal(s.A),
                        !.decimal = IsDecimal(hundreds.A) /\ IsDecimal(s.A)]

AluReset ==
  /\ alu' = [A |-> 0, B |-> 0, CY |-> FALSE, AC |-> FALSE, OV |-> FALSE, P |-> FALSE]
  /\ psw_p' = FALSE
  /\ calc' = NoCalc

AluInit ==
  /\ alu = [A |-> 0, B |-> 0, CY |-> FALSE, AC |-> FALSE, OV |-> FALSE, P |-> FALSE]
  /\ psw_p = FALSE
  /\ calc = NoCalc

AluNext ==
  \/ Between \/ Other \/ WritePSWFlags \/ AluReset
  \/ Sum \/ Difference \/ DecimalSum \/ Double \/ Half \/ Product \/ ToDecimal

AluSpec == AluInit /\ [][AluNext]_alu_vars

-----------------------------------------------------------------------------
(* Every variable stays in its range.                                       *)
AluTypeOK ==
  /\ alu \in [A : 0..255, B : 0..255, CY : BOOLEAN, AC : BOOLEAN, OV : BOOLEAN, P : BOOLEAN]
  /\ psw_p \in BOOLEAN
  /\ calc.n \in 0..Digits /\ calc.carry \in 0..255

(* A number of n bytes as a signed one, and whether r is one.               *)
Signed(w) == IF 2 * w >= calc.place THEN w - calc.place ELSE w
IsSigned(r) == -calc.place <= 2 * r /\ 2 * r < calc.place

Exact ==
  /\ calc.kind \in {"sum", "double"} =>
       calc.X + calc.Y = calc.result + Bit(alu.CY) * calc.place
  /\ calc.kind = "difference" => calc.X - calc.Y = calc.result - Bit(alu.CY) * calc.place
  /\ calc.kind = "decimal_sum" =>
       calc.decimal /\ calc.X + calc.Y = calc.result + Bit(alu.CY) * calc.place
  /\ calc.kind = "half" => calc.X = 2 * calc.result + Bit(alu.CY)
  /\ calc.kind = "product" => calc.X * calc.Y = calc.result + calc.carry * calc.place
  /\ calc.kind = "decimal" => calc.decimal /\ calc.X = calc.result

OverflowIsSigned ==
  /\ calc.kind = "sum" => alu.OV = ~IsSigned(Signed(calc.X) + Signed(calc.Y))
  /\ calc.kind = "difference" => alu.OV = ~IsSigned(Signed(calc.X) - Signed(calc.Y))

(* P is the parity of ACC, written as a byte or by bits, unless the program *)
(* wrote another P into PSW since.                                          *)
ParityOfAcc == ~psw_p => alu.P = Parity(alu.A)

(* A calculation with numbers of several bytes, signed or not, binary or    *)
(* decimal, ends with the result that arithmetic gives, the carry and OV    *)
(* included, whatever flags it starts from and whatever the program does    *)
(* between two bytes with instructions that are not to touch the carry.     *)
NumbersAreExact == Exact /\ OverflowIsSigned /\ ParityOfAcc

=============================================================================
