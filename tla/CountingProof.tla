---------------------------- MODULE CountingProof ----------------------------
(* Lemmas about a step that is repeated a number of times, as the counters  *)
(* of the parts do that have several events to count in one cycle.  The     *)
(* step is a function on a set of states.                                   *)
EXTENDS StcByte, WellFoundedInduction, TLAPS

(* The numbers have no endless descent; the relation is kept abstract.     *)
LEMMA NumbersDescend ==
  \E R : IsWellFoundedOn(R, Nat) /\ \A x, y \in Nat : y < x => <<y, x>> \in R
<1>1. IsWellFoundedOn(OpToRel(<, Nat), Nat)
  BY NatLessThanWellFounded
<1>2. \A x, y \in Nat : y < x => <<y, x>> \in OpToRel(<, Nat)
  BY DEF OpToRel
<1> QED
  BY <1>1, <1>2, Zenon

(* So a set of numbers has a least one.                                     *)
LEMMA LeastNumber ==
  ASSUME NEW S \in SUBSET Nat, S # {}
  PROVE  \E m \in S : \A k \in S : m <= k
<1>1. PICK R : IsWellFoundedOn(R, Nat) /\ \A x, y \in Nat : y < x => <<y, x>> \in R
  BY NumbersDescend
<1>2. PICK x \in S : \A y \in S : ~ (<<y, x>> \in R)
  BY <1>1, WFMin
<1>3. \A k \in S : ~ (k < x)
  BY <1>1, <1>2
<1> QED
  BY <1>3

(* Induction up to a number, over the set of the numbers of which the claim *)
(* holds.                                                                   *)
LEMMA UpTo ==
  ASSUME NEW n \in Nat, NEW P, 0 \in P, \A k \in 0..n : k \in P /\ k < n => k + 1 \in P
  PROVE  0..n \subseteq P
<1> SUFFICES ASSUME ~ (0..n \subseteq P) PROVE FALSE
  OBVIOUS
<1> DEFINE S == (0..n) \ P
<1>1. S \in SUBSET Nat /\ S # {}
  OBVIOUS
<1> HIDE DEF S
<1>2. PICK m \in S : \A k \in S : m <= k
  BY <1>1, LeastNumber
<1>3. m \in 0..n /\ m \notin P /\ m # 0
  BY <1>2 DEF S
<1>4. m - 1 \in 0..n /\ m - 1 < n /\ ~ (m <= m - 1) /\ (m - 1) + 1 = m
  BY <1>3
<1>5. m - 1 \in P
  BY <1>2, <1>4 DEF S
<1> QED
  BY <1>3, <1>4, <1>5

(* The states in S a step F goes through from s when it is repeated n times.*)
Repetition(S, F, s, n, g) ==
  /\ g = [k \in 0..n |-> IF k = 0 THEN s ELSE F[g[k - 1]]]
  /\ \A k \in 0..n : g[k] \in S

(* A step on S can be repeated from any state of S, as often as one likes.  *)
LEMMA Repeats ==
  ASSUME NEW S, NEW F \in [S -> S], NEW s \in S, NEW n \in Nat
  PROVE  \E g : Repetition(S, F, s, n, g)
<1> DEFINE Run(g, m) == g \in [0..m -> S] /\ g[0] = s /\ \A k \in 1..m : g[k] = F[g[k - 1]]
           P == {m \in Nat : \E g : Run(g, m)}
<1>1. 0 \in P
  <2>1. Run([k \in 0..0 |-> s], 0)
    OBVIOUS
  <2> QED
    BY <2>1
<1>2. ASSUME NEW m \in 0..n, m \in P PROVE m + 1 \in P
  <2>1. PICK g : Run(g, m)
    BY <1>2
  <2> DEFINE h == [k \in 0..(m + 1) |-> IF k <= m THEN g[k] ELSE F[g[m]]]
  <2>2. \A k \in 0..m : g[k] \in S
    BY <2>1
  <2>3. h \in [0..(m + 1) -> S]
    <3>1. F[g[m]] \in S
      BY <2>2
    <3>2. ASSUME NEW k \in 0..(m + 1) PROVE (IF k <= m THEN g[k] ELSE F[g[m]]) \in S
      BY <3>1, <2>2
    <3> QED
      BY <3>2
  <2>4. h[0] = s
    BY <2>1
  <2>5. ASSUME NEW k \in 1..(m + 1) PROVE h[k] = F[h[k - 1]]
    <3>1. h[k - 1] = g[k - 1]
      OBVIOUS
    <3>2. CASE k <= m
      BY <2>1, <3>1, <3>2
    <3>3. CASE k = m + 1
      BY <3>1, <3>3
    <3> QED
      BY <3>2, <3>3
  <2> HIDE DEF h
  <2>6. Run(h, m + 1)
    BY <2>3, <2>4, <2>5
  <2>7. m + 1 \in Nat
    OBVIOUS
  <2> HIDE DEF Run
  <2> QED
    BY <2>6, <2>7
<1> HIDE DEF P
<1>3. 0..n \subseteq P
  BY <1>1, <1>2, UpTo
<1>4. PICK g : Run(g, n)
  BY <1>3 DEF P
<1>5. g = [k \in 0..n |-> IF k = 0 THEN s ELSE F[g[k - 1]]]
  <2>1. \A k \in 0..n : g[k] = IF k = 0 THEN s ELSE F[g[k - 1]]
    BY <1>4
  <2> QED
    BY <1>4, <2>1
<1> QED
  BY <1>4, <1>5 DEF Repetition

-----------------------------------------------------------------------------
(* Division with remainder, by a number that need not be known.             *)
LEMMA DivMod ==
  ASSUME NEW a \in Nat, NEW b \in Nat \ {0}
  PROVE  /\ a % b \in 0..(b - 1)
         /\ a \div b \in Nat
         /\ a = b * (a \div b) + (a % b)
  OBVIOUS

(* A quotient and a remainder that fit are the quotient and the remainder. *)
LEMMA DivUnique ==
  ASSUME NEW a \in Nat, NEW b \in Nat \ {0}, NEW q \in Nat, NEW r \in 0..(b - 1), a = q * b + r
  PROVE  a \div b = q /\ a % b = r
<1> DEFINE q2 == a \div b
           r2 == a % b
<1>1. r2 \in 0..(b - 1) /\ q2 \in Nat /\ a = b * q2 + r2
  BY DivMod
<1> HIDE DEF q2, r2
<1>2. CASE q2 = q
  BY <1>1, <1>2 DEF q2, r2
<1>3. CASE q2 > q
  <2>1. PICK e \in Nat : q2 = q + 1 + e
    <3>1. q2 - q - 1 \in Nat /\ q2 = q + 1 + (q2 - q - 1)
      BY <1>1, <1>3
    <3> QED
      BY <3>1
  <2>2. b * q2 = q * b + b + b * e /\ b * e \in Nat /\ q * b \in Nat
    BY <2>1
  <2> QED
    BY <1>1, <2>2
<1>4. CASE q2 < q
  <2>1. PICK e \in Nat : q = q2 + 1 + e
    <3>1. q - q2 - 1 \in Nat /\ q = q2 + 1 + (q - q2 - 1)
      BY <1>1, <1>4
    <3> QED
      BY <3>1
  <2>2. q * b = b * q2 + b + b * e /\ b * e \in Nat /\ b * q2 \in Nat
    BY <1>1, <2>1
  <2> QED
    BY <1>1, <2>2
<1> QED
  BY <1>1, <1>2, <1>3, <1>4

(* A byte that counts up wraps at its end.                                  *)
LEMMA UpIs ==
  ASSUME NEW n \in Byte
  PROVE  Up(n) \in Byte /\ Up(n) = IF n = Base - 1 THEN 0 ELSE n + 1
BY ByteAssumption DEF Up, Byte

(* The two arguments about numbers of two digits.  Counting up in the lower *)
(* digit, with a carry into the upper one, adds one ...                     *)
LEMMA CarriesOver ==
  ASSUME NEW h \in Byte, NEW l \in Byte, ~(h = Base - 1 /\ l = Base - 1)
  PROVE  /\ Up(l) \in Byte /\ Up(h) \in Byte
         /\ (IF l = Base - 1 THEN Up(h) ELSE h) * Base + Up(l) = h * Base + l + 1
<1> USE ByteAssumption
<1>1. \A n \in Byte : Up(n) = IF n = Base - 1 THEN 0 ELSE n + 1
  BY DEF Up, Byte
<1>2. Up(l) \in Byte /\ Up(h) \in Byte
  BY <1>1 DEF Byte
<1>3. CASE l # Base - 1
  BY <1>1, <1>3 DEF Byte
<1>4. CASE l = Base - 1
  <2>1. Up(l) = 0 /\ Up(h) = h + 1
    BY <1>1, <1>4
  <2>2. (h + 1) * Base = h * Base + Base
    BY DEF Byte
  <2> QED BY <1>4, <2>1, <2>2 DEF Byte
<1> QED BY <1>2, <1>3, <1>4

(* ... and only the two highest digits make the highest number.             *)
LEMMA Highest ==
  ASSUME NEW h \in Byte, NEW l \in Byte
  PROVE  /\ h * Base + l \in 0..(Base * Base - 1)
         /\ h * Base + l = Base * Base - 1 <=> h = Base - 1 /\ l = Base - 1
<1> USE ByteAssumption
<1>1. PICK d \in Nat : h = Base - 1 - d
  BY DEF Byte
<1>2. d * Base \in Nat /\ h * Base = Base * Base - Base - d * Base
  BY <1>1 DEF Byte
<1>3. h * Base \in Nat /\ Base * Base \in Nat
  BY DEF Byte
<1>4. d # 0 => d * Base >= Base
  <2>1. CASE d # 0
    <3>1. PICK e \in Nat : d = e + 1
      BY <2>1
    <3>2. e * Base \in Nat /\ d * Base = e * Base + Base
      BY <3>1
    <3> QED BY <3>2
  <2> QED BY <2>1
<1>5. l \in 0..(Base - 1) /\ Base \in Nat \ {0}
  BY DEF Byte
<1>6. d = 0 <=> h = Base - 1
  BY <1>1
<1>7. d = 0 => d * Base = 0
  OBVIOUS
<1> QED BY <1>2, <1>3, <1>4, <1>5, <1>6, <1>7

(* ... and counting down in the lower digit, with a borrow from the upper   *)
(* one, takes one away.                                                     *)
LEMMA Borrow ==
  ASSUME NEW h \in Byte, NEW l \in Byte, ~(h = 0 /\ l = 0)
  PROVE  /\ (l + Base - 1) % Base \in Byte
         /\ l # 0 => (l + Base - 1) % Base = l - 1
         /\ l = 0 => h - 1 \in Byte /\ (h + Base - 1) % Base = h - 1 /\ (l + Base - 1) % Base = Base - 1
                     /\ (h - 1) * Base + (Base - 1) = h * Base - 1
<1> USE ByteAssumption
<1>1. \A n \in Byte : (n + Base - 1) % Base = IF n = 0 THEN Base - 1 ELSE n - 1
  <2> SUFFICES ASSUME NEW n \in Byte
               PROVE  (n + Base - 1) % Base = IF n = 0 THEN Base - 1 ELSE n - 1
    OBVIOUS
  <2>1. CASE n = 0
    BY <2>1
  <2>2. CASE n # 0
    <3>1. n - 1 \in 0..(Base - 1) /\ n + Base - 1 = 1 * Base + (n - 1)
      BY <2>2 DEF Byte
    <3> QED
      BY <2>2, <3>1, DivUnique
  <2> QED
    BY <2>1, <2>2
<1>2. l = 0 => (h - 1) * Base + (Base - 1) = h * Base - 1
  BY DEF Byte
<1> QED
  BY <1>1, <1>2 DEF Byte

=============================================================================
