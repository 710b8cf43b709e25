--------------------------- MODULE DivisionLemmas ---------------------------
(* Facts about quotients and remainders that the other proofs rest on. *)
EXTENDS Integers, TLAPS

\* A number has one quotient and one remainder.
LEMMA ModUnique ==
  ASSUME NEW m \in Nat \ {0}, NEW x \in Int, NEW y \in Int,
         NEW r \in 0..(m-1), NEW s \in 0..(m-1), m * x + r = m * y + s
  PROVE  x = y /\ r = s
<1>1. ~(x < y)
  <2> SUFFICES ASSUME x < y PROVE FALSE OBVIOUS
  <2>1. y - x >= 1 OBVIOUS
  <2>2. m * (y - x) >= m BY <2>1
  <2>3. m * (y - x) = r - s OBVIOUS
  <2> QED BY <2>2, <2>3
<1>2. ~(y < x)
  <2> SUFFICES ASSUME y < x PROVE FALSE OBVIOUS
  <2>1. x - y >= 1 OBVIOUS
  <2>2. m * (x - y) >= m BY <2>1
  <2>3. m * (x - y) = s - r OBVIOUS
  <2> QED BY <2>2, <2>3
<1> QED BY <1>1, <1>2

\* Quotient and remainder exist.
LEMMA DivMod ==
  ASSUME NEW m \in Nat \ {0}, NEW a \in Int
  PROVE  a \div m \in Int /\ a % m \in 0..(m-1) /\ a = m * (a \div m) + (a % m)
OBVIOUS

\* Whatever can be written as m * q + r has remainder r.
LEMMA ModValue ==
  ASSUME NEW m \in Nat \ {0}, NEW a \in Int, NEW q \in Int, NEW r \in 0..(m-1),
         a = m * q + r
  PROVE  a % m = r
<1> DEFINE x == a \div m  s == a % m
<1>1. x \in Int /\ s \in 0..(m-1) /\ a = m * x + s BY DivMod
<1> HIDE DEF x, s
<1>2. m * x + s = m * q + r BY <1>1
<1>3. s = r BY <1>1, <1>2, ModUnique
<1> QED BY <1>3 DEF s

\* Two numbers less than m apart have different remainders.
LEMMA ModInjective ==
  ASSUME NEW m \in Nat \ {0}, NEW a \in Int, NEW b \in Int, a < b, b < a + m
  PROVE  a % m # b % m
<1> SUFFICES ASSUME a % m = b % m PROVE FALSE OBVIOUS
<1> DEFINE p == a \div m  q == b \div m
<1>1. p \in Int /\ q \in Int /\ b - a = m * (q - p) BY DivMod
<1> HIDE DEF p, q
<1>2. m * (q - p) + 0 = m * 0 + (b - a) BY <1>1
<1>3. b - a = 0 BY <1>1, <1>2, ModUnique
<1> QED BY <1>3

\* A remainder modulo a multiple of m keeps the remainder modulo m.
LEMMA ModOfMultiple ==
  ASSUME NEW m \in Nat \ {0}, NEW w \in Nat \ {0}, w % m = 0, NEW a \in Int
  PROVE  (a % w) % m = a % m
<1> DEFINE d == w \div m  p == a \div w  v == a % w  q == v \div m  s == v % m
<1>1. d \in Int /\ w = m * d BY DivMod
<1>2. p \in Int /\ v \in Int /\ a = w * p + v BY DivMod
<1>3. q \in Int /\ s \in 0..(m-1) /\ v = m * q + s BY <1>2, DivMod
<1>4. a % m = s
  <2> HIDE DEF d, p, v, q, s
  <2>1. w * p = m * (d * p) BY <1>1, <1>2
  <2>2. a = m * (d * p + q) + s BY <1>1, <1>2, <1>3, <2>1
  <2>3. d * p + q \in Int BY <1>1, <1>2, <1>3
  <2> QED BY <1>3, <2>2, <2>3, ModValue
<1> QED BY <1>4
=============================================================================
