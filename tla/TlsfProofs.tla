----------------------------- MODULE TlsfProofs -----------------------------
(***************************************************************************)
(* Proofs about TlsfMapping for every width of size_t and of unsigned and  *)
(* every number of second-level classes, the code's 64, 32 and 16 among    *)
(* them: the order of the classes, good fit, which classes rounding up     *)
(* skips, and the agreement of the three ways to find the highest bit.     *)
(***************************************************************************)
EXTENDS TlsfMapping, DivisionLemmas, TLAPS

-----------------------------------------------------------------------------
(* Powers of two and the types.                                            *)

\* Powers of two are positive and grow, and each is twice the one before.
LEMMA PowerFacts ==
  /\ \A n \in 0..SizeBits : Pow2[n] \in Nat \ {0}
  /\ \A m, n \in 0..SizeBits : m <= n => Pow2[m] <= Pow2[n]
  /\ \A n \in 0..(SizeBits - 1) : Pow2[n + 1] = 2 * Pow2[n]
BY WidthAssumption, PowerAssumption

\* The widths and the parameters of the class, as numbers.
LEMMA WidthFacts ==
  /\ SizeBits \in Nat /\ UnsignedBits \in 0..SizeBits /\ sli \in 0..SizeBits
  /\ UnsignedBits + sli \in 0..(SizeBits - 1)
  /\ sl_count \in Nat \ {0} /\ sl_count <= Pow2[UnsignedBits]
  /\ SizeBits < Pow2[UnsignedBits] /\ SizeBits < Pow2[SizeBits]
  /\ Pow2[SizeBits] \in Nat \ {0} /\ Pow2[UnsignedBits] \in Nat \ {0}
<1>1. /\ SizeBits \in Nat /\ UnsignedBits \in 0..SizeBits /\ sli \in 0..SizeBits
      /\ UnsignedBits + sli \in 0..(SizeBits - 1) /\ sli <= UnsignedBits
      /\ SizeBits < Pow2[UnsignedBits]
  BY WidthAssumption
<1>2. /\ Pow2[sli] \in Nat \ {0} /\ Pow2[UnsignedBits] \in Nat \ {0}
      /\ Pow2[SizeBits] \in Nat \ {0} /\ SizeBits \in 0..SizeBits
  BY <1>1, PowerFacts
<1>3. Pow2[sli] <= Pow2[UnsignedBits] /\ Pow2[UnsignedBits] <= Pow2[SizeBits]
  BY <1>1, <1>2, PowerFacts
<1> QED BY <1>1, <1>2, <1>3 DEF sl_count

\* Converting a number that fits a type leaves it alone.
LEMMA Fits ==
  /\ \A n \in 0..(Pow2[SizeBits] - 1) : ToSize(n) = n
  /\ \A n \in 0..(Pow2[UnsignedBits] - 1) : ToUnsigned(n) = n
<1>1. ASSUME NEW m \in Nat \ {0}, NEW n \in 0..(m-1) PROVE n % m = n
  <2>1. n = m * 0 + n BY <1>1
  <2> QED BY <2>1, ModValue
<1> QED BY <1>1, WidthFacts DEF ToSize, ToUnsigned

-----------------------------------------------------------------------------
(* What the two mappings compute.                                          *)

\* The highest bit of a size from sl_count on is at sli or above.
LEMMA FlsFacts ==
  ASSUME NEW s \in SizeT, sl_count <= s, NEW f \in Fls(s)
  PROVE  /\ f \in sli..(SizeBits - 1) /\ Pow2[f] <= s /\ s < Pow2[f + 1]
         /\ f - sli \in 0..(SizeBits - 1)
         /\ ToUnsigned(f) = f /\ ToSize(f - sli) = f - sli
         /\ Pow2[f] = Pow2[f - sli] * sl_count
         /\ Pow2[f + 1] = Pow2[f - sli] * (2 * sl_count)
<1> USE WidthFacts
<1>1. s \in Nat /\ s # 0 BY DEF SizeT
<1>2. f \in 0..(SizeBits - 1) /\ Pow2[f] <= s /\ s < Pow2[f + 1] BY <1>1 DEF Fls
<1>3. f >= sli
  <2> SUFFICES ASSUME f < sli PROVE FALSE BY <1>2
  <2>1. Pow2[f + 1] <= Pow2[sli] BY <1>2, PowerFacts
  <2>2. Pow2[f + 1] \in Nat BY <1>2, PowerFacts
  <2> QED BY <1>1, <1>2, <2>1, <2>2 DEF sl_count
<1>4. f \in sli..(SizeBits - 1) /\ f - sli \in 0..(SizeBits - 1) BY <1>2, <1>3
<1>5. ToUnsigned(f) = f /\ ToSize(f - sli) = f - sli
  <2>1. f \in 0..(Pow2[UnsignedBits] - 1) /\ f - sli \in 0..(Pow2[SizeBits] - 1)
    BY <1>2, <1>4
  <2> QED BY <2>1, Fits
<1>6. Pow2[f] = Pow2[f - sli] * Pow2[sli]
  <2>1. f - sli \in 0..SizeBits /\ sli \in 0..SizeBits /\ (f - sli) + sli = f /\ f <= SizeBits
    BY <1>4
  <2>2. Pow2[(f - sli) + sli] = Pow2[f - sli] * Pow2[sli]
    BY <2>1, PowerAssumption
  <2> QED BY <2>1, <2>2
<1>7. Pow2[f + 1] = 2 * Pow2[f] BY <1>2, PowerFacts
<1>8. Pow2[f - sli] \in Nat BY <1>4, PowerFacts
<1>9. 2 * (Pow2[f - sli] * sl_count) = Pow2[f - sli] * (2 * sl_count) BY <1>8
<1> QED BY <1>2, <1>4, <1>5, <1>6, <1>7, <1>9 DEF sl_count

\* A block's class is the place f of its highest bit and its quotient by 2^(f - sli).
LEMMA InsertFacts ==
  ASSUME NEW s \in SizeT, sl_count <= s, NEW c \in mapping_insert(s)
  PROVE  \E f \in Fls(s) : /\ c.fl = f
                          /\ c.sl = s \div Pow2[f - sli] - sl_count
                          /\ s \div Pow2[f - sli] \in sl_count..(2 * sl_count - 1)
<1> USE WidthFacts
<1>1. PICK f \in Fls(s) : \E q \in ShiftRight(s, ToSize(ToUnsigned(f) - sli)) :
        c = [fl |-> ToUnsigned(f), sl |-> ToUnsigned(q - sl_count)]
  BY DEF mapping_insert
<1>2. PICK q \in ShiftRight(s, ToSize(ToUnsigned(f) - sli)) :
        c = [fl |-> ToUnsigned(f), sl |-> ToUnsigned(q - sl_count)]
  BY <1>1
<1> DEFINE p == Pow2[f - sli]
<1>3. /\ f - sli \in 0..(SizeBits - 1) /\ ToUnsigned(f) = f /\ ToSize(f - sli) = f - sli
      /\ p * sl_count <= s /\ s < p * (2 * sl_count) /\ s \in Nat
  BY FlsFacts DEF SizeT
<1>4. p \in Nat \ {0} BY <1>3, PowerFacts
<1>5. q = s \div p BY <1>3 DEF ShiftRight
<1> HIDE DEF p
<1>6. q \in Int /\ s % p \in 0..(p-1) /\ s = p * q + (s % p) BY <1>3, <1>4, <1>5, DivMod
<1>7. sl_count <= q
  <2> SUFFICES ASSUME q + 1 <= sl_count PROVE FALSE BY <1>6
  <2>1. p * (q + 1) <= p * sl_count BY <1>4, <1>6
  <2>2. p * (q + 1) = p * q + p BY <1>4, <1>6
  <2> QED BY <1>3, <1>4, <1>6, <2>1, <2>2
<1>8. q < 2 * sl_count
  <2> SUFFICES ASSUME 2 * sl_count <= q PROVE FALSE BY <1>6
  <2>1. p * (2 * sl_count) <= p * q BY <1>4, <1>6
  <2> QED BY <1>3, <1>4, <1>6, <2>1
<1>9. ToUnsigned(q - sl_count) = q - sl_count
  <2>1. q - sl_count \in 0..(Pow2[UnsignedBits] - 1) BY <1>6, <1>7, <1>8
  <2> QED BY <2>1, Fits
<1> QED BY <1>2, <1>3, <1>5, <1>6, <1>7, <1>8, <1>9 DEF p

\* A supported request is rounded up by 2^(f - sli) - 1 without leaving its type.
LEMMA SearchFacts ==
  ASSUME NEW s \in SizeT, Supported(s), NEW m \in mapping_search(s)
  PROVE  \E f \in Fls(s) : /\ s + Pow2[f - sli] - 1 \in SizeT
                          /\ m \in mapping_insert(s + Pow2[f - sli] - 1)
<1> USE WidthFacts
<1>1. sl_count <= s /\ s < Pow2[UnsignedBits + sli] /\ s \in Nat BY DEF Supported, SizeT
<1>2. PICK p \in Steps(s) : m \in mapping_insert(ToSize(s + p - 1)) BY DEF mapping_search
<1>3. PICK f \in Fls(s) : p \in OneShifted(ToSize(f - sli)) BY DEF Steps
<1>4. /\ f \in sli..(SizeBits - 1) /\ Pow2[f] <= s /\ ToSize(f - sli) = f - sli
      /\ f - sli \in 0..(SizeBits - 1)
  BY <1>1, FlsFacts
<1>5. f < UnsignedBits + sli
  <2> SUFFICES ASSUME UnsignedBits + sli <= f PROVE FALSE BY <1>4
  <2>1. Pow2[UnsignedBits + sli] <= Pow2[f] BY <1>4, PowerFacts
  <2>2. Pow2[UnsignedBits + sli] \in Nat /\ Pow2[f] \in Nat BY <1>4, PowerFacts
  <2> QED BY <1>1, <1>4, <2>1, <2>2
<1>6. p = Pow2[f - sli] BY <1>3, <1>4, <1>5 DEF OneShifted
<1>7. p \in Nat \ {0} /\ p <= Pow2[f] BY <1>4, <1>6, PowerFacts
<1>8. s + p - 1 \in 0..(Pow2[SizeBits] - 1)
  <2> DEFINE k == UnsignedBits + sli
  <2>1. Pow2[k + 1] = 2 * Pow2[k] /\ Pow2[k + 1] <= Pow2[SizeBits]
        /\ Pow2[k] \in Nat /\ Pow2[k + 1] \in Nat
    BY PowerFacts
  <2>2. Pow2[f] \in Nat BY <1>4, PowerFacts
  <2> QED BY <1>1, <1>4, <1>7, <2>1, <2>2
<1>9. ToSize(s + p - 1) = s + p - 1 BY <1>8, Fits
<1> QED BY <1>2, <1>6, <1>8, <1>9 DEF SizeT

-----------------------------------------------------------------------------
(* Good fit.                                                               *)

\* Every block of the class found for a request, or of a later one, is large enough.
LEMMA SearchFits ==
  ASSUME NEW s \in SizeT, Supported(s), NEW m \in mapping_search(s),
         NEW b \in Blocks, NEW c \in mapping_insert(b), ~Below(c, m)
  PROVE  s <= b
<1> USE WidthFacts
<1>1. /\ s \in Nat /\ sl_count <= s
      /\ b \in SizeT /\ b \in Nat /\ sl_count <= b
  BY WidthAssumption DEF SizeT, Blocks, Supported
<1>2. PICK f \in Fls(s) : /\ s + Pow2[f - sli] - 1 \in SizeT
                          /\ m \in mapping_insert(s + Pow2[f - sli] - 1)
  BY SearchFacts
<1> DEFINE p == Pow2[f - sli]  r == s + p - 1
<1>3. /\ f \in 0..(SizeBits - 1) /\ Pow2[f] <= s /\ s < Pow2[f + 1] /\ p \in Nat \ {0}
  BY <1>1, FlsFacts, PowerFacts
<1>4. r \in SizeT /\ s <= r /\ sl_count <= r /\ m \in mapping_insert(r)
  BY <1>1, <1>2, <1>3
<1> HIDE DEF r
<1>5. PICK g \in Fls(r) : /\ m.fl = g /\ m.sl = r \div Pow2[g - sli] - sl_count
                          /\ r \div Pow2[g - sli] \in sl_count..(2 * sl_count - 1)
  BY <1>4, InsertFacts
<1>6. PICK h \in Fls(b) : /\ c.fl = h /\ c.sl = b \div Pow2[h - sli] - sl_count
                          /\ b \div Pow2[h - sli] \in sl_count..(2 * sl_count - 1)
  BY <1>1, InsertFacts
<1>7. /\ g \in 0..(SizeBits - 1) /\ Pow2[g] <= r /\ r < Pow2[g + 1]
      /\ g - sli \in 0..(SizeBits - 1) /\ Pow2[g] = Pow2[g - sli] * sl_count
  BY <1>4, FlsFacts
<1>8. h \in 0..(SizeBits - 1) /\ Pow2[h] <= b BY <1>1, FlsFacts
<1>9. /\ Pow2[f] \in Nat /\ Pow2[g] \in Nat /\ Pow2[h] \in Nat
      /\ Pow2[f + 1] \in Nat /\ Pow2[g + 1] \in Nat /\ Pow2[g - sli] \in Nat \ {0}
  BY <1>3, <1>7, <1>8, PowerFacts
<1>10. CASE h > g
  <2>1. Pow2[g + 1] <= Pow2[h] BY <1>7, <1>8, <1>10, PowerFacts
  <2> QED BY <1>1, <1>4, <1>7, <1>8, <1>9, <2>1 DEF SizeT
<1>11. CASE h = g
  <2> DEFINE d == Pow2[g - sli]  q == r \div d  u == b \div d
  <2>1. /\ d \in Nat \ {0} /\ r \in Int /\ b \in Int
    BY <1>1, <1>4, <1>9 DEF SizeT
  <2>2. q \in Int /\ r % d \in 0..(d-1) /\ r = d * q + (r % d) BY <2>1, DivMod
  <2>3. u \in Int /\ b % d \in 0..(d-1) /\ b = d * u + (b % d) BY <2>1, DivMod
  <2>4. q <= u
    <3>1. ~(c.sl < m.sl) BY <1>5, <1>6, <1>11 DEF Below
    <3>2. m.sl = q - sl_count /\ c.sl = u - sl_count BY <1>5, <1>6, <1>11
    <3> QED BY <2>2, <2>3, <3>1, <3>2
  <2>5. sl_count <= q BY <1>5
  <2> HIDE DEF d, q, u
  <2>6. d * q <= d * u BY <2>1, <2>2, <2>3, <2>4
  <2>7. s <= d * q
    <3>1. CASE g = f
      <4>1. d = p BY <3>1 DEF d
      <4> QED BY <1>1, <1>3, <2>1, <2>2, <4>1 DEF r
    <3>2. CASE g > f
      <4>1. Pow2[f + 1] <= Pow2[g] BY <1>3, <1>7, <3>2, PowerFacts
      <4>2. Pow2[g] = d * sl_count BY <1>7 DEF d
      <4>3. d * sl_count <= d * q BY <2>1, <2>2, <2>5
      <4> QED BY <1>1, <1>3, <1>9, <2>1, <2>2, <4>1, <4>2, <4>3
    <3>3. CASE g < f
      <4>1. Pow2[g + 1] <= Pow2[f] BY <1>3, <1>7, <3>3, PowerFacts
      <4> QED BY <1>1, <1>3, <1>4, <1>7, <1>9, <2>1, <4>1
    <3> QED BY <1>3, <1>7, <3>1, <3>2, <3>3
  <2> QED BY <1>1, <2>1, <2>2, <2>3, <2>6, <2>7
<1>12. CASE h < g
  <2>1. Below(c, m) BY <1>5, <1>6, <1>12 DEF Below
  <2> QED BY <2>1
<1> QED BY <1>7, <1>8, <1>10, <1>11, <1>12

-----------------------------------------------------------------------------
(* One answer, and the order of the classes.                               *)

\* A size has one highest bit.
LEMMA FlsUnique ==
  ASSUME NEW s \in SizeT, NEW f \in Fls(s), NEW g \in Fls(s), s # 0 PROVE f = g
<1> USE WidthFacts
<1>1. /\ f \in 0..(SizeBits - 1) /\ Pow2[f] <= s /\ s < Pow2[f + 1]
      /\ g \in 0..(SizeBits - 1) /\ Pow2[g] <= s /\ s < Pow2[g + 1]
  BY DEF Fls
<1>2. /\ s \in Nat /\ Pow2[f] \in Nat /\ Pow2[f + 1] \in Nat
      /\ Pow2[g] \in Nat /\ Pow2[g + 1] \in Nat
  BY <1>1, PowerFacts DEF SizeT
<1>3. f < g => Pow2[f + 1] <= Pow2[g] BY <1>1, PowerFacts
<1>4. g < f => Pow2[g + 1] <= Pow2[f] BY <1>1, PowerFacts
<1> QED BY <1>1, <1>2, <1>3, <1>4

ClassOf(s, f) == [fl |-> f, sl |-> s \div Pow2[f - sli] - sl_count]

\* From sl_count on no operation of mapping_insert is undefined.
LEMMA InsertUnique ==
  ASSUME NEW s \in SizeT, sl_count <= s, NEW f \in Fls(s)
  PROVE  mapping_insert(s) = {ClassOf(s, f)}
<1> USE WidthFacts
<1>1. s # 0 /\ \A g \in Fls(s) : g = f
  <2>1. s # 0 BY DEF SizeT
  <2> QED BY <2>1, FlsUnique
<1>2. ToUnsigned(f) = f /\ ToSize(f - sli) = f - sli /\ f - sli < SizeBits
  BY FlsFacts
<1>3. mapping_insert(s) = {[fl |-> f, sl |-> ToUnsigned(s \div Pow2[f - sli] - sl_count)]}
  <2>1. ShiftRight(s, ToSize(ToUnsigned(f) - sli)) = {s \div Pow2[f - sli]}
    BY <1>2 DEF ShiftRight
  <2>2. Fls(s) = {f} BY <1>1
  <2> QED BY <1>2, <2>1, <2>2 DEF mapping_insert
<1>4. PICK c : c \in mapping_insert(s) BY <1>3
<1>5. c.sl = s \div Pow2[f - sli] - sl_count BY <1>1, <1>4, InsertFacts
<1>6. c.sl = ToUnsigned(s \div Pow2[f - sli] - sl_count) BY <1>3, <1>4
<1> QED BY <1>3, <1>5, <1>6 DEF ClassOf

\* Of two sizes with the same highest bit the larger has the larger quotient.
LEMMA QuotientsGrow ==
  ASSUME NEW d \in Nat \ {0}, NEW a \in Nat, NEW b \in Nat, a <= b
  PROVE  a \div d \in Int /\ b \div d \in Int /\ a \div d <= b \div d
<1> DEFINE q == a \div d  u == b \div d
<1>1. q \in Int /\ a % d \in 0..(d-1) /\ a = d * q + (a % d) BY DivMod
<1>2. u \in Int /\ b % d \in 0..(d-1) /\ b = d * u + (b % d) BY DivMod
<1> HIDE DEF q, u
<1>3. q <= u
  <2> SUFFICES ASSUME u + 1 <= q PROVE FALSE BY <1>1, <1>2
  <2>1. d * (u + 1) <= d * q BY <1>1, <1>2
  <2>2. d * (u + 1) = d * u + d BY <1>2
  <2> QED BY <1>1, <1>2, <2>1, <2>2
<1> QED BY <1>1, <1>2, <1>3 DEF q, u

\* Larger blocks are not filed below smaller ones.
LEMMA InsertMonotone ==
  ASSUME NEW a \in SizeT, NEW b \in SizeT, sl_count <= a, a <= b,
         NEW c \in mapping_insert(a), NEW m \in mapping_insert(b)
  PROVE  ~Below(m, c)
<1> USE WidthFacts
<1>1. a \in Nat /\ b \in Nat /\ sl_count <= b BY DEF SizeT
<1>2. PICK f \in Fls(a) : c.fl = f /\ c.sl = a \div Pow2[f - sli] - sl_count
  BY InsertFacts
<1>3. PICK g \in Fls(b) : m.fl = g /\ m.sl = b \div Pow2[g - sli] - sl_count
  BY <1>1, InsertFacts
<1>4. /\ f \in 0..(SizeBits - 1) /\ Pow2[f] <= a /\ f - sli \in 0..(SizeBits - 1)
  BY FlsFacts
<1>5. g \in 0..(SizeBits - 1) /\ b < Pow2[g + 1] BY <1>1, FlsFacts
<1>6. Pow2[f] \in Nat /\ Pow2[g + 1] \in Nat /\ Pow2[f - sli] \in Nat \ {0}
  BY <1>4, <1>5, PowerFacts
<1>7. f <= g
  <2> SUFFICES ASSUME g < f PROVE FALSE BY <1>4, <1>5
  <2>1. Pow2[g + 1] <= Pow2[f] BY <1>4, <1>5, PowerFacts
  <2> QED BY <1>1, <1>4, <1>5, <1>6, <2>1
<1>8. f = g => ~(m.sl < c.sl)
  <2> SUFFICES ASSUME f = g PROVE ~(m.sl < c.sl) OBVIOUS
  <2> DEFINE q == a \div Pow2[f - sli]  u == b \div Pow2[f - sli]
  <2>1. q \in Int /\ u \in Int /\ q <= u BY <1>1, <1>6, QuotientsGrow
  <2>2. c.sl = q - sl_count /\ m.sl = u - sl_count BY <1>2, <1>3
  <2> HIDE DEF q, u
  <2> QED BY <2>1, <2>2
<1> QED BY <1>2, <1>3, <1>4, <1>5, <1>7, <1>8 DEF Below

\* A class of a block has one of the sl_count places of the second level.
LEMMA SecondLevel ==
  ASSUME NEW s \in SizeT, sl_count <= s, NEW c \in mapping_insert(s)
  PROVE  c.fl \in Int /\ c.sl \in 0..(sl_count - 1)
<1>1. PICK f \in Fls(s) : /\ c.fl = f
                          /\ c.sl = s \div Pow2[f - sli] - sl_count
                          /\ s \div Pow2[f - sli] \in sl_count..(2 * sl_count - 1)
  BY InsertFacts
<1>2. f \in Int BY FlsFacts, WidthFacts
<1> QED BY <1>1, <1>2, WidthFacts

-----------------------------------------------------------------------------
(* Rounding up skips no class needlessly.                                  *)

\* A supported request is rounded up by one amount.
LEMMA SearchUnique ==
  ASSUME NEW s \in SizeT, Supported(s), NEW f \in Fls(s)
  PROVE  /\ s + Pow2[f - sli] - 1 \in SizeT
         /\ mapping_search(s) = mapping_insert(s + Pow2[f - sli] - 1)
<1> USE WidthFacts
<1>1. s \in Nat /\ s # 0 /\ sl_count <= s BY DEF Supported, SizeT
<1>2. Fls(s) = {f} BY <1>1, FlsUnique
<1>3. /\ f \in sli..(SizeBits - 1) /\ Pow2[f] <= s /\ ToSize(f - sli) = f - sli
      /\ f - sli \in 0..(SizeBits - 1)
  BY <1>1, FlsFacts
<1>4. f < UnsignedBits + sli
  <2> SUFFICES ASSUME UnsignedBits + sli <= f PROVE FALSE BY <1>3
  <2>1. Pow2[UnsignedBits + sli] <= Pow2[f] BY <1>3, PowerFacts
  <2>2. Pow2[UnsignedBits + sli] \in Nat /\ Pow2[f] \in Nat BY <1>3, PowerFacts
  <2> QED BY <1>1, <1>3, <2>1, <2>2 DEF Supported
<1>5. Steps(s) = {Pow2[f - sli]} BY <1>2, <1>3, <1>4 DEF Steps, OneShifted
<1> DEFINE p == Pow2[f - sli]
<1>6. mapping_search(s) = mapping_insert(ToSize(s + p - 1)) BY <1>5 DEF mapping_search
<1>7. s + p - 1 \in 0..(Pow2[SizeBits] - 1)
  <2> DEFINE k == UnsignedBits + sli
  <2>1. Pow2[k + 1] = 2 * Pow2[k] /\ Pow2[k + 1] <= Pow2[SizeBits]
        /\ Pow2[k] \in Nat /\ Pow2[k + 1] \in Nat
    BY PowerFacts
  <2>2. Pow2[f] \in Nat /\ p \in Nat \ {0} /\ p <= Pow2[f] BY <1>3, PowerFacts
  <2>3. s < Pow2[k] BY DEF Supported
  <2> QED BY <1>1, <1>3, <2>1, <2>2, <2>3
<1>8. ToSize(s + p - 1) = s + p - 1 BY <1>7, Fits
<1> QED BY <1>6, <1>7, <1>8 DEF SizeT

\* A number that is no multiple of d shares its quotient with the one before, and d - 1
\* more make its quotient the next; a multiple keeps its quotient for d - 1 more.
LEMMA RoundingUp ==
  ASSUME NEW d \in Nat \ {0}, NEW s \in Nat \ {0}
  PROVE  \/ (s + d - 1) \div d = s \div d
         \/ (s + d - 1) \div d = s \div d + 1 /\ (s - 1) \div d = s \div d
            /\ d * (s \div d) <= s - 1
<1> DEFINE q == s \div d  t == s % d
           u == (s + d - 1) \div d  v == (s + d - 1) % d
           w == (s - 1) \div d  z == (s - 1) % d
<1>1. q \in Int /\ t \in 0..(d-1) /\ s = d * q + t BY DivMod
<1>2. u \in Int /\ v \in 0..(d-1) /\ s + d - 1 = d * u + v
  <2>1. s + d - 1 \in Int OBVIOUS
  <2> QED BY <2>1, DivMod
<1>3. w \in Int /\ z \in 0..(d-1) /\ s - 1 = d * w + z BY DivMod
<1> HIDE DEF q, t, u, v, w, z
<1>4. CASE t = 0
  <2>1. d - 1 \in 0..(d-1) /\ d * u + v = d * q + (d - 1) BY <1>1, <1>2, <1>4
  <2>2. u = q BY <1>1, <1>2, <2>1, ModUnique
  <2> QED BY <2>2 DEF q, u
<1>5. CASE t # 0
  <2>1. t - 1 \in 0..(d-1) BY <1>1, <1>5
  <2>2. d * (q + 1) = d * q + d BY <1>1
  <2>3. d * u + v = d * (q + 1) + (t - 1) /\ d * w + z = d * q + (t - 1)
    BY <1>1, <1>2, <1>3, <2>2
  <2>4. u = q + 1 BY <1>1, <1>2, <2>1, <2>3, ModUnique
  <2>5. w = q BY <1>1, <1>3, <2>1, <2>3, ModUnique
  <2>6. d * q <= s - 1 BY <1>1, <1>5
  <2> QED BY <2>4, <2>5, <2>6 DEF q, u, w
<1> QED BY <1>4, <1>5

\* The class after a class: the next place of the second level, or the first one of the
\* next first level.
LEMMA NextClass ==
  ASSUME NEW s \in SizeT, sl_count <= s, NEW f \in Fls(s),
         NEW r \in SizeT, s <= r, r \div Pow2[f - sli] = s \div Pow2[f - sli] + 1,
         r <= s + Pow2[f - sli], NEW m \in mapping_insert(r)
  PROVE  \/ m.fl = f /\ m.sl = s \div Pow2[f - sli] + 1 - sl_count
         \/ m.fl = f + 1 /\ m.sl = 0 /\ s \div Pow2[f - sli] = 2 * sl_count - 1
<1> USE WidthFacts
<1> DEFINE d == Pow2[f - sli]  q == s \div d  u == r \div d
<1>1. /\ f \in sli..(SizeBits - 1) /\ Pow2[f] <= s /\ s < Pow2[f + 1]
      /\ f - sli \in 0..(SizeBits - 1)
      /\ Pow2[f] = d * sl_count /\ Pow2[f + 1] = d * (2 * sl_count)
  BY FlsFacts
<1>2. d \in Nat \ {0} /\ s \in Nat /\ r \in Nat /\ sl_count <= r
  BY <1>1, PowerFacts DEF SizeT
<1>3. q \in Int /\ s % d \in 0..(d-1) /\ s = d * q + (s % d)
  <2> HIDE DEF d
  <2> QED BY <1>2, DivMod
<1>4. u \in Int /\ r % d \in 0..(d-1) /\ r = d * u + (r % d) /\ u = q + 1
  <2>1. u = q + 1 OBVIOUS
  <2> HIDE DEF d
  <2> QED BY <1>2, <2>1, DivMod
<1>5. PICK g \in Fls(r) : /\ m.fl = g /\ m.sl = r \div Pow2[g - sli] - sl_count
                          /\ r \div Pow2[g - sli] \in sl_count..(2 * sl_count - 1)
  BY <1>2, InsertFacts
<1>6. /\ g \in sli..(SizeBits - 1) /\ Pow2[g] <= r /\ r < Pow2[g + 1]
      /\ g - sli \in 0..(SizeBits - 1)
      /\ Pow2[g] = Pow2[g - sli] * sl_count
  BY <1>2, FlsFacts
<1>7. /\ Pow2[f] \in Nat /\ Pow2[f + 1] \in Nat /\ Pow2[g] \in Nat
      /\ Pow2[g + 1] \in Nat /\ Pow2[g - sli] \in Nat \ {0}
  BY <1>1, <1>6, PowerFacts
<1>8. f <= g
  <2> SUFFICES ASSUME g < f PROVE FALSE BY <1>1, <1>6
  <2>1. Pow2[g + 1] <= Pow2[f] BY <1>1, <1>6, PowerFacts
  <2> QED BY <1>1, <1>2, <1>6, <1>7, <2>1
<1>9. CASE g = f
  <2>1. m.sl = u - sl_count BY <1>5, <1>9
  <2>2. m.sl = q + 1 - sl_count
    <3> HIDE DEF d, q, u
    <3> QED BY <1>3, <1>4, <2>1
  <2> HIDE DEF d, q, u
  <2> QED BY <1>5, <1>9, <2>2 DEF q, d
<1>10. CASE g > f
  <2>1. Pow2[f + 1] <= Pow2[g] BY <1>1, <1>6, <1>10, PowerFacts
  <2> DEFINE c == sl_count
  <2>2. c \in Nat \ {0} OBVIOUS
  <2> HIDE DEF d, q, u, c
  <2>3. d * (2 * c) <= r BY <1>1, <1>2, <1>6, <1>7, <2>1 DEF c
  <2>4. q < 2 * c
    <3> SUFFICES ASSUME 2 * c <= q PROVE FALSE BY <1>3, <2>2
    <3>1. d * (2 * c) <= d * q BY <1>2, <1>3, <2>2
    <3>2. d * (2 * c) \in Int /\ d * q \in Int BY <1>2, <1>3, <2>2
    <3> QED BY <1>1, <1>2, <1>3, <3>1, <3>2 DEF c
  <2>5. 2 * c <= u
    <3> SUFFICES ASSUME u + 1 <= 2 * c PROVE FALSE BY <1>4, <2>2
    <3>1. d * (u + 1) <= d * (2 * c) BY <1>2, <1>4, <2>2
    <3>2. d * (u + 1) = d * u + d BY <1>2, <1>4
    <3>3. d * (2 * c) \in Int /\ d * u \in Int BY <1>2, <1>4, <2>2
    <3> QED BY <1>2, <1>4, <2>3, <3>1, <3>2, <3>3
  <2>6. u = 2 * c /\ q = 2 * c - 1 BY <1>3, <1>4, <2>2, <2>4, <2>5
  <2>7. r < 2 * Pow2[f + 1]
    <3>1. r < Pow2[f + 1] + d BY <1>1, <1>2, <1>7 DEF d
    <3>2. d <= d * (2 * c) BY <1>2, <2>2
    <3> QED BY <1>1, <1>2, <1>7, <3>1, <3>2 DEF c
  <2>8. g = f + 1
    <3> SUFFICES ASSUME f + 2 <= g PROVE FALSE BY <1>1, <1>6, <1>10
    <3>1. /\ f + 1 \in 0..(SizeBits - 1) /\ f + 1 + 1 = f + 2 /\ f + 2 \in 0..SizeBits
      BY <1>1, <1>6
    <3>2. Pow2[f + 2] = 2 * Pow2[f + 1] BY <3>1, PowerFacts
    <3>3. Pow2[f + 2] <= Pow2[g] /\ Pow2[f + 2] \in Nat BY <1>6, <3>1, PowerFacts
    <3> QED BY <1>2, <1>6, <1>7, <2>7, <3>2, <3>3
  <2>9. m.sl = 0
    <3> DEFINE e == Pow2[g - sli]
    <3>1. e = 2 * d
      <4>1. g - sli = (f - sli) + 1 BY <1>1, <1>6, <2>8
      <4> QED BY <1>1, <4>1, PowerFacts DEF d
    <3> DEFINE h == r \div e
    <3>2. e \in Nat \ {0} BY <1>7
    <3>3. h \in Int /\ r % e \in 0..(e-1) /\ r = e * h + (r % e)
      <4> HIDE DEF e
      <4> QED BY <1>2, <3>2, DivMod
    <3>4. h >= c BY <1>5 DEF c
    <3>5. m.sl = h - c BY <1>5 DEF c
    <3> HIDE DEF e, h
    <3>6. r < d * (2 * c) + d
      <4>1. r < Pow2[f + 1] + d BY <1>1, <1>2, <1>7 DEF d
      <4> QED BY <1>1, <4>1 DEF c
    <3>7. ~(c + 1 <= h)
      <4> SUFFICES ASSUME c + 1 <= h PROVE FALSE OBVIOUS
      <4>1. e * (c + 1) <= e * h BY <2>2, <3>2, <3>3
      <4>2. e * (c + 1) = d * (2 * c) + (2 * d) BY <1>2, <2>2, <3>1
      <4>3. d * (2 * c) \in Int /\ e * h \in Int BY <1>2, <2>2, <3>2, <3>3
      <4> QED BY <1>2, <3>3, <3>6, <4>1, <4>2, <4>3
    <3> QED BY <2>2, <3>3, <3>4, <3>5, <3>7
  <2> QED BY <1>5, <2>6, <2>8, <2>9 DEF q, d, c
<1> QED BY <1>1, <1>6, <1>8, <1>9, <1>10

\* A block that fits and is passed over shares its class with the request and with the
\* size below it.
LEMMA PassedOver ==
  ASSUME NEW s \in SizeT, Supported(s), NEW m \in mapping_search(s),
         NEW b \in Blocks, NEW c \in mapping_insert(b), s <= b, Below(c, m)
  PROVE  mapping_insert(s) = {c} /\ mapping_insert(s - 1) = {c}
<1> USE WidthFacts
<1>1. s \in Nat \ {0} /\ sl_count <= s BY DEF Supported, SizeT
<1>2. PICK f \in Fls(s) : /\ s + Pow2[f - sli] - 1 \in SizeT
                          /\ m \in mapping_insert(s + Pow2[f - sli] - 1)
  BY SearchFacts
<1> DEFINE d == Pow2[f - sli]  r == s + d - 1  q == s \div d
<1>3. /\ f \in sli..(SizeBits - 1) /\ Pow2[f] <= s /\ s < Pow2[f + 1]
      /\ f - sli \in 0..(SizeBits - 1) /\ Pow2[f] = d * sl_count
  BY <1>1, FlsFacts
<1>4. d \in Nat \ {0} /\ Pow2[f] \in Nat /\ Pow2[f + 1] \in Nat BY <1>3, PowerFacts
<1>5. b \in SizeT /\ b \in Nat /\ sl_count <= b BY <1>1 DEF Blocks, SizeT
<1>6. mapping_insert(s) = {ClassOf(s, f)} BY <1>1, InsertUnique
<1>7. c.fl \in Int /\ c.sl \in 0..(sl_count - 1) BY <1>5, SecondLevel
<1>8. ~Below(c, ClassOf(s, f)) BY <1>1, <1>5, <1>6, InsertMonotone
<1>9. q \in Int /\ s % d \in 0..(d-1) /\ s = d * q + (s % d)
  <2> HIDE DEF d
  <2> QED BY <1>1, <1>4, DivMod
<1>10. r \in SizeT /\ s <= r /\ sl_count <= r /\ r <= s + d BY <1>1, <1>2, <1>4
<1>11. CASE r \div d = q
  <2>1. PICK g \in Fls(r) : m.fl = g /\ m.sl = r \div Pow2[g - sli] - sl_count
                            /\ r \div Pow2[g - sli] \in sl_count..(2 * sl_count - 1)
    BY <1>2, <1>10, InsertFacts
  <2>2. g \in 0..(SizeBits - 1) /\ Pow2[g] <= r /\ r < Pow2[g + 1] BY <1>10, FlsFacts
  <2>3. f \in Fls(r)
    <3>1. r < Pow2[f + 1]
      <4>1. Pow2[f + 1] = d * (2 * sl_count) BY <1>1, FlsFacts
      <4>2. r \in Int /\ r % d \in 0..(d-1) /\ r = d * q + (r % d)
        <5>1. r \in Int BY <1>1, <1>4
        <5> HIDE DEF d, r, q
        <5> QED BY <1>4, <1>11, <5>1, DivMod
      <4>3. s % d \in 0..(d-1) /\ s = d * q + (s % d) BY <1>9
      <4> DEFINE k == 2 * sl_count
      <4>4. k \in Nat OBVIOUS
      <4> HIDE DEF d, q, r, k
      <4>5. q + 1 <= k
        <5> SUFFICES ASSUME k <= q PROVE FALSE BY <1>9, <4>4
        <5>1. d * k <= d * q BY <1>4, <1>9, <4>4
        <5>2. d * k \in Int /\ d * q \in Int BY <1>4, <1>9, <4>4
        <5> QED BY <1>1, <1>3, <1>4, <4>1, <4>3, <5>1, <5>2 DEF k
      <4>6. d * (q + 1) <= d * k /\ d * (q + 1) = d * q + d BY <1>4, <1>9, <4>4, <4>5
      <4>7. d * k \in Int /\ d * q \in Int BY <1>4, <1>9, <4>4
      <4> QED BY <1>4, <4>1, <4>2, <4>6, <4>7 DEF k
    <3>2. Pow2[f] <= r BY <1>1, <1>3, <1>4, <1>10
    <3> QED BY <1>1, <1>3, <1>10, <3>1, <3>2 DEF Fls
  <2>4. g = f
    <3>1. r # 0 BY <1>1, <1>4
    <3> HIDE DEF r
    <3> QED BY <1>10, <2>3, <3>1, FlsUnique
  <2>5. m.fl = f /\ m.sl = q - sl_count BY <1>11, <2>1, <2>4
  <2>6. ClassOf(s, f).fl = f /\ ClassOf(s, f).sl = q - sl_count BY DEF ClassOf
  <2> QED BY <1>8, <2>5, <2>6 DEF Below
<1>12. CASE r \div d = q + 1 /\ (s - 1) \div d = q /\ d * q <= s - 1
  <2>1. \/ m.fl = f /\ m.sl = q + 1 - sl_count
        \/ m.fl = f + 1 /\ m.sl = 0 /\ q = 2 * sl_count - 1
    BY <1>1, <1>2, <1>10, <1>12, NextClass
  <2>2. ClassOf(s, f).fl = f /\ ClassOf(s, f).sl = q - sl_count BY DEF ClassOf
  <2>3. f \in Int BY <1>3
  <2> HIDE DEF q, d
  <2>4. c.fl = f /\ c.sl = q - sl_count
    <3>1. ~(c.fl < f) /\ (c.fl = f => ~(c.sl < q - sl_count)) BY <1>8, <2>2 DEF Below
    <3>2. c.fl < m.fl \/ (c.fl = m.fl /\ c.sl < m.sl) BY DEF Below
    <3> QED BY <1>7, <1>9, <2>1, <2>3, <3>1, <3>2
  <2>5. c = ClassOf(s, f)
    <3>1. PICK h \in Fls(b) : c \in mapping_insert(b) /\ c.fl = h BY <1>5, InsertFacts
    <3>2. c = ClassOf(b, h) BY <1>5, InsertUnique
    <3>3. c = [fl |-> c.fl, sl |-> c.sl] BY <3>2 DEF ClassOf
    <3> QED BY <2>4, <3>3 DEF ClassOf, q, d
  <2>6. sl_count <= q
    <3>1. PICK h \in Fls(s) : /\ ClassOf(s, f).fl = h
                              /\ s \div Pow2[h - sli] \in sl_count..(2 * sl_count - 1)
      BY <1>1, <1>6, InsertFacts
    <3> QED BY <2>2, <3>1 DEF q, d
  <2>7. Pow2[f] <= s - 1
    <3>1. d * sl_count <= d * q BY <1>4, <1>9, <2>6
    <3>2. d * sl_count \in Int /\ d * q \in Int BY <1>4, <1>9
    <3> QED BY <1>1, <1>3, <1>12, <3>1, <3>2 DEF q, d
  <2>8. s - 1 \in SizeT /\ s - 1 # 0 BY <1>1, <1>3, <2>7, PowerFacts DEF SizeT
  <2>9. f \in Fls(s - 1) BY <1>1, <1>3, <1>4, <2>7, <2>8 DEF Fls, SizeT
  <2>10. sl_count <= s - 1
    <3>1. sl_count <= d * sl_count BY <1>4
    <3> QED BY <1>1, <1>3, <1>4, <2>7, <3>1 DEF d
  <2>11. mapping_insert(s - 1) = {ClassOf(s - 1, f)} BY <2>8, <2>9, <2>10, InsertUnique
  <2>12. ClassOf(s - 1, f) = ClassOf(s, f) BY <1>12 DEF ClassOf, q, d
  <2> QED BY <1>6, <2>5, <2>11, <2>12
<1> QED BY <1>1, <1>4, <1>11, <1>12, RoundingUp

-----------------------------------------------------------------------------
(* The invariants.                                                         *)

\* A finished call has one of the outcomes of its function; the loop of
\* floor_log2_const has divided its argument by a power of two.
CallInv ==
  /\ arg \in SizeT
  /\ fn = "mapping_insert" => mapping \in mapping_insert(arg)
  /\ fn = "mapping_search" => mapping \in mapping_search(arg)
  /\ looping => fn = "floor_log2_const"
  /\ fn = "floor_log2_const" /\ arg # 0 =>
       /\ x \in Nat /\ x # 0 /\ result \in 0..(SizeBits - 1)
       /\ Pow2[result] * x <= arg /\ arg < Pow2[result] * (x + 1)
       /\ looping \/ x = 1

\* No call has been made.
LEMMA InitCall == Init => CallInv
BY WidthFacts DEF Init, CallInv, SizeT

\* One round of the loop: result is one more, and still a place in size_t.
LEMMA HalveCall == ASSUME CallInv, Halve PROVE CallInv'
<1> USE WidthFacts
<1>1. /\ looping /\ x > 1 /\ x' = x \div 2 /\ result' = result + 1
      /\ UNCHANGED <<fn, arg, mapping, looping>> /\ fn = "floor_log2_const"
  BY DEF Halve, CallInv
<1>2. ASSUME arg # 0
      PROVE  /\ x' \in Nat /\ x' # 0 /\ result' \in 0..(SizeBits - 1)
             /\ Pow2[result'] * x' <= arg /\ arg < Pow2[result'] * (x' + 1)
  <2> DEFINE p == Pow2[result]
  <2>1. /\ x \in Nat /\ result \in 0..(SizeBits - 1) /\ arg \in Nat
        /\ p * x <= arg /\ arg < p * (x + 1) /\ arg < Pow2[SizeBits]
    BY <1>1, <1>2 DEF CallInv, SizeT
  <2>2. p \in Nat \ {0} /\ Pow2[result + 1] = 2 * p BY <2>1, PowerFacts
  <2>3. x \div 2 \in Nat /\ 2 * (x \div 2) <= x /\ x <= 2 * (x \div 2) + 1 /\ x \div 2 # 0
    BY <1>1, <2>1
  <2> DEFINE y == x \div 2
  <2> HIDE DEF p, y
  <2>4. y \in Nat /\ y # 0 /\ 2 * y <= x /\ x + 1 <= 2 * (y + 1) BY <2>1, <2>3 DEF y
  <2>5. p * (2 * y) <= p * x /\ p * (x + 1) <= p * (2 * (y + 1))
    BY <2>1, <2>2, <2>4
  <2>6. (2 * p) * y = p * (2 * y) /\ (2 * p) * (y + 1) = p * (2 * (y + 1))
    BY <2>2, <2>4
  <2>7. (2 * p) * y <= arg /\ arg < (2 * p) * (y + 1)
    <3> DEFINE e == (2 * p) * y  g == (2 * p) * (y + 1)
    <3>1. e \in Int /\ g \in Int /\ p * x \in Int /\ p * (x + 1) \in Int
      BY <2>1, <2>2, <2>4
    <3>2. e <= p * x /\ p * (x + 1) <= g BY <2>5, <2>6
    <3> HIDE DEF e, g
    <3>3. e <= arg /\ arg < g BY <2>1, <3>1, <3>2
    <3> QED BY <3>3 DEF e, g
  <2>8. result + 1 \in 0..(SizeBits - 1)
    <3> SUFFICES ASSUME result = SizeBits - 1 PROVE FALSE BY <2>1
    <3>1. Pow2[SizeBits] = 2 * p BY <2>2
    <3>2. 2 * p <= (2 * p) * y BY <2>2, <2>4
    <3> QED BY <2>1, <2>2, <2>4, <2>7, <3>1, <3>2
  <2> QED BY <1>1, <2>2, <2>4, <2>7, <2>8 DEF y
<1> QED BY <1>1, <1>2 DEF CallInv

\* Every step keeps the invariant of the calls.
LEMMA StepCall == CallInv /\ [Next]_vars => CallInv'
<1> SUFFICES ASSUME CallInv, [Next]_vars PROVE CallInv' OBVIOUS
<1> USE WidthFacts
<1>1. ASSUME NEW s \in SizeT, CallInsert(s) PROVE CallInv'
  BY <1>1 DEF CallInsert, CallInv
<1>2. ASSUME NEW s \in SizeT, CallSearch(s) PROVE CallInv'
  BY <1>2 DEF CallSearch, CallInv
<1>3. ASSUME NEW s \in SizeT, CallFloorLog2(s) PROVE CallInv'
  <2>1. /\ fn' = "floor_log2_const" /\ arg' = s /\ looping' = TRUE /\ x' = s /\ result' = 0
    BY <1>3 DEF CallFloorLog2
  <2>2. s \in Nat /\ Pow2[0] * s <= s /\ s < Pow2[0] * (s + 1)
    BY PowerAssumption DEF SizeT
  <2> QED BY <2>1, <2>2 DEF CallInv
<1>4. CASE LeaveLoop BY <1>4 DEF LeaveLoop, CallInv
<1>5. CASE Return BY <1>5 DEF Return, CallInv, SizeT
<1>6. CASE UNCHANGED vars BY <1>6 DEF vars, CallInv
<1> QED BY <1>1, <1>2, <1>3, <1>4, <1>5, <1>6, HalveCall DEF Next

\* CallInv holds throughout.
LEMMA CallsInvariant == Spec => []CallInv
BY InitCall, StepCall, PTL DEF Spec

\* mapping_search never returns a class that holds, or is followed by one that holds, a
\* block too small for the request.
THEOREM SearchIsGoodFit == Spec => []GoodFit
<1>1. CallInv => GoodFit BY SearchFits DEF CallInv, GoodFit
<1> QED BY <1>1, CallsInvariant, PTL

\* floor_log2_const returns the place of the highest bit of its argument.
THEOREM FloorLog2Correct ==
  Spec => [](fn = "floor_log2_const" /\ ~looping /\ arg # 0 => result \in Fls(arg))
<1>1. CallInv => (fn = "floor_log2_const" /\ ~looping /\ arg # 0 => result \in Fls(arg))
  <2> SUFFICES ASSUME CallInv, fn = "floor_log2_const", ~looping, arg # 0
               PROVE  result \in Fls(arg)
    OBVIOUS
  <2>1. /\ x = 1 /\ result \in 0..(SizeBits - 1)
        /\ Pow2[result] * x <= arg /\ arg < Pow2[result] * (x + 1)
    BY DEF CallInv
  <2>2. Pow2[result] \in Nat /\ Pow2[result + 1] = 2 * Pow2[result]
    BY <2>1, PowerFacts, WidthFacts
  <2> QED BY <2>1, <2>2 DEF Fls
<1> QED BY <1>1, CallsInvariant, PTL

\* The second level stays within its lists, and no block is filed below a smaller one.
THEOREM BlocksOrdered == Spec => []ClassesOrdered
<1>1. CallInv => ClassesOrdered
  <2> SUFFICES ASSUME CallInv, fn = "mapping_insert", arg >= mbs
               PROVE  /\ mapping.sl < sl_count
                      /\ \A b \in mbs..arg : \A c \in mapping_insert(b) : ~Below(mapping, c)
    BY DEF ClassesOrdered
  <2>1. /\ arg \in SizeT /\ mapping \in mapping_insert(arg) /\ arg \in Nat
        /\ mbs \in Nat /\ sl_count <= mbs
    BY WidthAssumption DEF CallInv, SizeT
  <2>2. sl_count <= arg BY <2>1, WidthFacts
  <2>3. mapping.sl < sl_count BY <2>1, <2>2, SecondLevel, WidthFacts
  <2>4. ASSUME NEW b \in mbs..arg, NEW c \in mapping_insert(b) PROVE ~Below(mapping, c)
    <3>1. b \in SizeT /\ sl_count <= b /\ b <= arg BY <2>1, WidthFacts DEF SizeT
    <3> QED BY <2>1, <3>1, InsertMonotone
  <2> QED BY <2>3, <2>4
<1> QED BY <1>1, CallsInvariant, PTL

\* A supported request has one answer, and rounding it up skips no class needlessly.
THEOREM SearchSkipsNothing == Spec => []SkipsOnlyOwnClass
<1>1. CallInv => SkipsOnlyOwnClass
  <2> SUFFICES ASSUME CallInv, fn = "mapping_search", Supported(arg)
               PROVE  /\ mapping_search(arg) = {mapping}
                      /\ \A b \in Blocks : \A c \in mapping_insert(b) :
                           arg <= b /\ Below(c, mapping)
                             => mapping_insert(arg) = {c} /\ mapping_insert(arg - 1) = {c}
    BY DEF SkipsOnlyOwnClass
  <2>1. arg \in SizeT /\ mapping \in mapping_search(arg) BY DEF CallInv
  <2>2. mapping_search(arg) = {mapping}
    <3>1. PICK f \in Fls(arg) : arg + Pow2[f - sli] - 1 \in SizeT BY <2>1, SearchFacts
    <3> DEFINE r == arg + Pow2[f - sli] - 1
    <3>2. mapping_search(arg) = mapping_insert(r) BY <2>1, SearchUnique
    <3>3. Pow2[f - sli] \in Nat \ {0} /\ sl_count <= arg /\ arg \in Nat
      BY <2>1, FlsFacts, PowerFacts, WidthFacts DEF Supported, SizeT
    <3>4. r \in SizeT /\ sl_count <= r BY <3>1, <3>3, WidthFacts
    <3>5. PICK g \in Fls(r) : mapping.fl = g BY <2>1, <3>2, <3>4, InsertFacts
    <3>6. mapping_insert(r) = {ClassOf(r, g)} BY <3>4, <3>5, InsertUnique
    <3> QED BY <2>1, <3>2, <3>6
  <2> QED BY <2>1, <2>2, PassedOver
<1> QED BY <1>1, CallsInvariant, PTL

-----------------------------------------------------------------------------
(* Types, and powers of two.                                               *)

\* Conversions end in their types.
LEMMA Converted ==
  ASSUME NEW n \in Int PROVE ToSize(n) \in SizeT /\ ToUnsigned(n) \in UnsignedT
BY DivMod, WidthFacts DEF ToSize, ToUnsigned, SizeT, UnsignedT

\* The outcomes of mapping_insert have their type, defined or not.
LEMMA InsertTypes == ASSUME NEW t \in SizeT PROVE mapping_insert(t) \subseteq Mapping
<1> USE WidthFacts
<1> SUFFICES ASSUME NEW c \in mapping_insert(t) PROVE c \in Mapping OBVIOUS
<1>2. PICK f \in Fls(t) : \E q \in ShiftRight(t, ToSize(ToUnsigned(f) - sli)) :
        c = [fl |-> ToUnsigned(f), sl |-> ToUnsigned(q - sl_count)]
  BY DEF mapping_insert
<1> DEFINE n == ToSize(ToUnsigned(f) - sli)
<1>3. PICK q \in ShiftRight(t, n) : c = [fl |-> ToUnsigned(f), sl |-> ToUnsigned(q - sl_count)]
  BY <1>2
<1>4. f \in Int BY DEF Fls, SizeT
<1>5. n \in Nat
  <2>1. ToUnsigned(f) - sli \in Int BY <1>4, Converted DEF UnsignedT
  <2> QED BY <2>1, Converted DEF SizeT
<1> HIDE DEF n
<1>6. q \in Int
  <2>1. CASE n < SizeBits
    <3>1. Pow2[n] \in Nat \ {0} BY <1>5, <2>1, PowerFacts
    <3>2. t \div Pow2[n] \in Int
      <4>1. t \in Int BY DEF SizeT
      <4> QED BY <3>1, <4>1, DivMod
    <3> QED BY <1>3, <2>1, <3>2 DEF ShiftRight
  <2>2. CASE ~(n < SizeBits) BY <1>3, <2>2 DEF ShiftRight, SizeT
  <2> QED BY <2>1, <2>2
<1>7. q - sl_count \in Int BY <1>6
<1> QED BY <1>3, <1>4, <1>7, Converted DEF Mapping

\* So have those of mapping_search.
LEMMA SearchTypes == ASSUME NEW t \in SizeT PROVE mapping_search(t) \subseteq Mapping
<1> USE WidthFacts
<1> SUFFICES ASSUME NEW c \in mapping_search(t) PROVE c \in Mapping OBVIOUS
<1>1. PICK p \in Steps(t) : c \in mapping_insert(ToSize(t + p - 1)) BY DEF mapping_search
<1>2. PICK f \in Fls(t) : p \in OneShifted(ToSize(f - sli)) BY <1>1 DEF Steps
<1> DEFINE n == ToSize(f - sli)
<1>3. n \in Nat
  <2>1. f - sli \in Int BY DEF Fls, SizeT
  <2> QED BY <2>1, Converted DEF SizeT
<1>4. p \in Int
  <2> HIDE DEF n
  <2>1. CASE n < UnsignedBits
    <3>1. Pow2[n] \in Nat BY <1>3, <2>1, PowerFacts
    <3> QED BY <1>2, <2>1, <3>1 DEF OneShifted, n
  <2>2. CASE ~(n < UnsignedBits) BY <1>2, <2>2 DEF OneShifted, UnsignedT, n
  <2> QED BY <2>1, <2>2
<1>5. ToSize(t + p - 1) \in SizeT
  <2>1. t + p - 1 \in Int BY <1>4 DEF SizeT
  <2> QED BY <2>1, Converted
<1> QED BY <1>1, <1>5, InsertTypes

\* A quotient is known by its remainder.
LEMMA QuotientIs ==
  ASSUME NEW d \in Nat \ {0}, NEW a \in Int, NEW q \in Int, NEW r \in 0..(d-1), a = d * q + r
  PROVE  a \div d = q
<1> DEFINE u == a \div d  v == a % d
<1>1. u \in Int /\ v \in 0..(d-1) /\ a = d * u + v BY DivMod
<1> HIDE DEF u, v
<1>2. u = q BY <1>1, ModUnique
<1> QED BY <1>2 DEF u

\* x & (x - 1) is zero for the powers of two alone.
LEMMA SingleBit ==
  ASSUME NEW s \in SizeT, s # 0, NEW f \in Fls(s)
  PROVE  has_single_bit(s) <=> Pow2[f] = s
<1> USE WidthFacts
<1> DEFINE p == Pow2[f]
<1>1. /\ f \in 0..(SizeBits - 1) /\ p \in Nat \ {0} /\ p <= s /\ s < 2 * p
      /\ s \in Nat /\ s - 1 \in Nat
  BY PowerFacts DEF Fls, SizeT
<1>2. ASSUME NEW n \in Nat, p <= n, n < 2 * p PROVE f \in Bits(n)
  <2> HIDE DEF p
  <2>1. n - p \in 0..(p-1) /\ n = p * 1 + (n - p) BY <1>1, <1>2
  <2>2. n \div p = 1 BY <1>1, <2>1, QuotientIs
  <2> QED BY <1>1, <2>2 DEF Bits, p
<1>3. ASSUME NEW n \in Nat, NEW b \in 0..(SizeBits - 1), n < Pow2[b] PROVE b \notin Bits(n)
  <2> DEFINE d == Pow2[b]
  <2>1. d \in Nat \ {0} /\ n \in 0..(d-1) BY <1>3, PowerFacts
  <2>2. n \div d = 0
    <3> HIDE DEF d
    <3>1. n = d * 0 + n BY <2>1
    <3> QED BY <2>1, <3>1, QuotientIs
  <2> QED BY <2>2 DEF Bits
<1>4. ASSUME p # s PROVE ~has_single_bit(s)
  <2>1. f \in Bits(s) BY <1>1, <1>2
  <2>2. p <= s - 1 /\ s - 1 < 2 * p BY <1>1, <1>4
  <2>3. f \in Bits(s - 1) BY <1>1, <1>2, <2>2
  <2> QED BY <2>1, <2>3 DEF has_single_bit
<1>5. ASSUME p = s, NEW b \in Bits(s) PROVE b = f
  <2>1. b \in 0..(SizeBits - 1) /\ (s \div Pow2[b]) % 2 = 1 BY DEF Bits
  <2>2. ~(f < b)
    <3> SUFFICES ASSUME f < b PROVE FALSE OBVIOUS
    <3>1. Pow2[f + 1] <= Pow2[b] /\ Pow2[f + 1] = 2 * p /\ Pow2[b] \in Nat
      BY <1>1, <2>1, PowerFacts
    <3>2. s < Pow2[b] BY <1>1, <3>1
    <3> QED BY <1>1, <1>3, <2>1, <3>2
  <2>3. ~(b < f)
    <3> SUFFICES ASSUME b < f PROVE FALSE OBVIOUS
    <3> DEFINE d == Pow2[b]  k == Pow2[f - b]  h == Pow2[f - b - 1]
    <3>1. f - b \in 0..SizeBits /\ f - b - 1 \in 0..(SizeBits - 1) /\ b \in 0..SizeBits
      BY <1>1, <2>1
    <3>2. d \in Nat \ {0} /\ k \in Nat /\ h \in Nat BY <3>1, PowerFacts
    <3>3. k = 2 * h
      <4>1. f - b = (f - b - 1) + 1 BY <1>1, <2>1
      <4> QED BY <3>1, <4>1, PowerFacts
    <3>4. p = k * d
      <4>1. (f - b) + b = f /\ f <= SizeBits BY <1>1, <2>1
      <4>2. Pow2[(f - b) + b] = Pow2[f - b] * Pow2[b] BY <3>1, <4>1, PowerAssumption
      <4> QED BY <4>1, <4>2
    <3> HIDE DEF d, k, h, p
    <3>5. s = d * k + 0 BY <1>5, <3>2, <3>4
    <3>6. s \div d = k BY <1>1, <3>2, <3>5, QuotientIs
    <3>7. k % 2 = 1 BY <2>1, <3>6 DEF d
    <3> QED BY <3>2, <3>3, <3>7
  <2> QED BY <1>1, <2>1, <2>2, <2>3
<1>6. ASSUME p = s PROVE has_single_bit(s)
  <2>1. f \notin Bits(s - 1) BY <1>1, <1>3, <1>6
  <2> QED BY <1>5, <1>6, <2>1 DEF has_single_bit
<1> QED BY <1>4, <1>6

\* floor_log2_const(0) never enters its loop.
TypeInv == TypeOK /\ (fn = "floor_log2_const" /\ arg = 0 => x = 0)

\* Every step keeps the types.
LEMMA StepTypes == ASSUME TypeInv, CallInv, CallInv', [Next]_vars PROVE TypeInv'
<1> USE WidthFacts
<1>1. ASSUME NEW s \in SizeT, CallInsert(s) PROVE TypeInv'
  BY <1>1, InsertTypes DEF CallInsert, TypeInv, TypeOK
<1>2. ASSUME NEW s \in SizeT, CallSearch(s) PROVE TypeInv'
  BY <1>2, SearchTypes DEF CallSearch, TypeInv, TypeOK
<1>3. ASSUME NEW s \in SizeT, CallFloorLog2(s) PROVE TypeInv'
  BY <1>3 DEF CallFloorLog2, TypeInv, TypeOK
<1>4. CASE Halve
  <2>1. /\ x > 1 /\ x' = x \div 2 /\ UNCHANGED <<fn, arg, mapping, looping>>
        /\ fn = "floor_log2_const" /\ x \in SizeT
    BY <1>4 DEF Halve, CallInv, TypeInv, TypeOK
  <2>2. arg # 0 BY <2>1 DEF TypeInv
  <2>3. result' \in 0..(SizeBits - 1) BY <2>1, <2>2 DEF CallInv
  <2>4. x' \in SizeT BY <2>1 DEF SizeT
  <2> QED BY <2>1, <2>2, <2>3, <2>4 DEF TypeInv, TypeOK
<1>5. CASE LeaveLoop BY <1>5 DEF LeaveLoop, TypeInv, TypeOK
<1>6. CASE Return
  <2>1. 0 \in SizeT /\ 0 \in UnsignedT BY DEF SizeT, UnsignedT
  <2> QED BY <1>6, <2>1 DEF Return, TypeInv, TypeOK, Mapping
<1>7. CASE UNCHANGED vars BY <1>7 DEF vars, TypeInv, TypeOK
<1> QED BY <1>1, <1>2, <1>3, <1>4, <1>5, <1>6, <1>7 DEF Next

\* Every variable keeps its type: result stays below the width of size_t.
THEOREM TlsfTypes == Spec => []TypeOK
<1>1. Init => TypeInv
  <2>1. 0 \in SizeT /\ 0 \in UnsignedT BY WidthFacts DEF SizeT, UnsignedT
  <2>2. [fl |-> 0, sl |-> 0] \in Mapping BY <2>1 DEF Mapping
  <2> SUFFICES ASSUME Init PROVE TypeInv OBVIOUS
  <2>3. 0 \in 0..SizeBits BY WidthFacts
  <2>4. /\ fn = "none" /\ arg \in SizeT /\ mapping \in Mapping
        /\ looping \in BOOLEAN /\ x \in SizeT /\ result \in 0..SizeBits
    BY <2>1, <2>2, <2>3 DEF Init
  <2> QED BY <2>4 DEF TypeInv, TypeOK
<1>2. TypeInv => TypeOK BY DEF TypeInv
<1> QED BY <1>1, <1>2, StepTypes, CallsInvariant, PTL DEF Spec

\* floor_log2_const, fls and has_single_bit agree.
THEOREM LogarithmsAgree == Spec => []LogsAgree
<1>1. CallInv /\ (fn = "floor_log2_const" /\ ~looping /\ arg # 0 => result \in Fls(arg))
        => LogsAgree
  <2> SUFFICES ASSUME CallInv, fn = "floor_log2_const", arg # 0, result \in Fls(arg)
               PROVE  Fls(arg) = {result} /\ (has_single_bit(arg) <=> Pow2[result] = arg)
    BY DEF LogsAgree
  <2>1. arg \in SizeT BY DEF CallInv
  <2>2. Fls(arg) = {result} BY <2>1, FlsUnique
  <2> QED BY <2>1, <2>2, SingleBit
<1> QED BY <1>1, CallsInvariant, FloorLog2Correct, PTL
=============================================================================
