------------------------------ MODULE TypeProofs ------------------------------
(***************************************************************************)
(* Proofs about TypeTraits, for types of any depth, any enumerations, any  *)
(* sizes that follow the ranks, and metaprograms that also combine types   *)
(* (CommonSpec).                                                           *)
(*                                                                         *)
(* Every type that is reached is a sequence of layers of which each can    *)
(* carry the next one (Type).  From there on each trait is a fact about    *)
(* the last layer and, through arrays, about the last layer that is none   *)
(* (Element).  The recursive traits have their meaning by induction on the *)
(* layers, which is done by the least layer at which it would fail.        *)
(*                                                                         *)
(* A type that can be combined is a name, qualifiers and a kind of         *)
(* reference.  For these the conditional, common_type and common_reference *)
(* are found in closed form, from which symmetry, conversions and, for     *)
(* three types, the order can be read off.                                 *)
(***************************************************************************)
EXTENDS CommonTypes, SequenceTheorems, FiniteSetTheorems, TLAPS

Layers  == [form : Bases \cup Derived, cv : SUBSET {"const", "volatile"}]
Type(T) == T \in Seq(Layers) /\ Len(T) > 0 /\ Exists(T)

-----------------------------------------------------------------------------
(* Names.                                                                  *)

\* The forms of arrays and of standard integer types, written out.
LEMMA ArrayForms == Arrays = {"[]", "[2]", "[3]"}
BY DEF Arrays, Extents

LEMMA StandardForms ==
  Standard = {"signed char", "short", "int", "long", "long long", "unsigned char",
              "unsigned short", "unsigned int", "unsigned long", "unsigned long long"}
<1>1. \A i : i \in 1..5 <=> i = 1 \/ i = 2 \/ i = 3 \/ i = 4 \/ i = 5 OBVIOUS
<1>2. /\ SignedRanks[1] = "signed char" /\ SignedRanks[2] = "short" /\ SignedRanks[3] = "int"
      /\ SignedRanks[4] = "long" /\ SignedRanks[5] = "long long"
  BY DEF SignedRanks
<1>3. /\ UnsignedRanks[1] = "unsigned char" /\ UnsignedRanks[2] = "unsigned short"
      /\ UnsignedRanks[3] = "unsigned int" /\ UnsignedRanks[4] = "unsigned long"
      /\ UnsignedRanks[5] = "unsigned long long"
  BY DEF UnsignedRanks
<1>4. {SignedRanks[i] : i \in 1..5} = {"signed char", "short", "int", "long", "long long"}
  BY <1>1, <1>2
<1>5. {UnsignedRanks[i] : i \in 1..5} =
        {"unsigned char", "unsigned short", "unsigned int", "unsigned long",
         "unsigned long long"}
  BY <1>1, <1>3
<1> QED BY <1>4, <1>5 DEF Standard

\* Nothing is the form of both a base and a derived type.
LEMMA FormsDiffer ==
  /\ Bases \cap Derived = {}
  /\ Functions \subseteq Bases /\ References \subseteq Derived /\ Arrays \subseteq Derived
  /\ Arrays \cap References = {} /\ "*" \notin Arrays \cup References
  /\ "C::*" \notin Arrays \cup References
  /\ {"*", "C::*"} \subseteq Derived
<1>1. OtherBases \cap Derived = {}
  BY ArrayForms, StandardForms
     DEF OtherBases, Derived, References, Functions, Classes, Characters
<1> QED BY <1>1, ArrayForms, EnumAssumption DEF Bases, OtherBases, Derived, References, Functions

-----------------------------------------------------------------------------
(* Greatest and least.                                                     *)

\* Sets of natural numbers have a least element, and bounded ones a greatest.
LEMMA Least ==
  ASSUME NEW S \in SUBSET Nat, S # {}
  PROVE  \E m \in S : \A k \in S : m <= k
<1>1. IsWellFoundedOn(OpToRel(<, Nat), Nat) BY NatLessThanWellFounded
<1>2. PICK m \in S : \A k \in S : ~(<<k, m>> \in OpToRel(<, Nat)) BY <1>1, WFMin
<1>3. \A k \in S : ~(k < m) BY <1>2 DEF OpToRel
<1> QED BY <1>3

LEMMA Greatest ==
  ASSUME NEW n \in Nat, NEW S \in SUBSET (1..n), S # {}
  PROVE  \E m \in S : \A k \in S : k <= m
<1> DEFINE D == {n - k : k \in S}
<1>1. PICK d \in D : \A k \in D : d <= k
  <2>1. D # {} OBVIOUS
  <2>2. \A k \in S : n - k \in Nat OBVIOUS
  <2>3. D \in SUBSET Nat BY <2>2
  <2> HIDE DEF D
  <2> QED BY <2>1, <2>3, Least
<1>2. PICK m \in S : d = n - m BY <1>1
<1>3. \A k \in S : n - m <= n - k BY <1>1, <1>2
<1>4. \A k \in S : k \in Int OBVIOUS
<1> QED BY <1>2, <1>3, <1>4

-----------------------------------------------------------------------------
(* The layers of a type.                                                   *)

\* What is known of a layer of a type.
LEMMA LayerFacts ==
  ASSUME NEW T, Type(T), NEW i \in 1..Len(T)
  PROVE  /\ Len(T) \in Nat /\ 1 \in 1..Len(T) /\ Len(T) \in 1..Len(T)
         /\ T[i] \in Layers /\ T[i] = [form |-> T[i].form, cv |-> T[i].cv]
         /\ T[1].form \in Bases
         /\ i > 1 => T[i].form \in Derived
         /\ T[i].cv \in SUBSET {"const", "volatile"}
         /\ T[i].form \in References \cup Arrays \cup Functions => T[i].cv = {}
         /\ i < Len(T) => Carries(T[i].form, T[i + 1].form)
<1>1. Len(T) \in Nat /\ T[i] \in Layers BY DEF Type
<1>2. T[i] = [form |-> T[i].form, cv |-> T[i].cv] BY <1>1 DEF Layers
<1> QED BY <1>1, <1>2 DEF Type, Exists, Layers

\* The first layers of a type are a type.
LEMMA PrefixIs ==
  ASSUME NEW T, Type(T), NEW n \in 1..Len(T)
  PROVE  LET P == SubSeq(T, 1, n) IN
         Type(P) /\ Len(P) = n /\ \A i \in 1..n : P[i] = T[i]
<1> DEFINE P == SubSeq(T, 1, n)
<1>1. Len(T) \in Nat /\ n \in Int /\ \A i \in 1..n : T[i] \in Layers BY DEF Type
<1>2. /\ P \in Seq(Layers) /\ Len(P) = (IF 1 <= n THEN n - 1 + 1 ELSE 0)
      /\ \A i \in 1..(n - 1 + 1) : P[i] = T[1 + i - 1]
  BY <1>1, SubSeqProperties
<1>3. P \in Seq(Layers) /\ Len(P) = n /\ \A i \in 1..n : P[i] = T[i]
  BY <1>1, <1>2
<1> HIDE DEF P
<1>4. Exists(P)
  <2>1. P[1].form \in Bases /\ \A i \in 2..Len(P) : P[i].form \in Derived
    BY <1>1, <1>3 DEF Type, Exists
  <2>2. \A i \in 1..Len(P) :
          /\ P[i].cv \subseteq {"const", "volatile"}
          /\ P[i].form \in References \cup Arrays \cup Functions => P[i].cv = {}
    <3>1. \A i \in 1..Len(P) : i \in 1..Len(T) /\ P[i] = T[i] BY <1>1, <1>3
    <3>2. \A i \in 1..Len(T) :
            /\ T[i].cv \subseteq {"const", "volatile"}
            /\ T[i].form \in References \cup Arrays \cup Functions => T[i].cv = {}
      BY DEF Type, Exists
    <3> QED BY <3>1, <3>2
  <2>3. \A i \in 1..(Len(P) - 1) : Carries(P[i].form, P[i + 1].form)
    BY <1>1, <1>3 DEF Type, Exists
  <2> QED BY <2>1, <2>2, <2>3 DEF Exists
<1> QED BY <1>1, <1>3, <1>4 DEF Type, P

\* One more layer makes a type of a type that carries it.
LEMMA BuildIs ==
  ASSUME NEW T, Type(T), NEW form \in Derived, Carries(Form(T), form)
  PROVE  LET B == Build(T, form) IN
         /\ Type(B) /\ Len(B) = Len(T) + 1 /\ Form(B) = form
         /\ \A i \in 1..Len(T) : B[i] = T[i]
         /\ B[Len(T) + 1] = Plain(form)
<1> DEFINE B == Build(T, form)
<1>1. Plain(form) \in Layers BY DEF Plain, Layers
<1>2. /\ B \in Seq(Layers) /\ Len(B) = Len(T) + 1
      /\ \A i \in 1..Len(T) : B[i] = T[i]
      /\ B[Len(T) + 1] = Plain(form)
  BY <1>1, AppendProperties DEF Build, Type
<1>3. Len(T) \in Nat /\ Len(T) > 0 BY DEF Type
<1> HIDE DEF B
<1>4. Exists(B)
  <2>1. B[1].form \in Bases /\ \A i \in 2..Len(B) : B[i].form \in Derived
    BY <1>2, <1>3 DEF Type, Exists, Plain
  <2>2. \A i \in 1..Len(B) :
          /\ B[i].cv \subseteq {"const", "volatile"}
          /\ B[i].form \in References \cup Arrays \cup Functions => B[i].cv = {}
    BY <1>2, <1>3 DEF Type, Exists, Plain
  <2>3. \A i \in 1..(Len(B) - 1) : Carries(B[i].form, B[i + 1].form)
    <3> TAKE i \in 1..(Len(B) - 1)
    <3>1. CASE i = Len(T) BY <1>2, <1>3, <3>1 DEF Form, Last, Plain
    <3>2. CASE i # Len(T) BY <1>2, <1>3, <3>2 DEF Type, Exists
    <3> QED BY <3>1, <3>2
  <2> QED BY <2>1, <2>2, <2>3 DEF Exists
<1>5. Form(B) = form BY <1>2, <1>3 DEF Form, Last, Plain
<1> QED BY <1>2, <1>3, <1>4, <1>5 DEF Type, B

-----------------------------------------------------------------------------
(* The elements of arrays, and qualifiers.                                 *)

IsElement(T, e) == /\ e \in 1..Len(T) /\ T[e].form \notin Arrays
                   /\ \A j \in (e + 1)..Len(T) : T[j].form \in Arrays

\* There is only one element.
LEMMA ElementUnique ==
  ASSUME NEW T, Len(T) \in Nat, NEW e, IsElement(T, e)
  PROVE  Element(T) = e
<1>1. \A i \in 1..Len(T) :
        /\ T[i].form \notin Arrays
        /\ \A j \in (i + 1)..Len(T) : T[j].form \in Arrays
        => i = e
  <2> SUFFICES ASSUME NEW i \in 1..Len(T), IsElement(T, i) PROVE i = e BY DEF IsElement
  <2>1. e \in 1..Len(T) BY DEF IsElement
  <2>2. CASE i < e BY <2>1, <2>2 DEF IsElement
  <2>3. CASE i > e BY <2>1, <2>3 DEF IsElement
  <2> QED BY <2>1, <2>2, <2>3
<1> QED BY <1>1 DEF Element, IsElement

\* Every type has an element that is no array: the last layer that is none.
LEMMA ElementIs ==
  ASSUME NEW T, Type(T)
  PROVE  /\ IsElement(T, Element(T))
         /\ Form(T) \notin Arrays => Element(T) = Len(T)
<1>1. Len(T) \in Nat /\ Len(T) > 0 /\ T[1].form \in Bases BY DEF Type, Exists
<1> DEFINE S == {i \in 1..Len(T) : T[i].form \notin Arrays}
<1>2. PICK e \in S : \A k \in S : k <= e
  <2>1. 1 \in S BY <1>1, FormsDiffer
  <2> QED BY <1>1, <2>1, Greatest
<1>3. IsElement(T, e) BY <1>1, <1>2 DEF IsElement
<1>4. Element(T) = e BY <1>1, <1>3, ElementUnique
<1>5. Form(T) \notin Arrays => e = Len(T)
  BY <1>1, <1>3 DEF IsElement, Form, Last
<1> QED BY <1>3, <1>4, <1>5

\* Types with the same forms have the same element.
LEMMA SameElement ==
  ASSUME NEW T, NEW Q, Type(T), Len(Q) = Len(T),
         \A i \in 1..Len(T) : Q[i].form = T[i].form
  PROVE  Element(Q) = Element(T)
<1>1. IsElement(Q, Element(T)) BY ElementIs DEF IsElement, Type
<1> QED BY <1>1, ElementUnique DEF Type

\* Qualifying a type changes the qualifiers of its element alone, and those of functions
\* and references not at all.
LEMMA WithCvIs ==
  ASSUME NEW T, Type(T), NEW cv \in SUBSET {"const", "volatile"}
  PROVE  LET Q == WithCv(T, cv) IN
         /\ Type(Q) /\ Len(Q) = Len(T) /\ Element(Q) = Element(T) /\ Form(Q) = Form(T)
         /\ \A i \in 1..Len(T) : Q[i].form = T[i].form
         /\ \A i \in 1..Len(T) \ {Element(T)} : Q[i] = T[i]
         /\ CvOf(Q) = IF Form(T) \in Functions \cup References THEN {} ELSE cv
<1> DEFINE Q == WithCv(T, cv)  e == Element(T)
<1>1. /\ Len(T) \in Nat /\ Len(T) > 0 /\ T \in Seq(Layers)
      /\ e \in 1..Len(T) /\ T[e].form \notin Arrays
      /\ \A j \in (e + 1)..Len(T) : T[j].form \in Arrays
  BY ElementIs DEF Type, IsElement
<1>2. CASE Form(T) \in Functions \cup References
  <2>1. Q = T BY <1>2 DEF WithCv
  <2>2. Form(T) \notin Arrays BY <1>2, FormsDiffer
  <2>3. CvOf(T) = {} BY <1>1, <1>2, <2>2, ElementIs, LayerFacts DEF CvOf, Form, Last
  <2> QED BY <1>2, <2>1, <2>3
<1>3. CASE Form(T) \notin Functions \cup References
  <2> DEFINE l == [T[e] EXCEPT !.cv = cv]
  <2>1. T[e] \in Layers BY <1>1, LayerFacts
  <2>2. l \in Layers /\ l.form = T[e].form /\ l.cv = cv BY <2>1 DEF Layers
  <2>3. Q = [T EXCEPT ![e] = l] BY <1>3 DEF WithCv
  <2>4. /\ Q \in Seq(Layers) /\ Len(Q) = Len(T)
        /\ \A j \in 1..Len(T) : Q[j] = IF j = e THEN l ELSE T[j]
    BY <1>1, <2>2, <2>3, ExceptSeq
  <2>5. T[e].form \notin References \cup Functions
    <3>1. CASE e = Len(T) BY <1>3, <3>1 DEF Form, Last
    <3>2. CASE e # Len(T)
      <4>1. e < Len(T) /\ e + 1 \in (e + 1)..Len(T) BY <1>1, <3>2
      <4>2. T[e + 1].form \in Arrays BY <1>1, <4>1
      <4>3. Carries(T[e].form, T[e + 1].form) BY <1>1, <4>1, LayerFacts
      <4> QED BY <4>2, <4>3, FormsDiffer DEF Carries, Functions
    <3> QED BY <3>1, <3>2
  <2> HIDE DEF Q, e, l
  <2>6. \A i \in 1..Len(T) : Q[i].form = T[i].form BY <2>2, <2>4
  <2>7. Exists(Q)
    <3>1. Q[1].form \in Bases /\ \A i \in 2..Len(Q) : Q[i].form \in Derived
      BY <1>1, <2>4, <2>6 DEF Type, Exists
    <3>2. \A i \in 1..Len(Q) :
            /\ Q[i].cv \subseteq {"const", "volatile"}
            /\ Q[i].form \in References \cup Arrays \cup Functions => Q[i].cv = {}
      BY <1>1, <2>2, <2>4, <2>5 DEF Type, Exists
    <3>3. \A i \in 1..(Len(Q) - 1) : Carries(Q[i].form, Q[i + 1].form)
      BY <1>1, <2>4, <2>6 DEF Type, Exists
    <3> QED BY <3>1, <3>2, <3>3 DEF Exists
  <2>8. Element(Q) = e BY <2>4, <2>6, SameElement DEF e
  <2>9. CvOf(Q) = cv BY <1>1, <2>2, <2>4, <2>8 DEF CvOf
  <2>10. Form(Q) = Form(T) BY <1>1, <2>4, <2>6 DEF Form, Last
  <2>11. Type(Q) BY <1>1, <2>4, <2>7 DEF Type
  <2> QED BY <1>3, <2>4, <2>6, <2>8, <2>9, <2>10, <2>11 DEF Q, e
<1> QED BY <1>2, <1>3

-----------------------------------------------------------------------------
(* The element type of an array.                                           *)

\* The elements of what one layer more or less leaves.
LEMMA PrefixElement ==
  ASSUME NEW T, Type(T), NEW n \in 1..Len(T)
  PROVE  LET E(k) == Element(SubSeq(T, 1, k)) IN
         /\ T[n].form \notin Arrays => E(n) = n
         /\ T[n].form \in Arrays => n - 1 \in 1..Len(T) /\ E(n) = E(n - 1) /\ E(n) < n
         /\ E(n) \in 1..n
<1> DEFINE P == SubSeq(T, 1, n)  R == SubSeq(T, 1, n - 1)
<1>1. Len(T) \in Nat /\ T[1].form \notin Arrays BY FormsDiffer DEF Type, Exists
<1>2. Type(P) /\ Len(P) = n /\ \A i \in 1..n : P[i] = T[i] BY PrefixIs
<1>3. IsElement(P, Element(P)) BY <1>2, ElementIs
<1>4. CASE T[n].form \notin Arrays
  <2>1. IsElement(P, n) BY <1>1, <1>2, <1>4 DEF IsElement
  <2>2. Element(P) = n BY <1>2, <2>1, ElementUnique
  <2> QED BY <1>4, <2>2
<1>5. CASE T[n].form \in Arrays
  <2>1. n - 1 \in 1..Len(T) BY <1>1, <1>5
  <2>2. Type(R) /\ Len(R) = n - 1 /\ \A i \in 1..(n - 1) : R[i] = T[i] BY <2>1, PrefixIs
  <2>3. IsElement(R, Element(R)) BY <2>2, ElementIs
  <2>4. IsElement(P, Element(R))
    <3> DEFINE e == Element(R)
    <3>1. /\ e \in 1..(n - 1) /\ R[e].form \notin Arrays
          /\ \A j \in (e + 1)..(n - 1) : R[j].form \in Arrays
      BY <2>2, <2>3 DEF IsElement
    <3> HIDE DEF e, P, R
    <3>2. /\ n \in Nat /\ e \in 1..n /\ e # n
          /\ \A j \in 1..n : j \in 1..(n - 1) \/ j = n
          /\ \A j \in (e + 1)..n : j \in (e + 1)..(n - 1) \/ j = n
      BY <1>1, <2>1, <3>1
    <3>3. P[e].form \notin Arrays BY <1>2, <2>2, <3>1, <3>2
    <3>4. ASSUME NEW j \in (e + 1)..n PROVE P[j].form \in Arrays
      <4>1. j \in 1..n BY <3>1, <3>2
      <4>2. CASE j = n BY <1>2, <1>5, <3>2, <4>1, <4>2
      <4>3. CASE j # n
        <5>1. j \in (e + 1)..(n - 1) /\ j \in 1..(n - 1) BY <3>2, <4>1, <4>3
        <5> QED BY <1>2, <2>2, <3>1, <4>1, <5>1
      <4> QED BY <4>2, <4>3
    <3> QED BY <1>2, <3>2, <3>3, <3>4 DEF IsElement, e
  <2>5. Element(P) = Element(R) BY <1>2, <2>4, ElementUnique
  <2>6. Element(R) \in 1..(n - 1) BY <2>2, <2>3 DEF IsElement
  <2> QED BY <1>5, <2>1, <2>5, <2>6
<1> QED BY <1>4, <1>5

\* remove_all_extents leaves the element.
LEMMA AllExtents ==
  ASSUME NEW T, Type(T)
  PROVE  remove_all_extents(T) = SubSeq(T, 1, Element(T))
<1> DEFINE Rec(g) == [n \in 1..Len(T) |->
                        IF T[n].form \in Arrays THEN g[n - 1] ELSE SubSeq(T, 1, n)]
           f == CHOOSE g : g = Rec(g)
           X == SubSeq(T, 1, Element(T))
           h == [n \in 1..Len(T) |-> SubSeq(T, 1, Element(SubSeq(T, 1, n)))]
<1>1. Len(T) \in Nat /\ Len(T) > 0 /\ IsElement(T, Element(T)) /\ T[1].form \notin Arrays
  BY ElementIs, FormsDiffer DEF Type, Exists
<1>2. h = Rec(h)
  <2>1. \A n \in 1..Len(T) : h[n] = IF T[n].form \in Arrays THEN h[n - 1] ELSE SubSeq(T, 1, n)
    BY PrefixElement
  <2> QED BY <2>1
<1>3. f = Rec(f) BY <1>2
<1>4. remove_all_extents(T) = f[Len(T)] BY DEF remove_all_extents
<1> HIDE DEF f
<1>5. \A k \in Element(T)..Len(T) : f[k] = X
  <2> DEFINE S == {k \in Element(T)..Len(T) : f[k] # X}
  <2> SUFFICES ASSUME S # {} PROVE FALSE OBVIOUS
  <2>1. PICK m \in S : \A k \in S : m <= k
    <3>1. S \in SUBSET Nat BY <1>1 DEF IsElement
    <3> QED BY <3>1, Least
  <2>2. m \in 1..Len(T) /\ f[m] = Rec(f)[m]
    <3>1. m \in 1..Len(T) BY <1>1, <2>1 DEF IsElement
    <3> QED BY <1>3, <3>1
  <2>3. CASE m = Element(T) BY <1>1, <2>1, <2>2, <2>3 DEF IsElement
  <2>4. CASE m # Element(T)
    <3>1. m - 1 \in Element(T)..Len(T) /\ m - 1 \notin S /\ T[m].form \in Arrays
      BY <1>1, <2>1, <2>4 DEF IsElement
    <3> QED BY <2>1, <2>2, <3>1
  <2> QED BY <2>3, <2>4
<1> QED BY <1>1, <1>4, <1>5 DEF IsElement

-----------------------------------------------------------------------------
(* What the transformations give.                                          *)

\* A base type alone is a type.
LEMMA BaseIs ==
  ASSUME NEW b \in Bases
  PROVE  LET T == <<Plain(b)>> IN
         Type(T) /\ Len(T) = 1 /\ Form(T) = b /\ Element(T) = 1 /\ T[1] = Plain(b)
<1> DEFINE T == <<Plain(b)>>
<1>1. Plain(b) \in Layers BY DEF Plain, Layers
<1>2. T \in Seq(Layers) /\ Len(T) = 1 /\ T[1] = Plain(b) BY <1>1
<1> HIDE DEF T
<1>3. Exists(T) BY <1>2 DEF Exists, Plain
<1>4. Type(T) /\ Form(T) = b BY <1>2, <1>3 DEF Type, Form, Last, Plain
<1>5. Element(T) = 1 BY <1>2, <1>4, ElementIs, FormsDiffer
<1> QED BY <1>2, <1>4, <1>5 DEF T

\* What is below the last layer of a derived type.
LEMMA FrontIs ==
  ASSUME NEW T, Type(T), Form(T) \in Derived
  PROVE  /\ Type(Front(T)) /\ Len(Front(T)) = Len(T) - 1
         /\ Carries(Form(Front(T)), Form(T))
         /\ \A i \in 1..(Len(T) - 1) : Front(T)[i] = T[i]
<1>1. Len(T) \in Nat /\ Len(T) > 0 BY DEF Type
<1>2. Len(T) # 1 BY FormsDiffer DEF Type, Exists, Form, Last
<1>3. Len(T) - 1 \in 1..Len(T) /\ Len(T) - 1 < Len(T) /\ Len(T) - 1 + 1 = Len(T)
  <2>1. \A n \in Nat : n > 0 /\ n # 1 => n - 1 \in 1..n /\ n - 1 < n /\ n - 1 + 1 = n
    OBVIOUS
  <2> QED BY <1>1, <1>2, <2>1
<1>4. /\ Type(Front(T)) /\ Len(Front(T)) = Len(T) - 1
      /\ \A i \in 1..(Len(T) - 1) : Front(T)[i] = T[i]
  BY <1>3, PrefixIs DEF Front
<1>5. Carries(T[Len(T) - 1].form, T[Len(T) - 1 + 1].form) BY <1>1, <1>3, LayerFacts
<1> QED BY <1>1, <1>3, <1>4, <1>5 DEF Form, Last

\* Functions and references have no qualifiers.
LEMMA CvIs ==
  ASSUME NEW T, Type(T)
  PROVE  /\ CvOf(T) \in SUBSET {"const", "volatile"}
         /\ Form(T) \in Functions \cup References => CvOf(T) = {}
<1>1. Element(T) \in 1..Len(T) BY ElementIs DEF IsElement
<1>2. CvOf(T) \in SUBSET {"const", "volatile"} BY <1>1, LayerFacts DEF CvOf
<1>3. ASSUME Form(T) \in Functions \cup References PROVE CvOf(T) = {}
  <2>1. Element(T) = Len(T) BY <1>3, ElementIs, FormsDiffer
  <2> QED BY <1>1, <1>3, <2>1, LayerFacts DEF CvOf, Form, Last
<1> QED BY <1>2, <1>3

\* A base type is the only layer of its type.
LEMMA BasesAlone ==
  ASSUME NEW T, Type(T)
  PROVE  /\ Form(T) \in Bases <=> Len(T) = 1
         /\ Form(T) \in Derived <=> Len(T) # 1
         /\ is_function(T) <=> Form(T) \in Functions
<1>1. Len(T) \in Nat /\ Len(T) > 0 BY DEF Type
<1>2. CASE Len(T) = 1
  BY <1>1, <1>2, FormsDiffer DEF Type, Exists, Form, Last, is_function
<1>3. CASE Len(T) # 1
  <2>1. Len(T) \in 2..Len(T) BY <1>1, <1>3
  <2>2. Form(T) \in Derived BY <2>1 DEF Type, Exists, Form, Last
  <2> QED BY <1>3, <2>2, FormsDiffer DEF is_function
<1> QED BY <1>2, <1>3

\* A type compares equal to a base type, qualifiers apart, if that is its form.
LEMMA SimpleIs ==
  ASSUME NEW T, Type(T), NEW b \in Bases
  PROVE  remove_cv(T) = <<Plain(b)>> <=> Form(T) = b /\ (b \in Functions => CvOf(T) = {})
<1> DEFINE Q == remove_cv(T)  B == <<Plain(b)>>
<1>1. /\ Type(Q) /\ Len(Q) = Len(T) /\ Form(Q) = Form(T) /\ Element(Q) = Element(T)
      /\ CvOf(Q) = {}
  BY WithCvIs DEF remove_cv
<1>2. Type(B) /\ Len(B) = 1 /\ Form(B) = b /\ B[1] = Plain(b) BY BaseIs
<1>3. ASSUME Q = B PROVE Form(T) = b BY <1>1, <1>2, <1>3
<1>4. ASSUME Form(T) = b PROVE Q = B
  <2>1. Len(T) = 1 BY <1>4, BasesAlone
  <2>2. Element(T) = 1 BY <2>1, ElementIs DEF IsElement
  <2> HIDE DEF Q, B
  <2>3. Q[1].form = b /\ Q[1].cv = {} BY <1>1, <1>4, <2>1, <2>2 DEF CvOf, Form, Last
  <2>4. Q[1] = [form |-> Q[1].form, cv |-> Q[1].cv]
    <3>1. 1 \in 1..Len(Q) BY <1>1, <2>1
    <3> QED BY <1>1, <3>1, LayerFacts
  <2>5. Q[1] = Plain(b) BY <2>3, <2>4 DEF Plain
  <2>6. \A i \in 1..Len(Q) : Q[i] = B[i] BY <1>1, <1>2, <2>1, <2>5
  <2>7. Q \in Seq(Layers) /\ B \in Seq(Layers) BY <1>1, <1>2 DEF Type
  <2> QED BY <1>1, <1>2, <2>1, <2>6, <2>7, SeqEqual
<1>5. b \in Functions /\ Form(T) = b => CvOf(T) = {} BY CvIs
<1> QED BY <1>3, <1>4, <1>5

\* To qualify a type makes a type.
LEMMA QualifyIs ==
  ASSUME NEW T, Type(T)
  PROVE  /\ Type(remove_cv(T)) /\ Type(remove_const(T)) /\ Type(remove_volatile(T))
         /\ Type(add_const(T)) /\ Type(add_volatile(T)) /\ Type(add_cv(T))
BY CvIs, WithCvIs DEF remove_cv, remove_const, remove_volatile, add_const, add_volatile, add_cv

\* Nothing is below a reference that could not be referred to, and no reference.
LEMMA RemoveReferenceIs ==
  ASSUME NEW T, Type(T)
  PROVE  LET U == remove_reference(T) IN
         /\ Type(U) /\ Form(U) \notin References
         /\ Form(T) \in References => Carries(Form(U), Form(T)) /\ Len(U) = Len(T) - 1
         /\ Form(T) \notin References => U = T
<1>1. CASE Form(T) \in References
  BY <1>1, FrontIs, FormsDiffer DEF remove_reference, Carries
<1>2. CASE Form(T) \notin References BY <1>2 DEF remove_reference
<1> QED BY <1>1, <1>2

\* The fallbacks for void and qualified functions are all that references need.
LEMMA ReferIs ==
  ASSUME NEW T, Type(T)
  PROVE  Type(add_lvalue_reference(T)) /\ Type(add_rvalue_reference(T))
<1> USE FormsDiffer
<1>1. CASE ~CanRefer(T)
  BY <1>1 DEF add_lvalue_reference, add_rvalue_reference
<1>2. CASE CanRefer(T) /\ Form(T) \in References
  <2>1. Type(Front(T)) /\ Carries(Form(Front(T)), Form(T)) BY <1>2, FrontIs
  <2>2. Carries(Form(Front(T)), "&")
    BY <1>2, <2>1 DEF Carries, References
  <2>3. Type(Build(Front(T), "&")) BY <2>1, <2>2, BuildIs DEF References
  <2> QED BY <1>2, <2>3 DEF add_lvalue_reference, add_rvalue_reference, LRef, RRef
<1>3. CASE CanRefer(T) /\ Form(T) \notin References
  <2>1. Carries(Form(T), "&") /\ Carries(Form(T), "&&")
    BY <1>3, ArrayForms DEF CanRefer, Carries
  <2>2. {"&", "&&"} \subseteq Derived BY DEF References
  <2>3. Type(Build(T, "&")) /\ Type(Build(T, "&&")) BY <2>1, <2>2, BuildIs
  <2> QED BY <1>3, <2>3 DEF add_lvalue_reference, add_rvalue_reference, LRef, RRef
<1> QED BY <1>1, <1>2, <1>3

\* Only for qualified functions does add_pointer give the type itself.
LEMMA PointIs ==
  ASSUME NEW T, Type(T)
  PROVE  LET U == remove_reference(T)  P == add_pointer(T) IN
         /\ Type(P)
         /\ CanPoint(U) <=> Form(U) # "function const"
         /\ IF CanPoint(U) THEN P = Build(U, "*") /\ Form(P) = "*" ELSE P = T
<1> DEFINE U == remove_reference(T)
<1>1. Type(U) /\ Form(U) \notin References BY RemoveReferenceIs
<1>2. CanPoint(U) <=> Form(U) # "function const" BY <1>1 DEF CanPoint
<1>3. ASSUME CanPoint(U) PROVE Type(Build(U, "*")) /\ Form(Build(U, "*")) = "*"
  <2>1. Carries(Form(U), "*") BY <1>1, <1>2, <1>3, FormsDiffer DEF Carries
  <2> QED BY <1>1, <2>1, BuildIs, FormsDiffer
<1> QED BY <1>2, <1>3 DEF add_pointer

\* What an array or a pointer is made of is a type.
LEMMA RemoveExtentIs ==
  ASSUME NEW T, Type(T) PROVE Type(remove_extent(T)) /\ Type(remove_pointer(T))
<1>1. Form(T) \in Arrays => Type(Front(T)) BY FrontIs, FormsDiffer
<1>2. Form(T) = "*" => Type(Front(T)) BY FrontIs, FormsDiffer
<1> QED BY <1>1, <1>2 DEF remove_extent, remove_pointer

\* To decay a type makes a type.
LEMMA DecayIs ==
  ASSUME NEW T, Type(T) PROVE Type(decay(T)) /\ Type(unwrap_ref_decay(T))
<1> DEFINE U == remove_reference(T)
<1>1. Type(U) /\ Type(remove_extent(U)) BY RemoveReferenceIs, RemoveExtentIs
<1>2. Type(add_pointer(remove_extent(U))) /\ Type(add_pointer(U)) /\ Type(remove_cv(U))
  BY <1>1, PointIs, QualifyIs
<1>3. Type(decay(T)) BY <1>2 DEF decay
<1>4. Type(<<Plain("class"), Plain("&")>>)
  <2>1. "class" \in Bases /\ "&" \in Derived BY DEF Bases, OtherBases, Classes, Derived, References
  <2>2. Type(<<Plain("class")>>) /\ Form(<<Plain("class")>>) = "class" BY <2>1, BaseIs
  <2>3. Carries("class", "&") BY ArrayForms DEF Carries, References
  <2>4. Type(Build(<<Plain("class")>>, "&")) BY <2>1, <2>2, <2>3, BuildIs
  <2>5. Append(<<Plain("class")>>, Plain("&")) = <<Plain("class"), Plain("&")>>
    <3> DEFINE c == Plain("class")  r == Plain("&")
    <3>1. c \in Layers /\ r \in Layers BY <2>1 DEF Plain, Layers
    <3> HIDE DEF c, r
    <3>2. <<c>> \in Seq(Layers) /\ Len(<<c>>) = 1 /\ <<c>>[1] = c BY <3>1
    <3>3. <<c, r>> \in Seq(Layers) /\ Len(<<c, r>>) = 2 /\ <<c, r>>[1] = c /\ <<c, r>>[2] = r
      BY <3>1
    <3>4. /\ Append(<<c>>, r) \in Seq(Layers) /\ Len(Append(<<c>>, r)) = 2
          /\ Append(<<c>>, r)[1] = c /\ Append(<<c>>, r)[2] = r
      BY <3>1, <3>2, AppendProperties
    <3>5. \A i \in 1..2 : Append(<<c>>, r)[i] = <<c, r>>[i] BY <3>3, <3>4
    <3> QED BY <3>3, <3>4, <3>5, SeqEqual DEF c, r
  <2> QED BY <2>4, <2>5 DEF Build
<1> QED BY <1>3, <1>4 DEF unwrap_ref_decay, unwrap_reference

\* The signed and unsigned types are types.
LEMMA SignIs ==
  ASSUME NEW T, Type(T), NEW ranks \in {SignedRanks, UnsignedRanks}, NEW Q \in make_rank(ranks, T)
  PROVE  Type(Q)
<1>1. \A i \in 1..5 : ranks[i] \in Bases BY DEF Bases, OtherBases, Standard
<1>2. PICK b \in {ranks[i] : i \in 1..5} : Q = sign_copy_cv(T, b)
  BY DEF make_rank, make_raw, by_size
<1>3. Type(<<Plain(b)>>) BY <1>1, <1>2, BaseIs
<1> QED BY <1>2, <1>3, CvIs, WithCvIs DEF sign_copy_cv

-----------------------------------------------------------------------------
(* Every step leads from a type to a type.                                 *)

\* The guard of a declaration lets only types be formed.
LEMMA DeclareKeeps ==
  ASSUME Type(type), NEW form \in Arrays \cup {"C::*"}, Declare(form)
  PROVE  Type(type')
<1>1. form \in Derived BY FormsDiffer
<1>2. Carries(Form(type), form)
  BY FormsDiffer DEF Declare, Carries, Functions
<1> QED BY <1>1, <1>2, BuildIs DEF Declare

\* Every transformation leads from a type to a type.
LEMMA StepKeeps == ASSUME Type(type), [Next]_type PROVE Type(type')
<1>1. CASE \E form \in Arrays \cup {"C::*"} : Declare(form) BY <1>1, DeclareKeeps
<1>2. CASE Qualify BY <1>2, QualifyIs DEF Qualify
<1>3. CASE Unbuild
  <2>1. Type(remove_all_extents(type))
    <3>1. Element(type) \in 1..Len(type) BY ElementIs DEF IsElement
    <3>2. Type(SubSeq(type, 1, Element(type))) BY <3>1, PrefixIs
    <3> QED BY <3>2, AllExtents
  <2>2. Type(remove_cvref(type)) BY RemoveReferenceIs, QualifyIs DEF remove_cvref
  <2> QED BY <1>3, <2>1, <2>2, RemoveReferenceIs, RemoveExtentIs DEF Unbuild
<1>4. CASE Refer BY <1>4, ReferIs DEF Refer
<1>5. CASE Point BY <1>5, PointIs DEF Point
<1>6. CASE Decay BY <1>6, DecayIs DEF Decay
<1>7. CASE ChangeSign BY <1>7, SignIs DEF ChangeSign, make_signed, make_unsigned
<1>8. CASE UNCHANGED type BY <1>8
<1> QED BY <1>1, <1>2, <1>3, <1>4, <1>5, <1>6, <1>7, <1>8 DEF Next

-----------------------------------------------------------------------------
(* What types combine to.                                                  *)

\* References with no fallback, where they exist.
LEMMA RefIs ==
  ASSUME NEW T, Type(T), CanRefer(T) PROVE Type(LRef(T)) /\ Type(RRef(T))
BY ReferIs DEF add_lvalue_reference, add_rvalue_reference

\* The types that others are combined with are types that can be combined.
LEMMA CombinedIs ==
  ASSUME NEW U \in Combined
  PROVE  Type(U) /\ Combinable(U)
<1>1. PICK b \in {"void"} \cup Ranked \cup Family, cv \in SUBSET {"const", "volatile"},
           ref \in {<< >>, <<Plain("&")>>, <<Plain("&&")>>} :
             U = <<[form |-> b, cv |-> cv]>> \o ref
  <2> DEFINE S == {<<[form |-> b, cv |-> cv]>> \o ref :
                     b \in {"void"} \cup Ranked \cup Family, cv \in SUBSET {"const", "volatile"},
                     ref \in {<< >>, <<Plain("&")>>, <<Plain("&&")>>}}
  <2>1. Combined = {T \in S : Len(T) = 2 => CanRefer(Front(T))} BY DEF Combined
  <2> HIDE DEF S
  <2>2. U \in S BY <2>1
  <2> QED BY <2>2 DEF S
<1> DEFINE l == [form |-> b, cv |-> cv]  B == <<l>>
<1>2. Len(U) = 2 => CanRefer(Front(U)) BY DEF Combined
<1>3. b \in Bases \ (References \cup Arrays \cup Functions)
  <2>1. b \in {"void", "int", "long", "class", "derived"} BY DEF Ranked, Family
  <2>2. b \in OtherBases \ Functions BY <2>1, StandardForms DEF OtherBases, Classes, Functions
  <2> QED BY <2>2, FormsDiffer DEF Bases
<1>4. l \in Layers BY <1>3 DEF Layers
<1>5. B \in Seq(Layers) /\ Len(B) = 1 /\ B[1] = l BY <1>4
<1>6. Type(B) /\ Form(B) = b
  <2>1. l.form = b /\ l.cv = cv OBVIOUS
  <2> HIDE DEF B, l
  <2>2. Exists(B)
    <3>1. B[1].form \in Bases /\ \A i \in 2..Len(B) : B[i].form \in Derived
      BY <1>3, <1>5, <2>1
    <3>2. \A i \in 1..Len(B) :
            /\ B[i].cv \subseteq {"const", "volatile"}
            /\ B[i].form \in References \cup Arrays \cup Functions => B[i].cv = {}
      <4>1. \A i \in 1..Len(B) : B[i].form = b /\ B[i].cv = cv BY <1>5, <2>1
      <4>2. b \notin References \cup Arrays \cup Functions BY <1>3
      <4>3. cv \subseteq {"const", "volatile"} OBVIOUS
      <4> QED BY <4>1, <4>2, <4>3
    <3>3. \A i \in 1..(Len(B) - 1) : Carries(B[i].form, B[i + 1].form) BY <1>5
    <3> QED BY <3>1, <3>2, <3>3 DEF Exists
  <2> QED BY <1>5, <2>1, <2>2 DEF Type, Form, Last
<1>7. CASE ref = << >>
  <2>1. U = B
    <3> HIDE DEF B
    <3> QED BY <1>1, <1>5, <1>7, ConcatEmptySeq DEF B
  <2> QED BY <1>3, <1>5, <1>6, <2>1, RemoveReferenceIs DEF Combinable
<1>8. CASE ref # << >>
  <2>1. PICK form \in {"&", "&&"} : ref = <<Plain(form)>> BY <1>1, <1>8
  <2>2. form \in Derived /\ form \in References BY DEF Derived, References
  <2>3. Plain(form) \in Layers BY <2>2 DEF Layers, Plain
  <2>4. U = Build(B, form)
    <3> HIDE DEF B
    <3> QED BY <1>1, <1>5, <2>1, <2>3, AppendIsConcat DEF Build, B
  <2>5. Len(U) = 2 /\ U \in Seq(Layers) /\ \A i \in 1..1 : U[i] = B[i]
    <3>1. /\ Append(B, Plain(form)) \in Seq(Layers) /\ Len(Append(B, Plain(form))) = Len(B) + 1
          /\ \A i \in 1..Len(B) : Append(B, Plain(form))[i] = B[i]
      BY <1>5, <2>3, AppendProperties
    <3> HIDE DEF B
    <3> QED BY <1>5, <2>4, <3>1 DEF Build
  <2>6. Front(U) = B
    <3>1. /\ Len(U) - 1 = 1 /\ \A i \in 1..1 : U[i] \in Layers
          /\ Front(U) \in Seq(Layers) /\ Len(Front(U)) = 1 /\ Front(U)[1] = U[1]
      BY <2>5, SubSeqProperties DEF Front
    <3> HIDE DEF B
    <3>2. \A i \in 1..1 : Front(U)[i] = B[i] BY <2>5, <3>1
    <3> QED BY <1>5, <3>1, <3>2, SeqEqual
  <2>7. Carries(b, form)
    BY <1>2, <1>3, <1>6, <2>2, <2>5, <2>6, FormsDiffer DEF Carries, CanRefer, Functions
  <2>8. Type(U) /\ Form(U) = form BY <1>6, <2>2, <2>4, <2>7, BuildIs
  <2> QED BY <1>5, <1>6, <2>2, <2>6, <2>8 DEF Combinable, remove_reference
<1> QED BY <1>7, <1>8

\* A conditional expression has a type of the language.
LEMMA ConditionalIs ==
  ASSUME NEW e, Type(e), NEW o, Type(o), NEW R \in Conditional(e, o)
  PROVE  Type(R)
<1>1. \A b \in {"void", "int", "long"} : Type(<<Plain(b)>>)
  <2>1. {"void", "int", "long"} \subseteq Bases BY StandardForms DEF Bases, OtherBases
  <2> QED BY <2>1, BaseIs
<1>2. \A x, y : Type(x) /\ Type(y) => \A T \in Matches(x, y) : Type(T)
  BY RemoveReferenceIs DEF Matches
<1>3. \A x, y : Type(x) /\ Type(y) => \A T \in Merged(x, y) : Type(T)
  BY <1>1, RemoveReferenceIs DEF Merged
<1>4. \/ R \in {<<Plain("void")>>} \cup Merged(e, o)
      \/ \E T \in Matches(e, o) : R \in Merged(T, o)
      \/ \E T \in Matches(o, e) : R \in Merged(e, T)
  BY DEF Conditional
<1> QED BY <1>1, <1>2, <1>3, <1>4

\* So has the conditional of two declvals.
LEMMA CondResIs ==
  ASSUME NEW T, Type(T), NEW U, Type(U), NEW R \in cond_res(T, U) PROVE Type(R)
BY ReferIs, ConditionalIs DEF cond_res, declval

\* common_type gives types: where the conditional of the decayed types fails, neither is
\* void, so that references to both exist.
LEMMA CommonTypeIs ==
  ASSUME NEW T, Type(T), Combinable(T), NEW U, Type(U), Combinable(U), ~IllFormed(T, U),
         NEW R \in common_type(T, U)
  PROVE  Type(R)
<1> DEFINE D == decay(T)  E == decay(U)
<1>1. Type(D) /\ Type(E) BY DecayIs
<1>2. \A x, y : Type(x) /\ Type(y) => \A Q \in decay_conditional_result(x, y) : Type(Q)
  BY CondResIs, DecayIs DEF decay_conditional_result
<1>3. CASE cond_res(D, E) # {}
  BY <1>1, <1>2, <1>3 DEF common_type, common_type_2_impl
<1>4. CASE cond_res(D, E) = {}
  <2>1. ASSUME NEW V, Type(V), Combinable(V)
        PROVE  /\ Form(decay(V)) = Form(remove_reference(V))
               /\ is_void(V) <=> Form(decay(V)) = "void"
               /\ is_void(decay(V)) <=> Form(decay(V)) = "void"
               /\ Form(decay(V)) # "function const"
    <3> DEFINE W == remove_reference(V)
    <3>1. /\ Type(W)
          /\ Form(V) \notin References => W = V
          /\ Form(V) \in References => Form(W) # "void"
      BY <2>1, RemoveReferenceIs, ArrayForms DEF Carries, References
    <3>2. Form(W) \in {"void"} \cup Ranked \cup Family BY <2>1 DEF Combinable
    <3>3. Form(W) \notin Arrays \cup Functions
      BY <3>2, ArrayForms DEF Ranked, Family, Functions
    <3>4. decay(V) = remove_cv(W) BY <3>1, <3>3, BasesAlone DEF decay, is_array
    <3>5. Type(decay(V)) /\ Form(decay(V)) = Form(W) BY <3>1, <3>4, WithCvIs DEF remove_cv
    <3>6. \A t : Type(t) => (is_void(t) <=> Form(t) = "void")
      <4>1. "void" \in Bases /\ "void" \notin Functions BY DEF Bases, OtherBases, Functions
      <4> QED BY <4>1, SimpleIs DEF is_void
    <3>7. Form(V) = "void" <=> Form(W) = "void"
      <4>1. Form(V) \in References => Form(V) # "void" BY DEF References
      <4> QED BY <3>1, <4>1
    <3> QED BY <2>1, <3>3, <3>5, <3>6, <3>7 DEF Functions
  <2>2. ~(is_void(D) /\ is_void(E))
    <3>1. ASSUME is_void(D), is_void(E) PROVE FALSE
      <4>1. declval(D) = D /\ declval(E) = E
        BY <2>1, <3>1 DEF declval, add_rvalue_reference, CanRefer
      <4> QED BY <1>4, <3>1, <4>1 DEF cond_res, Conditional
    <3> QED BY <3>1
  <2>3. CanRefer(D) /\ CanRefer(E)
    BY <2>1, <2>2 DEF CanRefer, IllFormed
  <2>4. Type(LRef(add_const(D))) /\ Type(LRef(add_const(E)))
    <3>1. \A V : Type(V) /\ CanRefer(V) => CanRefer(add_const(V))
      BY CvIs, WithCvIs DEF CanRefer, add_const
    <3> QED BY <1>1, <2>3, <3>1, QualifyIs, RefIs
  <2> QED BY <1>2, <1>4, <2>4 DEF common_type, common_type_2_impl
<1> QED BY <1>3, <1>4

\* common_reference forms references to what was referred to before, and nothing else.
LEMMA CommonRefIs ==
  ASSUME NEW T, Type(T), NEW U, Type(U), NEW R \in common_ref(T, U)
  PROVE  Type(R)
<1> DEFINE X == remove_reference(T)  Y == remove_reference(U)
<1>1. Type(X) /\ Type(Y) BY RemoveReferenceIs
<1>2. \A V : Type(V) /\ Form(V) \in References => CanRefer(remove_reference(V))
  BY RemoveReferenceIs, ArrayForms DEF CanRefer, Carries, References
<1>3. R \in common_ref(T, U) => CanRefer(X) /\ CanRefer(Y)
  <2>1. \A V : Type(V) => (is_lvalue_reference(V) <=> Form(V) = "&")
                          /\ (is_rvalue_reference(V) <=> Form(V) = "&&")
    BY WithCvIs DEF is_lvalue_reference, is_rvalue_reference, remove_cv
  <2> QED BY <1>2, <2>1 DEF common_ref, References
<1>4. \A V, W : Type(V) /\ Type(W) /\ CanRefer(V) /\ CanRefer(W)
                => \A Q \in common_ref_lvalue(V, W) : Type(Q) /\ Form(Q) \in References
  <2> SUFFICES ASSUME NEW V, NEW W, Type(V), Type(W), CanRefer(V), CanRefer(W),
                      NEW Q \in common_ref_lvalue(V, W)
               PROVE  Type(Q) /\ Form(Q) \in References
    OBVIOUS
  <2>1. \A A, B : Type(A) /\ Type(B) /\ CanRefer(A) => Type(LRef(copy_cv(B, A)))
    <3> SUFFICES ASSUME NEW A, NEW B, Type(A), Type(B), CanRefer(A)
                 PROVE  Type(LRef(copy_cv(B, A)))
      OBVIOUS
    <3>1. CvOf(A) \cup CvOf(B) \in SUBSET {"const", "volatile"} BY CvIs
    <3>2. Type(copy_cv(B, A)) /\ Form(copy_cv(B, A)) = Form(A) BY <3>1, WithCvIs DEF copy_cv
    <3> QED BY <3>2, RefIs DEF CanRefer
  <2>2. Type(Q) BY <2>1, CondResIs DEF common_ref_lvalue
  <2> QED BY <2>2 DEF common_ref_lvalue, is_reference
<1>5. CASE R \in common_ref_lvalue(X, Y) BY <1>1, <1>3, <1>4, <1>5
<1>6. CASE R \in common_ref_rvalue(X, Y)
  <2>1. PICK L \in common_ref_lvalue(X, Y) : R = RRef(remove_reference(L))
    BY <1>6 DEF common_ref_rvalue
  <2>2. Type(L) /\ Form(L) \in References BY <1>1, <1>3, <1>4, <2>1
  <2> QED BY <1>2, <2>1, <2>2, RemoveReferenceIs, RefIs
<1>7. CASE R \in common_ref_mixed(X, Y) \cup common_ref_mixed(Y, X)
  <2>1. \A V : Type(V) /\ CanRefer(V) => Type(add_const(V)) /\ CanRefer(add_const(V))
    BY CvIs, WithCvIs DEF CanRefer, add_const
  <2> QED BY <1>1, <1>3, <1>4, <1>7, <2>1 DEF common_ref_mixed
<1> QED BY <1>5, <1>6, <1>7 DEF common_ref

\* Combining types makes a type.
LEMMA CombineKeeps == ASSUME Type(type), Combine PROVE Type(type')
<1>1. PICK U \in Combined : /\ ~IllFormed(type, U) /\ Combinable(type)
                            /\ type' \in common_type(type, U) \cup common_reference(type, U)
  BY DEF Combine
<1>2. Type(U) /\ Combinable(U) BY CombinedIs
<1>3. \A R \in common_type(type, U) : Type(R) BY <1>1, <1>2, CommonTypeIs
<1> QED BY <1>1, <1>2, <1>3, CondResIs, CommonRefIs DEF common_reference

\* The inductive invariant.
LEMMA AlwaysType == CommonSpec => []Type(type)
<1>1. Init => Type(type) BY BaseIs DEF Init
<1>2. Type(type) /\ [CommonNext]_type => Type(type)'
  BY StepKeeps, CombineKeeps DEF Type, Exists, CommonNext
<1> QED BY <1>1, <1>2, PTL DEF CommonSpec

\* No sequence of declarations, transformations and combinations forms a type that the
\* language does not have: the fallbacks of add_lvalue_reference, add_pointer and the like
\* are enough, for types of any depth.
THEOREM TypesExist == CommonSpec => []TypeOK
<1>1. Type(type) => TypeOK BY DEF Type, TypeOK
<1> QED BY <1>1, AlwaysType, PTL

-----------------------------------------------------------------------------
(* Decayed types.                                                          *)

\* To give a type the qualifiers it has changes nothing.
LEMMA SameCv ==
  ASSUME NEW T, Type(T)
  PROVE  WithCv(T, CvOf(T)) = T
<1> DEFINE Q == WithCv(T, CvOf(T))  e == Element(T)
<1>1. e \in 1..Len(T) BY ElementIs DEF IsElement
<1>2. /\ Type(Q) /\ Len(Q) = Len(T) /\ Element(Q) = e
      /\ \A i \in 1..Len(T) : Q[i].form = T[i].form
      /\ \A i \in 1..Len(T) \ {e} : Q[i] = T[i]
      /\ CvOf(Q) = CvOf(T)
  BY CvIs, WithCvIs
<1> HIDE DEF Q
<1>3. Q[e].cv = T[e].cv BY <1>2 DEF CvOf
<1>4. /\ T[e] = [form |-> T[e].form, cv |-> T[e].cv]
      /\ Q[e] = [form |-> Q[e].form, cv |-> Q[e].cv]
  BY <1>1, <1>2, LayerFacts
<1>5. Q[e] = T[e] BY <1>1, <1>2, <1>3, <1>4
<1>6. \A i \in 1..Len(T) : Q[i] = T[i] BY <1>2, <1>5
<1>7. Q \in Seq(Layers) /\ T \in Seq(Layers) BY <1>2 DEF Type
<1>8. Q = T BY <1>2, <1>6, <1>7, SeqEqual
<1> QED BY <1>8 DEF Q

\* What can be passed by value decays to itself.
LEMMA Settled ==
  ASSUME NEW D, Type(D), Form(D) \notin References \cup Arrays, CvOf(D) = {},
         Form(D) # "function"
  PROVE  decay(D) = D
<1>1. remove_reference(D) = D BY RemoveReferenceIs
<1>2. ~is_array(D) BY DEF is_array
<1>3. CASE is_function(D)
  <2>1. Form(D) = "function const" BY <1>3, BasesAlone DEF Functions
  <2>2. add_pointer(D) = D BY <1>1, <2>1, PointIs
  <2> QED BY <1>1, <1>2, <1>3, <2>2 DEF decay
<1>4. CASE ~is_function(D)
  <2>1. remove_cv(D) = D BY SameCv DEF remove_cv
  <2> QED BY <1>1, <1>2, <1>4, <2>1 DEF decay
<1> QED BY <1>3, <1>4

\* What has just been built is not qualified, arrays apart.
LEMMA PointerCv ==
  ASSUME NEW T, Type(T), NEW form \in Derived \ Arrays, Carries(Form(T), form)
  PROVE  CvOf(Build(T, form)) = {}
<1> DEFINE B == Build(T, form)
<1>1. /\ Type(B) /\ Len(B) = Len(T) + 1 /\ Form(B) = form /\ B[Len(T) + 1] = Plain(form)
  BY BuildIs
<1> HIDE DEF B
<1>2. Element(B) = Len(B) BY <1>1, ElementIs
<1>3. CvOf(B) = {} BY <1>1, <1>2 DEF CvOf, Plain
<1> QED BY <1>3 DEF B

\* What decay leaves: no reference, no array, no qualifiers, no function.
LEMMA Decayed ==
  ASSUME NEW T, Type(T)
  PROVE  LET D == decay(T) IN
         /\ Type(D) /\ Form(D) \notin References \cup Arrays /\ CvOf(D) = {}
         /\ Form(D) # "function"
<1> DEFINE U == remove_reference(T)  R == remove_extent(U)  D == decay(T)
<1> USE FormsDiffer
<1>1. Type(U) /\ Form(U) \notin References /\ Type(D) BY RemoveReferenceIs, DecayIs
<1>2. \A V : Type(V) /\ Carries(Form(V), "*") => CvOf(Build(V, "*")) = {}
  BY PointerCv
<1>3. "*" # "function" OBVIOUS
<1>4. CASE is_array(U)
  <2>1. Form(U) \in Arrays BY <1>4 DEF is_array
  <2>2. R = Front(U) /\ Type(R) /\ Carries(Form(R), Form(U))
    BY <1>1, <2>1, FrontIs DEF remove_extent
  <2>3. Form(R) \notin References /\ Form(R) # "function const"
    BY <2>1, <2>2 DEF Carries, Functions
  <2>4. remove_reference(R) = R BY <2>2, <2>3, RemoveReferenceIs
  <2>5. add_pointer(R) = Build(R, "*") /\ Form(Build(R, "*")) = "*"
    BY <2>2, <2>3, <2>4, PointIs
  <2>6. Carries(Form(R), "*") BY <2>2, <2>3 DEF Carries
  <2>7. D = Build(R, "*") BY <1>4, <2>5 DEF decay
  <2> QED BY <1>1, <1>2, <1>3, <2>2, <2>5, <2>6, <2>7
<1>5. CASE ~is_array(U) /\ is_function(U)
  <2>1. Form(U) \in Functions /\ D = add_pointer(U) /\ remove_reference(U) = U
    BY <1>1, <1>5, BasesAlone, RemoveReferenceIs DEF decay
  <2>2. CASE Form(U) = "function const"
    <3>1. D = U BY <1>1, <2>1, <2>2, PointIs
    <3>2. CvOf(U) = {} BY <1>1, <2>1, CvIs
    <3> QED BY <1>1, <2>1, <2>2, <3>1, <3>2
  <2>3. CASE Form(U) # "function const"
    <3>1. D = Build(U, "*") /\ Form(D) = "*" BY <1>1, <2>1, <2>3, PointIs
    <3>2. Carries(Form(U), "*") BY <1>1, <2>1, <2>3 DEF Carries, Functions
    <3> QED BY <1>1, <1>2, <1>3, <3>1, <3>2
  <2> QED BY <2>2, <2>3
<1>6. CASE ~is_array(U) /\ ~is_function(U)
  <2>1. D = WithCv(U, {}) BY <1>6 DEF decay, remove_cv
  <2>2. Form(D) = Form(U) /\ CvOf(D) = {} BY <1>1, <2>1, WithCvIs
  <2>3. Form(U) \notin Arrays \cup Functions BY <1>1, <1>6, BasesAlone DEF is_array
  <2> QED BY <1>1, <2>2, <2>3 DEF Functions
<1> QED BY <1>4, <1>5, <1>6

\* A decayed type can be passed by value and decays to itself, so that common_type, which
\* decays its arguments until nothing changes, ends.
THEOREM DecaySettles == CommonSpec => []DecayIsFinal
<1>1. ASSUME Type(type) PROVE DecayIsFinal
  <2> DEFINE D == decay(type)
  <2>1. /\ Type(D) /\ Form(D) \notin References \cup Arrays /\ CvOf(D) = {}
        /\ Form(D) # "function"
    BY <1>1, Decayed
  <2> HIDE DEF D
  <2>2. decay(D) = D /\ ~is_array(D) /\ ~is_reference(D)
    BY <2>1, Settled DEF is_array, is_reference
  <2>3. is_function(D) => ~CanPoint(D)
    BY <2>1, BasesAlone DEF CanPoint, Functions
  <2> QED BY <2>1, <2>2, <2>3 DEF DecayIsFinal, D
<1> QED BY <1>1, AlwaysType, PTL

-----------------------------------------------------------------------------
(* Signs.                                                                  *)

Integrals == {"bool"} \cup Standard \cup Characters

\* The integral forms, the enumerations and the others differ.
LEMMA SignedForms ==
  /\ Integrals \subseteq Bases /\ Integrals \cap Functions = {} /\ "bool" \in Integrals
  /\ Enums \cap Integrals = {} /\ Enums \subseteq Bases /\ Enums \cap Functions = {}
  /\ "float" \in Bases \ (Functions \cup Integrals \cup Enums)
  /\ "bool" \notin Standard \cup Characters /\ Standard \cap Characters = {}
<1>1. "bool" \notin Standard \cup Characters /\ Standard \cap Characters = {}
  BY StandardForms DEF Characters
<1>2. Integrals \cap Functions = {} /\ "float" \notin Integrals \cup Functions
  BY StandardForms DEF Integrals, Functions, Characters
<1>3. Enums \cap OtherBases = {} BY EnumAssumption
<1>4. Integrals \cup Functions \cup {"float"} \subseteq OtherBases BY DEF OtherBases, Integrals
<1> QED BY <1>1, <1>2, <1>3, <1>4 DEF Bases, Integrals

\* The categories of arithmetic types, read off the last layer.
LEMMA IntegralIs ==
  ASSUME NEW T, Type(T)
  PROVE  /\ is_integral(T) <=> Form(T) \in Integrals
         /\ is_enum(T) <=> Form(T) \in Enums
         /\ is_floating_point(T) <=> Form(T) = "float"
         /\ remove_cv(T) = <<Plain("bool")>> <=> Form(T) = "bool"
<1>1. \A b \in Integrals : remove_cv(T) = <<Plain(b)>> <=> Form(T) = b
  BY SimpleIs, SignedForms
<1>2. is_integral(T) <=> Form(T) \in Integrals
  <2>1. is_integral(T) <=> \E b \in Integrals : remove_cv(T) = <<Plain(b)>>
    BY DEF is_integral, is_integral_helper, Integrals
  <2> QED BY <1>1, <2>1
<1>3. is_enum(T) <=> Form(T) \in Enums BY BasesAlone, SignedForms DEF is_enum
<1>4. is_floating_point(T) <=> Form(T) = "float"
  BY SimpleIs, SignedForms DEF is_floating_point
<1> QED BY <1>1, <1>2, <1>3, <1>4, SignedForms

\* No standard type has two ranks or two signs.
LEMMA RanksDiffer ==
  /\ \A i \in 1..5 : SignedRanks[i] \in Standard /\ UnsignedRanks[i] \in Standard
  /\ \A i, j \in 1..5 : /\ SignedRanks[i] # UnsignedRanks[j]
                        /\ SignedRanks[i] = SignedRanks[j] => i = j
                        /\ UnsignedRanks[i] = UnsignedRanks[j] => i = j
<1>1. \A i : i \in 1..5 <=> i = 1 \/ i = 2 \/ i = 3 \/ i = 4 \/ i = 5 OBVIOUS
<1>2. /\ SignedRanks[1] = "signed char" /\ SignedRanks[2] = "short" /\ SignedRanks[3] = "int"
      /\ SignedRanks[4] = "long" /\ SignedRanks[5] = "long long"
  BY DEF SignedRanks
<1>3. /\ UnsignedRanks[1] = "unsigned char" /\ UnsignedRanks[2] = "unsigned short"
      /\ UnsignedRanks[3] = "unsigned int" /\ UnsignedRanks[4] = "unsigned long"
      /\ UnsignedRanks[5] = "unsigned long long"
  BY DEF UnsignedRanks
<1>4. \A i \in 1..5 : SignedRanks[i] \in Standard /\ UnsignedRanks[i] \in Standard
  BY DEF Standard
<1>5. \A i, j \in 1..5 : SignedRanks[i] # UnsignedRanks[j] BY <1>1, <1>2, <1>3
<1>6. \A i, j \in 1..5 : SignedRanks[i] = SignedRanks[j] => i = j
  <2> SUFFICES ASSUME NEW i \in 1..5, NEW j \in 1..5, i # j PROVE SignedRanks[i] # SignedRanks[j]
    OBVIOUS
  <2>1. CASE i = 1 BY <1>1, <1>2, <2>1
  <2>2. CASE i = 2 BY <1>1, <1>2, <2>2
  <2>3. CASE i = 3 BY <1>1, <1>2, <2>3
  <2>4. CASE i = 4 BY <1>1, <1>2, <2>4
  <2>5. CASE i = 5 BY <1>1, <1>2, <2>5
  <2> QED BY <1>1, <2>1, <2>2, <2>3, <2>4, <2>5
<1>7. \A i, j \in 1..5 : UnsignedRanks[i] = UnsignedRanks[j] => i = j
  <2> SUFFICES ASSUME NEW i \in 1..5, NEW j \in 1..5, i # j PROVE UnsignedRanks[i] # UnsignedRanks[j]
    OBVIOUS
  <2>1. CASE i = 1 BY <1>1, <1>3, <2>1
  <2>2. CASE i = 2 BY <1>1, <1>3, <2>2
  <2>3. CASE i = 3 BY <1>1, <1>3, <2>3
  <2>4. CASE i = 4 BY <1>1, <1>3, <2>4
  <2>5. CASE i = 5 BY <1>1, <1>3, <2>5
  <2> QED BY <1>1, <2>1, <2>2, <2>3, <2>4, <2>5
<1> QED BY <1>4, <1>5, <1>6, <1>7

\* The first rank of a size, the same one whatever the sign.
LEMMA BySizeIs ==
  ASSUME NEW size, \E i \in 1..5 : SizeOf[SignedRanks[i]] = size
  PROVE  \E i \in 1..5 : /\ by_size(SignedRanks, size) = {SignedRanks[i]}
                         /\ by_size(UnsignedRanks, size) = {UnsignedRanks[i]}
                         /\ SizeOf[SignedRanks[i]] = size
<1> DEFINE S == {i \in 1..5 : SizeOf[SignedRanks[i]] = size}
<1>1. PICK m \in S : \A k \in S : m <= k
  <2>1. S \in SUBSET Nat /\ S # {} OBVIOUS
  <2> QED BY <2>1, Least
<1>2. m \in 1..5 /\ SizeOf[SignedRanks[m]] = size
      /\ \A j \in 1..(m - 1) : SizeOf[SignedRanks[j]] # size
  <2>1. m \in 1..5 /\ SizeOf[SignedRanks[m]] = size BY <1>1
  <2>2. ASSUME NEW j \in 1..(m - 1) PROVE SizeOf[SignedRanks[j]] # size
    <3>1. j \in 1..5 /\ j < m BY <2>1
    <3> QED BY <1>1, <3>1
  <2> QED BY <2>1, <2>2
<1>3. \A i \in 1..5 : /\ SizeOf[SignedRanks[i]] = size
                      /\ \A j \in 1..(i - 1) : SizeOf[SignedRanks[j]] # size
                      => i = m
  <2> SUFFICES ASSUME NEW i \in 1..5, SizeOf[SignedRanks[i]] = size, i # m,
                      \A j \in 1..(i - 1) : SizeOf[SignedRanks[j]] # size
               PROVE  FALSE
    OBVIOUS
  <2>1. m <= i BY <1>1
  <2>2. m \in 1..(i - 1) BY <1>2, <2>1
  <2> QED BY <1>2, <2>2
<1>4. \A i \in 1..5 : SizeOf[SignedRanks[i]] = SizeOf[UnsignedRanks[i]] BY SizeAssumption
<1>5. by_size(SignedRanks, size) = {SignedRanks[m]} BY <1>2, <1>3 DEF by_size
<1>6. /\ SizeOf[UnsignedRanks[m]] = size
      /\ \A j \in 1..(m - 1) : SizeOf[UnsignedRanks[j]] # size
  <2>1. \A j \in 1..(m - 1) : j \in 1..5 BY <1>2
  <2> QED BY <1>2, <1>4, <2>1
<1>7. \A i \in 1..5 : /\ SizeOf[UnsignedRanks[i]] = size
                      /\ \A j \in 1..(i - 1) : SizeOf[UnsignedRanks[j]] # size
                      => i = m
  <2>1. \A i \in 1..5 : \A j \in 1..(i - 1) : j \in 1..5 OBVIOUS
  <2> QED BY <1>3, <1>4, <2>1
<1>8. by_size(UnsignedRanks, size) = {UnsignedRanks[m]} BY <1>2, <1>6, <1>7 DEF by_size
<1> QED BY <1>2, <1>5, <1>8

\* A standard type keeps its rank; a character type is given one by its size.
LEMMA RawIs ==
  /\ \A i \in 1..5 : \A b \in {SignedRanks[i], UnsignedRanks[i]} :
       /\ make_raw(SignedRanks, b) = {SignedRanks[i]}
       /\ make_raw(UnsignedRanks, b) = {UnsignedRanks[i]}
  /\ \A b \in Characters : \A ranks \in {SignedRanks, UnsignedRanks} :
       make_raw(ranks, b) = by_size(ranks, SizeOf[b])
<1>1. ASSUME NEW i \in 1..5, NEW b \in {SignedRanks[i], UnsignedRanks[i]}
      PROVE  /\ make_raw(SignedRanks, b) = {SignedRanks[i]}
             /\ make_raw(UnsignedRanks, b) = {UnsignedRanks[i]}
  <2>1. b \notin Characters BY RanksDiffer, SignedForms
  <2>2. \A j \in 1..5 : b \in {SignedRanks[j], UnsignedRanks[j]} <=> j = i BY RanksDiffer
  <2>3. {j \in 1..5 : b \in {SignedRanks[j], UnsignedRanks[j]}} = {i} BY <2>2
  <2>4. make_raw(SignedRanks, b) =
          {SignedRanks[j] : j \in {j \in 1..5 : b \in {SignedRanks[j], UnsignedRanks[j]}}}
    BY <2>1 DEF make_raw
  <2>5. make_raw(UnsignedRanks, b) =
          {UnsignedRanks[j] : j \in {j \in 1..5 : b \in {SignedRanks[j], UnsignedRanks[j]}}}
    BY <2>1 DEF make_raw
  <2> QED BY <2>3, <2>4, <2>5
<1> QED BY <1>1 DEF make_raw
\* The signed and the unsigned type that go with a type are those of one rank, and the
\* qualifiers are kept.
LEMMA MadeIs ==
  ASSUME NEW T, Type(T), Form(T) \in (Integrals \ {"bool"}) \cup Enums
  PROVE  \E i \in 1..5 :
           /\ SizeOf[SignedRanks[i]] = SizeOf[Form(T)]
           /\ make_signed(T) = {sign_copy_cv(T, SignedRanks[i])}
           /\ make_unsigned(T) = {sign_copy_cv(T, UnsignedRanks[i])}
           /\ \A j \in 1..5 : Form(T) \in {SignedRanks[j], UnsignedRanks[j]} => i = j
<1> DEFINE Q == remove_cv(T)  b == Form(T)
<1>1. Type(Q) /\ Form(Q) = b BY WithCvIs DEF remove_cv
<1>2. /\ is_integral(Q) <=> b \in Integrals
      /\ is_enum(Q) <=> b \in Enums
      /\ remove_cv(T) = <<Plain("bool")>> <=> b = "bool"
  BY <1>1, IntegralIs
<1>3. b \in Characters \cup Enums => \A i \in 1..5 : b \notin {SignedRanks[i], UnsignedRanks[i]}
  BY RanksDiffer, SignedForms DEF Integrals
<1>4. SizeOf[b] = SizeOf[b] OBVIOUS
<1>5. b \in Characters \cup Enums => \E i \in 1..5 : SizeOf[SignedRanks[i]] = SizeOf[b]
  BY SizeAssumption
<1> HIDE DEF b, Q
<1>6. CASE b \in Characters
  <2>1. PICK i \in 1..5 : /\ by_size(SignedRanks, SizeOf[b]) = {SignedRanks[i]}
                         /\ by_size(UnsignedRanks, SizeOf[b]) = {UnsignedRanks[i]}
                         /\ SizeOf[SignedRanks[i]] = SizeOf[b]
    BY <1>5, <1>6, BySizeIs
  <2>2. is_integral(Q) /\ b # "bool" BY <1>2, <1>6, SignedForms DEF Integrals
  <2>3. make_signed(T) = {sign_copy_cv(T, SignedRanks[i])}
    BY <1>2, <1>6, <2>1, <2>2, RawIs DEF make_signed, make_rank, Q, b
  <2>4. make_unsigned(T) = {sign_copy_cv(T, UnsignedRanks[i])}
    BY <1>2, <1>6, <2>1, <2>2, RawIs DEF make_unsigned, make_rank, Q, b
  <2> QED BY <1>3, <1>6, <2>1, <2>3, <2>4 DEF b
<1>7. CASE b \in Enums
  <2>1. PICK i \in 1..5 : /\ by_size(SignedRanks, SizeOf[b]) = {SignedRanks[i]}
                         /\ by_size(UnsignedRanks, SizeOf[b]) = {UnsignedRanks[i]}
                         /\ SizeOf[SignedRanks[i]] = SizeOf[b]
    BY <1>5, <1>7, BySizeIs
  <2>2. ~is_integral(Q) /\ is_enum(Q) BY <1>2, <1>7, SignedForms
  <2>3. make_signed(T) = {sign_copy_cv(T, SignedRanks[i])}
    BY <2>1, <2>2 DEF make_signed, make_rank, Q, b
  <2>4. make_unsigned(T) = {sign_copy_cv(T, UnsignedRanks[i])}
    BY <2>1, <2>2 DEF make_unsigned, make_rank, Q, b
  <2> QED BY <1>3, <1>7, <2>1, <2>3, <2>4 DEF b
<1>8. CASE b \in Standard
  <2>1. PICK i \in 1..5 : b \in {SignedRanks[i], UnsignedRanks[i]} BY <1>8 DEF Standard
  <2>2. is_integral(Q) /\ b # "bool" BY <1>2, <1>8, SignedForms DEF Integrals
  <2>3. make_signed(T) = {sign_copy_cv(T, SignedRanks[i])}
    BY <1>2, <2>1, <2>2, RawIs DEF make_signed, make_rank, Q, b
  <2>4. make_unsigned(T) = {sign_copy_cv(T, UnsignedRanks[i])}
    BY <1>2, <2>1, <2>2, RawIs DEF make_unsigned, make_rank, Q, b
  <2>5. SizeOf[SignedRanks[i]] = SizeOf[b] BY <2>1, SizeAssumption
  <2>6. \A j \in 1..5 : b \in {SignedRanks[j], UnsignedRanks[j]} => i = j
    BY <2>1, RanksDiffer
  <2> QED BY <2>3, <2>4, <2>5, <2>6 DEF b
<1> QED BY <1>6, <1>7, <1>8 DEF Integrals, b

\* A qualified standard type has the sign of its rank.
LEMMA CopyIs ==
  ASSUME NEW T, Type(T), NEW i \in 1..5, NEW b \in {SignedRanks[i], UnsignedRanks[i]}
  PROVE  LET C == sign_copy_cv(T, b) IN
         /\ Type(C) /\ Form(C) = b /\ CvOf(C) = CvOf(T)
         /\ is_signed(C) <=> b = SignedRanks[i]
         /\ is_unsigned(C) <=> b = UnsignedRanks[i]
<1> DEFINE C == sign_copy_cv(T, b)
<1>1. b \in Standard /\ b \in Bases /\ b \notin Functions \cup References
  BY RanksDiffer, SignedForms, FormsDiffer DEF Integrals
<1>2. Type(<<Plain(b)>>) /\ Form(<<Plain(b)>>) = b BY <1>1, BaseIs
<1>3. Type(C) /\ Form(C) = b /\ CvOf(C) = CvOf(T)
  BY <1>1, <1>2, CvIs, WithCvIs DEF sign_copy_cv
<1> HIDE DEF C
<1>4. is_arithmetic(C) BY <1>1, <1>3, IntegralIs DEF is_arithmetic, Integrals
<1>5. b \in Negative \cup {"float"} <=> b = SignedRanks[i]
  <2>1. b # "float" BY <1>1, SignedForms DEF Integrals
  <2>2. b \in Negative <=> b \in {SignedRanks[j] : j \in 1..5} BY <1>1, SizeAssumption
  <2>3. b \in {SignedRanks[j] : j \in 1..5} <=> b = SignedRanks[i] BY RanksDiffer
  <2> QED BY <2>1, <2>2, <2>3
<1>6. b = UnsignedRanks[i] <=> b # SignedRanks[i] BY RanksDiffer
<1> QED BY <1>3, <1>4, <1>5, <1>6 DEF is_signed, is_unsigned, C

\* make_signed and make_unsigned have one result for exactly the integral types other than
\* bool and the enumerations, of the same size and qualifiers, whichever enumerations there
\* are and however large the ranks.
THEOREM SignsDetermined == CommonSpec => []SignsAgree
<1>1. ASSUME Type(type) PROVE SignsAgree
  <2> DEFINE has == (is_integral(type) /\ remove_cv(type) # <<Plain("bool")>>) \/ is_enum(type)
             b == Form(type)
  <2>1. has <=> b \in (Integrals \ {"bool"}) \cup Enums
    BY <1>1, IntegralIs, SignedForms
  <2>2. CASE ~has
    <3>1. /\ Form(remove_cv(type)) = b /\ Type(remove_cv(type)) BY <1>1, WithCvIs DEF remove_cv
    <3>2. ~(is_integral(remove_cv(type)) /\ remove_cv(type) # <<Plain("bool")>>)
          /\ ~is_enum(remove_cv(type))
      BY <1>1, <2>1, <2>2, <3>1, IntegralIs, SignedForms
    <3>3. make_signed(type) = {} /\ make_unsigned(type) = {}
      BY <3>2 DEF make_signed, make_unsigned, make_rank
    <3> QED BY <2>2, <3>3, FS_EmptySet DEF SignsAgree
  <2>3. CASE has
    <3>1. PICK i \in 1..5 :
            /\ SizeOf[SignedRanks[i]] = SizeOf[b]
            /\ make_signed(type) = {sign_copy_cv(type, SignedRanks[i])}
            /\ make_unsigned(type) = {sign_copy_cv(type, UnsignedRanks[i])}
      BY <1>1, <2>1, <2>3, MadeIs
    <3> DEFINE s == sign_copy_cv(type, SignedRanks[i])
               u == sign_copy_cv(type, UnsignedRanks[i])
    <3>2. /\ Type(s) /\ Form(s) = SignedRanks[i] /\ CvOf(s) = CvOf(type) /\ is_signed(s)
          /\ Type(u) /\ Form(u) = UnsignedRanks[i] /\ CvOf(u) = CvOf(type) /\ is_unsigned(u)
      BY <1>1, CopyIs
    <3>3. SizeOf[Form(s)] = SizeOf[b] /\ SizeOf[Form(u)] = SizeOf[b]
      BY <3>1, <3>2, SizeAssumption
    <3>4. {Form(s), Form(u)} \subseteq (Integrals \ {"bool"}) \cup Enums
      BY <3>2, RanksDiffer, SignedForms DEF Integrals
    <3>5. make_signed(u) = {sign_copy_cv(u, SignedRanks[i])} BY <3>2, <3>4, MadeIs
    <3>6. make_unsigned(s) = {sign_copy_cv(s, UnsignedRanks[i])} BY <3>2, <3>4, MadeIs
    <3>7. sign_copy_cv(u, SignedRanks[i]) = s /\ sign_copy_cv(s, UnsignedRanks[i]) = u
      BY <3>2 DEF sign_copy_cv
    <3>8. Cardinality({s}) = 1 /\ Cardinality({u}) = 1 BY FS_Singleton
    <3> HIDE DEF s, u
    <3>9. /\ Cardinality(make_signed(type)) = 1 /\ Cardinality(make_unsigned(type)) = 1
      BY <3>1, <3>8 DEF s, u
    <3>10. make_signed(type) = {s} /\ make_unsigned(type) = {u} BY <3>1 DEF s, u
    <3>11. make_signed(u) = {s} /\ make_unsigned(s) = {u} BY <3>5, <3>6, <3>7
    <3> QED BY <2>3, <3>2, <3>3, <3>9, <3>10, <3>11 DEF SignsAgree
  <2> QED BY <2>2, <2>3
<1> QED BY <1>1, AlwaysType, PTL

-----------------------------------------------------------------------------
(* Categories.                                                             *)

Categories == {"void", "null_pointer", "integral", "floating_point", "array", "pointer",
  "lvalue_reference", "rvalue_reference", "member_object_pointer",
  "member_function_pointer", "enum", "union", "class", "function"}

\* The category of a type, read off its last layer.
Category(T) ==
  LET b == Form(T) IN
  IF b = "void" THEN "void" ELSE IF b = "nullptr_t" THEN "null_pointer"
  ELSE IF b \in Integrals THEN "integral" ELSE IF b = "float" THEN "floating_point"
  ELSE IF b \in Arrays THEN "array" ELSE IF b = "*" THEN "pointer"
  ELSE IF b = "&" THEN "lvalue_reference" ELSE IF b = "&&" THEN "rvalue_reference"
  ELSE IF b = "C::*" THEN IF is_function(Front(T)) THEN "member_function_pointer"
                          ELSE "member_object_pointer"
  ELSE IF b \in Enums THEN "enum" ELSE IF b = "union" THEN "union"
  ELSE IF b \in Classes THEN "class" ELSE "function"

\* The forms of different categories differ, and every form has one.
LEMMA CategoriesDiffer ==
  /\ Integrals \cap ({"void", "nullptr_t", "float", "union"} \cup Classes \cup Functions) = {}
  /\ Arrays \cap (Bases \cup {"*", "&", "&&", "C::*"}) = {}
  /\ {"*", "&", "&&", "C::*"} \cap Bases = {}
  /\ Enums \cap (Integrals \cup {"void", "nullptr_t", "float", "union"} \cup Classes
                   \cup Functions) = {}
  /\ {"void", "nullptr_t", "float", "union"} \cap (Classes \cup Functions) = {}
  /\ Classes \cap Functions = {}
  /\ Bases = {"void", "nullptr_t", "float", "union"} \cup Integrals \cup Enums \cup Classes
               \cup Functions
  /\ Derived = {"*", "&", "&&", "C::*"} \cup Arrays
<1>1. Integrals \cap ({"void", "nullptr_t", "float", "union"} \cup Classes \cup Functions) = {}
  BY StandardForms DEF Integrals, Classes, Functions, Characters
<1>2. {"*", "&", "&&", "C::*"} \cup Arrays = Derived BY DEF Derived, References
<1>3. Bases = {"void", "nullptr_t", "float", "union"} \cup Integrals \cup Enums \cup Classes
                \cup Functions
  BY DEF Bases, OtherBases, Integrals
<1>4. Arrays \cap {"*", "&", "&&", "C::*"} = {} BY ArrayForms
<1>5. /\ {"void", "nullptr_t", "float", "union"} \cap (Classes \cup Functions) = {}
      /\ Classes \cap Functions = {}
  BY DEF Classes, Functions
<1>6. Integrals \cup {"void", "nullptr_t", "float", "union"} \cup Classes \cup Functions
        \subseteq OtherBases
  BY DEF OtherBases, Integrals
<1>7. Enums \cap (Integrals \cup {"void", "nullptr_t", "float", "union"} \cup Classes
                    \cup Functions) = {}
  BY <1>6, EnumAssumption
<1>8. /\ Arrays \cap (Bases \cup {"*", "&", "&&", "C::*"}) = {}
      /\ {"*", "&", "&&", "C::*"} \cap Bases = {}
  BY <1>2, <1>4, FormsDiffer
<1> QED BY <1>1, <1>2, <1>3, <1>5, <1>7, <1>8

\* Each category is the one that the last layer tells.
LEMMA CategoryIs ==
  ASSUME NEW T, Type(T)
  PROVE  /\ Category(T) \in Categories
         /\ is_void(T) <=> Category(T) = "void"
         /\ is_null_pointer(T) <=> Category(T) = "null_pointer"
         /\ is_integral(T) <=> Category(T) = "integral"
         /\ is_floating_point(T) <=> Category(T) = "floating_point"
         /\ is_array(T) <=> Category(T) = "array"
         /\ is_pointer(T) <=> Category(T) = "pointer"
         /\ is_lvalue_reference(T) <=> Category(T) = "lvalue_reference"
         /\ is_rvalue_reference(T) <=> Category(T) = "rvalue_reference"
         /\ is_member_object_pointer(T) <=> Category(T) = "member_object_pointer"
         /\ is_member_function_pointer(T) <=> Category(T) = "member_function_pointer"
         /\ is_enum(T) <=> Category(T) = "enum"
         /\ is_union(T) <=> Category(T) = "union"
         /\ is_class(T) <=> Category(T) = "class"
         /\ is_function(T) <=> Category(T) = "function"
<1> DEFINE b == Form(T)
<1>1. Form(remove_cv(T)) = b BY WithCvIs DEF remove_cv
<1>2. b \in Bases \cup Derived BY BasesAlone
<1>3. /\ is_void(T) <=> b = "void"
      /\ is_null_pointer(T) <=> b = "nullptr_t"
      /\ is_integral(T) <=> b \in Integrals
      /\ is_floating_point(T) <=> b = "float"
  <2>1. {"void", "nullptr_t"} \subseteq Bases \ Functions BY DEF Bases, OtherBases, Functions
  <2> QED BY <2>1, SimpleIs, IntegralIs DEF is_void, is_null_pointer
<1>4. /\ is_array(T) <=> b \in Arrays
      /\ is_pointer(T) <=> b = "*"
      /\ is_lvalue_reference(T) <=> b = "&"
      /\ is_rvalue_reference(T) <=> b = "&&"
      /\ is_member_object_pointer(T) <=> b = "C::*" /\ ~is_function(Front(T))
      /\ is_member_function_pointer(T) <=> b = "C::*" /\ is_function(Front(T))
  BY <1>1 DEF is_array, is_pointer, is_lvalue_reference, is_rvalue_reference,
              is_member_object_pointer, is_member_function_pointer
<1>5. /\ is_enum(T) <=> b \in Enums
      /\ is_union(T) <=> b = "union"
      /\ is_class(T) <=> b \in Classes
      /\ is_function(T) <=> b \in Functions
  <2>1. {"union"} \cup Classes \cup Enums \subseteq Bases BY CategoriesDiffer
  <2>2. b \in {"union"} \cup Classes \cup Enums => Len(T) = 1 BY <2>1, BasesAlone
  <2>3. "union" \notin Classes BY CategoriesDiffer
  <2> QED BY <2>2, <2>3, BasesAlone DEF is_enum, is_union, is_class
<1> HIDE DEF b
<1>6. CASE b \in Derived
  BY <1>3, <1>4, <1>5, <1>6, CategoriesDiffer DEF Category, Categories, b
<1>7. CASE b \in Bases
  BY <1>3, <1>4, <1>5, <1>7, CategoriesDiffer DEF Category, Categories, b
<1> QED BY <1>2, <1>6, <1>7

\* How a type is qualified does not change its category.
LEMMA CategoryKept ==
  ASSUME NEW T, Type(T)
  PROVE  Category(add_cv(T)) = Category(T)
<1> DEFINE Q == add_cv(T)
<1>1. /\ Type(Q) /\ Form(Q) = Form(T) /\ Len(Q) = Len(T)
      /\ \A i \in 1..Len(T) : Q[i].form = T[i].form
  BY WithCvIs DEF add_cv
<1> HIDE DEF Q
<1>2. ASSUME Form(T) = "C::*" PROVE is_function(Front(Q)) <=> is_function(Front(T))
  <2>1. Form(T) \in Derived /\ Form(Q) \in Derived BY <1>1, <1>2, CategoriesDiffer
  <2>2. /\ Type(Front(T)) /\ Len(Front(T)) = Len(T) - 1
        /\ \A i \in 1..(Len(T) - 1) : Front(T)[i] = T[i]
        /\ Type(Front(Q)) /\ Len(Front(Q)) = Len(T) - 1
        /\ \A i \in 1..(Len(T) - 1) : Front(Q)[i] = Q[i]
    BY <1>1, <2>1, FrontIs
  <2>3. Len(T) - 1 \in 1..Len(T) /\ Len(T) - 1 \in 1..(Len(T) - 1)
    <3>1. Len(T) \in Nat /\ Len(T) - 1 > 0 BY <2>2 DEF Type
    <3> QED BY <3>1
  <2>4. Form(Front(Q)) = Form(Front(T)) BY <1>1, <2>2, <2>3 DEF Form, Last
  <2> QED BY <2>2, <2>4, BasesAlone
<1> QED BY <1>1, <1>2 DEF Category, Q

\* Every type is in exactly one primary category, whatever its qualifiers, and the composite
\* categories are the unions that they are named for.
THEOREM CategoriesPartition == CommonSpec => []OneCategory
<1>1. ASSUME Type(type) PROVE OneCategory
  <2> DEFINE c == Primary(type)  K == {k \in DOMAIN c : c[k]}
  <2>1. DOMAIN c = Categories BY DEF Primary, Categories
  <2>2. \A k \in Categories : c[k] <=> Category(type) = k
    BY <1>1, CategoryIs DEF Primary, Categories
  <2>3. Cardinality(K) = 1
    <3>1. K = {Category(type)} BY <1>1, <2>1, <2>2, CategoryIs
    <3> QED BY <3>1, FS_Singleton
  <2>4. Primary(add_cv(type)) = c
    <3> DEFINE d == Primary(add_cv(type))
    <3>1. Type(add_cv(type)) BY <1>1, QualifyIs
    <3>2. \A k \in Categories : d[k] <=> Category(type) = k
      BY <1>1, <3>1, CategoryIs, CategoryKept DEF Primary, Categories
    <3>3. DOMAIN d = Categories BY DEF Primary, Categories
    <3>4. \A T : \A k \in Categories : Primary(T)[k] \in BOOLEAN
      <4> SUFFICES ASSUME NEW T PROVE \A k \in Categories : Primary(T)[k] \in BOOLEAN
        OBVIOUS
      <4>1. /\ is_void(T) \in BOOLEAN /\ is_null_pointer(T) \in BOOLEAN
            /\ is_floating_point(T) \in BOOLEAN
        BY DEF is_void, is_null_pointer, is_floating_point
      <4>2. is_integral(T) \in BOOLEAN BY DEF is_integral, is_integral_helper
      <4>3. /\ is_array(T) \in BOOLEAN /\ is_pointer(T) \in BOOLEAN
            /\ is_lvalue_reference(T) \in BOOLEAN /\ is_rvalue_reference(T) \in BOOLEAN
        BY DEF is_array, is_pointer, is_lvalue_reference, is_rvalue_reference
      <4>4. /\ is_enum(T) \in BOOLEAN /\ is_union(T) \in BOOLEAN /\ is_class(T) \in BOOLEAN
            /\ is_function(T) \in BOOLEAN
        BY DEF is_enum, is_union, is_class, is_function
      <4>5. /\ is_member_object_pointer(T) \in BOOLEAN
            /\ is_member_function_pointer(T) \in BOOLEAN
        BY DEF is_member_object_pointer, is_member_function_pointer
      <4> QED BY <4>1, <4>2, <4>3, <4>4, <4>5 DEF Primary, Categories
    <3>5. \A k \in Categories : c[k] \in BOOLEAN /\ d[k] \in BOOLEAN BY <3>4
    <3>6. \A k \in Categories : c[k] <=> d[k] BY <2>2, <3>2
    <3> HIDE DEF c, d
    <3>7. \A k \in Categories : c[k] = d[k] BY <3>5, <3>6
    <3>8. c = [k \in Categories |-> c[k]] /\ d = [k \in Categories |-> d[k]]
      BY <2>1, <3>3 DEF c, d, Primary
    <3>9. c = d BY <3>7, <3>8
    <3> QED BY <3>9 DEF c, d
  <2>5. /\ is_reference(type) <=> is_lvalue_reference(type) \/ is_rvalue_reference(type)
        /\ is_member_pointer(type) <=>
             is_member_object_pointer(type) \/ is_member_function_pointer(type)
    <3>1. Form(remove_cv(type)) = Form(type) BY <1>1, WithCvIs DEF remove_cv
    <3> QED BY <3>1 DEF is_reference, is_member_pointer, is_lvalue_reference, References,
                        is_rvalue_reference, is_member_object_pointer,
                        is_member_function_pointer
  <2>6. is_object(type) <=> ~(is_function(type) \/ is_reference(type) \/ is_void(type))
    BY <1>1, <2>5, CategoryIs DEF is_object, is_scalar, is_arithmetic, Categories
  <2>7. is_compound(type) <=> ~(\/ is_void(type) \/ is_null_pointer(type)
                                \/ is_integral(type) \/ is_floating_point(type))
    BY DEF is_compound, is_fundamental, is_arithmetic, is_null_pointer
  <2>8. is_const(add_cv(type)) /\ is_volatile(add_cv(type))
          <=> ~(is_function(type) \/ is_reference(type))
    <3>1. CvOf(add_cv(type)) = IF Form(type) \in Functions \cup References THEN {}
                               ELSE {"const", "volatile"}
      BY <1>1, WithCvIs DEF add_cv
    <3> QED BY <1>1, <3>1, BasesAlone DEF is_const, is_volatile, is_reference
  <2>9. is_array(type) <=> is_bounded_array(type) # is_unbounded_array(type)
    <3>1. "[]" \in Arrays BY ArrayForms
    <3>2. CASE Form(type) = "[]"
      BY <3>1, <3>2 DEF is_array, is_bounded_array, is_unbounded_array
    <3>3. CASE Form(type) # "[]"
      BY <3>1, <3>3 DEF is_array, is_bounded_array, is_unbounded_array
    <3> QED BY <3>2, <3>3
  <2>10. is_arithmetic(type) <=> is_signed(type) # is_unsigned(type)
    <3>1. CASE Form(type) \in Negative \cup {"float"} BY <3>1 DEF is_signed, is_unsigned, is_arithmetic
    <3>2. CASE Form(type) \notin Negative \cup {"float"} BY <3>2 DEF is_signed, is_unsigned, is_arithmetic
    <3> QED BY <3>1, <3>2
  <2>11. /\ c.lvalue_reference = is_lvalue_reference(type)
         /\ c.rvalue_reference = is_rvalue_reference(type)
         /\ c.member_object_pointer = is_member_object_pointer(type)
         /\ c.member_function_pointer = is_member_function_pointer(type)
         /\ c.function = is_function(type) /\ c.void = is_void(type)
         /\ c.null_pointer = is_null_pointer(type) /\ c.integral = is_integral(type)
         /\ c.floating_point = is_floating_point(type) /\ c.array = is_array(type)
    BY DEF Primary
  <2> QED
    BY <2>3, <2>4, <2>5, <2>6, <2>7, <2>8, <2>9, <2>10, <2>11 DEF OneCategory
<1> QED BY <1>1, AlwaysType, PTL

-----------------------------------------------------------------------------
(* Layers.                                                                 *)

\* All the layers of a type are the type.
LEMMA WholePrefix == ASSUME NEW T, Type(T) PROVE SubSeq(T, 1, Len(T)) = T
<1>1. Len(T) \in 1..Len(T) /\ T \in Seq(Layers) BY DEF Type
<1>2. /\ Type(SubSeq(T, 1, Len(T))) /\ Len(SubSeq(T, 1, Len(T))) = Len(T)
      /\ \A i \in 1..Len(T) : SubSeq(T, 1, Len(T))[i] = T[i]
  BY <1>1, PrefixIs
<1>3. SubSeq(T, 1, Len(T)) \in Seq(Layers) BY <1>2 DEF Type
<1> QED BY <1>1, <1>2, <1>3, SeqEqual

\* rank counts the layers above the element.
LEMMA RankIs ==
  ASSUME NEW T, Type(T)
  PROVE  rank(T) = Len(T) - Element(T)
<1> DEFINE E(k) == Element(SubSeq(T, 1, k))
           Rec(g) == [n \in 1..Len(T) |-> IF T[n].form \in Arrays THEN g[n - 1] + 1 ELSE 0]
           f == CHOOSE g : g = Rec(g)
           h == [n \in 1..Len(T) |-> n - E(n)]
<1>1. Len(T) \in Nat /\ Len(T) \in 1..Len(T) BY DEF Type
<1>2. \A n \in 1..Len(T) :
        /\ T[n].form \notin Arrays => E(n) = n
        /\ T[n].form \in Arrays => n - 1 \in 1..Len(T) /\ E(n) = E(n - 1) /\ E(n) < n
        /\ E(n) \in 1..n
  BY PrefixElement
<1> HIDE DEF E
<1>3. h = Rec(h)
  <2>1. \A n \in 1..Len(T) : n - E(n) = IF T[n].form \in Arrays THEN h[n - 1] + 1 ELSE 0
    BY <1>1, <1>2
  <2> QED BY <2>1
<1>4. f = Rec(f) BY <1>3
<1>5. rank(T) = f[Len(T)] BY DEF rank
<1> HIDE DEF f
<1>6. \A n \in 1..Len(T) : f[n] = n - E(n)
  <2> DEFINE S == {n \in 1..Len(T) : f[n] # n - E(n)}
  <2> SUFFICES ASSUME S # {} PROVE FALSE OBVIOUS
  <2>1. PICK m \in S : \A k \in S : m <= k
    <3>1. S \in SUBSET Nat BY <1>1
    <3> QED BY <3>1, Least
  <2>2. m \in 1..Len(T) /\ f[m] = IF T[m].form \in Arrays THEN f[m - 1] + 1 ELSE 0
    BY <1>1, <1>4, <2>1
  <2>3. T[m].form \in Arrays => m - 1 \notin S BY <1>1, <2>1, <2>2
  <2> QED BY <1>1, <1>2, <2>1, <2>2, <2>3
<1>7. E(Len(T)) = Element(T) BY WholePrefix DEF E
<1> QED BY <1>1, <1>5, <1>6, <1>7

\* extent looks at the same layers, from the last one.
LEMMA ExtentIs ==
  ASSUME NEW T, Type(T), NEW N \in Nat
  PROVE  extent(T, N) = IF N < Len(T) - Element(T) THEN Extents[T[Len(T) - N].form] ELSE 0
<1> DEFINE E(k) == Element(SubSeq(T, 1, k))
           V(n, k) == IF k < n - E(n) THEN Extents[T[n - k].form] ELSE 0
           Rec(g) == [n \in 1..Len(T) |-> [k \in 0..N |->
                        IF T[n].form \notin Arrays THEN 0
                        ELSE IF k = 0 THEN Extents[T[n].form] ELSE g[n - 1][k - 1]]]
           f == CHOOSE g : g = Rec(g)
           h == [n \in 1..Len(T) |-> [k \in 0..N |-> V(n, k)]]
<1>1. Len(T) \in Nat /\ Len(T) \in 1..Len(T) BY DEF Type
<1>2. \A n \in 1..Len(T) :
        /\ T[n].form \notin Arrays => E(n) = n
        /\ T[n].form \in Arrays => n - 1 \in 1..Len(T) /\ E(n) = E(n - 1) /\ E(n) < n
        /\ E(n) \in 1..n
  BY PrefixElement
<1> HIDE DEF E
<1>3. \A n \in 1..Len(T), k \in 0..N :
        /\ T[n].form \notin Arrays => V(n, k) = 0
        /\ T[n].form \in Arrays /\ k = 0 => V(n, k) = Extents[T[n].form]
        /\ T[n].form \in Arrays /\ k # 0 => V(n, k) = V(n - 1, k - 1) /\ k - 1 \in 0..N
  <2> TAKE n \in 1..Len(T), k \in 0..N
  <2>1. n \in Nat /\ k \in Nat /\ E(n) \in Nat BY <1>1, <1>2
  <2>2. CASE T[n].form \notin Arrays BY <1>2, <2>1, <2>2
  <2>3. CASE T[n].form \in Arrays /\ k = 0
    <3>1. k < n - E(n) /\ n - k = n BY <1>2, <2>1, <2>3
    <3> QED BY <2>3, <3>1
  <2>4. CASE T[n].form \in Arrays /\ k # 0
    <3>1. /\ E(n) = E(n - 1) /\ n - k = (n - 1) - (k - 1)
          /\ k < n - E(n) <=> k - 1 < (n - 1) - E(n - 1)
          /\ k - 1 \in 0..N
      BY <1>2, <2>1, <2>4
    <3>2. T[n - k].form = T[(n - 1) - (k - 1)].form BY <3>1
    <3> QED BY <2>4, <3>1, <3>2
  <2> QED BY <2>2, <2>3, <2>4
<1> HIDE DEF V
<1>4. h = Rec(h)
  <2>1. \A n \in 1..Len(T), k \in 0..N :
          V(n, k) = IF T[n].form \notin Arrays THEN 0
                    ELSE IF k = 0 THEN Extents[T[n].form] ELSE h[n - 1][k - 1]
    BY <1>2, <1>3
  <2> HIDE DEF V
  <2> QED BY <2>1
<1>5. f = Rec(f) BY <1>4
<1>6. extent(T, N) = f[Len(T)][N] BY DEF extent
<1> HIDE DEF f
<1>7. \A n \in 1..Len(T) : \A k \in 0..N : f[n][k] = V(n, k)
  <2> DEFINE S == {n \in 1..Len(T) : \E k \in 0..N : f[n][k] # V(n, k)}
  <2> SUFFICES ASSUME S # {} PROVE FALSE OBVIOUS
  <2>1. PICK m \in S : \A j \in S : m <= j
    <3>1. S \in SUBSET Nat BY <1>1
    <3> QED BY <3>1, Least
  <2>2. PICK k \in 0..N : f[m][k] # V(m, k) BY <2>1
  <2>3. m \in 1..Len(T) BY <2>1
  <2>4. f[m][k] = IF T[m].form \notin Arrays THEN 0
                  ELSE IF k = 0 THEN Extents[T[m].form] ELSE f[m - 1][k - 1]
    <3>1. f[m] = [i \in 0..N |-> IF T[m].form \notin Arrays THEN 0
                                   ELSE IF i = 0 THEN Extents[T[m].form]
                                   ELSE f[m - 1][i - 1]]
      BY <1>5, <2>3
    <3> QED BY <3>1
  <2>5. T[m].form \in Arrays => m - 1 \notin S /\ m - 1 \in 1..Len(T) BY <1>2, <2>1, <2>3
  <2>6. T[m].form \in Arrays /\ k # 0 => f[m - 1][k - 1] = V(m - 1, k - 1)
    BY <1>3, <2>3, <2>5
  <2> QED BY <1>3, <2>2, <2>3, <2>4, <2>6
<1>8. f[Len(T)][N] = V(Len(T), N) BY <1>1, <1>7
<1>9. E(Len(T)) = Element(T) BY WholePrefix DEF E
<1> QED BY <1>6, <1>8, <1>9 DEF V

\* The type below a layer just put on.
LEMMA BuildFront ==
  ASSUME NEW T, Type(T), NEW form \in Derived, Carries(Form(T), form)
  PROVE  /\ Front(Build(T, form)) = T
         /\ form \notin Arrays => Front(add_cv(Build(T, form))) = T
<1> DEFINE B == Build(T, form)  Q == add_cv(B)
<1>1. /\ Type(B) /\ Len(B) = Len(T) + 1 /\ Form(B) = form
      /\ \A i \in 1..Len(T) : B[i] = T[i]
  BY BuildIs
<1>2. \A P : Type(P) /\ Len(P) = Len(T) + 1 /\ Form(P) = form
             /\ (\A i \in 1..Len(T) : P[i] = T[i])
             => Front(P) = T
  <2> SUFFICES ASSUME NEW P, Type(P), Len(P) = Len(T) + 1, Form(P) = form,
                      \A i \in 1..Len(T) : P[i] = T[i]
               PROVE  Front(P) = T
    OBVIOUS
  <2>1. /\ Type(Front(P)) /\ Len(Front(P)) = Len(P) - 1
        /\ \A i \in 1..(Len(P) - 1) : Front(P)[i] = P[i]
    BY FrontIs
  <2>2. Len(T) \in Nat /\ Len(P) - 1 = Len(T) BY DEF Type
  <2>3. Front(P) \in Seq(Layers) /\ T \in Seq(Layers) BY <2>1 DEF Type
  <2>4. \A i \in 1..Len(T) : Front(P)[i] = T[i] BY <2>1, <2>2
  <2>5. Len(Front(P)) = Len(T) BY <2>1, <2>2
  <2> HIDE DEF B, Q
  <2> QED BY <2>3, <2>4, <2>5, SeqEqual
<1> HIDE DEF B
<1>3. Front(B) = T BY <1>1, <1>2
<1>4. ASSUME form \notin Arrays PROVE Front(Q) = T
  <2>1. Element(B) = Len(T) + 1 BY <1>1, <1>4, ElementIs
  <2>2. /\ Type(Q) /\ Len(Q) = Len(T) + 1 /\ Form(Q) = form
        /\ \A i \in 1..(Len(T) + 1) \ {Element(B)} : Q[i] = B[i]
    BY <1>1, WithCvIs DEF add_cv
  <2>3. Len(T) \in Nat BY DEF Type
  <2>4. \A i \in 1..Len(T) : Q[i] = T[i] BY <1>1, <2>1, <2>2, <2>3
  <2> HIDE DEF Q
  <2> QED BY <1>2, <2>2, <2>4
<1> QED BY <1>3, <1>4 DEF B

\* What a reference is made of, and to.
LEMMA ReferenceOf ==
  ASSUME NEW T, Type(T)
  PROVE  LET L == add_lvalue_reference(T)  R == add_rvalue_reference(T) IN
         /\ Form(L) = "&" <=> CanRefer(T)
         /\ Form(R) = "&" <=> Form(T) = "&"
         /\ remove_reference(L) = remove_reference(T)
         /\ remove_reference(R) = remove_reference(T)
<1> DEFINE L == add_lvalue_reference(T)  R == add_rvalue_reference(T)
<1> USE FormsDiffer
<1>1. CASE ~CanRefer(T)
  <2>1. L = T /\ R = T BY <1>1 DEF add_lvalue_reference, add_rvalue_reference
  <2>2. Form(T) # "&" BY <1>1 DEF CanRefer
  <2> QED BY <1>1, <2>1, <2>2
<1>2. CASE CanRefer(T) /\ Form(T) \in References
  <2>1. Type(Front(T)) /\ Carries(Form(Front(T)), Form(T)) BY <1>2, FrontIs
  <2>2. Carries(Form(Front(T)), "&") BY <1>2, <2>1 DEF Carries, References
  <2>3. "&" \in Derived BY DEF References
  <2>4. /\ L = Build(Front(T), "&") /\ R = T
    BY <1>2 DEF add_lvalue_reference, add_rvalue_reference, LRef, RRef
  <2>5. Form(L) = "&" /\ Front(L) = Front(T) BY <2>1, <2>2, <2>3, <2>4, BuildIs, BuildFront
  <2> QED BY <1>2, <2>4, <2>5 DEF remove_reference, References
<1>3. CASE CanRefer(T) /\ Form(T) \notin References
  <2>1. Carries(Form(T), "&") /\ Carries(Form(T), "&&") BY <1>3, ArrayForms DEF CanRefer, Carries
  <2>2. {"&", "&&"} \subseteq Derived BY DEF References
  <2>3. /\ L = Build(T, "&") /\ R = Build(T, "&&")
    BY <1>3 DEF add_lvalue_reference, add_rvalue_reference, LRef, RRef
  <2>4. Form(L) = "&" /\ Front(L) = T /\ Form(R) = "&&" /\ Front(R) = T
    BY <2>1, <2>2, <2>3, BuildIs, BuildFront
  <2> QED BY <1>3, <2>3, <2>4 DEF remove_reference, References
<1> QED BY <1>1, <1>2, <1>3

\* What add_lvalue_reference, add_rvalue_reference and add_pointer put on, remove_reference
\* and remove_pointer take off; rank, extent and remove_all_extents see the same dimensions
\* of an array, however many it has.
THEOREM LayersRemoved == CommonSpec => []LayersComeOff
<1>1. ASSUME Type(type) PROVE LayersComeOff
  <2> DEFINE U == remove_reference(type)  P == add_pointer(type)  r == rank(type)
  <2>1. \A T : Type(T) => (is_lvalue_reference(T) <=> Form(T) = "&")
    BY WithCvIs DEF is_lvalue_reference, remove_cv
  <2>2. /\ is_lvalue_reference(add_rvalue_reference(type)) <=> is_lvalue_reference(type)
        /\ is_lvalue_reference(add_lvalue_reference(type)) <=> CanRefer(type)
    BY <1>1, <2>1, ReferIs, ReferenceOf
  <2>3. \A T \in {add_lvalue_reference(type), add_rvalue_reference(type)} :
          remove_reference(T) = U
    BY <1>1, ReferenceOf
  <2>4. IF CanPoint(U) THEN is_pointer(P) /\ remove_pointer(P) = U /\ remove_pointer(add_cv(P)) = U
                       ELSE P = type
    <3>1. CASE ~CanPoint(U) BY <1>1, <3>1, PointIs
    <3>2. CASE CanPoint(U)
      <4>1. Type(U) /\ Form(U) \notin References /\ Form(U) # "function const"
        BY <1>1, <3>2, RemoveReferenceIs, PointIs
      <4>2. Type(P) /\ P = Build(U, "*") /\ Form(P) = "*" BY <1>1, <3>2, PointIs
      <4>3. Carries(Form(U), "*") BY <4>1, FormsDiffer DEF Carries
      <4>4. Front(P) = U /\ Front(add_cv(P)) = U BY <4>1, <4>2, <4>3, BuildFront, FormsDiffer
      <4>5. Form(add_cv(P)) = "*" BY <4>2, WithCvIs DEF add_cv
      <4> QED BY <3>2, <4>2, <4>4, <4>5 DEF is_pointer, remove_pointer
    <3> QED BY <3>1, <3>2
  <2>5. Len(type) \in Nat /\ Element(type) \in 1..Len(type) /\ r = Len(type) - Element(type)
    BY <1>1, ElementIs, RankIs DEF IsElement, Type
  <2>6. remove_all_extents(type) = SubSeq(type, 1, Len(type) - r)
    <3>1. Len(type) - r = Element(type) BY <2>5
    <3> QED BY <1>1, <3>1, AllExtents
  <2>7. \A n \in 0..(MaxLayers + 1) :
          extent(type, n) = IF n < r THEN Extents[type[Len(type) - n].form] ELSE 0
    <3>1. \A n \in 0..(MaxLayers + 1) : n \in Nat BY LayersAssumption
    <3> QED BY <1>1, <2>5, <3>1, ExtentIs
  <2> QED BY <2>2, <2>3, <2>4, <2>6, <2>7 DEF LayersComeOff
<1> QED BY <1>1, AlwaysType, PTL

-----------------------------------------------------------------------------
(* Types that are combined: a name, its qualifiers and a reference or none. *)

Names     == {"void"} \cup Ranked \cup Family
Kinds     == {"none", "&", "&&"}
Simple(T) == Type(T) /\ Combinable(T)
Kind(T)   == IF is_reference(T) THEN Form(T) ELSE "none"

Make(n, cv, k) == IF k = "none" THEN <<[form |-> n, cv |-> cv]>>
                  ELSE Build(<<[form |-> n, cv |-> cv]>>, k)

\* The names are those of bases that carry references, void apart.
LEMMA NamesAre ==
  /\ Names = {"void", "int", "long", "class", "derived"}
  /\ Names \subseteq Bases \ (References \cup Arrays \cup Functions \cup Derived)
  /\ \A n \in Names, k \in {"&", "&&"} : Carries(n, k) <=> n # "void"
<1>1. Names = {"void", "int", "long", "class", "derived"} BY DEF Names, Ranked, Family
<1>2. Names \subseteq OtherBases \ Functions
  BY <1>1, StandardForms DEF OtherBases, Classes, Functions
<1>3. Names \subseteq Bases \ (References \cup Arrays \cup Functions \cup Derived)
  BY <1>2, FormsDiffer DEF Bases
<1>4. {"&", "&&"} \cap Arrays = {} BY ArrayForms
<1> QED BY <1>1, <1>3, <1>4, FormsDiffer DEF Carries, References, Functions

\* A name with qualifiers is a type.
LEMMA AloneIs ==
  ASSUME NEW n \in Names, NEW cv \in SUBSET {"const", "volatile"}
  PROVE  LET B == Make(n, cv, "none") IN
         /\ Type(B) /\ Len(B) = 1 /\ Form(B) = n /\ CvOf(B) = cv
         /\ B[1] = [form |-> n, cv |-> cv]
<1> DEFINE l == [form |-> n, cv |-> cv]  B == Make(n, cv, "none")
<1>1. n \in Bases /\ n \notin References \cup Arrays \cup Functions BY NamesAre
<1>2. l \in Layers BY <1>1 DEF Layers
<1>3. B \in Seq(Layers) /\ Len(B) = 1 /\ B[1] = l BY <1>2 DEF Make
<1>4. l.form = n /\ l.cv = cv OBVIOUS
<1> HIDE DEF B, l
<1>5. Exists(B)
  <2>1. \A i \in 1..Len(B) : B[i].form = n /\ B[i].cv = cv BY <1>3, <1>4
  <2>2. B[1].form \in Bases /\ \A i \in 2..Len(B) : B[i].form \in Derived
    BY <1>1, <1>3, <1>4
  <2>3. \A i \in 1..Len(B) :
          /\ B[i].cv \subseteq {"const", "volatile"}
          /\ B[i].form \in References \cup Arrays \cup Functions => B[i].cv = {}
    BY <1>1, <2>1
  <2>4. \A i \in 1..(Len(B) - 1) : Carries(B[i].form, B[i + 1].form) BY <1>3
  <2> QED BY <2>2, <2>3, <2>4 DEF Exists
<1>6. Type(B) /\ Form(B) = n BY <1>3, <1>4, <1>5 DEF Type, Form, Last
<1>7. Element(B) = 1 BY <1>1, <1>3, <1>6, ElementIs
<1> QED BY <1>3, <1>4, <1>6, <1>7 DEF B, l, CvOf

\* To qualify it otherwise.
LEMMA WithCvAlone ==
  ASSUME NEW n \in Names, NEW cv \in SUBSET {"const", "volatile"},
         NEW c \in SUBSET {"const", "volatile"}
  PROVE  WithCv(Make(n, cv, "none"), c) = Make(n, c, "none")
<1> DEFINE B == Make(n, cv, "none")  Q == WithCv(B, c)  R == Make(n, c, "none")
<1>1. Type(B) /\ Len(B) = 1 /\ Form(B) = n BY AloneIs
<1>2. Type(R) /\ Len(R) = 1 /\ R[1] = [form |-> n, cv |-> c] BY AloneIs
<1> HIDE DEF B, R
<1>3. Type(Q) /\ Len(Q) = 1 /\ Form(Q) = n /\ CvOf(Q) = c
  BY <1>1, WithCvIs, NamesAre
<1> HIDE DEF Q
<1>4. 1 \in 1..Len(Q) BY <1>3
<1>5. Q[1] = [form |-> Q[1].form, cv |-> Q[1].cv] BY <1>3, <1>4, LayerFacts
<1>6. Element(Q) = 1 BY <1>3, ElementIs DEF IsElement
<1>7. Q[1].form = n /\ Q[1].cv = c BY <1>3, <1>6 DEF CvOf, Form, Last
<1>8. \A i \in 1..Len(Q) : Q[i] = R[i] BY <1>2, <1>3, <1>5, <1>7
<1>9. Q \in Seq(Layers) /\ R \in Seq(Layers) BY <1>2, <1>3 DEF Type
<1>10. Q = R BY <1>2, <1>3, <1>8, <1>9, SeqEqual
<1> QED BY <1>10 DEF Q, R, B

\* What is made is a type that can be combined, with what it was made of.
LEMMA MakeIs ==
  ASSUME NEW n \in Names, NEW cv \in SUBSET {"const", "volatile"}, NEW k \in Kinds,
         n = "void" => k = "none"
  PROVE  LET T == Make(n, cv, k) IN
         /\ Simple(T) /\ Named(T) = n /\ Cv(T) = cv /\ Kind(T) = k
         /\ remove_reference(T) = Make(n, cv, "none")
         /\ Form(T) = IF k = "none" THEN n ELSE k
<1> DEFINE B == Make(n, cv, "none")  T == Make(n, cv, k)
<1>1. Type(B) /\ Len(B) = 1 /\ Form(B) = n /\ CvOf(B) = cv BY AloneIs
<1>2. n \notin References /\ n \in Names BY NamesAre
<1>3. CASE k = "none"
  <2>1. T = B /\ remove_reference(B) = B BY <1>1, <1>2, <1>3 DEF remove_reference
  <2> HIDE DEF B, T
  <2> QED BY <1>1, <1>2, <1>3, <2>1
      DEF Simple, Combinable, Named, Cv, Kind, is_reference, Names, B, T
<1>4. CASE k # "none"
  <2>1. k \in {"&", "&&"} /\ k \in References /\ k \in Derived
    BY <1>4 DEF Kinds, References, Derived
  <2>2. Carries(n, k) BY <1>4, <2>1, NamesAre
  <2>3. T = Build(B, k) BY <1>4 DEF Make
  <2> HIDE DEF B, T
  <2>4. Type(T) /\ Form(T) = k /\ Front(T) = B BY <1>1, <2>1, <2>2, <2>3, BuildIs, BuildFront
  <2>5. remove_reference(T) = B BY <2>1, <2>4 DEF remove_reference
  <2> QED BY <1>1, <1>2, <1>4, <2>1, <2>4, <2>5
      DEF Simple, Combinable, Named, Cv, Kind, is_reference, Names, B, T
<1> QED BY <1>3, <1>4

\* Every type that can be combined is made of its name, qualifiers and kind.
LEMMA SimpleMade ==
  ASSUME NEW T, Simple(T)
  PROVE  /\ Named(T) \in Names /\ Cv(T) \in SUBSET {"const", "volatile"} /\ Kind(T) \in Kinds
         /\ Named(T) = "void" => Kind(T) = "none"
         /\ T = Make(Named(T), Cv(T), Kind(T))
<1> DEFINE W == remove_reference(T)  n == Named(T)  cv == Cv(T)  B == Make(n, cv, "none")
<1>1. /\ Type(T) /\ Type(W) /\ Len(W) = 1 /\ n \in Names /\ n = Form(W)
      /\ cv = CvOf(W) /\ cv \in SUBSET {"const", "volatile"}
  BY RemoveReferenceIs, CvIs DEF Simple, Combinable, Named, Cv, Names
<1>2. Type(B) /\ Len(B) = 1 /\ B[1] = [form |-> n, cv |-> cv] BY <1>1, AloneIs
<1> HIDE DEF W, n, cv, B
<1>3. W = B
  <2>1. 1 \in 1..Len(W) BY <1>1
  <2>2. W[1] = [form |-> W[1].form, cv |-> W[1].cv] BY <1>1, <2>1, LayerFacts
  <2>3. Element(W) = 1 BY <1>1, ElementIs DEF IsElement
  <2>4. W[1].form = n /\ W[1].cv = cv BY <1>1, <2>3 DEF CvOf, Form, Last
  <2>5. \A i \in 1..Len(W) : W[i] = B[i] BY <1>1, <1>2, <2>2, <2>4
  <2>6. W \in Seq(Layers) /\ B \in Seq(Layers) BY <1>1, <1>2 DEF Type
  <2> QED BY <1>1, <1>2, <2>5, <2>6, SeqEqual
<1>4. CASE Form(T) \notin References
  <2>1. T = B /\ Kind(T) = "none" BY <1>3, <1>4 DEF W, remove_reference, Kind, is_reference
  <2> QED BY <1>1, <2>1 DEF n, cv, B, Kinds
<1>5. CASE Form(T) \in References
  <2> DEFINE k == Form(T)  R == Build(B, k)
  <2>1. k \in {"&", "&&"} /\ Kind(T) = k /\ k \in Kinds /\ k # "none"
    BY <1>5 DEF References, Kind, is_reference, Kinds
  <2>2. k \in Derived /\ Front(T) = B BY <1>3, <1>5 DEF Derived, W, remove_reference
  <2>3. Carries(n, k) /\ n # "void"
    BY <1>1, <1>5, <2>1, NamesAre, RemoveReferenceIs DEF W
  <2>4. T = R
    <3>1. /\ Len(T) = 2 /\ T[1] = B[1]
      <4>1. /\ Type(Front(T)) /\ Len(Front(T)) = Len(T) - 1
            /\ \A i \in 1..(Len(T) - 1) : Front(T)[i] = T[i]
        BY <1>1, <2>2, FrontIs
      <4>2. Len(T) \in Nat BY <1>1 DEF Type
      <4>3. Len(T) = 2
        <5>1. Len(Front(T)) = 1 BY <1>2, <2>2
        <5>2. \A i, j \in Nat : i = 1 /\ i = j - 1 => j = 2 OBVIOUS
        <5> QED BY <4>1, <4>2, <5>1, <5>2
      <4>4. 1 \in 1..(Len(T) - 1) BY <4>3
      <4> QED BY <2>2, <4>1, <4>3, <4>4
    <3>2. T[2] = Plain(k)
      <4>1. 2 \in 1..Len(T) BY <3>1
      <4>2. T[2] = [form |-> T[2].form, cv |-> T[2].cv] /\ T[2].form = k
        BY <1>1, <3>1, <4>1, LayerFacts DEF Form, Last
      <4>3. T[2].cv = {} BY <1>1, <1>5, <4>1, <4>2, LayerFacts
      <4> QED BY <4>2, <4>3 DEF Plain
    <3>3. n = Form(B) BY <1>1, <1>3
    <3>4. Type(R) /\ Len(R) = 2 /\ R[1] = B[1] /\ R[2] = Plain(k)
      <4>1. 1 \in 1..Len(B) /\ Len(B) + 1 = 2 BY <1>2
      <4>2. k \in Derived /\ Carries(Form(B), k) BY <2>2, <2>3, <3>3
      <4> HIDE DEF k
      <4>3. /\ Type(R) /\ Len(R) = Len(B) + 1
            /\ \A i \in 1..Len(B) : R[i] = B[i]
            /\ R[Len(B) + 1] = Plain(k)
        BY <1>2, <4>2, BuildIs
      <4> HIDE DEF R
      <4> QED BY <4>1, <4>3
    <3> HIDE DEF k, R
    <3>5. \A i \in 1..2 : T[i] = R[i] BY <3>1, <3>2, <3>4
    <3>6. T \in Seq(Layers) /\ R \in Seq(Layers) BY <1>1, <3>4 DEF Type
    <3> QED BY <3>1, <3>4, <3>5, <3>6, SeqEqual
  <2>5. T = Make(n, cv, k) BY <2>1, <2>4 DEF Make, B
  <2> HIDE DEF k, R
  <2> QED BY <1>1, <2>1, <2>3, <2>5 DEF n, cv
<1> QED BY <1>4, <1>5

\* Making another type of a type that is no reference.
LEMMA MakeOther ==
  ASSUME NEW n \in Names, NEW cv \in SUBSET {"const", "volatile"}, n # "void"
  PROVE  LET B == Make(n, cv, "none") IN
         /\ LRef(B) = Make(n, cv, "&") /\ RRef(B) = Make(n, cv, "&&")
         /\ add_const(B) = Make(n, cv \cup {"const"}, "none")
         /\ \A V : CvOf(V) \in SUBSET {"const", "volatile"} =>
                    copy_cv(V, B) = Make(n, cv \cup CvOf(V), "none")
<1> DEFINE B == Make(n, cv, "none")
<1>1. Form(B) = n /\ CvOf(B) = cv /\ n \notin References BY AloneIs, NamesAre
<1>2. LRef(B) = Make(n, cv, "&") /\ RRef(B) = Make(n, cv, "&&")
  BY <1>1 DEF LRef, RRef, Make
<1>3. \A c \in SUBSET {"const", "volatile"} : WithCv(B, c) = Make(n, c, "none")
  BY WithCvAlone
<1> QED BY <1>1, <1>2, <1>3 DEF add_const, copy_cv

\* A reference to const.
LEMMA ConstRef ==
  ASSUME NEW n \in Names, n # "void"
  PROVE  LRef(add_const(Make(n, {}, "none"))) = Make(n, {"const"}, "&")
<1>1. add_const(Make(n, {}, "none")) = Make(n, {"const"}, "none")
  BY MakeOther
<1> QED BY <1>1, MakeOther

\* What the traits and transformations say of types that can be combined.
LEMMA SimpleTraits ==
  ASSUME NEW T, Simple(T)
  PROVE  LET n == Named(T)  cv == Cv(T)  k == Kind(T) IN
         /\ is_reference(T) <=> k # "none"
         /\ is_lvalue_reference(T) <=> k = "&"
         /\ is_rvalue_reference(T) <=> k = "&&"
         /\ is_void(T) <=> n = "void"
         /\ Form(T) = IF k = "none" THEN n ELSE k
         /\ remove_reference(T) = Make(n, cv, "none")
         /\ decay(T) = Make(n, {}, "none") /\ remove_cvref(T) = Make(n, {}, "none")
         /\ declval(T) = Make(n, cv, IF k = "none" /\ n # "void" THEN "&&" ELSE k)
<1> DEFINE n == Named(T)  cv == Cv(T)  k == Kind(T)  B == Make(n, cv, "none")
<1>1. /\ Type(T) /\ n \in Names /\ cv \in SUBSET {"const", "volatile"} /\ k \in Kinds
      /\ n = "void" => k = "none"
      /\ T = Make(n, cv, k)
  BY SimpleMade DEF Simple
<1>2. Form(T) = (IF k = "none" THEN n ELSE k) /\ remove_reference(T) = B
  BY <1>1, MakeIs
<1>3. Form(T) \in References <=> k # "none"
  BY <1>1, <1>2, NamesAre DEF Kinds, References
<1>4. is_reference(T) <=> k # "none" BY <1>3 DEF is_reference
<1>5. (is_lvalue_reference(T) <=> k = "&") /\ (is_rvalue_reference(T) <=> k = "&&")
  <2>1. Form(remove_cv(T)) = Form(T) BY <1>1, WithCvIs DEF remove_cv
  <2>2. n \notin {"&", "&&"} BY <1>1, NamesAre
  <2> QED BY <1>1, <1>2, <2>1, <2>2 DEF is_lvalue_reference, is_rvalue_reference, Kinds
<1>6. is_void(T) <=> n = "void"
  <2>1. "void" \in Bases /\ "void" \notin Functions BY DEF Bases, OtherBases, Functions
  <2>2. is_void(T) <=> Form(T) = "void" BY <1>1, <2>1, SimpleIs DEF is_void
  <2> QED BY <1>1, <1>2, <2>2 DEF Kinds
<1>7. \A c \in SUBSET {"const", "volatile"} : WithCv(B, c) = Make(n, c, "none")
  BY <1>1, WithCvAlone
<1>8. remove_cvref(T) = Make(n, {}, "none") BY <1>2, <1>7 DEF remove_cvref, remove_cv
<1>9. decay(T) = Make(n, {}, "none")
  <2>1. Type(B) /\ Form(B) = n /\ n \notin Arrays \cup Functions BY <1>1, AloneIs, NamesAre
  <2>2. ~is_array(B) /\ ~is_function(B) BY <2>1, BasesAlone DEF is_array
  <2> QED BY <1>2, <1>8, <2>2 DEF decay, remove_cvref
<1>10. declval(T) = Make(n, cv, IF k = "none" /\ n # "void" THEN "&&" ELSE k)
  <2>1. CASE n = "void" BY <1>1, <1>2, <2>1 DEF declval, add_rvalue_reference, CanRefer
  <2>2. CASE n # "void"
    <3>1. CanRefer(T) BY <1>1, <1>2, <2>2, NamesAre DEF CanRefer, Kinds, Functions
    <3>2. declval(T) = IF k # "none" THEN T ELSE Build(T, "&&")
      BY <1>3, <3>1 DEF declval, add_rvalue_reference, RRef
    <3>3. CASE k # "none" BY <1>1, <3>2, <3>3
    <3>4. CASE k = "none"
      <4>1. declval(T) = Build(T, "&&") BY <3>2, <3>4
      <4>2. T = <<[form |-> n, cv |-> cv]>> BY <1>1, <3>4 DEF Make
      <4> QED BY <2>2, <3>4, <4>1, <4>2 DEF Make
    <3> QED BY <3>3, <3>4
  <2> QED BY <2>1, <2>2
<1> QED BY <1>2, <1>4, <1>5, <1>6, <1>8, <1>9, <1>10

\* Two such types are the same if they agree in their parts.
LEMMA SameSimple ==
  ASSUME NEW T, NEW U, Simple(T), Simple(U)
  PROVE  /\ T = U <=> Named(T) = Named(U) /\ Cv(T) = Cv(U) /\ Kind(T) = Kind(U)
         /\ remove_reference(T) = remove_reference(U)
              <=> Named(T) = Named(U) /\ Cv(T) = Cv(U)
<1>1. T = Make(Named(T), Cv(T), Kind(T)) /\ U = Make(Named(U), Cv(U), Kind(U))
  BY SimpleMade
<1>2. /\ remove_reference(T) = Make(Named(T), Cv(T), "none")
      /\ remove_reference(U) = Make(Named(U), Cv(U), "none")
  BY SimpleTraits
<1> QED BY <1>1, <1>2 DEF Named, Cv

-----------------------------------------------------------------------------
(* The conditional operator.                                               *)

Below(e, o) == Derives(Named(e), Named(o)) /\ Cv(e) \subseteq Cv(o)

\* The names of the common types of two names.
Join(n, m) == IF Derives(n, m) THEN {m} ELSE IF Derives(m, n) THEN {n}
              ELSE IF {n, m} \subseteq Ranked THEN {"long"} ELSE {}

\* Derivation orders the names.
LEMMA DerivesIs ==
  ASSUME NEW n \in Names, NEW m \in Names
  PROVE  /\ Derives(n, m) /\ Derives(m, n) => n = m
         /\ Derives(n, m) /\ n # m => {n, m} \subseteq Family
         /\ {n, m} \subseteq Family => Derives(n, m) \/ Derives(m, n)
         /\ n \in Ranked => n \notin Family /\ n # "void"
         /\ n # "void" => n \in Ranked \cup Family
         /\ n \in Family => n # "void"
BY DEF Derives, Family, Ranked, Names

\* What an operand of a conditional is converted to.
LEMMA MatchesIs ==
  ASSUME NEW e, NEW o, Simple(e), Simple(o), Kind(e) # "none", Kind(o) # "none"
  PROVE  Matches(e, o) =
           IF Kind(e) = Kind(o) /\ Below(e, o) THEN {o}
           ELSE IF {Named(e), Named(o)} \subseteq Family /\ Below(e, o)
           THEN {Make(Named(o), Cv(o), "none")} ELSE {}
<1>1. /\ is_lvalue_reference(e) <=> Kind(e) = "&"
      /\ is_lvalue_reference(o) <=> Kind(o) = "&"
      /\ remove_reference(o) = Make(Named(o), Cv(o), "none")
  BY SimpleTraits
<1>2. Kind(e) \in {"&", "&&"} /\ Kind(o) \in {"&", "&&"} BY SimpleMade DEF Kinds
<1>3. BindsTo(e, o) <=> Kind(e) = Kind(o) /\ Below(e, o) BY <1>1, <1>2 DEF BindsTo, Below
<1> QED BY <1>1, <1>3 DEF Matches, Below

\* The type of operands that are not converted to each other.
LEMMA MergedIs ==
  ASSUME NEW e, NEW o, Simple(e), Simple(o)
  PROVE  Merged(e, o) =
           IF e = o THEN {e}
           ELSE IF {Named(e), Named(o)} \subseteq Ranked
           THEN {Make(IF Named(e) = Named(o) THEN Named(e) ELSE "long", {}, "none")}
           ELSE IF Named(e) = Named(o) /\ Cv(e) = Cv(o) /\ "volatile" \notin Cv(e)
           THEN {Make(Named(e), Cv(e), "none")} ELSE {}
<1>1. remove_reference(e) = Make(Named(e), Cv(e), "none") BY SimpleTraits
<1>2. remove_reference(e) = remove_reference(o) <=> Named(e) = Named(o) /\ Cv(e) = Cv(o)
  BY SameSimple
<1>3. \A n : <<Plain(n)>> = Make(n, {}, "none") BY DEF Make, Plain
<1>4. {Named(e), Named(o)} \subseteq Ranked =>
        (IF "long" \in {Named(e), Named(o)} THEN "long" ELSE "int") =
        (IF Named(e) = Named(o) THEN Named(e) ELSE "long")
  BY DEF Ranked
<1> QED BY <1>1, <1>2, <1>3, <1>4 DEF Merged

\* The conditional of two references: one of them, if the other is bound to it, or an
\* object.
LEMMA ConditionalOf ==
  ASSUME NEW e, NEW o, Simple(e), Simple(o), Kind(e) # "none", Kind(o) # "none"
  PROVE  Conditional(e, o) =
           IF Kind(e) = Kind(o) /\ Below(e, o) THEN {o}
           ELSE IF Kind(e) = Kind(o) /\ Below(o, e) THEN {e}
           ELSE IF {Named(e), Named(o)} \subseteq Ranked
           THEN {Make(IF Named(e) = Named(o) THEN Named(e) ELSE "long", {}, "none")}
           ELSE IF Below(e, o) /\ "volatile" \notin Cv(o) THEN {Make(Named(o), Cv(o), "none")}
           ELSE IF Below(o, e) /\ "volatile" \notin Cv(e) THEN {Make(Named(e), Cv(e), "none")}
           ELSE {}
<1> DEFINE n == Named(e)  m == Named(o)  c == Cv(e)  d == Cv(o)
           E == Make(n, c, "none")  O == Make(m, d, "none")
<1>1. /\ n \in Names /\ m \in Names /\ n # "void" /\ m # "void"
      /\ c \in SUBSET {"const", "volatile"} /\ d \in SUBSET {"const", "volatile"}
      /\ Kind(e) \in Kinds /\ Kind(o) \in Kinds
  BY SimpleMade
<1>2. ~is_void(e) /\ ~is_void(o) /\ Form(e) = Kind(e) /\ Form(o) = Kind(o)
  BY <1>1, SimpleTraits
<1>3. e = o <=> n = m /\ c = d /\ Kind(e) = Kind(o) BY SameSimple
<1>4. remove_reference(e) = remove_reference(o) <=> n = m /\ c = d BY SameSimple
<1>5. \A x, y : Simple(x) /\ Simple(y) => Merged(x, y) =
           IF x = y THEN {x}
           ELSE IF {Named(x), Named(y)} \subseteq Ranked
           THEN {Make(IF Named(x) = Named(y) THEN Named(x) ELSE "long", {}, "none")}
           ELSE IF Named(x) = Named(y) /\ Cv(x) = Cv(y) /\ "volatile" \notin Cv(x)
           THEN {Make(Named(x), Cv(x), "none")} ELSE {}
  BY MergedIs
<1>6. /\ Matches(e, o) = IF Kind(e) = Kind(o) /\ Below(e, o) THEN {o}
                         ELSE IF {n, m} \subseteq Family /\ Below(e, o) THEN {O} ELSE {}
      /\ Matches(o, e) = IF Kind(e) = Kind(o) /\ Below(o, e) THEN {e}
                         ELSE IF {n, m} \subseteq Family /\ Below(o, e) THEN {E} ELSE {}
  BY MatchesIs
<1>7. /\ Simple(E) /\ Named(E) = n /\ Cv(E) = c /\ Kind(E) = "none"
      /\ Simple(O) /\ Named(O) = m /\ Cv(O) = d /\ Kind(O) = "none"
  BY <1>1, MakeIs DEF Kinds
<1>8. ~is_reference(E) /\ ~is_reference(O) /\ is_reference(e) /\ is_reference(o)
  BY <1>7, SimpleTraits
<1>9. Below(e, o) <=> Derives(n, m) /\ c \subseteq d BY DEF Below
<1>10. Below(o, e) <=> Derives(m, n) /\ d \subseteq c BY DEF Below
<1>11. Below(e, o) /\ Below(o, e) => n = m /\ c = d BY <1>1, <1>9, <1>10, DerivesIs
<1>12. Derives(n, n) BY DEF Derives
<1> HIDE DEF n, m, c, d, E, O
<1>13. CASE n = m /\ c = d
  <2>1. Conditional(e, o) = Merged(e, o) BY <1>2, <1>4, <1>13 DEF Conditional
  <2>2. E = O BY <1>13 DEF E, O
  <2>3. Merged(e, o) = IF e = o THEN {e}
                       ELSE IF {n, m} \subseteq Ranked
                       THEN {Make(IF n = m THEN n ELSE "long", {}, "none")}
                       ELSE IF n = m /\ c = d /\ "volatile" \notin c THEN {E} ELSE {}
    BY MergedIs DEF n, m, c, d, E
  <2>4. Below(e, o) /\ Below(o, e) BY <1>9, <1>10, <1>12, <1>13
  <2> QED BY <1>3, <1>13, <2>1, <2>2, <2>3, <2>4 DEF n, m, c, d, E, O
<1>14. CASE ~(n = m /\ c = d) /\ Below(e, o)
  <2>1. /\ ~Below(o, e) /\ remove_reference(e) # remove_reference(o)
        /\ n = m \/ {n, m} \subseteq Family
    BY <1>1, <1>4, <1>9, <1>11, <1>14, DerivesIs
  <2>2. CASE Kind(e) = Kind(o)
    <3>1. {n, m} \cap Family # {} \/ (Form(e) = Form(o) /\ n = m) BY <1>2, <2>1, <2>2
    <3>2. Matches(e, o) = {o} /\ Matches(o, e) = {} BY <1>6, <1>14, <2>1, <2>2
    <3>3. (CHOOSE T \in {o} : TRUE) = o OBVIOUS
    <3>4. UNION {Merged(T, o) : T \in {o}} = {o} BY DEF Merged
    <3>5. Conditional(e, o) = {o}
      BY <1>2, <1>8, <2>1, <3>1, <3>2, <3>3, <3>4 DEF Conditional, n, m
    <3> QED BY <1>14, <2>2, <3>5
  <2>3. CASE Kind(e) # Kind(o) /\ {n, m} \subseteq Family
    <3>1. Matches(e, o) = {O} /\ Matches(o, e) = {} BY <1>6, <1>14, <2>1, <2>3
    <3>2. (CHOOSE T \in {O} : TRUE) = O OBVIOUS
    <3>3. UNION {Merged(T, o) : T \in {O}} = Merged(O, o) OBVIOUS
    <3>4. Conditional(e, o) = IF "volatile" \notin c THEN Merged(O, o) ELSE {}
      BY <1>2, <1>8, <2>1, <2>3, <3>1, <3>2, <3>3 DEF Conditional, n, m, c
    <3>5. O # o /\ ~({n, m} \subseteq Ranked) BY <1>1, <1>7, <2>3, DerivesIs
    <3>6. Merged(O, o) = IF "volatile" \notin d THEN {O} ELSE {}
      <4>1. Named(o) = m /\ Cv(o) = d BY DEF m, d
      <4>2. O = Make(m, d, "none") BY DEF O
      <4>3. ~({m, m} \subseteq Ranked) BY <1>1, <2>3, DerivesIs
      <4>4. Merged(O, o) =
              IF O = o THEN {O}
              ELSE IF {Named(O), Named(o)} \subseteq Ranked
              THEN {Make(IF Named(O) = Named(o) THEN Named(O) ELSE "long", {}, "none")}
              ELSE IF Named(O) = Named(o) /\ Cv(O) = Cv(o) /\ "volatile" \notin Cv(O)
              THEN {Make(Named(O), Cv(O), "none")} ELSE {}
        BY <1>5, <1>7
      <4> QED BY <1>7, <3>5, <4>1, <4>2, <4>3, <4>4
    <3>7. c \subseteq d BY <1>9, <1>14
    <3> QED BY <1>14, <2>1, <2>3, <3>4, <3>5, <3>6, <3>7 DEF n, m, c, d, O
  <2>4. CASE Kind(e) # Kind(o) /\ ~({n, m} \subseteq Family)
    <3>1. n = m /\ {n, m} \subseteq Ranked /\ {n, m} \cap Family = {}
      BY <1>1, <2>1, <2>4, DerivesIs
    <3>2. Conditional(e, o) = Merged(e, o) BY <1>2, <2>4, <3>1 DEF Conditional, n, m
    <3>3. Merged(e, o) = {Make(n, {}, "none")}
      BY <1>3, <2>4, <3>1, MergedIs DEF n, m
    <3> QED BY <2>4, <3>1, <3>2, <3>3 DEF n, m
  <2> QED BY <2>2, <2>3, <2>4
<1>15. CASE ~(n = m /\ c = d) /\ Below(o, e)
  <2>1. /\ ~Below(e, o) /\ remove_reference(e) # remove_reference(o)
        /\ n = m \/ {n, m} \subseteq Family
    BY <1>1, <1>4, <1>10, <1>11, <1>15, DerivesIs
  <2>2. CASE Kind(e) = Kind(o)
    <3>1. {n, m} \cap Family # {} \/ (Form(e) = Form(o) /\ n = m) BY <1>2, <2>1, <2>2
    <3>2. Matches(o, e) = {e} /\ Matches(e, o) = {} BY <1>6, <1>15, <2>1, <2>2
    <3>3. (CHOOSE T \in {e} : TRUE) = e OBVIOUS
    <3>4. UNION {Merged(e, T) : T \in {e}} = {e} BY DEF Merged
    <3>5. Conditional(e, o) = {e}
      BY <1>2, <1>8, <2>1, <3>1, <3>2, <3>3, <3>4 DEF Conditional, n, m
    <3> QED BY <1>15, <2>1, <2>2, <3>5
  <2>3. CASE Kind(e) # Kind(o) /\ {n, m} \subseteq Family
    <3>1. Matches(o, e) = {E} /\ Matches(e, o) = {} BY <1>6, <1>15, <2>1, <2>3
    <3>2. (CHOOSE T \in {E} : TRUE) = E OBVIOUS
    <3>3. UNION {Merged(e, T) : T \in {E}} = Merged(e, E) OBVIOUS
    <3>4. Conditional(e, o) = IF "volatile" \notin d THEN Merged(e, E) ELSE {}
      BY <1>2, <1>8, <2>1, <2>3, <3>1, <3>2, <3>3 DEF Conditional, n, m, d
    <3>5. E # e /\ ~({n, m} \subseteq Ranked) BY <1>1, <1>7, <2>3, DerivesIs
    <3>6. Merged(e, E) = IF "volatile" \notin c THEN {E} ELSE {}
      <4>1. Named(e) = n /\ Cv(e) = c BY DEF n, c
      <4>2. E = Make(n, c, "none") BY DEF E
      <4>3. ~({n, n} \subseteq Ranked) BY <1>1, <2>3, DerivesIs
      <4>4. Merged(e, E) =
              IF e = E THEN {e}
              ELSE IF {Named(e), Named(E)} \subseteq Ranked
              THEN {Make(IF Named(e) = Named(E) THEN Named(e) ELSE "long", {}, "none")}
              ELSE IF Named(e) = Named(E) /\ Cv(e) = Cv(E) /\ "volatile" \notin Cv(e)
              THEN {Make(Named(e), Cv(e), "none")} ELSE {}
        BY <1>5, <1>7
      <4> QED BY <1>7, <3>5, <4>1, <4>2, <4>3, <4>4
    <3>7. d \subseteq c BY <1>10, <1>15
    <3> QED BY <1>15, <2>1, <2>3, <3>4, <3>5, <3>6, <3>7 DEF n, m, c, d, E
  <2>4. CASE Kind(e) # Kind(o) /\ ~({n, m} \subseteq Family)
    <3>1. n = m /\ {n, m} \subseteq Ranked /\ {n, m} \cap Family = {}
      BY <1>1, <2>1, <2>4, DerivesIs
    <3>2. Conditional(e, o) = Merged(e, o) BY <1>2, <2>4, <3>1 DEF Conditional, n, m
    <3>3. Merged(e, o) = {Make(n, {}, "none")}
      BY <1>3, <2>4, <3>1, MergedIs DEF n, m
    <3> QED BY <2>4, <3>1, <3>2, <3>3 DEF n, m
  <2> QED BY <2>2, <2>3, <2>4
<1>16. CASE ~Below(e, o) /\ ~Below(o, e)
  <2>1. Matches(o, e) = {} /\ Matches(e, o) = {} BY <1>6, <1>16
  <2>2. Conditional(e, o) = Merged(e, o) BY <1>2, <2>1 DEF Conditional
  <2>3. ~(n = m /\ c = d) BY <1>9, <1>12, <1>16
  <2>4. Merged(e, o) = IF {n, m} \subseteq Ranked
                       THEN {Make(IF n = m THEN n ELSE "long", {}, "none")} ELSE {}
    BY <1>3, <2>3, MergedIs DEF n, m, c, d
  <2> QED BY <1>16, <2>2, <2>4 DEF n, m
<1> QED BY <1>13, <1>14, <1>15, <1>16

\* The conditional does not depend on the order.
LEMMA ConditionalSymmetric ==
  ASSUME NEW e, NEW o, Simple(e), Simple(o), Kind(e) # "none", Kind(o) # "none"
  PROVE  Conditional(e, o) = Conditional(o, e)
<1>1. ASSUME Below(e, o), Below(o, e) PROVE Named(e) = Named(o) /\ Cv(e) = Cv(o)
  BY <1>1, SimpleMade, DerivesIs DEF Below
<1>2. ASSUME Below(e, o), Below(o, e), Kind(e) = Kind(o) PROVE e = o
  BY <1>1, <1>2, SameSimple
<1>3. Named(e) = Named(o) /\ Cv(e) = Cv(o) =>
        Make(Named(e), Cv(e), "none") = Make(Named(o), Cv(o), "none")
  OBVIOUS
<1>4. Make(IF Named(e) = Named(o) THEN Named(e) ELSE "long", {}, "none") =
      Make(IF Named(o) = Named(e) THEN Named(o) ELSE "long", {}, "none")
  OBVIOUS
<1>5. {Named(e), Named(o)} = {Named(o), Named(e)} OBVIOUS
<1>6. Conditional(e, o) =
           IF Kind(e) = Kind(o) /\ Below(e, o) THEN {o}
           ELSE IF Kind(e) = Kind(o) /\ Below(o, e) THEN {e}
           ELSE IF {Named(e), Named(o)} \subseteq Ranked
           THEN {Make(IF Named(e) = Named(o) THEN Named(e) ELSE "long", {}, "none")}
           ELSE IF Below(e, o) /\ "volatile" \notin Cv(o) THEN {Make(Named(o), Cv(o), "none")}
           ELSE IF Below(o, e) /\ "volatile" \notin Cv(e) THEN {Make(Named(e), Cv(e), "none")}
           ELSE {}
  BY ConditionalOf
<1>7. Conditional(o, e) =
           IF Kind(e) = Kind(o) /\ Below(o, e) THEN {e}
           ELSE IF Kind(e) = Kind(o) /\ Below(e, o) THEN {o}
           ELSE IF {Named(e), Named(o)} \subseteq Ranked
           THEN {Make(IF Named(e) = Named(o) THEN Named(e) ELSE "long", {}, "none")}
           ELSE IF Below(o, e) /\ "volatile" \notin Cv(e) THEN {Make(Named(e), Cv(e), "none")}
           ELSE IF Below(e, o) /\ "volatile" \notin Cv(o) THEN {Make(Named(o), Cv(o), "none")}
           ELSE {}
  BY <1>4, <1>5, ConditionalOf
<1> QED BY <1>1, <1>2, <1>3, <1>6, <1>7

\* The expression of a type that can be combined.
LEMMA DeclvalIs ==
  ASSUME NEW T, Simple(T)
  PROVE  LET e == declval(T) IN
         /\ Simple(e) /\ Named(e) = Named(T) /\ Cv(e) = Cv(T)
         /\ Named(T) # "void" => Kind(e) = IF Kind(T) = "none" THEN "&&" ELSE Kind(T)
         /\ Named(T) = "void" => Kind(e) = "none"
<1>1. /\ Named(T) \in Names /\ Cv(T) \in SUBSET {"const", "volatile"} /\ Kind(T) \in Kinds
      /\ Named(T) = "void" => Kind(T) = "none"
  BY SimpleMade
<1> DEFINE k == IF Kind(T) = "none" /\ Named(T) # "void" THEN "&&" ELSE Kind(T)
<1>2. declval(T) = Make(Named(T), Cv(T), k) BY SimpleTraits
<1>3. k \in Kinds /\ (Named(T) = "void" => k = "none") BY <1>1 DEF Kinds
<1> HIDE DEF k
<1>4. /\ Simple(declval(T)) /\ Named(declval(T)) = Named(T) /\ Cv(declval(T)) = Cv(T)
      /\ Kind(declval(T)) = k
  BY <1>1, <1>2, <1>3, MakeIs
<1> QED BY <1>1, <1>4 DEF k

\* Void combines with itself alone.
LEMMA VoidIs ==
  ASSUME NEW T, NEW U, Simple(T), Simple(U), Named(T) = "void"
  PROVE  cond_res(T, U) = IF Named(U) = "void" THEN {Make("void", {}, "none")} ELSE {}
<1>1. is_void(declval(T)) /\ (is_void(declval(U)) <=> Named(U) = "void")
  BY DeclvalIs, SimpleTraits
<1>2. <<Plain("void")>> = Make("void", {}, "none") BY DEF Make, Plain
<1> QED BY <1>1, <1>2 DEF cond_res, Conditional

\* In either order.
LEMMA VoidSymmetric ==
  ASSUME NEW T, NEW U, Simple(T), Simple(U), Named(T) = "void" \/ Named(U) = "void"
  PROVE  cond_res(T, U) = cond_res(U, T)
<1>1. /\ is_void(declval(T)) <=> Named(T) = "void"
      /\ is_void(declval(U)) <=> Named(U) = "void"
  BY DeclvalIs, SimpleTraits
<1> QED BY <1>1 DEF cond_res, Conditional

\* The common type has no qualifiers and is no reference.
LEMMA CommonTypeOf ==
  ASSUME NEW T, NEW U, Simple(T), Simple(U), ~IllFormed(T, U)
  PROVE  common_type(T, U) = {Make(j, {}, "none") : j \in Join(Named(T), Named(U))}
<1> DEFINE n == Named(T)  m == Named(U)  D == decay(T)  E == decay(U)
           e == declval(D)  o == declval(E)
<1>1. n \in Names /\ m \in Names /\ (n = "void" <=> m = "void")
  BY SimpleMade, SimpleTraits DEF IllFormed
<1>2. D = Make(n, {}, "none") /\ E = Make(m, {}, "none") BY SimpleTraits
<1>3. /\ Simple(D) /\ Named(D) = n /\ Cv(D) = {} /\ Kind(D) = "none"
      /\ Simple(E) /\ Named(E) = m /\ Cv(E) = {} /\ Kind(E) = "none"
  BY <1>1, <1>2, MakeIs DEF Kinds
<1> HIDE DEF D, E, n, m
<1>4. \A V : Simple(V) => decay(V) = Make(Named(V), {}, "none") BY SimpleTraits
<1>5. CASE n = "void"
  <2>1. cond_res(D, E) = {Make("void", {}, "none")} BY <1>1, <1>3, <1>5, VoidIs
  <2>2. decay(Make("void", {}, "none")) = Make("void", {}, "none") BY <1>2, <1>3, <1>4, <1>5
  <2>3. decay_conditional_result(D, E) = {Make("void", {}, "none")}
    BY <2>1, <2>2 DEF decay_conditional_result
  <2>4. common_type(T, U) = {Make("void", {}, "none")}
    BY <2>1, <2>3 DEF common_type, common_type_2_impl, D, E
  <2>5. Join(n, m) = {"void"} BY <1>1, <1>5 DEF Join, Derives
  <2> QED BY <2>4, <2>5 DEF n, m
<1>6. CASE n # "void"
  <2>1. /\ Simple(e) /\ Named(e) = n /\ Cv(e) = {} /\ Kind(e) = "&&"
        /\ Simple(o) /\ Named(o) = m /\ Cv(o) = {} /\ Kind(o) = "&&"
    BY <1>1, <1>3, <1>6, DeclvalIs
  <2> HIDE DEF e, o
  <2>2. (Below(e, o) <=> Derives(n, m)) /\ (Below(o, e) <=> Derives(m, n)) BY <2>1 DEF Below
  <2>3. cond_res(D, E) = Conditional(e, o) BY DEF cond_res, e, o
  <2>4. Conditional(e, o) = IF Derives(n, m) THEN {o} ELSE IF Derives(m, n) THEN {e}
                            ELSE IF {n, m} \subseteq Ranked THEN {Make("long", {}, "none")}
                            ELSE {}
    <3>1. Derives(n, n) BY DEF Derives
    <3> QED BY <2>1, <2>2, <3>1, ConditionalOf
  <2>5. /\ decay(e) = Make(n, {}, "none") /\ decay(o) = Make(m, {}, "none")
        /\ decay(Make("long", {}, "none")) = Make("long", {}, "none")
    <3>1. "long" \in Names BY NamesAre
    <3>2. Simple(Make("long", {}, "none")) /\ Named(Make("long", {}, "none")) = "long"
      BY <3>1, MakeIs DEF Kinds
    <3> QED BY <1>4, <2>1, <3>2
  <2>6. CASE Join(n, m) # {}
    <3>1. \A j \in Join(n, m) : Join(n, m) = {j} BY DEF Join
    <3>2. PICK j \in Join(n, m) : TRUE BY <2>6
    <3>3. \E R : cond_res(D, E) = {R} /\ decay(R) = Make(j, {}, "none")
      BY <2>3, <2>4, <2>5, <3>1, <3>2 DEF Join
    <3>4. common_type(T, U) = {Make(j, {}, "none")}
      BY <3>3 DEF common_type, common_type_2_impl, decay_conditional_result, D, E
    <3> QED BY <3>1, <3>2, <3>4 DEF n, m
  <2>7. CASE Join(n, m) = {}
    <3> DEFINE L == LRef(add_const(D))  M == LRef(add_const(E))
    <3>1. L = Make(n, {"const"}, "&") /\ M = Make(m, {"const"}, "&")
      BY <1>1, <1>2, <1>6, ConstRef
    <3>2. /\ Simple(L) /\ Named(L) = n /\ Cv(L) = {"const"} /\ Kind(L) = "&"
          /\ Simple(M) /\ Named(M) = m /\ Cv(M) = {"const"} /\ Kind(M) = "&"
      BY <1>1, <1>6, <3>1, MakeIs DEF Kinds
    <3> HIDE DEF L, M
    <3>3. /\ Simple(declval(L)) /\ Named(declval(L)) = n /\ Cv(declval(L)) = {"const"}
          /\ Kind(declval(L)) = "&"
          /\ Simple(declval(M)) /\ Named(declval(M)) = m /\ Cv(declval(M)) = {"const"}
          /\ Kind(declval(M)) = "&"
      BY <1>1, <1>6, <3>2, DeclvalIs
    <3>4. ~Derives(n, m) /\ ~Derives(m, n) /\ ~({n, m} \subseteq Ranked) BY <2>7 DEF Join
    <3>5. ~Below(declval(L), declval(M)) /\ ~Below(declval(M), declval(L))
      BY <3>3, <3>4 DEF Below
    <3>6. cond_res(L, M) = {} BY <3>3, <3>4, <3>5, ConditionalOf DEF cond_res
    <3>7. cond_res(D, E) = {} BY <2>3, <2>4, <3>4
    <3>8. common_type(T, U) = {}
      BY <3>6, <3>7 DEF common_type, common_type_2_impl, decay_conditional_result, D, E, L, M
    <3> QED BY <2>7, <3>8 DEF n, m
  <2> QED BY <2>6, <2>7
<1> QED BY <1>5, <1>6

-----------------------------------------------------------------------------
(* Common references.                                                      *)

\* An operand is converted to a reference that it is bound to.
LEMMA BoundConverts ==
  ASSUME NEW T, NEW R, Simple(T), Simple(R), Kind(R) # "none", Below(T, R),
         Kind(T) = Kind(R) \/ (Kind(T) = "none" /\ Kind(R) = "&&"), Named(T) # "void"
  PROVE  is_convertible(T, R)
<1> DEFINE e == declval(T)
<1>1. Simple(e) /\ Named(e) = Named(T) /\ Cv(e) = Cv(T) /\ Kind(e) = Kind(R)
  BY DeclvalIs
<1>2. ~is_void(T) /\ ~is_void(R) /\ is_reference(R) BY SimpleMade, SimpleTraits
<1> HIDE DEF e
<1>3. BindsTo(e, R) BY <1>1, SimpleTraits DEF BindsTo, Below
<1> QED BY <1>2, <1>3 DEF is_convertible, e

\* An rvalue is converted to an lvalue reference if that is to const only.
LEMMA RvalueConverts ==
  ASSUME NEW T, NEW R, Simple(T), Simple(R), Kind(R) = "&", Below(T, R),
         Kind(T) = "&&", Named(T) # "void"
  PROVE  is_convertible(T, R) <=> Cv(R) = {"const"}
<1> DEFINE e == declval(T)  Q == RRef(remove_reference(R))
<1>1. Simple(e) /\ Named(e) = Named(T) /\ Cv(e) = Cv(T) /\ Kind(e) = "&&"
  BY DeclvalIs
<1>2. /\ ~is_void(T) /\ ~is_void(R) /\ is_reference(R) /\ is_lvalue_reference(R)
      /\ ~is_rvalue_reference(R) /\ remove_reference(R) = Make(Named(R), Cv(R), "none")
      /\ Named(R) \in Names /\ Named(R) # "void" /\ Cv(R) \in SUBSET {"const", "volatile"}
  BY SimpleMade, SimpleTraits
<1>3. Q = Make(Named(R), Cv(R), "&&") BY <1>2, MakeOther
<1>4. Simple(Q) /\ Named(Q) = Named(R) /\ Cv(Q) = Cv(R) /\ Kind(Q) = "&&"
  BY <1>2, <1>3, MakeIs DEF Kinds
<1> HIDE DEF e, Q
<1>5. ~is_lvalue_reference(e) /\ ~is_lvalue_reference(Q) BY <1>1, <1>4, SimpleTraits
<1>6. ~BindsTo(e, R) /\ BindsTo(e, Q) BY <1>1, <1>2, <1>4, <1>5 DEF BindsTo, Below
<1>7. Derives(Named(e), Named(R)) BY <1>1 DEF Below
<1> QED BY <1>2, <1>6, <1>7 DEF is_convertible, e, Q

Related(n, m) == Derives(n, m) \/ Derives(m, n)
Upper(n, m)   == IF Derives(n, m) THEN m ELSE n

\* Of two related names there is an upper one, and it is the one that joins them.
LEMMA UpperIs ==
  ASSUME NEW n \in Names, NEW m \in Names, Related(n, m)
  PROVE  /\ Upper(n, m) \in Names /\ Upper(m, n) = Upper(n, m)
         /\ Derives(n, Upper(n, m)) /\ Derives(m, Upper(n, m))
         /\ Join(n, m) = {Upper(n, m)}
         /\ n # "void" /\ m # "void" => Upper(n, m) # "void"
         /\ Upper(n, m) = n \/ Upper(n, m) = m
         /\ Upper(n, m) \in Family <=> n \in Family
BY DEF Related, Upper, Derives, Join, Family

\* Of two lvalues.
LEMMA CommonLvalue ==
  ASSUME NEW n \in Names \ {"void"}, NEW m \in Names \ {"void"},
         NEW c \in SUBSET {"const", "volatile"}, NEW d \in SUBSET {"const", "volatile"}
  PROVE  common_ref_lvalue(Make(n, c, "none"), Make(m, d, "none")) =
           IF Related(n, m) THEN {Make(Upper(n, m), c \cup d, "&")} ELSE {}
<1> DEFINE X == Make(n, c, "none")  Y == Make(m, d, "none")
           L == LRef(copy_cv(X, Y))  M == LRef(copy_cv(Y, X))
<1>1. c \cup d \in SUBSET {"const", "volatile"} OBVIOUS
<1>2. CvOf(X) = c /\ CvOf(Y) = d BY AloneIs
<1>3. copy_cv(X, Y) = Make(m, d \cup c, "none") /\ copy_cv(Y, X) = Make(n, c \cup d, "none")
  <2>1. \A V : CvOf(V) \in SUBSET {"const", "volatile"} =>
                 /\ copy_cv(V, Y) = Make(m, d \cup CvOf(V), "none")
                 /\ copy_cv(V, X) = Make(n, c \cup CvOf(V), "none")
    <3>1. \A V : CvOf(V) \in SUBSET {"const", "volatile"} =>
                   copy_cv(V, Y) = Make(m, d \cup CvOf(V), "none")
      BY MakeOther
    <3>2. \A V : CvOf(V) \in SUBSET {"const", "volatile"} =>
                   copy_cv(V, X) = Make(n, c \cup CvOf(V), "none")
      BY MakeOther
    <3> QED BY <3>1, <3>2
  <2> HIDE DEF X, Y
  <2> QED BY <1>2, <2>1
<1>4. d \cup c = c \cup d OBVIOUS
<1>5. L = Make(m, c \cup d, "&") /\ M = Make(n, c \cup d, "&")
  BY <1>1, <1>3, <1>4, MakeOther
<1> HIDE DEF L, M
<1>6. /\ Simple(L) /\ Named(L) = m /\ Cv(L) = c \cup d /\ Kind(L) = "&"
      /\ Simple(M) /\ Named(M) = n /\ Cv(M) = c \cup d /\ Kind(M) = "&"
  BY <1>1, <1>5, MakeIs DEF Kinds
<1>7. declval(L) = L /\ declval(M) = M BY <1>5, <1>6, SimpleTraits
<1>8. cond_res(L, M) = IF Derives(m, n) THEN {M} ELSE IF Derives(n, m) THEN {L}
                       ELSE IF {n, m} \subseteq Ranked THEN {Make("long", {}, "none")} ELSE {}
  <2>1. (Below(L, M) <=> Derives(m, n)) /\ (Below(M, L) <=> Derives(n, m))
    BY <1>6 DEF Below
  <2>2. Derives(n, n) BY DEF Derives
  <2> QED BY <1>6, <1>7, <2>1, <2>2, ConditionalOf DEF cond_res
<1>9. ~is_reference(Make("long", {}, "none")) /\ is_reference(L) /\ is_reference(M)
  <2>1. "long" \in Names BY NamesAre
  <2>2. Simple(Make("long", {}, "none")) /\ Kind(Make("long", {}, "none")) = "none"
    BY <2>1, MakeIs DEF Kinds
  <2> QED BY <1>6, <2>2, SimpleTraits
<1>10. common_ref_lvalue(X, Y) = {R \in cond_res(L, M) : is_reference(R)}
  BY DEF common_ref_lvalue, L, M
<1>11. Derives(n, m) /\ Derives(m, n) => n = m BY DerivesIs
<1> QED BY <1>5, <1>8, <1>9, <1>10, <1>11 DEF Related, Upper

\* Of two rvalues: both are converted to the common reference.
LEMMA CommonRvalue ==
  ASSUME NEW n \in Names \ {"void"}, NEW m \in Names \ {"void"},
         NEW c \in SUBSET {"const", "volatile"}, NEW d \in SUBSET {"const", "volatile"}
  PROVE  common_ref_rvalue(Make(n, c, "none"), Make(m, d, "none")) =
           IF Related(n, m) THEN {Make(Upper(n, m), c \cup d, "&&")} ELSE {}
<1> DEFINE X == Make(n, c, "none")  Y == Make(m, d, "none")
           L == Make(Upper(n, m), c \cup d, "&")  R == Make(Upper(n, m), c \cup d, "&&")
<1>1. common_ref_lvalue(X, Y) = IF Related(n, m) THEN {L} ELSE {} BY CommonLvalue
<1>2. ASSUME Related(n, m)
      PROVE  /\ RRef(remove_reference(L)) = R
             /\ is_convertible(RRef(X), R) /\ is_convertible(RRef(Y), R)
  <2>1. /\ Upper(n, m) \in Names /\ Upper(n, m) # "void" /\ c \cup d \in SUBSET {"const", "volatile"}
        /\ Derives(n, Upper(n, m)) /\ Derives(m, Upper(n, m))
    BY <1>2, UpperIs
  <2>2. remove_reference(L) = Make(Upper(n, m), c \cup d, "none") BY <2>1, MakeIs DEF Kinds
  <2>3. RRef(remove_reference(L)) = R BY <2>1, <2>2, MakeOther
  <2>4. /\ Simple(R) /\ Named(R) = Upper(n, m) /\ Cv(R) = c \cup d /\ Kind(R) = "&&"
    BY <2>1, MakeIs DEF Kinds
  <2>5. RRef(X) = Make(n, c, "&&") /\ RRef(Y) = Make(m, d, "&&") BY MakeOther
  <2>6. /\ Simple(RRef(X)) /\ Named(RRef(X)) = n /\ Cv(RRef(X)) = c /\ Kind(RRef(X)) = "&&"
        /\ Simple(RRef(Y)) /\ Named(RRef(Y)) = m /\ Cv(RRef(Y)) = d /\ Kind(RRef(Y)) = "&&"
    BY <2>5, MakeIs DEF Kinds
  <2> HIDE DEF X, Y, R, L
  <2>7. Below(RRef(X), R) /\ Below(RRef(Y), R) BY <2>1, <2>4, <2>6 DEF Below
  <2>8. is_convertible(RRef(X), R) /\ is_convertible(RRef(Y), R)
    BY <2>4, <2>6, <2>7, BoundConverts
  <2> QED BY <2>3, <2>8
<1> HIDE DEF X, Y, R, L
<1>3. common_ref_rvalue(X, Y) = IF Related(n, m) THEN {R} ELSE {}
  BY <1>1, <1>2 DEF common_ref_rvalue
<1> QED BY <1>3 DEF X, Y, R

\* Of an rvalue and an lvalue: the rvalue is converted to a reference to const, and only if
\* nothing is volatile.
LEMMA CommonMixed ==
  ASSUME NEW n \in Names \ {"void"}, NEW m \in Names \ {"void"},
         NEW c \in SUBSET {"const", "volatile"}, NEW d \in SUBSET {"const", "volatile"}
  PROVE  common_ref_mixed(Make(n, c, "none"), Make(m, d, "none")) =
           IF Related(n, m) /\ "volatile" \notin c \cup d
           THEN {Make(Upper(n, m), {"const"}, "&")} ELSE {}
<1> DEFINE X == Make(n, c, "none")  Y == Make(m, d, "none")  cv == c \cup {"const"} \cup d
           L == Make(Upper(n, m), cv, "&")
<1>1. add_const(X) = Make(n, c \cup {"const"}, "none") BY MakeOther
<1>2. common_ref_lvalue(add_const(X), Y) = IF Related(n, m) THEN {L} ELSE {}
  <2>1. c \cup {"const"} \in SUBSET {"const", "volatile"} OBVIOUS
  <2> QED BY <1>1, <2>1, CommonLvalue
<1>3. "volatile" \notin c \cup d <=> cv = {"const"} OBVIOUS
<1>4. ASSUME Related(n, m)
      PROVE  is_convertible(RRef(X), L) <=> cv = {"const"}
  <2>1. /\ Upper(n, m) \in Names /\ Upper(n, m) # "void" /\ cv \in SUBSET {"const", "volatile"}
        /\ Derives(n, Upper(n, m))
    BY <1>4, UpperIs
  <2>2. Simple(L) /\ Named(L) = Upper(n, m) /\ Cv(L) = cv /\ Kind(L) = "&"
    BY <2>1, MakeIs DEF Kinds
  <2>3. RRef(X) = Make(n, c, "&&") BY MakeOther
  <2>4. Simple(RRef(X)) /\ Named(RRef(X)) = n /\ Cv(RRef(X)) = c /\ Kind(RRef(X)) = "&&"
    BY <2>3, MakeIs DEF Kinds
  <2>5. c \subseteq cv OBVIOUS
  <2> HIDE DEF X, L, cv
  <2>6. Below(RRef(X), L) BY <2>1, <2>2, <2>4, <2>5 DEF Below
  <2> QED BY <2>2, <2>4, <2>6, RvalueConverts
<1> HIDE DEF X, Y, L
<1>5. common_ref_mixed(X, Y) = IF Related(n, m) /\ cv = {"const"} THEN {L} ELSE {}
  BY <1>2, <1>4 DEF common_ref_mixed
<1> QED BY <1>3, <1>5 DEF X, Y, L

\* The common reference without conversions: of related types that are both references, if
\* they are of one kind or neither is volatile.
LEMMA CommonRefOf ==
  ASSUME NEW T, NEW U, Simple(T), Simple(U)
  PROVE  LET n == Named(T)  m == Named(U)  cv == Cv(T) \cup Cv(U) IN
         common_ref(T, U) =
           IF Kind(T) = "none" \/ Kind(U) = "none" \/ ~Related(n, m) THEN {}
           ELSE IF Kind(T) = Kind(U) THEN {Make(Upper(n, m), cv, Kind(T))}
           ELSE IF "volatile" \in cv THEN {}
           ELSE {Make(Upper(n, m), {"const"}, "&")}
<1> DEFINE n == Named(T)  m == Named(U)  c == Cv(T)  d == Cv(U)
           X == remove_reference(T)  Y == remove_reference(U)
<1>1. /\ n \in Names /\ m \in Names /\ Kind(T) \in Kinds /\ Kind(U) \in Kinds
      /\ c \in SUBSET {"const", "volatile"} /\ d \in SUBSET {"const", "volatile"}
      /\ n = "void" => Kind(T) = "none"
      /\ m = "void" => Kind(U) = "none"
  BY SimpleMade
<1>2. /\ is_lvalue_reference(T) <=> Kind(T) = "&"
      /\ is_rvalue_reference(T) <=> Kind(T) = "&&"
      /\ is_lvalue_reference(U) <=> Kind(U) = "&"
      /\ is_rvalue_reference(U) <=> Kind(U) = "&&"
  BY SimpleTraits
<1>3. X = Make(n, c, "none") /\ Y = Make(m, d, "none") BY SimpleTraits
<1> HIDE DEF n, m, c, d, X, Y
<1>4. CASE Kind(T) = "none" \/ Kind(U) = "none" BY <1>2, <1>4 DEF common_ref
<1>5. ASSUME Kind(T) # "none", Kind(U) # "none"
      PROVE  /\ n \in Names \ {"void"} /\ m \in Names \ {"void"}
             /\ Kind(T) \in {"&", "&&"} /\ Kind(U) \in {"&", "&&"}
  BY <1>1, <1>5 DEF Kinds
<1>6. CASE Kind(T) = "&" /\ Kind(U) = "&"
  <2>1. common_ref(T, U) = common_ref_lvalue(X, Y) BY <1>2, <1>6 DEF common_ref, X, Y
  <2>2. common_ref(T, U) = IF Related(n, m) THEN {Make(Upper(n, m), c \cup d, "&")} ELSE {}
    BY <1>1, <1>3, <1>5, <1>6, <2>1, CommonLvalue
  <2> QED BY <1>6, <2>2 DEF n, m, c, d
<1>7. CASE Kind(T) = "&&" /\ Kind(U) = "&&"
  <2>1. common_ref(T, U) = common_ref_rvalue(X, Y) BY <1>2, <1>7 DEF common_ref, X, Y
  <2>2. common_ref_rvalue(X, Y) =
          IF Related(n, m) THEN {Make(Upper(n, m), c \cup d, "&&")} ELSE {}
    BY <1>1, <1>3, <1>5, <1>7, CommonRvalue
  <2> QED BY <1>7, <2>1, <2>2 DEF n, m, c, d
<1>8. CASE Kind(T) = "&&" /\ Kind(U) = "&"
  <2>1. common_ref(T, U) = common_ref_mixed(X, Y) BY <1>2, <1>8 DEF common_ref, X, Y
  <2>2. common_ref_mixed(X, Y) =
          IF Related(n, m) /\ "volatile" \notin c \cup d
          THEN {Make(Upper(n, m), {"const"}, "&")} ELSE {}
    BY <1>1, <1>3, <1>5, <1>8, CommonMixed
  <2> QED BY <1>8, <2>1, <2>2 DEF n, m, c, d
<1>9. CASE Kind(T) = "&" /\ Kind(U) = "&&"
  <2>1. common_ref(T, U) = common_ref_mixed(Y, X) BY <1>2, <1>9 DEF common_ref, X, Y
  <2>2. common_ref_mixed(Y, X) =
          IF Related(m, n) /\ "volatile" \notin d \cup c
          THEN {Make(Upper(m, n), {"const"}, "&")} ELSE {}
    BY <1>1, <1>3, <1>5, <1>9, CommonMixed
  <2>3. (Related(m, n) <=> Related(n, m)) /\ (Related(n, m) => Upper(m, n) = Upper(n, m))
    BY <1>1, UpperIs DEF Related
  <2> QED BY <1>9, <2>1, <2>2, <2>3 DEF n, m, c, d
<1> QED BY <1>4, <1>5, <1>6, <1>7, <1>8, <1>9 DEF n, m, c, d

\* What is found by the conditional has a name that joins those of the operands, and is a
\* reference only if both are bound to it.
LEMMA CondResParts ==
  ASSUME NEW T, NEW U, Simple(T), Simple(U), NEW R \in cond_res(T, U)
  PROVE  /\ Simple(R) /\ Named(R) \in Join(Named(T), Named(U))
         /\ Kind(R) # "none" =>
              /\ Below(T, R) /\ Below(U, R)
              /\ \A V \in {T, U} : Kind(R) = IF Kind(V) = "none" THEN "&&" ELSE Kind(V)
<1> DEFINE n == Named(T)  m == Named(U)  e == declval(T)  o == declval(U)
<1>1. n \in Names /\ m \in Names /\ Derives(n, n) BY SimpleMade DEF Derives
<1>2. CASE n = "void" \/ m = "void"
  <2>1. /\ cond_res(T, U) = cond_res(U, T)
        /\ R \in {Make("void", {}, "none")} /\ n = "void" /\ m = "void"
    BY <1>2, VoidIs, VoidSymmetric
  <2>2. "void" \in Names BY NamesAre
  <2>3. Simple(R) /\ Named(R) = "void" /\ Kind(R) = "none" BY <2>1, <2>2, MakeIs DEF Kinds
  <2>4. Join(n, m) = {"void"} BY <2>1 DEF Join, Derives
  <2> QED BY <2>3, <2>4
<1>3. CASE n # "void" /\ m # "void"
  <2>1. /\ Simple(e) /\ Named(e) = n /\ Cv(e) = Cv(T)
        /\ Kind(e) = (IF Kind(T) = "none" THEN "&&" ELSE Kind(T)) /\ Kind(e) # "none"
        /\ Simple(o) /\ Named(o) = m /\ Cv(o) = Cv(U)
        /\ Kind(o) = (IF Kind(U) = "none" THEN "&&" ELSE Kind(U)) /\ Kind(o) # "none"
    BY <1>3, DeclvalIs
  <2>2. /\ Below(e, o) <=> Derives(n, m) /\ Cv(T) \subseteq Cv(U)
        /\ Below(o, e) <=> Derives(m, n) /\ Cv(U) \subseteq Cv(T)
    BY <2>1 DEF Below
  <2>3. Derives(n, m) /\ Derives(m, n) => n = m BY <1>1, DerivesIs
  <2>4. R \in Conditional(e, o) BY DEF cond_res
  <2> HIDE DEF e, o, n, m
  <2>5. \/ Kind(e) = Kind(o) /\ Below(e, o) /\ R = o
        \/ Kind(e) = Kind(o) /\ Below(o, e) /\ R = e
        \/ {n, m} \subseteq Ranked /\ R = Make(IF n = m THEN n ELSE "long", {}, "none")
        \/ Below(e, o) /\ R = Make(m, Cv(U), "none")
        \/ Below(o, e) /\ R = Make(n, Cv(T), "none")
    BY <2>1, <2>4, ConditionalOf
  <2>6. CASE Kind(e) = Kind(o) /\ Below(e, o) /\ R = o
    <3>1. Join(n, m) = {m} BY <2>2, <2>6 DEF Join
    <3>2. Below(T, R) /\ Below(U, R)
      <4>1. Derives(m, m) BY DEF Derives
      <4> QED BY <2>1, <2>2, <2>6, <4>1 DEF Below, n, m
    <3>3. Simple(R) /\ Named(R) = m /\ Kind(R) = Kind(e) /\ Kind(R) = Kind(o) BY <2>1, <2>6
    <3> QED BY <2>1, <3>1, <3>2, <3>3 DEF n, m
  <2>7. CASE Kind(e) = Kind(o) /\ Below(o, e) /\ R = e
    <3>1. Join(n, m) = {n} BY <2>2, <2>3, <2>7 DEF Join
    <3>2. Below(T, R) /\ Below(U, R) BY <1>1, <2>1, <2>2, <2>7 DEF Below, n, m
    <3>3. Simple(R) /\ Named(R) = n /\ Kind(R) = Kind(e) /\ Kind(R) = Kind(o) BY <2>1, <2>7
    <3> QED BY <2>1, <3>1, <3>2, <3>3 DEF n, m
  <2>8. CASE {n, m} \subseteq Ranked /\ R = Make(IF n = m THEN n ELSE "long", {}, "none")
    <3> DEFINE j == IF n = m THEN n ELSE "long"
    <3>1. j \in Names /\ j # "void" BY <1>1, <1>3, NamesAre DEF n, m
    <3>2. Simple(R) /\ Named(R) = j /\ Kind(R) = "none" BY <2>8, <3>1, MakeIs DEF Kinds
    <3>3. j \in Join(n, m)
      <4>1. n # m => ~Derives(n, m) /\ ~Derives(m, n) BY <2>8 DEF Derives, Ranked
      <4> QED BY <1>1, <2>8, <4>1 DEF Join, n
    <3> QED BY <3>2, <3>3 DEF n, m
  <2>9. CASE Below(e, o) /\ R = Make(m, Cv(U), "none")
    <3>1. Join(n, m) = {m} BY <2>2, <2>9 DEF Join
    <3>2. Cv(U) \in SUBSET {"const", "volatile"} BY SimpleMade
    <3>3. Simple(R) /\ Named(R) = m /\ Kind(R) = "none"
      BY <1>1, <2>9, <3>2, MakeIs DEF Kinds, m
    <3> QED BY <3>1, <3>3 DEF n, m
  <2>10. CASE Below(o, e) /\ R = Make(n, Cv(T), "none")
    <3>1. Join(n, m) = {n} BY <2>2, <2>3, <2>10 DEF Join
    <3>2. Cv(T) \in SUBSET {"const", "volatile"} BY SimpleMade
    <3>3. Simple(R) /\ Named(R) = n /\ Kind(R) = "none"
      BY <1>1, <2>10, <3>2, MakeIs DEF Kinds, n
    <3> QED BY <3>1, <3>3 DEF n, m
  <2> QED BY <2>5, <2>6, <2>7, <2>8, <2>9, <2>10
<1> QED BY <1>2, <1>3

\* A common reference has a name that joins those of the operands.  If it is a reference,
\* both operands are bound to it, or it is one to const and the operands are of both kinds.
LEMMA ReferenceParts ==
  ASSUME NEW T, NEW U, Simple(T), Simple(U), ~IllFormed(T, U),
         NEW R \in common_reference(T, U)
  PROVE  /\ Simple(R) /\ Named(R) \in Join(Named(T), Named(U))
         /\ Kind(R) # "none" =>
              \A V \in {T, U} :
                /\ Below(V, R)
                /\ \/ Kind(R) = IF Kind(V) = "none" THEN "&&" ELSE Kind(V)
                   \/ Kind(V) = "&&" /\ Kind(R) = "&" /\ Cv(R) = {"const"}
<1> DEFINE n == Named(T)  m == Named(U)  cv == Cv(T) \cup Cv(U)
<1>1. /\ n \in Names /\ m \in Names /\ Kind(T) \in Kinds /\ Kind(U) \in Kinds
      /\ Cv(T) \in SUBSET {"const", "volatile"} /\ Cv(U) \in SUBSET {"const", "volatile"}
      /\ n = "void" => Kind(T) = "none"
      /\ m = "void" => Kind(U) = "none"
  BY SimpleMade
<1>2. CASE R \in common_ref(T, U)
  <2>1. /\ Kind(T) # "none" /\ Kind(U) # "none" /\ Related(n, m)
        /\ \/ Kind(T) = Kind(U) /\ R = Make(Upper(n, m), cv, Kind(T))
           \/ /\ Kind(T) # Kind(U) /\ "volatile" \notin cv
              /\ R = Make(Upper(n, m), {"const"}, "&")
    <3>1. common_ref(T, U) =
             IF Kind(T) = "none" \/ Kind(U) = "none" \/ ~Related(n, m) THEN {}
             ELSE IF Kind(T) = Kind(U) THEN {Make(Upper(n, m), cv, Kind(T))}
             ELSE IF "volatile" \in cv THEN {}
             ELSE {Make(Upper(n, m), {"const"}, "&")}
      BY CommonRefOf
    <3> HIDE DEF n, m, cv
    <3> QED BY <1>2, <3>1
  <2>2. /\ Upper(n, m) \in Names /\ Join(n, m) = {Upper(n, m)} /\ Upper(n, m) # "void"
        /\ Derives(n, Upper(n, m)) /\ Derives(m, Upper(n, m))
    BY <1>1, <2>1, UpperIs
  <2>3. CASE Kind(T) = Kind(U) /\ R = Make(Upper(n, m), cv, Kind(T))
    <3>1. cv \in SUBSET {"const", "volatile"} BY <1>1
    <3>2. Simple(R) /\ Named(R) = Upper(n, m) /\ Cv(R) = cv /\ Kind(R) = Kind(T)
      BY <1>1, <2>2, <2>3, <3>1, MakeIs
    <3>3. Below(T, R) /\ Below(U, R) BY <2>2, <3>2 DEF Below
    <3> QED BY <2>1, <2>2, <2>3, <3>2, <3>3
  <2>4. CASE /\ Kind(T) # Kind(U) /\ "volatile" \notin cv
             /\ R = Make(Upper(n, m), {"const"}, "&")
    <3>1. Cv(T) \subseteq {"const"} /\ Cv(U) \subseteq {"const"} BY <1>1, <2>4
    <3>2. Simple(R) /\ Named(R) = Upper(n, m) /\ Cv(R) = {"const"} /\ Kind(R) = "&"
      BY <2>2, <2>4, MakeIs DEF Kinds
    <3>3. Below(T, R) /\ Below(U, R) BY <2>2, <3>1, <3>2 DEF Below
    <3>4. Kind(T) \in {"&", "&&"} /\ Kind(U) \in {"&", "&&"} BY <1>1, <2>1 DEF Kinds
    <3> QED BY <2>2, <3>2, <3>3, <3>4
  <2> QED BY <2>1, <2>3, <2>4
<1>3. CASE R \in cond_res(T, U) BY <1>3, CondResParts
<1>4. CASE R \in common_type(T, U)
  <2>1. PICK j \in Join(n, m) : R = Make(j, {}, "none") BY <1>4, CommonTypeOf
  <2>2. j \in Names BY <1>1, NamesAre DEF Join
  <2>3. Simple(R) /\ Named(R) = j /\ Kind(R) = "none" BY <2>1, <2>2, MakeIs DEF Kinds
  <2> QED BY <2>1, <2>3
<1> QED BY <1>2, <1>3, <1>4 DEF common_reference

\* There is a common reference just where names have a common one.
LEMMA ReferenceExists ==
  ASSUME NEW T, NEW U, Simple(T), Simple(U), ~IllFormed(T, U)
  PROVE  common_reference(T, U) = {} <=> Join(Named(T), Named(U)) = {}
<1>1. Join(Named(T), Named(U)) = {} => common_reference(T, U) = {} BY ReferenceParts
<1>2. ASSUME common_reference(T, U) = {} PROVE Join(Named(T), Named(U)) = {}
  <2>1. common_type(T, U) = {} BY <1>2 DEF common_reference
  <2> QED BY <2>1, CommonTypeOf
<1> QED BY <1>1, <1>2

\* Neither depends on the order.
LEMMA CommonSymmetric ==
  ASSUME NEW T, NEW U, Simple(T), Simple(U), ~IllFormed(T, U)
  PROVE  /\ common_type(T, U) = common_type(U, T)
         /\ common_reference(T, U) = common_reference(U, T)
<1> DEFINE n == Named(T)  m == Named(U)
<1>1. ~IllFormed(U, T) /\ n \in Names /\ m \in Names BY SimpleMade DEF IllFormed
<1>2. Join(n, m) = Join(m, n)
  <2>1. Derives(n, m) /\ Derives(m, n) => n = m BY <1>1, DerivesIs
  <2>2. {n, m} = {m, n} OBVIOUS
  <2> QED BY <2>1, <2>2 DEF Join
<1>3. common_type(T, U) = common_type(U, T) BY <1>1, <1>2, CommonTypeOf
<1>4. cond_res(T, U) = cond_res(U, T)
  <2>1. CASE n = "void" \/ m = "void" BY <2>1, VoidSymmetric
  <2>2. CASE n # "void" /\ m # "void"
    <3>1. /\ Simple(declval(T)) /\ Kind(declval(T)) # "none"
          /\ Simple(declval(U)) /\ Kind(declval(U)) # "none"
      BY <2>2, DeclvalIs
    <3> QED BY <3>1, ConditionalSymmetric DEF cond_res
  <2> QED BY <2>1, <2>2
<1>5. common_ref(T, U) = common_ref(U, T)
  <2>1. Related(n, m) <=> Related(m, n) BY DEF Related
  <2>2. Related(n, m) => Upper(n, m) = Upper(m, n) BY <1>1, UpperIs
  <2>3. Cv(T) \cup Cv(U) = Cv(U) \cup Cv(T) OBVIOUS
  <2>4. common_ref(T, U) =
           IF Kind(T) = "none" \/ Kind(U) = "none" \/ ~Related(n, m) THEN {}
           ELSE IF Kind(T) = Kind(U) THEN {Make(Upper(n, m), Cv(T) \cup Cv(U), Kind(T))}
           ELSE IF "volatile" \in Cv(T) \cup Cv(U) THEN {}
           ELSE {Make(Upper(n, m), {"const"}, "&")}
    BY CommonRefOf
  <2>5. common_ref(U, T) =
           IF Kind(T) = "none" \/ Kind(U) = "none" \/ ~Related(m, n) THEN {}
           ELSE IF Kind(T) = Kind(U) THEN {Make(Upper(m, n), Cv(U) \cup Cv(T), Kind(U))}
           ELSE IF "volatile" \in Cv(U) \cup Cv(T) THEN {}
           ELSE {Make(Upper(m, n), {"const"}, "&")}
    BY CommonRefOf
  <2> QED BY <2>1, <2>2, <2>3, <2>4, <2>5
<1> QED BY <1>3, <1>4, <1>5 DEF common_reference

\* For types that are combined, the order does not change common_type or common_reference,
\* both types convert to what these give, unless they are volatile objects of a class, and
\* the common reference is the common type but for qualifiers and references.
THEOREM CommonWith == CommonSpec => []CommonAgrees
<1>1. ASSUME Type(type) PROVE CommonAgrees
  <2> SUFFICES ASSUME Combinable(type), NEW U \in Combined, ~IllFormed(type, U)
               PROVE  /\ common_type(type, U) = common_type(U, type)
                      /\ common_reference(type, U) = common_reference(U, type)
                      /\ common_type(type, U) = {remove_cvref(R) : R \in common_reference(type, U)}
                      /\ \A R \in common_reference(type, U) :
                           \/ is_convertible(type, R)
                           \/ Named(type) \in Family /\ "volatile" \in Cv(type) /\ ~is_reference(R)
    BY DEF CommonAgrees
  <2> DEFINE n == Named(type)  m == Named(U)
  <2>1. Simple(type) /\ Simple(U) BY <1>1, CombinedIs DEF Simple
  <2>2. /\ common_type(type, U) = common_type(U, type)
        /\ common_reference(type, U) = common_reference(U, type)
    BY <2>1, CommonSymmetric
  <2>3. common_type(type, U) = {remove_cvref(R) : R \in common_reference(type, U)}
    <3>1. common_type(type, U) = {Make(j, {}, "none") : j \in Join(n, m)}
      BY <2>1, CommonTypeOf
    <3>2. \A R \in common_reference(type, U) :
            Named(R) \in Join(n, m) /\ remove_cvref(R) = Make(Named(R), {}, "none")
      BY <2>1, ReferenceParts, SimpleTraits
    <3>3. common_reference(type, U) = {} <=> Join(n, m) = {} BY <2>1, ReferenceExists
    <3>4. \A i, j \in Join(n, m) : i = j BY DEF Join
    <3> HIDE DEF n, m
    <3> QED BY <3>1, <3>2, <3>3, <3>4
  <2>4. ASSUME NEW R \in common_reference(type, U)
        PROVE  \/ is_convertible(type, R)
               \/ Named(type) \in Family /\ "volatile" \in Cv(type) /\ ~is_reference(R)
    <3>1. /\ Simple(R) /\ Named(R) \in Join(n, m)
          /\ Kind(R) # "none" =>
                /\ Below(type, R)
                /\ \/ Kind(R) = IF Kind(type) = "none" THEN "&&" ELSE Kind(type)
                   \/ Kind(type) = "&&" /\ Kind(R) = "&" /\ Cv(R) = {"const"}
      BY <2>1, <2>4, ReferenceParts
    <3>2. /\ n \in Names /\ m \in Names /\ Named(R) \in Names
          /\ is_void(type) <=> n = "void"
          /\ is_void(U) <=> m = "void"
          /\ is_void(R) <=> Named(R) = "void"
          /\ Kind(type) \in Kinds /\ Kind(R) \in Kinds
      BY <2>1, <3>1, SimpleMade, SimpleTraits
    <3>3. /\ n = "void" <=> m = "void"
          /\ Named(R) = "void" <=> n = "void"
      <4>1. n = "void" <=> m = "void" BY <3>2 DEF IllFormed
      <4>2. Named(R) = "void" <=> n = "void"
        BY <3>1, <3>2, <4>1 DEF Join, Derives, Ranked, Family, Names
      <4> QED BY <4>1, <4>2
    <3>4. CASE n = "void" BY <3>2, <3>3, <3>4 DEF is_convertible
    <3>5. CASE n # "void" /\ Kind(R) = "none"
      <4>1. ~is_void(type) /\ ~is_void(R) /\ ~is_reference(R) BY <3>1, <3>2, <3>3, <3>5, SimpleTraits
      <4>2. Named(declval(type)) = n /\ Cv(declval(type)) = Cv(type) BY <2>1, DeclvalIs
      <4>3. Named(R) \in Ranked => n \in Ranked
        BY <3>1, <3>2, <3>3, <3>5 DEF Join, Derives, Ranked, Family, Names
      <4>4. Named(R) \notin Ranked => n \in Family /\ Named(R) \in Family /\ Derives(n, Named(R))
        BY <3>1, <3>2, <3>3, <3>5 DEF Join, Derives, Ranked, Family, Names
      <4>5. Copies(declval(type), R) \/ (n \in Family /\ "volatile" \in Cv(type))
        BY <4>2, <4>3, <4>4 DEF Copies
      <4> QED BY <4>1, <4>5 DEF is_convertible
    <3>6. CASE n # "void" /\ Kind(R) # "none"
      <4>1. CASE Kind(R) = IF Kind(type) = "none" THEN "&&" ELSE Kind(type)
        BY <2>1, <3>1, <3>6, <4>1, BoundConverts
      <4>2. CASE Kind(type) = "&&" /\ Kind(R) = "&" /\ Cv(R) = {"const"}
        BY <2>1, <3>1, <3>6, <4>2, RvalueConverts
      <4> QED BY <3>1, <3>6, <4>1, <4>2
    <3> QED BY <3>4, <3>5, <3>6
  <2> QED BY <2>2, <2>3, <2>4
<1> QED BY <1>1, AlwaysType, PTL

\* A common reference is bound to the operands themselves, is as qualified as both, and is
\* an lvalue reference for an lvalue; an rvalue is reached through an lvalue reference only
\* if that is to const.
THEOREM ReferencesBind == CommonSpec => []NothingGained
<1>1. ASSUME Type(type) PROVE NothingGained
  <2> SUFFICES ASSUME Combinable(type), NEW U \in Combined, ~IllFormed(type, U),
                      NEW R \in common_reference(type, U), is_reference(R),
                      NEW T \in {type, U}
               PROVE  /\ Derives(Named(T), Named(R)) /\ Cv(T) \subseteq Cv(R)
                      /\ is_lvalue_reference(T) => is_lvalue_reference(R)
                      /\ is_lvalue_reference(R) => is_lvalue_reference(T) \/ Cv(R) = {"const"}
    BY DEF NothingGained
  <2>1. Simple(type) /\ Simple(U) BY <1>1, CombinedIs DEF Simple
  <2>2. /\ Simple(R)
        /\ Kind(R) # "none" =>
              /\ Below(T, R)
              /\ \/ Kind(R) = IF Kind(T) = "none" THEN "&&" ELSE Kind(T)
                 \/ Kind(T) = "&&" /\ Kind(R) = "&" /\ Cv(R) = {"const"}
    BY <2>1, ReferenceParts
  <2>3. /\ is_lvalue_reference(T) <=> Kind(T) = "&"
        /\ is_lvalue_reference(R) <=> Kind(R) = "&"
        /\ Kind(R) # "none"
    BY <2>1, <2>2, SimpleTraits
  <2> QED BY <2>2, <2>3 DEF Below
<1> QED BY <1>1, AlwaysType, PTL

\* The fold over three types.
LEMMA OfThree ==
  ASSUME NEW T, NEW U, NEW V
  PROVE  common_reference_of(<<T, U, V>>) =
           UNION {common_reference(R, V) : R \in common_reference(T, U)}
<1> DEFINE Ts == <<T, U, V>>
           Rec(g) == [n \in 1..3 |-> IF n = 1 THEN {Ts[1]}
                        ELSE UNION {common_reference(R, Ts[n]) : R \in g[n - 1]}]
           f == CHOOSE g : g = Rec(g)
           two == UNION {common_reference(R, U) : R \in {T}}
           three == UNION {common_reference(R, V) : R \in two}
           h == [n \in 1..3 |-> IF n = 1 THEN {T} ELSE IF n = 2 THEN two ELSE three]
<1>1. Len(Ts) = 3 /\ Ts[1] = T /\ Ts[2] = U /\ Ts[3] = V OBVIOUS
<1>2. common_reference_of(Ts) = f[3] BY <1>1 DEF common_reference_of
<1>3. h = Rec(h)
  <2> HIDE DEF Ts
  <2>1. 1 \in 1..3 /\ 2 \in 1..3 /\ 3 \in 1..3 /\ \A n \in 1..3 : n = 1 \/ n = 2 \/ n = 3
    OBVIOUS
  <2>2. h[1] = {T} /\ h[2] = two /\ h[3] = three OBVIOUS
  <2> HIDE DEF two, three
  <2>3. Rec(h)[1] = {T} BY <1>1, <2>1
  <2>4. Rec(h)[2] = UNION {common_reference(R, U) : R \in h[1]} BY <1>1, <2>1
  <2>5. Rec(h)[3] = UNION {common_reference(R, V) : R \in h[2]} BY <1>1, <2>1
  <2> QED BY <2>1, <2>2, <2>3, <2>4, <2>5 DEF two, three
<1>4. f = Rec(f) BY <1>3
<1> HIDE DEF f, Ts
<1>5. f[1] = {T} BY <1>1, <1>4
<1>6. f[2] = UNION {common_reference(R, U) : R \in f[1]} BY <1>1, <1>4
<1>7. f[3] = UNION {common_reference(R, V) : R \in f[2]} BY <1>1, <1>4
<1>8. UNION {common_reference(R, U) : R \in {T}} = common_reference(T, U) OBVIOUS
<1> QED BY <1>2, <1>5, <1>6, <1>7, <1>8 DEF Ts

\* Names that join are all of arithmetic types or all of classes, and so is what joins them.
LEMMA JoinIs ==
  ASSUME NEW n \in Names \ {"void"}, NEW m \in Names \ {"void"}
  PROVE  /\ Join(n, m) # {} <=> {n, m} \subseteq Ranked \/ {n, m} \subseteq Family
         /\ \A j \in Join(n, m) : /\ j \in Names \ {"void"}
                                  /\ j \in Ranked <=> n \in Ranked
                                  /\ j \in Family <=> n \in Family
BY DEF Join, Derives, Ranked, Family, Names

\* Three types have a common reference if all are arithmetic or all are classes.
LEMMA ThreeExist ==
  ASSUME NEW T, NEW U, NEW V, Simple(T), Simple(U), Simple(V),
         Named(T) # "void", Named(U) # "void", Named(V) # "void"
  PROVE  common_reference_of(<<T, U, V>>) # {} <=>
           \/ {Named(T), Named(U), Named(V)} \subseteq Ranked
           \/ {Named(T), Named(U), Named(V)} \subseteq Family
<1> DEFINE n == Named(T)  m == Named(U)  p == Named(V)  C == common_reference(T, U)
<1>1. n \in Names \ {"void"} /\ m \in Names \ {"void"} /\ p \in Names \ {"void"}
  BY SimpleMade
<1>2. ~IllFormed(T, U)
  <2>1. ~is_void(T) /\ ~is_void(U) BY SimpleTraits
  <2> QED BY <2>1 DEF IllFormed, is_void
<1>3. C # {} <=> {n, m} \subseteq Ranked \/ {n, m} \subseteq Family
  <2>1. C # {} <=> Join(n, m) # {} BY <1>2, ReferenceExists
  <2> HIDE DEF n, m, C
  <2> QED BY <1>1, <2>1, JoinIs
<1>4. ASSUME NEW R \in C
      PROVE  /\ common_reference(R, V) # {} <=> {n, p} \subseteq Ranked \/ {n, p} \subseteq Family
  <2>1. Simple(R) /\ Named(R) \in Join(n, m) BY <1>2, <1>4, ReferenceParts
  <2>2. /\ Named(R) \in Names \ {"void"}
        /\ Named(R) \in Ranked <=> n \in Ranked
        /\ Named(R) \in Family <=> n \in Family
    BY <1>1, <2>1, JoinIs
  <2>3. ~IllFormed(R, V)
    <3>1. ~is_void(R) /\ ~is_void(V) BY <2>1, <2>2, SimpleTraits
    <3> QED BY <3>1 DEF IllFormed, is_void
  <2>4. common_reference(R, V) # {} <=> Join(Named(R), p) # {} BY <2>1, <2>3, ReferenceExists
  <2> HIDE DEF n, p
  <2>5. Join(Named(R), p) # {} <=> {Named(R), p} \subseteq Ranked \/ {Named(R), p} \subseteq Family
    <3> DEFINE r == Named(R)
    <3>1. r \in Names \ {"void"} BY <2>2
    <3> HIDE DEF r
    <3>2. Join(r, p) # {} <=> {r, p} \subseteq Ranked \/ {r, p} \subseteq Family
      BY <1>1, <3>1, JoinIs
    <3> QED BY <3>2 DEF r
  <2> QED BY <2>2, <2>4, <2>5
<1>5. common_reference_of(<<T, U, V>>) = UNION {common_reference(R, V) : R \in C} BY OfThree
<1> HIDE DEF n, m, p, C
<1>6. common_reference_of(<<T, U, V>>) # {} <=>
        C # {} /\ ({n, p} \subseteq Ranked \/ {n, p} \subseteq Family)
  BY <1>4, <1>5
<1>7. n \in Ranked => n \notin Family BY <1>1, DerivesIs
<1> QED BY <1>3, <1>6, <1>7 DEF n, m, p

\* Neither names nor qualifiers of three types depend on the order in which they are joined.
LEMMA UpperOrder ==
  ASSUME NEW n \in Names, NEW m \in Names, NEW p \in Names,
         (n = m /\ m = p) \/ {n, m, p} \subseteq Family
  PROVE  /\ Related(n, m) /\ Related(Upper(n, m), p)
         /\ Upper(Upper(n, m), p) = Upper(Upper(n, p), m)
         /\ Upper(n, m) \in Names /\ Upper(Upper(n, m), p) \in Names
BY DEF Related, Upper, Derives, Family

\* Of two lvalues: a reference, or the common type of two arithmetic types.
LEMMA LvaluesIs ==
  ASSUME NEW T, NEW U, Simple(T), Simple(U), Kind(T) = "&", Kind(U) = "&"
  PROVE  common_reference(T, U) =
           IF Related(Named(T), Named(U))
           THEN {Make(Upper(Named(T), Named(U)), Cv(T) \cup Cv(U), "&")}
           ELSE IF {Named(T), Named(U)} \subseteq Ranked THEN {Make("long", {}, "none")}
           ELSE {}
<1> DEFINE n == Named(T)  m == Named(U)
<1>1. n \in Names \ {"void"} /\ m \in Names \ {"void"} BY SimpleMade
<1>2. common_ref(T, U) =
        IF Related(n, m) THEN {Make(Upper(n, m), Cv(T) \cup Cv(U), "&")} ELSE {}
  BY CommonRefOf
<1>3. CASE Related(n, m) BY <1>2, <1>3 DEF common_reference
<1>4. CASE ~Related(n, m)
  <2>1. /\ Simple(declval(T)) /\ Named(declval(T)) = n /\ Kind(declval(T)) = "&"
        /\ Simple(declval(U)) /\ Named(declval(U)) = m /\ Kind(declval(U)) = "&"
    BY <1>1, DeclvalIs
  <2>2. n # m /\ ~Below(declval(T), declval(U)) /\ ~Below(declval(U), declval(T))
    BY <1>4, <2>1 DEF Below, Related, Derives
  <2>3. cond_res(T, U) = IF {n, m} \subseteq Ranked THEN {Make("long", {}, "none")} ELSE {}
    BY <2>1, <2>2, ConditionalOf DEF cond_res
  <2>4. CASE {n, m} \subseteq Ranked BY <1>2, <1>4, <2>3, <2>4 DEF common_reference
  <2>5. CASE ~({n, m} \subseteq Ranked)
    <3>1. Join(n, m) = {} BY <1>4, <2>5 DEF Join, Related
    <3>2. ~is_void(T) /\ ~is_void(U) BY <1>1, SimpleTraits
    <3>3. ~IllFormed(T, U) BY <3>2 DEF IllFormed, is_void
    <3>4. common_reference(T, U) = {} BY <3>1, <3>3, ReferenceExists
    <3> QED BY <1>4, <2>5, <3>4
  <2> QED BY <2>4, <2>5
<1> QED BY <1>3, <1>4

\* Where a long has been found, it stays.
LEMMA LongStays ==
  ASSUME NEW V, Simple(V), Kind(V) = "&", Named(V) \in Ranked
  PROVE  common_reference(Make("long", {}, "none"), V) = {Make("long", {}, "none")}
<1> DEFINE L == Make("long", {}, "none")
<1>1. "long" \in Names BY NamesAre
<1>2. Simple(L) /\ Named(L) = "long" /\ Kind(L) = "none" BY <1>1, MakeIs DEF Kinds
<1> HIDE DEF L
<1>3. common_ref(L, V) = {} BY <1>2, CommonRefOf
<1>4. Named(V) # "void" BY DEF Ranked
<1>5. /\ Simple(declval(L)) /\ Named(declval(L)) = "long" /\ Kind(declval(L)) = "&&"
      /\ Simple(declval(V)) /\ Named(declval(V)) = Named(V) /\ Kind(declval(V)) = "&"
  BY <1>2, <1>4, DeclvalIs
<1>6. {"long", Named(V)} \subseteq Ranked BY DEF Ranked
<1>7. cond_res(L, V) = {Make(IF "long" = Named(V) THEN "long" ELSE "long", {}, "none")}
  BY <1>5, <1>6, ConditionalOf DEF cond_res
<1>8. cond_res(L, V) = {L} BY <1>7 DEF L
<1> QED BY <1>3, <1>8 DEF common_reference, L

\* Of three lvalues.
LEMMA ThreeLvalues ==
  ASSUME NEW T, NEW U, NEW V, Simple(T), Simple(U), Simple(V),
         Kind(T) = "&", Kind(U) = "&", Kind(V) = "&"
  PROVE  LET n == Named(T)  m == Named(U)  p == Named(V) IN
         common_reference_of(<<T, U, V>>) =
           IF (n = m /\ m = p) \/ {n, m, p} \subseteq Family
           THEN {Make(Upper(Upper(n, m), p), Cv(T) \cup Cv(U) \cup Cv(V), "&")}
           ELSE IF {n, m, p} \subseteq Ranked THEN {Make("long", {}, "none")}
           ELSE {}
<1> DEFINE n == Named(T)  m == Named(U)  p == Named(V)  cv == Cv(T) \cup Cv(U)
           L == Make("long", {}, "none")
<1>1. /\ n \in Names \ {"void"} /\ m \in Names \ {"void"} /\ p \in Names \ {"void"}
      /\ cv \in SUBSET {"const", "volatile"}
  BY SimpleMade
<1>2. common_reference_of(<<T, U, V>>) =
        UNION {common_reference(R, V) : R \in common_reference(T, U)}
  BY OfThree
<1>3. common_reference(T, U) = IF Related(n, m) THEN {Make(Upper(n, m), cv, "&")}
                               ELSE IF {n, m} \subseteq Ranked THEN {L} ELSE {}
  BY LvaluesIs
<1>4. ASSUME Related(n, m)
      PROVE  /\ common_reference_of(<<T, U, V>>) =
                  IF Related(Upper(n, m), p) THEN {Make(Upper(Upper(n, m), p), cv \cup Cv(V), "&")}
                  ELSE IF {Upper(n, m), p} \subseteq Ranked THEN {L} ELSE {}
  <2> DEFINE u == Upper(n, m)  R == Make(u, cv, "&")
  <2>1. u \in Names /\ u # "void" BY <1>1, <1>4, UpperIs
  <2> HIDE DEF u, n, m, p, cv
  <2>2. Simple(R) /\ Named(R) = u /\ Cv(R) = cv /\ Kind(R) = "&"
    BY <1>1, <2>1, MakeIs DEF Kinds
  <2> HIDE DEF R
  <2>3. common_reference(R, V) = IF Related(u, p) THEN {Make(Upper(u, p), cv \cup Cv(V), "&")}
                                 ELSE IF {u, p} \subseteq Ranked THEN {L} ELSE {}
    BY <2>2, LvaluesIs DEF p
  <2>4. common_reference(T, U) = {R} BY <1>3, <1>4 DEF R, u
  <2>5. common_reference_of(<<T, U, V>>) = common_reference(R, V) BY <1>2, <2>4
  <2> QED BY <2>3, <2>5 DEF u
<1>5. CASE (n = m /\ m = p) \/ {n, m, p} \subseteq Family
  BY <1>1, <1>4, <1>5, UpperOrder
<1>6. CASE ~((n = m /\ m = p) \/ {n, m, p} \subseteq Family) /\ {n, m, p} \subseteq Ranked
  <2>1. CASE n = m
    <3>1. Related(n, m) /\ Upper(n, m) = n /\ ~Related(n, p) /\ {n, p} \subseteq Ranked
      BY <1>6, <2>1 DEF Related, Upper, Derives, Ranked
    <3> QED BY <1>4, <1>6, <3>1
  <2>2. CASE n # m
    <3>1. ~Related(n, m) /\ {n, m} \subseteq Ranked BY <1>6, <2>2 DEF Related, Derives, Ranked
    <3>2. common_reference(T, U) = {L} BY <1>3, <3>1
    <3>3. common_reference(L, V) = {L} BY <1>6, LongStays
    <3>4. common_reference_of(<<T, U, V>>) = {L} BY <1>2, <3>2, <3>3
    <3> QED BY <1>6, <3>4
  <2> QED BY <2>1, <2>2
<1>7. CASE ~({n, m, p} \subseteq Family) /\ ~({n, m, p} \subseteq Ranked)
  <2>1. ~(n = m /\ m = p) BY <1>1, <1>7 DEF Names
  <2>2. common_reference_of(<<T, U, V>>) = {} BY <1>1, <1>7, ThreeExist
  <2> QED BY <1>7, <2>1, <2>2
<1> QED BY <1>5, <1>6, <1>7

\* Whether three types have a common reference does not depend on their order, nor, of
\* lvalues, which one it is.
THEOREM AnyOrder == CommonSpec => []OrderIrrelevant
<1>1. ASSUME Type(type) PROVE OrderIrrelevant
  <2> DEFINE one(U, V) == common_reference_of(<<type, U, V>>)
             other(U, V) == common_reference_of(<<type, V, U>>)
  <2> SUFFICES ASSUME Combinable(type), ~is_void(type),
                      NEW U \in Combined, NEW V \in Combined, ~is_void(U), ~is_void(V)
               PROVE  /\ one(U, V) = {} <=> other(U, V) = {}
                      /\ (\A T \in {type, U, V} : is_lvalue_reference(T)) => one(U, V) = other(U, V)
    BY DEF OrderIrrelevant
  <2> DEFINE n == Named(type)  m == Named(U)  p == Named(V)
  <2>1. Simple(type) /\ Simple(U) /\ Simple(V) BY <1>1, CombinedIs DEF Simple
  <2>2. n # "void" /\ m # "void" /\ p # "void" BY <2>1, SimpleTraits
  <2>3. n \in Names /\ m \in Names /\ p \in Names BY <2>1, SimpleMade
  <2>4. {n, m, p} = {n, p, m} OBVIOUS
  <2>5. one(U, V) = {} <=> other(U, V) = {} BY <2>1, <2>2, <2>4, ThreeExist
  <2>6. ASSUME \A T \in {type, U, V} : is_lvalue_reference(T) PROVE one(U, V) = other(U, V)
    <3>1. Kind(type) = "&" /\ Kind(U) = "&" /\ Kind(V) = "&" BY <2>1, <2>6, SimpleTraits
    <3>2. one(U, V) =
            IF (n = m /\ m = p) \/ {n, m, p} \subseteq Family
            THEN {Make(Upper(Upper(n, m), p), Cv(type) \cup Cv(U) \cup Cv(V), "&")}
            ELSE IF {n, m, p} \subseteq Ranked THEN {Make("long", {}, "none")} ELSE {}
      BY <2>1, <3>1, ThreeLvalues
    <3>3. other(U, V) =
            IF (n = p /\ p = m) \/ {n, p, m} \subseteq Family
            THEN {Make(Upper(Upper(n, p), m), Cv(type) \cup Cv(V) \cup Cv(U), "&")}
            ELSE IF {n, p, m} \subseteq Ranked THEN {Make("long", {}, "none")} ELSE {}
      BY <2>1, <3>1, ThreeLvalues
    <3>4. (n = m /\ m = p) \/ {n, m, p} \subseteq Family =>
            Upper(Upper(n, m), p) = Upper(Upper(n, p), m)
      BY <2>3, UpperOrder
    <3>5. Cv(type) \cup Cv(U) \cup Cv(V) = Cv(type) \cup Cv(V) \cup Cv(U) OBVIOUS
    <3> HIDE DEF n, m, p, one, other
    <3> QED BY <2>4, <3>2, <3>3, <3>4, <3>5
  <2> QED BY <2>5, <2>6
<1> QED BY <1>1, AlwaysType, PTL
==============================================================================
