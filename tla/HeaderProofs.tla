---------------------------- MODULE HeaderProofs ----------------------------
(***************************************************************************)
(* What is missing after any sequence of includes, however long: names of  *)
(* the cycle, in the middle of it, and names that no header declares.      *)
(*                                                                         *)
(* Apart from the cycle, headers include only headers of a lower rank.  So *)
(* when a header is read, the headers below it that have been entered are  *)
(* finished: what they declare is declared, and what they include has been *)
(* entered, and is finished too.                                           *)
(***************************************************************************)
EXTENDS Headers, SequenceTheorems, TLAPS

Rank == [file \in Headers |->
  CASE file = "cstddef.hpp" -> 0 [] file = "type_traits.hpp" -> 1 [] file = "utility.hpp" -> 2
    [] file \in {"memory.hpp", "expected.hpp"} -> 3
    [] file \in {"concepts.hpp", "functional.hpp"} -> 4
    [] file = "iterator.hpp" -> 5 [] file = "array.hpp" -> 6]

Names == {"size_t", "ptrdiff_t", "nullptr_t", "traits", "utilities", "addressof", "to_address",
          "numeric_limits", "allocator_traits", "concepts", "totally_ordered_with", "invoke",
          "invocable", "identity", "ranges::less", "iterators", "reverse_iterator", "array",
          "initializer_list", "unexpect_t", "expected"}
Items == [do : {"include"}, file : Headers] \cup [do : {"declare", "use"}, names : SUBSET Names]
Size(file) == Len(Text(file))

\* The item that a file is at, one past the last when it has been read.
At(fr) == Size(fr.file) + 1 - Len(fr.rest)

\* What has been read of a file up to an item has had its effect on the names declared and
\* on the files entered.
Done(file, at, names, files) ==
  \A i \in 1..(at - 1) :
    LET item == Text(file)[i] IN
    /\ item.do = "declare" => item.names \subseteq names
    /\ item.do = "include" => item.file \in files

Stack ==
  /\ open \in Seq([file : Headers, rest : Seq(Items)]) /\ entered \subseteq Headers
  /\ \A k \in 1..Len(open) :
       /\ open[k].file \in entered /\ At(open[k]) \in 1..(Size(open[k].file) + 1)
       /\ open[k].rest = SubSeq(Text(open[k].file), At(open[k]), Size(open[k].file))
  /\ \A j, k \in 1..Len(open) :
       /\ open[j].file = open[k].file => j = k
       /\ j <= k => Rank[open[k].file] <= Rank[open[j].file]

Effects ==
  /\ \A k \in 1..Len(open) : Done(open[k].file, At(open[k]), declared, entered)
  /\ \A file \in entered : \/ \E k \in 1..Len(open) : open[k].file = file
                           \/ Done(file, Size(file) + 1, declared, entered)

\* The two headers of the cycle: the name that each looks for, the name that each
\* declares, and the items where they do.
Cycle  == {"concepts.hpp", "functional.hpp"}
Wanted == [file \in Cycle |->
             IF file = "concepts.hpp" THEN "invoke" ELSE "totally_ordered_with"]
Given  == [file \in Cycle |->
             IF file = "concepts.hpp" THEN "totally_ordered_with" ELSE "invoke"]
WantedAt == [file \in Cycle |-> IF file = "concepts.hpp" THEN 6 ELSE 9]
GivenAt  == [file \in Cycle |-> IF file = "concepts.hpp" THEN 5 ELSE 6]

\* Neither is entered; or x is entered and includes y next; or y is read in the middle of
\* x; or y has been read.
Untouched == \A x \in Cycle : x \notin entered /\ Given[x] \notin declared

Started(x, y) ==
  /\ x \in entered /\ y \notin entered
  /\ \E k \in 1..Len(open) : k = Len(open) /\ open[k].file = x /\ At(open[k]) = 1
  /\ \A z \in Cycle : Given[z] \notin declared

Inside(x, y) ==
  /\ x \in entered /\ y \in entered
  /\ \E j, k \in 1..Len(open) :
       /\ j < k /\ open[j].file = x /\ At(open[j]) = 2
       /\ open[k].file = y
       /\ Given[y] \in declared <=> At(open[k]) > GivenAt[y]
  /\ Given[x] \notin declared

Through(x, y) ==
  /\ x \in entered /\ y \in entered /\ \A k \in 1..Len(open) : open[k].file # y
  /\ Given[y] \in declared

CycleInv ==
  \/ Untouched
  \/ \E x, y \in Cycle : x # y /\ (Started(x, y) \/ Inside(x, y) \/ Through(x, y))

Inv == Stack /\ Effects /\ CycleInv

-----------------------------------------------------------------------------
(* The texts.                                                              *)

\* The items there are.
LEMMA ItemIs ==
  /\ \A file \in Headers : Include(file) \in Items
  /\ \A names \in SUBSET Names : Declare(names) \in Items /\ Use(names) \in Items
BY DEF Include, Declare, Use, Items

\* The text of each header.
LEMMA TextIs ==
  /\ Text("cstddef.hpp") = cstddef_hpp
  /\ Text("type_traits.hpp") = type_traits_hpp
  /\ Text("utility.hpp") = utility_hpp
  /\ Text("memory.hpp") = memory_hpp
  /\ Text("concepts.hpp") = concepts_hpp
  /\ Text("functional.hpp") = functional_hpp
  /\ Text("iterator.hpp") = iterator_hpp
  /\ Text("array.hpp") = array_hpp
  /\ Text("expected.hpp") = expected_hpp
BY DEF Text

\* Item by item.
LEMMA CstddefText ==
  /\ cstddef_hpp \in Seq(Items) /\ Len(cstddef_hpp) = 1
  /\ cstddef_hpp[1] = Declare({"size_t", "ptrdiff_t", "nullptr_t"})
<1>1. cstddef_hpp \in Seq(Items) BY ItemIs DEF cstddef_hpp, Headers, Names
<1> QED BY <1>1 DEF cstddef_hpp

LEMMA TypeTraitsText ==
  /\ type_traits_hpp \in Seq(Items) /\ Len(type_traits_hpp) = 3
  /\ type_traits_hpp[1] = Include("cstddef.hpp")
  /\ type_traits_hpp[2] = Use({"size_t", "nullptr_t"})
  /\ type_traits_hpp[3] = Declare({"traits"})
<1>1. type_traits_hpp \in Seq(Items) BY ItemIs DEF type_traits_hpp, Headers, Names
<1> QED BY <1>1 DEF type_traits_hpp

LEMMA UtilityText ==
  /\ utility_hpp \in Seq(Items) /\ Len(utility_hpp) = 3
  /\ utility_hpp[1] = Include("type_traits.hpp")
  /\ utility_hpp[2] = Use({"traits", "size_t"})
  /\ utility_hpp[3] = Declare({"utilities"})
<1>1. utility_hpp \in Seq(Items) BY ItemIs DEF utility_hpp, Headers, Names
<1> QED BY <1>1 DEF utility_hpp

LEMMA MemoryText ==
  /\ memory_hpp \in Seq(Items) /\ Len(memory_hpp) = 8
  /\ memory_hpp[1] = Include("cstddef.hpp")
  /\ memory_hpp[2] = Include("type_traits.hpp")
  /\ memory_hpp[3] = Include("utility.hpp")
  /\ memory_hpp[4] = Declare({"addressof"})
  /\ memory_hpp[5] = Use({"traits", "utilities", "size_t", "ptrdiff_t"})
  /\ memory_hpp[6] = Declare({"to_address"})
  /\ memory_hpp[7] = Use({"numeric_limits"})
  /\ memory_hpp[8] = Declare({"allocator_traits"})
<1>1. memory_hpp \in Seq(Items) BY ItemIs DEF memory_hpp, Headers, Names
<1> QED BY <1>1 DEF memory_hpp

LEMMA ConceptsText ==
  /\ concepts_hpp \in Seq(Items) /\ Len(concepts_hpp) = 7
  /\ concepts_hpp[1] = Include("functional.hpp")
  /\ concepts_hpp[2] = Include("type_traits.hpp")
  /\ concepts_hpp[3] = Include("utility.hpp")
  /\ concepts_hpp[4] = Use({"traits", "utilities", "size_t"})
  /\ concepts_hpp[5] = Declare({"concepts", "totally_ordered_with"})
  /\ concepts_hpp[6] = Use({"invoke"})
  /\ concepts_hpp[7] = Declare({"invocable"})
<1>1. concepts_hpp \in Seq(Items) BY ItemIs DEF concepts_hpp, Headers, Names
<1> QED BY <1>1 DEF concepts_hpp

LEMMA FunctionalText ==
  /\ functional_hpp \in Seq(Items) /\ Len(functional_hpp) = 10
  /\ functional_hpp[1] = Include("concepts.hpp")
  /\ functional_hpp[2] = Include("memory.hpp")
  /\ functional_hpp[3] = Include("type_traits.hpp")
  /\ functional_hpp[4] = Include("utility.hpp")
  /\ functional_hpp[5] = Use({"traits", "utilities"})
  /\ functional_hpp[6] = Declare({"invoke"})
  /\ functional_hpp[7] = Use({"addressof"})
  /\ functional_hpp[8] = Declare({"identity"})
  /\ functional_hpp[9] = Use({"totally_ordered_with"})
  /\ functional_hpp[10] = Declare({"ranges::less"})
<1>1. functional_hpp \in Seq(Items) BY ItemIs DEF functional_hpp, Headers, Names
<1> QED BY <1>1 DEF functional_hpp

LEMMA IteratorText ==
  /\ iterator_hpp \in Seq(Items) /\ Len(iterator_hpp) = 7
  /\ iterator_hpp[1] = Include("concepts.hpp")
  /\ iterator_hpp[2] = Include("cstddef.hpp")
  /\ iterator_hpp[3] = Include("type_traits.hpp")
  /\ iterator_hpp[4] = Use({"traits", "utilities", "concepts", "ptrdiff_t"})
  /\ iterator_hpp[5] = Declare({"iterators"})
  /\ iterator_hpp[6] = Use({"to_address", "invocable", "identity", "ranges::less"})
  /\ iterator_hpp[7] = Declare({"reverse_iterator"})
<1>1. iterator_hpp \in Seq(Items) BY ItemIs DEF iterator_hpp, Headers, Names
<1> QED BY <1>1 DEF iterator_hpp

LEMMA ArrayText ==
  /\ array_hpp \in Seq(Items) /\ Len(array_hpp) = 6
  /\ array_hpp[1] = Include("cstddef.hpp")
  /\ array_hpp[2] = Include("iterator.hpp")
  /\ array_hpp[3] = Include("type_traits.hpp")
  /\ array_hpp[4] = Include("utility.hpp")
  /\ array_hpp[5] = Use({"traits", "utilities", "size_t", "ptrdiff_t", "reverse_iterator"})
  /\ array_hpp[6] = Declare({"array"})
<1>1. array_hpp \in Seq(Items) BY ItemIs DEF array_hpp, Headers, Names
<1> QED BY <1>1 DEF array_hpp

LEMMA ExpectedText ==
  /\ expected_hpp \in Seq(Items) /\ Len(expected_hpp) = 3
  /\ expected_hpp[1] = Include("utility.hpp")
  /\ expected_hpp[2] = Use({"traits", "utilities", "initializer_list", "unexpect_t"})
  /\ expected_hpp[3] = Declare({"expected"})
<1>1. expected_hpp \in Seq(Items) BY ItemIs DEF expected_hpp, Headers, Names
<1> QED BY <1>1 DEF expected_hpp

\* The ranks.
LEMMA RankIs ==
  /\ \A file \in Headers : Rank[file] \in 0..6
  /\ Rank["cstddef.hpp"] = 0 /\ Rank["type_traits.hpp"] = 1 /\ Rank["utility.hpp"] = 2
  /\ Rank["memory.hpp"] = 3 /\ Rank["expected.hpp"] = 3 /\ Rank["concepts.hpp"] = 4
  /\ Rank["functional.hpp"] = 4 /\ Rank["iterator.hpp"] = 5 /\ Rank["array.hpp"] = 6
BY DEF Rank, Headers

\* The names of the cycle.
LEMMA CycleIs ==
  /\ Cycle \subseteq Headers
  /\ Wanted["concepts.hpp"] = "invoke" /\ Given["concepts.hpp"] = "totally_ordered_with"
  /\ Wanted["functional.hpp"] = "totally_ordered_with" /\ Given["functional.hpp"] = "invoke"
  /\ WantedAt["concepts.hpp"] = 6 /\ GivenAt["concepts.hpp"] = 5
  /\ WantedAt["functional.hpp"] = 9 /\ GivenAt["functional.hpp"] = 6
BY DEF Cycle, Headers, Wanted, Given, WantedAt, GivenAt

\* What the items of a file do: include files of a lower rank, apart from the cycle, and
\* declare and use the names of the cycle just where they are said to.
Includes(file, T) ==
  \A i \in 1..Len(T) : T[i].do = "include" =>
    /\ T[i].file \in Headers
    /\ Rank[T[i].file] < Rank[file] \/ (file \in Cycle /\ T[i].file \in Cycle)
    /\ file \in Cycle => i # WantedAt[file] /\ i # GivenAt[file]

Declares(file, T) ==
  \A i \in 1..Len(T) : T[i].do = "declare" =>
    /\ \A x \in Cycle : Given[x] \in T[i].names <=> file = x /\ i = GivenAt[x]
    /\ file \in Cycle => i # WantedAt[file]
    /\ T[i].names \cap {"numeric_limits", "initializer_list", "unexpect_t"} = {}

Uses(file, T) ==
  \A i \in 1..Len(T) : T[i].do = "use" =>
    /\ \A x \in Cycle : Wanted[x] \in T[i].names <=> file = x /\ i = WantedAt[x]
    /\ file \in Cycle => i # GivenAt[file]

Regular(file) ==
  LET T == Text(file) IN
  T \in Seq(Items) /\ Includes(file, T) /\ Declares(file, T) /\ Uses(file, T)

\* Every header is regular.
LEMMA AllRegular == ASSUME NEW file \in Headers PROVE Regular(file)
<1>1. CASE file = "cstddef.hpp"
  <2> DEFINE T == cstddef_hpp
  <2>1. Len(T) = 1 /\ \A i \in 1..1 : i = 1
    BY CstddefText
  <2>2. Includes(file, T)
    BY <1>1, <2>1, CstddefText, RankIs, CycleIs DEF Includes, Include, Declare, Use, Headers, Cycle
  <2>3. Declares(file, T)
    BY <1>1, <2>1, CstddefText, CycleIs DEF Declares, Include, Declare, Use, Cycle
  <2>4. Uses(file, T)
    BY <1>1, <2>1, CstddefText, CycleIs DEF Uses, Include, Declare, Use, Cycle
  <2> QED BY <1>1, <2>2, <2>3, <2>4, CstddefText, TextIs DEF Regular
<1>2. CASE file = "type_traits.hpp"
  <2> DEFINE T == type_traits_hpp
  <2>1. Len(T) = 3 /\ \A i \in 1..3 : i = 1 \/ i = 2 \/ i = 3
    BY TypeTraitsText
  <2>2. Includes(file, T)
    BY <1>2, <2>1, TypeTraitsText, RankIs, CycleIs DEF Includes, Include, Declare, Use, Headers, Cycle
  <2>3. Declares(file, T)
    BY <1>2, <2>1, TypeTraitsText, CycleIs DEF Declares, Include, Declare, Use, Cycle
  <2>4. Uses(file, T)
    BY <1>2, <2>1, TypeTraitsText, CycleIs DEF Uses, Include, Declare, Use, Cycle
  <2> QED BY <1>2, <2>2, <2>3, <2>4, TypeTraitsText, TextIs DEF Regular
<1>3. CASE file = "utility.hpp"
  <2> DEFINE T == utility_hpp
  <2>1. Len(T) = 3 /\ \A i \in 1..3 : i = 1 \/ i = 2 \/ i = 3
    BY UtilityText
  <2>2. Includes(file, T)
    BY <1>3, <2>1, UtilityText, RankIs, CycleIs DEF Includes, Include, Declare, Use, Headers, Cycle
  <2>3. Declares(file, T)
    BY <1>3, <2>1, UtilityText, CycleIs DEF Declares, Include, Declare, Use, Cycle
  <2>4. Uses(file, T)
    BY <1>3, <2>1, UtilityText, CycleIs DEF Uses, Include, Declare, Use, Cycle
  <2> QED BY <1>3, <2>2, <2>3, <2>4, UtilityText, TextIs DEF Regular
<1>4. CASE file = "memory.hpp"
  <2> DEFINE T == memory_hpp
  <2>1. Len(T) = 8 /\ \A i \in 1..8 : i = 1 \/ i = 2 \/ i = 3 \/ i = 4
                                      \/ i = 5 \/ i = 6 \/ i = 7 \/ i = 8
    BY MemoryText
  <2>2. Includes(file, T)
    BY <1>4, <2>1, MemoryText, RankIs, CycleIs DEF Includes, Include, Declare, Use, Headers, Cycle
  <2>3. Declares(file, T)
    BY <1>4, <2>1, MemoryText, CycleIs DEF Declares, Include, Declare, Use, Cycle
  <2>4. Uses(file, T)
    <3>1. \A i \in 1..8 : T[i].do = "use" => i = 5 \/ i = 7
      BY <2>1, MemoryText DEF Include, Declare
    <3>2. /\ T[5].names = {"traits", "utilities", "size_t", "ptrdiff_t"}
          /\ T[7].names = {"numeric_limits"}
      BY MemoryText DEF Use
    <3> QED BY <1>4, <2>1, <3>1, <3>2, CycleIs DEF Uses, Cycle
  <2> QED BY <1>4, <2>2, <2>3, <2>4, MemoryText, TextIs DEF Regular
<1>5. CASE file = "concepts.hpp"
  <2> DEFINE T == concepts_hpp
  <2>1. Len(T) = 7 /\ \A i \in 1..7 : i = 1 \/ i = 2 \/ i = 3
                                      \/ i = 4 \/ i = 5 \/ i = 6 \/ i = 7
    BY ConceptsText
  <2>2. Includes(file, T)
    BY <1>5, <2>1, ConceptsText, RankIs, CycleIs DEF Includes, Include, Declare, Use, Headers, Cycle
  <2>3. Declares(file, T)
    BY <1>5, <2>1, ConceptsText, CycleIs DEF Declares, Include, Declare, Use, Cycle
  <2>4. Uses(file, T)
    <3>1. \A i \in 1..7 : T[i].do = "use" => i = 4 \/ i = 6
      BY <2>1, ConceptsText DEF Include, Declare
    <3>2. T[4].names = {"traits", "utilities", "size_t"} /\ T[6].names = {"invoke"}
      BY ConceptsText DEF Use
    <3> QED BY <1>5, <2>1, <3>1, <3>2, CycleIs DEF Uses, Cycle
  <2> QED BY <1>5, <2>2, <2>3, <2>4, ConceptsText, TextIs DEF Regular
<1>6. CASE file = "functional.hpp"
  <2> DEFINE T == functional_hpp
  <2>1. Len(T) = 10 /\ \A i \in 1..10 : i = 1 \/ i = 2 \/ i = 3 \/ i = 4 \/ i = 5
                                      \/ i = 6 \/ i = 7 \/ i = 8 \/ i = 9 \/ i = 10
    BY FunctionalText
  <2>2. Includes(file, T)
    BY <1>6, <2>1, FunctionalText, RankIs, CycleIs DEF Includes, Include, Declare, Use, Headers, Cycle
  <2>3. Declares(file, T)
    BY <1>6, <2>1, FunctionalText, CycleIs DEF Declares, Include, Declare, Use, Cycle
  <2>4. Uses(file, T)
    <3>1. \A i \in 1..10 : T[i].do = "use" => i = 5 \/ i = 7 \/ i = 9
      BY <2>1, FunctionalText DEF Include, Declare
    <3>2. /\ T[5].names = {"traits", "utilities"}
          /\ T[7].names = {"addressof"}
          /\ T[9].names = {"totally_ordered_with"}
      BY FunctionalText DEF Use
    <3> QED BY <1>6, <2>1, <3>1, <3>2, CycleIs DEF Uses, Cycle
  <2> QED BY <1>6, <2>2, <2>3, <2>4, FunctionalText, TextIs DEF Regular
<1>7. CASE file = "iterator.hpp"
  <2> DEFINE T == iterator_hpp
  <2>1. Len(T) = 7 /\ \A i \in 1..7 : i = 1 \/ i = 2 \/ i = 3
                                      \/ i = 4 \/ i = 5 \/ i = 6 \/ i = 7
    BY IteratorText
  <2>2. Includes(file, T)
    BY <1>7, <2>1, IteratorText, RankIs, CycleIs DEF Includes, Include, Declare, Use, Headers, Cycle
  <2>3. Declares(file, T)
    BY <1>7, <2>1, IteratorText, CycleIs DEF Declares, Include, Declare, Use, Cycle
  <2>4. Uses(file, T)
    <3>1. \A i \in 1..7 : T[i].do = "use" => i = 4 \/ i = 6
      BY <2>1, IteratorText DEF Include, Declare
    <3>2. /\ T[4].names = {"traits", "utilities", "concepts", "ptrdiff_t"}
          /\ T[6].names = {"to_address", "invocable", "identity", "ranges::less"}
      BY IteratorText DEF Use
    <3> QED BY <1>7, <2>1, <3>1, <3>2, CycleIs DEF Uses, Cycle
  <2> QED BY <1>7, <2>2, <2>3, <2>4, IteratorText, TextIs DEF Regular
<1>8. CASE file = "array.hpp"
  <2> DEFINE T == array_hpp
  <2>1. Len(T) = 6 /\ \A i \in 1..6 : i = 1 \/ i = 2 \/ i = 3 \/ i = 4 \/ i = 5 \/ i = 6
    BY ArrayText
  <2>2. Includes(file, T)
    BY <1>8, <2>1, ArrayText, RankIs, CycleIs DEF Includes, Include, Declare, Use, Headers, Cycle
  <2>3. Declares(file, T)
    BY <1>8, <2>1, ArrayText, CycleIs DEF Declares, Include, Declare, Use, Cycle
  <2>4. Uses(file, T)
    <3>1. \A i \in 1..6 : T[i].do = "use" => i = 5
      BY <2>1, ArrayText DEF Include, Declare
    <3>2. T[5].names = {"traits", "utilities", "size_t", "ptrdiff_t", "reverse_iterator"}
      BY ArrayText DEF Use
    <3> QED BY <1>8, <2>1, <3>1, <3>2, CycleIs DEF Uses, Cycle
  <2> QED BY <1>8, <2>2, <2>3, <2>4, ArrayText, TextIs DEF Regular
<1>9. CASE file = "expected.hpp"
  <2> DEFINE T == expected_hpp
  <2>1. Len(T) = 3 /\ \A i \in 1..3 : i = 1 \/ i = 2 \/ i = 3
    BY ExpectedText
  <2>2. Includes(file, T)
    BY <1>9, <2>1, ExpectedText, RankIs, CycleIs DEF Includes, Include, Declare, Use, Headers, Cycle
  <2>3. Declares(file, T)
    BY <1>9, <2>1, ExpectedText, CycleIs DEF Declares, Include, Declare, Use, Cycle
  <2>4. Uses(file, T)
    BY <1>9, <2>1, ExpectedText, CycleIs DEF Uses, Include, Declare, Use, Cycle
  <2> QED BY <1>9, <2>2, <2>3, <2>4, ExpectedText, TextIs DEF Regular
<1> QED BY <1>1, <1>2, <1>3, <1>4, <1>5, <1>6, <1>7, <1>8, <1>9 DEF Headers

-----------------------------------------------------------------------------
(* The stack of open files.                                                *)

Frames == [file : Headers, rest : Seq(Items)]
Stepped(k) == At(open[k]) + IF k = Len(open) THEN 1 ELSE 0

\* Reading the first item of what is left of a sequence.
LEMMA TailIs ==
  ASSUME NEW S, NEW T \in Seq(S), NEW p \in 1..Len(T)
  PROVE  LET R == SubSeq(T, p, Len(T)) IN
         Head(R) = T[p] /\ Tail(R) = SubSeq(T, p + 1, Len(T)) /\ Tail(R) \in Seq(S)
         /\ Len(Tail(R)) = Len(T) - p
<1> DEFINE R == SubSeq(T, p, Len(T))  Q == SubSeq(T, p + 1, Len(T))
<1>1. Len(T) \in Nat /\ \A i \in 1..Len(T) : T[i] \in S OBVIOUS
<1>2. /\ R \in Seq(S) /\ Len(R) = Len(T) - p + 1
      /\ \A i \in 1..(Len(T) - p + 1) : R[i] = T[p + i - 1]
  <2>1. \A i \in p..Len(T) : T[i] \in S BY <1>1
  <2> QED BY <1>1, <2>1, SubSeqProperties
<1>3. /\ Q \in Seq(S) /\ Len(Q) = Len(T) - p
      /\ \A i \in 1..(Len(T) - p) : Q[i] = T[p + 1 + i - 1]
  <2>1. \A i \in (p + 1)..Len(T) : T[i] \in S BY <1>1
  <2>2. Len(T) - (p + 1) + 1 = Len(T) - p BY <1>1
  <2>3. p + 1 \in Int /\ Len(T) \in Int BY <1>1
  <2>4. /\ Q \in Seq(S)
        /\ Len(Q) = (IF p + 1 <= Len(T) THEN Len(T) - (p + 1) + 1 ELSE 0)
        /\ \A i \in 1..(Len(T) - (p + 1) + 1) : Q[i] = T[p + 1 + i - 1]
    BY <2>1, <2>3, SubSeqProperties
  <2> HIDE DEF Q
  <2>5. Len(Q) = Len(T) - p BY <1>1, <2>4
  <2> QED BY <2>2, <2>4, <2>5
<1> HIDE DEF R, Q
<1>4. R # << >> BY <1>1, <1>2
<1>5. /\ Head(R) = R[1] /\ Tail(R) \in Seq(S) /\ Len(Tail(R)) = Len(R) - 1
      /\ \A i \in 1..Len(Tail(R)) : Tail(R)[i] = R[i + 1]
  BY <1>2, <1>4, HeadTailProperties
<1>6. Tail(R) = Q
  <2>1. Len(Tail(R)) = Len(Q)
    <3>1. Len(Tail(R)) = (Len(T) - p + 1) - 1 BY <1>2, <1>5
    <3> QED BY <1>1, <1>3, <3>1
  <2>2. ASSUME NEW i \in 1..Len(Q) PROVE Tail(R)[i] = Q[i]
    <3>1. i + 1 \in 1..(Len(T) - p + 1) /\ p + (i + 1) - 1 = p + 1 + i - 1 BY <1>1, <1>3
    <3>2. Tail(R)[i] = R[i + 1] BY <1>5, <2>1
    <3>3. R[i + 1] = T[p + 1 + i - 1] BY <1>2, <3>1
    <3>4. Q[i] = T[p + 1 + i - 1] BY <1>3
    <3> QED BY <3>2, <3>3, <3>4
  <2> QED BY <1>3, <1>5, <2>1, <2>2, SeqEqual
<1>7. 1 \in 1..(Len(T) - p + 1) /\ p + 1 - 1 = p BY <1>1
<1> QED BY <1>2, <1>3, <1>5, <1>6, <1>7 DEF R, Q

\* A text and its length.
LEMMA SizeIs ==
  ASSUME NEW file \in Headers
  PROVE  Text(file) \in Seq(Items) /\ Size(file) \in Nat /\ Size(file) = Len(Text(file))
BY AllRegular DEF Regular, Size

\* What is known of an open file.
LEMMA OpenIs ==
  ASSUME Stack, NEW k \in 1..Len(open)
  PROVE  /\ Len(open) \in Nat /\ open \in Seq(Frames)
         /\ open[k] = [file |-> open[k].file, rest |-> open[k].rest]
         /\ open[k].file \in Headers /\ open[k].rest \in Seq(Items)
         /\ open[k].file \in entered /\ At(open[k]) \in 1..(Size(open[k].file) + 1)
         /\ open[k].rest = SubSeq(Text(open[k].file), At(open[k]), Size(open[k].file))
         /\ Size(open[k].file) \in Nat
<1>1. open \in Seq(Frames) /\ Len(open) \in Nat BY DEF Stack, Frames
<1>2. open[k] \in Frames BY <1>1
<1>3. open[k].file \in Headers BY <1>2 DEF Frames
<1> QED BY <1>1, <1>2, <1>3, SizeIs DEF Stack, Frames

\* The item that is read, and the stack without it.
LEMMA ReadIs ==
  ASSUME Stack, Reading
  PROVE  LET n == Len(open)  f == open[n].file  p == At(open[n]) IN
         /\ n \in 1..Len(open) /\ Last(open).file = f
         /\ p \in 1..Size(f) /\ NextItem = Text(f)[p] /\ NextItem \in Items
         /\ Advanced \in Seq(Frames) /\ Len(Advanced) = n
         /\ \A k \in 1..n :
              /\ Advanced[k].file = open[k].file /\ At(Advanced[k]) = Stepped(k)
              /\ At(Advanced[k]) \in 1..(Size(open[k].file) + 1)
              /\ Advanced[k].rest =
                   SubSeq(Text(open[k].file), At(Advanced[k]), Size(open[k].file))
<1> DEFINE n == Len(open)  fr == open[n]  f == fr.file  p == At(fr)  T == Text(f)
           nf == [fr EXCEPT !.rest = Tail(@)]
<1>1. n \in Nat /\ n \in 1..n /\ open \in Seq(Frames) /\ Last(open) = fr
  BY DEF Stack, Reading, Frames, Last
<1>2. /\ fr = [file |-> f, rest |-> fr.rest] /\ f \in Headers /\ fr.rest \in Seq(Items)
      /\ p \in 1..(Size(f) + 1) /\ fr.rest = SubSeq(T, p, Size(f))
      /\ Size(f) \in Nat
  BY <1>1, OpenIs
<1>3. T \in Seq(Items) /\ Size(f) = Len(T) BY <1>2, SizeIs
<1>4. p \in 1..Size(f)
  <2>1. Len(fr.rest) \in Nat /\ Len(fr.rest) # 0 BY <1>1, <1>2 DEF Reading
  <2>2. p = Size(f) + 1 - Len(fr.rest) BY DEF At
  <2>3. Size(f) \in Nat /\ p \in 1..(Size(f) + 1) BY <1>2
  <2> HIDE DEF p, f, fr
  <2>4. p \in Int /\ p >= 1 BY <2>3
  <2>5. p <= Size(f) BY <2>1, <2>2, <2>3
  <2> QED BY <2>3, <2>4, <2>5
<1>5. /\ Head(fr.rest) = T[p] /\ Tail(fr.rest) = SubSeq(T, p + 1, Size(f))
      /\ Tail(fr.rest) \in Seq(Items) /\ Len(Tail(fr.rest)) = Size(f) - p
  <2>1. p \in 1..Len(T) BY <1>3, <1>4
  <2>2. LET R == SubSeq(T, p, Len(T)) IN
        Head(R) = T[p] /\ Tail(R) = SubSeq(T, p + 1, Len(T)) /\ Tail(R) \in Seq(Items)
        /\ Len(Tail(R)) = Len(T) - p
    BY <1>3, <2>1, TailIs
  <2>3. SubSeq(T, p, Len(T)) = fr.rest BY <1>2, <1>3
  <2> QED BY <1>3, <2>2, <2>3
<1>6. NextItem = T[p] /\ T[p] \in Items BY <1>1, <1>3, <1>4, <1>5 DEF NextItem
<1>7. nf \in Frames /\ nf.file = f /\ nf.rest = Tail(fr.rest)
  <2>1. \A x, y, z : [[file |-> x, rest |-> y] EXCEPT !.rest = z] = [file |-> x, rest |-> z]
    OBVIOUS
  <2>2. nf = [[file |-> f, rest |-> fr.rest] EXCEPT !.rest = Tail(fr.rest)] BY <1>2
  <2>3. nf = [file |-> f, rest |-> Tail(fr.rest)] BY <2>1, <2>2
  <2> QED BY <1>2, <1>5, <2>3 DEF Frames
<1>8. At(nf) = p + 1 /\ nf.rest = SubSeq(T, p + 1, Size(f))
  <2>1. At(nf) = Size(f) + 1 - (Size(f) - p) BY <1>5, <1>7 DEF At
  <2> HIDE DEF p, f, nf
  <2> QED BY <1>2, <1>4, <1>5, <1>7, <2>1
<1>9. Advanced = [open EXCEPT ![n] = nf] BY DEF Advanced
<1> HIDE DEF nf
<1>10. /\ Advanced \in Seq(Frames) /\ Len(Advanced) = n
       /\ \A k \in 1..n : Advanced[k] = IF k = n THEN nf ELSE open[k]
  BY <1>1, <1>7, <1>9, ExceptSeq
<1>11. ASSUME NEW k \in 1..n
       PROVE  /\ Advanced[k].file = open[k].file /\ At(Advanced[k]) = Stepped(k)
              /\ At(Advanced[k]) \in 1..(Size(open[k].file) + 1)
              /\ Advanced[k].rest =
                   SubSeq(Text(open[k].file), At(Advanced[k]), Size(open[k].file))
  <2>1. CASE k = n
    <3>1. Advanced[k] = nf /\ Stepped(k) = p + 1 BY <1>10, <2>1 DEF Stepped
    <3>2. p + 1 \in 1..(Size(f) + 1) BY <1>2, <1>4
    <3> QED BY <1>7, <1>8, <2>1, <3>1, <3>2
  <2>2. CASE k # n
    <3>1. Advanced[k] = open[k] BY <1>10, <2>2
    <3>2. At(open[k]) \in Int
      <4>1. At(open[k]) \in 1..(Size(open[k].file) + 1) BY OpenIs
      <4> QED BY <4>1
    <3>3. Stepped(k) = At(open[k]) BY <2>2, <3>2 DEF Stepped
    <3> QED BY <3>1, <3>3, OpenIs
  <2> QED BY <2>1, <2>2
<1> QED BY <1>1, <1>4, <1>6, <1>10, <1>11


\* The files that stay open, those above the innermost where they were.
Kept == \A k \in 1..Len(open) :
          /\ open'[k].file = open[k].file /\ At(open'[k]) = Stepped(k)
          /\ At(open'[k]) \in 1..(Size(open[k].file) + 1)
          /\ open'[k].rest = SubSeq(Text(open[k].file), At(open'[k]), Size(open[k].file))

\* An item is read and no file is opened.
LEMMA SkipStack ==
  ASSUME Stack, Reading, open' = Advanced, entered' = entered
  PROVE  Stack' /\ Len(open') = Len(open) /\ Kept
<1>1. open' \in Seq(Frames) /\ Len(open') = Len(open) /\ Kept BY ReadIs DEF Kept
<1>2. \A k \in 1..Len(open) : open'[k].file \in entered'
  BY <1>1, OpenIs DEF Kept
<1>3. ASSUME NEW j \in 1..Len(open), NEW k \in 1..Len(open)
      PROVE  /\ open'[j].file = open'[k].file => j = k
             /\ j <= k => Rank[open'[k].file] <= Rank[open'[j].file]
  <2>1. open'[j].file = open[j].file /\ open'[k].file = open[k].file BY <1>1 DEF Kept
  <2> QED BY <2>1 DEF Stack
<1>4. open' \in Seq([file : Headers, rest : Seq(Items)]) /\ entered' \subseteq Headers
  BY <1>1 DEF Stack, Frames
<1>5. \A k \in 1..Len(open') :
        /\ open'[k].file \in entered' /\ At(open'[k]) \in 1..(Size(open'[k].file) + 1)
        /\ open'[k].rest = SubSeq(Text(open'[k].file), At(open'[k]), Size(open'[k].file))
  BY <1>1, <1>2 DEF Kept
<1>6. Stack'
  BY <1>1, <1>3, <1>4, <1>5 DEF Stack, At, Size
<1> QED BY <1>1, <1>6

\* A text that is opened.
LEMMA FreshIs ==
  ASSUME NEW g \in Headers
  PROVE  LET fr == [file |-> g, rest |-> Text(g)] IN
         /\ fr \in Frames /\ At(fr) = 1 /\ 1 \in 1..(Size(g) + 1)
         /\ fr.rest = SubSeq(Text(g), 1, Size(g))
<1> DEFINE T == Text(g)  S == SubSeq(T, 1, Len(T))
<1>1. T \in Seq(Items) /\ Size(g) = Len(T) /\ Len(T) \in Nat BY SizeIs
<1>2. At([file |-> g, rest |-> T]) = 1 BY <1>1 DEF At
<1>3. \A i \in 1..Len(T) : T[i] \in Items BY <1>1
<1>4. S \in Seq(Items) /\ Len(S) = Len(T) /\ \A i \in 1..Len(T) : S[i] = T[i]
  <2>1. /\ S \in Seq(Items)
        /\ Len(S) = (IF 1 <= Len(T) THEN Len(T) - 1 + 1 ELSE 0)
        /\ \A i \in 1..(Len(T) - 1 + 1) : S[i] = T[1 + i - 1]
    BY <1>1, <1>3, SubSeqProperties
  <2> HIDE DEF S, T
  <2>2. Len(S) = Len(T) /\ Len(T) - 1 + 1 = Len(T) BY <1>1, <2>1
  <2>3. \A i \in 1..Len(T) : 1 + i - 1 = i BY <1>1
  <2> QED BY <2>1, <2>2, <2>3
<1>5. S = T
  <2> HIDE DEF S, T
  <2> QED BY <1>1, <1>4, SeqEqual
<1> QED BY <1>1, <1>2, <1>5 DEF Frames

\* A file is opened by the innermost.
LEMMA PushStack ==
  ASSUME Stack, Reading, NEW g \in Headers, g \notin entered,
         Rank[g] <= Rank[Last(open).file],
         open' = Append(Advanced, [file |-> g, rest |-> Text(g)]),
         entered' = entered \cup {g}
  PROVE  /\ Stack' /\ Len(open') = Len(open) + 1 /\ Kept
         /\ open'[Len(open) + 1].file = g /\ At(open'[Len(open) + 1]) = 1
<1> DEFINE n == Len(open)  fr == [file |-> g, rest |-> Text(g)]
<1>1. n \in Nat /\ n \in 1..n /\ Last(open) = open[n]
  BY DEF Stack, Reading, Last
<1>2. /\ fr \in Frames /\ At(fr) = 1 /\ fr.rest = SubSeq(Text(g), 1, Size(g))
      /\ 1 \in 1..(Size(g) + 1) /\ fr.file = g
  BY FreshIs
<1> HIDE DEF fr
<1>3. Advanced \in Seq(Frames) /\ Len(Advanced) = n BY ReadIs
<1>4. /\ open' \in Seq(Frames) /\ Len(open') = n + 1 /\ open'[n + 1] = fr
      /\ \A k \in 1..n : open'[k] = Advanced[k]
  <2>1. open' = Append(Advanced, fr) BY DEF fr
  <2> QED BY <1>1, <1>2, <1>3, <2>1, AppendProperties
<1>5. Kept
  <2>1. \A k \in 1..n :
          /\ Advanced[k].file = open[k].file /\ At(Advanced[k]) = Stepped(k)
          /\ At(Advanced[k]) \in 1..(Size(open[k].file) + 1)
          /\ Advanced[k].rest =
               SubSeq(Text(open[k].file), At(Advanced[k]), Size(open[k].file))
    BY ReadIs
  <2> QED BY <1>4, <2>1 DEF Kept
<1>6. open' \in Seq([file : Headers, rest : Seq(Items)]) /\ entered' \subseteq Headers
  BY <1>4 DEF Stack, Frames
<1>7. ASSUME NEW k \in 1..Len(open')
      PROVE  /\ open'[k].file \in entered' /\ At(open'[k]) \in 1..(Size(open'[k].file) + 1)
             /\ open'[k].rest = SubSeq(Text(open'[k].file), At(open'[k]), Size(open'[k].file))
  <2>1. k \in 1..n \/ k = n + 1 BY <1>1, <1>4
  <2>2. CASE k = n + 1 BY <1>2, <1>4, <2>2
  <2>3. CASE k \in 1..n
    <3>1. open[k].file \in entered BY <2>3 DEF Stack
    <3> QED BY <1>5, <2>3, <3>1 DEF Kept
  <2> QED BY <2>1, <2>2, <2>3
<1>8. ASSUME NEW j \in 1..Len(open'), NEW k \in 1..Len(open')
      PROVE  /\ open'[j].file = open'[k].file => j = k
             /\ j <= k => Rank[open'[k].file] <= Rank[open'[j].file]
  <2>1. \A i \in 1..n : /\ open'[i].file = open[i].file /\ open[i].file \in entered
                        /\ open[i].file \in Headers
    BY <1>5, OpenIs DEF Kept
  <2>2. ASSUME NEW i \in 1..n PROVE Rank[g] <= Rank[open[i].file]
    <3>1. i <= n /\ open[i].file \in Headers /\ open[n].file \in Headers BY <1>1, <2>1
    <3>2. Rank[open[n].file] <= Rank[open[i].file] BY <1>1, <3>1 DEF Stack
    <3>3. Rank[open[n].file] \in 0..6 /\ Rank[open[i].file] \in 0..6 /\ Rank[g] \in 0..6
      BY <3>1, RankIs
    <3> QED BY <1>1, <3>2, <3>3
  <2>3. (j \in 1..n \/ j = n + 1) /\ (k \in 1..n \/ k = n + 1) BY <1>1, <1>4
  <2>4. CASE j \in 1..n /\ k \in 1..n BY <2>1, <2>4 DEF Stack
  <2>5. CASE j \in 1..n /\ k = n + 1
    <3>1. open'[k].file = g /\ open'[j].file = open[j].file BY <1>2, <1>4, <2>1, <2>5
    <3> QED BY <2>1, <2>2, <2>5, <3>1
  <2>6. CASE j = n + 1 /\ k \in 1..n
    <3>1. open'[j].file = g /\ open'[k].file = open[k].file BY <1>2, <1>4, <2>1, <2>6
    <3>2. ~(j <= k) BY <1>1, <2>6
    <3> QED BY <2>1, <2>6, <3>1, <3>2
  <2>7. CASE j = n + 1 /\ k = n + 1
    <3>1. Rank[g] \in 0..6 BY RankIs
    <3> QED BY <1>2, <1>4, <2>7, <3>1
  <2> QED BY <2>3, <2>4, <2>5, <2>6, <2>7
<1>9. Stack'
  BY <1>6, <1>7, <1>8 DEF Stack, At, Size
<1> QED BY <1>2, <1>4, <1>5, <1>9

\* A translation unit opens a file.
LEMMA StartStack ==
  ASSUME Stack, open = << >>, NEW g \in Headers,
         open' = <<[file |-> g, rest |-> Text(g)]>>, entered' = entered \cup {g}
  PROVE  Stack' /\ Len(open') = 1 /\ open'[1].file = g /\ At(open'[1]) = 1
<1> DEFINE fr == [file |-> g, rest |-> Text(g)]
<1>1. /\ fr \in Frames /\ At(fr) = 1 /\ fr.rest = SubSeq(Text(g), 1, Size(g))
      /\ 1 \in 1..(Size(g) + 1) /\ fr.file = g
  BY FreshIs
<1>2. open' = <<fr>> OBVIOUS
<1> HIDE DEF fr
<1>3. open' \in Seq(Frames) /\ Len(open') = 1 /\ open'[1] = fr BY <1>1, <1>2
<1>4. \A k \in 1..1 : k = 1 OBVIOUS
<1>5. open' \in Seq([file : Headers, rest : Seq(Items)]) /\ entered' \subseteq Headers
  BY <1>3 DEF Stack, Frames
<1>6. \A k \in 1..Len(open') :
        /\ open'[k].file \in entered' /\ At(open'[k]) \in 1..(Size(open'[k].file) + 1)
        /\ open'[k].rest = SubSeq(Text(open'[k].file), At(open'[k]), Size(open'[k].file))
  BY <1>1, <1>3, <1>4
<1>7. ASSUME NEW j \in 1..Len(open'), NEW k \in 1..Len(open')
      PROVE  /\ open'[j].file = open'[k].file => j = k
             /\ j <= k => Rank[open'[k].file] <= Rank[open'[j].file]
  <2>1. j = 1 /\ k = 1 BY <1>3, <1>4
  <2>2. Rank[g] \in 0..6 BY RankIs
  <2> QED BY <1>1, <1>3, <2>1, <2>2
<1>8. Stack'
  BY <1>5, <1>6, <1>7 DEF Stack, At, Size
<1> QED BY <1>1, <1>3, <1>8

\* The innermost file is left.
LEMMA LeaveStack ==
  ASSUME Stack, Leave
  PROVE  /\ Stack' /\ Len(open) \in 1..Len(open) /\ Len(open') = Len(open) - 1
         /\ \A k \in 1..(Len(open) - 1) : open'[k] = open[k]
         /\ At(open[Len(open)]) = Size(open[Len(open)].file) + 1
<1> DEFINE n == Len(open)
<1>1. n \in Nat /\ n \in 1..n /\ Last(open) = open[n] /\ open \in Seq(Frames)
  BY DEF Stack, Leave, Last, Frames
<1>2. At(open[n]) = Size(open[n].file) + 1
  <2>1. Len(open[n].rest) = 0 BY <1>1 DEF Leave
  <2>2. Size(open[n].file) \in Nat BY <1>1, OpenIs
  <2> QED BY <2>1, <2>2 DEF At
<1>3. /\ open' \in Seq(Frames) /\ Len(open') = n - 1
      /\ \A k \in 1..(n - 1) : open'[k] = open[k]
  <2>1. open' = Front(open) BY DEF Leave
  <2>2. open' = SubSeq(open, 1, n - 1) BY <2>1 DEF Front
  <2>3. /\ \A k \in 1..(n - 1) : open[k] \in Frames
        /\ 1 \in Int /\ n - 1 \in Int /\ n - 1 - 1 + 1 = n - 1
        /\ \A k \in 1..(n - 1) : 1 + k - 1 = k
    BY <1>1
  <2>4. /\ open' \in Seq(Frames)
        /\ Len(open') = (IF 1 <= n - 1 THEN (n - 1) - 1 + 1 ELSE 0)
        /\ \A k \in 1..((n - 1) - 1 + 1) : open'[k] = open[1 + k - 1]
    BY <2>2, <2>3, SubSeqProperties
  <2>5. Len(open') = n - 1
    <3> HIDE DEF n
    <3>1. n >= 1 /\ n \in Nat BY <1>1
    <3>2. (IF 1 <= n - 1 THEN (n - 1) - 1 + 1 ELSE 0) = n - 1 BY <3>1
    <3> QED BY <2>4, <3>2
  <2>6. ASSUME NEW k \in 1..(n - 1) PROVE open'[k] = open[k]
    <3>1. open'[k] = open[1 + k - 1] BY <2>3, <2>4
    <3> QED BY <2>3, <3>1
  <2> QED BY <2>4, <2>5, <2>6
<1>4. \A k \in 1..(n - 1) : k \in 1..n BY <1>1
<1>5. open' \in Seq([file : Headers, rest : Seq(Items)]) /\ entered' \subseteq Headers
  BY <1>3 DEF Stack, Frames, Leave
<1>6. \A k \in 1..Len(open') :
        /\ open'[k].file \in entered' /\ At(open'[k]) \in 1..(Size(open'[k].file) + 1)
        /\ open'[k].rest = SubSeq(Text(open'[k].file), At(open'[k]), Size(open'[k].file))
  BY <1>3, <1>4, OpenIs DEF Leave
<1>7. \A j, k \in 1..Len(open') :
        /\ open'[j].file = open'[k].file => j = k
        /\ j <= k => Rank[open'[k].file] <= Rank[open'[j].file]
  BY <1>3, <1>4 DEF Stack
<1>8. Stack'
  BY <1>5, <1>6, <1>7 DEF Stack, At, Size
<1> QED BY <1>1, <1>2, <1>3, <1>8


-----------------------------------------------------------------------------
(* The items.                                                              *)

AnItem == ReadInclude \/ ReadDeclaration \/ ReadUse

Stay == /\ Len(open') = Len(open) /\ entered' = entered
        /\ NextItem.do = "include" => NextItem.file \in entered

Opens(g) == /\ NextItem.do = "include" /\ NextItem.file = g
            /\ g \notin entered /\ entered' = entered \cup {g}
            /\ Len(open') = Len(open) + 1
            /\ open'[Len(open) + 1].file = g /\ At(open'[Len(open) + 1]) = 1

\* What an item does to the stack.
LEMMA ItemMoves ==
  ASSUME Stack, AnItem
  PROVE  Reading /\ Stack' /\ Kept /\ (Stay \/ \E g \in Headers : Opens(g))
<1> DEFINE n == Len(open)  f == open[n].file  p == At(open[n])
<1>1. Reading BY DEF AnItem, ReadInclude, ReadDeclaration, ReadUse
<1>2. /\ n \in 1..n /\ Last(open).file = f /\ p \in 1..Size(f) /\ NextItem = Text(f)[p]
      /\ f \in Headers
  BY <1>1, ReadIs, OpenIs
<1>3. Regular(f) /\ p \in 1..Len(Text(f)) BY <1>2, AllRegular DEF Size
<1>4. CASE ReadDeclaration
  <2>1. open' = Advanced /\ entered' = entered /\ NextItem.do # "include"
    BY <1>4 DEF ReadDeclaration
  <2> QED BY <1>1, <2>1, SkipStack DEF Stay
<1>5. CASE ReadUse
  <2>1. open' = Advanced /\ entered' = entered /\ NextItem.do # "include"
    BY <1>5 DEF ReadUse
  <2> QED BY <1>1, <2>1, SkipStack DEF Stay
<1>6. CASE ReadInclude
  <2> DEFINE g == NextItem.file
  <2>1. NextItem.do = "include" /\ open' = Enter(g) /\ entered' = entered \cup {g}
    BY <1>6 DEF ReadInclude
  <2>2. /\ g \in Headers
        /\ Rank[g] < Rank[f] \/ (f \in Cycle /\ g \in Cycle)
    BY <1>2, <1>3, <2>1 DEF Regular, Includes
  <2>3. CASE g \in entered
    <3>1. open' = Advanced /\ entered' = entered BY <2>1, <2>3 DEF Enter, PragmaOnce
    <3> QED BY <1>1, <2>3, <3>1, SkipStack DEF Stay
  <2>4. CASE g \notin entered
    <3>1. open' = Append(Advanced, [file |-> g, rest |-> Text(g)])
      BY <2>1, <2>4 DEF Enter, PragmaOnce
    <3>2. Rank[g] <= Rank[f]
      <4>1. Rank[g] \in 0..6 /\ Rank[f] \in 0..6 BY <1>2, <2>2, RankIs
      <4>2. CASE f \in Cycle /\ g \in Cycle
        <5>1. Rank[g] = 4 /\ Rank[f] = 4 BY <4>2, RankIs DEF Cycle
        <5> QED BY <5>1
      <4> QED BY <2>2, <4>1, <4>2
    <3>3. Rank[g] <= Rank[Last(open).file] BY <1>2, <3>2
    <3> HIDE DEF g
    <3>4. /\ Stack' /\ Len(open') = Len(open) + 1 /\ Kept
          /\ open'[Len(open) + 1].file = g /\ At(open'[Len(open) + 1]) = 1
      BY <1>1, <2>1, <2>2, <2>4, <3>1, <3>3, PushStack
    <3>5. Opens(g) BY <2>1, <2>4, <3>4 DEF Opens, g
    <3> QED BY <1>1, <2>2, <3>4, <3>5
  <2> QED BY <2>3, <2>4
<1> QED BY <1>4, <1>5, <1>6 DEF AnItem

\* What an item does to the names.
LEMMA ItemNames ==
  ASSUME AnItem
  PROVE  /\ declared \subseteq declared' /\ entered \subseteq entered'
         /\ NextItem.do = "declare" => NextItem.names \subseteq declared'
         /\ NextItem.do = "include" => NextItem.file \in entered'
BY DEF AnItem, ReadInclude, ReadDeclaration, ReadUse

\* An effect lasts.
LEMMA DoneGrows ==
  ASSUME NEW file, NEW at, NEW names, NEW files, NEW names2, NEW files2,
         Done(file, at, names, files), names \subseteq names2, files \subseteq files2
  PROVE  Done(file, at, names2, files2)
BY DEF Done

\* One more item.
LEMMA DoneNext ==
  ASSUME NEW file, NEW at \in Nat, NEW names, NEW files, Done(file, at, names, files),
         Text(file)[at].do = "declare" => Text(file)[at].names \subseteq names,
         Text(file)[at].do = "include" => Text(file)[at].file \in files
  PROVE  Done(file, at + 1, names, files)
<1>1. \A i \in 1..(at + 1 - 1) : i \in 1..(at - 1) \/ i = at OBVIOUS
<1> QED BY <1>1 DEF Done

\* Nothing read yet.
LEMMA DoneFirst == \A file, names, files : Done(file, 1, names, files)
BY DEF Done

\* The effects are kept.
LEMMA EffectsKept ==
  ASSUME Stack, Effects, Next
  PROVE  Effects'
<1> DEFINE n == Len(open)
<1>1. CASE AnItem
  <2>1. Reading /\ Stack' /\ Kept /\ (Stay \/ \E g \in Headers : Opens(g))
    BY <1>1, ItemMoves
  <2>2. /\ n \in 1..n /\ n \in Nat /\ At(open[n]) \in 1..Size(open[n].file)
        /\ NextItem = Text(open[n].file)[At(open[n])]
    BY <2>1, ReadIs DEF Stack
  <2>3. /\ declared \subseteq declared' /\ entered \subseteq entered'
        /\ NextItem.do = "declare" => NextItem.names \subseteq declared'
        /\ NextItem.do = "include" => NextItem.file \in entered'
    BY <1>1, ItemNames
  <2>4. ASSUME NEW k \in 1..n
        PROVE  Done(open'[k].file, At(open'[k]), declared', entered')
    <3>1. Done(open[k].file, At(open[k]), declared', entered')
      BY <2>3, DoneGrows DEF Effects
    <3>2. open'[k].file = open[k].file /\ At(open'[k]) = Stepped(k) BY <2>1 DEF Kept
    <3>3. At(open[k]) \in Nat
      <4>1. At(open[k]) \in 1..(Size(open[k].file) + 1) BY OpenIs
      <4> QED BY <4>1
    <3>4. CASE k = n
      <4>1. At(open'[k]) = At(open[k]) + 1 BY <3>2, <3>4 DEF Stepped
      <4>2. Done(open[k].file, At(open[k]) + 1, declared', entered')
        BY <2>2, <2>3, <3>1, <3>3, <3>4, DoneNext
      <4> QED BY <3>2, <4>1, <4>2
    <3>5. CASE k # n
      <4>1. At(open'[k]) = At(open[k]) BY <3>2, <3>3, <3>5 DEF Stepped
      <4> QED BY <3>1, <3>2, <4>1
    <3> QED BY <3>4, <3>5
  <2>5. ASSUME NEW file \in entered
        PROVE  \/ \E k \in 1..n : open'[k].file = file
               \/ Done(file, Size(file) + 1, declared', entered')
    <3>1. CASE \E k \in 1..n : open[k].file = file BY <2>1, <3>1 DEF Kept
    <3>2. CASE Done(file, Size(file) + 1, declared, entered)
      BY <2>3, <3>2, DoneGrows
    <3> QED BY <3>1, <3>2 DEF Effects
  <2>6. CASE Stay
    <3>1. Len(open') = n /\ entered' = entered BY <2>6 DEF Stay
    <3> QED BY <2>4, <2>5, <3>1 DEF Effects, At, Size
  <2>7. ASSUME NEW g \in Headers, Opens(g) PROVE Effects'
    <3>1. /\ Len(open') = n + 1 /\ open'[n + 1].file = g /\ At(open'[n + 1]) = 1
          /\ entered' = entered \cup {g}
      BY <2>7 DEF Opens
    <3>2. \A k \in 1..(n + 1) : k \in 1..n \/ k = n + 1 BY <2>2
    <3>3. \A k \in 1..(n + 1) : Done(open'[k].file, At(open'[k]), declared', entered')
      BY <2>4, <3>1, <3>2, DoneFirst
    <3>4. n + 1 \in 1..(n + 1) /\ 1..n \subseteq 1..(n + 1) BY <2>2
    <3>5. ASSUME NEW file \in entered'
          PROVE  \/ \E k \in 1..(n + 1) : open'[k].file = file
                 \/ Done(file, Size(file) + 1, declared', entered')
      BY <2>5, <3>1, <3>4
    <3> QED BY <3>1, <3>3, <3>5 DEF Effects, At, Size
  <2> QED BY <2>1, <2>6, <2>7
<1>2. CASE Leave
  <2>1. /\ n \in 1..n /\ Len(open') = n - 1 /\ n \in Nat
        /\ \A k \in 1..(n - 1) : open'[k] = open[k]
        /\ At(open[n]) = Size(open[n].file) + 1
    <3>1. n \in Nat BY DEF Stack
    <3> QED BY <1>2, <3>1, LeaveStack
  <2>2. declared' = declared /\ entered' = entered BY <1>2 DEF Leave
  <2>3. \A k \in 1..n : k \in 1..(n - 1) \/ k = n BY <2>1
  <2>4. \A k \in 1..(n - 1) : k \in 1..n BY <2>1
  <2>5. \A k \in 1..(n - 1) : Done(open'[k].file, At(open'[k]), declared', entered')
    BY <2>1, <2>2, <2>4 DEF Effects
  <2>6. ASSUME NEW file \in entered'
        PROVE  \/ \E k \in 1..(n - 1) : open'[k].file = file
               \/ Done(file, Size(file) + 1, declared', entered')
    <3>1. CASE Done(file, Size(file) + 1, declared, entered) BY <2>2, <3>1
    <3>2. ASSUME NEW k \in 1..n, open[k].file = file
          PROVE  \/ \E i \in 1..(n - 1) : open'[i].file = file
                 \/ Done(file, Size(file) + 1, declared', entered')
      <4>1. CASE k = n
        <5>1. Done(open[n].file, At(open[n]), declared, entered) BY <2>1 DEF Effects
        <5> QED BY <2>1, <2>2, <3>2, <4>1, <5>1
      <4>2. CASE k \in 1..(n - 1) BY <2>1, <3>2, <4>2
      <4> QED BY <2>3, <4>1, <4>2
    <3> QED BY <2>2, <3>1, <3>2 DEF Effects
  <2> QED BY <2>1, <2>5, <2>6 DEF Effects, At, Size
<1>3. ASSUME NEW g \in Headers, IncludeNext(g) PROVE Effects'
  <2>1. open = << >> /\ declared' = declared BY <1>3 DEF IncludeNext
  <2>2. CASE g \in entered
    <3>1. open' = open /\ entered' = entered BY <1>3, <2>2 DEF IncludeNext, PragmaOnce
    <3> QED BY <2>1, <3>1 DEF Effects, At, Size
  <2>3. CASE g \notin entered
    <3>1. open' = <<[file |-> g, rest |-> Text(g)]>> /\ entered' = entered \cup {g}
      BY <1>3, <2>3 DEF IncludeNext, PragmaOnce
    <3>2. Len(open') = 1 /\ open'[1].file = g /\ At(open'[1]) = 1
      BY <2>1, <3>1, StartStack
    <3>3. \A k \in 1..1 : k = 1 OBVIOUS
    <3>4. \A k \in 1..1 : Done(open'[k].file, At(open'[k]), declared', entered')
      BY <3>2, <3>3, DoneFirst
    <3>5. ASSUME NEW file \in entered'
          PROVE  \/ \E k \in 1..1 : open'[k].file = file
                 \/ Done(file, Size(file) + 1, declared', entered')
      <4>1. CASE file = g BY <3>2, <4>1
      <4>2. CASE file \in entered
        <5>1. Len(open) = 0 BY <2>1
        <5>2. Done(file, Size(file) + 1, declared, entered) BY <4>2, <5>1 DEF Effects
        <5> QED BY <2>1, <3>1, <5>2, DoneGrows
      <4> QED BY <3>1, <4>1, <4>2
    <3> QED BY <3>2, <3>4, <3>5 DEF Effects, At, Size
  <2> QED BY <2>2, <2>3
<1> QED BY <1>1, <1>2, <1>3 DEF Next, Read, AnItem

\* The stack is kept.
LEMMA StackKept ==
  ASSUME Stack, Next
  PROVE  Stack'
<1>1. CASE AnItem BY <1>1, ItemMoves
<1>2. CASE Leave BY <1>2, LeaveStack
<1>3. ASSUME NEW g \in Headers, IncludeNext(g) PROVE Stack'
  <2>1. open = << >> BY <1>3 DEF IncludeNext
  <2>2. CASE g \in entered
    <3>1. open' = open /\ entered' = entered BY <1>3, <2>2 DEF IncludeNext, PragmaOnce
    <3> QED BY <3>1 DEF Stack, At, Size
  <2>3. CASE g \notin entered
    <3>1. open' = <<[file |-> g, rest |-> Text(g)]>> /\ entered' = entered \cup {g}
      BY <1>3, <2>3 DEF IncludeNext, PragmaOnce
    <3> QED BY <2>1, <3>1, StartStack
  <2> QED BY <2>2, <2>3
<1> QED BY <1>1, <1>2, <1>3 DEF Next, Read, AnItem


-----------------------------------------------------------------------------
(* The cycle.                                                              *)

\* Each of the two looks for what the other declares, and includes it first.
LEMMA TwoFiles ==
  ASSUME NEW x \in Cycle, NEW y \in Cycle, x # y
  PROVE  /\ Cycle = {x, y} /\ x \in Headers /\ y \in Headers
         /\ Wanted[x] = Given[y] /\ Wanted[y] = Given[x]
         /\ Text(x)[1] = Include(y) /\ Size(x) \in Nat /\ Size(x) > 1
         /\ GivenAt[y] \in 2..Size(y)
<1>1. (x = "concepts.hpp" /\ y = "functional.hpp") \/ (x = "functional.hpp" /\ y = "concepts.hpp")
  BY DEF Cycle
<1>2. Size("concepts.hpp") = 7 /\ Size("functional.hpp") = 10
  BY ConceptsText, FunctionalText, TextIs DEF Size
<1>3. /\ Text("concepts.hpp")[1] = Include("functional.hpp")
      /\ Text("functional.hpp")[1] = Include("concepts.hpp")
  BY ConceptsText, FunctionalText, TextIs
<1> QED BY <1>1, <1>2, <1>3, CycleIs DEF Cycle

\* The item that matters is a declaration.
LEMMA TheItems == ASSUME NEW x \in Cycle PROVE Text(x)[GivenAt[x]].do = "declare"
<1>1. Text("concepts.hpp")[5] = Declare({"concepts", "totally_ordered_with"})
  BY ConceptsText, TextIs
<1>2. Text("functional.hpp")[6] = Declare({"invoke"}) BY FunctionalText, TextIs
<1>3. CASE x = "concepts.hpp" BY <1>1, <1>3, CycleIs DEF Declare
<1>4. CASE x = "functional.hpp" BY <1>2, <1>4, CycleIs DEF Declare
<1> QED BY <1>3, <1>4 DEF Cycle

\* What an item does to the names of the cycle.
LEMMA ItemCycle ==
  ASSUME Stack, AnItem, NEW z \in Cycle
  PROVE  LET f == open[Len(open)].file  p == At(open[Len(open)]) IN
         Given[z] \in declared' <=> Given[z] \in declared \/ (f = z /\ p = GivenAt[z])
<1> DEFINE n == Len(open)  f == open[n].file  p == At(open[n])
<1>1. Reading BY DEF AnItem, ReadInclude, ReadDeclaration, ReadUse
<1>2. /\ n \in 1..n /\ p \in 1..Size(f) /\ NextItem = Text(f)[p] /\ f \in Headers
  BY <1>1, ReadIs, OpenIs
<1>3. p \in 1..Len(Text(f)) /\ Declares(f, Text(f)) BY <1>2, AllRegular DEF Size, Regular
<1>4. f = z /\ p = GivenAt[z] => NextItem.do = "declare" BY <1>2, TheItems
<1> HIDE DEF f, p
<1>5. CASE ReadInclude \/ ReadUse
  <2>1. NextItem.do # "declare" /\ declared' = declared BY <1>5 DEF ReadInclude, ReadUse
  <2> QED BY <1>4, <2>1 DEF f, p
<1>6. CASE ReadDeclaration
  <2>1. NextItem.do = "declare" /\ declared' = declared \cup NextItem.names
    BY <1>6 DEF ReadDeclaration
  <2>2. Given[z] \in NextItem.names <=> f = z /\ p = GivenAt[z]
    BY <1>2, <1>3, <2>1 DEF Declares
  <2> QED BY <2>1, <2>2 DEF f, p
<1> QED BY <1>5, <1>6 DEF AnItem

\* The cycle through a step that reads an item.
LEMMA CycleItem ==
  ASSUME Stack, CycleInv, AnItem
  PROVE  CycleInv'
<1> DEFINE n == Len(open)  f == open[n].file  p == At(open[n])
<1>1. Reading /\ Stack' /\ Kept /\ (Stay \/ \E g \in Headers : Opens(g)) BY ItemMoves
<1>2. /\ n \in Nat /\ n \in 1..n /\ p \in 1..Size(f) /\ NextItem = Text(f)[p]
      /\ f \in Headers /\ f \in entered
  BY <1>1, ReadIs, OpenIs
<1>3. ASSUME NEW z \in Cycle
      PROVE  Given[z] \in declared' <=> Given[z] \in declared \/ (f = z /\ p = GivenAt[z])
  BY ItemCycle
<1>4. ASSUME NEW k \in 1..n
      PROVE  /\ k \in 1..Len(open') /\ open'[k].file = open[k].file
             /\ At(open[k]) \in Nat /\ At(open'[k]) = IF k = n THEN p + 1 ELSE At(open[k])
  <2>1. Len(open') = n \/ Len(open') = n + 1 BY <1>1 DEF Stay, Opens
  <2>2. At(open[k]) \in 1..(Size(open[k].file) + 1) BY OpenIs
  <2>3. At(open[k]) \in Nat BY <2>2
  <2>4. open'[k].file = open[k].file /\ At(open'[k]) = Stepped(k) BY <1>1 DEF Kept
  <2> QED BY <1>2, <2>1, <2>3, <2>4 DEF Stepped
<1>5. ASSUME NEW j \in 1..n, NEW k \in 1..n, open[j].file = open[k].file PROVE j = k
  BY <1>5 DEF Stack
<1>6. entered \subseteq entered' BY ItemNames
<1> HIDE DEF f, p, n
<1>7. CASE Untouched
  <2>1. f \notin Cycle BY <1>2, <1>7 DEF Untouched
  <2>2. \A z \in Cycle : Given[z] \notin declared'
    BY <1>3, <1>7, <2>1 DEF Untouched
  <2>3. CASE Cycle \cap entered' = {} BY <2>2, <2>3 DEF CycleInv, Untouched
  <2>4. ASSUME NEW x \in Cycle, x \in entered' PROVE CycleInv'
    <3>1. PICK g \in Headers : Opens(g) BY <1>1, <1>7, <2>4 DEF Stay, Untouched
    <3>2. PICK y \in Cycle : y # x BY DEF Cycle
    <3>3. g = x /\ y \notin entered' BY <1>7, <2>4, <3>1, <3>2 DEF Opens, Untouched
    <3>4. n + 1 \in 1..Len(open') /\ n + 1 = Len(open')
      BY <1>2, <3>1 DEF Opens, n
    <3>5. open'[n + 1].file = x /\ At(open'[n + 1]) = 1 BY <3>1, <3>3 DEF Opens, n
    <3>6. Started(x, y)' BY <2>2, <2>4, <3>3, <3>4, <3>5 DEF Started, At, Size
    <3> QED BY <3>2, <3>6 DEF CycleInv
  <2> QED BY <2>3, <2>4 DEF CycleInv
<1>8. ASSUME NEW x \in Cycle, NEW y \in Cycle, x # y, Started(x, y) PROVE CycleInv'
  <2>1. f = x /\ p = 1 /\ y \notin entered BY <1>8 DEF Started, f, p, n
  <2>2. /\ NextItem = Include(y) /\ Cycle = {x, y}
        /\ GivenAt[y] \in 2..Size(y) /\ GivenAt[x] # 1
    <3>1. GivenAt[x] \in 2..Size(x) BY <1>8, TwoFiles
    <3>2. GivenAt[x] # 1 BY <3>1
    <3> QED BY <1>2, <1>8, <2>1, <3>2, TwoFiles
  <2>3. Opens(y) BY <1>1, <2>1, <2>2 DEF Stay, Opens, Include
  <2>4. \A z \in Cycle : Given[z] \notin declared'
    BY <1>3, <1>8, <2>1, <2>2 DEF Started
  <2>5. n + 1 \in 1..Len(open') /\ n < n + 1 /\ n \in 1..Len(open')
    BY <1>2, <2>3 DEF Opens, n
  <2>6. open'[n].file = x /\ At(open'[n]) = 2
    <3>1. open'[n].file = f /\ At(open'[n]) = p + 1 BY <1>2, <1>4 DEF f
    <3> QED BY <2>1, <3>1
  <2>7. open'[n + 1].file = y /\ At(open'[n + 1]) = 1 BY <2>3 DEF Opens, n
  <2>8. ~(1 > GivenAt[y]) BY <2>2
  <2>9. x \in entered' /\ y \in entered' BY <1>2, <1>6, <2>1, <2>3 DEF Opens
  <2>10. Inside(x, y)'
    BY <1>8, <2>4, <2>5, <2>6, <2>7, <2>8, <2>9 DEF Inside, At, Size
  <2> QED BY <1>8, <2>10 DEF CycleInv
<1>9. ASSUME NEW x \in Cycle, NEW y \in Cycle, x # y, Inside(x, y) PROVE CycleInv'
  <2>1. PICK j \in 1..n, k \in 1..n :
          /\ j < k /\ open[j].file = x /\ At(open[j]) = 2
          /\ open[k].file = y
          /\ Given[y] \in declared <=> At(open[k]) > GivenAt[y]
    BY <1>9 DEF Inside, n
  <2>2. Given[x] \notin declared /\ x \in entered' /\ y \in entered'
    BY <1>6, <1>9 DEF Inside
  <2>3. GivenAt[y] \in Nat
    <3>1. GivenAt[y] \in 2..Size(y) BY <1>9, TwoFiles
    <3> QED BY <3>1
  <2>4. j # n /\ j \in Nat /\ k \in Nat BY <1>2, <2>1
  <2>5. f # x BY <1>2, <1>5, <2>1, <2>4 DEF f
  <2>6. Given[x] \notin declared' BY <1>3, <1>9, <2>2, <2>5
  <2>7. open'[j].file = x /\ At(open'[j]) = 2 /\ open'[k].file = y
        /\ j \in 1..Len(open') /\ k \in 1..Len(open')
    BY <1>4, <2>1, <2>4
  <2>8. Given[y] \in declared' <=> At(open'[k]) > GivenAt[y]
    <3>1. CASE k = n
      <4>1. f = y /\ At(open[k]) = p /\ At(open'[k]) = p + 1 /\ p \in Nat
        BY <1>2, <1>4, <2>1, <3>1 DEF f, p
      <4>2. Given[y] \in declared' <=> p > GivenAt[y] \/ p = GivenAt[y]
        BY <1>3, <1>9, <2>1, <4>1
      <4>3. p + 1 > GivenAt[y] <=> p > GivenAt[y] \/ p = GivenAt[y] BY <2>3, <4>1
      <4> QED BY <4>1, <4>2, <4>3
    <3>2. CASE k # n
      <4>1. f # y BY <1>2, <1>5, <2>1, <3>2 DEF f
      <4>2. At(open'[k]) = At(open[k]) BY <1>4, <3>2
      <4> QED BY <1>3, <1>9, <2>1, <4>1, <4>2
    <3> QED BY <3>1, <3>2
  <2>9. Inside(x, y)'
    BY <2>1, <2>2, <2>6, <2>7, <2>8 DEF Inside, At, Size
  <2> QED BY <1>9, <2>9 DEF CycleInv
<1>10. ASSUME NEW x \in Cycle, NEW y \in Cycle, x # y, Through(x, y) PROVE CycleInv'
  <2>1. /\ x \in entered' /\ y \in entered' /\ Given[y] \in declared'
        /\ y \in entered
    BY <1>3, <1>6, <1>10 DEF Through
  <2>2. ASSUME NEW k \in 1..Len(open') PROVE open'[k].file # y
    <3>1. \A i \in 1..n : open[i].file # y BY <1>10 DEF Through, n
    <3>2. CASE k \in 1..n BY <1>4, <3>1, <3>2
    <3>3. CASE k \notin 1..n
      <4>1. PICK g \in Headers : Opens(g) BY <1>1, <3>3 DEF Stay, n
      <4>2. k = n + 1 BY <1>2, <3>3, <4>1 DEF Opens, n
      <4> QED BY <2>1, <4>1, <4>2 DEF Opens, n
    <3> QED BY <3>2, <3>3
  <2>3. Through(x, y)' BY <2>1, <2>2 DEF Through
  <2> QED BY <1>10, <2>3 DEF CycleInv
<1> QED BY <1>7, <1>8, <1>9, <1>10 DEF CycleInv


\* The cycle through the other steps.
LEMMA CycleLeave ==
  ASSUME Stack, CycleInv, Leave
  PROVE  CycleInv'
<1> DEFINE n == Len(open)
<1>1. /\ n \in 1..n /\ n \in Nat /\ Len(open') = n - 1
      /\ \A k \in 1..(n - 1) : open'[k] = open[k]
      /\ At(open[n]) = Size(open[n].file) + 1
  BY LeaveStack DEF Stack
<1>2. declared' = declared /\ entered' = entered BY DEF Leave
<1>3. ASSUME NEW j \in 1..n, NEW k \in 1..n, open[j].file = open[k].file PROVE j = k
  BY <1>3 DEF Stack
<1> HIDE DEF n
<1>4. CASE Untouched BY <1>2, <1>4 DEF CycleInv, Untouched
<1>5. ASSUME NEW x \in Cycle, NEW y \in Cycle, x # y PROVE ~Started(x, y)
  <2>1. Size(x) \in Nat /\ Size(x) > 1 BY <1>5, TwoFiles
  <2>2. Size(x) + 1 # 1 BY <2>1
  <2> QED BY <1>1, <2>2 DEF Started, n
<1>6. ASSUME NEW x \in Cycle, NEW y \in Cycle, x # y, Inside(x, y) PROVE CycleInv'
  <2>1. PICK j \in 1..n, k \in 1..n :
          /\ j < k /\ open[j].file = x /\ At(open[j]) = 2
          /\ open[k].file = y
          /\ Given[y] \in declared <=> At(open[k]) > GivenAt[y]
    BY <1>6 DEF Inside, n
  <2>2. j \in 1..(n - 1) BY <1>1, <2>1
  <2>3. CASE k = n
    <3>1. Size(y) \in Nat /\ GivenAt[y] \in 2..Size(y) BY <1>6, TwoFiles
    <3>2. Size(y) + 1 > GivenAt[y] BY <3>1
    <3>3. Given[y] \in declared BY <1>1, <2>1, <2>3, <3>2
    <3>4. ASSUME NEW i \in 1..Len(open') PROVE open'[i].file # y
      <4>1. i \in 1..(n - 1) /\ i \in 1..n /\ i # n BY <1>1
      <4> QED BY <1>1, <1>3, <2>1, <2>3, <4>1
    <3>5. Through(x, y)' BY <1>2, <1>6, <3>3, <3>4 DEF Through, Inside
    <3> QED BY <1>6, <3>5 DEF CycleInv
  <2>4. CASE k # n
    <3>1. k \in 1..(n - 1) BY <1>1, <2>1, <2>4
    <3>2. j \in 1..Len(open') /\ k \in 1..Len(open') /\ open'[j] = open[j] /\ open'[k] = open[k]
      BY <1>1, <2>2, <3>1
    <3>3. Inside(x, y)' BY <1>2, <1>6, <2>1, <3>2 DEF Inside, At, Size
    <3> QED BY <1>6, <3>3 DEF CycleInv
  <2> QED BY <2>3, <2>4
<1>7. ASSUME NEW x \in Cycle, NEW y \in Cycle, x # y, Through(x, y) PROVE CycleInv'
  <2>1. \A k \in 1..Len(open') : k \in 1..n /\ open'[k] = open[k] BY <1>1
  <2>2. Through(x, y)' BY <1>2, <1>7, <2>1 DEF Through, n
  <2> QED BY <1>7, <2>2 DEF CycleInv
<1> QED BY <1>4, <1>5, <1>6, <1>7 DEF CycleInv

LEMMA CycleStart ==
  ASSUME Stack, CycleInv, NEW g \in Headers, IncludeNext(g)
  PROVE  CycleInv'
<1>1. open = << >> /\ declared' = declared BY DEF IncludeNext
<1>2. CASE g \in entered
  <2>1. open' = open /\ entered' = entered BY <1>2 DEF IncludeNext, PragmaOnce
  <2> QED BY <1>1, <2>1
       DEF CycleInv, Untouched, Started, Inside, Through, At, Size
<1>3. CASE g \notin entered
  <2>1. open' = <<[file |-> g, rest |-> Text(g)]>> /\ entered' = entered \cup {g}
    BY <1>3 DEF IncludeNext, PragmaOnce
  <2>2. Len(open') = 1 /\ open'[1].file = g /\ At(open'[1]) = 1 BY <1>1, <2>1, StartStack
  <2>3. Len(open) = 0 /\ 1..0 = {} /\ \A k \in 1..1 : k = 1 BY <1>1
  <2>4. CASE Untouched
    <3>1. CASE g \notin Cycle
      BY <1>1, <2>1, <2>4, <3>1 DEF CycleInv, Untouched
    <3>2. CASE g \in Cycle
      <4>1. PICK y \in Cycle : y # g BY DEF Cycle
      <4>2. \A z \in Cycle : Given[z] \notin declared' BY <1>1, <2>4 DEF Untouched
      <4>3. g \in entered' /\ y \notin entered' BY <2>1, <2>4, <4>1 DEF Untouched
      <4>4. 1 \in 1..Len(open') BY <2>2
      <4>5. Started(g, y)' BY <2>2, <4>2, <4>3, <4>4 DEF Started, At, Size
      <4> QED BY <3>2, <4>1, <4>5 DEF CycleInv
    <3> QED BY <3>1, <3>2
  <2>5. ASSUME NEW x \in Cycle, NEW y \in Cycle PROVE ~Started(x, y) /\ ~Inside(x, y)
    BY <2>3 DEF Started, Inside
  <2>6. ASSUME NEW x \in Cycle, NEW y \in Cycle, x # y, Through(x, y) PROVE CycleInv'
    <3>1. \A k \in 1..Len(open') : open'[k].file # y
      BY <1>3, <2>2, <2>3, <2>6 DEF Through
    <3>2. Through(x, y)' BY <1>1, <2>1, <2>6, <3>1 DEF Through
    <3> QED BY <2>6, <3>2 DEF CycleInv
  <2> QED BY <2>4, <2>5, <2>6 DEF CycleInv
<1> QED BY <1>2, <1>3

\* The invariant, which is inductive.
LEMMA InvInit == Init => Inv
<1> SUFFICES ASSUME Init PROVE Inv OBVIOUS
<1>1. open = << >> /\ entered = {} /\ declared = {} BY DEF Init
<1>2. Len(open) = 0 /\ 1..0 = {} BY <1>1
<1>3. open \in Seq([file : Headers, rest : Seq(Items)]) BY <1>1
<1>4. Stack BY <1>1, <1>2, <1>3 DEF Stack
<1>5. Effects BY <1>1, <1>2 DEF Effects
<1>6. CycleInv BY <1>1 DEF CycleInv, Untouched
<1> QED BY <1>4, <1>5, <1>6 DEF Inv

LEMMA InvNext == Inv /\ [Next]_vars => Inv'
<1> SUFFICES ASSUME Inv, [Next]_vars PROVE Inv' OBVIOUS
<1>1. CASE UNCHANGED vars
  <2>1. open' = open /\ entered' = entered /\ declared' = declared BY <1>1 DEF vars
  <2>2. Stack' BY <2>1 DEF Inv, Stack, At, Size
  <2>3. Effects' BY <2>1 DEF Inv, Effects, At, Size
  <2>4. CycleInv'
    <3>1. CASE Untouched BY <2>1, <3>1 DEF CycleInv, Untouched
    <3>2. ASSUME NEW x \in Cycle, NEW y \in Cycle, x # y,
                 Started(x, y) \/ Inside(x, y) \/ Through(x, y)
          PROVE  CycleInv'
      <4>1. Started(x, y)' <=> Started(x, y) BY <2>1 DEF Started, At, Size
      <4>2. Inside(x, y)' <=> Inside(x, y) BY <2>1 DEF Inside, At, Size
      <4>3. Through(x, y)' <=> Through(x, y) BY <2>1 DEF Through
      <4> QED BY <3>2, <4>1, <4>2, <4>3 DEF CycleInv
    <3> QED BY <3>1, <3>2 DEF Inv, CycleInv
  <2> QED BY <2>2, <2>3, <2>4 DEF Inv
<1>2. CASE Next
  <2>1. Stack' /\ Effects' BY <1>2, StackKept, EffectsKept DEF Inv
  <2>2. CycleInv'
    BY <1>2, CycleItem, CycleLeave, CycleStart DEF Inv, Next, Read, AnItem
  <2> QED BY <2>1, <2>2 DEF Inv
<1> QED BY <1>1, <1>2

\* The files being read are entered, distinct and of falling ranks, each at an item of its
\* text; what has been read has had its effect; and the cycle is in one of its stages.
THEOREM Order == Spec => []Inv
BY InvInit, InvNext, PTL DEF Spec

-----------------------------------------------------------------------------
(* The other names.                                                        *)

\* The names that no header declares.
LEMMA NotDeclared == {"numeric_limits", "initializer_list", "unexpect_t"} \cap Declarable = {}
<1> SUFFICES ASSUME NEW name \in {"numeric_limits", "initializer_list", "unexpect_t"},
                    name \in Declarable
             PROVE  FALSE
  OBVIOUS
<1>1. PICK file \in Headers : name \in DeclaredIn(Text(file)) BY DEF Declarable
<1>2. PICK item \in ToSet(Text(file)) : item.do = "declare" /\ name \in item.names
  BY <1>1 DEF DeclaredIn
<1>3. PICK i \in DOMAIN Text(file) : item = Text(file)[i] BY <1>2 DEF ToSet
<1>4. i \in 1..Len(Text(file)) BY <1>3, SizeIs
<1>5. Declares(file, Text(file)) BY AllRegular DEF Regular
<1>6. item.names \cap {"numeric_limits", "initializer_list", "unexpect_t"} = {}
  BY <1>2, <1>3, <1>4, <1>5 DEF Declares
<1> QED BY <1>2, <1>6

\* What a finished file has declared, and what it has entered.
LEMMA FinishedIs ==
  ASSUME NEW file \in Headers, NEW names, NEW files, Done(file, Size(file) + 1, names, files)
  PROVE  \A i \in 1..Len(Text(file)) :
           /\ Text(file)[i].do = "declare" => Text(file)[i].names \subseteq names
           /\ Text(file)[i].do = "include" => Text(file)[i].file \in files
<1> DEFINE at == Size(file) + 1
<1>1. Done(file, at, names, files) OBVIOUS
<1>2. \A i \in 1..Len(Text(file)) : i \in 1..(at - 1) BY SizeIs
<1> HIDE DEF at
<1> QED BY <1>1, <1>2 DEF Done

\* The headers below rank r have been finished, once entered.
Below(r) == \A g \in entered : Rank[g] < r => Done(g, Size(g) + 1, declared, entered)

\* Those below the file that is being read have.
LEMMA BelowIs ==
  ASSUME Stack, Effects, Reading
  PROVE  Below(Rank[open[Len(open)].file])
<1> DEFINE n == Len(open)  f == open[n].file
<1> SUFFICES ASSUME NEW g \in entered, Rank[g] < Rank[f]
             PROVE  Done(g, Size(g) + 1, declared, entered)
  BY DEF Below
<1>1. n \in 1..n /\ n \in Nat BY ReadIs DEF Stack
<1>2. ASSUME NEW k \in 1..n PROVE open[k].file # g
  <2>1. k <= n BY <1>1
  <2>2. Rank[f] <= Rank[open[k].file] BY <1>1, <2>1 DEF Stack
  <2>3. Rank[f] \in 0..6 /\ Rank[open[k].file] \in 0..6 BY <1>1, OpenIs, RankIs
  <2>4. ~(Rank[open[k].file] < Rank[f]) BY <2>2, <2>3
  <2> QED BY <2>4
<1> QED BY <1>2 DEF Effects

\* What follows from that a header has been entered.
LEMMA EnteredIs ==
  ASSUME Stack, NEW r \in 0..6, Below(r)
  PROVE  /\ "cstddef.hpp" \in entered /\ 0 < r =>
              {"size_t", "ptrdiff_t", "nullptr_t"} \subseteq declared
         /\ "type_traits.hpp" \in entered /\ 1 < r =>
              {"traits", "size_t", "nullptr_t"} \subseteq declared
         /\ "utility.hpp" \in entered /\ 2 < r =>
              {"utilities", "traits", "size_t"} \subseteq declared
         /\ "memory.hpp" \in entered /\ 3 < r =>
              {"addressof", "to_address"} \subseteq declared
         /\ "concepts.hpp" \in entered /\ 4 < r =>
              {"concepts", "invocable", "identity", "ranges::less", "to_address", "traits",
               "utilities"}
                \subseteq declared
         /\ "iterator.hpp" \in entered /\ 5 < r => "reverse_iterator" \in declared
<1>1. ASSUME NEW g \in Headers, g \in entered, Rank[g] < r
      PROVE  \A i \in 1..Len(Text(g)) :
               /\ Text(g)[i].do = "declare" => Text(g)[i].names \subseteq declared
               /\ Text(g)[i].do = "include" => Text(g)[i].file \in entered
  <2>1. Done(g, Size(g) + 1, declared, entered) BY <1>1 DEF Below
  <2> QED BY <2>1, FinishedIs
<1>2. "cstddef.hpp" \in entered /\ 0 < r => {"size_t", "ptrdiff_t", "nullptr_t"} \subseteq declared
  <2> SUFFICES ASSUME "cstddef.hpp" \in entered, 0 < r
               PROVE  {"size_t", "ptrdiff_t", "nullptr_t"} \subseteq declared
    OBVIOUS
  <2>1. "cstddef.hpp" \in Headers /\ Rank["cstddef.hpp"] < r BY RankIs DEF Headers
  <2>2. 1 \in 1..Len(cstddef_hpp) BY CstddefText
  <2> QED BY <1>1, <2>1, <2>2, CstddefText, TextIs DEF Declare
<1>3. "type_traits.hpp" \in entered /\ 1 < r => {"traits", "size_t", "nullptr_t"} \subseteq declared
  <2> SUFFICES ASSUME "type_traits.hpp" \in entered, 1 < r
               PROVE  {"traits", "size_t", "nullptr_t"} \subseteq declared
    OBVIOUS
  <2>1. "type_traits.hpp" \in Headers /\ Rank["type_traits.hpp"] < r BY RankIs DEF Headers
  <2>2. 1 \in 1..Len(type_traits_hpp) /\ 3 \in 1..Len(type_traits_hpp) BY TypeTraitsText
  <2>3. {"traits"} \subseteq declared
    BY <1>1, <2>1, <2>2, TypeTraitsText, TextIs DEF Declare
  <2>4. "cstddef.hpp" \in entered
    BY <1>1, <2>1, <2>2, TypeTraitsText, TextIs DEF Include
  <2> QED BY <1>2, <2>3, <2>4
<1>4. "utility.hpp" \in entered /\ 2 < r => {"utilities", "traits", "size_t"} \subseteq declared
  <2> SUFFICES ASSUME "utility.hpp" \in entered, 2 < r
               PROVE  {"utilities", "traits", "size_t"} \subseteq declared
    OBVIOUS
  <2>1. "utility.hpp" \in Headers /\ Rank["utility.hpp"] < r BY RankIs DEF Headers
  <2>2. 1 \in 1..Len(utility_hpp) /\ 3 \in 1..Len(utility_hpp) BY UtilityText
  <2>3. {"utilities"} \subseteq declared
    BY <1>1, <2>1, <2>2, UtilityText, TextIs DEF Declare
  <2>4. "type_traits.hpp" \in entered
    BY <1>1, <2>1, <2>2, UtilityText, TextIs DEF Include
  <2> QED BY <1>3, <2>3, <2>4
<1>5. "memory.hpp" \in entered /\ 3 < r => {"addressof", "to_address"} \subseteq declared
  <2> SUFFICES ASSUME "memory.hpp" \in entered, 3 < r
               PROVE  {"addressof", "to_address"} \subseteq declared
    OBVIOUS
  <2>1. "memory.hpp" \in Headers /\ Rank["memory.hpp"] < r BY RankIs DEF Headers
  <2>2. 4 \in 1..Len(memory_hpp) /\ 6 \in 1..Len(memory_hpp) BY MemoryText
  <2>3. {"addressof"} \subseteq declared
    BY <1>1, <2>1, <2>2, MemoryText, TextIs DEF Declare
  <2>4. {"to_address"} \subseteq declared
    BY <1>1, <2>1, <2>2, MemoryText, TextIs DEF Declare
  <2> QED BY <2>3, <2>4
<1>6. "functional.hpp" \in entered /\ 4 < r =>
        {"identity", "ranges::less", "to_address"} \subseteq declared
  <2> SUFFICES ASSUME "functional.hpp" \in entered, 4 < r
               PROVE  {"identity", "ranges::less", "to_address"} \subseteq declared
    OBVIOUS
  <2>1. "functional.hpp" \in Headers /\ Rank["functional.hpp"] < r BY RankIs DEF Headers
  <2>2. 2 \in 1..Len(functional_hpp) /\ 8 \in 1..Len(functional_hpp) /\ 10 \in 1..Len(functional_hpp)
    BY FunctionalText
  <2>3. {"identity"} \subseteq declared
    <3>1. Text("functional.hpp")[8] = Declare({"identity"}) /\ 8 \in 1..Len(Text("functional.hpp"))
      BY <2>2, FunctionalText, TextIs
    <3> QED BY <1>1, <2>1, <3>1 DEF Declare
  <2>4. "memory.hpp" \in entered
    BY <1>1, <2>1, <2>2, FunctionalText, TextIs DEF Include
  <2>5. {"ranges::less"} \subseteq declared
    <3>1. /\ Text("functional.hpp")[10] = Declare({"ranges::less"})
          /\ 10 \in 1..Len(Text("functional.hpp"))
      BY <2>2, FunctionalText, TextIs
    <3> QED BY <1>1, <2>1, <3>1 DEF Declare
  <2> QED BY <1>5, <2>3, <2>4, <2>5
<1>7. "concepts.hpp" \in entered /\ 4 < r =>
        {"concepts", "invocable", "identity", "ranges::less", "to_address", "traits",
               "utilities"}
          \subseteq declared
  <2> SUFFICES ASSUME "concepts.hpp" \in entered, 4 < r
               PROVE  {"concepts", "invocable", "identity", "ranges::less", "to_address", "traits",
               "utilities"}
                        \subseteq declared
    OBVIOUS
  <2>1. "concepts.hpp" \in Headers /\ Rank["concepts.hpp"] < r BY RankIs DEF Headers
  <2>2. /\ 1 \in 1..Len(concepts_hpp) /\ 3 \in 1..Len(concepts_hpp)
        /\ 5 \in 1..Len(concepts_hpp) /\ 7 \in 1..Len(concepts_hpp)
    BY ConceptsText
  <2>3. {"concepts", "totally_ordered_with"} \subseteq declared
    BY <1>1, <2>1, <2>2, ConceptsText, TextIs DEF Declare
  <2>4. {"invocable"} \subseteq declared
    BY <1>1, <2>1, <2>2, ConceptsText, TextIs DEF Declare
  <2>5. "functional.hpp" \in entered
    BY <1>1, <2>1, <2>2, ConceptsText, TextIs DEF Include
  <2>6. "utility.hpp" \in entered
    BY <1>1, <2>1, <2>2, ConceptsText, TextIs DEF Include
  <2> QED BY <1>4, <1>6, <2>3, <2>4, <2>5, <2>6
<1>8. "iterator.hpp" \in entered /\ 5 < r => "reverse_iterator" \in declared
  <2> SUFFICES ASSUME "iterator.hpp" \in entered, 5 < r PROVE "reverse_iterator" \in declared
    OBVIOUS
  <2>1. "iterator.hpp" \in Headers /\ Rank["iterator.hpp"] < r BY RankIs DEF Headers
  <2>2. 7 \in 1..Len(iterator_hpp) BY IteratorText
  <2> QED BY <1>1, <2>1, <2>2, IteratorText, TextIs DEF Declare
<1> QED BY <1>2, <1>3, <1>4, <1>5, <1>7, <1>8


\* A use that is read finds its names, but for the cycle and what no header declares.
LEMMA UseServed ==
  ASSUME Inv, ReadUse
  PROVE  NextItem.names \ declared \subseteq
           {"invoke", "totally_ordered_with",
            "numeric_limits", "initializer_list", "unexpect_t"}
<1> DEFINE n == Len(open)  f == open[n].file  p == At(open[n])
           Rest == {"invoke", "totally_ordered_with",
                    "numeric_limits", "initializer_list", "unexpect_t"}
<1>1. Reading /\ NextItem.do = "use" BY DEF ReadUse
<1>2. /\ n \in 1..n /\ p \in 1..Size(f) /\ NextItem = Text(f)[p]
      /\ f \in Headers /\ p \in 1..Len(Text(f))
  BY <1>1, ReadIs, OpenIs DEF Inv, Size
<1>3. Below(Rank[f]) BY <1>1, BelowIs DEF Inv
<1>4. Rank[f] \in 0..6 BY <1>2, RankIs
<1>5. \A i \in 1..(p - 1) :
        /\ Text(f)[i].do = "declare" => Text(f)[i].names \subseteq declared
        /\ Text(f)[i].do = "include" => Text(f)[i].file \in entered
  <2>1. Done(f, p, declared, entered) BY <1>2 DEF Inv, Effects
  <2> QED BY <2>1 DEF Done
<1> HIDE DEF n, f, p
<1>6. /\ "cstddef.hpp" \in entered /\ 0 < Rank[f] =>
           {"size_t", "ptrdiff_t", "nullptr_t"} \subseteq declared
      /\ "type_traits.hpp" \in entered /\ 1 < Rank[f] =>
           {"traits", "size_t", "nullptr_t"} \subseteq declared
      /\ "utility.hpp" \in entered /\ 2 < Rank[f] =>
           {"utilities", "traits", "size_t"} \subseteq declared
      /\ "memory.hpp" \in entered /\ 3 < Rank[f] =>
           {"addressof", "to_address"} \subseteq declared
      /\ "concepts.hpp" \in entered /\ 4 < Rank[f] =>
           {"concepts", "invocable", "identity", "ranges::less", "to_address", "traits",
               "utilities"}
             \subseteq declared
      /\ "iterator.hpp" \in entered /\ 5 < Rank[f] => "reverse_iterator" \in declared
  BY <1>3, <1>4, EnteredIs DEF Inv
<1>7. CASE f = "cstddef.hpp"
  <2>1. p = 1 BY <1>2, <1>7, TextIs, CstddefText
  <2> QED BY <1>1, <1>2, <1>7, <2>1, TextIs, CstddefText DEF Declare
<1>8. CASE f = "type_traits.hpp"
  <2>1. p = 1 \/ p = 2 \/ p = 3 BY <1>2, <1>8, TextIs, TypeTraitsText
  <2>2. p = 2 /\ NextItem.names = {"size_t", "nullptr_t"}
    BY <1>1, <1>2, <1>8, <2>1, TextIs, TypeTraitsText DEF Include, Declare, Use
  <2>3. 1 \in 1..(p - 1) BY <2>2
  <2>4. "cstddef.hpp" \in entered BY <1>5, <1>8, <2>3, TextIs, TypeTraitsText DEF Include
  <2> QED BY <1>6, <1>8, <2>2, <2>4, RankIs
<1>9. CASE f = "utility.hpp"
  <2>1. p = 1 \/ p = 2 \/ p = 3 BY <1>2, <1>9, TextIs, UtilityText
  <2>2. p = 2 /\ NextItem.names = {"traits", "size_t"}
    BY <1>1, <1>2, <1>9, <2>1, TextIs, UtilityText DEF Include, Declare, Use
  <2>3. 1 \in 1..(p - 1) BY <2>2
  <2>4. "type_traits.hpp" \in entered BY <1>5, <1>9, <2>3, TextIs, UtilityText DEF Include
  <2> QED BY <1>6, <1>9, <2>2, <2>4, RankIs
<1>10. CASE f = "memory.hpp"
  <2>1. p = 1 \/ p = 2 \/ p = 3 \/ p = 4 \/ p = 5 \/ p = 6 \/ p = 7 \/ p = 8
    BY <1>2, <1>10, TextIs, MemoryText
  <2>2. \/ p = 5 /\ NextItem.names = {"traits", "utilities", "size_t", "ptrdiff_t"}
        \/ p = 7 /\ NextItem.names = {"numeric_limits"}
    BY <1>1, <1>2, <1>10, <2>1, TextIs, MemoryText DEF Include, Declare, Use
  <2>3. 1 \in 1..(p - 1) /\ 3 \in 1..(p - 1) BY <2>2
  <2>4. "cstddef.hpp" \in entered BY <1>5, <1>10, <2>3, TextIs, MemoryText DEF Include
  <2>5. "utility.hpp" \in entered BY <1>5, <1>10, <2>3, TextIs, MemoryText DEF Include
  <2> QED BY <1>6, <1>10, <2>2, <2>4, <2>5, RankIs
<1>11. CASE f = "concepts.hpp"
  <2>1. p = 1 \/ p = 2 \/ p = 3 \/ p = 4 \/ p = 5 \/ p = 6 \/ p = 7
    BY <1>2, <1>11, TextIs, ConceptsText
  <2>2. \/ p = 4 /\ NextItem.names = {"traits", "utilities", "size_t"}
        \/ p = 6 /\ NextItem.names = {"invoke"}
    BY <1>1, <1>2, <1>11, <2>1, TextIs, ConceptsText DEF Include, Declare, Use
  <2>3. 3 \in 1..(p - 1) BY <2>2
  <2>4. "utility.hpp" \in entered BY <1>5, <1>11, <2>3, TextIs, ConceptsText DEF Include
  <2> QED BY <1>6, <1>11, <2>2, <2>4, RankIs
<1>12. CASE f = "functional.hpp"
  <2>1. \/ p = 1 \/ p = 2 \/ p = 3 \/ p = 4 \/ p = 5
        \/ p = 6 \/ p = 7 \/ p = 8 \/ p = 9 \/ p = 10
    BY <1>2, <1>12, TextIs, FunctionalText
  <2>2. \/ p = 5 /\ NextItem.names = {"traits", "utilities"}
        \/ p = 7 /\ NextItem.names = {"addressof"}
        \/ p = 9 /\ NextItem.names = {"totally_ordered_with"}
    BY <1>1, <1>2, <1>12, <2>1, TextIs, FunctionalText DEF Include, Declare, Use
  <2>3. 2 \in 1..(p - 1) /\ 4 \in 1..(p - 1) BY <2>2
  <2>4. "memory.hpp" \in entered BY <1>5, <1>12, <2>3, TextIs, FunctionalText DEF Include
  <2>5. "utility.hpp" \in entered BY <1>5, <1>12, <2>3, TextIs, FunctionalText DEF Include
  <2> QED BY <1>6, <1>12, <2>2, <2>4, <2>5, RankIs
<1>13. CASE f = "iterator.hpp"
  <2>1. p = 1 \/ p = 2 \/ p = 3 \/ p = 4 \/ p = 5 \/ p = 6 \/ p = 7
    BY <1>2, <1>13, TextIs, IteratorText
  <2>2. \/ p = 4 /\ NextItem.names = {"traits", "utilities", "concepts", "ptrdiff_t"}
        \/ p = 6 /\ NextItem.names = {"to_address", "invocable", "identity", "ranges::less"}
    BY <1>1, <1>2, <1>13, <2>1, TextIs, IteratorText DEF Include, Declare, Use
  <2>3. 1 \in 1..(p - 1) /\ 2 \in 1..(p - 1) BY <2>2
  <2>4. "concepts.hpp" \in entered BY <1>5, <1>13, <2>3, TextIs, IteratorText DEF Include
  <2>5. "cstddef.hpp" \in entered BY <1>5, <1>13, <2>3, TextIs, IteratorText DEF Include
  <2> QED BY <1>6, <1>13, <2>2, <2>4, <2>5, RankIs
<1>14. CASE f = "array.hpp"
  <2>1. p = 1 \/ p = 2 \/ p = 3 \/ p = 4 \/ p = 5 \/ p = 6
    BY <1>2, <1>14, TextIs, ArrayText
  <2>2. /\ p = 5
        /\ NextItem.names = {"traits", "utilities", "size_t", "ptrdiff_t", "reverse_iterator"}
    BY <1>1, <1>2, <1>14, <2>1, TextIs, ArrayText DEF Include, Declare, Use
  <2>3. 1 \in 1..(p - 1) /\ 2 \in 1..(p - 1) /\ 4 \in 1..(p - 1) BY <2>2
  <2>4. "cstddef.hpp" \in entered BY <1>5, <1>14, <2>3, TextIs, ArrayText DEF Include
  <2>5. "iterator.hpp" \in entered BY <1>5, <1>14, <2>3, TextIs, ArrayText DEF Include
  <2>6. "utility.hpp" \in entered BY <1>5, <1>14, <2>3, TextIs, ArrayText DEF Include
  <2> QED BY <1>6, <1>14, <2>2, <2>4, <2>5, <2>6, RankIs
<1>15. CASE f = "expected.hpp"
  <2>1. p = 1 \/ p = 2 \/ p = 3 BY <1>2, <1>15, TextIs, ExpectedText
  <2>2. /\ p = 2
        /\ NextItem.names = {"traits", "utilities", "initializer_list", "unexpect_t"}
    BY <1>1, <1>2, <1>15, <2>1, TextIs, ExpectedText DEF Include, Declare, Use
  <2>3. 1 \in 1..(p - 1) BY <2>2
  <2>4. "utility.hpp" \in entered BY <1>5, <1>15, <2>3, TextIs, ExpectedText DEF Include
  <2> QED BY <1>6, <1>15, <2>2, <2>4, RankIs
<1> QED BY <1>2, <1>7, <1>8, <1>9, <1>10, <1>11, <1>12, <1>13, <1>14, <1>15 DEF Headers

\* In whatever order the headers come: a name that is missing is one of the cycle or one
\* that no header declares (for instance src/lib/iterator.hpp:3, which reaches addressof
\* and identity through concepts.hpp alone).
THEOREM RestFound == Spec => []OthersFound
<1> DEFINE Rest == {"invoke", "totally_ordered_with",
                    "numeric_limits", "initializer_list", "unexpect_t"}
<1>1. Init => OthersFound BY DEF Init, OthersFound
<1>2. Inv /\ OthersFound /\ [Next]_vars => OthersFound'
  <2> SUFFICES ASSUME Inv, OthersFound, [Next]_vars PROVE OthersFound' OBVIOUS
  <2>1. CASE missing' = missing BY <2>1 DEF OthersFound
  <2>2. CASE ReadUse
    <3>1. missing' = missing \cup ({Last(open).file} \X (NextItem.names \ declared))
      BY <2>2 DEF ReadUse
    <3>2. NextItem.names \ declared \subseteq Rest BY <2>2, UseServed
    <3>3. ASSUME NEW m \in missing'
          PROVE  m[2] \in {"invoke", "totally_ordered_with"} \/ m[2] \notin Declarable
      <4>1. CASE m \in missing BY <4>1 DEF OthersFound
      <4>2. CASE m \in {Last(open).file} \X (NextItem.names \ declared)
        <5>1. m[2] \in Rest BY <3>2, <4>2
        <5> QED BY <5>1, NotDeclared
      <4> QED BY <3>1, <4>1, <4>2
    <3> QED BY <3>3 DEF OthersFound
  <2> QED BY <2>1, <2>2 DEF Next, Read, ReadInclude, ReadDeclaration, Leave, IncludeNext, vars
<1> QED BY <1>1, <1>2, InvInit, InvNext, PTL DEF Spec

\* A name that a header declares is missing only where the header is being read further
\* out: nothing that includes all it needs, and belongs to no cycle, ever misses one, and
\* concepts.hpp and functional.hpp do only inside one another (lib/concepts.hpp:3,
\* lib/functional.hpp:3).
THEOREM CycleAlone == Spec => MissedInCycleOnly
<1>1. Inv /\ [Next]_vars =>
        [\A m \in missing' \ missing :
           m[2] \in Declarable =>
             \E k \in 1..(Len(open) - 1) : m[2] \in DeclaredIn(Text(open[k].file))]_vars
  <2> SUFFICES ASSUME Inv, Next, NEW m \in missing', m \notin missing, m[2] \in Declarable
               PROVE  \E k \in 1..(Len(open) - 1) : m[2] \in DeclaredIn(Text(open[k].file))
    OBVIOUS
  <2> DEFINE n == Len(open)  f == open[n].file  p == At(open[n])
  <2>1. ReadUse
    BY DEF Next, Read, ReadInclude, ReadDeclaration, Leave, IncludeNext
  <2>2. /\ Reading /\ NextItem.do = "use"
        /\ m \in {Last(open).file} \X (NextItem.names \ declared)
    BY <2>1 DEF ReadUse
  <2>3. /\ n \in Nat /\ n \in 1..n /\ p \in 1..Len(Text(f)) /\ NextItem = Text(f)[p]
        /\ f \in Headers
    BY <2>2, ReadIs, OpenIs DEF Inv, Stack, Size
  <2>4. m[2] \in NextItem.names /\ m[2] \notin declared BY <2>2
  <2>5. m[2] \in {"invoke", "totally_ordered_with"} BY <2>1, <2>4, UseServed, NotDeclared
  <2>6. PICK z \in Cycle : Wanted[z] = m[2] BY <2>5, CycleIs DEF Cycle
  <2>7. f = z /\ p = WantedAt[z]
    <3>1. Uses(f, Text(f)) BY <2>3, AllRegular DEF Regular
    <3> HIDE DEF f, p
    <3> QED BY <2>2, <2>3, <2>4, <2>6, <3>1 DEF Uses
  <2>8. p # 1 /\ p # 2 /\ f \in entered BY <2>3, <2>7, CycleIs DEF Cycle, Inv, Stack
  <2>9. ASSUME NEW j \in 1..n, open[j].file = f PROVE j = n
    BY <2>3, <2>9 DEF Inv, Stack
  <2>10. PICK x \in Cycle, y \in Cycle :
           x # y /\ (Started(x, y) \/ Inside(x, y) \/ Through(x, y))
    BY <2>7, <2>8 DEF Inv, CycleInv, Untouched
  <2>11. f = x \/ f = y BY <2>7, <2>10 DEF Cycle
  <2>12. Wanted[x] = Given[y] /\ Wanted[y] = Given[x] BY <2>10, TwoFiles
  <2>13. ~Started(x, y) BY <2>8 DEF Started
  <2>14. ~Through(x, y)
    <3> SUFFICES ASSUME Through(x, y) PROVE FALSE OBVIOUS
    <3>1. f # y /\ Given[y] \in declared BY <2>3 DEF Through
    <3> QED BY <2>4, <2>6, <2>7, <2>11, <2>12, <3>1
  <2>15. PICK j \in 1..n : j # n /\ open[j].file = x /\ f = y
    <3>1. PICK j \in 1..n, k \in 1..n :
            j < k /\ open[j].file = x /\ At(open[j]) = 2 /\ open[k].file = y
      BY <2>10, <2>13, <2>14 DEF Inside
    <3>2. j # n BY <2>3, <3>1
    <3>3. f # x BY <2>9, <3>1, <3>2
    <3> QED BY <2>11, <3>1, <3>2, <3>3
  <2>16. j \in 1..(n - 1) BY <2>3, <2>15
  <2>17. m[2] \in DeclaredIn(Text(x))
    <3>1. Given[x] = m[2] BY <2>6, <2>7, <2>12, <2>15
    <3>2. GivenAt[x] \in 1..Len(Text(x)) /\ x \in Headers
      <4>1. GivenAt[x] \in 2..Size(x) /\ x \in Headers BY <2>10, TwoFiles
      <4>2. Size(x) \in Nat /\ Size(x) = Len(Text(x)) BY <4>1, SizeIs DEF Size
      <4> QED BY <4>1, <4>2
    <3>3. Text(x)[GivenAt[x]].do = "declare" BY TheItems
    <3>4. Given[x] \in Text(x)[GivenAt[x]].names
      BY <3>2, <3>3, AllRegular DEF Regular, Declares
    <3>5. Text(x)[GivenAt[x]] \in ToSet(Text(x)) BY <3>2, SizeIs DEF ToSet
    <3> QED BY <3>1, <3>3, <3>4, <3>5 DEF DeclaredIn
  <2>18. m[2] \in DeclaredIn(Text(open[j].file)) BY <2>15, <2>17
  <2>19. j \in 1..(Len(open) - 1) BY <2>16
  <2> QED BY <2>18, <2>19, Zenon
<1> QED BY <1>1, InvInit, InvNext, PTL DEF Spec, MissedInCycleOnly
=============================================================================
