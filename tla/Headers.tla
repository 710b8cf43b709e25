------------------------------- MODULE Headers -------------------------------
(***************************************************************************)
(* The order in which the headers of lib/ are read.  A name has to be      *)
(* declared before it is used, even in a template that nothing             *)
(* instantiates, and with #pragma once a header is skipped as soon as it   *)
(* has been entered, finished or not.                                      *)
(*                                                                         *)
(* A header is the sequence of its includes and of the names it declares   *)
(* and uses, as far as another header declares or uses them; names that go *)
(* together are one name: "traits" for type_traits.hpp, "utilities" for    *)
(* utility.hpp, "concepts" for the first part of concepts.hpp, "iterators" *)
(* for the first part of iterator.hpp.                                     *)
(***************************************************************************)
EXTENDS Naturals, Sequences, FiniteSets, SequencesExt

CONSTANT MaxIncludes   \* bound: headers that a translation unit includes itself

Include(file)  == [do |-> "include", file |-> file]
Declare(names) == [do |-> "declare", names |-> names]
Use(names)     == [do |-> "use", names |-> names]

cstddef_hpp == <<Declare({"size_t", "ptrdiff_t", "nullptr_t"})>>

type_traits_hpp ==
  <<Include("cstddef.hpp"), Use({"size_t", "nullptr_t"}), Declare({"traits"})>>

utility_hpp ==
  <<Include("type_traits.hpp"), Use({"traits", "size_t"}), Declare({"utilities"})>>

memory_hpp ==
  <<Include("cstddef.hpp"), Include("type_traits.hpp"), Include("utility.hpp"),
    Declare({"addressof"}), Use({"traits", "utilities", "size_t", "ptrdiff_t"}),
    Declare({"to_address"}), Use({"numeric_limits"}), Declare({"allocator_traits"})>>

concepts_hpp ==
  <<Include("functional.hpp"), Include("type_traits.hpp"), Include("utility.hpp"),
    Use({"traits", "utilities", "size_t"}), Declare({"concepts", "totally_ordered_with"}),
    Use({"invoke"}), Declare({"invocable"})>>

\* Bug: the cycle is broken by taking the include out, and what needs it stays.
functional_alone ==
  <<Include("memory.hpp"), Include("type_traits.hpp"), Include("utility.hpp"),
    Use({"traits", "utilities"}), Declare({"invoke"}), Use({"addressof"}),
    Declare({"identity"}), Use({"totally_ordered_with"}), Declare({"ranges::less"})>>
functional_hpp ==
  <<Include("concepts.hpp"), Include("memory.hpp"), Include("type_traits.hpp"),
    Include("utility.hpp"), Use({"traits", "utilities"}), Declare({"invoke"}),
    Use({"addressof"}), Declare({"identity"}), Use({"totally_ordered_with"}),
    Declare({"ranges::less"})>>

iterator_hpp ==
  <<Include("concepts.hpp"), Include("cstddef.hpp"), Include("type_traits.hpp"),
    Use({"traits", "utilities", "concepts", "ptrdiff_t"}), Declare({"iterators"}),
    Use({"to_address", "invocable", "identity", "ranges::less"}),
    Declare({"reverse_iterator"})>>

\* Bug: array.hpp without its include of iterator.hpp.
array_alone ==
  <<Include("cstddef.hpp"), Include("type_traits.hpp"), Include("utility.hpp"),
    Use({"traits", "utilities", "size_t", "ptrdiff_t", "reverse_iterator"}),
    Declare({"array"})>>
array_hpp ==
  <<Include("cstddef.hpp"), Include("iterator.hpp"), Include("type_traits.hpp"),
    Include("utility.hpp"),
    Use({"traits", "utilities", "size_t", "ptrdiff_t", "reverse_iterator"}),
    Declare({"array"})>>

expected_hpp ==
  <<Include("utility.hpp"), Use({"traits", "utilities", "initializer_list", "unexpect_t"}),
    Declare({"expected"})>>

\* tests/type_traits.cpp.
type_traits_cpp ==
  <<Include("type_traits.hpp"), Include("functional.hpp"), Include("utility.hpp"),
    Use({"traits", "utilities", "invoke"})>>

Text(file) ==
  CASE file = "cstddef.hpp"     -> cstddef_hpp
    [] file = "type_traits.hpp" -> type_traits_hpp
    [] file = "utility.hpp"     -> utility_hpp
    [] file = "memory.hpp"      -> memory_hpp
    [] file = "concepts.hpp"    -> concepts_hpp
    [] file = "functional.hpp"  -> functional_hpp
    [] file = "iterator.hpp"    -> iterator_hpp
    [] file = "array.hpp"       -> array_hpp
    [] file = "expected.hpp"    -> expected_hpp

Headers == {"cstddef.hpp", "type_traits.hpp", "utility.hpp", "memory.hpp", "concepts.hpp",
            "functional.hpp", "iterator.hpp", "array.hpp", "expected.hpp"}

DeclaredIn(items) == UNION {item.names : item \in {i \in ToSet(items) : i.do = "declare"}}
Declarable == UNION {DeclaredIn(Text(file)) : file \in Headers}

-----------------------------------------------------------------------------
VARIABLES
  tu,         \* the headers included by the translation unit itself
  open,       \* the files being read, innermost last, each with what is left of it
  entered,    \* headers read or being read
  declared,   \* names declared so far
  missing     \* <<file, name>>: uses that found no declaration

vars == <<tu, open, entered, declared, missing>>

NextItem == Head(Last(open).rest)
Advanced  == [open EXCEPT ![Len(open)].rest = Tail(@)]
Reading   == open # << >> /\ Last(open).rest # << >>

PragmaOnce(file) == file \in entered

Enter(file) == IF PragmaOnce(file) THEN Advanced
               ELSE Append(Advanced, [file |-> file, rest |-> Text(file)])

ReadInclude ==
  /\ Reading /\ NextItem.do = "include"
  /\ open' = Enter(NextItem.file)
  /\ entered' = entered \cup {NextItem.file}
  /\ UNCHANGED <<tu, declared, missing>>

ReadDeclaration ==
  /\ Reading /\ NextItem.do = "declare"
  /\ declared' = declared \cup NextItem.names
  /\ open' = Advanced
  /\ UNCHANGED <<tu, entered, missing>>

ReadUse ==
  /\ Reading /\ NextItem.do = "use"
  /\ missing' = missing \cup ({Last(open).file} \X (NextItem.names \ declared))
  /\ open' = Advanced
  /\ UNCHANGED <<tu, entered, declared>>

Leave ==
  /\ open # << >> /\ Last(open).rest = << >>
  /\ open' = Front(open)
  /\ UNCHANGED <<tu, entered, declared, missing>>

\* The translation unit includes one more header.
IncludeNext(file) ==
  /\ open = << >> /\ Len(tu) < MaxIncludes
  /\ tu' = Append(tu, file)
  /\ IF PragmaOnce(file) THEN UNCHANGED <<open, entered>>
     ELSE open' = <<[file |-> file, rest |-> Text(file)]>> /\ entered' = entered \cup {file}
  /\ UNCHANGED <<declared, missing>>

Read == ReadInclude \/ ReadDeclaration \/ ReadUse \/ Leave

Init == /\ tu = << >> /\ open = << >>
        /\ entered = {} /\ declared = {} /\ missing = {}
Next == Read \/ \E file \in Headers : IncludeNext(file)

Spec == Init /\ [][Next]_vars

\* Compiling the tests of the traits.
TestInit == /\ tu = << >> /\ open = <<[file |-> "type_traits.cpp", rest |-> type_traits_cpp]>>
            /\ entered = {} /\ declared = {} /\ missing = {}
TestSpec == TestInit /\ [][Read]_vars

-----------------------------------------------------------------------------
(* What must hold.                                                         *)

\* A name that a header declares is looked for in vain only while that very header is
\* being read further out, by a header that it includes before it declares the name: what
\* fails is always a cycle under #pragma once, never an include that is not there or an
\* order of includes (lib/concepts.hpp:1-6, lib/functional.hpp:1-6).
MissedInCycleOnly ==
  [][\A m \in missing' \ missing :
       m[2] \in Declarable =>
         \E k \in 1..(Len(open) - 1) : m[2] \in DeclaredIn(Text(open[k].file))]_vars

\* Every other use is served, in whatever order the headers come and although some reach
\* what they need only through the includes of others: a name that is missing is one of
\* the cycle or one that no header declares.
OthersFound ==
  \A m \in missing : m[2] \in {"invoke", "totally_ordered_with"} \/ m[2] \notin Declarable

\* The translation unit compiles (tests/type_traits.cpp:75-76).
Compiles == missing = {}
=============================================================================
