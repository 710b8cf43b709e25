----------------------------- MODULE TypeTraits -----------------------------
(***************************************************************************)
(* The type transformations and categories of lib/type_traits.hpp.         *)
(*                                                                         *)
(* A type is the sequence of its layers, innermost first: a base type,     *)
(* then what is built on it.  const int (&)[2] is                          *)
(* <<[form |-> "int", cv |-> {"const"}], Plain("[2]"), Plain("&")>>.       *)
(* The first part gives the rules of the language that a partial           *)
(* specialization or a substitution failure appeals to; the traits follow  *)
(* the code.  The state is one type, and a step declares a type with it or *)
(* applies a transformation to it, as metaprograms do one after the other. *)
(***************************************************************************)
EXTENDS Naturals, Sequences, FiniteSets, SequencesExt

CONSTANTS SizeOf,      \* bytes of integral and enumeration types
          Enums,       \* enumerations
          Negative,    \* integral types with negative values
          MaxLayers    \* bound: layers of a type

SignedRanks   == <<"signed char", "short", "int", "long", "long long">>
UnsignedRanks == <<"unsigned char", "unsigned short", "unsigned int",
                   "unsigned long", "unsigned long long">>
Characters    == {"char", "wchar_t", "char8_t", "char16_t", "char32_t"}
Standard      == {SignedRanks[i] : i \in 1..5} \cup {UnsignedRanks[i] : i \in 1..5}

\* sizeof follows the ranks, every character and enumeration has the size of some rank,
\* and the standard types have the signs of their names.
ASSUME SizeAssumption ==
  /\ \A i \in 1..5 : SizeOf[SignedRanks[i]] = SizeOf[UnsignedRanks[i]]
  /\ \A i, j \in 1..5 : i <= j => SizeOf[SignedRanks[i]] <= SizeOf[SignedRanks[j]]
  /\ \A b \in Characters \cup Enums : \E i \in 1..5 : SizeOf[b] = SizeOf[SignedRanks[i]]
  /\ Negative \cap (Standard \cup {"bool"}) = {SignedRanks[i] : i \in 1..5}

-----------------------------------------------------------------------------
(* The language.  "function" is void(), "function const" is void() const,  *)
(* which no reference or pointer can be made to.                           *)

Functions  == {"function", "function const"}
Classes    == {"class", "derived", "reference_wrapper<class>"}
OtherBases == {"void", "nullptr_t", "bool", "float", "union"}
                \cup Standard \cup Characters \cup Classes \cup Functions
Bases      == OtherBases \cup Enums
References == {"&", "&&"}
Extents    == [form \in {"[]", "[2]", "[3]"} |->
                 CASE form = "[]" -> 0 [] form = "[2]" -> 2 [] form = "[3]" -> 3]
Arrays     == DOMAIN Extents
Derived    == References \cup Arrays \cup {"*", "C::*"}

\* Enumerations have names of their own.
ASSUME EnumAssumption == Enums \cap (OtherBases \cup Derived) = {}

ASSUME LayersAssumption == MaxLayers \in Nat

Plain(form)    == [form |-> form, cv |-> {}]
Form(T)        == Last(T).form
Build(T, form) == Append(T, Plain(form))

\* cv-qualifiers of an array are those of its elements; those of a function or a
\* reference are ignored.
Element(T) == CHOOSE i \in 1..Len(T) :
                /\ T[i].form \notin Arrays
                /\ \A j \in (i + 1)..Len(T) : T[j].form \in Arrays
CvOf(T)       == T[Element(T)].cv
WithCv(T, cv) == IF Form(T) \in Functions \cup References THEN T
                 ELSE [T EXCEPT ![Element(T)].cv = cv]

CanRefer(T) == Form(T) \notin {"void", "function const"}
CanPoint(T) == Form(T) \notin References \cup {"function const"}

\* T& and T&&, with references collapsed.
LRef(T) == IF Form(T) \in References THEN Build(Front(T), "&") ELSE Build(T, "&")
RRef(T) == IF Form(T) \in References THEN T ELSE Build(T, "&&")

-----------------------------------------------------------------------------
(* Transformations.                                                        *)

remove_cv(T)       == WithCv(T, {})
remove_const(T)    == WithCv(T, CvOf(T) \ {"const"})
remove_volatile(T) == WithCv(T, CvOf(T) \ {"volatile"})
add_const(T)       == WithCv(T, CvOf(T) \cup {"const"})
add_volatile(T)    == WithCv(T, CvOf(T) \cup {"volatile"})
add_cv(T)          == WithCv(T, {"const", "volatile"})

remove_reference(T) == IF Form(T) \in References THEN Front(T) ELSE T

\* Bug: T& without a fallback.
RefWithoutFallback(T) == LRef(T)
add_lvalue_reference(T) == IF CanRefer(T) THEN LRef(T) ELSE T

\* Bug: T&& is taken for an rvalue reference whatever T is.
RefWithoutCollapse(T) == IF CanRefer(T) THEN Build(remove_reference(T), "&&") ELSE T
add_rvalue_reference(T) == IF CanRefer(T) THEN RRef(T) ELSE T

remove_pointer(T) == IF Form(T) = "*" THEN Front(T) ELSE T

add_pointer(T) ==
  IF CanPoint(remove_reference(T)) THEN Build(remove_reference(T), "*") ELSE T

remove_extent(T) == IF Form(T) \in Arrays THEN Front(T) ELSE T

remove_all_extents(T) ==
  LET f[n \in 1..Len(T)] == IF T[n].form \in Arrays THEN f[n - 1] ELSE SubSeq(T, 1, n)
  IN f[Len(T)]

-----------------------------------------------------------------------------
(* Categories.                                                             *)

is_void(T)          == remove_cv(T) = <<Plain("void")>>
is_null_pointer(T)  == remove_cv(T) = <<Plain("nullptr_t")>>
is_integral_helper(T) == T \in {<<Plain(b)>> : b \in {"bool"} \cup Standard \cup Characters}

\* Bug: is_integral_helper<T>.
IntegralUnqualified(T) == is_integral_helper(T)
is_integral(T)      == is_integral_helper(remove_cv(T))
is_floating_point(T) == remove_cv(T) = <<Plain("float")>>
is_array(T)         == Form(T) \in Arrays
is_pointer(T)       == Form(T) = "*"
is_lvalue_reference(T) == Form(remove_cv(T)) = "&"
is_rvalue_reference(T) == Form(remove_cv(T)) = "&&"
is_enum(T)          == Len(T) = 1 /\ Form(T) \in Enums
is_union(T)         == Len(T) = 1 /\ Form(T) = "union"

\* Whether int T::* is a type; only a class or a union has members.
is_class(T)         == Len(T) = 1 /\ Form(T) \in Classes \cup {"union"} /\ ~is_union(T)
is_function(T)      == Len(T) = 1 /\ Form(T) \in Functions
is_member_function_pointer(T) == Form(remove_cv(T)) = "C::*" /\ is_function(Front(T))
is_member_object_pointer(T)   == Form(remove_cv(T)) = "C::*" /\ ~is_function(Front(T))

is_reference(T)      == Form(T) \in References
is_member_pointer(T) == Form(remove_cv(T)) = "C::*"
is_arithmetic(T)     == is_integral(T) \/ is_floating_point(T)
is_fundamental(T)    == is_arithmetic(T) \/ is_void(T) \/ remove_cv(T) = <<Plain("nullptr_t")>>
is_scalar(T) == \/ is_arithmetic(T) \/ is_enum(T) \/ is_pointer(T)
                \/ is_member_pointer(T) \/ is_null_pointer(T)

is_object(T)   == is_scalar(T) \/ is_array(T) \/ is_union(T) \/ is_class(T)
is_compound(T) == ~is_fundamental(T)

is_const(T)    == "const" \in CvOf(T)
is_volatile(T) == "volatile" \in CvOf(T)

\* T(-1) < T(0) for arithmetic types.
is_signed(T)   == is_arithmetic(T) /\ Form(T) \in Negative \cup {"float"}
is_unsigned(T) == is_arithmetic(T) /\ Form(T) \notin Negative \cup {"float"}

is_bounded_array(T)   == Form(T) \in Arrays \ {"[]"}
is_unbounded_array(T) == Form(T) = "[]"

rank(T) == LET f[n \in 1..Len(T)] == IF T[n].form \in Arrays THEN f[n - 1] + 1 ELSE 0
           IN f[Len(T)]

extent(T, N) ==
  LET f[n \in 1..Len(T)] ==
        [k \in 0..N |-> IF T[n].form \notin Arrays THEN 0
                        ELSE IF k = 0 THEN Extents[T[n].form] ELSE f[n - 1][k - 1]]
  IN f[Len(T)][N]

-----------------------------------------------------------------------------
(* Signs.  A transformation gives the set of its result: empty where there *)
(* is no member "type".                                                    *)

\* signed_integer_by_size and unsigned_integer_by_size.
by_size(ranks, size) ==
  {ranks[i] : i \in {i \in 1..5 : /\ SizeOf[ranks[i]] = size
                                  /\ \A j \in 1..(i - 1) : SizeOf[ranks[j]] # size}}

\* make_signed_raw and make_unsigned_raw.
make_raw(ranks, b) ==
  IF b \in Characters THEN by_size(ranks, SizeOf[b])
  ELSE {ranks[i] : i \in {i \in 1..5 : b \in {SignedRanks[i], UnsignedRanks[i]}}}

\* Bug: the result is not qualified.
CopyNothing(From, b) == <<Plain(b)>>
sign_copy_cv(From, b) == WithCv(<<Plain(b)>>, CvOf(From))

\* make_signed_selector and make_unsigned_selector.
make_rank(ranks, T) ==
  IF is_integral(remove_cv(T)) /\ remove_cv(T) # <<Plain("bool")>>
  THEN {sign_copy_cv(T, b) : b \in make_raw(ranks, Form(T))}
  ELSE IF is_enum(remove_cv(T))
  THEN {sign_copy_cv(T, b) : b \in by_size(ranks, SizeOf[Form(T)])}
  ELSE {}
make_signed(T)   == make_rank(SignedRanks, T)
make_unsigned(T) == make_rank(UnsignedRanks, T)

-----------------------------------------------------------------------------
(* Other transformations.                                                  *)

remove_cvref(T) == remove_cv(remove_reference(T))

\* Bug: the array and function cases look at T and not at U.
DecayOfReference(T) ==
  LET U == remove_reference(T)
  IN IF is_array(T) THEN add_pointer(remove_extent(U))
     ELSE IF is_function(T) THEN add_pointer(U) ELSE remove_cv(U)
decay(T) ==
  LET U == remove_reference(T)
  IN IF is_array(U) THEN add_pointer(remove_extent(U))
     ELSE IF is_function(U) THEN add_pointer(U) ELSE remove_cv(U)

unwrap_reference(T) ==
  IF T = <<Plain("reference_wrapper<class>")>> THEN <<Plain("class"), Plain("&")>> ELSE T

unwrap_ref_decay(T) == unwrap_reference(decay(T))

-----------------------------------------------------------------------------
(* Metaprograms.                                                           *)

VARIABLE type

\* A declaration: T[], T[N] or T C::*.
Declare(form) ==
  /\ Len(type) < MaxLayers
  /\ IF form = "C::*" THEN Form(type) \notin References \cup {"void"}
     ELSE Form(type) \notin References \cup Functions \cup {"void", "[]"}
  /\ type' = Build(type, form)

Qualify ==
  type' \in {remove_cv(type), remove_const(type), remove_volatile(type),
             add_const(type), add_volatile(type), add_cv(type)}

Unbuild ==
  type' \in {remove_reference(type), remove_pointer(type), remove_extent(type),
             remove_all_extents(type), remove_cvref(type)}

Refer ==
  /\ type' \in {add_lvalue_reference(type), add_rvalue_reference(type)}
  /\ Len(type') <= MaxLayers

Point == type' = add_pointer(type) /\ Len(type') <= MaxLayers

Decay == type' \in {decay(type), unwrap_ref_decay(type)} /\ Len(type') <= MaxLayers

ChangeSign == type' \in make_signed(type) \cup make_unsigned(type)

Init == type \in {<<Plain(b)>> : b \in Bases}

Next == \/ \E form \in Arrays \cup {"C::*"} : Declare(form)
        \/ Qualify \/ Unbuild \/ Refer \/ Point \/ Decay \/ ChangeSign

Spec == Init /\ [][Next]_type

-----------------------------------------------------------------------------
(* What must hold.                                                         *)

\* A layer of the form "on" can be put on one of the form "under".
Carries(under, on) ==
  /\ under \notin References
  /\ under = "void" => on = "*"
  /\ under = "function const" => on = "C::*"
  /\ under \in {"function", "[]"} => on \notin Arrays

\* T is a type of the language.
Exists(T) ==
  /\ T[1].form \in Bases /\ \A i \in 2..Len(T) : T[i].form \in Derived
  /\ \A i \in 1..Len(T) :
       /\ T[i].cv \subseteq {"const", "volatile"}
       /\ T[i].form \in References \cup Arrays \cup Functions => T[i].cv = {}
  /\ \A i \in 1..(Len(T) - 1) : Carries(T[i].form, T[i + 1].form)

\* No sequence of transformations forms a type the language does not have: a reference
\* to void, a pointer to a reference, an array of functions, a qualified reference.  This
\* is what the fallbacks of lib/type_traits.hpp:137-218 are there for.
TypeOK == Exists(type)

\* The primary categories of lib/type_traits.hpp:278-471.
Primary(T) == [void |-> is_void(T), null_pointer |-> is_null_pointer(T),
  integral |-> is_integral(T), floating_point |-> is_floating_point(T),
  array |-> is_array(T), pointer |-> is_pointer(T),
  lvalue_reference |-> is_lvalue_reference(T), rvalue_reference |-> is_rvalue_reference(T),
  member_object_pointer |-> is_member_object_pointer(T),
  member_function_pointer |-> is_member_function_pointer(T),
  enum |-> is_enum(T), union |-> is_union(T), class |-> is_class(T),
  function |-> is_function(T)]

\* Every type is in exactly one primary category, and in the same one however it is
\* qualified, although each category is found in its own way; and the composite categories
\* (lib/type_traits.hpp:474-555) are the unions that they are named for.  Only functions and
\* references cannot be qualified.
OneCategory ==
  LET c == Primary(type) IN
  /\ Cardinality({k \in DOMAIN c : c[k]}) = 1 /\ Primary(add_cv(type)) = c
  /\ is_reference(type) <=> c.lvalue_reference \/ c.rvalue_reference
  /\ is_member_pointer(type) <=> c.member_object_pointer \/ c.member_function_pointer
  /\ is_object(type) <=> ~(c.function \/ is_reference(type) \/ c.void)
  /\ is_compound(type) <=> ~(c.void \/ c.null_pointer \/ c.integral \/ c.floating_point)
  /\ is_const(add_cv(type)) /\ is_volatile(add_cv(type)) <=> ~(c.function \/ is_reference(type))
  /\ c.array <=> is_bounded_array(type) # is_unbounded_array(type)
  /\ is_arithmetic(type) <=> is_signed(type) # is_unsigned(type)

\* What a transformation adds is what its inverse takes off.  A reference never hides the
\* one that is there (an rvalue reference to an lvalue reference is an lvalue reference, as
\* declval and forwarding count on), add_pointer points to what a reference refers to, and
\* rank, extent and remove_all_extents see the same dimensions of an array.
LayersComeOff ==
  LET U == remove_reference(type)  P == add_pointer(type)  r == rank(type) IN
  /\ is_lvalue_reference(add_rvalue_reference(type)) <=> is_lvalue_reference(type)
  /\ is_lvalue_reference(add_lvalue_reference(type)) <=> CanRefer(type)
  /\ \A T \in {add_lvalue_reference(type), add_rvalue_reference(type)} :
       remove_reference(T) = U
  /\ IF CanPoint(U) THEN is_pointer(P) /\ remove_pointer(P) = U /\ remove_pointer(add_cv(P)) = U
                    ELSE P = type
  /\ remove_all_extents(type) = SubSeq(type, 1, Len(type) - r)
  /\ \A n \in 0..(MaxLayers + 1) :
       extent(type, n) = IF n < r THEN Extents[type[Len(type) - n].form] ELSE 0

\* A decayed type can be passed by value and decays to itself, so that common_type, which
\* decays its arguments until nothing changes (lib/type_traits.hpp:1410-1414), ends.
DecayIsFinal ==
  LET D == decay(type)
  IN /\ decay(D) = D
     /\ ~is_array(D) /\ ~is_reference(D) /\ CvOf(D) = {}
     /\ is_function(D) => ~CanPoint(D)

\* make_signed and make_unsigned have a result for exactly the integral types other than
\* bool and the enumerations: one of the same size and qualifiers, with the sign asked
\* for, and going through the other sign changes nothing.
SignsAgree ==
  LET has == (is_integral(type) /\ remove_cv(type) # <<Plain("bool")>>) \/ is_enum(type)
  IN /\ Cardinality(make_signed(type)) = IF has THEN 1 ELSE 0
     /\ Cardinality(make_unsigned(type)) = IF has THEN 1 ELSE 0
     /\ \A s \in make_signed(type), u \in make_unsigned(type) :
          /\ is_signed(s) /\ is_unsigned(u)
          /\ SizeOf[Form(s)] = SizeOf[Form(type)] /\ SizeOf[Form(u)] = SizeOf[Form(type)]
          /\ CvOf(s) = CvOf(type) /\ CvOf(u) = CvOf(type)
          /\ make_signed(u) = {s} /\ make_unsigned(s) = {u}
=============================================================================
