---------------------------- MODULE CommonTypes ----------------------------
(***************************************************************************)
(* common_type and common_reference (lib/type_traits.hpp), for two types   *)
(* among those whose common type the language finds by its own rules:      *)
(* void, arithmetic types, and a class with a class derived from it.       *)
(*                                                                         *)
(* The first part gives the conditional operator and the implicit          *)
(* conversions.  An expression is written as the type that declval has for *)
(* it: a reference, or void.  What has no member "type" gives the empty    *)
(* set.                                                                    *)
(***************************************************************************)
EXTENDS TypeTraits

Ranked == {"int", "long"}
Family == {"class", "derived"}   \* "derived" is a class derived from "class"

Combinable(T) == /\ Form(remove_reference(T)) \in {"void"} \cup Ranked \cup Family
                 /\ Len(remove_reference(T)) = 1

declval(T) == add_rvalue_reference(T)
Named(T)   == Form(remove_reference(T))
Cv(T)      == CvOf(remove_reference(T))
Derives(b, c) == b = c \/ (b = "derived" /\ c = "class")

-----------------------------------------------------------------------------
(* The language.                                                           *)

\* The reference R is bound to the expression e itself: a reference to const may be bound
\* to an xvalue, but not when the operand of a conditional is converted to it: that is the
\* wording "must bind directly to an lvalue", which GCC 12 follows, and not the later one
\* of C++20, "to a glvalue".
BindsTo(e, R) == /\ Derives(Named(e), Named(R)) /\ Cv(e) \subseteq Cv(R)
                 /\ is_lvalue_reference(R) <=> is_lvalue_reference(e)

\* An object is copied from e; no copy constructor takes a volatile object.
Copies(e, T) ==
  IF Named(T) \in Ranked THEN Named(e) \in Ranked
  ELSE /\ Named(e) \in Family /\ Derives(Named(e), Named(T))
       /\ Named(T) \in Family /\ "volatile" \notin Cv(e)

\* A temporary is made for a reference to const or an rvalue reference when e is of
\* another type.
is_convertible(From, To) ==
  IF is_void(From) \/ is_void(To) THEN is_void(From) /\ is_void(To)
  ELSE LET e == declval(From) IN
    \/ ~is_reference(To) /\ Copies(e, To)
    \/ is_reference(To) /\ BindsTo(e, To)
    \/ is_lvalue_reference(To) /\ Cv(To) = {"const"} /\ BindsTo(e, RRef(remove_reference(To)))
    \/ /\ is_rvalue_reference(To) \/ (is_lvalue_reference(To) /\ Cv(To) = {"const"})
       /\ ~Derives(Named(e), Named(To)) /\ Copies(e, To)

\* The type to which the operand e of a conditional is converted to match the operand o.
Matches(e, o) ==
  IF BindsTo(e, o) THEN {o}
  ELSE IF {Named(e), Named(o)} \subseteq Family /\ Derives(Named(e), Named(o))
          /\ Cv(e) \subseteq Cv(o) THEN {remove_reference(o)}
  ELSE {}

\* decltype(false ? e : o) of operands that are not converted to each other any more.
Merged(e, o) ==
  IF e = o THEN {e}
  ELSE IF {Named(e), Named(o)} \subseteq Ranked
  THEN {<<Plain(IF "long" \in {Named(e), Named(o)} THEN "long" ELSE "int")>>}
  ELSE IF remove_reference(e) = remove_reference(o) /\ "volatile" \notin Cv(e)
  THEN {remove_reference(e)}
  ELSE {}

Conditional(e, o) ==
  IF is_void(e) \/ is_void(o)
  THEN IF is_void(e) /\ is_void(o) THEN {<<Plain("void")>>} ELSE {}
  ELSE IF /\ remove_reference(e) # remove_reference(o)
          /\ \/ {Named(e), Named(o)} \cap Family # {}
             \/ Form(e) = Form(o) /\ Named(e) = Named(o)
  THEN CASE Matches(e, o) # {} /\ Matches(o, e) # {} -> {}
         [] Matches(e, o) # {} ->
              IF is_reference(CHOOSE T \in Matches(e, o) : TRUE) \/ "volatile" \notin Cv(e)
              THEN UNION {Merged(T, o) : T \in Matches(e, o)} ELSE {}
         [] Matches(o, e) # {} ->
              IF is_reference(CHOOSE T \in Matches(o, e) : TRUE) \/ "volatile" \notin Cv(o)
              THEN UNION {Merged(e, T) : T \in Matches(o, e)} ELSE {}
         [] OTHER -> Merged(e, o)
  ELSE Merged(e, o)

-----------------------------------------------------------------------------
(* common_type.                                                            *)

cond_res(T, U) == Conditional(declval(T), declval(U))

decay_conditional_result(T, U) == {decay(R) : R \in cond_res(T, U)}

\* The names const T1& and const T2& are formed also for void, where they do not exist: the
\* program is ill-formed, and not just without a common type.
IllFormed(T, U) == is_void(T) # is_void(U)

common_type_2_impl(T, U) ==
  IF cond_res(T, U) # {} THEN decay_conditional_result(T, U)
  ELSE decay_conditional_result(LRef(add_const(T)), LRef(add_const(U)))

\* Decayed types are their own decay, so that this goes round twice at most.
common_type(T, U) == common_type_2_impl(decay(T), decay(U))

-----------------------------------------------------------------------------
(* common_reference.                                                       *)

copy_cv(From, To) == WithCv(To, CvOf(To) \cup CvOf(From))

\* Bug: copy_cv_t<X, Y> twice, for copy_cv_t<Y, X>.
CopiedOneWay(X, Y) ==
  {R \in cond_res(LRef(copy_cv(X, Y)), LRef(copy_cv(X, Y))) : is_reference(R)}

\* Of two lvalues, X& and Y&.
common_ref_lvalue(X, Y) ==
  {R \in cond_res(LRef(copy_cv(X, Y)), LRef(copy_cv(Y, X))) : is_reference(R)}

\* Of two rvalues, X&& and Y&&.
common_ref_rvalue(X, Y) ==
  {R \in {RRef(remove_reference(L)) : L \in common_ref_lvalue(X, Y)} :
     is_convertible(RRef(X), R) /\ is_convertible(RRef(Y), R)}

\* Bug: whether X&& can be converted to it is not asked.
MixedUnconverted(X, Y) == common_ref_lvalue(add_const(X), Y)

\* Of an rvalue X&& and an lvalue Y&.
common_ref_mixed(X, Y) ==
  {R \in common_ref_lvalue(add_const(X), Y) : is_convertible(RRef(X), R)}

common_ref(T, U) ==
  LET X == remove_reference(T)  Y == remove_reference(U)
  IN CASE is_lvalue_reference(T) /\ is_lvalue_reference(U) -> common_ref_lvalue(X, Y)
       [] is_rvalue_reference(T) /\ is_rvalue_reference(U) -> common_ref_rvalue(X, Y)
       [] is_rvalue_reference(T) /\ is_lvalue_reference(U) -> common_ref_mixed(X, Y)
       [] is_lvalue_reference(T) /\ is_rvalue_reference(U) -> common_ref_mixed(Y, X)
       [] OTHER -> {}

\* Bug: the common type is not looked for in the end.
WithoutCommonType(T, U) ==
  IF common_ref(T, U) # {} THEN common_ref(T, U) ELSE cond_res(T, U)

\* Nothing specializes basic_common_reference for these types, so step 2 finds nothing.
common_reference(T, U) ==
  CASE common_ref(T, U) # {} -> common_ref(T, U)
    [] common_ref(T, U) = {} /\ cond_res(T, U) # {} -> cond_res(T, U)
    [] OTHER -> common_type(T, U)

\* common_reference of more than two, from the left; without a first common reference the
\* program is ill-formed.
common_reference_of(Ts) ==
  LET f[n \in 1..Len(Ts)] ==
        IF n = 1 THEN {Ts[1]} ELSE UNION {common_reference(R, Ts[n]) : R \in f[n - 1]}
  IN f[Len(Ts)]

-----------------------------------------------------------------------------
(* Metaprograms that combine a type with another one.                      *)

Combined == {T \in {<<[form |-> b, cv |-> cv]>> \o ref :
                      b \in {"void"} \cup Ranked \cup Family,
                      cv \in SUBSET {"const", "volatile"},
                      ref \in {<< >>, <<Plain("&")>>, <<Plain("&&")>>}} :
               Len(T) = 2 => CanRefer(Front(T))}

Combine == /\ Combinable(type)
           /\ \E U \in Combined : /\ ~IllFormed(type, U)
                                 /\ type' \in common_type(type, U) \cup common_reference(type, U)

CommonNext == Next \/ Combine

CommonSpec == Init /\ [][CommonNext]_type

-----------------------------------------------------------------------------
(* What must hold.                                                         *)

\* common_reference_with and common_with (lib/concepts.hpp:28-49) demand that a common
\* type does not depend on the order, and that both types convert to it.  The first
\* follows from the definitions; the second too, but for volatile objects of a class,
\* which cannot be copied into it.  And there is a common reference only where there is a
\* common type, of which it is a qualified form or a reference to one.
CommonAgrees ==
  Combinable(type) =>
    \A U \in {U \in Combined : ~IllFormed(type, U)} :
      /\ common_type(type, U) = common_type(U, type)
      /\ common_reference(type, U) = common_reference(U, type)
      /\ common_type(type, U) = {remove_cvref(R) : R \in common_reference(type, U)}
      /\ \A R \in common_reference(type, U) :
           \/ is_convertible(type, R)
           \/ Named(type) \in Family /\ "volatile" \in Cv(type) /\ ~is_reference(R)

\* A common reference that is a reference refers to the operands themselves and never to a
\* temporary, and gives no access that an operand did not: it is as qualified as both, and
\* an rvalue is not reached through an lvalue reference unless that is to const only.
NothingGained ==
  Combinable(type) =>
    \A U \in {U \in Combined : ~IllFormed(type, U)} :
      \A R \in {R \in common_reference(type, U) : is_reference(R)}, T \in {type, U} :
        /\ Derives(Named(T), Named(R)) /\ Cv(T) \subseteq Cv(R)
        /\ is_lvalue_reference(T) => is_lvalue_reference(R)
        /\ is_lvalue_reference(R) => is_lvalue_reference(T) \/ Cv(R) = {"const"}

\* The common reference of three types is found from the left, two at a time
\* (lib/type_traits.hpp:1611-1613): whether there is one does not depend on the order,
\* nor, of lvalues, which one it is.
OrderIrrelevant ==
  Combinable(type) /\ ~is_void(type) =>
    \A U, V \in {U \in Combined : ~is_void(U)} :
      LET one == common_reference_of(<<type, U, V>>)
          other == common_reference_of(<<type, V, U>>)
      IN /\ one = {} <=> other = {}
         /\ (\A T \in {type, U, V} : is_lvalue_reference(T)) => one = other
=============================================================================
