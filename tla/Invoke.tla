------------------------------- MODULE Invoke -------------------------------
(***************************************************************************)
(* How lib/ calls what it is given: the overloads of detail::invoke_impl   *)
(* and the traits over them (type_traits.hpp), cleo::invoke, invoke_r and  *)
(* reference_wrapper (functional.hpp).                                     *)
(*                                                                         *)
(* A metaprogram asks for a callable and its arguments whether they can be *)
(* invoked, and may then invoke them.  A step of the call is an operation  *)
(* that runs code of the caller's types: the operator* of a handle, the    *)
(* callable itself, and the conversion of its result.  Each may throw, and *)
(* the exception leaves all the functions that have been entered.          *)
(***************************************************************************)
EXTENDS Naturals, Sequences

CONSTANTS MaxWraps,   \* bound: reference_wrappers around a callable
          None        \* no call

ASSUME WrapAssumption == MaxWraps \in Nat

-----------------------------------------------------------------------------
(* Types of the caller.  A callable is a function, an object with a call   *)
(* operator, or a pointer to a member of a class or a union, and may be    *)
(* inside reference_wrappers.  "qual" is the qualifier of the function or  *)
(* call operator that runs; "const" and "category" are those of the        *)
(* expression that names the callable.                                     *)

MemberPointers == {"member function", "member object"}
Kinds      == {"function", "functor"} \cup MemberPointers
Quals      == {"none", "const", "&", "&&"}
Categories == {"lvalue", "rvalue"}

Callables ==
  {f \in [kind : Kinds, of : {"class", "union"}, qual : Quals, params : 0..1,
          throws : BOOLEAN, const : BOOLEAN, category : Categories, wraps : 0..MaxWraps] :
     /\ f.kind \in {"function", "functor"} => f.of = "class"
     /\ f.kind \in {"function", "member object"} => f.qual = "none"
     /\ f.kind # "member function" => f.params = 0
     /\ f.kind = "member object" => ~f.throws
     /\ f.kind # "functor" => ~f.const /\ f.category = "rvalue"}

\* The first argument: an object, or what leads to it, the outermost first.  A "handle" is a
\* class derived from "class" that has an operator* of its own, which gives another object.
Links   == {"pointer", "smart pointer", "reference_wrapper"}
Paths   == {<< >>} \cup {<<l>> : l \in Links} \cup {<<"pointer", l>> : l \in Links}
Objects ==
  {o \in [what : {"class", "derived", "handle", "union", "other"}, via : Paths,
          const : BOOLEAN, category : Categories, throws : BOOLEAN] :
     o.throws => IF o.via = << >> THEN o.what = "handle" ELSE Head(o.via) = "smart pointer"}

\* "count" arguments, of which "first" is the first one.
Arguments == [first : Objects, count : 0..2]
SomeObject == CHOOSE o \in Objects : TRUE

\* What the result is to invoke_r<R>: discarded, or converted to R, if that can be done.
Results == {"void", "no conversion", "throwing conversion", "nothrow conversion"}

Calls == [f : Callables, a : Arguments, R : Results]
ASSUME NoneAssumption == None \notin Callables /\ None \notin Calls

-----------------------------------------------------------------------------
(* The language.                                                           *)

Accepts(qual, const, category) == /\ const => qual = "const"
                                  /\ qual = "&" => category = "lvalue"
                                  /\ qual = "&&" => category = "rvalue"

\* An expression of the result of operator* or get() is an lvalue.
CanDereference(o) == IF o.via = << >> THEN o.what = "handle"
                                      ELSE Head(o.via) # "reference_wrapper"
Dereferenced(o) ==
  IF o.via = << >> THEN [o EXCEPT !.what = "class", !.category = "lvalue"]
                   ELSE [o EXCEPT !.via = Tail(@), !.category = "lvalue"]

\* o.*f, and for a function (o.*f)(...).
CanAccess(f, o) ==
  /\ o.via = << >>
  /\ o.what \in (IF f.of = "union" THEN {"union"} ELSE {"class", "derived", "handle"})
  /\ f.kind = "member function" => Accepts(f.qual, o.const, o.category)

Arity(f) == IF f.kind \in MemberPointers THEN f.params + 1 ELSE f.params

\* std::is_base_of: a union is not a base of itself.
is_base_of(f, o) ==
  f.of = "class" /\ o.via = << >> /\ o.what \in {"class", "derived", "handle"}

-----------------------------------------------------------------------------
(* detail::invoke_impl: which overloads take f and the arguments a.        *)

\* Bug: the class of the object is compared, not its bases.
SameClass(f, o) == f.of = "class" /\ o.via = << >> /\ o.what = "class"

\* Bug: the requires clause of the overload for handles is forgotten.
EveryObject(f, o) == TRUE
takes_handle(f, o) == ~is_base_of(f, o)

invoke_impl(f, a) ==
  {e \in {"o.*f", "(*o).*f", "f()"} :
     /\ a.count = Arity(f)
     /\ e = "f()" <=> f.kind \notin MemberPointers
     /\ e = "o.*f" => is_base_of(f, a.first) /\ CanAccess(f, a.first)
     /\ e = "(*o).*f" => /\ takes_handle(f, a.first)
                         /\ CanDereference(a.first)
                         /\ CanAccess(f, Dereferenced(a.first))
     /\ e = "f()" => Accepts(f.qual, f.const, f.category)}

\* The call operator of reference_wrapper exists where T& can be invoked: of any number of
\* wrappers, what counts is the callable inside, an lvalue.
Inside(f) == IF f.wraps = 0 \/ f.kind # "functor" THEN [f EXCEPT !.wraps = 0]
             ELSE [f EXCEPT !.wraps = 0, !.category = "lvalue"]

is_invocable(f, a) == invoke_impl(Inside(f), a) # {}

\* Bug: what operator* of a handle throws is overlooked.
NothrowCall(f, a) == ~f.throws

\* The noexcept-specifications of invoke_impl.
invoke_is_nothrow(f, a) ==
  ~f.throws /\ ("(*o).*f" \in invoke_impl(Inside(f), a) => ~a.first.throws)

is_nothrow_invocable(f, a) == is_invocable(f, a) /\ invoke_is_nothrow(f, a)
is_invocable_r(R, f, a) == is_invocable(f, a) /\ R # "no conversion"
is_nothrow_invocable_r(R, f, a) ==
  is_invocable_r(R, f, a) /\ invoke_is_nothrow(f, a) /\ R # "throwing conversion"

-----------------------------------------------------------------------------
(* Calls.                                                                  *)

VARIABLES
  call,     \* the function, the callable and the arguments
  f,        \* the callable that is going to be invoked
  frames,   \* the functions entered: "noexcept" or "may throw"
  step,     \* the next operation
  risks     \* ghost: the operations done that may throw

vars == <<call, f, frames, step, risks>>

\* What a call operator does with its arguments is its own affair: they are not told apart.
\* invoke is an invoke_r that discards nothing and converts nothing, like invoke_r<void>.
Marks         == {"noexcept", "may throw"}
Mark(nothrow) == IF nothrow THEN "noexcept" ELSE "may throw"

Ask ==
  /\ step = "idle"
  /\ \E g \in Callables, a \in Arguments :
       /\ g.kind \in MemberPointers \/ a.first = SomeObject
       /\ call' = [f |-> g, a |-> a, R |-> "void"] /\ f' = g
  /\ step' = "asked"
  /\ UNCHANGED <<frames, risks>>

Begin(R) ==
  /\ step = "asked"
  /\ is_invocable_r(R, f, call.a)
  /\ call' = [call EXCEPT !.R = R]
  /\ frames' = <<Mark(is_nothrow_invocable_r(R, f, call.a))>>
  /\ step' = "select"
  /\ UNCHANGED <<f, risks>>

Forget == /\ step \in {"asked", "returned", "thrown"}
          /\ call' = None /\ f' = None /\ frames' = << >> /\ step' = "idle" /\ risks' = {}

\* Bug: the callable is taken out of wrappers that are not there.
UnwrapAnything ==
  /\ step = "select"
  /\ f' = [Inside(f) EXCEPT !.wraps = f.wraps - 1]
  /\ frames' = Append(frames, Mark(invoke_is_nothrow(f, call.a)))
  /\ UNCHANGED <<call, step, risks>>

\* invoke_impl calls reference_wrapper::operator(), and that invoke with T&.
Unwrap ==
  /\ step = "select"
  /\ f.wraps > 0
  /\ LET inside == [Inside(f) EXCEPT !.wraps = f.wraps - 1]
         mark == Mark(is_nothrow_invocable(inside, call.a))
     IN /\ f' = inside
        /\ frames' = frames \o <<Mark(invoke_is_nothrow(f, call.a)), mark, mark>>
  /\ UNCHANGED <<call, step, risks>>

Select ==
  /\ step = "select" /\ f.wraps = 0
  /\ frames' = Append(frames, Mark(invoke_is_nothrow(f, call.a)))
  /\ step' = IF "(*o).*f" \in invoke_impl(f, call.a) THEN "dereference" ELSE "run"
  /\ UNCHANGED <<call, f, risks>>

Throws == CASE step = "dereference" -> call.a.first.throws
            [] step = "run" -> f.throws
            [] step = "convert" -> call.R = "throwing conversion"
            [] OTHER -> FALSE

Advance(next) == /\ step' = next
                 /\ risks' = IF Throws THEN risks \cup {step} ELSE risks
                 /\ UNCHANGED <<call, f>>

Dereference == step = "dereference" /\ Advance("run") /\ UNCHANGED frames

\* All functions return but the first one, which converts the result.
Run == /\ step = "run"
       /\ Advance(IF call.R = "void" THEN "returned" ELSE "convert")
       /\ frames' = <<frames[1]>>

Convert == step = "convert" /\ Advance("returned") /\ UNCHANGED frames
Throw   == Throws /\ Advance("thrown") /\ UNCHANGED frames

Init == call = None /\ f = None /\ frames = << >> /\ step = "idle" /\ risks = {}

Next == \/ Ask
        \/ \E R \in Results : Begin(R)
        \/ Unwrap \/ Select \/ Dereference \/ Run \/ Convert \/ Throw \/ Forget

Spec == Init /\ [][Next]_vars

-----------------------------------------------------------------------------
(* What must hold.                                                         *)

\* Every variable has its type; each wrapper passed has put three functions on the stack,
\* and two more are on it at most (lib/functional.hpp:10-15, 60-64).
TypeOK ==
  /\ call \in Calls \cup {None}
  /\ f \in Callables \cup {None}
  /\ frames \in Seq(Marks) /\ risks \subseteq {"dereference", "run", "convert"}
  /\ f # None => f.wraps <= call.f.wraps /\ Len(frames) <= 3 * (call.f.wraps - f.wraps) + 2
  /\ step \in {"idle", "asked", "select", "dereference", "run", "convert",
               "returned", "thrown"}

\* INVOKE of [func.require] in C++23: a pointer to member of T is applied to an object of
\* T or of a class derived from T, to the object in a reference_wrapper, or to what the
\* argument points to.
INVOKE(g, a) ==
  LET o == a.first
      object == o.via = << >> /\ (o.what = g.of \/ is_base_of(g, o))
      wrapper == o.via # << >> /\ Head(o.via) = "reference_wrapper"
  IN IF a.count # Arity(g) THEN {}
     ELSE IF g.kind \notin MemberPointers
     THEN IF Accepts(g.qual, g.const, g.category) THEN {"f()"} ELSE {}
     ELSE IF object THEN IF CanAccess(g, o) THEN {"o.*f"} ELSE {}
     ELSE IF wrapper THEN IF CanAccess(g, Dereferenced(o)) THEN {"o.get().*f"} ELSE {}
     ELSE IF CanDereference(o) /\ CanAccess(g, Dereferenced(o)) THEN {"(*o).*f"} ELSE {}

\* invoke_impl realizes INVOKE (lib/type_traits.hpp:1615): it has exactly one overload for
\* what INVOKE allows, none for anything else, and the overload does what INVOKE says.
RealizesINVOKE ==
  step = "asked" => invoke_impl(Inside(f), call.a) = INVOKE(Inside(f), call.a)

\* The same but for a pointer to member applied to a reference_wrapper or a union: no call
\* is ambiguous, derived objects are not dereferenced, and no qualifier is lost on the way.
RealizesTheRest ==
  step = "asked" =>
    LET path == call.a.first.via IN
    \/ /\ f.kind \in MemberPointers
       /\ f.of = "union" \/ (path # << >> /\ Head(path) = "reference_wrapper")
    \/ invoke_impl(Inside(f), call.a) = INVOKE(Inside(f), call.a)

\* No exception passes a noexcept function on its way out, from however many wrappers
\* (lib/functional.hpp:12, 17, 62, lib/type_traits.hpp:1633-1673); and a call is noexcept
\* whenever nothing it did could have thrown, so that callers who ask for
\* is_nothrow_invocable_r are not sent away without need.
NoexceptExact ==
  /\ step = "thrown" => \A k \in DOMAIN frames : frames[k] = "may throw"
  /\ step = "returned" => (frames[1] = "noexcept" <=> risks = {})
=============================================================================
