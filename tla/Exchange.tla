------------------------------ MODULE Exchange ------------------------------
(***************************************************************************)
(* How lib/ exchanges and fills objects: cleo::swap (utility.hpp),         *)
(* ranges::swap (concepts.hpp), ranges::iter_swap (iterator.hpp), and      *)
(* array::swap and array::fill (array.hpp), on two arrays of an element    *)
(* type that may have a swap of its own and whose operations may throw.    *)
(*                                                                         *)
(* The operations of the element type are the steps: a move construction,  *)
(* a move assignment, a copy, or the type's own swap.  A step that throws  *)
(* ends the call and leaves the objects it was working on valid but        *)
(* unspecified; the operands of a call may be the same object.  No step    *)
(* looks at a value, so each call finds objects with different ones, and   *)
(* the value that an object has when the call begins is named by it.       *)
(***************************************************************************)
EXTENDS Integers, FiniteSets

CONSTANTS N,         \* elements of an array
          Calls,     \* the functions that are called
          Moved,     \* an object that was moved from or that a failure left behind
          None       \* no value, no call

\* ranges::swap on arrays is "ranges::swap[]"; "iter_exchange" is the overload of
\* iter_swap for iterators whose elements ranges::swap cannot take.
Loops     == {"ranges::swap[]", "array::swap", "fill"}
Functions == {"swap", "ranges::swap", "iter_swap", "iter_exchange"} \cup Loops
Objects   == {"a", "b"} \X (0..(N-1))
Invocations == [fn : Functions, x : Objects, y : Objects]

ASSUME SizeAssumption  == N \in Nat \ {0}
ASSUME CallAssumption  == Calls \subseteq Functions
ASSUME ValueAssumption == /\ Moved \notin Objects
                          /\ None \notin Objects \cup {Moved} /\ None \notin Invocations

\* An element type: has it a swap that unqualified calls find, and which of its operations
\* are not noexcept?
Operations == {"construct", "assign", "copy", "swap"}
Types == {t \in [own_swap : BOOLEAN, throws : SUBSET Operations] :
            "swap" \in t.throws => t.own_swap}

VARIABLES
  type,      \* the element type
  mem,       \* the value of each object
  call,      \* the function and its operands; for arrays, their first elements
  i, step,   \* the loop variable, and the next operation
  tmp        \* the local object of a swap by moves

vars == <<type, mem, call, i, step, tmp>>

Values == [o \in Objects |-> o]

-----------------------------------------------------------------------------
(* What the functions choose and promise.                                  *)

\* cleo::swap moves; only the customization points look for the type's own swap.
FirstStep(c) == CASE c.fn = "fill" -> "copy"
                  [] c.fn \in {"swap", "array::swap", "iter_exchange"} -> "construct"
                  [] OTHER -> IF type.own_swap THEN "swap" ELSE "construct"

nothrow_moves == {"construct", "assign"} \cap type.throws = {}

\* Bug: the condition of the moves, where the type's own swap is called.
SwappableByMoves == nothrow_moves

\* is_nothrow_swappable and _Swap::_S_noexcept: the type's own swap decides if there is one.
nothrow_swappable == IF type.own_swap THEN "swap" \notin type.throws ELSE nothrow_moves

Noexcept(c) == CASE c.fn = "swap" -> nothrow_moves
                 [] c.fn \in {"fill", "iter_exchange"} -> FALSE
                 [] OTHER -> nothrow_swappable

\* Bug: the loop goes downwards in one array and upwards in the other.
TargetDownwards(c, k) == IF c.fn \in Loops THEN <<c.x[1], N - 1 - k>> ELSE c.x

\* The objects of round k: what is exchanged or assigned to, and its partner.  The value
\* given to fill is a reference, and may be to an element of the array.
Target(c, k) == <<c.x[1], c.x[2] + k>>
Partner(c, k) == IF c.fn = "fill" THEN c.y ELSE <<c.y[1], c.y[2] + k>>

x == Target(call, i)
y == Partner(call, i)

\* Bug: the last element is left out.
RoundsShort(c) == IF c.fn \in Loops /\ N > 1 THEN N - 1 ELSE 1
Rounds(c) == IF c.fn \in Loops THEN N ELSE 1

-----------------------------------------------------------------------------
(* Steps.                                                                  *)

Begin(c) ==
  /\ step = "idle"
  /\ call' = c /\ i' = 0 /\ step' = FirstStep(c)
  /\ UNCHANGED <<type, mem, tmp>>

CallOnObjects == \E f \in Calls \ Loops, o, p \in Objects : Begin([fn |-> f, x |-> o, y |-> p])

CallOnArrays == \E f \in Calls \cap Loops, o, p \in Objects :
                  /\ o[2] = 0
                  /\ f = "fill" \/ p[2] = 0
                  /\ Begin([fn |-> f, x |-> o, y |-> p])

\* The i-th elements are done.
EndRound ==
  IF i + 1 < Rounds(call) THEN i' = i + 1 /\ step' = FirstStep(call)
                          ELSE i' = i /\ step' = "returned"

Construct ==
  /\ step = "construct"
  /\ tmp' = mem[x] /\ mem' = [mem EXCEPT ![x] = Moved]
  /\ step' = "assign"
  /\ UNCHANGED <<type, call, i>>

\* Bug: the second object is copied.
AssignCopy ==
  /\ step = "assign"
  /\ mem' = [mem EXCEPT ![x] = mem[y]]
  /\ step' = "restore"
  /\ UNCHANGED <<type, call, i, tmp>>

Assign ==
  /\ step = "assign"
  /\ mem' = [mem EXCEPT ![x] = mem[y], ![y] = Moved]
  /\ step' = "restore"
  /\ UNCHANGED <<type, call, i, tmp>>

\* Bug: tmp is moved from and used again in the next round.
RestoreFirst ==
  /\ step = "restore"
  /\ mem' = [mem EXCEPT ![y] = tmp]
  /\ EndRound
  /\ UNCHANGED <<type, call, tmp>>

Restore ==
  /\ step = "restore"
  /\ mem' = [mem EXCEPT ![y] = tmp] /\ tmp' = None
  /\ EndRound
  /\ UNCHANGED <<type, call>>

OwnSwap ==
  /\ step = "swap"
  /\ mem' = [mem EXCEPT ![x] = mem[y], ![y] = mem[x]]
  /\ EndRound
  /\ UNCHANGED <<type, call, tmp>>

Copy ==
  /\ step = "copy"
  /\ mem' = [mem EXCEPT ![x] = mem[y]]
  /\ EndRound
  /\ UNCHANGED <<type, call, tmp>>

\* The objects that the next operation may leave unspecified if it throws.
InDanger == CASE step \in {"construct", "copy"} -> {x}
              [] step = "restore" -> {y}
              [] step \in {"assign", "swap"} -> {x, y}

\* The next operation throws, and its exception leaves the call.
Throw ==
  /\ step \in Operations \cup {"restore"}
  /\ (IF step = "restore" THEN "assign" ELSE step) \in type.throws
  /\ \E lost \in SUBSET InDanger :
       mem' = [o \in Objects |-> IF o \in lost THEN Moved ELSE mem[o]]
  /\ tmp' = None /\ step' = "thrown"
  /\ UNCHANGED <<type, call, i>>

\* The caller goes on, with other objects.
Leave ==
  /\ step \in {"returned", "thrown"}
  /\ step' = "idle" /\ call' = None /\ i' = 0 /\ mem' = Values
  /\ UNCHANGED <<type, tmp>>

Init == /\ type \in Types
        /\ mem = Values
        /\ call = None /\ i = 0 /\ step = "idle" /\ tmp = None

Next == \/ CallOnObjects \/ CallOnArrays
        \/ Construct \/ Assign \/ Restore \/ OwnSwap \/ Copy \/ Throw \/ Leave

Spec == Init /\ [][Next]_vars

-----------------------------------------------------------------------------
(* What must hold.                                                         *)

\* Every variable has its type, and the loop variable stays within the arrays.
TypeOK ==
  /\ type \in Types /\ mem \in [Objects -> Objects \cup {Moved}]
  /\ call \in Invocations \cup {None}
  /\ i \in 0..(N-1)
  /\ step \in Operations \cup {"idle", "restore", "returned", "thrown"}
  /\ tmp \in Objects \cup {Moved, None}
  /\ tmp # None <=> step \in {"assign", "restore"}

\* The value object o should have once the first n elements are exchanged, or assigned.
Due(n, o) ==
  LET k == o[2] - call.x[2]
      l == o[2] - call.y[2]
  IN IF o[1] = call.x[1] /\ k \in 0..(n-1) THEN Partner(call, k)
     ELSE IF call.fn # "fill" /\ o[1] = call.y[1] /\ l \in 0..(n-1)
     THEN Target(call, l)
     ELSE o

\* A call that returns has exchanged all elements, or assigned all of them the value that
\* the caller passed, also when both operands are one object, when they are one array, and
\* when fill's value is an element of the array being filled.
Completed ==
  step = "returned" =>
    LET elements == IF call.fn \in Loops THEN N ELSE 1
    IN \A o \in Objects : mem[o] = Due(elements, o)

\* A call that throws has dealt with whole elements before the one that failed, and has not
\* touched those behind it.
FailureContained ==
  step = "thrown" =>
    \A o \in Objects \ {x, IF call.fn = "fill" THEN x ELSE y} : mem[o] = Due(i, o)

\* No value of an exchange is ever in two places, not even halfway or after an exception:
\* a type that can only be moved will do.
NeverDuplicated ==
  call # None /\ call.fn # "fill" =>
    \A o, p \in Objects : mem[o] # Moved => mem[o] # tmp /\ (mem[o] = mem[p] => o = p)

\* No exception leaves a function that is noexcept for the element type at hand: it would
\* end in std::terminate (lib/concepts.hpp:137, lib/utility.hpp:58, lib/array.hpp:140).
NoexceptHonest == step = "thrown" => ~Noexcept(call)

\* The same of all functions but array::swap (the qualified call at lib/array.hpp:144).
OthersNoexcept == step = "thrown" /\ call.fn # "array::swap" => ~Noexcept(call)
=============================================================================
