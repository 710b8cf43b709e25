-------------------------- MODULE ReverseIterator --------------------------
(***************************************************************************)
(* reverse_iterator (iterator.hpp) over the arrays of Exchange, and the    *)
(* iterators that array gives (array.hpp).  A caller takes two of them,    *)
(* walks and compares them, looks at elements, and calls ranges::iter_move *)
(* or ranges::iter_swap through them.  These call the friends of           *)
(* reverse_iterator, which copy the base iterators, decrement the copies   *)
(* and go on with what they lead to; copying and decrementing a base       *)
(* iterator may throw.                                                     *)
(***************************************************************************)
EXTENDS Exchange

VARIABLES
  its,      \* the two reverse iterators of the caller
  throws,   \* the operations of the base iterators that may throw
  frame,    \* the call of a friend function
  result    \* what the last operation gave

iterVars == <<its, throws, frame, result>>

Sides     == {"x", "y"}
Iterators == [array : {"a", "b"}, current : 0..N]

\* The friends, where ranges::iter_swap has the overload to go on with.
Swaps   == {"iter_swap", "iter_exchange"} \cap Calls
Friends == {"iter_move"} \cup Swaps
Frames  == [fn : Friends, next : {"copy", "decrement", "inside", "thrown"},
            left : SUBSET Sides, it : [Sides -> Iterators] \cup {None}]

ASSUME NoneAssumption ==
  /\ None \notin [Sides -> Iterators] \cup Frames
  /\ None \notin [Sides -> [array : {"a", "b"}, passed : 0..N]]

-----------------------------------------------------------------------------
(* The operations of reverse_iterator.                                     *)

make_reverse_iterator(a, current) == [array |-> a, current |-> current]
rbegin(a) == make_reverse_iterator(a, N)
rend(a)   == make_reverse_iterator(a, 0)

\* Bug: the base iterator goes the way of the reverse iterator.
PlusForward(it, n) == [it EXCEPT !.current = @ + n]
plus(it, n) == [it EXCEPT !.current = @ - n]

\* Iter tmp = current_; return *--tmp.
Deref(it) == <<it.array, it.current - 1>>

equal(l, r)         == l.current = r.current
not_equal(l, r)     == l.current # r.current
less(l, r)          == r.current < l.current
less_equal(l, r)    == r.current <= l.current
greater(l, r)       == r.current > l.current
greater_equal(l, r) == r.current >= l.current
difference(l, r)    == r.current - l.current

\* Where the caller may put an iterator, and where there is an element.
InRange(it)       == it.current \in 0..N
Dereferenceable(it) == it.current \in 1..N

-----------------------------------------------------------------------------
(* Walking and looking.                                                    *)

Free == step = "idle" /\ frame = None

Take ==
  /\ Free /\ its = None
  /\ its' \in [Sides -> {rbegin(a) : a \in {"a", "b"}} \cup {rend(a) : a \in {"a", "b"}}]
  /\ throws' \in SUBSET {"copy", "decrement"}
  /\ UNCHANGED <<vars, frame, result>>

\* ++it, --it, it += n, it -= n, it = it + n: nothing is given but the iterator.
Walk(k, n) ==
  /\ Free /\ its # None
  /\ InRange(plus(its[k], n))
  /\ its' = [its EXCEPT ![k] = plus(@, n)]
  /\ result' = None
  /\ UNCHANGED <<vars, throws, frame>>

\* *it++ and *it--.
WalkPostfix(k, n) ==
  /\ Free /\ its # None
  /\ InRange(plus(its[k], n)) /\ Dereferenceable(its[k])
  /\ its' = [its EXCEPT ![k] = plus(@, n)]
  /\ result' = [of |-> k, n |-> 0, element |-> Deref(its[k])]
  /\ UNCHANGED <<vars, throws, frame>>

\* it[n]; *it and it-> for n = 0.
Look(k, n) ==
  /\ Free /\ its # None
  /\ Dereferenceable(plus(its[k], n))
  /\ result' = [of |-> k, n |-> n, element |-> Deref(plus(its[k], n))]
  /\ UNCHANGED <<vars, its, throws, frame>>

Compare ==
  /\ Free /\ its # None /\ its["x"].array = its["y"].array
  /\ LET l == its["x"]  r == its["y"] IN
       result' = [same |-> equal(l, r), other |-> not_equal(l, r),
                  before |-> less(l, r), upto |-> less_equal(l, r),
                  behind |-> greater(l, r), from |-> greater_equal(l, r),
                  distance |-> difference(l, r)]
  /\ UNCHANGED <<vars, its, throws, frame>>

-----------------------------------------------------------------------------
(* iter_move and iter_swap.                                                *)

Used(f) == IF f = "iter_move" THEN {"x"} ELSE Sides

Call(f) ==
  /\ Free /\ its # None
  /\ \A k \in Used(f) : Dereferenceable(its[k])
  /\ frame' = [fn |-> f, next |-> "copy", left |-> Used(f), it |-> None]
  /\ result' = None
  /\ UNCHANGED <<vars, its, throws>>

InFriend(next) == frame # None /\ frame.next = next

\* auto it_x = x.base(); auto it_y = y.base();
CopyBases ==
  /\ InFriend("copy")
  /\ frame' = [frame EXCEPT !.next = "decrement", !.it = its]
  /\ UNCHANGED <<vars, its, throws, result>>

\* --it_x or --it_y; arguments are evaluated in any order.
Decrement(k) ==
  /\ InFriend("decrement") /\ k \in frame.left
  /\ frame' = [frame EXCEPT !.left = @ \ {k}, !.it[k].current = @ - 1]
  /\ UNCHANGED <<vars, its, throws, result>>

\* Bug: only the copies are thought of.
CopiesNoexcept(f) == "copy" \notin throws /\ (f \in Swaps => Noexcept([fn |-> f]))

\* Whether the friends are noexcept.
friend_noexcept(f) == throws = {} /\ (f \in Swaps => Noexcept([fn |-> f]))

BaseThrows == /\ frame # None /\ frame.next \in throws /\ frame.left # {}
              /\ frame' = [frame EXCEPT !.next = "thrown"]
              /\ UNCHANGED <<vars, its, throws, result>>

Ready     == InFriend("decrement") /\ frame.left = {}
Object(k) == <<frame.it[k].array, frame.it[k].current>>

MoveThrough ==
  /\ Ready /\ frame.fn = "iter_move"
  /\ result' = [of |-> "x", n |-> 0, element |-> Object("x")]
  /\ frame' = None
  /\ UNCHANGED <<vars, its, throws>>

ExchangeThrough ==
  /\ Ready /\ frame.fn \in Swaps
  /\ Begin([fn |-> frame.fn, x |-> Object("x"), y |-> Object("y")])
  /\ result' = [swapped |-> [k \in Sides |-> Object(k)]]
  /\ frame' = [frame EXCEPT !.next = "inside"]
  /\ UNCHANGED <<its, throws>>

\* The friend returns, or is left by an exception.
LeaveFriend ==
  /\ \/ InFriend("inside") /\ Leave
     \/ InFriend("thrown") /\ UNCHANGED vars
  /\ frame' = None /\ result' = None
  /\ UNCHANGED <<its, throws>>

Drop == /\ Free /\ its # None
        /\ its' = None /\ throws' = {} /\ result' = None
        /\ UNCHANGED <<vars, frame>>

\* The calls of Exchange by callers that have no reverse iterators.
ExchangeDirectly == /\ its = None /\ (CallOnObjects \/ CallOnArrays \/ Leave)
                    /\ UNCHANGED iterVars

ExchangeStep == /\ Construct \/ Assign \/ Restore \/ OwnSwap \/ Copy \/ Throw
                /\ UNCHANGED iterVars

ReverseInit == Init /\ its = None /\ throws = {} /\ frame = None /\ result = None

ReverseNext ==
  \/ Take \/ Drop \/ Compare
  \/ \E k \in Sides, n \in (-N)..N : Walk(k, n) \/ WalkPostfix(k, n) \/ Look(k, n)
  \/ \E f \in Friends : Call(f)
  \/ CopyBases \/ \E k \in Sides : Decrement(k)
  \/ BaseThrows \/ MoveThrough \/ ExchangeThrough \/ LeaveFriend
  \/ ExchangeDirectly \/ ExchangeStep

ReverseSpec == ReverseInit /\ [][ReverseNext]_<<vars, iterVars>>

-----------------------------------------------------------------------------
(* What must hold.                                                         *)

\* Every variable has its type: the caller's iterators stay within the arrays, and so do
\* the copies that are decremented, and the calls that are made through them.
IteratorsOK ==
  /\ TypeOK
  /\ its \in [Sides -> Iterators] \cup {None}
  /\ throws \subseteq {"copy", "decrement"}
  /\ frame \in Frames \cup {None}
  /\ frame # None => its # None /\ frame.left \subseteq Used(frame.fn)
  /\ InFriend("inside") <=> its # None /\ step # "idle"

\* Two reverse iterators walk their arrays from the last element to the first: every
\* operation finds the element, the order and the distance of that walk, iter_move and
\* iter_swap deal with the elements that * gives, and only walking moves an iterator.
CursorOf(it) == [array |-> it.array, passed |-> N - it.current]
places == IF its = None THEN None ELSE [k \in Sides |-> CursorOf(its[k])]
Cursors == INSTANCE Cursor WITH
  Length <- N, Arrays <- {"a", "b"}, at <- places, seen <- result
WalksBackwards == Cursors!Spec

\* No exception of an element or a base iterator leaves a function that is noexcept
\* (lib/iterator.hpp:729-744), array::swap apart.
IteratorsNoexcept ==
  /\ OthersNoexcept
  /\ InFriend("thrown") \/ (InFriend("inside") /\ step = "thrown") => ~friend_noexcept(frame.fn)
=============================================================================
