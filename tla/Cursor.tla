------------------------------- MODULE Cursor -------------------------------
(***************************************************************************)
(* What a pair of reverse iterators promises: two places in arrays that    *)
(* are walked from the last element to the first.  A place is how many     *)
(* elements have been passed.  What the caller is told is the element some *)
(* places further on, how two places compare, or which elements have been  *)
(* exchanged; nothing but walking moves a place.                           *)
(***************************************************************************)
EXTENDS Integers

CONSTANTS Length,   \* elements of an array
          Arrays,
          None

VARIABLES at,     \* the two places
          seen    \* what the last operation gave

Sides  == {"x", "y"}
Places == [array : Arrays, passed : 0..Length]

\* The element n places after p.
Element(p, n) == <<p.array, Length - 1 - (p.passed + n)>>
Reaches(p, n) == p.passed + n \in 0..(Length - 1)

Take == /\ at = None
        /\ at' \in [Sides -> Places] /\ seen' = None

Walk == \E k \in Sides, n \in (-Length)..Length :
          /\ at[k].passed + n \in 0..Length
          /\ at' = [at EXCEPT ![k].passed = @ + n]
          /\ \/ seen' = None
             \/ /\ Reaches(at[k], 0)
                /\ seen' = [of |-> k, n |-> 0, element |-> Element(at[k], 0)]

Look == \E k \in Sides, n \in (-Length)..Length :
          /\ Reaches(at[k], n)
          /\ seen' = [of |-> k, n |-> n, element |-> Element(at[k], n)]
          /\ UNCHANGED at

Compare == /\ at["x"].array = at["y"].array
           /\ LET p == at["x"].passed  q == at["y"].passed
              IN seen' = [same |-> p = q, other |-> p # q, before |-> p < q, upto |-> p <= q,
                          behind |-> p > q, from |-> p >= q, distance |-> p - q]
           /\ UNCHANGED at

Exchange == /\ \A k \in Sides : Reaches(at[k], 0)
            /\ seen' = [swapped |-> [k \in Sides |-> Element(at[k], 0)]]
            /\ UNCHANGED at

Forget == at' \in {at, None} /\ seen' = None

Init == at = None /\ seen = None
Next == Take \/ (at # None /\ (Walk \/ Look \/ Compare \/ Exchange)) \/ Forget

Spec == Init /\ [][Next]_<<at, seen>>
=============================================================================
