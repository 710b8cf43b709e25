---------------------------- MODULE BoundedQueue ----------------------------
(***************************************************************************)
(* What cleo::RingBuffer<T, N> promises to the two threads that share it:  *)
(* a first-in first-out queue of at most N values.  Nothing else of the    *)
(* class is visible here: no counters, no slots, no memory orders.         *)
(***************************************************************************)
EXTENDS Naturals, Sequences

CONSTANTS N,        \* capacity
          Values    \* what can be stored

VARIABLE q          \* the stored values, oldest first

Init == q = << >>

Enqueue(v) == /\ Len(q) < N
              /\ q' = Append(q, v)

Dequeue == /\ q # << >>
           /\ q' = Tail(q)

Next == (\E v \in Values : Enqueue(v)) \/ Dequeue

Spec == Init /\ [][Next]_q

=============================================================================
