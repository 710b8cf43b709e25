--------------------------- MODULE RingBufferInv ---------------------------
(***************************************************************************)
(* The inductive invariant behind the safety of RingBuffer: what the two   *)
(* threads know of each other's counter, and what each step of a method    *)
(* may count on.                                                           *)
(***************************************************************************)
EXTENDS RingBuffer

\* Where the item of counter value k is kept.
Place(k) == Slot(Val(k))

\* Nobody knows of a store that was not made.  The producer knows tail_ exactly and
\* head_ well enough, the consumer the other way round, and both synchronized with
\* all they know of the other.
Views ==
  /\ \A t \in Threads : seenHead[t] <= head /\ seenTail[t] <= tail
  /\ seenTail[Producer] = tail /\ syncHead[Producer] = seenHead[Producer]
  /\ seenHead[Consumer] = head /\ syncTail[Consumer] = seenTail[Consumer]
  /\ tail <= seenHead[Producer] + N
  /\ head <= seenTail[Consumer]

\* A store to tail_ carries a view of head_ that is recent enough for the item it
\* publishes to fit, and no newer than what the writer knows now.
Messages ==
  /\ \A i \in DOMAIN tailMsg : i <= tailMsg[i] + N /\ tailMsg[i] <= seenHead[Producer]
  /\ \A j \in DOMAIN headMsg : headMsg[j] <= seenTail[Consumer]

\* Which thread can be where, in which method.
Control ==
  /\ \A t \in Threads : pc[t] = "idle" <=> op[t] = "none"
  /\ op[Producer] \in PushOps \cup {"size", "none"}
  /\ op[Consumer] \in ReadOps \cup {"size", "none"}
  /\ \A t \in Observers : op[t] \in {"size", "none"}
  /\ \A t \in Threads : pc[t] \in {"idle", "load_tail", "load_head"} \/ op[t] # "size"
  /\ pc[Producer] \in {"idle", "load_tail", "load_head", "write", "publish"}
  /\ pc[Consumer] \in {"idle", "load_tail", "load_head"} \cup ReadOps

\* Between its two loads, size() holds a tail_ that is at most N ahead of any head_ it
\* can still read.
Registers ==
  /\ \A t \in Threads : pc[t] = "load_head" => regTail[t] <= seenHead[t] + N
  /\ pc[Producer] = "load_head" => regTail[Producer] = tail
  /\ pc[Consumer] = "load_head" => regTail[Consumer] = seenTail[Consumer]

\* Once full() or empty() let a method pass, there is room, or a value, by what the
\* thread itself knows.
Passed ==
  /\ pc[Producer] \in {"write", "publish"} => tail < seenHead[Producer] + N
  /\ pc[Consumer] \in ReadOps => head < seenTail[Consumer]

\* The caller's object keeps its value until the slot has it.
Sending ==
  /\ pc[Producer] # "publish" => arg = want
  /\ op[Producer] \in PushOps => want # None
  /\ want # None => tail < MaxPush

\* The queued items and the one about to be published are in their places.
Placed ==
  /\ \A k \in head..(tail - 1) : /\ slots[Place(k)] = queued[k - head + 1]
                                 /\ lastWrite[Place(k)] = k + 1
  /\ pc[Producer] = "publish" => /\ slots[Place(tail)] = want
                                 /\ lastWrite[Place(tail)] = tail + 1

\* The place of an item still to come was last used while an item N or more before it
\* was queued.
Used ==
  \A k \in tail..(MaxPush - 1) :
    lastUse[Place(k)] = 0 \/ lastUse[Place(k)] + N <= k + 1

\* A reference names a queued item that the consumer knows of.
Referred ==
  ref # None => /\ head <= ref.item /\ ref.item < seenTail[Consumer]
                /\ ref.slot = Place(ref.item)

\* The inductive invariant: it holds in every reachable state of the ring buffer, for
\* every interleaving of push, pop, front, back and size (kernel/ring_buf.hpp:23-89).
IInv == /\ TypeOK /\ Views /\ Messages /\ Control /\ Registers
        /\ Passed /\ Sending /\ Placed /\ Used /\ Referred
=============================================================================
