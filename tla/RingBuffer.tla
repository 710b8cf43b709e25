----------------------------- MODULE RingBuffer -----------------------------
(***************************************************************************)
(* cleo::RingBuffer<T, N> (kernel/ring_buf.hpp), the lock-free ring buffer *)
(* shared by one producer thread and one consumer thread, with any number  *)
(* of other threads that only ask for its size.                            *)
(*                                                                         *)
(* The loads of size() and back(), the slot write and the two stores are   *)
(* steps of their own, and the atomics follow the release/acquire rules of *)
(* C++ and not an interleaving of a single memory.  head_ and tail_ have   *)
(* one writer each, so the i-th store to tail_ writes i (modulo the width  *)
(* of the counter), and a load may return any store not older than one its *)
(* thread already knows of.  "head" and "tail" below count those stores;   *)
(* the value the code sees is Val(i).                                      *)
(*                                                                         *)
(* The thread contract is the one the relaxed loads of push and pop rely   *)
(* on: push is called by the producer only, pop, front and back by the     *)
(* consumer only.                                                          *)
(***************************************************************************)
EXTENDS Integers, Sequences

CONSTANTS N,           \* template parameter: number of slots
          W,           \* number of values of a counter (2^64 in the code)
          MaxPush,     \* bound: number of pushes that may succeed
          Values,      \* payloads
          Producer, Consumer, Observers,   \* the threads
          Fresh,       \* content of a slot never written (rb_{})
          Moved,       \* content of a moved-from object
          None         \* no value

Threads == {Producer, Consumer} \cup Observers

\* A counter distinguishes N + 1 sizes; and either slots stay aligned when it
\* wraps, or it does not wrap within the pushes considered.
ASSUME SizeAssumption ==
  /\ N \in Nat \ {0} /\ W \in Nat /\ N < W /\ MaxPush \in Nat
  /\ W % N = 0 \/ MaxPush <= W
ASSUME ThreadAssumption ==
  /\ Producer # Consumer
  /\ Producer \notin Observers /\ Consumer \notin Observers
ASSUME ValueAssumption == {Fresh, Moved, None} \cap Values = {} /\ Moved # None

VARIABLES
  head, tail,          \* number of stores made to head_ and to tail_
  slots,               \* rb_
  headMsg, tailMsg,    \* headMsg[i]: the store to tail_ that was known to the
                       \*   writer of the i-th store to head_; tailMsg likewise
  seenHead, seenTail,  \* per thread: newest store it may not read behind
  syncHead, syncTail,  \* per thread: newest store it synchronized with
  pc, op,              \* per thread: next step, and the method being called
  regTail,             \* per thread: the store that the local "tail" came from
  arg,                 \* the caller's object a push refers to
  want,                \* ghost: the value the caller means to send
  ref,                 \* the reference the consumer got from front or back
  lastWrite,           \* per slot: the store to tail_ that publishes the last write
  lastUse,             \* per slot: the store to head_ that follows the last use
  queued               \* ghost: the values sent and not yet popped

vars == <<head, tail, slots, headMsg, tailMsg, seenHead, seenTail, syncHead,
          syncTail, pc, op, regTail, arg, want, ref, lastWrite, lastUse, queued>>

shared == <<head, tail, headMsg, tailMsg, queued>>
views  == <<seenHead, seenTail, syncHead, syncTail>>
memory == <<slots, lastWrite, lastUse>>
caller == <<arg, want, ref>>

-----------------------------------------------------------------------------
(* Counters, indices and memory orders.                                    *)

Val(i) == i % W                       \* the uint64_t written by the i-th store
Slot(c) == c % N                      \* index of the slot of counter value c

\* Bug: a size that does not wrap around with the counters.
SaturatingSize(i, j) == IF Val(i) < Val(j) THEN 0 ELSE Val(i) - Val(j)
SizeOf(i, j) == (Val(i) - Val(j)) % W \* tail - head in unsigned arithmetic

\* Bug: full() compares with > instead of =.
LateFull(n) == n > N
IsFull(n) == n = N

\* Bugs: an unsigned size compared with < 0, and an off-by-one.
NeverEmpty(n) == n < 0
EarlyEmpty(n) == n <= 1
IsEmpty(n) == n = 0

\* Bug: a store or load with std::memory_order_relaxed.
Relaxed == "relaxed"
TailStoreOrder == "release"
HeadStoreOrder == "release"
SizeTailOrder  == "acquire"
SizeHeadOrder  == "acquire"
BackLoadOrder  == "acquire"

Synchronizes(load, store) == load = "acquire" /\ store = "release"
Later(i, j) == IF i > j THEN i ELSE j

\* What a store tells of the other counter.  The only writer of that counter knows
\* more, so views are recorded for the observers alone.
Record(msg, view) == IF Observers = {} THEN msg ELSE Append(msg, view)
ViewOf(msg, i) == IF i \in DOMAIN msg THEN msg[i] ELSE 0

\* Thread t reads the i-th store to tail_.
ReadTail(t, i, order) ==
  /\ i \in seenTail[t]..tail
  /\ seenTail' = [seenTail EXCEPT ![t] = i]
  /\ IF Synchronizes(order, TailStoreOrder)
     THEN /\ syncTail' = [syncTail EXCEPT ![t] = i]
          /\ seenHead' = [seenHead EXCEPT ![t] = Later(@, ViewOf(tailMsg, i))]
     ELSE UNCHANGED <<syncTail, seenHead>>
  /\ UNCHANGED syncHead

\* Thread t reads the j-th store to head_.
ReadHead(t, j, order) ==
  /\ j \in seenHead[t]..head
  /\ seenHead' = [seenHead EXCEPT ![t] = j]
  /\ IF Synchronizes(order, HeadStoreOrder)
     THEN /\ syncHead' = [syncHead EXCEPT ![t] = j]
          /\ seenTail' = [seenTail EXCEPT ![t] = Later(@, ViewOf(headMsg, j))]
     ELSE UNCHANGED <<syncHead, seenTail>>
  /\ UNCHANGED syncTail

\* A call ends; its local variables die with it.
Return(t) == /\ pc' = [pc EXCEPT ![t] = "idle"]
             /\ op' = [op EXCEPT ![t] = "none"]
             /\ regTail' = [regTail EXCEPT ![t] = 0]

-----------------------------------------------------------------------------
(* Calls.  Every method but the constructor starts with full(), empty() or *)
(* size(), that is, with the load of tail_ in size().                      *)

PushOps == {"push_copy", "push_move"}
ReadOps == {"pop", "front", "back"}

Begin(t, o) == /\ pc[t] = "idle"
               /\ op' = [op EXCEPT ![t] = o]
               /\ pc' = [pc EXCEPT ![t] = "load_tail"]
               /\ UNCHANGED <<regTail, shared, views, memory>>

\* The producer calls push(const T&) or push(T&&) with a new value ...
CallPush(v, o) == /\ tail < MaxPush
                  /\ arg' = v /\ want' = v /\ UNCHANGED ref
                  /\ Begin(Producer, o)

\* ... or, after buffer_full, with the object it still holds.
RetryPush(o) == /\ arg # None
                /\ Begin(Producer, o)
                /\ UNCHANGED caller

CallConsumer(o) == Begin(Consumer, o) /\ UNCHANGED caller

\* size(), or full() or empty() called for their own sake.
CallSize(t) == Begin(t, "size") /\ UNCHANGED caller

-----------------------------------------------------------------------------
(* size(): two loads that other threads' stores may separate.  What the    *)
(* method does with the result touches nothing shared, and is part of the  *)
(* second step.                                                            *)

LoadTail(t, i) ==
  /\ pc[t] = "load_tail"
  /\ ReadTail(t, i, SizeTailOrder)
  /\ regTail' = [regTail EXCEPT ![t] = i]
  /\ pc' = [pc EXCEPT ![t] = "load_head"]
  /\ UNCHANGED <<op, shared, memory, caller>>

\* Bug: push keeps using the head_ it loaded first.
LoadHeadOnce(t, j) ==
  /\ pc[t] = "load_head"
  /\ t = Producer => j = seenHead[t]
  /\ ReadHead(t, j, SizeHeadOrder)
  /\ UNCHANGED <<shared, memory, caller>>

LoadHead(t, j) ==
  /\ pc[t] = "load_head"
  /\ ReadHead(t, j, SizeHeadOrder)
  /\ UNCHANGED <<shared, memory, caller>>

Refused(t, j) ==
  \/ op[t] \in PushOps /\ IsFull(SizeOf(regTail[t], j))
  \/ op[t] \in ReadOps /\ IsEmpty(SizeOf(regTail[t], j))

\* Bug: the method waits for room, or for a value, instead of returning.
FailSpinning(t, j) ==
  /\ LoadHead(t, j) /\ Refused(t, j)
  /\ pc' = [pc EXCEPT ![t] = "load_tail"]
  /\ UNCHANGED <<op, regTail>>

\* Bug: push(T&&) takes the value out of the caller's object before it calls full().
FailConsuming(t, j) ==
  /\ pc[t] = "load_head" /\ ReadHead(t, j, SizeHeadOrder) /\ Refused(t, j)
  /\ arg' = IF op[t] = "push_move" THEN Moved ELSE arg
  /\ Return(t)
  /\ UNCHANGED <<shared, memory, want, ref>>

\* push returns buffer_full; pop, front and back return buffer_empty.
Fail(t, j) ==
  /\ LoadHead(t, j)
  /\ Refused(t, j)
  /\ Return(t)

\* The test passes and the method goes on.
Pass(t, j) ==
  /\ LoadHead(t, j)
  /\ op[t] # "size" /\ ~Refused(t, j)
  /\ pc' = [pc EXCEPT ![t] = IF op[t] \in PushOps THEN "write" ELSE op[t]]
  /\ UNCHANGED <<op, regTail>>

SizeReturns(t, j) ==
  /\ LoadHead(t, j)
  /\ op[t] = "size"
  /\ Return(t)

-----------------------------------------------------------------------------
(* The rest of push: the slot is assigned, then tail_ is stored.  The      *)
(* relaxed load of tail_ reads the producer's own last store.              *)

\* Bug: the slot gets the object that was just moved from.
WriteMovedFrom ==
  /\ pc[Producer] = "write"
  /\ arg' = IF op[Producer] = "push_move" THEN Moved ELSE arg
  /\ slots' = [slots EXCEPT ![Slot(Val(tail))] = arg']
  /\ lastWrite' = [lastWrite EXCEPT ![Slot(Val(tail))] = tail + 1]
  /\ pc' = [pc EXCEPT ![Producer] = "publish"]
  /\ UNCHANGED <<op, regTail, shared, views, lastUse, want, ref>>

Write ==
  /\ pc[Producer] = "write"
  /\ LET s == Slot(Val(tail)) IN
       /\ slots' = [slots EXCEPT ![s] = arg]
       /\ lastWrite' = [lastWrite EXCEPT ![s] = tail + 1]
  /\ arg' = IF op[Producer] = "push_move" THEN Moved ELSE arg
  /\ pc' = [pc EXCEPT ![Producer] = "publish"]
  /\ UNCHANGED <<op, regTail, shared, views, lastUse, want, ref>>

Publish ==
  /\ pc[Producer] = "publish"
  /\ tail' = tail + 1
  /\ tailMsg' = Record(tailMsg, seenHead[Producer])
  /\ seenTail' = [seenTail EXCEPT ![Producer] = tail + 1]
  /\ syncTail' = [syncTail EXCEPT ![Producer] = tail + 1]
  /\ queued' = Append(queued, want)
  /\ arg' = None /\ want' = None
  /\ Return(Producer)
  /\ UNCHANGED <<head, headMsg, seenHead, syncHead, memory, ref>>

-----------------------------------------------------------------------------
(* The rest of pop, front and back, and the caller's use of a reference.   *)

\* pop() stores head_; the caller gives up the reference to what it pops.
Pop ==
  /\ pc[Consumer] = "pop"
  /\ head' = head + 1
  /\ headMsg' = Record(headMsg, seenTail[Consumer])
  /\ seenHead' = [seenHead EXCEPT ![Consumer] = head + 1]
  /\ syncHead' = [syncHead EXCEPT ![Consumer] = head + 1]
  /\ queued' = Tail(queued)
  /\ ref' = IF ref # None /\ ref.item = head THEN None ELSE ref
  /\ Return(Consumer)
  /\ UNCHANGED <<tail, tailMsg, seenTail, syncTail, memory, arg, want>>

Front ==
  /\ pc[Consumer] = "front"
  /\ ref' = [item |-> head, slot |-> Slot(Val(head))]
  /\ Return(Consumer)
  /\ UNCHANGED <<shared, views, memory, arg, want>>

\* back() loads tail_ again: it may see pushes that empty() did not.
Back(i) ==
  /\ pc[Consumer] = "back"
  /\ ReadTail(Consumer, i, BackLoadOrder)
  /\ ref' = [item |-> i - 1, slot |-> Slot((Val(i) - 1) % W)]
  /\ Return(Consumer)
  /\ UNCHANGED <<shared, memory, arg, want>>

\* The consumer accesses the object it holds a reference to.
UseRef ==
  /\ pc[Consumer] = "idle"
  /\ ref # None
  /\ lastUse' = [lastUse EXCEPT ![ref.slot] = head + 1]
  /\ UNCHANGED <<pc, op, regTail, shared, views, slots, lastWrite, caller>>

-----------------------------------------------------------------------------
Init ==
  /\ head = 0 /\ tail = 0
  /\ headMsg = << >> /\ tailMsg = << >> /\ queued = << >>
  /\ slots = [s \in 0..(N-1) |-> Fresh]
  /\ lastWrite = [s \in 0..(N-1) |-> 0]
  /\ lastUse = [s \in 0..(N-1) |-> 0]
  /\ seenHead = [t \in Threads |-> 0] /\ seenTail = [t \in Threads |-> 0]
  /\ syncHead = [t \in Threads |-> 0] /\ syncTail = [t \in Threads |-> 0]
  /\ regTail = [t \in Threads |-> 0]
  /\ pc = [t \in Threads |-> "idle"]
  /\ op = [t \in Threads |-> "none"]
  /\ arg = None /\ want = None /\ ref = None

\* Steps within a method: once called, a thread goes on with them.
SizeStep(t) == \/ \E i \in 0..tail : LoadTail(t, i)
               \/ \E j \in 0..head : Fail(t, j) \/ Pass(t, j) \/ SizeReturns(t, j)

ProducerStep == SizeStep(Producer) \/ Write \/ Publish
ConsumerStep == SizeStep(Consumer) \/ Pop \/ Front \/ (\E i \in 0..tail : Back(i))

Next ==
  \/ \E v \in Values, o \in PushOps : CallPush(v, o)
  \/ \E o \in PushOps : RetryPush(o)
  \/ \E o \in ReadOps : CallConsumer(o)
  \/ \E t \in Threads : CallSize(t)
  \/ ProducerStep
  \/ ConsumerStep
  \/ UseRef
  \/ \E t \in Observers : SizeStep(t)

Spec == Init /\ [][Next]_vars

\* The head_ that a thread loads in the second step of size() is the newest one.
FreshHead(t) == Fail(t, head) \/ Pass(t, head) \/ SizeReturns(t, head)

-----------------------------------------------------------------------------
(* What must hold.                                                         *)

Stores == 0..MaxPush

\* Every variable has its type: push fills the slots with payloads
\* (kernel/ring_buf.hpp:23-45), and each thread is at a step of a method it calls.
TypeOK ==
  /\ head \in Nat /\ tail \in Stores
  /\ slots \in [0..(N-1) -> Values \cup {Fresh}]
  /\ headMsg \in Seq(Nat) /\ tailMsg \in Seq(Nat)
  /\ Observers # {} => Len(headMsg) = head /\ Len(tailMsg) = tail
  /\ seenHead \in [Threads -> Nat] /\ seenTail \in [Threads -> Nat]
  /\ syncHead \in [Threads -> Nat] /\ syncTail \in [Threads -> Nat]
  /\ regTail \in [Threads -> Nat]
  /\ pc \in [Threads -> {"idle", "load_tail", "load_head", "write", "publish",
                         "pop", "front", "back"}]
  /\ op \in [Threads -> PushOps \cup ReadOps \cup {"size", "none"}]
  /\ arg \in Values \cup {Moved, None} /\ want \in Values \cup {None}
  /\ ref \in [item : Nat, slot : 0..(N-1)] \cup {None}
  /\ lastWrite \in [0..(N-1) -> Nat] /\ lastUse \in [0..(N-1) -> Nat]
  /\ queued \in Seq(Values) /\ Len(queued) = tail - head

\* The buffer never holds more than N values and pop never runs past tail_,
\* although push and pop decide on a possibly outdated load of the other counter.
CapacityRespected == head <= tail /\ tail <= head + N

\* What full() or empty() decided is still true when push stores tail_ and when pop,
\* front or back goes on: the other thread can only have made room, or added values.
CheckStaysValid ==
  /\ pc[Producer] \in {"write", "publish"} => tail - head < N
  /\ pc[Consumer] \in ReadOps => head < tail

\* The values between head_ and tail_ are the values the producer's caller meant to
\* send, whatever the consumer and later pushes do.
QueuedIntact == \A k \in 1..(tail - head) : slots[Slot(Val(head + k - 1))] = queued[k]

\* A reference from front() or back() names a value still queued, and the object it
\* refers to keeps that value while the producer goes on pushing.
RefStable ==
  ref # None => /\ head <= ref.item /\ ref.item < tail
                /\ slots[ref.slot] = queued[ref.item - head + 1]

\* The producer never assigns a slot, and the consumer never touches one, unless the
\* other thread's last access to it happens before: every conflicting pair of
\* accesses is ordered by an acquire load of a release store.
NoDataRace ==
  /\ pc[Producer] = "write" => lastUse[Slot(Val(tail))] <= syncHead[Producer]
  /\ ref # None => lastWrite[ref.slot] <= syncTail[Consumer]

\* size() returns more than N only to a thread that is neither producer nor consumer,
\* and only because head_ had passed the tail_ it loaded first, so that the unsigned
\* difference wrapped (kernel/ring_buf.hpp:85-89).
SizeBounded ==
  [][\A t \in Threads :
       pc[t] = "load_head" /\ pc'[t] # "load_head"
         => \/ SizeOf(regTail[t], seenHead'[t]) <= N
            \/ t \in Observers /\ seenHead'[t] > regTail[t]]_vars

\* The ring buffer is a bounded first-in first-out queue: a push appends to it where
\* it stores tail_, a pop removes its head where it stores head_, and nothing else
\* changes its values.
Contents == [k \in 1..(tail - head) |-> slots[Slot(Val(head + k - 1))]]
Queue == INSTANCE BoundedQueue WITH q <- Contents
QueueSpec == Queue!Spec
=============================================================================
