-------------------------- MODULE RingBufferProofs --------------------------
(***************************************************************************)
(* Proofs about RingBuffer for every number of slots, counter width,       *)
(* payload set and set of observers: IInv of RingBufferInv is inductive,   *)
(* and it implies the safety properties and the step-by-step refinement of *)
(* BoundedQueue.                                                           *)
(***************************************************************************)
EXTENDS RingBufferInv, DivisionLemmas, SequenceTheorems, TLAPS

-----------------------------------------------------------------------------
(* Counters and slots.                                                     *)

\* Every counter value has a slot.
LEMMA PlaceType == ASSUME NEW k \in Nat PROVE Place(k) \in 0..(N-1)
<1>1. Val(k) \in Nat BY SizeAssumption DEF Val
<1> QED BY <1>1, SizeAssumption DEF Place, Slot

\* The slot of an item is its number modulo N, before and after the counters wrap.
LEMMA PlaceMod == ASSUME NEW k \in 0..(MaxPush - 1) PROVE Place(k) = k % N
<1>1. CASE MaxPush <= W
  <2>1. k % W = k
    <3>1. k = W * 0 + k /\ k \in 0..(W-1) BY <1>1, SizeAssumption
    <3> QED BY <3>1, ModValue, SizeAssumption
  <2> QED BY <2>1 DEF Place, Slot, Val
<1>2. CASE W % N = 0
  <2>1. N \in Nat \ {0} /\ W \in Nat \ {0} /\ k \in Int BY SizeAssumption
  <2>2. (k % W) % N = k % N BY <1>2, <2>1, ModOfMultiple
  <2> QED BY <2>2 DEF Place, Slot, Val
<1> QED BY <1>1, <1>2, SizeAssumption

\* Items less than N apart never share a slot.
LEMMA PlaceInjective ==
  ASSUME NEW a \in 0..(MaxPush - 1), NEW b \in 0..(MaxPush - 1), a < b, b < a + N
  PROVE  Place(a) # Place(b)
<1>1. N \in Nat \ {0} /\ a \in Int /\ b \in Int BY SizeAssumption
<1>2. a % N # b % N BY <1>1, ModInjective
<1> QED BY <1>2, PlaceMod

\* back() finds the slot of the item before the tail_ it loaded, also when the counter
\* it loaded had wrapped to 0.
LEMMA BackPlace ==
  ASSUME NEW i \in Nat, 1 <= i PROVE Slot((Val(i) - 1) % W) = Place(i - 1)
<1>1. ((i % W) - 1) % W = (i - 1) % W
  <2> DEFINE p == i \div W  v == i % W  s == (v - 1) % W  q == (v - 1) \div W
  <2>1. p \in Int /\ v \in Int /\ i = W * p + v BY DivMod, SizeAssumption
  <2>2. q \in Int /\ s \in 0..(W-1) /\ v - 1 = W * q + s BY <2>1, DivMod, SizeAssumption
  <2>3. (i - 1) % W = s
    <3> HIDE DEF p, v, s, q
    <3>1. i - 1 = W * (p + q) + s BY <2>1, <2>2, SizeAssumption
    <3> QED BY <2>1, <2>2, <3>1, ModValue, SizeAssumption
  <2> QED BY <2>3
<1> QED BY <1>1 DEF Place, Val

\* The unsigned difference is the true one whenever that is between 0 and N.
LEMMA SizeExact ==
  ASSUME NEW i \in Nat, NEW j \in Nat, j <= i, i <= j + N
  PROVE  SizeOf(i, j) = i - j
<1> DEFINE p == i \div W  v == i % W  q == j \div W  u == j % W
<1>1. p \in Int /\ v \in Int /\ i = W * p + v BY DivMod, SizeAssumption
<1>2. q \in Int /\ u \in Int /\ j = W * q + u BY DivMod, SizeAssumption
<1>3. (v - u) % W = i - j
  <2> HIDE DEF p, v, q, u
  <2>1. v - u = W * (q - p) + (i - j) BY <1>1, <1>2, SizeAssumption
  <2>2. i - j \in 0..(W-1) BY SizeAssumption
  <2>3. W \in Nat \ {0} /\ v - u \in Int /\ q - p \in Int BY <1>1, <1>2, SizeAssumption
  <2> QED BY <2>1, <2>2, <2>3, ModValue
<1> QED BY <1>3 DEF SizeOf, Val

-----------------------------------------------------------------------------
(* The invariant holds initially, and every step keeps it.                 *)

\* The empty buffer, and threads that have not called it yet.
LEMMA InitInv == Init => IInv
<1> SUFFICES ASSUME Init PROVE IInv OBVIOUS
<1> USE DEF Init
<1>1. TypeOK BY SizeAssumption DEF TypeOK, Threads, Stores
<1>2. Views BY SizeAssumption DEF Views, Threads
<1>3. Messages BY DEF Messages
<1>4. Control BY DEF Control, Threads, PushOps, ReadOps
<1>5. Registers BY DEF Registers, Threads
<1>6. Passed BY DEF Passed, Threads, ReadOps
<1>7. Sending BY DEF Sending, Threads, PushOps
<1>8. Placed BY DEF Placed, Threads
<1>9. Used
  <2>1. \A k \in tail..(MaxPush - 1) : Place(k) \in 0..(N-1) BY PlaceType
  <2> QED BY <2>1 DEF Used
<1>10. Referred BY DEF Referred
<1> QED BY <1>1, <1>2, <1>3, <1>4, <1>5, <1>6, <1>7, <1>8, <1>9, <1>10 DEF IInv

\* A call only moves its thread to the load of tail_.
LEMMA BeginKeeps ==
  ASSUME IInv, NEW t \in Threads, NEW o \in PushOps \cup ReadOps \cup {"size"}, Begin(t, o),
         UNCHANGED ref,
         o \in PushOps => t = Producer /\ want' # None,
         o \in ReadOps => t = Consumer,
         UNCHANGED <<arg, want>> \/ (t = Producer /\ arg' \in Values /\ arg' = want' /\ tail < MaxPush)
  PROVE  IInv'
<1> USE DEF Begin, shared, views, memory, IInv
<1>1. TypeOK' BY DEF TypeOK, Threads, Stores
<1>2. Views' BY DEF Views, Threads
<1>3. Messages' BY DEF Messages
<1>4. Control' BY ThreadAssumption DEF Control, TypeOK, Threads, PushOps, ReadOps
<1>5. Registers' BY DEF Registers, TypeOK, Threads
<1>6. Passed' BY DEF Passed, TypeOK, Threads, ReadOps
<1>7. Sending' BY ThreadAssumption, ValueAssumption DEF Sending, TypeOK, Threads, PushOps, ReadOps
<1>8. Placed' BY DEF Placed, TypeOK, Threads, Place, Slot, Val
<1>9. Used' BY DEF Used, Place, Slot, Val
<1>10. Referred' BY DEF Referred, Place, Slot, Val
<1> QED BY <1>1, <1>2, <1>3, <1>4, <1>5, <1>6, <1>7, <1>8, <1>9, <1>10

\* The two threads are different, and observers neither.
LEMMA ThreadFacts ==
  /\ Producer \in Threads /\ Consumer \in Threads /\ Producer # Consumer
  /\ \A t \in Threads : t = Producer \/ t = Consumer \/ t \in Observers
BY ThreadAssumption DEF Threads

\* The types of the numbers the threads know.
LEMMA ViewTypes ==
  ASSUME TypeOK
  PROVE  /\ N \in Nat /\ head \in Nat /\ tail \in Nat
         /\ seenHead \in [Threads -> Nat] /\ seenTail \in [Threads -> Nat]
         /\ syncHead \in [Threads -> Nat] /\ syncTail \in [Threads -> Nat]
         /\ regTail \in [Threads -> Nat]
BY SizeAssumption DEF TypeOK, Stores

\* The views that stores carry are numbers of stores.
LEMMA MessageTypes ==
  ASSUME TypeOK
  PROVE  /\ \A i \in DOMAIN tailMsg : i \in Nat /\ tailMsg[i] \in Nat
         /\ \A j \in DOMAIN headMsg : headMsg[j] \in Nat
<1>1. tailMsg \in Seq(Nat) /\ headMsg \in Seq(Nat) BY DEF TypeOK
<1> QED BY <1>1

\* What a load of tail_ can learn of head_ is nothing the producer does not know, and
\* for an observer it is recent enough.
LEMMA TailView ==
  ASSUME IInv, NEW i \in 0..tail
  PROVE  /\ ViewOf(tailMsg, i) \in Nat /\ ViewOf(tailMsg, i) <= seenHead[Producer]
         /\ Observers # {} => i <= ViewOf(tailMsg, i) + N
<1>1. /\ tailMsg \in Seq(Nat) /\ seenHead[Producer] \in Nat /\ N \in Nat
      /\ tail \in Nat
      /\ Observers # {} => Len(tailMsg) = tail
  BY ViewTypes, ThreadFacts DEF IInv, TypeOK
<1>2. DOMAIN tailMsg = 1..Len(tailMsg) /\ \A k \in DOMAIN tailMsg : tailMsg[k] \in Nat BY <1>1
<1>3. CASE i \in DOMAIN tailMsg
  BY <1>1, <1>2, <1>3 DEF IInv, Messages, ViewOf
<1>4. CASE i \notin DOMAIN tailMsg
  <2>1. Observers # {} => DOMAIN tailMsg = 1..tail BY <1>1, <1>2
  <2>2. Observers # {} => i = 0
    <3> SUFFICES ASSUME Observers # {} PROVE i = 0 OBVIOUS
    <3>1. i \notin 1..tail BY <1>4, <2>1
    <3> QED BY <1>1, <3>1
  <2> QED BY <1>1, <1>4, <2>2 DEF ViewOf
<1> QED BY <1>3, <1>4

\* What a load of head_ can learn of tail_ is nothing the consumer does not know.
LEMMA HeadView ==
  ASSUME IInv, NEW j \in 0..head
  PROVE  /\ ViewOf(headMsg, j) \in Nat /\ ViewOf(headMsg, j) <= seenTail[Consumer]
<1>1. headMsg \in Seq(Nat) /\ seenTail[Consumer] \in Nat
  BY ViewTypes, ThreadFacts DEF IInv, TypeOK
<1>2. \A k \in DOMAIN headMsg : headMsg[k] \in Nat BY <1>1
<1> QED BY <1>1, <1>2 DEF IInv, Messages, ViewOf

\* The load of tail_ in size() gives its thread views that some store carried.
LEMMA LoadTailKeeps == ASSUME IInv, NEW t \in Threads, NEW i \in 0..tail, LoadTail(t, i)
                       PROVE  IInv'
<1> DEFINE view == ViewOf(tailMsg, i)
<1>0. /\ i \in Nat /\ seenTail[t] <= i /\ i <= tail
      /\ view \in Nat /\ view <= seenHead[Producer]
      /\ Observers # {} => i <= view + N
      /\ TypeOK
  BY TailView, ViewTypes DEF LoadTail, ReadTail, IInv
<1> HIDE DEF view
<1>1. /\ seenTail' = [seenTail EXCEPT ![t] = i]
      /\ syncTail' = [syncTail EXCEPT ![t] = i]
      /\ seenHead' = [seenHead EXCEPT ![t] = Later(@, view)]
      /\ UNCHANGED <<syncHead, shared, memory, caller, op>>
      /\ regTail' = [regTail EXCEPT ![t] = i]
      /\ pc[t] = "load_tail" /\ pc' = [pc EXCEPT ![t] = "load_head"]
  BY DEF Synchronizes, SizeTailOrder, TailStoreOrder, LoadTail, ReadTail, view
<1> USE ViewTypes, ThreadFacts DEF IInv, shared, memory, caller
<1>2. TypeOK' BY <1>0, <1>1 DEF TypeOK, Later
<1>3. /\ t = Producer => seenTail' = seenTail /\ seenHead' = seenHead /\ syncTail' = [syncTail EXCEPT ![t] = i]
      /\ t = Consumer => seenHead' = seenHead
  <2>1. t = Producer => seenTail[t] = i /\ view <= seenHead[t] BY <1>0 DEF Views
  <2>2. t = Consumer => view <= seenHead[t] BY <1>0 DEF Views
  <2> QED BY <1>0, <1>1, <2>1, <2>2 DEF Later
<1>4. Views'
  <2>1. \A u \in Threads : seenHead'[u] <= head /\ seenTail'[u] <= tail
    BY <1>0, <1>1 DEF Views, Later
  <2> QED BY <1>0, <1>1, <1>3, <2>1 DEF Views
<1>31. seenTail'[Consumer] \in Nat /\ seenTail[Consumer] <= seenTail'[Consumer]
  BY <1>0, <1>1
<1>5. Messages' BY <1>0, <1>1, <1>3, <1>31, MessageTypes DEF Messages
<1>6. Control' BY <1>0, <1>1 DEF Control, TypeOK
<1>7. Registers'
  <2>1. i <= seenHead'[t] + N
    <3>1. CASE t = Producer BY <1>0, <1>3, <3>1 DEF Views
    <3>2. CASE t = Consumer BY <1>0, <1>3, <3>2 DEF Views
    <3>3. CASE t \in Observers BY <1>0, <1>1, <3>3 DEF Later
    <3> QED BY <3>1, <3>2, <3>3
  <2>2. \A u \in Threads : pc'[u] = "load_head" => regTail'[u] <= seenHead'[u] + N
    BY <1>0, <1>1, <2>1 DEF Registers, TypeOK
  <2>3. pc'[Producer] = "load_head" => regTail'[Producer] = tail'
    <3>1. CASE t = Producer
      <4>1. i = tail BY <1>0, <3>1 DEF Views
      <4> QED BY <1>0, <1>1, <3>1, <4>1
    <3>2. CASE t # Producer BY <1>0, <1>1, <3>2 DEF Registers, TypeOK
    <3> QED BY <3>1, <3>2
  <2>4. pc'[Consumer] = "load_head" => regTail'[Consumer] = seenTail'[Consumer]
    BY <1>0, <1>1 DEF Registers, Views, TypeOK
  <2> QED BY <2>2, <2>3, <2>4 DEF Registers
<1>8. Passed' BY <1>0, <1>1, <1>3 DEF Passed, TypeOK, ReadOps
<1>9. Sending' BY <1>0, <1>1 DEF Sending, TypeOK
<1>10. Placed' BY <1>0, <1>1 DEF Placed, TypeOK, Place, Slot, Val
<1>11. Used' BY <1>1 DEF Used, Place, Slot, Val
<1>12. Referred'
  <2>1. ref # None => ref.item \in Nat BY <1>0 DEF TypeOK
  <2> QED BY <1>0, <1>1, <1>31, <2>1 DEF Referred, Place, Slot, Val
<1> QED BY <1>2, <1>4, <1>5, <1>6, <1>7, <1>8, <1>9, <1>10, <1>11, <1>12

\* The result of size() is exact for the store it loaded first, and at most N, unless
\* head_ passed it; and head_ cannot pass the tail_ that its owner or the producer has.
LEMMA LoadedSize ==
  ASSUME IInv, NEW t \in Threads, NEW j \in 0..head, LoadHead(t, j)
  PROVE  /\ j <= regTail[t] => /\ SizeOf(regTail[t], j) = regTail[t] - j
                               /\ SizeOf(regTail[t], j) <= N
         /\ t \in {Producer, Consumer} => j <= regTail[t]
         /\ t = Producer => regTail[t] = tail
         /\ t = Consumer => regTail[t] = seenTail[Consumer] /\ j = head
<1> USE ViewTypes, ThreadFacts DEF IInv
<1>1. /\ pc[t] = "load_head" /\ seenHead[t] <= j /\ j <= head /\ j \in Nat
      /\ regTail[t] \in Nat /\ seenHead[t] \in Nat
  BY DEF LoadHead, ReadHead
<1>2. regTail[t] <= j + N BY <1>1 DEF Registers
<1>3. t = Producer => regTail[t] = tail /\ j <= tail
  BY <1>1 DEF Registers, Views
<1>4. t = Consumer => regTail[t] = seenTail[Consumer] /\ j = head /\ j <= regTail[t]
  BY <1>1 DEF Registers, Views
<1>5. j <= regTail[t] => SizeOf(regTail[t], j) = regTail[t] - j BY <1>1, <1>2, SizeExact
<1> QED BY <1>1, <1>2, <1>3, <1>4, <1>5

\* The load of head_ gives its thread views that some store carried.
LEMMA LoadHeadViews ==
  ASSUME IInv, NEW t \in Threads, NEW j \in 0..head, LoadHead(t, j)
  PROVE  /\ Views' /\ Messages' /\ Used' /\ Referred'
         /\ seenHead' \in [Threads -> Nat] /\ seenTail' \in [Threads -> Nat]
         /\ syncHead' \in [Threads -> Nat] /\ syncTail' \in [Threads -> Nat]
         /\ seenHead' = [seenHead EXCEPT ![t] = j]
         /\ seenHead[t] <= j /\ j \in Nat
         /\ seenTail'[Producer] = tail /\ seenTail'[Consumer] = seenTail[Consumer]
<1> DEFINE view == ViewOf(headMsg, j)
<1>0. /\ j \in Nat /\ seenHead[t] <= j /\ j <= head
      /\ view \in Nat /\ view <= seenTail[Consumer]
      /\ TypeOK
  BY HeadView, ViewTypes DEF LoadHead, ReadHead, IInv
<1> HIDE DEF view
<1>1. /\ seenHead' = [seenHead EXCEPT ![t] = j]
      /\ syncHead' = [syncHead EXCEPT ![t] = j]
      /\ seenTail' = [seenTail EXCEPT ![t] = Later(@, view)]
      /\ UNCHANGED <<syncTail, shared, memory, caller>>
      /\ pc[t] = "load_head"
  BY DEF Synchronizes, SizeHeadOrder, HeadStoreOrder, LoadHead, ReadHead, view
<1> USE ViewTypes, ThreadFacts DEF IInv, shared, memory, caller
<1>2. seenTail'[Producer] = tail /\ seenTail'[Consumer] = seenTail[Consumer]
  <2>1. t = Producer => seenTail[t] = tail /\ view <= tail BY <1>0 DEF Views
  <2> QED BY <1>0, <1>1, <2>1 DEF Later, Views
<1>3. /\ seenHead' \in [Threads -> Nat] /\ seenTail' \in [Threads -> Nat]
      /\ syncHead' \in [Threads -> Nat] /\ syncTail' \in [Threads -> Nat]
  BY <1>0, <1>1 DEF Later
<1>4. Views'
  <2>1. \A u \in Threads : seenHead'[u] <= head /\ seenTail'[u] <= tail
    BY <1>0, <1>1 DEF Views, Later
  <2>2. t = Consumer => j = head BY <1>0 DEF Views
  <2> QED BY <1>0, <1>1, <1>2, <2>1, <2>2 DEF Views
<1>5. Messages'
  <2>1. seenHead[Producer] <= seenHead'[Producer] /\ seenHead'[Producer] \in Nat
    BY <1>0, <1>1
  <2> QED BY <1>0, <1>1, <1>2, <2>1, MessageTypes DEF Messages
<1>6. Used' BY <1>1 DEF Used, Place, Slot, Val
<1>7. Referred' BY <1>1, <1>2 DEF Referred, Place, Slot, Val
<1> QED BY <1>0, <1>1, <1>2, <1>3, <1>4, <1>5, <1>6, <1>7

\* After the second load of size() the method returns, or goes on knowing that there is
\* room, or a value.
LEMMA LoadHeadKeeps ==
  ASSUME IInv, NEW t \in Threads, NEW j \in 0..head,
         Fail(t, j) \/ Pass(t, j) \/ SizeReturns(t, j)
  PROVE  IInv'
<1>0. LoadHead(t, j) BY DEF Fail, Pass, SizeReturns
<1>1. /\ Views' /\ Messages' /\ Used' /\ Referred'
      /\ seenHead' \in [Threads -> Nat] /\ seenTail' \in [Threads -> Nat]
      /\ syncHead' \in [Threads -> Nat] /\ syncTail' \in [Threads -> Nat]
      /\ seenHead' = [seenHead EXCEPT ![t] = j]
      /\ seenHead[t] <= j /\ j \in Nat
      /\ seenTail'[Producer] = tail /\ seenTail'[Consumer] = seenTail[Consumer]
  BY <1>0, LoadHeadViews
<1>2. pc[t] = "load_head" /\ UNCHANGED <<shared, memory, caller>> BY <1>0 DEF LoadHead
<1>3. \/ /\ pc' = [pc EXCEPT ![t] = "idle"] /\ op' = [op EXCEPT ![t] = "none"]
         /\ regTail' = [regTail EXCEPT ![t] = 0]
      \/ /\ op[t] # "size" /\ ~Refused(t, j) /\ UNCHANGED <<op, regTail>>
         /\ pc' = [pc EXCEPT ![t] = IF op[t] \in PushOps THEN "write" ELSE op[t]]
  BY DEF Fail, Pass, SizeReturns, Return
<1> USE ViewTypes, ThreadFacts DEF IInv, shared, memory, caller
<1>4. op[t] \in PushOps \cup ReadOps \cup {"size"}
  BY <1>2 DEF Control, TypeOK, PushOps, ReadOps
<1>41. op[t] \in PushOps => t = Producer BY <1>4 DEF Control, PushOps, ReadOps
<1>42. op[t] \in ReadOps => t = Consumer BY <1>4 DEF Control, PushOps, ReadOps
<1>43. \A u \in Threads : u # t => pc'[u] = pc[u] /\ op'[u] = op[u]
  BY <1>3 DEF TypeOK
<1>44. \/ pc'[t] = "idle" /\ op'[t] = "none"
       \/ op'[t] \in PushOps /\ t = Producer /\ pc'[t] = "write"
       \/ op'[t] \in ReadOps /\ t = Consumer /\ pc'[t] = op'[t]
  <2>1. DOMAIN pc = Threads /\ DOMAIN op = Threads BY DEF TypeOK
  <2>2. CASE op' = [op EXCEPT ![t] = "none"] /\ pc' = [pc EXCEPT ![t] = "idle"]
    <3>1. pc'[t] = "idle" /\ op'[t] = "none" BY <2>1, <2>2
    <3> QED BY <3>1
  <2>3. CASE op' = op /\ op[t] # "size" /\ pc' = [pc EXCEPT ![t] = IF op[t] \in PushOps THEN "write" ELSE op[t]]
    <3>1. pc'[t] = IF op[t] \in PushOps THEN "write" ELSE op[t] BY <2>1, <2>3
    <3>2. op[t] \in PushOps \/ op[t] \in ReadOps BY <1>4, <2>3
    <3>3. op[t] \in ReadOps => op[t] \notin PushOps BY DEF PushOps, ReadOps
    <3>4. op'[t] = op[t] BY <2>3
    <3>5. CASE op[t] \in PushOps BY <1>41, <3>1, <3>4, <3>5
    <3>6. CASE op[t] \in ReadOps
      <4>1. pc'[t] = op'[t] BY <3>1, <3>3, <3>4, <3>6
      <4> QED BY <1>42, <3>4, <3>6, <4>1
    <3> QED BY <3>2, <3>5, <3>6
  <2> QED BY <1>3, <2>2, <2>3
<1>5. TypeOK'
  <2>1. op' \in [Threads -> PushOps \cup ReadOps \cup {"size", "none"}]
    BY <1>3 DEF TypeOK
  <2>2. regTail' \in [Threads -> Nat]
    <3>1. regTail \in [Threads -> Nat] OBVIOUS
    <3> QED BY <1>3, <3>1
  <2>3. pc' \in [Threads -> {"idle", "load_tail", "load_head", "write", "publish",
                            "pop", "front", "back"}]
    BY <1>3, <1>4 DEF TypeOK, ReadOps
  <2> QED BY <1>1, <1>2, <2>1, <2>2, <2>3 DEF TypeOK
<1>6. Control'
  <2>1. \A u \in Threads : pc'[u] = "idle" <=> op'[u] = "none"
    BY <1>43, <1>44 DEF Control, PushOps, ReadOps
  <2>2. /\ op'[Producer] \in PushOps \cup {"size", "none"}
        /\ op'[Consumer] \in ReadOps \cup {"size", "none"}
    BY <1>43, <1>44 DEF Control, PushOps, ReadOps
  <2>3. \A u \in Observers : op'[u] \in {"size", "none"}
    BY <1>43, <1>44, ThreadAssumption DEF Control, Threads, PushOps, ReadOps
  <2>4. \A u \in Threads : pc'[u] \in {"idle", "load_tail", "load_head"} \/ op'[u] # "size"
    BY <1>43, <1>44 DEF Control, PushOps, ReadOps
  <2>5. /\ pc'[Producer] \in {"idle", "load_tail", "load_head", "write", "publish"}
        /\ pc'[Consumer] \in {"idle", "load_tail", "load_head"} \cup ReadOps
    BY <1>43, <1>44 DEF Control
  <2> QED BY <2>1, <2>2, <2>3, <2>4, <2>5 DEF Control
<1>7. Registers' BY <1>1, <1>2, <1>3, <1>4 DEF Registers, TypeOK, PushOps, ReadOps
<1>8. Passed'
  <2>1. pc'[Producer] \in {"write", "publish"} => tail < seenHead'[Producer] + N
    <3>1. CASE t = Producer
      <4>1. pc'[Producer] \in {"write", "publish"} => ~IsFull(SizeOf(regTail[t], j)) /\ op[t] \in PushOps
        BY <1>2, <1>3, <1>4, <3>1 DEF Refused, TypeOK, PushOps, ReadOps
      <4>2. SizeOf(regTail[t], j) = tail - j /\ SizeOf(regTail[t], j) <= N
        BY <1>0, <3>1, LoadedSize
      <4> QED BY <1>1, <3>1, <4>1, <4>2 DEF IsFull
    <3>2. CASE t # Producer
      BY <1>1, <1>2, <1>3, <3>2 DEF Passed, TypeOK
    <3> QED BY <3>1, <3>2
  <2>2. pc'[Consumer] \in ReadOps => head < seenTail[Consumer]
    <3>1. CASE t = Consumer
      <4>1. pc'[Consumer] \in ReadOps => ~IsEmpty(SizeOf(regTail[t], j))
        BY <1>2, <1>3, <1>4, <3>1 DEF Refused, TypeOK, PushOps, ReadOps
      <4>2. SizeOf(regTail[t], j) = seenTail[Consumer] - head
        BY <1>0, <3>1, LoadedSize
      <4> QED BY <4>1, <4>2 DEF IsEmpty, Views
    <3>2. CASE t # Consumer
      BY <1>1, <1>2, <1>3, <3>2 DEF Passed, TypeOK
    <3> QED BY <3>1, <3>2
  <2> QED BY <1>1, <1>2, <2>1, <2>2 DEF Passed
<1>9. Sending' BY <1>2, <1>3, <1>4 DEF Sending, Control, TypeOK, PushOps, ReadOps
<1>10. Placed'
  <2>1. pc'[Producer] = "publish" => pc[Producer] = "publish"
    BY <1>43, <1>44 DEF ReadOps
  <2> QED BY <1>2, <2>1 DEF Placed, Place, Slot, Val
<1> QED BY <1>1, <1>5, <1>6, <1>7, <1>8, <1>9, <1>10

\* The assignment of the slot disturbs no queued item: fewer than N of them are there.
LEMMA WriteKeeps == ASSUME IInv, Write PROVE IInv'
<1> USE ViewTypes, ThreadFacts DEF IInv, shared, views, memory, caller
<1>1. /\ pc[Producer] = "write" /\ pc' = [pc EXCEPT ![Producer] = "publish"]
      /\ slots' = [slots EXCEPT ![Place(tail)] = arg]
      /\ lastWrite' = [lastWrite EXCEPT ![Place(tail)] = tail + 1]
      /\ arg' \in {arg, Moved}
      /\ UNCHANGED <<op, regTail, shared, views, lastUse, want, ref>>
  BY DEF Write, Place
<1>2. Place(tail) \in 0..(N-1) BY PlaceType
<1>3. op[Producer] \in PushOps /\ arg = want /\ want \in Values /\ tail < MaxPush
      /\ tail < seenHead[Producer] + N
  BY <1>1 DEF Control, Sending, Passed, TypeOK
<1>4. \A k \in head..(tail - 1) : Place(k) # Place(tail)
  <2> TAKE k \in head..(tail - 1)
  <2>1. k \in 0..(MaxPush - 1) /\ tail \in 0..(MaxPush - 1) BY <1>3, SizeAssumption
  <2>2. k < tail /\ tail < k + N BY <1>3 DEF Views
  <2> QED BY <2>1, <2>2, PlaceInjective
<1>5. TypeOK'
  <2>1. slots' \in [0..(N-1) -> Values \cup {Fresh}] BY <1>1, <1>2, <1>3 DEF TypeOK
  <2>2. lastWrite' \in [0..(N-1) -> Nat]
    <3>1. lastWrite \in [0..(N-1) -> Nat] BY DEF TypeOK
    <3>2. tail + 1 \in Nat OBVIOUS
    <3> QED BY <1>1, <1>2, <3>1, <3>2
  <2>3. pc' \in [Threads -> {"idle", "load_tail", "load_head", "write", "publish",
                            "pop", "front", "back"}]
    BY <1>1 DEF TypeOK
  <2>4. arg' \in Values \cup {Moved, None} BY <1>1, <1>3
  <2> QED BY <1>1, <2>1, <2>2, <2>3, <2>4 DEF TypeOK
<1>6. Views' /\ Messages' BY <1>1 DEF Views, Messages
<1>7. Control' BY <1>1, <1>3 DEF Control, TypeOK, PushOps, ReadOps
<1>8. Registers' BY <1>1 DEF Registers, TypeOK
<1>9. Passed' BY <1>1, <1>3 DEF Passed, TypeOK, ReadOps
<1>10. Sending' BY <1>1 DEF Sending, TypeOK
<1>11. Placed'
  <2>1. slots'[Place(tail)] = want /\ lastWrite'[Place(tail)] = tail + 1
    BY <1>1, <1>2, <1>3 DEF TypeOK
  <2>2. \A k \in head..(tail - 1) : /\ slots'[Place(k)] = queued[k - head + 1]
                                    /\ lastWrite'[Place(k)] = k + 1
    <3> TAKE k \in head..(tail - 1)
    <3>1. slots'[Place(k)] = slots[Place(k)] /\ lastWrite'[Place(k)] = lastWrite[Place(k)]
      BY <1>1, <1>4
    <3> QED BY <3>1 DEF Placed
  <2> QED BY <1>1, <2>1, <2>2 DEF Placed, Place, Slot, Val
<1>12. Used' BY <1>1 DEF Used, Place, Slot, Val
<1>13. Referred' BY <1>1 DEF Referred, Place, Slot, Val
<1> QED BY <1>5, <1>6, <1>7, <1>8, <1>9, <1>10, <1>11, <1>12, <1>13

\* The store to tail_ appends what is in the slot to what is queued.
LEMMA PublishKeeps == ASSUME IInv, Publish PROVE IInv'
<1> USE ViewTypes, ThreadFacts DEF IInv, memory
<1>1. /\ pc[Producer] = "publish" /\ tail' = tail + 1
      /\ tailMsg' = Record(tailMsg, seenHead[Producer])
      /\ seenTail' = [seenTail EXCEPT ![Producer] = tail + 1]
      /\ syncTail' = [syncTail EXCEPT ![Producer] = tail + 1]
      /\ queued' = Append(queued, want)
      /\ arg' = None /\ want' = None
      /\ pc' = [pc EXCEPT ![Producer] = "idle"]
      /\ op' = [op EXCEPT ![Producer] = "none"]
      /\ regTail' = [regTail EXCEPT ![Producer] = 0]
      /\ UNCHANGED <<head, headMsg, seenHead, syncHead, memory, ref>>
  BY DEF Publish, Return
<1>2. /\ op[Producer] \in PushOps /\ want \in Values /\ tail < MaxPush
      /\ tail < seenHead[Producer] + N
  BY <1>1 DEF Control, Sending, Passed, TypeOK
<1>3. TypeOK'
  <2>1. queued' \in Seq(Values) /\ Len(queued') = tail' - head'
    <3>1. queued \in Seq(Values) /\ Len(queued) = tail - head BY DEF TypeOK
    <3>2. Append(queued, want) \in Seq(Values) BY <1>2, <3>1
    <3>3. Len(Append(queued, want)) = Len(queued) + 1 BY ONLY <3>1
    <3>4. queued' = Append(queued, want) /\ tail' = tail + 1 /\ head' = head BY <1>1
    <3>5. head \in Nat /\ tail \in Nat BY DEF TypeOK, Stores
    <3> QED BY ONLY <3>1, <3>2, <3>3, <3>4, <3>5
  <2>2. tailMsg' \in Seq(Nat) /\ Len(tailMsg') \in {Len(tailMsg), Len(tailMsg) + 1}
        /\ (Observers # {} => Len(tailMsg') = Len(tailMsg) + 1)
    <3>1. tailMsg \in Seq(Nat) /\ seenHead[Producer] \in Nat BY DEF TypeOK
    <3> QED BY <1>1, <3>1 DEF Record
  <2>3. tail' \in Stores BY <1>1, <1>2, SizeAssumption DEF Stores
  <2>4. Observers # {} => Len(headMsg') = head' /\ Len(tailMsg') = tail'
    BY <1>1, <2>2 DEF TypeOK
  <2>5. /\ seenTail' \in [Threads -> Nat] /\ syncTail' \in [Threads -> Nat]
        /\ regTail' \in [Threads -> Nat]
    BY <1>1
  <2>6. /\ pc' \in [Threads -> {"idle", "load_tail", "load_head", "write", "publish",
                               "pop", "front", "back"}]
        /\ op' \in [Threads -> PushOps \cup ReadOps \cup {"size", "none"}]
    BY <1>1 DEF TypeOK
  <2> QED BY <1>1, <2>1, <2>2, <2>3, <2>4, <2>5, <2>6 DEF TypeOK
<1>4. Views' BY <1>1, <1>2 DEF Views
<1>5. Messages'
  <2> DEFINE n == Len(tailMsg)
  <2>1. tailMsg \in Seq(Nat) BY DEF TypeOK
  <2>2. CASE Observers = {}
    BY <1>1, <2>2 DEF Messages, Record
  <2>3. CASE Observers # {}
    <3>1. n = tail BY <2>3 DEF TypeOK
    <3>2. tailMsg' = Append(tailMsg, seenHead[Producer]) BY <1>1, <2>3 DEF Record
    <3>3. DOMAIN tailMsg' = 1..(tail + 1) BY <2>1, <3>1, <3>2
    <3>4. \A i \in 1..tail : tailMsg'[i] = tailMsg[i] BY <2>1, <3>1, <3>2
    <3>5. tailMsg'[tail + 1] = seenHead[Producer] BY <2>1, <3>1, <3>2
    <3>6. \A i \in 1..tail : i <= tailMsg[i] + N /\ tailMsg[i] <= seenHead[Producer]
      <4>1. DOMAIN tailMsg = 1..tail BY <2>1, <3>1
      <4> QED BY <4>1 DEF Messages
    <3>7. \A i \in DOMAIN tailMsg' : i <= tailMsg'[i] + N /\ tailMsg'[i] <= seenHead[Producer]
      <4> TAKE i \in DOMAIN tailMsg'
      <4>1. i \in 1..tail \/ i = tail + 1 BY <3>3
      <4>2. CASE i \in 1..tail BY <3>4, <3>6, <4>2
      <4>3. CASE i = tail + 1 BY <1>2, <3>5, <4>3
      <4> QED BY <4>1, <4>2, <4>3
    <3> QED BY <1>1, <3>7 DEF Messages
  <2> QED BY <2>2, <2>3
<1>6. Control'
  <2>1. DOMAIN pc = Threads /\ DOMAIN op = Threads BY DEF TypeOK
  <2>2. pc'[Producer] = "idle" /\ op'[Producer] = "none" BY <1>1, <2>1
  <2>3. \A u \in Threads : u # Producer => pc'[u] = pc[u] /\ op'[u] = op[u]
    BY <1>1, <2>1
  <2>4. \A u \in Observers : u \in Threads /\ u # Producer BY ThreadAssumption DEF Threads
  <2> QED BY <2>2, <2>3, <2>4 DEF Control
<1>7. Registers' BY <1>1 DEF Registers, TypeOK
<1>8. Passed' BY <1>1 DEF Passed, TypeOK, ReadOps
<1>9. Sending' BY <1>1 DEF Sending, TypeOK, PushOps
<1>10. Placed'
  <2>1. \A k \in 1..(tail - head) : queued'[k] = queued[k]
    <3>1. queued \in Seq(Values) /\ Len(queued) = tail - head BY DEF TypeOK
    <3> QED BY <1>1, <3>1
  <2>2. queued'[tail - head + 1] = want
    <3>1. queued \in Seq(Values) /\ Len(queued) = tail - head BY DEF TypeOK
    <3>2. queued' = Append(queued, want) BY <1>1
    <3> QED BY ONLY <3>1, <3>2
  <2>3. \A k \in head..tail : /\ slots[Place(k)] = queued'[k - head + 1]
                              /\ lastWrite[Place(k)] = k + 1
    <3> TAKE k \in head..tail
    <3>1. CASE k = tail BY <1>1, <2>2, <3>1 DEF Placed
    <3>2. CASE k # tail
      <4>1. k \in head..(tail - 1) /\ k - head + 1 \in 1..(tail - head) BY <3>2
      <4> QED BY <2>1, <4>1 DEF Placed
    <3> QED BY <3>1, <3>2
  <2>4. pc'[Producer] # "publish"
    <3>1. DOMAIN pc = Threads BY DEF TypeOK
    <3> QED BY <1>1, <3>1
  <2>5. tail' - 1 = tail BY <1>1
  <2> QED BY <1>1, <2>3, <2>4, <2>5 DEF Placed, Place, Slot, Val
<1>11. Used' BY <1>1 DEF Used, Place, Slot, Val
<1>12. Referred' BY <1>1 DEF Referred, Place, Slot, Val
<1> QED BY <1>3, <1>4, <1>5, <1>6, <1>7, <1>8, <1>9, <1>10, <1>11, <1>12

\* The store to head_ takes the oldest item, and the reference to it is given up.
LEMMA PopKeeps == ASSUME IInv, Pop PROVE IInv'
<1> USE ViewTypes, ThreadFacts DEF IInv, memory
<1>1. /\ pc[Consumer] = "pop" /\ head' = head + 1
      /\ headMsg' = Record(headMsg, seenTail[Consumer])
      /\ seenHead' = [seenHead EXCEPT ![Consumer] = head + 1]
      /\ syncHead' = [syncHead EXCEPT ![Consumer] = head + 1]
      /\ queued' = Tail(queued)
      /\ ref' = IF ref # None /\ ref.item = head THEN None ELSE ref
      /\ pc' = [pc EXCEPT ![Consumer] = "idle"]
      /\ op' = [op EXCEPT ![Consumer] = "none"]
      /\ regTail' = [regTail EXCEPT ![Consumer] = 0]
      /\ UNCHANGED <<tail, tailMsg, seenTail, syncTail, memory, arg, want>>
  BY DEF Pop, Return
<1>2. head < seenTail[Consumer] /\ seenTail[Consumer] <= tail
  BY <1>1 DEF Passed, Views, ReadOps
<1>3. DOMAIN pc = Threads /\ DOMAIN op = Threads BY DEF TypeOK
<1>4. pc'[Consumer] = "idle" /\ op'[Consumer] = "none" BY <1>1, <1>3
<1>5. \A u \in Threads : u # Consumer => pc'[u] = pc[u] /\ op'[u] = op[u]
  BY <1>1, <1>3
<1>6. /\ queued \in Seq(Values) /\ Len(queued) = tail - head /\ queued # << >>
  <2>1. queued \in Seq(Values) /\ Len(queued) = tail - head BY DEF TypeOK
  <2>2. tail - head # 0 BY <1>2
  <2> QED BY <2>1, <2>2
<1>7. TypeOK'
  <2>1. queued' \in Seq(Values) /\ Len(queued') = tail' - head'
    <3>1. /\ Tail(queued) \in Seq(Values) /\ Len(Tail(queued)) = Len(queued) - 1
      BY <1>6, HeadTailProperties
    <3> QED BY <1>1, <1>6, <3>1
  <2>2. headMsg' \in Seq(Nat) /\ (Observers # {} => Len(headMsg') = Len(headMsg) + 1)
    <3>1. headMsg \in Seq(Nat) /\ seenTail[Consumer] \in Nat BY DEF TypeOK
    <3> QED BY <1>1, <3>1 DEF Record
  <2>3. Observers # {} => Len(headMsg') = head' /\ Len(tailMsg') = tail'
    BY <1>1, <2>2 DEF TypeOK
  <2>4. /\ seenHead' \in [Threads -> Nat] /\ syncHead' \in [Threads -> Nat]
        /\ regTail' \in [Threads -> Nat] /\ head' \in Nat
    BY <1>1
  <2>5. /\ pc' \in [Threads -> {"idle", "load_tail", "load_head", "write", "publish",
                               "pop", "front", "back"}]
        /\ op' \in [Threads -> PushOps \cup ReadOps \cup {"size", "none"}]
    BY <1>1 DEF TypeOK
  <2>6. ref' \in [item : Nat, slot : 0..(N-1)] \cup {None} BY <1>1 DEF TypeOK
  <2> QED BY <1>1, <2>1, <2>2, <2>3, <2>4, <2>5, <2>6 DEF TypeOK
<1>8. Views' BY <1>1, <1>2 DEF Views
<1>9. Messages'
  <2>1. headMsg \in Seq(Nat) BY DEF TypeOK
  <2>2. CASE Observers = {} BY <1>1, <2>2 DEF Messages, Record
  <2>3. CASE Observers # {}
    <3>1. headMsg' = Append(headMsg, seenTail[Consumer]) BY <1>1, <2>3 DEF Record
    <3>2. /\ Len(headMsg') = Len(headMsg) + 1
          /\ \A j \in 1..Len(headMsg) : headMsg'[j] = headMsg[j]
          /\ headMsg'[Len(headMsg) + 1] = seenTail[Consumer]
          /\ headMsg' \in Seq(Nat)
      BY <2>1, <3>1, AppendProperties
    <3>3. \A j \in DOMAIN headMsg' : headMsg'[j] <= seenTail[Consumer]
      <4> TAKE j \in DOMAIN headMsg'
      <4>1. j \in 1..Len(headMsg) \/ j = Len(headMsg) + 1 BY <2>1, <3>2
      <4>2. CASE j \in 1..Len(headMsg)
        <5>1. j \in DOMAIN headMsg BY <2>1, <4>2
        <5> QED BY <3>2, <4>2, <5>1 DEF Messages
      <4>3. CASE j = Len(headMsg) + 1 BY <3>2, <4>3
      <4> QED BY <4>1, <4>2, <4>3
    <3> QED BY <1>1, <3>3 DEF Messages
  <2> QED BY <2>2, <2>3
<1>10. Control'
  <2>1. \A u \in Observers : u \in Threads /\ u # Consumer BY ThreadAssumption DEF Threads
  <2> QED BY <1>4, <1>5, <2>1 DEF Control
<1>11. Registers' BY <1>1, <1>4, <1>5 DEF Registers
<1>12. Passed' BY <1>1, <1>4, <1>5 DEF Passed, ReadOps
<1>13. Sending' BY <1>1, <1>5 DEF Sending
<1>14. Placed'
  <2>1. \A k \in 1..(tail - head - 1) : queued'[k] = queued[k + 1]
    <3>1. queued \in Seq(Values) /\ Len(queued) = tail - head /\ tail - head \in Nat
      BY <1>6 DEF TypeOK
    <3>2. queued' = Tail(queued) BY <1>1
    <3> QED BY ONLY <3>1, <3>2
  <2>2. \A k \in (head + 1)..(tail - 1) : /\ slots[Place(k)] = queued'[k - (head + 1) + 1]
                                          /\ lastWrite[Place(k)] = k + 1
    <3> TAKE k \in (head + 1)..(tail - 1)
    <3>1. k \in head..(tail - 1) /\ k - head \in 1..(tail - head - 1)
          /\ k - (head + 1) + 1 = k - head
      OBVIOUS
    <3> QED BY <2>1, <3>1 DEF Placed
  <2> QED BY <1>1, <1>5, <2>2 DEF Placed, Place, Slot, Val
<1>15. Used' BY <1>1 DEF Used, Place, Slot, Val
<1>16. Referred'
  <2>1. ref # None => ref.item \in Nat BY DEF TypeOK
  <2> QED BY <1>1, <2>1 DEF Referred, Place, Slot, Val
<1> QED BY <1>7, <1>8, <1>9, <1>10, <1>11, <1>12, <1>13, <1>14, <1>15, <1>16

\* When front or back returns, only the consumer's references and views change.
LEMMA ReferenceKeeps ==
  ASSUME IInv, NEW k \in Nat, head <= k, k < seenTail'[Consumer],
         pc[Consumer] \in {"front", "back"}, Return(Consumer),
         ref' = [item |-> k, slot |-> Place(k)],
         seenTail' \in [Threads -> Nat], syncTail' \in [Threads -> Nat],
         \A u \in Threads \ {Consumer} : seenTail'[u] = seenTail[u],
         syncTail'[Consumer] = seenTail'[Consumer],
         seenTail[Consumer] <= seenTail'[Consumer], seenTail'[Consumer] <= tail,
         UNCHANGED <<shared, seenHead, syncHead, memory, arg, want>>
  PROVE  IInv'
<1> USE ViewTypes, ThreadFacts DEF IInv, memory, shared
<1>1. /\ pc' = [pc EXCEPT ![Consumer] = "idle"]
      /\ op' = [op EXCEPT ![Consumer] = "none"]
      /\ regTail' = [regTail EXCEPT ![Consumer] = 0]
  BY DEF Return
<1>3. DOMAIN pc = Threads /\ DOMAIN op = Threads BY DEF TypeOK
<1>4. pc'[Consumer] = "idle" /\ op'[Consumer] = "none" BY <1>1, <1>3
<1>5. \A u \in Threads : u # Consumer => pc'[u] = pc[u] /\ op'[u] = op[u]
  BY <1>1, <1>3
<1>7. TypeOK'
  <2>1. /\ pc' \in [Threads -> {"idle", "load_tail", "load_head", "write", "publish",
                               "pop", "front", "back"}]
        /\ op' \in [Threads -> PushOps \cup ReadOps \cup {"size", "none"}]
    BY <1>1 DEF TypeOK
  <2>2. ref' \in [item : Nat, slot : 0..(N-1)] BY PlaceType
  <2>3. regTail' \in [Threads -> Nat] BY <1>1
  <2> QED BY <2>1, <2>2, <2>3 DEF TypeOK
<1>8. Views' BY DEF Views
<1>9. Messages' BY MessageTypes DEF Messages
<1>10. Control'
  <2>1. \A u \in Observers : u \in Threads /\ u # Consumer BY ThreadAssumption DEF Threads
  <2> QED BY <1>4, <1>5, <2>1 DEF Control
<1>11. Registers' BY <1>1, <1>4, <1>5 DEF Registers
<1>12. Passed' BY <1>4, <1>5 DEF Passed, ReadOps
<1>13. Sending' BY <1>5 DEF Sending
<1>14. Placed' BY <1>5 DEF Placed, Place, Slot, Val
<1>15. Used' BY DEF Used, Place, Slot, Val
<1>16. Referred' BY DEF Referred, Place, Slot, Val
<1> QED BY <1>7, <1>8, <1>9, <1>10, <1>11, <1>12, <1>13, <1>14, <1>15, <1>16

\* front() returns a reference to the slot of head_, if empty() found none to be missing.
LEMMA FrontKeeps == ASSUME IInv, Front PROVE IInv'
<1> USE ViewTypes, ThreadFacts DEF IInv
<1>1. /\ pc[Consumer] = "front" /\ Return(Consumer)
      /\ ref' = [item |-> head, slot |-> Place(head)]
      /\ UNCHANGED <<shared, views, memory, arg, want>>
  BY DEF Front, Place
<1>2. UNCHANGED <<seenHead, seenTail, syncHead, syncTail>> BY <1>1 DEF views
<1>3. head < seenTail[Consumer] BY <1>1 DEF Passed, ReadOps
<1>4. seenTail[Consumer] <= tail /\ syncTail[Consumer] = seenTail[Consumer] BY DEF Views
<1> QED BY <1>1, <1>2, <1>3, <1>4, ReferenceKeeps

\* The second load of tail_ in back() finds the tail_ that empty() saw, or a later one.
LEMMA BackKeeps == ASSUME IInv, NEW i \in 0..tail, Back(i) PROVE IInv'
<1> USE ViewTypes, ThreadFacts DEF IInv
<1> DEFINE view == ViewOf(tailMsg, i)
<1>0. /\ view \in Nat /\ view <= seenHead[Producer] BY TailView
<1> HIDE DEF view
<1>1. /\ pc[Consumer] = "back" /\ Return(Consumer)
      /\ ref' = [item |-> i - 1, slot |-> Slot((Val(i) - 1) % W)]
      /\ UNCHANGED <<shared, memory, arg, want, syncHead>>
      /\ i \in Nat /\ seenTail[Consumer] <= i /\ i <= tail
      /\ seenTail' = [seenTail EXCEPT ![Consumer] = i]
      /\ syncTail' = [syncTail EXCEPT ![Consumer] = i]
      /\ seenHead' = [seenHead EXCEPT ![Consumer] = Later(@, view)]
  BY DEF Back, ReadTail, Synchronizes, BackLoadOrder, TailStoreOrder, view
<1>2. seenHead' = seenHead
  <2>1. view <= seenHead[Consumer] BY <1>0 DEF Views
  <2> QED BY <1>0, <1>1, <2>1 DEF Later
<1>3. head < seenTail[Consumer] BY <1>1 DEF Passed, ReadOps
<1>4. i - 1 \in Nat /\ head <= i - 1 /\ ref' = [item |-> i - 1, slot |-> Place(i - 1)]
  BY <1>1, <1>3, BackPlace
<1>5. i - 1 < seenTail'[Consumer] BY <1>1
<1>6. /\ seenTail' \in [Threads -> Nat] /\ syncTail' \in [Threads -> Nat]
      /\ \A u \in Threads \ {Consumer} : seenTail'[u] = seenTail[u]
      /\ syncTail'[Consumer] = seenTail'[Consumer]
      /\ seenTail[Consumer] <= seenTail'[Consumer] /\ seenTail'[Consumer] <= tail
  BY <1>1
<1> QED BY <1>1, <1>2, <1>4, <1>5, <1>6, ReferenceKeeps

\* A slot in use now is assigned again N items later at the earliest.
LEMMA UseRefKeeps == ASSUME IInv, UseRef PROVE IInv'
<1> USE ViewTypes, ThreadFacts DEF IInv, shared, views, caller
<1>1. /\ ref # None /\ lastUse' = [lastUse EXCEPT ![ref.slot] = head + 1]
      /\ UNCHANGED <<pc, op, regTail, shared, views, slots, lastWrite, caller>>
  BY DEF UseRef
<1>2. /\ ref.item \in Nat /\ ref.slot \in 0..(N-1)
      /\ lastUse \in [0..(N-1) -> Nat] /\ tail <= MaxPush /\ MaxPush \in Nat
  <2>1. ref \in [item : Nat, slot : 0..(N-1)] BY <1>1 DEF TypeOK
  <2>2. lastUse \in [0..(N-1) -> Nat] BY DEF TypeOK
  <2>3. tail <= MaxPush BY DEF TypeOK, Stores
  <2> QED BY <2>1, <2>2, <2>3, SizeAssumption
<1>3. head <= ref.item /\ ref.item < tail /\ ref.slot = Place(ref.item)
  BY <1>1, <1>2 DEF Referred, Views
<1>4. TypeOK'
  <2>1. lastUse' \in [0..(N-1) -> Nat]
    <3>1. head + 1 \in Nat OBVIOUS
    <3> QED BY <1>1, <1>2, <3>1
  <2> QED BY <1>1, <2>1 DEF TypeOK
<1>5. Used'
  <2>1. \A k \in tail..(MaxPush - 1) : lastUse'[Place(k)] = 0 \/ lastUse'[Place(k)] + N <= k + 1
    <3> TAKE k \in tail..(MaxPush - 1)
    <3>0. k \in Nat /\ Place(k) \in 0..(N-1) BY PlaceType
    <3>1. CASE Place(k) # ref.slot BY <1>1, <1>2, <3>0, <3>1 DEF Used
    <3>2. CASE Place(k) = ref.slot
      <4> DEFINE m == ref.item
      <4>1. m \in Nat /\ head <= m /\ m < tail /\ Place(m) = Place(k) BY <1>2, <1>3, <3>2
      <4>2. lastUse'[Place(k)] = head + 1 BY <1>1, <1>2, <3>0, <3>2
      <4> HIDE DEF m
      <4>3. tail <= k /\ k <= MaxPush - 1 /\ k \in Int BY <1>2
      <4>4. k \in 0..(MaxPush - 1) /\ m \in 0..(MaxPush - 1) /\ m < k
        BY <1>2, <4>1, <4>3
      <4>5. m + N <= k BY <4>1, <4>4, PlaceInjective
      <4> QED BY <4>1, <4>2, <4>3, <4>5
    <3> QED BY <3>1, <3>2
  <2> QED BY <1>1, <2>1 DEF Used, Place, Slot, Val
<1>6. Views' /\ Messages' /\ Control' /\ Registers' /\ Passed' /\ Sending'
  BY <1>1 DEF Views, Messages, Control, Registers, Passed, Sending
<1>7. Placed' BY <1>1 DEF Placed, Place, Slot, Val
<1>8. Referred' BY <1>1 DEF Referred, Place, Slot, Val
<1> QED BY <1>4, <1>5, <1>6, <1>7, <1>8

-----------------------------------------------------------------------------
(* The theorems.                                                           *)

\* Every step of every thread keeps the invariant.
LEMMA StepInv == IInv /\ [Next]_vars => IInv'
<1> SUFFICES ASSUME IInv, [Next]_vars PROVE IInv' OBVIOUS
<1> USE ThreadFacts
<1>1. ASSUME NEW v \in Values, NEW o \in PushOps, CallPush(v, o) PROVE IInv'
  <2>1. /\ arg' = v /\ want' = v /\ UNCHANGED ref /\ tail < MaxPush
        /\ Begin(Producer, o) /\ v # None
    BY <1>1, ValueAssumption DEF CallPush
  <2>2. o \notin ReadOps BY DEF PushOps, ReadOps
  <2> QED BY <2>1, <2>2, BeginKeeps
<1>2. ASSUME NEW o \in PushOps, RetryPush(o) PROVE IInv'
  <2>1. arg # None /\ Begin(Producer, o) /\ UNCHANGED <<arg, want, ref>>
    BY <1>2 DEF RetryPush, caller
  <2>2. want # None BY <2>1 DEF Begin, IInv, Sending
  <2>3. o \notin ReadOps BY DEF PushOps, ReadOps
  <2> QED BY <2>1, <2>2, <2>3, BeginKeeps
<1>3. ASSUME NEW o \in ReadOps, CallConsumer(o) PROVE IInv'
  <2>1. o \notin PushOps BY DEF PushOps, ReadOps
  <2> QED BY <1>3, <2>1, BeginKeeps DEF CallConsumer, caller
<1>4. ASSUME NEW t \in Threads, CallSize(t) PROVE IInv'
  <2>1. "size" \notin PushOps \cup ReadOps BY DEF PushOps, ReadOps
  <2> QED BY <1>4, <2>1, BeginKeeps DEF CallSize, caller
<1>5. ASSUME NEW t \in Threads, SizeStep(t) PROVE IInv'
  BY <1>5, LoadTailKeeps, LoadHeadKeeps DEF SizeStep
<1>6. ASSUME ProducerStep PROVE IInv'
  BY <1>5, <1>6, WriteKeeps, PublishKeeps DEF ProducerStep
<1>7. ASSUME ConsumerStep PROVE IInv'
  BY <1>5, <1>7, PopKeeps, FrontKeeps, BackKeeps DEF ConsumerStep
<1>8. CASE UNCHANGED vars
  <2> USE <1>8 DEF vars
  <2>1. TypeOK' BY DEF IInv, TypeOK, Stores
  <2>2. Views' /\ Messages' /\ Control' BY DEF IInv, Views, Messages, Control
  <2>3. Registers' /\ Passed' /\ Sending' BY DEF IInv, Registers, Passed, Sending
  <2>4. Placed' /\ Used' /\ Referred' BY DEF IInv, Placed, Used, Referred, Place, Slot, Val
  <2> QED BY <2>1, <2>2, <2>3, <2>4 DEF IInv
<1>9. CASE Next
  <2>1. \A t \in Observers : t \in Threads BY DEF Threads
  <2> QED BY <1>1, <1>2, <1>3, <1>4, <1>5, <1>6, <1>7, <1>9, <2>1, UseRefKeeps DEF Next
<1> QED BY <1>8, <1>9

\* IInv holds in every reachable state of the ring buffer (kernel/ring_buf.hpp).
THEOREM Invariance == Spec => []IInv
BY InitInv, StepInv, PTL DEF Spec

\* Type correctness: the slots and the queue hold payloads, the threads are at steps of
\* methods they called, and no more than MaxPush pushes are counted.
THEOREM TypeCorrect == Spec => []TypeOK
<1>1. IInv => TypeOK BY DEF IInv
<1> QED BY <1>1, Invariance, PTL

\* push and pop keep the number of queued values between 0 and N although they decide on
\* stale loads.
THEOREM Capacity == Spec => []CapacityRespected
<1>1. IInv => CapacityRespected
  BY ViewTypes, ThreadFacts DEF IInv, Views, CapacityRespected
<1> QED BY <1>1, Invariance, PTL

\* The answer of full() and empty() is still right when the method acts on it.
THEOREM ChecksStayValid == Spec => []CheckStaysValid
<1>1. IInv => CheckStaysValid
  BY ViewTypes, ThreadFacts DEF IInv, Views, Passed, CheckStaysValid
<1> QED BY <1>1, Invariance, PTL

\* What the buffer holds is, as a sequence, what the producer's callers sent.
LEMMA ContentsQueued == IInv => Contents = queued /\ QueuedIntact
<1> SUFFICES ASSUME IInv PROVE Contents = queued /\ QueuedIntact OBVIOUS
<1>1. head \in Nat /\ tail \in Nat BY ViewTypes DEF IInv
<1>2. queued \in Seq(Values) /\ Len(queued) = tail - head BY DEF IInv, TypeOK
<1>3. \A k \in 1..(tail - head) : slots[Place(head + k - 1)] = queued[k]
  <2> TAKE k \in 1..(tail - head)
  <2>1. head + k - 1 \in head..(tail - 1) /\ (head + k - 1) - head + 1 = k BY <1>1
  <2> QED BY <2>1 DEF IInv, Placed
<1>4. queued = [k \in 1..(tail - head) |-> queued[k]] BY <1>1, <1>2
<1> QED BY <1>3, <1>4 DEF Contents, QueuedIntact, Place

\* Queued values are never disturbed.
THEOREM QueueIntact == Spec => []QueuedIntact
<1>1. IInv => QueuedIntact BY ContentsQueued
<1> QED BY <1>1, Invariance, PTL

\* References handed out by front and back stay good until their item is popped.
THEOREM ReferencesStable == Spec => []RefStable
<1>1. IInv => RefStable
  <2> SUFFICES ASSUME IInv, ref # None
               PROVE  /\ head <= ref.item /\ ref.item < tail
                      /\ slots[ref.slot] = queued[ref.item - head + 1]
    BY DEF RefStable
  <2>1. ref.item \in Nat BY DEF IInv, TypeOK
  <2>2. head <= ref.item /\ ref.item < tail /\ ref.slot = Place(ref.item)
    BY <2>1, ViewTypes, ThreadFacts DEF IInv, Views, Referred
  <2>3. ref.item \in head..(tail - 1) BY <2>1, <2>2, ViewTypes DEF IInv
  <2> QED BY <2>2, <2>3 DEF IInv, Placed
<1> QED BY <1>1, Invariance, PTL

\* Conflicting accesses to a slot are ordered by happens-before.
THEOREM RaceFree == Spec => []NoDataRace
<1>1. IInv => NoDataRace
  <2> SUFFICES ASSUME IInv PROVE NoDataRace OBVIOUS
  <2> USE ViewTypes, ThreadFacts DEF IInv
  <2>1. pc[Producer] = "write" => lastUse[Place(tail)] <= syncHead[Producer]
    <3> SUFFICES ASSUME pc[Producer] = "write"
                 PROVE  lastUse[Place(tail)] <= syncHead[Producer]
      OBVIOUS
    <3>1. tail < seenHead[Producer] + N BY DEF Passed
    <3>2. tail < MaxPush
      <4>1. op[Producer] \in PushOps BY DEF Control
      <4> QED BY <4>1 DEF Sending
    <3>3. tail \in tail..(MaxPush - 1) BY <3>2, SizeAssumption
    <3>4. lastUse[Place(tail)] = 0 \/ lastUse[Place(tail)] + N <= tail + 1
      BY <3>3 DEF Used
    <3>5. lastUse[Place(tail)] \in Nat
      <4>1. lastUse \in [0..(N-1) -> Nat] BY DEF TypeOK
      <4> QED BY <4>1, PlaceType
    <3> QED BY <3>1, <3>4, <3>5 DEF Views
  <2>2. ref # None => lastWrite[ref.slot] <= syncTail[Consumer]
    <3> SUFFICES ASSUME ref # None PROVE lastWrite[ref.slot] <= syncTail[Consumer]
      OBVIOUS
    <3>1. ref.item \in Nat BY DEF TypeOK
    <3>2. /\ head <= ref.item /\ ref.item < seenTail[Consumer]
          /\ seenTail[Consumer] <= tail /\ ref.slot = Place(ref.item)
      BY <3>1 DEF Views, Referred
    <3>3. ref.item \in head..(tail - 1) BY <3>1, <3>2
    <3>4. lastWrite[ref.slot] = ref.item + 1 BY <3>2, <3>3 DEF Placed
    <3> QED BY <3>1, <3>2, <3>4 DEF Views
  <2> QED BY <2>1, <2>2 DEF NoDataRace, Place
<1> QED BY <1>1, Invariance, PTL

\* Only its own load of head_ takes a thread out of size().
LEMMA LeavesSize ==
  ASSUME IInv, Next, NEW t \in Threads, pc[t] = "load_head", pc'[t] # "load_head"
  PROVE  \E j \in 0..head : LoadHead(t, j)
<1> USE ThreadFacts
<1>0. DOMAIN pc = Threads BY DEF IInv, TypeOK
<1>1. \A u \in Threads : \A l : pc[u] # "load_head" => pc' # [pc EXCEPT ![u] = l]
  BY <1>0
<1>2. pc' # pc OBVIOUS
<1>3. ASSUME NEW u \in Threads, SizeStep(u) PROVE \E j \in 0..head : LoadHead(t, j)
  <2>1. ASSUME NEW i \in 0..tail, LoadTail(u, i) PROVE FALSE
    BY <1>1, <2>1 DEF LoadTail
  <2>2. ASSUME NEW j \in 0..head, Fail(u, j) \/ Pass(u, j) \/ SizeReturns(u, j)
        PROVE  \E k \in 0..head : LoadHead(t, k)
    <3>1. LoadHead(u, j) BY <2>2 DEF Fail, Pass, SizeReturns
    <3>2. \E l : pc' = [pc EXCEPT ![u] = l] BY <2>2 DEF Fail, Pass, SizeReturns, Return
    <3>3. u = t BY <1>0, <3>2
    <3> QED BY <3>1, <3>3
  <2> QED BY <1>3, <2>1, <2>2 DEF SizeStep
<1>4. ~(\E v \in Values, o \in PushOps : CallPush(v, o)) BY <1>1 DEF CallPush, Begin
<1>5. ~(\E o \in PushOps : RetryPush(o)) BY <1>1 DEF RetryPush, Begin
<1>6. ~(\E o \in ReadOps : CallConsumer(o)) BY <1>1 DEF CallConsumer, Begin
<1>7. ~(\E u \in Threads : CallSize(u)) BY <1>1 DEF CallSize, Begin
<1>8. ~Write /\ ~Publish BY <1>1 DEF Write, Publish, Return
<1>9. ~Pop /\ ~Front /\ ~(\E i \in 0..tail : Back(i)) BY <1>1 DEF Pop, Front, Back, Return
<1>10. ~UseRef BY <1>2 DEF UseRef
<1>11. \A u \in Observers : u \in Threads BY DEF Threads
<1> QED BY <1>3, <1>4, <1>5, <1>6, <1>7, <1>8, <1>9, <1>10, <1>11
       DEF Next, ProducerStep, ConsumerStep

\* size() exceeds N only in an observer that head_ has overtaken.
THEOREM SizesBounded == Spec => SizeBounded
<1> DEFINE Bounded ==
      \A t \in Threads :
        pc[t] = "load_head" /\ pc'[t] # "load_head"
          => \/ SizeOf(regTail[t], seenHead'[t]) <= N
             \/ t \in Observers /\ seenHead'[t] > regTail[t]
<1>1. IInv /\ [Next]_vars => [Bounded]_vars
  <2> SUFFICES ASSUME IInv, Next PROVE Bounded OBVIOUS
  <2> SUFFICES ASSUME NEW t \in Threads, pc[t] = "load_head", pc'[t] # "load_head"
               PROVE  \/ SizeOf(regTail[t], seenHead'[t]) <= N
                      \/ t \in Observers /\ seenHead'[t] > regTail[t]
    OBVIOUS
  <2>1. PICK j \in 0..head : LoadHead(t, j) BY LeavesSize
  <2>2. seenHead' = [seenHead EXCEPT ![t] = j] /\ seenHead \in [Threads -> Nat]
        /\ j \in Nat /\ regTail[t] \in Nat
    BY <2>1, LoadHeadViews, ViewTypes DEF IInv
  <2>3. seenHead'[t] = j BY <2>2
  <2>4. /\ j <= regTail[t] => SizeOf(regTail[t], j) <= N
        /\ t \in {Producer, Consumer} => j <= regTail[t]
    BY <2>1, LoadedSize
  <2>5. CASE j <= regTail[t] BY <2>3, <2>4, <2>5
  <2>6. CASE j > regTail[t]
    <3>1. t \in Observers BY <2>2, <2>4, <2>6, ThreadFacts
    <3> QED BY <2>3, <2>6, <3>1
  <2> QED BY <2>2, <2>5, <2>6
<1> QED BY <1>1, Invariance, PTL DEF Spec, SizeBounded

-----------------------------------------------------------------------------
(* The ring buffer implements the queue.                                   *)

\* Only the stores to tail_ and head_ change what is queued, and they do it as a queue.
LEMMA QueueStep ==
  ASSUME IInv, [Next]_vars
  PROVE  \/ \E v \in Values : Len(queued) < N /\ queued' = Append(queued, v)
         \/ queued # << >> /\ queued' = Tail(queued)
         \/ queued' = queued
<1> USE ViewTypes, ThreadFacts DEF IInv
<1>1. queued \in Seq(Values) /\ Len(queued) = tail - head BY DEF TypeOK
<1>2. CASE Publish
  <2>1. want \in Values BY <1>2 DEF Publish, Control, Sending, TypeOK
  <2>2. Len(queued) < N BY <1>1, <1>2 DEF Publish, Passed, Views
  <2> QED BY <1>2, <2>1, <2>2 DEF Publish
<1>3. CASE Pop
  <2>1. tail - head # 0 BY <1>3 DEF Pop, Passed, Views, ReadOps
  <2>2. queued # << >> BY <1>1, <2>1
  <2> QED BY <1>3, <2>2 DEF Pop
<1>4. CASE UNCHANGED vars BY <1>4 DEF vars
<1>5. ASSUME NEW t \in Threads, SizeStep(t) PROVE queued' = queued
  BY <1>5 DEF SizeStep, LoadTail, Fail, Pass, SizeReturns, LoadHead, shared
<1>6. CASE Next /\ ~Publish /\ ~Pop
  <2>1. \A u \in Observers : u \in Threads BY DEF Threads
  <2>2. queued' = queued
    BY <1>5, <1>6, <2>1 DEF Next, ProducerStep, ConsumerStep, CallPush, RetryPush,
       CallConsumer, CallSize, Begin, Write, Front, Back, UseRef, shared
  <2> QED BY <2>2
<1> QED BY <1>2, <1>3, <1>4, <1>6

\* The ring buffer implements BoundedQueue: whatever the threads see of each other's
\* counters, it behaves as a first-in first-out queue of at most N values.
THEOREM ImplementsQueue == Spec => QueueSpec
<1>1. Init => Queue!Init
  <2> SUFFICES ASSUME Init PROVE Contents = << >> BY DEF Queue!Init
  <2>1. Contents = queued BY InitInv, ContentsQueued
  <2> QED BY <2>1 DEF Init
<1>2. IInv => Contents = queued BY ContentsQueued
<1>3. (IInv => Contents = queued)' BY <1>2, PTL
<1>4. IInv /\ [Next]_vars => [Queue!Next]_Contents
  <2> SUFFICES ASSUME IInv, [Next]_vars PROVE [Queue!Next]_Contents OBVIOUS
  <2>1. Contents = queued BY <1>2
  <2>2. Contents' = queued'
    <3>1. IInv' BY StepInv
    <3> QED BY <1>3, <3>1
  <2>3. CASE \E v \in Values : Len(queued) < N /\ queued' = Append(queued, v)
    BY <2>1, <2>2, <2>3 DEF Queue!Next, Queue!Enqueue
  <2>4. CASE queued # << >> /\ queued' = Tail(queued)
    BY <2>1, <2>2, <2>4 DEF Queue!Next, Queue!Dequeue
  <2>5. CASE queued' = queued BY <2>1, <2>2, <2>5
  <2> QED BY <2>3, <2>4, <2>5, QueueStep
<1> QED BY <1>1, <1>4, Invariance, PTL DEF Spec, QueueSpec, Queue!Spec
-----------------------------------------------------------------------------
(* The safe half of RunnerReturns: what can be said without fairness.      *)

\* How many steps a method at p still takes at most.
Remaining(p) ==
  CASE p = "idle"      -> 0
    [] p \in {"publish", "pop", "front", "back"} -> 1
    [] p = "write"     -> 2
    [] p = "load_head" -> 3
    [] p = "load_tail" -> 4

\* The part of the state that is a thread's own.
Own(t) == <<pc[t], op[t], regTail[t], seenHead[t], seenTail[t]>>

\* Thread t is left alone, calls a method, or comes closer to the end of the one it called.
MovesOn(t) ==
  \/ Own(t)' = Own(t)
  \/ pc[t] = "idle" /\ pc'[t] = "load_tail"
  \/ pc[t] # "idle" /\ Remaining(pc'[t]) < Remaining(pc[t])

\* What a step of thread u may change of the threads' own state.
StepOf(u) ==
  /\ \A t \in Threads : t # u => Own(t)' = Own(t)
  /\ MovesOn(u)

\* The steps of size() bring their thread on: there are two loads, then what the method
\* does about their difference.
LEMMA SizeStepOf ==
  ASSUME IInv, NEW u \in Threads, SizeStep(u) PROVE StepOf(u)
<1>1. TypeOK BY DEF IInv
<1>2. CASE \E i \in 0..tail : LoadTail(u, i)
  <2>1. pc[u] = "load_tail" /\ pc'[u] = "load_head" BY <1>1, <1>2 DEF LoadTail, TypeOK
  <2>2. \A t \in Threads : t # u => Own(t)' = Own(t)
    BY <1>1, <1>2 DEF LoadTail, ReadTail, TypeOK, Own
  <2> QED BY <2>1, <2>2 DEF StepOf, MovesOn, Remaining
<1>3. CASE \E j \in 0..head : Fail(u, j) \/ Pass(u, j) \/ SizeReturns(u, j)
  <2>1. pc[u] = "load_head" BY <1>3 DEF Fail, Pass, SizeReturns, LoadHead
  <2>2. pc'[u] \in {"idle", "write", "pop", "front", "back"}
    <3>1. CASE \E j \in 0..head : Pass(u, j)
      <4>1. /\ op[u] # "size" /\ op[u] # "none"
            /\ pc'[u] = IF op[u] \in PushOps THEN "write" ELSE op[u]
        BY <1>1, <2>1, <3>1 DEF Pass, TypeOK, IInv, Control
      <4> QED BY <1>1, <4>1 DEF TypeOK, ReadOps
    <3>2. CASE \E j \in 0..head : Fail(u, j) \/ SizeReturns(u, j)
      BY <1>1, <3>2 DEF Fail, SizeReturns, Return, TypeOK
    <3> QED BY <1>3, <3>1, <3>2
  <2>3. \A t \in Threads : t # u => Own(t)' = Own(t)
    <3>1. CASE \E j \in 0..head : Pass(u, j)
      BY <1>1, <3>1 DEF Pass, LoadHead, ReadHead, TypeOK, Own
    <3>2. CASE \E j \in 0..head : Fail(u, j) \/ SizeReturns(u, j)
      BY <1>1, <3>2 DEF Fail, SizeReturns, Return, LoadHead, ReadHead, TypeOK, Own
    <3> QED BY <1>3, <3>1, <3>2
  <2> QED BY <2>1, <2>2, <2>3 DEF StepOf, MovesOn, Remaining
<1> QED BY <1>2, <1>3 DEF SizeStep

\* No method of the ring buffer can be kept from returning: each of its steps is one of at
\* most four, whatever it finds, and no step of another thread undoes one; there is no loop
\* in push, pop, front, back and size (kernel/ring_buf.hpp:23-89).
THEOREM MethodsAdvance == Spec => [][\A t \in Threads : MovesOn(t)]_vars
<1>1. IInv /\ [Next]_vars => [\A t \in Threads : MovesOn(t)]_vars
  <2> SUFFICES ASSUME IInv, Next PROVE \A t \in Threads : MovesOn(t) OBVIOUS
  <2>1. TypeOK /\ Producer \in Threads /\ Consumer \in Threads /\ Observers \subseteq Threads
    BY DEF IInv, Threads
  <2>2. ASSUME NEW u \in Threads, StepOf(u) PROVE \A t \in Threads : MovesOn(t)
    BY <2>2 DEF StepOf, MovesOn
  <2>3. ASSUME NEW u \in Threads, NEW o, Begin(u, o) PROVE StepOf(u)
    <3>1. pc[u] = "idle" /\ pc'[u] = "load_tail" BY <2>1, <2>3 DEF Begin, TypeOK
    <3>2. \A t \in Threads : t # u => Own(t)' = Own(t)
      BY <2>1, <2>3 DEF Begin, views, TypeOK, Own
    <3> QED BY <3>1, <3>2 DEF StepOf, MovesOn
  <2>4. CASE Write
    <3>1. pc[Producer] = "write" /\ pc'[Producer] = "publish" BY <2>1, <2>4 DEF Write, TypeOK
    <3>2. \A t \in Threads : t # Producer => Own(t)' = Own(t)
      BY <2>1, <2>4 DEF Write, views, TypeOK, Own
    <3>3. StepOf(Producer) BY <3>1, <3>2 DEF StepOf, MovesOn, Remaining
    <3> QED BY <2>1, <2>2, <3>3
  <2>5. CASE Publish
    <3>1. pc[Producer] = "publish" /\ pc'[Producer] = "idle"
      BY <2>1, <2>5 DEF Publish, Return, TypeOK
    <3>2. \A t \in Threads : t # Producer => Own(t)' = Own(t)
      BY <2>1, <2>5 DEF Publish, Return, TypeOK, Own
    <3>3. StepOf(Producer) BY <3>1, <3>2 DEF StepOf, MovesOn, Remaining
    <3> QED BY <2>1, <2>2, <3>3
  <2>6. CASE Pop \/ Front \/ \E i \in 0..tail : Back(i)
    <3>1. pc[Consumer] \in {"pop", "front", "back"} /\ pc'[Consumer] = "idle"
      BY <2>1, <2>6 DEF Pop, Front, Back, Return, TypeOK
    <3>2. \A t \in Threads : t # Consumer => Own(t)' = Own(t)
      <4>1. CASE Pop BY <2>1, <4>1 DEF Pop, Return, TypeOK, Own
      <4>2. CASE Front BY <2>1, <4>2 DEF Front, Return, views, TypeOK, Own
      <4>3. ASSUME NEW i \in 0..tail, Back(i)
            PROVE  \A t \in Threads : t # Consumer => Own(t)' = Own(t)
        <5> DEFINE h == Later(seenHead[Consumer], ViewOf(tailMsg, i))
        <5>1. seenHead' = [seenHead EXCEPT ![Consumer] = h] \/ seenHead' = seenHead
          BY <4>3 DEF Back, ReadTail
        <5>2. /\ pc' = [pc EXCEPT ![Consumer] = "idle"]
              /\ op' = [op EXCEPT ![Consumer] = "none"]
              /\ regTail' = [regTail EXCEPT ![Consumer] = 0]
              /\ seenTail' = [seenTail EXCEPT ![Consumer] = i]
          BY <4>3 DEF Back, ReadTail, Return
        <5> HIDE DEF h
        <5> QED BY <2>1, <5>1, <5>2 DEF TypeOK, Own
      <4> QED BY <2>6, <4>1, <4>2, <4>3
    <3>3. StepOf(Consumer) BY <3>1, <3>2 DEF StepOf, MovesOn, Remaining
    <3> QED BY <2>1, <2>2, <3>3
  <2>7. CASE UseRef BY <2>7 DEF UseRef, views, MovesOn, Own
  <2>8. CASE \E u \in Threads : SizeStep(u) BY <2>2, <2>8, SizeStepOf
  <2>9. CASE \E u \in Threads : \E o : Begin(u, o) BY <2>2, <2>3, <2>9
  <2> QED
    BY <2>1, <2>4, <2>5, <2>6, <2>7, <2>8, <2>9
       DEF Next, ProducerStep, ConsumerStep, CallPush, RetryPush, CallConsumer, CallSize
<1> QED BY <1>1, Invariance, PTL DEF Spec
=============================================================================
