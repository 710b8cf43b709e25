--------------------------- MODULE RingBufferLive ---------------------------
(***************************************************************************)
(* What the methods of RingBuffer do in the end.  Which threads are sure   *)
(* to be scheduled is chosen when the system starts: the other one may     *)
(* stop anywhere, also in the middle of a method.                          *)
(***************************************************************************)
EXTENDS RingBuffer

VARIABLE scheduled   \* the threads that are sure to go on

Both     == {Producer, Consumer}
LiveInit == Init /\ scheduled \in SUBSET Both \ {{}}
LiveNext == Next /\ UNCHANGED scheduled
LiveVars == <<vars, scheduled>>

\* Once in a method, a scheduled thread goes on.  When both are scheduled, and only then,
\* they also keep calling, and C++ promises that a store becomes visible to loads in
\* finite time: of endlessly many loads one reads the newest store.
Goes(t, A)  == t \in scheduled /\ A /\ UNCHANGED scheduled
Meet(A)     == scheduled = Both /\ A /\ UNCHANGED scheduled
LiveSpec ==
  /\ LiveInit /\ [][LiveNext]_LiveVars
  /\ WF_LiveVars(Goes(Producer, ProducerStep)) /\ WF_LiveVars(Goes(Consumer, ConsumerStep))
  /\ SF_LiveVars(Meet(\E o \in PushOps : RetryPush(o)))
  /\ SF_LiveVars(Meet(CallConsumer("pop")))
  /\ SF_LiveVars(Meet(op[Producer] \in PushOps /\ FreshHead(Producer)))
  /\ SF_LiveVars(Meet(op[Consumer] = "pop" /\ LoadTail(Consumer, tail)))

\* No method waits for the other thread: a call of a scheduled thread returns although
\* the other thread may be stopped in the middle of its own.
RunnerReturns ==
  \A t \in Both : (t \in scheduled /\ pc[t] # "idle") ~> pc[t] = "idle"

\* What was pushed is popped, in spite of stale loads of tail_, when both threads run ...
Delivered == \A k \in 1..MaxPush : (scheduled = Both /\ tail >= k) ~> head >= k

\* ... and room made by pop reaches a producer that was told buffer_full, in spite of
\* stale loads of head_.
PushAccepted ==
  \A k \in 1..MaxPush : (scheduled = Both /\ want # None /\ tail = k - 1) ~> tail >= k
=============================================================================
