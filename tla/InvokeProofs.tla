---------------------------- MODULE InvokeProofs ----------------------------
(***************************************************************************)
(* Calls through any number of reference_wrappers keep what their noexcept *)
(* promises, and the overloads of invoke_impl are those of INVOKE wherever *)
(* there is neither a wrapped nor a union object.                          *)
(***************************************************************************)
EXTENDS Invoke, SequenceTheorems, TLAPS

\* The operations still to come are those of the call that was asked for: however many
\* wrappers have been passed, the callable inside them is the same.
SameCallable ==
  /\ call = None <=> step = "idle"
  /\ call = None <=> f = None
  /\ call # None => /\ f.wraps <= call.f.wraps
                    /\ Inside(f) = Inside(call.f) /\ f.throws = call.f.throws
                    /\ f.wraps \in Nat

Handle == "(*o).*f" \in invoke_impl(Inside(call.f), call.a)

\* What each function on the stack promises, and what has been done so far.
Promises ==
  LET g == call.f  a == call.a  R == call.R
      entered == step \in {"select", "dereference", "run", "convert", "returned", "thrown"}
  IN /\ entered =>
          /\ 1 \in DOMAIN frames
          /\ is_invocable(g, a)
          /\ step # "thrown" =>
               frames[1] = Mark(invoke_is_nothrow(g, a) /\ R # "throwing conversion")
     /\ step \in {"select", "dereference", "run"} =>
          \A k \in DOMAIN frames \ {1} : frames[k] = Mark(invoke_is_nothrow(g, a))
     /\ step = "select" => Len(frames) <= 3 * (g.wraps - f.wraps) + 1
     /\ step \in {"convert", "returned"} => Len(frames) = 1
     /\ step = "dereference" => Handle
     /\ step \in {"idle", "asked", "select", "dereference"} => risks = {}
     /\ step \in {"idle", "asked"} => frames = << >>
     /\ step = "run" => (risks = {} <=> ~(Handle /\ a.first.throws))
     /\ step = "convert" => (risks = {} <=> invoke_is_nothrow(g, a))

Inv == TypeOK /\ SameCallable /\ Promises /\ NoexceptExact

-----------------------------------------------------------------------------
(* Wrappers.                                                               *)

LEMMA WrapsInNat == ASSUME NEW g \in Callables PROVE g.wraps \in 0..MaxWraps /\ g.wraps \in Nat
<1>1. g.wraps \in 0..MaxWraps BY DEF Callables
<1>2. QED BY <1>1, WrapAssumption

\* Taking a callable out of a wrapper changes neither what is inside nor what it throws.
LEMMA InsideSame ==
  ASSUME NEW g \in Callables, g.wraps > 0
  PROVE  LET h == [Inside(g) EXCEPT !.wraps = g.wraps - 1]
         IN /\ h \in Callables /\ h.wraps = g.wraps - 1
            /\ Inside(h) = Inside(g) /\ h.throws = g.throws
<1> DEFINE h == [Inside(g) EXCEPT !.wraps = g.wraps - 1]
<1>1. g.wraps - 1 \in 0..MaxWraps BY WrapsInNat, WrapAssumption
<1>2. CASE g.kind = "functor"
  <2>1. h = [g EXCEPT !.wraps = g.wraps - 1, !.category = "lvalue"]
    <3>1. Inside(g) = [g EXCEPT !.wraps = 0, !.category = "lvalue"]
      BY <1>2, WrapsInNat DEF Inside
    <3>2. QED BY <3>1 DEF Callables
  <2>2. h \in Callables BY <1>1, <1>2, <2>1 DEF Callables, Categories
  <2>3. h.wraps = g.wraps - 1 /\ h.throws = g.throws /\ h.kind = "functor"
    BY <1>2, <2>1 DEF Callables
  <2>4. Inside(h) = Inside(g) BY <1>2, <2>1, <2>3 DEF Inside, Callables
  <2>5. QED BY <2>2, <2>3, <2>4
<1>3. CASE g.kind # "functor"
  <2>1. h = [g EXCEPT !.wraps = g.wraps - 1] BY <1>3 DEF Inside, Callables
  <2>2. h \in Callables BY <1>1, <1>3, <2>1 DEF Callables
  <2>3. h.wraps = g.wraps - 1 /\ h.throws = g.throws /\ h.kind # "functor"
    BY <1>3, <2>1 DEF Callables
  <2>4. Inside(h) = Inside(g) BY <1>3, <2>1, <2>3 DEF Inside, Callables
  <2>5. QED BY <2>2, <2>3, <2>4
<1>4. QED BY <1>2, <1>3

\* A callable that is in no wrapper is what is inside it, but for its value category.
LEMMA InsideBare ==
  ASSUME NEW g \in Callables, g.wraps = 0
  PROVE  Inside(g) = g
BY DEF Callables, Inside

\* What invoke_impl promises depends on the callable inside only.
LEMMA SamePromise ==
  ASSUME NEW g, NEW h, NEW a, Inside(g) = Inside(h), g.throws = h.throws
  PROVE  /\ invoke_is_nothrow(g, a) <=> invoke_is_nothrow(h, a)
         /\ is_invocable(g, a) <=> is_invocable(h, a)
BY DEF invoke_is_nothrow, is_invocable

\* A mark depends on nothing but the promise.
LEMMA MarkFacts ==
  ASSUME NEW p, NEW q
  PROVE  Mark(p) \in Marks /\ ((p <=> q) => Mark(p) = Mark(q))
BY DEF Mark, Marks

-----------------------------------------------------------------------------
(* The invariant.                                                          *)

LEMMA Initially == Init => Inv
<1> SUFFICES ASSUME Init PROVE Inv OBVIOUS
<1>1. TypeOK BY DEF Init, TypeOK
<1>2. SameCallable BY DEF Init, SameCallable
<1>3. Promises BY DEF Init, Promises
<1>4. NoexceptExact BY DEF Init, NoexceptExact
<1>5. QED BY <1>1, <1>2, <1>3, <1>4 DEF Inv

LEMMA AskKeeps == Inv /\ Ask => Inv'
<1> SUFFICES ASSUME Inv, Ask PROVE Inv' OBVIOUS
<1>1. PICK g \in Callables, a \in Arguments :
        call' = [f |-> g, a |-> a, R |-> "void"] /\ f' = g
  BY DEF Ask
<1>2. call' \in Calls /\ call' # None /\ f' # None /\ g.wraps \in Nat
  <2>1. [f |-> g, a |-> a, R |-> "void"] \in Calls BY DEF Calls, Results
  <2>2. QED BY <1>1, <2>1, NoneAssumption, WrapsInNat
<1>3. step' = "asked" /\ frames' = << >> /\ risks' = {}
  BY DEF Ask, Inv, Promises, TypeOK
<1>4. TypeOK' BY <1>1, <1>2, <1>3 DEF TypeOK
<1>5. SameCallable' BY <1>1, <1>2, <1>3 DEF SameCallable
<1>6. Promises' BY <1>1, <1>2, <1>3 DEF Promises
<1>7. NoexceptExact' BY <1>1, <1>2, <1>3 DEF NoexceptExact
<1>8. QED BY <1>4, <1>5, <1>6, <1>7 DEF Inv

LEMMA ForgetKeeps == Inv /\ Forget => Inv'
<1> SUFFICES ASSUME Inv, Forget PROVE Inv' OBVIOUS
<1>1. TypeOK' BY DEF Forget, TypeOK
<1>2. SameCallable' BY DEF Forget, SameCallable
<1>3. Promises' BY DEF Forget, Promises
<1>4. NoexceptExact' BY DEF Forget, NoexceptExact
<1>5. QED BY <1>1, <1>2, <1>3, <1>4 DEF Inv

\* A wrapper passed is three functions entered.
LEMMA MoreWraps ==
  ASSUME NEW n \in Nat, NEW all \in Nat, NEW left \in Nat, n <= 3 * (all - left) + 1
  PROVE  n + 3 <= 3 * (all - (left - 1)) + 1 /\ n + 3 <= 3 * (all - (left - 1)) + 2
OBVIOUS

LEMMA OneFunction ==
  ASSUME NEW all \in Nat, NEW left \in Nat, left <= all
  PROVE  1 <= 3 * (all - left) + 1 /\ 1 <= 3 * (all - left) + 2
OBVIOUS

LEMMA BeginKeeps == ASSUME NEW R \in Results, Inv, Begin(R) PROVE Inv'
<1>1. /\ call \in Calls /\ call' \in Calls /\ call' # None
      /\ call'.f = call.f /\ call'.a = call.a /\ call'.R = R
  BY NoneAssumption DEF Inv, TypeOK, SameCallable, Begin, Calls
<1>2. /\ f' = f /\ risks' = risks /\ step' = "select" /\ risks = {}
      /\ frames' = <<Mark(is_nothrow_invocable_r(R, f, call.a))>>
  BY DEF Begin, Inv, Promises
<1>3. f \in Callables /\ f # None /\ Inside(f) = Inside(call.f) /\ f.throws = call.f.throws
  BY DEF Begin, Inv, SameCallable, TypeOK
<1>4. /\ is_invocable(call.f, call.a)
      /\ is_nothrow_invocable_r(R, f, call.a)
           <=> (invoke_is_nothrow(call.f, call.a) /\ R # "throwing conversion")
  BY <1>3, SamePromise DEF Begin, is_invocable_r, is_nothrow_invocable_r
<1>5. TypeOK'
  <2>1. frames' \in Seq(Marks) /\ Len(frames') = 1 BY <1>2, MarkFacts
  <2>2. f.wraps \in Nat /\ call.f.wraps \in Nat /\ f.wraps <= call.f.wraps
    BY <1>1, <1>3, WrapsInNat DEF Inv, SameCallable, Calls
  <2>3. QED BY <1>1, <1>2, <1>3, <2>1, <2>2 DEF TypeOK
<1>6. SameCallable' BY <1>1, <1>2, <1>3 DEF Inv, SameCallable, Begin
<1>7. Promises'
  <2>1. /\ DOMAIN frames' = {1}
        /\ frames'[1] = Mark(invoke_is_nothrow(call.f, call.a) /\ R # "throwing conversion")
        /\ Len(frames') = 1
    <3>1. Mark(is_nothrow_invocable_r(R, f, call.a))
            = Mark(invoke_is_nothrow(call.f, call.a) /\ R # "throwing conversion")
      BY <1>4 DEF Mark
    <3> DEFINE m == Mark(is_nothrow_invocable_r(R, f, call.a))
    <3>2. frames' = <<m>> BY <1>2
    <3> HIDE DEF m
    <3>3. DOMAIN frames' = {1} /\ frames'[1] = m /\ Len(frames') = 1 BY <3>2
    <3>4. QED BY <3>1, <3>3 DEF m
  <2>2. f.wraps \in Nat /\ call.f.wraps \in Nat /\ f.wraps <= call.f.wraps
    BY <1>1, <1>3, WrapsInNat DEF Inv, SameCallable, Calls
  <2>3. Len(frames') <= 3 * (call'.f.wraps - f'.wraps) + 1
    <3>1. call'.f.wraps = call.f.wraps /\ f'.wraps = f.wraps /\ Len(frames') = 1
      BY <1>1, <1>2, <2>1
    <3>2. QED BY <2>2, <3>1, OneFunction
  <2>4. 1 \in DOMAIN frames' /\ DOMAIN frames' \ {1} = {} BY <2>1
  <2>5. frames'[1] = Mark(invoke_is_nothrow(call'.f, call'.a) /\ call'.R # "throwing conversion")
    BY <1>1, <2>1
  <2>6. is_invocable(call'.f, call'.a) BY <1>1, <1>4
  <2> HIDE DEF Handle
  <2>7. QED BY <1>2, <2>3, <2>4, <2>5, <2>6 DEF Promises
<1>8. QED BY <1>2, <1>5, <1>6, <1>7 DEF Inv, NoexceptExact

LEMMA UnwrapKeeps == Inv /\ Unwrap => Inv'
<1> SUFFICES ASSUME Inv, Unwrap PROVE Inv' OBVIOUS
<1> DEFINE inside == [Inside(f) EXCEPT !.wraps = f.wraps - 1]
           promise == Mark(invoke_is_nothrow(call.f, call.a))
<1>1. /\ step = "select" /\ step' = "select" /\ call' = call /\ risks' = risks
      /\ f \in Callables /\ call \in Calls /\ f # None /\ call # None
      /\ f' = inside /\ f.wraps > 0 /\ f.wraps \in Nat /\ f.wraps <= call.f.wraps
  BY DEF Unwrap, Inv, TypeOK, SameCallable
<1>2. /\ inside \in Callables /\ inside.wraps = f.wraps - 1
      /\ Inside(inside) = Inside(call.f) /\ inside.throws = call.f.throws
  BY <1>1, InsideSame DEF Inv, SameCallable
<1>3. /\ Mark(invoke_is_nothrow(f, call.a)) = promise
      /\ Mark(is_nothrow_invocable(inside, call.a)) = promise
  <2>1. Inside(f) = Inside(call.f) /\ f.throws = call.f.throws /\ is_invocable(call.f, call.a)
    BY <1>1 DEF Inv, SameCallable, Promises
  <2>2. /\ invoke_is_nothrow(inside, call.a) <=> invoke_is_nothrow(call.f, call.a)
        /\ is_invocable(inside, call.a) <=> is_invocable(call.f, call.a)
    BY <1>2, SamePromise
  <2>3. invoke_is_nothrow(f, call.a) <=> invoke_is_nothrow(call.f, call.a)
    BY <2>1, SamePromise
  <2>4. QED BY <2>1, <2>2, <2>3 DEF is_nothrow_invocable, Mark
<1>4. frames' = frames \o <<promise, promise, promise>> BY <1>1, <1>3 DEF Unwrap
<1>5. promise \in Marks BY DEF Mark, Marks
<1> HIDE DEF promise, inside
<1>6. /\ frames \in Seq(Marks) /\ frames' \in Seq(Marks)
      /\ Len(frames') = Len(frames) + 3 /\ Len(frames) \in Nat
      /\ \A k \in 1..Len(frames) : frames'[k] = frames[k]
      /\ \A k \in (Len(frames) + 1)..(Len(frames) + 3) : frames'[k] = promise
  <2> DEFINE three == <<promise, promise, promise>>
  <2>1. three \in Seq(Marks) /\ Len(three) = 3 /\ \A k \in 1..3 : three[k] = promise
    BY <1>5
  <2>2. frames \in Seq(Marks) BY DEF Inv, TypeOK
  <2> HIDE DEF three
  <2>3. frames' = frames \o three BY <1>4 DEF three
  <2>4. /\ frames' \in Seq(Marks) /\ Len(frames') = Len(frames) + 3
        /\ \A k \in 1..(Len(frames) + Len(three)) :
             frames'[k] = IF k <= Len(frames) THEN frames[k] ELSE three[k - Len(frames)]
    <3>1. /\ frames \o three \in Seq(Marks)
          /\ Len(frames \o three) = Len(frames) + Len(three)
          /\ \A k \in 1..(Len(frames) + Len(three)) :
               (frames \o three)[k] = IF k <= Len(frames) THEN frames[k]
                                      ELSE three[k - Len(frames)]
      BY <2>1, <2>2, ConcatProperties
    <3>2. QED BY <2>1, <2>3, <3>1
  <2>5. Len(frames) \in Nat BY <2>2, LenProperties
  <2>6. \A k \in 1..Len(frames) : frames'[k] = frames[k] BY <2>1, <2>4, <2>5
  <2>7. ASSUME NEW k \in (Len(frames) + 1)..(Len(frames) + 3) PROVE frames'[k] = promise
    <3>1. k - Len(frames) \in 1..3 /\ ~(k <= Len(frames)) /\ k \in 1..(Len(frames) + Len(three))
      BY <2>1, <2>5
    <3>2. frames'[k] = three[k - Len(frames)] BY <2>4, <3>1
    <3>3. QED BY <2>1, <3>1, <3>2
  <2>8. QED BY <2>1, <2>2, <2>4, <2>5, <2>6, <2>7
<1>7. TypeOK'
  <2>1. call.f.wraps \in Nat BY <1>1, WrapsInNat DEF Calls
  <2>2. Len(frames) <= 3 * (call.f.wraps - f.wraps) + 1
    BY <1>1 DEF Inv, Promises
  <2>3. f'.wraps = f.wraps - 1 /\ f' \in Callables BY <1>1, <1>2
  <2>4. call'.f.wraps = call.f.wraps BY <1>1
  <2>5. f'.wraps <= call'.f.wraps BY <1>1, <2>1, <2>3, <2>4
  <2>6. Len(frames') <= 3 * (call'.f.wraps - f'.wraps) + 2
    BY <1>1, <1>6, <2>1, <2>2, <2>3, <2>4, MoreWraps
  <2>7. QED BY <1>1, <1>6, <2>3, <2>5, <2>6 DEF Inv, TypeOK
<1>8. SameCallable'
  <2>1. call.f.wraps \in Nat BY <1>1, WrapsInNat DEF Calls
  <2>2. f' # None BY <1>1, <1>2, NoneAssumption
  <2>3. QED BY <1>1, <1>2, <2>1, <2>2 DEF SameCallable
<1>9. Promises'
  <2>1. DOMAIN frames = 1..Len(frames) /\ DOMAIN frames' = 1..(Len(frames) + 3)
    BY <1>6
  <2>2. \A k \in DOMAIN frames \ {1} : frames[k] = promise
    BY <1>1 DEF Inv, Promises, promise
  <2>3. 1 \in DOMAIN frames' /\ frames'[1] = frames[1]
    <3>1. 1 \in DOMAIN frames BY <1>1 DEF Inv, Promises
    <3>2. QED BY <1>6, <2>1, <3>1
  <2>4. \A k \in DOMAIN frames' \ {1} : frames'[k] = promise
    BY <1>6, <2>1, <2>2
  <2>5. /\ is_invocable(call.f, call.a) /\ risks = {}
        /\ frames[1] = Mark(invoke_is_nothrow(call.f, call.a) /\ call.R # "throwing conversion")
        /\ Len(frames) <= 3 * (call.f.wraps - f.wraps) + 1
    BY <1>1 DEF Inv, Promises
  <2>6. call.f.wraps \in Nat BY <1>1, WrapsInNat DEF Calls
  <2>7. Len(frames') <= 3 * (call.f.wraps - f'.wraps) + 1
    <3>1. f'.wraps = f.wraps - 1 BY <1>1, <1>2
    <3>2. Len(frames') = Len(frames) + 3 /\ Len(frames) \in Nat BY <1>6
    <3>3. QED BY <1>1, <2>5, <2>6, <3>1, <3>2, MoreWraps
  <2>8. QED BY <1>1, <2>3, <2>4, <2>5, <2>7 DEF Promises, promise
<1>10. QED BY <1>1, <1>7, <1>8, <1>9 DEF Inv, NoexceptExact

\* One more function entered, and the one that has been entered first.
LEMMA OneMore ==
  ASSUME NEW s \in Seq(Marks), NEW m \in Marks, 1 \in DOMAIN s
  PROVE  /\ Append(s, m) \in Seq(Marks) /\ Len(Append(s, m)) = Len(s) + 1 /\ Len(s) \in Nat
         /\ 1 \in DOMAIN Append(s, m) /\ Append(s, m)[1] = s[1]
         /\ \A k \in DOMAIN Append(s, m) \ {1} : k \in DOMAIN s \ {1} \/ Append(s, m)[k] = m
         /\ \A k \in DOMAIN s : Append(s, m)[k] = s[k]
         /\ s[1] \in Marks /\ (Len(s) = 1 => DOMAIN s = {1})
<1>1. Len(s) \in Nat /\ DOMAIN s = 1..Len(s) BY LenProperties
<1>2. /\ Append(s, m) \in Seq(Marks) /\ Len(Append(s, m)) = Len(s) + 1
      /\ \A k \in 1..Len(s) : Append(s, m)[k] = s[k]
      /\ Append(s, m)[Len(s) + 1] = m
  BY AppendProperties
<1>3. DOMAIN Append(s, m) = 1..(Len(s) + 1) BY <1>2, LenProperties
<1>4. s[1] \in Marks BY ElementOfSeq, <1>1
<1>5. \A k \in DOMAIN Append(s, m) \ {1} : k \in DOMAIN s \ {1} \/ k = Len(s) + 1
  BY <1>1, <1>3
<1>6. QED BY <1>1, <1>2, <1>3, <1>4, <1>5

LEMMA OneRoom ==
  ASSUME NEW n \in Nat, NEW all \in Nat, NEW left \in Nat, n <= 3 * (all - left) + 1
  PROVE  n + 1 <= 3 * (all - left) + 2
OBVIOUS

\* What Inv says of a call that is being made.
LEMMA Entered ==
  ASSUME Inv, step \in {"select", "dereference", "run", "convert"}
  PROVE  /\ call \in Calls /\ call # None /\ f \in Callables /\ f # None
         /\ f.wraps \in Nat /\ call.f.wraps \in Nat /\ f.wraps <= call.f.wraps
         /\ Inside(f) = Inside(call.f) /\ f.throws = call.f.throws
         /\ frames \in Seq(Marks) /\ 1 \in DOMAIN frames /\ is_invocable(call.f, call.a)
         /\ frames[1] = Mark(invoke_is_nothrow(call.f, call.a) /\ call.R # "throwing conversion")
         /\ Len(frames) <= 3 * (call.f.wraps - f.wraps) + 2
<1>1. call \in Calls /\ call # None /\ f \in Callables /\ f # None
  BY DEF Inv, TypeOK, SameCallable
<1>2. f.wraps \in Nat /\ call.f.wraps \in Nat BY <1>1, WrapsInNat DEF Calls
<1>3. f.wraps <= call.f.wraps /\ Inside(f) = Inside(call.f) /\ f.throws = call.f.throws
  BY <1>1 DEF Inv, SameCallable
<1>4. frames \in Seq(Marks) /\ Len(frames) <= 3 * (call.f.wraps - f.wraps) + 2
  BY <1>1 DEF Inv, TypeOK
<1>5. /\ 1 \in DOMAIN frames /\ is_invocable(call.f, call.a)
      /\ frames[1] = Mark(invoke_is_nothrow(call.f, call.a) /\ call.R # "throwing conversion")
  BY DEF Inv, Promises
<1>6. QED BY <1>1, <1>2, <1>3, <1>4, <1>5

LEMMA SelectKeeps == Inv /\ Select => Inv'
<1> SUFFICES ASSUME Inv, Select PROVE Inv' OBVIOUS
<1> DEFINE promise == Mark(invoke_is_nothrow(call.f, call.a))
<1>1. /\ step = "select" /\ call' = call /\ f' = f /\ risks' = risks /\ risks = {}
      /\ f.wraps = 0 /\ step' \in {"dereference", "run"}
      /\ frames' = Append(frames, Mark(invoke_is_nothrow(f, call.a)))
      /\ step' = "dereference" <=> "(*o).*f" \in invoke_impl(f, call.a)
  BY DEF Select, Inv, Promises
<1>2. /\ call \in Calls /\ call # None /\ f \in Callables /\ f # None
      /\ f.wraps \in Nat /\ call.f.wraps \in Nat /\ f.wraps <= call.f.wraps
      /\ Inside(f) = Inside(call.f) /\ f.throws = call.f.throws
      /\ frames \in Seq(Marks) /\ 1 \in DOMAIN frames /\ is_invocable(call.f, call.a)
      /\ frames[1] = Mark(invoke_is_nothrow(call.f, call.a) /\ call.R # "throwing conversion")
  BY <1>1, Entered
<1>3. step' = "dereference" <=> Handle
  BY <1>1, <1>2, InsideBare DEF Handle
<1>4. Mark(invoke_is_nothrow(f, call.a)) = promise
  <2>1. invoke_is_nothrow(f, call.a) <=> invoke_is_nothrow(call.f, call.a)
    BY <1>2, SamePromise
  <2>2. QED BY <2>1 DEF Mark
<1>5. promise \in Marks BY DEF Mark, Marks
<1>6. frames' = Append(frames, promise) BY <1>1, <1>4
<1> HIDE DEF promise
<1>7. /\ frames' \in Seq(Marks) /\ Len(frames') = Len(frames) + 1 /\ Len(frames) \in Nat
      /\ 1 \in DOMAIN frames' /\ frames'[1] = frames[1]
      /\ \A k \in DOMAIN frames' \ {1} : k \in DOMAIN frames \ {1} \/ frames'[k] = promise
      /\ \A k \in DOMAIN frames : frames'[k] = frames[k]
  BY <1>2, <1>5, <1>6, OneMore
<1>8. TypeOK'
  <2>1. Len(frames) <= 3 * (call.f.wraps - f.wraps) + 1 BY <1>1 DEF Inv, Promises
  <2>2. Len(frames) + 1 <= 3 * (call.f.wraps - f.wraps) + 2 BY <1>2, <1>7, <2>1, OneRoom
  <2>3. Len(frames') <= 3 * (call'.f.wraps - f'.wraps) + 2 /\ f'.wraps <= call'.f.wraps
    BY <1>1, <1>2, <1>7, <2>2
  <2>4. QED BY <1>1, <1>2, <1>7, <2>3 DEF TypeOK
<1>9. SameCallable' BY <1>1, <1>2 DEF SameCallable
<1>10. Promises'
  <2>1. \A k \in DOMAIN frames' \ {1} : frames'[k] = promise
    <3>1. \A k \in DOMAIN frames \ {1} : frames[k] = promise
      BY <1>1 DEF Inv, Promises, promise
    <3>2. QED BY <1>7, <3>1
  <2>2. call'.f = call.f /\ call'.a = call.a /\ call'.R = call.R BY <1>1
  <2>3. Handle' <=> Handle BY <1>1 DEF Handle
  <2> HIDE DEF Handle
  <2>4. QED BY <1>1, <1>2, <1>3, <1>7, <2>1, <2>2, <2>3 DEF Promises, promise
<1>11. QED BY <1>1, <1>8, <1>9, <1>10 DEF Inv, NoexceptExact

LEMMA DereferenceKeeps == Inv /\ Dereference => Inv'
<1> SUFFICES ASSUME Inv, Dereference PROVE Inv' OBVIOUS
<1> USE DEF Dereference, Advance
<1>1. /\ step = "dereference" /\ step' = "run" /\ call' = call /\ f' = f /\ frames' = frames
      /\ risks = {} /\ Handle
      /\ risks' = IF call.a.first.throws THEN {"dereference"} ELSE {}
  BY DEF Throws, Inv, Promises
<1>2. /\ call # None /\ f # None /\ 1 \in DOMAIN frames /\ is_invocable(call.f, call.a)
      /\ frames[1] = Mark(invoke_is_nothrow(call.f, call.a) /\ call.R # "throwing conversion")
  BY <1>1, Entered
<1>3. TypeOK' BY <1>1, <1>2 DEF Inv, TypeOK
<1>4. SameCallable' BY <1>1, <1>2 DEF Inv, SameCallable
<1>5. Promises'
  <2>1. \A k \in DOMAIN frames \ {1} : frames[k] = Mark(invoke_is_nothrow(call.f, call.a))
    BY <1>1 DEF Inv, Promises
  <2>2. risks' = {} <=> ~(Handle' /\ call'.a.first.throws)
    <3>1. Handle' BY <1>1 DEF Handle
    <3>2. CASE call.a.first.throws BY <1>1, <3>1, <3>2
    <3>3. CASE ~call.a.first.throws BY <1>1, <3>1, <3>3
    <3>4. QED BY <3>2, <3>3
  <2> HIDE DEF Handle
  <2>3. QED BY <1>1, <1>2, <2>1, <2>2 DEF Promises
<1>6. QED BY <1>1, <1>3, <1>4, <1>5 DEF Inv, NoexceptExact

LEMMA RunKeeps == Inv /\ Run => Inv'
<1> SUFFICES ASSUME Inv, Run PROVE Inv' OBVIOUS
<1> USE DEF Run, Advance
<1>1. /\ step = "run" /\ call' = call /\ f' = f /\ frames' = <<frames[1]>>
      /\ step' = IF call.R = "void" THEN "returned" ELSE "convert"
      /\ risks' = IF f.throws THEN risks \cup {"run"} ELSE risks
      /\ risks = {} <=> ~(Handle /\ call.a.first.throws)
  BY DEF Throws, Inv, Promises
<1>2. /\ call \in Calls /\ call # None /\ f \in Callables /\ f # None
      /\ f.wraps \in Nat /\ call.f.wraps \in Nat /\ f.wraps <= call.f.wraps
      /\ f.throws = call.f.throws
      /\ frames \in Seq(Marks) /\ 1 \in DOMAIN frames /\ is_invocable(call.f, call.a)
      /\ frames[1] = Mark(invoke_is_nothrow(call.f, call.a) /\ call.R # "throwing conversion")
  BY <1>1, Entered
<1>3. risks' = {} <=> invoke_is_nothrow(call.f, call.a)
  <2>1. invoke_is_nothrow(call.f, call.a) <=> ~f.throws /\ ~(Handle /\ call.a.first.throws)
    BY <1>2 DEF invoke_is_nothrow, Handle
  <2> HIDE DEF Handle
  <2>2. CASE f.throws BY <1>1, <2>1, <2>2
  <2>3. CASE ~f.throws BY <1>1, <2>1, <2>3
  <2>4. QED BY <2>2, <2>3
<1>4. /\ frames' \in Seq(Marks) /\ Len(frames') = 1 /\ DOMAIN frames' = {1}
      /\ frames'[1] = frames[1] /\ 1 \in DOMAIN frames' /\ DOMAIN frames' \ {1} = {}
  <2>1. frames[1] \in Marks BY <1>2, OneMore, MarkFacts
  <2>2. QED BY <1>1, <2>1
<1>5. TypeOK'
  <2>1. 1 <= 3 * (call.f.wraps - f.wraps) + 2 BY <1>2, OneFunction
  <2>2. Len(frames') <= 3 * (call'.f.wraps - f'.wraps) + 2 /\ f'.wraps <= call'.f.wraps
    BY <1>1, <1>2, <1>4, <2>1
  <2>3. risks' \subseteq {"dereference", "run", "convert"} BY <1>1 DEF Inv, TypeOK
  <2>4. step' \in {"returned", "convert"} BY <1>1
  <2>5. QED BY <1>1, <1>2, <1>4, <2>2, <2>3, <2>4 DEF TypeOK
<1>6. step' \in {"returned", "convert"} BY <1>1
<1>7. SameCallable' BY <1>1, <1>2, <1>6 DEF Inv, SameCallable
<1>8. Promises'
  <2> HIDE DEF Handle
  <2>1. QED BY <1>1, <1>2, <1>3, <1>4, <1>6 DEF Promises
<1>9. NoexceptExact'
  <2>1. ASSUME step' = "returned" PROVE frames'[1] = "noexcept" <=> risks' = {}
    <3>1. call.R # "throwing conversion" BY <1>1, <2>1
    <3>2. QED BY <1>2, <1>3, <1>4, <3>1 DEF Mark
  <2>2. QED BY <1>6, <2>1 DEF NoexceptExact
<1>10. QED BY <1>5, <1>7, <1>8, <1>9 DEF Inv

LEMMA ConvertKeeps == Inv /\ Convert => Inv'
<1> SUFFICES ASSUME Inv, Convert PROVE Inv' OBVIOUS
<1> USE DEF Convert, Advance
<1>1. /\ step = "convert" /\ step' = "returned" /\ call' = call /\ f' = f /\ frames' = frames
      /\ risks' = IF call.R = "throwing conversion" THEN risks \cup {"convert"} ELSE risks
      /\ risks = {} <=> invoke_is_nothrow(call.f, call.a)
      /\ Len(frames) = 1
  BY DEF Throws, Inv, Promises
<1>2. /\ call # None /\ f # None /\ 1 \in DOMAIN frames /\ is_invocable(call.f, call.a)
      /\ frames[1] = Mark(invoke_is_nothrow(call.f, call.a) /\ call.R # "throwing conversion")
  BY <1>1, Entered
<1>3. TypeOK'
  <2>1. risks' \subseteq {"dereference", "run", "convert"} BY <1>1 DEF Inv, TypeOK
  <2>2. QED BY <1>1, <2>1 DEF Inv, TypeOK
<1>4. SameCallable' BY <1>1, <1>2 DEF Inv, SameCallable
<1>5. Promises' BY <1>1, <1>2 DEF Promises
<1>6. NoexceptExact'
  <2>1. frames[1] = "noexcept" <=> risks' = {}
    <3>1. frames[1] = "noexcept" <=>
            (invoke_is_nothrow(call.f, call.a) /\ call.R # "throwing conversion")
      BY <1>2 DEF Mark
    <3>2. CASE call.R = "throwing conversion" BY <1>1, <3>1, <3>2
    <3>3. CASE call.R # "throwing conversion" BY <1>1, <3>1, <3>3
    <3>4. QED BY <3>2, <3>3
  <2>2. QED BY <1>1, <2>1 DEF NoexceptExact
<1>7. QED BY <1>3, <1>4, <1>5, <1>6 DEF Inv

\* What throws was promised by nobody who has been entered.
LEMMA ThrowKeeps == Inv /\ Throw => Inv'
<1> SUFFICES ASSUME Inv, Throw PROVE Inv' OBVIOUS
<1> USE DEF Throw, Advance
<1>1. /\ step \in {"dereference", "run", "convert"} /\ step' = "thrown"
      /\ call' = call /\ f' = f /\ frames' = frames
      /\ risks' = risks \cup {step}
  BY DEF Throws
<1>2. /\ call # None /\ f # None /\ 1 \in DOMAIN frames /\ is_invocable(call.f, call.a)
      /\ f.throws = call.f.throws /\ frames \in Seq(Marks)
      /\ frames[1] = Mark(invoke_is_nothrow(call.f, call.a) /\ call.R # "throwing conversion")
  BY <1>1, Entered
<1>3. TypeOK'
  <2>1. risks' \subseteq {"dereference", "run", "convert"} BY <1>1 DEF Inv, TypeOK
  <2>2. QED BY <1>1, <2>1 DEF Inv, TypeOK
<1>4. SameCallable' BY <1>1, <1>2 DEF Inv, SameCallable
<1>5. Promises' BY <1>1, <1>2 DEF Promises
<1>6. \A k \in DOMAIN frames : frames[k] = "may throw"
  <2>1. CASE step \in {"dereference", "run"}
    <3>1. ~invoke_is_nothrow(call.f, call.a)
      <4>1. CASE step = "run"
        BY <1>2, <4>1 DEF Throws, invoke_is_nothrow
      <4>2. CASE step = "dereference"
        <5>1. Handle BY <4>2 DEF Inv, Promises
        <5>2. call.a.first.throws BY <4>2 DEF Throws
        <5>3. QED BY <5>1, <5>2 DEF invoke_is_nothrow, Handle
      <4>3. QED BY <2>1, <4>1, <4>2
    <3>2. \A k \in DOMAIN frames \ {1} : frames[k] = Mark(invoke_is_nothrow(call.f, call.a))
      BY <2>1 DEF Inv, Promises
    <3>3. QED BY <1>2, <3>1, <3>2 DEF Mark
  <2>2. CASE step = "convert"
    <3>1. call.R = "throwing conversion" BY <2>2 DEF Throws
    <3>2. Len(frames) = 1 BY <2>2 DEF Inv, Promises
    <3>3. DOMAIN frames = {1} BY <1>2, <3>2, OneMore, MarkFacts
    <3>4. QED BY <1>2, <3>1, <3>3 DEF Mark
  <2>3. QED BY <1>1, <2>1, <2>2
<1>7. NoexceptExact' BY <1>1, <1>6 DEF NoexceptExact
<1>8. QED BY <1>3, <1>4, <1>5, <1>7 DEF Inv

LEMMA StepKeeps == Inv /\ [Next]_vars => Inv'
<1> SUFFICES ASSUME Inv, [Next]_vars PROVE Inv' OBVIOUS
<1>1. CASE \E R \in Results : Begin(R) BY <1>1, BeginKeeps
<1>2. CASE UNCHANGED vars
  BY <1>2 DEF vars, Inv, TypeOK, SameCallable, Promises, NoexceptExact, Handle
<1>3. QED BY <1>1, <1>2, AskKeeps, UnwrapKeeps, SelectKeeps, DereferenceKeeps,
             RunKeeps, ConvertKeeps, ThrowKeeps, ForgetKeeps DEF Next

LEMMA Invariance == Spec => []Inv
BY Initially, StepKeeps, PTL DEF Spec

-----------------------------------------------------------------------------
(* Results.                                                                *)

\* Every variable keeps its type: three functions are entered for each reference_wrapper
\* that is passed and two more at most, whatever the number of wrappers
\* (lib/functional.hpp:10-15, 60-64).
THEOREM TypeCorrect == Spec => []TypeOK
<1>1. Inv => TypeOK BY DEF Inv
<1>2. QED BY <1>1, Invariance, PTL

\* However many reference_wrappers a callable is in, no exception leaves invoke, invoke_r or
\* a call operator that is noexcept, and what can throw nothing is noexcept
\* (lib/functional.hpp:12, 17, 62, lib/type_traits.hpp:1633-1673).
THEOREM NoexceptHonored == Spec => []NoexceptExact
<1>1. Inv => NoexceptExact BY DEF Inv
<1>2. QED BY <1>1, Invariance, PTL

\* The kind of a callable is that of what is inside it.
LEMMA InsideKind ==
  ASSUME NEW g \in Callables
  PROVE  Inside(g).kind = g.kind /\ Inside(g).of = g.of
BY DEF Callables, Inside

\* The overloads are those of INVOKE for a callable that is no pointer to member.
LEMMA CalledDirectly ==
  ASSUME NEW g, NEW a, g.kind \notin MemberPointers
  PROVE  invoke_impl(g, a) = INVOKE(g, a)
<1>1. CASE a.count # Arity(g) BY <1>1 DEF invoke_impl, INVOKE
<1>2. CASE a.count = Arity(g) BY <1>2 DEF invoke_impl, INVOKE
<1>3. QED BY <1>1, <1>2

\* And for a pointer to a member of a class, but for what is in a reference_wrapper.
LEMMA MemberAccessed ==
  ASSUME NEW g, NEW a, g.kind \in MemberPointers, g.of = "class",
         ~(a.first.via # << >> /\ Head(a.first.via) = "reference_wrapper")
  PROVE  invoke_impl(g, a) = INVOKE(g, a)
<1> DEFINE o == a.first
<1>1. CASE a.count # Arity(g) BY <1>1 DEF invoke_impl, INVOKE
<1>2. CASE a.count = Arity(g) /\ is_base_of(g, o)
  <2>1. o.via = << >> BY <1>2 DEF is_base_of
  <2>2. INVOKE(g, a) = IF CanAccess(g, o) THEN {"o.*f"} ELSE {}
    BY <1>2, <2>1 DEF INVOKE
  <2>3. QED BY <1>2, <2>2 DEF invoke_impl, takes_handle
<1>3. CASE a.count = Arity(g) /\ ~is_base_of(g, o)
  <2>1. ~(o.via = << >> /\ (o.what = g.of \/ is_base_of(g, o)))
    BY <1>3 DEF is_base_of
  <2>2. INVOKE(g, a) = IF CanDereference(o) /\ CanAccess(g, Dereferenced(o))
                       THEN {"(*o).*f"} ELSE {}
    BY <1>3, <2>1 DEF INVOKE
  <2>3. QED BY <1>3, <2>2 DEF invoke_impl, takes_handle
<1>4. QED BY <1>1, <1>2, <1>3

\* Whoever asks is told what INVOKE says: no call is ambiguous, none is lost, and a derived
\* object with an operator* of its own is not dereferenced (lib/type_traits.hpp:1626-1673).
THEOREM OverloadsAreINVOKE == Spec => []RealizesTheRest
<1>1. Inv => RealizesTheRest
  <2> SUFFICES ASSUME Inv, step = "asked",
                      ~(/\ f.kind \in MemberPointers
                        /\ \/ f.of = "union"
                           \/ /\ call.a.first.via # << >>
                              /\ Head(call.a.first.via) = "reference_wrapper")
               PROVE  invoke_impl(Inside(f), call.a) = INVOKE(Inside(f), call.a)
    BY DEF RealizesTheRest
  <2>1. f \in Callables BY DEF Inv, TypeOK, SameCallable
  <2>2. Inside(f).kind = f.kind /\ Inside(f).of = f.of /\ f.of \in {"class", "union"}
    BY <2>1, InsideKind DEF Callables
  <2>3. CASE f.kind \notin MemberPointers BY <2>2, <2>3, CalledDirectly
  <2>4. CASE f.kind \in MemberPointers BY <2>2, <2>4, MemberAccessed
  <2>5. QED BY <2>3, <2>4
<1>2. QED BY <1>1, Invariance, PTL
=============================================================================
