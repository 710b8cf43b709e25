--------------------------- MODULE ExchangeProofs ---------------------------
(***************************************************************************)
(* Exchanging and filling are complete when they return and contained when *)
(* they throw, for arrays of every size and for every element type; and    *)
(* reverse iterators add nothing to what Exchange may do, and are places   *)
(* of a walk from the last element to the first.                           *)
(***************************************************************************)
EXTENDS ReverseIterator, TLAPS

\* The operands of a call, and where its loop is.
CallOK ==
  call # None =>
    /\ i < Rounds(call)
    /\ call.fn \in Loops => call.x[2] = 0 /\ (call.fn = "fill" \/ call.y[2] = 0)
    /\ step = "copy" => call.fn = "fill"
    /\ step \in {"construct", "assign", "restore", "swap"} => call.fn # "fill"

\* Rounds that are over left behind what was due; the round that is going on has taken
\* the values of its two objects from where they were.
Progress ==
  /\ step \in {"construct", "swap", "copy"} => \A o \in Objects : mem[o] = Due(i, o)
  /\ step = "assign" => tmp = x /\ \A o \in Objects \ {x} : mem[o] = Due(i, o)
  /\ step = "restore" => /\ tmp = x /\ (x # y => mem[x] = y)
                         /\ \A o \in Objects \ {x, y} : mem[o] = Due(i, o)

Inv == /\ TypeOK /\ CallOK /\ Progress /\ NeverDuplicated
       /\ Completed /\ FailureContained
       /\ step = "idle" <=> call = None
       /\ step = "idle" => mem = Values

-----------------------------------------------------------------------------
(* Rounds and operands.                                                    *)

\* A call has between one round and one for every element of an array.
LEMMA RoundsInN == ASSUME NEW c PROVE Rounds(c) \in 1..N
BY SizeAssumption DEF Rounds

\* An object is known by its array and its place in it.
LEMMA ObjectFacts ==
  ASSUME NEW o \in Objects
  PROVE  o = <<o[1], o[2]>> /\ o[1] \in {"a", "b"} /\ o[2] \in 0..(N-1)
BY DEF Objects

\* The objects of the current round exist and still have their own values.
LEMMA Operands ==
  ASSUME TypeOK, CallOK, call # None
  PROVE  /\ x \in Objects /\ y \in Objects
         /\ Due(i, x) = x /\ Due(i, y) = y
<1> DEFINE cx == call.x  cy == call.y
<1>1. /\ cx \in Objects /\ cy \in Objects /\ i \in Nat /\ i < Rounds(call)
      /\ call.fn \in Functions
  BY SizeAssumption DEF TypeOK, CallOK, Invocations
<1>2. /\ cx = <<cx[1], cx[2]>> /\ cx[1] \in {"a", "b"} /\ cx[2] \in 0..(N-1)
      /\ cy = <<cy[1], cy[2]>> /\ cy[1] \in {"a", "b"} /\ cy[2] \in 0..(N-1)
  BY <1>1, ObjectFacts
<1> HIDE DEF cx, cy
<1>3. x = <<cx[1], cx[2] + i>> BY DEF x, Target, cx
<1>4. y = IF call.fn = "fill" THEN cy ELSE <<cy[1], cy[2] + i>> BY DEF y, Partner, cy
<1>5. CASE call.fn \notin Loops
  <2>1. i = 0 /\ call.fn # "fill" BY <1>1, <1>5 DEF Rounds, Loops
  <2>2. x = cx /\ y = cy BY <1>2, <1>3, <1>4, <2>1, SizeAssumption
  <2>3. \A o : Due(0, o) = o BY DEF Due
  <2> QED BY <1>1, <2>1, <2>2, <2>3
<1>6. CASE call.fn \in Loops
  <2>1. cx[2] = 0 /\ (call.fn # "fill" => cy[2] = 0) /\ i \in 0..(N-1)
    BY <1>1, <1>6, SizeAssumption DEF CallOK, Rounds, cx, cy
  <2>2. x = <<cx[1], i>> /\ (call.fn # "fill" => y = <<cy[1], i>>)
    BY <1>2, <1>3, <1>4, <2>1, SizeAssumption
  <2>3. x \in Objects /\ y \in Objects BY <1>1, <1>2, <1>4, <2>1, <2>2 DEF Objects
  <2>4. x[2] = i /\ (call.fn # "fill" => y[2] = i) /\ (call.fn = "fill" => y = cy)
    BY <1>4, <2>2
  <2>5. \A o : o[2] = i => Due(i, o) = o BY <1>1, <2>1 DEF Due, cx, cy
  <2>6. call.fn = "fill" => Due(i, y) = y BY <2>4 DEF Due, Partner, cy
  <2> QED BY <2>3, <2>4, <2>5, <2>6
<1> QED BY <1>5, <1>6

\* One round more makes a difference to the two objects of the round only.
LEMMA NextDue ==
  ASSUME TypeOK, CallOK, call # None, NEW o \in Objects
  PROVE  Due(i + 1, o) = IF o = x THEN y
                         ELSE IF call.fn # "fill" /\ o = y THEN x ELSE Due(i, o)
<1> DEFINE cx == call.x  cy == call.y
<1>1. /\ cx \in Objects /\ cy \in Objects /\ i \in Nat /\ i < Rounds(call)
      /\ call.fn \in Functions
  BY SizeAssumption DEF TypeOK, CallOK, Invocations
<1>2. /\ cx = <<cx[1], cx[2]>> /\ cx[2] \in 0..(N-1)
      /\ cy = <<cy[1], cy[2]>> /\ cy[2] \in 0..(N-1)
      /\ o = <<o[1], o[2]>> /\ o[2] \in 0..(N-1)
  BY <1>1, ObjectFacts
<1>3. call.fn # "fill" => i = 0 \/ cx[2] = cy[2]
  BY <1>1 DEF CallOK, Rounds, cx, cy
<1> HIDE DEF cx, cy
<1>4. x = <<cx[1], cx[2] + i>> /\ Partner(call, i) = y /\ Target(call, i) = x
  BY DEF x, y, Target, cx
<1>5. call.fn # "fill" => y = <<cy[1], cy[2] + i>> BY DEF y, Partner, cy
<1>6. o = x <=> o[1] = cx[1] /\ o[2] - cx[2] = i BY <1>1, <1>2, <1>4, SizeAssumption
<1>7. call.fn # "fill" => (o = y <=> o[1] = cy[1] /\ o[2] - cy[2] = i)
  BY <1>1, <1>2, <1>5, SizeAssumption
<1> DEFINE k == o[2] - cx[2]  l == o[2] - cy[2]
<1>8. /\ k \in Int /\ l \in Int
      /\ \A n \in Nat : Due(n, o) = IF o[1] = cx[1] /\ k \in 0..(n-1) THEN Partner(call, k)
                          ELSE IF call.fn # "fill" /\ o[1] = cy[1] /\ l \in 0..(n-1)
                          THEN Target(call, l) ELSE o
  BY <1>2, SizeAssumption DEF Due, cx, cy
<1>9. call.fn # "fill" /\ i # 0 => k = l BY <1>3
<1> HIDE DEF k, l
<1>10. /\ o = x <=> o[1] = cx[1] /\ k = i
       /\ call.fn # "fill" => (o = y <=> o[1] = cy[1] /\ l = i)
  BY <1>6, <1>7 DEF k, l
<1>11. \A n \in Int : n \in 0..(i+1-1) <=> n \in 0..(i-1) \/ n = i BY <1>1
<1>12. /\ k \in 0..(i+1-1) <=> k \in 0..(i-1) \/ k = i
       /\ l \in 0..(i+1-1) <=> l \in 0..(i-1) \/ l = i
  BY <1>8, <1>11
<1>13. i + 1 \in Nat /\ i \notin 0..(i-1) BY <1>1
<1>14. /\ Due(i+1, o) = IF o[1] = cx[1] /\ k \in 0..(i+1-1) THEN Partner(call, k)
                          ELSE IF call.fn # "fill" /\ o[1] = cy[1] /\ l \in 0..(i+1-1)
                          THEN Target(call, l) ELSE o
       /\ Due(i, o) = IF o[1] = cx[1] /\ k \in 0..(i-1) THEN Partner(call, k)
                          ELSE IF call.fn # "fill" /\ o[1] = cy[1] /\ l \in 0..(i-1)
                          THEN Target(call, l) ELSE o
  BY <1>8, <1>13, <1>1
<1>15. i = 0 => ~(k \in 0..(i-1)) /\ ~(l \in 0..(i-1)) BY <1>8
<1> QED BY <1>4, <1>9, <1>10, <1>12, <1>13, <1>14, <1>15

-----------------------------------------------------------------------------
(* The steps.                                                              *)

\* All of the invariant but NeverDuplicated, after a round that did what was due.
LEMMA RoundEnds ==
  ASSUME TypeOK, CallOK, call # None, EndRound, UNCHANGED <<type, call>>,
         mem' \in [Objects -> Objects \cup {Moved}], tmp' = None,
         \A o \in Objects : mem'[o] = Due(i + 1, o)
  PROVE  TypeOK' /\ CallOK' /\ Progress' /\ Completed' /\ FailureContained' /\ step' # "idle"
<1>1. call \in Invocations /\ i \in Nat /\ Rounds(call) \in 1..N
  BY ValueAssumption, RoundsInN, SizeAssumption DEF TypeOK
<1>2. /\ FirstStep(call) \in {"construct", "swap", "copy"}
      /\ FirstStep(call) = "copy" <=> call.fn = "fill"
  BY <1>1 DEF FirstStep
<1>3. \A n, o : Due(n, o)' = Due(n, o) BY DEF Due, Partner, Target
<1>4. Rounds(call)' = Rounds(call) BY DEF Rounds
<1>5. CASE i + 1 < Rounds(call)
  <2>1. i' = i + 1 /\ step' = FirstStep(call) BY <1>5 DEF EndRound
  <2>2. TypeOK' BY <1>1, <1>2, <1>5, <2>1, SizeAssumption DEF TypeOK, Operations
  <2>3. CallOK' BY <1>2, <1>4, <1>5, <2>1 DEF CallOK
  <2>4. \A o : Due(i, o)' = Due(i + 1, o) BY <2>1 DEF Due, Partner, Target
  <2>5. Progress' BY <1>2, <2>1, <2>4 DEF Progress
  <2> QED BY <1>2, <2>1, <2>2, <2>3, <2>5 DEF Completed, FailureContained
<1>6. CASE ~(i + 1 < Rounds(call))
  <2>1. i' = i /\ step' = "returned" BY <1>6 DEF EndRound
  <2>2. i + 1 = Rounds(call) BY <1>1, <1>6, SizeAssumption DEF CallOK
  <2>3. TypeOK' BY <2>1 DEF TypeOK
  <2>4. CallOK' BY <1>4, <2>1 DEF CallOK
  <2>5. \A o : Due(Rounds(call), o)' = Due(i + 1, o) BY <1>4, <2>2 DEF Due, Partner, Target
  <2>6. Completed' BY <2>5 DEF Completed, Rounds
  <2> QED BY <2>1, <2>3, <2>4, <2>6 DEF Progress, FailureContained
<1> QED BY <1>5, <1>6

\* No call has begun.
LEMMA InitInv == Init => Inv
BY SizeAssumption, ValueAssumption
   DEF Init, Inv, TypeOK, CallOK, Progress, NeverDuplicated, Completed, FailureContained, Values

\* A call begins.
LEMMA BeginKeeps ==
  ASSUME Inv, NEW c \in Invocations, Begin(c),
         c.fn \in Loops => c.x[2] = 0 /\ (c.fn = "fill" \/ c.y[2] = 0)
  PROVE  Inv'
<1>1. /\ step = "idle" /\ call' = c /\ i' = 0 /\ step' = FirstStep(c)
      /\ UNCHANGED <<type, mem, tmp>> /\ mem = Values /\ c # None
  BY ValueAssumption DEF Begin, Inv
<1>2. /\ FirstStep(c) \in {"construct", "swap", "copy"}
      /\ FirstStep(c) = "copy" <=> c.fn = "fill"
  BY DEF FirstStep
<1>3. TypeOK' BY <1>1, <1>2, SizeAssumption DEF Inv, TypeOK, Operations
<1>4. Rounds(c) \in 1..N BY RoundsInN
<1>5. CallOK' BY <1>1, <1>2, <1>4, SizeAssumption DEF CallOK, Rounds
<1>6. \A o : Due(i, o)' = o BY <1>1 DEF Due, Partner, Target
<1>7. Progress' BY <1>1, <1>2, <1>6 DEF Progress, Values
<1>8. NeverDuplicated' BY <1>1, <1>2, ValueAssumption DEF NeverDuplicated, Values, Inv, TypeOK
<1> QED BY <1>1, <1>2, <1>3, <1>5, <1>7, <1>8 DEF Inv, Completed, FailureContained

\* The local object takes over the first value.
LEMMA ConstructKeeps == ASSUME Inv, Construct PROVE Inv'
<1>1. /\ step = "construct" /\ tmp' = mem[x] /\ mem' = [mem EXCEPT ![x] = Moved]
      /\ step' = "assign" /\ UNCHANGED <<type, call, i>> /\ call # None
      /\ TypeOK /\ CallOK
  BY DEF Construct, Inv
<1>2. x \in Objects /\ y \in Objects /\ Due(i, x) = x /\ Due(i, y) = y BY <1>1, Operands
<1>3. x' = x /\ y' = y /\ \A n, o : Due(n, o)' = Due(n, o)
  BY <1>1 DEF x, y, Due, Partner, Target
<1>4. mem \in [Objects -> Objects \cup {Moved}] /\ mem' \in [Objects -> Objects \cup {Moved}]
  BY <1>1, <1>2 DEF TypeOK
<1>5. TypeOK'
  <2>1. tmp' \in Objects \cup {Moved} /\ tmp' # None BY <1>1, <1>2, <1>4, ValueAssumption
  <2> QED BY <1>1, <1>4, <2>1 DEF TypeOK, Operations
<1>6. CallOK' BY <1>1 DEF CallOK, Rounds
<1>7. mem[x] = x BY <1>1, <1>2 DEF Inv, Progress
<1>8. Progress'
  <2>1. \A o \in Objects \ {x} : mem'[o] = Due(i, o) BY <1>1, <1>4 DEF Inv, Progress
  <2> QED BY <1>1, <1>3, <1>7, <2>1 DEF Progress
<1>9. NeverDuplicated' BY <1>1, <1>2, <1>4 DEF Inv, NeverDuplicated
<1> QED BY <1>1, <1>5, <1>6, <1>8, <1>9 DEF Inv, Completed, FailureContained

\* The first object of the round takes over the second value, if they are two.
LEMMA AssignKeeps == ASSUME Inv, Assign PROVE Inv'
<1>1. /\ step = "assign" /\ mem' = [mem EXCEPT ![x] = mem[y], ![y] = Moved]
      /\ step' = "restore" /\ UNCHANGED <<type, call, i, tmp>> /\ call # None
      /\ TypeOK /\ CallOK
  BY DEF Assign, Inv
<1>2. x \in Objects /\ y \in Objects /\ Due(i, x) = x /\ Due(i, y) = y BY <1>1, Operands
<1>3. x' = x /\ y' = y /\ \A n, o : Due(n, o)' = Due(n, o)
  BY <1>1 DEF x, y, Due, Partner, Target
<1>4. mem \in [Objects -> Objects \cup {Moved}] /\ mem' \in [Objects -> Objects \cup {Moved}]
  BY <1>1, <1>2 DEF TypeOK
<1>5. TypeOK' BY <1>1, <1>4 DEF TypeOK
<1>6. CallOK' BY <1>1 DEF CallOK, Rounds
<1>7. /\ tmp = x /\ \A o \in Objects \ {x} : mem[o] = Due(i, o)
  BY <1>1 DEF Inv, Progress
<1>8. \A o \in Objects : mem'[o] = IF o = y THEN Moved ELSE IF o = x THEN mem[y] ELSE mem[o]
  BY <1>1, <1>2, <1>4
<1>9. Progress'
  <2>1. x # y => mem'[x] = y BY <1>2, <1>7, <1>8
  <2>2. \A o \in Objects \ {x, y} : mem'[o] = Due(i, o) BY <1>7, <1>8
  <2> QED BY <1>1, <1>3, <1>7, <2>1, <2>2 DEF Progress
<1>10. NeverDuplicated'
  <2> SUFFICES ASSUME call.fn # "fill", NEW o \in Objects, NEW p \in Objects, mem'[o] # Moved
               PROVE  mem'[o] # tmp /\ (mem'[o] = mem'[p] => o = p)
    BY <1>1 DEF NeverDuplicated
  <2> DEFINE from(q) == IF q = x THEN y ELSE q
  <2>1. o # y /\ mem'[o] = mem[from(o)] /\ from(o) \in Objects BY <1>2, <1>8
  <2>2. mem[from(o)] # tmp BY <1>1, <2>1 DEF Inv, NeverDuplicated
  <2>3. ASSUME mem'[o] = mem'[p] PROVE o = p
    <3>1. p # y /\ mem'[p] = mem[from(p)] /\ from(p) \in Objects BY <1>2, <1>8, <2>3
    <3>2. from(o) = from(p) BY <1>1, <2>1, <2>3, <3>1 DEF Inv, NeverDuplicated
    <3> QED BY <2>1, <3>1, <3>2
  <2> QED BY <2>1, <2>2, <2>3
<1> QED BY <1>1, <1>5, <1>6, <1>9, <1>10 DEF Inv, Completed, FailureContained

\* The second object takes the local object's value, and the round is over.
LEMMA RestoreKeeps == ASSUME Inv, Restore PROVE Inv'
<1>1. /\ step = "restore" /\ mem' = [mem EXCEPT ![y] = tmp] /\ tmp' = None
      /\ EndRound /\ UNCHANGED <<type, call>> /\ call # None
      /\ TypeOK /\ CallOK /\ call.fn # "fill"
  BY DEF Restore, Inv, CallOK
<1>2. x \in Objects /\ y \in Objects BY <1>1, Operands
<1>3. /\ tmp = x /\ (x # y => mem[x] = y)
      /\ \A o \in Objects \ {x, y} : mem[o] = Due(i, o)
  BY <1>1 DEF Inv, Progress
<1>4. mem \in [Objects -> Objects \cup {Moved}] /\ mem' \in [Objects -> Objects \cup {Moved}]
  BY <1>1, <1>2, <1>3 DEF TypeOK
<1>5. \A o \in Objects : mem'[o] = Due(i + 1, o)
  <2> TAKE o \in Objects
  <2>1. Due(i + 1, o) = IF o = x THEN y ELSE IF o = y THEN x ELSE Due(i, o)
    BY <1>1, NextDue
  <2> QED BY <1>1, <1>2, <1>3, <1>4, <2>1
<1>6. NeverDuplicated'
  BY <1>1, <1>2, <1>4, ValueAssumption DEF Inv, NeverDuplicated
<1> QED BY <1>1, <1>4, <1>5, <1>6, RoundEnds DEF Inv

\* The type's own swap is a round in one step.
LEMMA OwnSwapKeeps == ASSUME Inv, OwnSwap PROVE Inv'
<1>1. /\ step = "swap" /\ mem' = [mem EXCEPT ![x] = mem[y], ![y] = mem[x]]
      /\ EndRound /\ UNCHANGED <<type, call, tmp>> /\ call # None
      /\ TypeOK /\ CallOK /\ call.fn # "fill" /\ tmp = None
  BY DEF OwnSwap, Inv, CallOK, TypeOK
<1>2. x \in Objects /\ y \in Objects /\ Due(i, x) = x /\ Due(i, y) = y BY <1>1, Operands
<1>3. \A o \in Objects : mem[o] = Due(i, o) BY <1>1 DEF Inv, Progress
<1>4. mem \in [Objects -> Objects \cup {Moved}] BY <1>1 DEF TypeOK
<1>5. /\ mem' \in [Objects -> Objects \cup {Moved}]
      /\ \A o \in Objects : mem'[o] = IF o = y THEN mem[x] ELSE IF o = x THEN mem[y] ELSE mem[o]
  BY <1>1, <1>2, <1>4
<1>6. \A o \in Objects : mem'[o] = Due(i + 1, o)
  <2> TAKE o \in Objects
  <2>1. Due(i + 1, o) = IF o = x THEN y ELSE IF o = y THEN x ELSE Due(i, o)
    BY <1>1, NextDue
  <2> QED BY <1>2, <1>3, <1>5, <2>1
<1>7. NeverDuplicated'
  <2> SUFFICES ASSUME NEW o \in Objects, NEW p \in Objects, mem'[o] # Moved
               PROVE  mem'[o] # tmp /\ (mem'[o] = mem'[p] => o = p)
    BY <1>1 DEF NeverDuplicated
  <2> DEFINE from(q) == IF q = y THEN x ELSE IF q = x THEN y ELSE q
  <2>1. /\ mem'[o] = mem[from(o)] /\ from(o) \in Objects
        /\ mem'[p] = mem[from(p)] /\ from(p) \in Objects
        /\ from(o) = from(p) => o = p
    BY <1>2, <1>5
  <2> HIDE DEF from
  <2> QED BY <1>1, <2>1 DEF Inv, NeverDuplicated
<1> QED BY <1>1, <1>5, <1>6, <1>7, RoundEnds DEF Inv

\* fill's value has not been overwritten with another one by the rounds before.
LEMMA CopyKeeps == ASSUME Inv, Copy PROVE Inv'
<1>1. /\ step = "copy" /\ mem' = [mem EXCEPT ![x] = mem[y]]
      /\ EndRound /\ UNCHANGED <<type, call, tmp>> /\ call # None
      /\ TypeOK /\ CallOK /\ call.fn = "fill" /\ tmp = None
  BY DEF Copy, Inv, CallOK, TypeOK
<1>2. x \in Objects /\ y \in Objects /\ Due(i, y) = y BY <1>1, Operands
<1>3. \A o \in Objects : mem[o] = Due(i, o) BY <1>1 DEF Inv, Progress
<1>4. mem \in [Objects -> Objects \cup {Moved}] BY <1>1 DEF TypeOK
<1>5. /\ mem' \in [Objects -> Objects \cup {Moved}]
      /\ \A o \in Objects : mem'[o] = IF o = x THEN mem[y] ELSE mem[o]
  BY <1>1, <1>2, <1>4
<1>6. \A o \in Objects : mem'[o] = Due(i + 1, o)
  <2> TAKE o \in Objects
  <2>1. Due(i + 1, o) = IF o = x THEN y ELSE Due(i, o) BY <1>1, NextDue
  <2> QED BY <1>2, <1>3, <1>5, <2>1
<1>7. NeverDuplicated' BY <1>1 DEF NeverDuplicated
<1> QED BY <1>1, <1>5, <1>6, <1>7, RoundEnds DEF Inv

\* An operation throws: only its own objects lose their values.
LEMMA ThrowKeeps == ASSUME Inv, Throw PROVE Inv'
<1>1. /\ step \in {"construct", "assign", "copy", "swap", "restore"}
      /\ tmp' = None /\ step' = "thrown" /\ UNCHANGED <<type, call, i>>
      /\ call # None /\ TypeOK /\ CallOK /\ NeverDuplicated
  BY DEF Throw, Inv, Operations
<1>2. mem \in [Objects -> Objects \cup {Moved}] BY <1>1 DEF TypeOK
<1>3. PICK lost \in SUBSET InDanger :
        mem' = [o \in Objects |-> IF o \in lost THEN Moved ELSE mem[o]]
  BY DEF Throw
<1>4. /\ mem' \in [Objects -> Objects \cup {Moved}]
      /\ \A o \in Objects : mem'[o] = IF o \in lost THEN Moved ELSE mem[o]
  BY <1>2, <1>3
<1>5. TypeOK' BY <1>1, <1>4 DEF TypeOK
<1>6. CallOK' BY <1>1 DEF CallOK, Rounds
<1>7. NeverDuplicated'
  <2> SUFFICES ASSUME call.fn # "fill", NEW o \in Objects, NEW p \in Objects, mem'[o] # Moved
               PROVE  mem'[o] # None /\ (mem'[o] = mem'[p] => o = p)
    BY <1>1 DEF NeverDuplicated
  <2>1. mem'[o] = mem[o] /\ mem[o] # Moved /\ mem[o] # None BY <1>2, <1>4, ValueAssumption
  <2>2. mem'[p] = Moved \/ mem'[p] = mem[p] BY <1>4
  <2> QED BY <1>1, <2>1, <2>2 DEF NeverDuplicated
<1>8. FailureContained'
  <2> DEFINE spared == Objects \ {x, IF call.fn = "fill" THEN x ELSE y}
  <2>1. InDanger \subseteq {x, IF call.fn = "fill" THEN x ELSE y}
    BY <1>1 DEF InDanger, CallOK
  <2>2. \A o \in spared : mem[o] = Due(i, o) BY <1>1 DEF Inv, Progress, CallOK
  <2>3. \A o \in spared : mem'[o] = Due(i, o) BY <1>4, <2>1, <2>2
  <2>4. x' = x /\ y' = y /\ \A o : Due(i, o)' = Due(i, o)
    BY <1>1 DEF x, y, Due, Partner, Target
  <2> QED BY <1>1, <2>3, <2>4 DEF FailureContained
<1> QED BY <1>1, <1>5, <1>6, <1>7, <1>8 DEF Inv, Progress, Completed

\* The next call finds fresh objects.
LEMMA LeaveKeeps == ASSUME Inv, Leave PROVE Inv'
<1>1. /\ step \in {"returned", "thrown"} /\ step' = "idle" /\ call' = None /\ i' = 0
      /\ mem' = Values /\ UNCHANGED <<type, tmp>> /\ TypeOK
  BY DEF Leave, Inv
<1>2. TypeOK' BY <1>1, SizeAssumption DEF TypeOK, Values
<1> QED BY <1>1, <1>2
     DEF Inv, CallOK, Progress, NeverDuplicated, Completed, FailureContained

-----------------------------------------------------------------------------
(* The theorems.                                                           *)

\* Every step keeps the invariant.
LEMMA StepInv == ASSUME Inv, [Next]_vars PROVE Inv'
<1>1. CASE CallOnObjects
  <2>1. PICK f \in Calls \ Loops, o \in Objects, p \in Objects :
          Begin([fn |-> f, x |-> o, y |-> p])
    BY <1>1 DEF CallOnObjects
  <2>2. [fn |-> f, x |-> o, y |-> p] \in Invocations BY CallAssumption DEF Invocations
  <2> QED BY <2>1, <2>2, BeginKeeps
<1>2. CASE CallOnArrays
  <2>1. PICK f \in Calls \cap Loops, o \in Objects, p \in Objects :
          o[2] = 0 /\ (f = "fill" \/ p[2] = 0) /\ Begin([fn |-> f, x |-> o, y |-> p])
    BY <1>2 DEF CallOnArrays
  <2>2. [fn |-> f, x |-> o, y |-> p] \in Invocations BY CallAssumption DEF Invocations
  <2> QED BY <2>1, <2>2, BeginKeeps
<1>3. CASE Construct BY <1>3, ConstructKeeps
<1>4. CASE Assign BY <1>4, AssignKeeps
<1>5. CASE Restore BY <1>5, RestoreKeeps
<1>6. CASE OwnSwap BY <1>6, OwnSwapKeeps
<1>7. CASE Copy BY <1>7, CopyKeeps
<1>8. CASE Throw BY <1>8, ThrowKeeps
<1>9. CASE Leave BY <1>9, LeaveKeeps
<1>10. CASE UNCHANGED vars
  <2>1. UNCHANGED <<type, mem, call, i, step, tmp>> BY <1>10 DEF vars
  <2>2. x' = x /\ y' = y /\ Rounds(call)' = Rounds(call)
        /\ \A n, o : Due(n, o)' = Due(n, o)
    BY <2>1 DEF x, y, Rounds, Due, Partner, Target
  <2>3. TypeOK' /\ CallOK' BY <2>1, <2>2 DEF Inv, TypeOK, CallOK
  <2>4. Progress' /\ NeverDuplicated' BY <2>1, <2>2 DEF Inv, Progress, NeverDuplicated
  <2>5. Completed'
    <3>1. \A n, o : Due(n, o)' = Due(n, o) BY <2>1 DEF Due, Partner, Target
    <3> QED BY <2>1, <3>1 DEF Inv, Completed
  <2>6. FailureContained'
    <3>1. \A o : Due(i, o)' = Due(i, o) BY <2>1 DEF Due, Partner, Target
    <3> QED BY <2>1, <2>2, <3>1 DEF Inv, FailureContained
  <2> QED BY <2>1, <2>3, <2>4, <2>5, <2>6 DEF Inv, Values
<1> QED BY <1>1, <1>2, <1>3, <1>4, <1>5, <1>6, <1>7, <1>8, <1>9, <1>10 DEF Next

\* The inductive invariant of the calls.
THEOREM Invariance == Spec => []Inv
BY InitInv, StepInv, PTL DEF Spec

\* Every variable keeps its type: no loop leaves its arrays, and the local object of a
\* swap exists exactly while the swap needs it.
THEOREM TypeCorrect == Spec => []TypeOK
<1>1. Inv => TypeOK BY DEF Inv
<1> QED BY Invariance, <1>1, PTL

\* What returned has exchanged or assigned every element, whatever the operands.
THEOREM CallsComplete == Spec => []Completed
<1>1. Inv => Completed BY DEF Inv
<1> QED BY Invariance, <1>1, PTL

\* What threw has dealt with the elements before the failure and left the rest alone.
THEOREM FailuresContained == Spec => []FailureContained
<1>1. Inv => FailureContained BY DEF Inv
<1> QED BY Invariance, <1>1, PTL

\* An exchange never copies.
THEOREM MovesOnly == Spec => []NeverDuplicated
<1>1. Inv => NeverDuplicated BY DEF Inv
<1> QED BY Invariance, <1>1, PTL

-----------------------------------------------------------------------------
(* Exceptions.                                                             *)

\* The operations of a call are those it began with, and what it has thrown it may throw.
StepChosen == /\ step \in {"construct", "assign", "restore"} => FirstStep(call) = "construct"
              /\ step = "swap" => FirstStep(call) = "swap"
              /\ step = "copy" => FirstStep(call) = "copy"

ExceptionInv == OthersNoexcept /\ StepChosen

\* The first operation of a call and its noexcept follow from the type and the function.
LEMMA ChosenFacts ==
  ASSUME TypeOK, call # None
  PROVE  /\ FirstStep(call) = "construct" /\ call.fn # "array::swap"
              /\ {"construct", "assign"} \cap type.throws # {} => ~Noexcept(call)
         /\ FirstStep(call) = "swap" /\ "swap" \in type.throws => ~Noexcept(call)
         /\ FirstStep(call) = "copy" => ~Noexcept(call)
<1>1. call.fn \in Functions /\ type.own_swap \in BOOLEAN
  BY DEF TypeOK, Invocations, Types
<1>2. CASE call.fn = "fill" BY <1>2 DEF FirstStep, Noexcept
<1>3. CASE call.fn = "swap" BY <1>3 DEF FirstStep, Noexcept, nothrow_moves
<1>4. CASE call.fn = "iter_exchange" BY <1>4 DEF FirstStep, Noexcept
<1>5. CASE call.fn = "array::swap" BY <1>5 DEF FirstStep
<1>6. CASE call.fn \in {"ranges::swap", "ranges::swap[]", "iter_swap"}
  <2>1. FirstStep(call) = IF type.own_swap THEN "swap" ELSE "construct" BY <1>6 DEF FirstStep
  <2>2. Noexcept(call) = nothrow_swappable BY <1>6 DEF Noexcept
  <2> QED BY <1>1, <2>1, <2>2 DEF nothrow_swappable, nothrow_moves
<1> QED BY <1>1, <1>2, <1>3, <1>4, <1>5, <1>6 DEF Functions, Loops

\* A step that goes on with a call keeps its choice.
LEMMA EndRoundChooses ==
  ASSUME EndRound, UNCHANGED <<type, call>>
  PROVE  StepChosen' /\ step' # "thrown"
<1>1. FirstStep(call)' = FirstStep(call) BY DEF FirstStep
<1>2. FirstStep(call) \in {"construct", "swap", "copy"} BY DEF FirstStep
<1> QED BY <1>1, <1>2 DEF EndRound, StepChosen

\* Every step keeps the invariant.
LEMMA ExceptionStep == ASSUME Inv, ExceptionInv, [Next]_vars PROVE ExceptionInv'
<1>1. ASSUME NEW c, Begin(c) PROVE ExceptionInv'
  <2>1. call' = c /\ step' = FirstStep(c) /\ type' = type BY <1>1 DEF Begin
  <2>2. FirstStep(c) \in {"construct", "swap", "copy"} BY DEF FirstStep
  <2>3. FirstStep(call)' = FirstStep(c) BY <2>1 DEF FirstStep
  <2> QED BY <2>1, <2>2, <2>3 DEF ExceptionInv, OthersNoexcept, StepChosen
<1>2. CASE CallOnObjects BY <1>1, <1>2 DEF CallOnObjects
<1>3. CASE CallOnArrays BY <1>1, <1>3 DEF CallOnArrays
<1>4. CASE Construct \/ Assign
  <2>1. /\ step \in {"construct", "assign"} /\ step' \in {"assign", "restore"}
        /\ UNCHANGED <<type, call>>
    BY <1>4 DEF Construct, Assign
  <2>2. FirstStep(call)' = FirstStep(call) BY <2>1 DEF FirstStep
  <2> QED BY <2>1, <2>2 DEF ExceptionInv, OthersNoexcept, StepChosen
<1>5. CASE Restore \/ OwnSwap \/ Copy
  BY <1>5, EndRoundChooses DEF Restore, OwnSwap, Copy, ExceptionInv, OthersNoexcept
<1>6. CASE Throw
  <2>1. /\ (IF step = "restore" THEN "assign" ELSE step) \in type.throws
        /\ step \in {"construct", "assign", "copy", "swap", "restore"}
        /\ step' = "thrown" /\ UNCHANGED <<type, call>> /\ call # None /\ TypeOK
    BY <1>6 DEF Throw, Inv, Operations
  <2>2. Noexcept(call)' = Noexcept(call)
    BY <2>1 DEF Noexcept, nothrow_moves, nothrow_swappable
  <2>3. call.fn # "array::swap" => ~Noexcept(call)
    BY <2>1, ChosenFacts DEF ExceptionInv, StepChosen
  <2> QED BY <2>1, <2>2, <2>3 DEF ExceptionInv, OthersNoexcept, StepChosen
<1>7. CASE Leave BY <1>7 DEF Leave, ExceptionInv, OthersNoexcept, StepChosen
<1>8. CASE UNCHANGED vars
  <2>1. FirstStep(call)' = FirstStep(call) /\ Noexcept(call)' = Noexcept(call)
    BY <1>8 DEF vars, FirstStep, Noexcept, nothrow_moves, nothrow_swappable
  <2> QED BY <1>8, <2>1 DEF vars, ExceptionInv, OthersNoexcept, StepChosen
<1> QED BY <1>2, <1>3, <1>4, <1>5, <1>6, <1>7, <1>8 DEF Next

\* Functions but array::swap throw only where their noexcept-specification allows it.
THEOREM ExceptionsAllowed == Spec => []OthersNoexcept
<1>1. Init => ExceptionInv BY DEF Init, ExceptionInv, OthersNoexcept, StepChosen
<1>2. ExceptionInv => OthersNoexcept BY DEF ExceptionInv
<1> QED BY Invariance, ExceptionStep, <1>1, <1>2, PTL DEF Spec

-----------------------------------------------------------------------------
(* Reverse iterators.                                                      *)

\* What a friend function works on: copies of the caller's iterators, those that it has
\* decremented one element further down.
CopyOf(k) == IF k \in Used(frame.fn) \ frame.left
             THEN [its[k] EXCEPT !.current = @ - 1] ELSE its[k]

FrameOK ==
  frame # None =>
    /\ its # None /\ frame.left \subseteq Used(frame.fn)
    /\ \A k \in Used(frame.fn) : Dereferenceable(its[k])
    /\ frame.next = "copy" => frame.left = Used(frame.fn)
    /\ frame.next = "decrement" => frame.it = [k \in Sides |-> CopyOf(k)]
    /\ frame.next = "inside" => frame.fn \in Swaps /\ call.fn = frame.fn
    /\ frame.next = "thrown" => throws # {}

IterInv ==
  /\ its \in [Sides -> Iterators] \cup {None}
  /\ throws \subseteq {"copy", "decrement"}
  /\ frame \in Frames \cup {None}
  /\ FrameOK
  /\ InFriend("inside") <=> its # None /\ step # "idle"
  /\ its = None => result = None

-----------------------------------------------------------------------------
(* Every step is a step of Exchange.                                       *)

\* The caller's two iterators, if there are any.
LEMMA ItsFacts ==
  ASSUME IterInv, its # None, NEW k \in Sides
  PROVE  /\ its \in [Sides -> Iterators] /\ its[k] \in Iterators
         /\ its[k].array \in {"a", "b"} /\ its[k].current \in 0..N
         /\ its[k] = [array |-> its[k].array, current |-> its[k].current]
BY DEF IterInv, Iterators

\* A friend that is ready holds places of elements.
LEMMA ReadyObjects ==
  ASSUME IterInv, Ready, NEW k \in Used(frame.fn)
  PROVE  /\ Object(k) = <<its[k].array, its[k].current - 1>>
         /\ Object(k) \in Objects
<1>1. /\ frame # None /\ frame.next = "decrement" /\ frame.left = {}
      /\ its # None /\ k \in Sides
  BY DEF Ready, InFriend, IterInv, FrameOK, Used, Sides
<1>2. /\ frame.it = [j \in Sides |-> CopyOf(j)] /\ Dereferenceable(its[k])
  BY <1>1 DEF IterInv, FrameOK
<1>3. frame.it[k] = [its[k] EXCEPT !.current = @ - 1] BY <1>1, <1>2 DEF CopyOf
<1>4. Object(k) = <<its[k].array, its[k].current - 1>> BY <1>1, <1>3, ItsFacts DEF Object
<1>5. its[k].array \in {"a", "b"} /\ its[k].current \in 1..N
  BY <1>1, <1>2, ItsFacts DEF Dereferenceable
<1>6. its[k].current - 1 \in 0..(N-1) BY <1>5, SizeAssumption
<1> QED BY <1>4, <1>5, <1>6 DEF Objects

\* A step with iterators is one that Exchange allows, or leaves its variables alone.
LEMMA StepRefines ==
  ASSUME IterInv, [ReverseNext]_<<vars, iterVars>>
  PROVE  [Next]_vars
<1>1. CASE ExchangeThrough
  <2>1. /\ frame.fn \in Swaps /\ Ready
        /\ Begin([fn |-> frame.fn, x |-> Object("x"), y |-> Object("y")])
    BY <1>1 DEF ExchangeThrough
  <2>2. Object("x") \in Objects /\ Object("y") \in Objects
    BY <2>1, ReadyObjects DEF Used, Sides, Swaps
  <2>3. frame.fn \in Calls \ Loops BY <2>1 DEF Swaps, Loops
  <2> QED BY <2>1, <2>2, <2>3 DEF Next, CallOnObjects
<1>2. CASE Take \/ Drop \/ Compare BY <1>2 DEF Take, Drop, Compare
<1>3. ASSUME NEW k \in Sides, NEW n \in (-N)..N, Walk(k, n) \/ WalkPostfix(k, n) \/ Look(k, n)
      PROVE  UNCHANGED vars
  BY <1>3 DEF Walk, WalkPostfix, Look
<1>4. ASSUME NEW f \in Friends, Call(f) PROVE UNCHANGED vars BY <1>4 DEF Call
<1>5. CASE CopyBases BY <1>5 DEF CopyBases
<1>6. ASSUME NEW k \in Sides, Decrement(k) PROVE UNCHANGED vars BY <1>6 DEF Decrement
<1>7. CASE BaseThrows \/ MoveThrough BY <1>7 DEF BaseThrows, MoveThrough
<1>8. CASE LeaveFriend BY <1>8 DEF LeaveFriend, Next
<1>9. CASE ExchangeDirectly BY <1>9 DEF ExchangeDirectly, Next
<1>10. CASE ExchangeStep BY <1>10 DEF ExchangeStep, Next
<1>11. CASE UNCHANGED <<vars, iterVars>> BY <1>11
<1> QED
  BY <1>1, <1>2, <1>3, <1>4, <1>5, <1>6, <1>7, <1>8, <1>9, <1>10, <1>11 DEF ReverseNext

-----------------------------------------------------------------------------
(* Every step keeps the invariant of the iterators.                        *)

\* Nothing has been taken.
LEMMA IterInit == ReverseInit => IterInv
BY DEF ReverseInit, Init, IterInv, FrameOK, InFriend

\* Outside of the friends and of Exchange the caller may do what it likes.
LEMMA CallerKeeps ==
  ASSUME IterInv, Free, UNCHANGED <<vars, frame>>,
         its' \in [Sides -> Iterators] \cup {None}, throws' \subseteq {"copy", "decrement"},
         its' = None => result' = None
  PROVE  IterInv'
<1>1. frame' = None /\ step' = "idle" BY DEF Free, vars
<1> QED BY <1>1 DEF IterInv, FrameOK, InFriend

\* The caller takes the iterators of the arrays.
LEMMA TakeKeeps == ASSUME IterInv, Take PROVE IterInv'
<1>1. \A a \in {"a", "b"} : rbegin(a) \in Iterators /\ rend(a) \in Iterators
  BY SizeAssumption DEF rbegin, rend, make_reverse_iterator, Iterators
<1>2. its' \in [Sides -> Iterators] BY <1>1 DEF Take
<1>3. its' # None BY <1>2, NoneAssumption
<1> QED BY <1>2, <1>3, CallerKeeps DEF Take

\* The place that walking leads to.
LEMMA PlusFacts ==
  ASSUME IterInv, its # None, NEW k \in Sides, NEW n \in (-N)..N
  PROVE  /\ plus(its[k], n) = [array |-> its[k].array, current |-> its[k].current - n]
         /\ InRange(plus(its[k], n)) => plus(its[k], n) \in Iterators
<1>1. /\ its[k] = [array |-> its[k].array, current |-> its[k].current]
      /\ its[k].array \in {"a", "b"}
  BY ItsFacts
<1>2. plus(its[k], n) = [array |-> its[k].array, current |-> its[k].current - n]
  BY <1>1 DEF plus
<1>3. InRange(plus(its[k], n)) => its[k].current - n \in 0..N BY <1>2 DEF InRange
<1> QED BY <1>1, <1>2, <1>3 DEF Iterators

\* Walking stays within the array.
LEMMA WalkKeeps ==
  ASSUME IterInv, NEW k \in Sides, NEW n \in (-N)..N, Walk(k, n) \/ WalkPostfix(k, n)
  PROVE  IterInv'
<1>1. /\ Free /\ its # None /\ InRange(plus(its[k], n))
      /\ its' = [its EXCEPT ![k] = plus(@, n)] /\ UNCHANGED <<vars, throws, frame>>
  BY DEF Walk, WalkPostfix
<1>2. its \in [Sides -> Iterators] /\ plus(its[k], n) \in Iterators
  BY <1>1, PlusFacts DEF IterInv
<1>3. its' \in [Sides -> Iterators] BY <1>1, <1>2
<1>4. its' # None BY <1>3, NoneAssumption
<1> QED BY <1>1, <1>3, <1>4, CallerKeeps DEF IterInv

\* Looking and comparing change nothing but what the caller is told.
LEMMA LookKeeps ==
  ASSUME IterInv, (\E k \in Sides, n \in (-N)..N : Look(k, n)) \/ Compare
  PROVE  IterInv'
<1>1. Free /\ its # None /\ UNCHANGED <<vars, its, throws, frame>> BY DEF Look, Compare
<1> QED BY <1>1, CallerKeeps DEF IterInv

\* A friend is called.
LEMMA CallKeeps == ASSUME IterInv, NEW f \in Friends, Call(f) PROVE IterInv'
<1>1. /\ Free /\ its # None /\ \A k \in Used(f) : Dereferenceable(its[k])
      /\ frame' = [fn |-> f, next |-> "copy", left |-> Used(f), it |-> None]
      /\ UNCHANGED <<vars, its, throws>>
  BY DEF Call
<1>2. frame' \in Frames BY <1>1 DEF Frames, Used, Sides
<1>3. /\ frame'.fn = f /\ frame'.next = "copy" /\ frame'.left = Used(f) BY <1>1
<1>4. FrameOK' BY <1>1, <1>3 DEF FrameOK, Dereferenceable
<1>5. ~InFriend("inside")' /\ step' = "idle" BY <1>1, <1>3 DEF InFriend, Free, vars
<1> QED BY <1>1, <1>2, <1>4, <1>5 DEF IterInv

\* The frame of a friend, field by field.
LEMMA FrameFacts ==
  ASSUME IterInv, frame # None
  PROVE  /\ frame \in Frames /\ frame.fn \in Friends /\ frame.left \subseteq Sides
         /\ frame = [fn |-> frame.fn, next |-> frame.next,
                     left |-> frame.left, it |-> frame.it]
         /\ its # None /\ its \in [Sides -> Iterators]
BY DEF IterInv, FrameOK, Frames

\* The bases are copied.
LEMMA CopyKeepsIts == ASSUME IterInv, CopyBases PROVE IterInv'
<1>1. /\ frame # None /\ frame.next = "copy" /\ UNCHANGED <<vars, its, throws, result>>
      /\ frame' = [frame EXCEPT !.next = "decrement", !.it = its]
  BY DEF CopyBases, InFriend
<1>2. frame' = [fn |-> frame.fn, next |-> "decrement", left |-> frame.left, it |-> its]
  BY <1>1, FrameFacts
<1>3. frame' \in Frames BY <1>1, <1>2, FrameFacts DEF Frames
<1>4. frame.left = Used(frame.fn) BY <1>1 DEF IterInv, FrameOK
<1>5. \A k \in Sides : CopyOf(k)' = its[k] BY <1>1, <1>2, <1>4 DEF CopyOf
<1>6. its = [k \in Sides |-> its[k]] BY <1>1, FrameFacts
<1>7. frame'.it = [k \in Sides |-> CopyOf(k)']
  <2>1. [k \in Sides |-> CopyOf(k)'] = [k \in Sides |-> its[k]] BY <1>5
  <2> QED BY <1>2, <1>6, <2>1
<1>8. FrameOK' BY <1>1, <1>2, <1>7 DEF IterInv, FrameOK, Dereferenceable, Used
<1>9. ~InFriend("inside") /\ ~InFriend("inside")' BY <1>1, <1>2 DEF InFriend
<1>10. step' = step /\ its' = its /\ throws' = throws /\ result' = result BY <1>1 DEF vars
<1> QED BY <1>3, <1>8, <1>9, <1>10 DEF IterInv

\* A copy is decremented.
LEMMA DecrementKeeps == ASSUME IterInv, NEW k \in Sides, Decrement(k) PROVE IterInv'
<1>1. /\ frame # None /\ frame.next = "decrement" /\ k \in frame.left
      /\ frame' = [frame EXCEPT !.left = @ \ {k}, !.it[k].current = @ - 1]
      /\ UNCHANGED <<vars, its, throws, result>>
  BY DEF Decrement, InFriend
<1>2. /\ frame.left \subseteq Used(frame.fn) /\ Dereferenceable(its[k])
      /\ frame.it = [j \in Sides |-> CopyOf(j)]
  BY <1>1 DEF IterInv, FrameOK
<1>3. frame.it[k] = its[k] BY <1>1, <1>2 DEF CopyOf
<1> DEFINE down == [its[k] EXCEPT !.current = @ - 1]
<1>4. frame' = [fn |-> frame.fn, next |-> "decrement", left |-> frame.left \ {k},
                it |-> [frame.it EXCEPT ![k] = down]]
  BY <1>1, <1>2, <1>3, FrameFacts
<1>5. frame.it \in [Sides -> Iterators] /\ down \in Iterators
  <2>1. down = [array |-> its[k].array, current |-> its[k].current - 1]
    BY <1>1, FrameFacts, ItsFacts
  <2>2. its[k].current - 1 \in 0..N BY <1>2, SizeAssumption DEF Dereferenceable
  <2>3. down \in Iterators BY <1>1, <2>1, <2>2, FrameFacts, ItsFacts DEF Iterators
  <2>4. \A j \in Sides : CopyOf(j) \in Iterators
    <3> TAKE j \in Sides
    <3>1. its[j] \in Iterators BY <1>1, FrameFacts
    <3>2. ASSUME j \in Used(frame.fn) PROVE [its[j] EXCEPT !.current = @ - 1] \in Iterators
      <4>1. [its[j] EXCEPT !.current = @ - 1]
              = [array |-> its[j].array, current |-> its[j].current - 1]
        BY <1>1, FrameFacts, ItsFacts
      <4>2. its[j].current \in 1..N BY <1>1, <3>2 DEF IterInv, FrameOK, Dereferenceable
      <4>3. its[j].current - 1 \in 0..N BY <4>2, SizeAssumption
      <4> QED BY <1>1, <4>1, <4>3, FrameFacts, ItsFacts DEF Iterators
    <3> QED BY <3>1, <3>2 DEF CopyOf
  <2> QED BY <1>2, <2>3, <2>4
<1>6. frame' \in Frames BY <1>1, <1>4, <1>5, FrameFacts DEF Frames
<1>7. \A j \in Sides : CopyOf(j)' = IF j = k THEN down ELSE CopyOf(j)
  BY <1>1, <1>2, <1>4 DEF CopyOf, Used
<1>8. frame'.it = [j \in Sides |-> CopyOf(j)']
  <2> HIDE DEF down
  <2>1. frame'.it = [frame.it EXCEPT ![k] = down] BY <1>4
  <2>2. frame'.it = [j \in Sides |-> IF j = k THEN down ELSE CopyOf(j)] BY <1>2, <2>1
  <2>3. [j \in Sides |-> CopyOf(j)'] = [j \in Sides |-> IF j = k THEN down ELSE CopyOf(j)]
    BY <1>7
  <2> QED BY <2>2, <2>3
<1>9. FrameOK' BY <1>1, <1>2, <1>4, <1>8 DEF IterInv, FrameOK, Dereferenceable, Used
<1>10. ~InFriend("inside") /\ ~InFriend("inside")' BY <1>1, <1>4 DEF InFriend
<1>11. step' = step /\ its' = its /\ throws' = throws /\ result' = result BY <1>1 DEF vars
<1> QED BY <1>6, <1>9, <1>10, <1>11 DEF IterInv

\* The base iterator throws.
LEMMA BaseThrowsKeeps == ASSUME IterInv, BaseThrows PROVE IterInv'
<1>1. /\ frame # None /\ frame.next \in throws /\ frame.next \in {"copy", "decrement"}
      /\ frame' = [frame EXCEPT !.next = "thrown"]
      /\ UNCHANGED <<vars, its, throws, result>>
  BY DEF BaseThrows, IterInv
<1>2. frame' = [fn |-> frame.fn, next |-> "thrown", left |-> frame.left, it |-> frame.it]
  BY <1>1, FrameFacts
<1>3. frame' \in Frames BY <1>1, <1>2, FrameFacts DEF Frames
<1>4. FrameOK' BY <1>1, <1>2 DEF IterInv, FrameOK, Dereferenceable, Used
<1>5. ~InFriend("inside") /\ ~InFriend("inside")' BY <1>1, <1>2 DEF InFriend
<1>6. step' = step /\ its' = its /\ throws' = throws /\ result' = result BY <1>1 DEF vars
<1> QED BY <1>3, <1>4, <1>5, <1>6 DEF IterInv

\* iter_move returns.
LEMMA MoveKeeps == ASSUME IterInv, MoveThrough PROVE IterInv'
<1>1. /\ frame # None /\ frame.next = "decrement" /\ frame' = None
      /\ UNCHANGED <<vars, its, throws>>
  BY DEF MoveThrough, Ready, InFriend
<1>2. step' = step /\ its # None BY <1>1, FrameFacts DEF vars
<1>3. ~InFriend("inside") /\ ~InFriend("inside")' BY <1>1 DEF InFriend
<1> QED BY <1>1, <1>2, <1>3 DEF IterInv, FrameOK

\* ranges::iter_swap goes on with the objects.
LEMMA ExchangeKeeps == ASSUME IterInv, ExchangeThrough PROVE IterInv'
<1>1. /\ frame # None /\ frame.fn \in Swaps
      /\ frame' = [frame EXCEPT !.next = "inside"]
      /\ call' = [fn |-> frame.fn, x |-> Object("x"), y |-> Object("y")]
      /\ step' = FirstStep(call') /\ UNCHANGED <<its, throws>>
  BY DEF ExchangeThrough, Ready, InFriend, Begin
<1>2. frame' = [fn |-> frame.fn, next |-> "inside", left |-> frame.left, it |-> frame.it]
  BY <1>1, FrameFacts
<1>3. frame' \in Frames BY <1>1, <1>2, FrameFacts DEF Frames
<1>4. frame' # None BY <1>3, NoneAssumption
<1>5. call'.fn = frame.fn BY <1>1
<1>6. FrameOK' BY <1>1, <1>2, <1>5 DEF IterInv, FrameOK, Dereferenceable, Used
<1>7. FirstStep(call') # "idle" BY DEF FirstStep
<1>8. InFriend("inside")' /\ its' # None /\ step' # "idle"
  BY <1>1, <1>2, <1>4, <1>7, FrameFacts DEF InFriend
<1> QED BY <1>1, <1>3, <1>6, <1>8 DEF IterInv

\* A step of Exchange other than a beginning or an end.
LEMMA InsideKeeps == ASSUME IterInv, ExchangeStep PROVE IterInv'
<1>1. UNCHANGED <<its, throws, frame, result>> BY DEF ExchangeStep, iterVars
<1>2. \A c : FirstStep(c) # "idle" BY DEF FirstStep
<1>3. EndRound => step' # "idle" BY <1>2 DEF EndRound
<1>4. step # "idle" /\ step' # "idle" /\ call' = call
  BY <1>3 DEF ExchangeStep, Construct, Assign, Restore, OwnSwap, Copy, Throw, Operations
<1>5. FrameOK' BY <1>1, <1>4 DEF IterInv, FrameOK, CopyOf
<1> QED BY <1>1, <1>4, <1>5 DEF IterInv, InFriend

\* Every step keeps the invariant.
LEMMA IterStep == ASSUME IterInv, [ReverseNext]_<<vars, iterVars>> PROVE IterInv'
<1>1. CASE Take BY <1>1, TakeKeeps
<1>2. CASE Drop BY <1>2, CallerKeeps DEF Drop
<1>3. ASSUME NEW k \in Sides, NEW n \in (-N)..N, Walk(k, n) \/ WalkPostfix(k, n) \/ Look(k, n)
      PROVE  IterInv'
  BY <1>3, WalkKeeps, LookKeeps
<1>4. CASE Compare BY <1>4, LookKeeps
<1>5. ASSUME NEW f \in Friends, Call(f) PROVE IterInv' BY <1>5, CallKeeps
<1>6. CASE CopyBases BY <1>6, CopyKeepsIts
<1>7. ASSUME NEW k \in Sides, Decrement(k) PROVE IterInv' BY <1>7, DecrementKeeps
<1>8. CASE BaseThrows BY <1>8, BaseThrowsKeeps
<1>9. CASE MoveThrough BY <1>9, MoveKeeps
<1>10. CASE ExchangeThrough BY <1>10, ExchangeKeeps
<1>11. CASE LeaveFriend
  <2>1. /\ frame # None /\ frame' = None /\ result' = None /\ UNCHANGED <<its, throws>>
        /\ step' = "idle"
    BY <1>11 DEF LeaveFriend, Leave, InFriend, vars, IterInv, FrameOK
  <2> QED BY <2>1 DEF IterInv, FrameOK, InFriend
<1>12. CASE ExchangeDirectly
  <2>1. frame = None /\ UNCHANGED <<its, throws, frame, result>>
    BY <1>12 DEF ExchangeDirectly, iterVars, IterInv, FrameOK
  <2> QED BY <1>12, <2>1 DEF ExchangeDirectly, IterInv, FrameOK, InFriend
<1>13. CASE ExchangeStep BY <1>13, InsideKeeps
<1>14. CASE UNCHANGED <<vars, iterVars>>
  <2>1. UNCHANGED <<its, throws, frame, result, step, call>> BY <1>14 DEF vars, iterVars
  <2>2. FrameOK' BY <2>1 DEF IterInv, FrameOK, CopyOf
  <2> QED BY <2>1, <2>2 DEF IterInv, InFriend
<1> QED
  BY <1>1, <1>2, <1>3, <1>4, <1>5, <1>6, <1>7, <1>8, <1>9, <1>10, <1>11, <1>12, <1>13, <1>14
  DEF ReverseNext

-----------------------------------------------------------------------------
(* The walk.                                                               *)

\* An iterator and the place of the walk it stands for.
LEMMA CursorFacts ==
  ASSUME IterInv, its # None
  PROVE  /\ places = [k \in Sides |-> CursorOf(its[k])] /\ places # None
         /\ \A k \in Sides :
              /\ places[k] = [array |-> its[k].array, passed |-> N - its[k].current]
              /\ places[k].array = its[k].array /\ places[k].passed = N - its[k].current
              /\ places[k].passed \in 0..N
<1>1. places = [k \in Sides |-> CursorOf(its[k])] BY DEF places
<1>2. \A k \in Sides : N - its[k].current \in 0..N
  <2>1. \A k \in Sides : its[k].current \in 0..N BY ItsFacts
  <2> QED BY <2>1, SizeAssumption
<1>3. \A k \in Sides : CursorOf(its[k]) \in [array : {"a", "b"}, passed : 0..N]
  BY <1>2, ItsFacts DEF CursorOf
<1>4. places # None BY <1>1, <1>3, NoneAssumption
<1> QED BY <1>1, <1>2, <1>4 DEF CursorOf

\* The element under an iterator is the one that its place of the walk gives.
LEMMA SameElement ==
  ASSUME IterInv, its # None, NEW k \in Sides, NEW n \in (-N)..N
  PROVE  /\ Deref(plus(its[k], n)) = Cursors!Element(places[k], n)
         /\ Dereferenceable(plus(its[k], n)) <=> Cursors!Reaches(places[k], n)
         /\ Deref(its[k]) = Cursors!Element(places[k], 0)
         /\ <<its[k].array, its[k].current - 1>> = Cursors!Element(places[k], 0)
         /\ Dereferenceable(its[k]) <=> Cursors!Reaches(places[k], 0)
<1> DEFINE c == its[k].current  p == places[k].passed
<1>1. c \in 0..N /\ p = N - c /\ places[k].array = its[k].array
  BY ItsFacts, CursorFacts
<1>2. plus(its[k], n).array = its[k].array /\ plus(its[k], n).current = c - n
  <2>1. plus(its[k], n) = [array |-> its[k].array, current |-> its[k].current - n]
    BY PlusFacts
  <2> QED BY <2>1
<1> HIDE DEF c, p
<1>3. N - 1 - (p + n) = c - n - 1 /\ N - 1 - (p + 0) = c - 1 BY <1>1, SizeAssumption
<1>4. /\ c - n \in 1..N <=> p + n \in 0..(N - 1)
      /\ c \in 1..N <=> p + 0 \in 0..(N - 1)
  BY <1>1, SizeAssumption
<1> QED BY <1>1, <1>2, <1>3, <1>4
     DEF Deref, Dereferenceable, Cursors!Element, Cursors!Reaches, c, p

\* Taking the iterators of the arrays takes places at the ends of the walk.
LEMMA TakeWalks == ASSUME IterInv, Take PROVE Cursors!Take
<1>1. /\ its = None /\ result' = None
      /\ its' \in [Sides -> {rbegin(a) : a \in {"a", "b"}} \cup {rend(a) : a \in {"a", "b"}}]
  BY DEF Take, IterInv, iterVars
<1>2. \A a \in {"a", "b"} :
        /\ rbegin(a) = [array |-> a, current |-> N] /\ rend(a) = [array |-> a, current |-> 0]
  BY DEF rbegin, rend, make_reverse_iterator
<1>3. its' \in [Sides -> Iterators]
  BY <1>1, <1>2, SizeAssumption DEF Iterators
<1>4. \A k \in Sides : its'[k].array \in {"a", "b"} /\ its'[k].current \in 0..N
  BY <1>3 DEF Iterators
<1>5. \A k \in Sides : N - its'[k].current \in 0..N BY <1>4, SizeAssumption
<1>6. \A k \in Sides : CursorOf(its'[k]) \in [array : {"a", "b"}, passed : 0..N]
  BY <1>4, <1>5 DEF CursorOf
<1>7. its' # None BY <1>3, NoneAssumption
<1>8. places' \in [Sides -> [array : {"a", "b"}, passed : 0..N]]
  BY <1>6, <1>7 DEF places
<1>9. places = None BY <1>1 DEF places
<1> QED BY <1>1, <1>8, <1>9 DEF Cursors!Take, Cursors!Places, Cursors!Sides, Sides

\* Every way of walking an iterator walks its place, by as much.
LEMMA WalkWalks ==
  ASSUME IterInv, NEW k \in Sides, NEW n \in (-N)..N, Walk(k, n) \/ WalkPostfix(k, n)
  PROVE  places # None /\ Cursors!Walk
<1>1. /\ its # None /\ InRange(plus(its[k], n))
      /\ its' = [its EXCEPT ![k] = plus(@, n)]
      /\ \/ result' = None
         \/ /\ Dereferenceable(its[k])
            /\ result' = [of |-> k, n |-> 0, element |-> Deref(its[k])]
  BY DEF Walk, WalkPostfix
<1>2. /\ its \in [Sides -> Iterators]
      /\ plus(its[k], n) = [array |-> its[k].array, current |-> its[k].current - n]
      /\ plus(its[k], n) \in Iterators
  BY <1>1, PlusFacts DEF IterInv
<1>3. its' \in [Sides -> Iterators] BY <1>1, <1>2
<1>4. its' # None BY <1>3, NoneAssumption
<1>5. places' = [j \in Sides |-> CursorOf(its'[j])] BY <1>4 DEF places
<1>6. its'[k] = plus(its[k], n) /\ \A j \in Sides \ {k} : its'[j] = its[j] BY <1>1, <1>2
<1>7. places[k].passed + n \in 0..N /\ N - (its[k].current - n) = places[k].passed + n
  <2>1. its[k].current - n \in 0..N BY <1>1, <1>2 DEF InRange
  <2>2. places[k].passed = N - its[k].current /\ its[k].current \in 0..N
    BY <1>1, CursorFacts, ItsFacts
  <2> QED BY <2>1, <2>2, SizeAssumption
<1>8. CursorOf(its'[k]) = [places[k] EXCEPT !.passed = @ + n]
  BY <1>1, <1>2, <1>6, <1>7, CursorFacts DEF CursorOf
<1>9. places' = [places EXCEPT ![k].passed = @ + n]
  <2>1. \A j \in Sides \ {k} : CursorOf(its'[j]) = places[j] BY <1>1, <1>6, CursorFacts
  <2>2. places = [j \in Sides |-> places[j]] BY <1>1, CursorFacts
  <2> QED BY <1>5, <1>8, <2>1, <2>2
<1>10. \/ result' = None
       \/ /\ Cursors!Reaches(places[k], 0)
          /\ result' = [of |-> k, n |-> 0, element |-> Cursors!Element(places[k], 0)]
  BY <1>1, SameElement
<1>11. places # None BY <1>1, CursorFacts
<1> QED BY <1>7, <1>9, <1>10, <1>11 DEF Cursors!Walk, Cursors!Sides, Sides

\* Looking finds the element of the walk.
LEMMA LookWalks ==
  ASSUME IterInv, NEW k \in Sides, NEW n \in (-N)..N, Look(k, n)
  PROVE  places # None /\ Cursors!Look
<1>1. /\ its # None /\ its' = its /\ Dereferenceable(plus(its[k], n))
      /\ result' = [of |-> k, n |-> n, element |-> Deref(plus(its[k], n))]
  BY DEF Look
<1>2. places # None /\ places' = places BY <1>1, CursorFacts DEF places
<1>3. /\ Cursors!Reaches(places[k], n)
      /\ result' = [of |-> k, n |-> n, element |-> Cursors!Element(places[k], n)]
  BY <1>1, SameElement
<1> QED BY <1>2, <1>3 DEF Cursors!Look, Cursors!Sides, Sides

\* The order of the iterators is that of the walk.
LEMMA CompareWalks == ASSUME IterInv, Compare PROVE places # None /\ Cursors!Compare
<1> DEFINE cx == its["x"].current  cy == its["y"].current
           px == places["x"].passed  py == places["y"].passed
<1>1. /\ its # None /\ its' = its /\ its["x"].array = its["y"].array
      /\ result' = [same |-> cx = cy, other |-> cx # cy, before |-> cy < cx, upto |-> cy <= cx,
                    behind |-> cy > cx, from |-> cy >= cx, distance |-> cy - cx]
  BY DEF Compare, equal, not_equal, less, less_equal, greater, greater_equal, difference
<1>2. places # None /\ places' = places BY <1>1, CursorFacts DEF places
<1>3. cx \in 0..N /\ cy \in 0..N /\ px = N - cx /\ py = N - cy
  BY <1>1, CursorFacts, ItsFacts DEF Sides
<1>4. places["x"].array = places["y"].array BY <1>1, CursorFacts DEF Sides
<1> HIDE DEF cx, cy, px, py
<1>5. (cx = cy) = (px = py) /\ (cx # cy) = (px # py) BY <1>3, SizeAssumption
<1>6. (cy < cx) = (px < py) /\ (cy <= cx) = (px <= py) BY <1>3, SizeAssumption
<1>7. (cy > cx) = (px > py) /\ (cy >= cx) = (px >= py) BY <1>3, SizeAssumption
<1>8. cy - cx = px - py BY <1>3, SizeAssumption
<1>9. result' = [same |-> px = py, other |-> px # py, before |-> px < py, upto |-> px <= py,
                 behind |-> px > py, from |-> px >= py, distance |-> px - py]
  BY <1>1, <1>5, <1>6, <1>7, <1>8, Zenon
<1> QED BY <1>2, <1>4, <1>9, Zenon DEF Cursors!Compare, px, py

\* iter_move moves from the element that * gives.
LEMMA MoveWalks == ASSUME IterInv, MoveThrough PROVE places # None /\ Cursors!Look
<1>1. /\ Ready /\ frame # None /\ frame.fn = "iter_move" /\ its' = its
      /\ result' = [of |-> "x", n |-> 0, element |-> Object("x")]
  BY DEF MoveThrough, Ready, InFriend
<1>2. its # None /\ "x" \in Sides /\ "x" \in Used(frame.fn) /\ Dereferenceable(its["x"])
  BY <1>1 DEF IterInv, FrameOK, Used, Sides
<1>3. Object("x") = <<its["x"].array, its["x"].current - 1>> BY <1>1, <1>2, ReadyObjects
<1>4. 0 \in (-N)..N BY SizeAssumption
<1>5. /\ Cursors!Reaches(places["x"], 0)
      /\ result' = [of |-> "x", n |-> 0, element |-> Cursors!Element(places["x"], 0)]
  BY <1>1, <1>2, <1>3, <1>4, SameElement
<1>6. places # None /\ places' = places BY <1>1, <1>2, CursorFacts DEF places
<1> QED BY <1>4, <1>5, <1>6 DEF Cursors!Look, Cursors!Sides

\* iter_swap exchanges the elements that * gives.
LEMMA ExchangeWalks ==
  ASSUME IterInv, ExchangeThrough PROVE places # None /\ Cursors!Exchange
<1>1. /\ Ready /\ frame # None /\ frame.fn \in Swaps /\ its' = its
      /\ result' = [swapped |-> [k \in Sides |-> Object(k)]]
  BY DEF ExchangeThrough, Ready, InFriend
<1>2. /\ its # None /\ Used(frame.fn) = Sides
      /\ \A k \in Sides : Dereferenceable(its[k])
  BY <1>1 DEF IterInv, FrameOK, Used, Swaps
<1>3. 0 \in (-N)..N BY SizeAssumption
<1>4. \A k \in Sides : /\ Object(k) = Cursors!Element(places[k], 0)
                       /\ Cursors!Reaches(places[k], 0)
  BY <1>1, <1>2, <1>3, ReadyObjects, SameElement
<1>5. result' = [swapped |-> [k \in Sides |-> Cursors!Element(places[k], 0)]]
  BY <1>1, <1>4
<1>6. places # None /\ places' = places BY <1>1, <1>2, CursorFacts DEF places
<1> QED BY <1>4, <1>5, <1>6 DEF Cursors!Exchange, Cursors!Sides, Sides

\* Every step of the iterators is one of the walk, or none at all.
LEMMA StepWalks ==
  ASSUME IterInv, [ReverseNext]_<<vars, iterVars>>
  PROVE  [Cursors!Next]_<<places, result>>
<1>1. CASE Take BY <1>1, TakeWalks DEF Cursors!Next
<1>2. CASE Drop
  BY <1>2 DEF Drop, places, Cursors!Next, Cursors!Forget
<1>3. ASSUME NEW k \in Sides, NEW n \in (-N)..N, Walk(k, n) \/ WalkPostfix(k, n) \/ Look(k, n)
      PROVE  Cursors!Next
  BY <1>3, WalkWalks, LookWalks DEF Cursors!Next
<1>4. CASE Compare BY <1>4, CompareWalks DEF Cursors!Next
<1>5. ASSUME NEW f \in Friends, Call(f) PROVE Cursors!Next
  BY <1>5 DEF Call, places, Cursors!Next, Cursors!Forget
<1>6. ASSUME UNCHANGED <<its, result>> PROVE UNCHANGED <<places, result>> BY <1>6 DEF places
<1>7. CASE CopyBases BY <1>6, <1>7 DEF CopyBases
<1>8. ASSUME NEW k \in Sides, Decrement(k) PROVE UNCHANGED <<its, result>>
  BY <1>8 DEF Decrement
<1>9. CASE BaseThrows BY <1>6, <1>9 DEF BaseThrows
<1>10. CASE MoveThrough BY <1>10, MoveWalks DEF Cursors!Next
<1>11. CASE ExchangeThrough BY <1>11, ExchangeWalks DEF Cursors!Next
<1>12. CASE LeaveFriend
  BY <1>12 DEF LeaveFriend, places, Cursors!Next, Cursors!Forget
<1>13. CASE ExchangeDirectly \/ ExchangeStep
  BY <1>6, <1>13 DEF ExchangeDirectly, ExchangeStep, iterVars
<1>14. CASE UNCHANGED <<vars, iterVars>> BY <1>6, <1>14 DEF iterVars
<1> QED
  BY <1>1, <1>2, <1>3, <1>4, <1>5, <1>6, <1>7, <1>8, <1>9, <1>10, <1>11, <1>12, <1>13, <1>14
  DEF ReverseNext

-----------------------------------------------------------------------------
(* The theorems.                                                           *)

\* The inductive invariant of the iterators.
THEOREM IteratorInvariance == ReverseSpec => []IterInv
BY IterInit, IterStep, PTL DEF ReverseSpec

\* Whatever is called through reverse iterators is a call that Exchange knows, on existing
\* objects: iter_move and iter_swap (lib/iterator.hpp:728-748) never leave the arrays.
THEOREM ReverseImplementsExchange == ReverseSpec => Spec
<1>1. ReverseInit => Init BY DEF ReverseInit
<1> QED BY IteratorInvariance, StepRefines, <1>1, PTL DEF ReverseSpec, Spec

\* Calls through reverse iterators are complete when they return.
THEOREM ReverseComplete == ReverseSpec => []Completed
BY ReverseImplementsExchange, CallsComplete, PTL

\* Failures inside of calls through reverse iterators are contained.
THEOREM ReverseContained == ReverseSpec => []FailureContained
BY ReverseImplementsExchange, FailuresContained, PTL

\* Exchanges through reverse iterators never copy.
THEOREM ReverseMovesOnly == ReverseSpec => []NeverDuplicated
BY ReverseImplementsExchange, MovesOnly, PTL

\* Every variable keeps its type.
THEOREM IteratorsCorrect == ReverseSpec => []IteratorsOK
<1>1. IterInv /\ TypeOK => IteratorsOK BY DEF IterInv, FrameOK, IteratorsOK
<1> QED BY IteratorInvariance, ReverseImplementsExchange, TypeCorrect, <1>1, PTL

\* No exception of an element or a base iterator leaves a function that is noexcept.
THEOREM IteratorExceptions == ReverseSpec => []IteratorsNoexcept
<1>1. IterInv /\ OthersNoexcept => IteratorsNoexcept
  <2> SUFFICES ASSUME IterInv, OthersNoexcept,
                      InFriend("thrown") \/ (InFriend("inside") /\ step = "thrown")
               PROVE  ~friend_noexcept(frame.fn)
    BY DEF IteratorsNoexcept
  <2>1. CASE InFriend("thrown")
    BY <2>1 DEF InFriend, IterInv, FrameOK, friend_noexcept
  <2>2. CASE InFriend("inside") /\ step = "thrown"
    <3>1. frame.fn \in Swaps /\ call.fn = frame.fn BY <2>2 DEF InFriend, IterInv, FrameOK
    <3>2. ~Noexcept(call) BY <2>2, <3>1 DEF OthersNoexcept, Swaps
    <3>3. Noexcept([fn |-> frame.fn]) = Noexcept(call) BY <3>1 DEF Noexcept
    <3> QED BY <3>1, <3>2, <3>3 DEF friend_noexcept
  <2> QED BY <2>1, <2>2
<1> QED BY IteratorInvariance, ReverseImplementsExchange, ExceptionsAllowed, <1>1, PTL

\* Reverse iterators implement the walk from the last element to the first.
THEOREM ImplementsCursor == ReverseSpec => WalksBackwards
<1>1. ReverseInit => Cursors!Init BY DEF ReverseInit, Cursors!Init, places
<1> QED BY IteratorInvariance, StepWalks, <1>1, PTL
     DEF ReverseSpec, WalksBackwards, Cursors!Spec
=============================================================================
