----------------------------- MODULE BootProofs -----------------------------
(***************************************************************************)
(* Start-up is safe on every board: whatever the alignment of the end of   *)
(* the image and the length of .bss, kmain finds .bss zeroed and a stack   *)
(* that the clearing loop did not reach.                                   *)
(***************************************************************************)
EXTENDS Boot, DivisionLemmas

\* The clearing loop keeps to word boundaries, stays in front of the stack, and leaves
\* zeroes behind.
BootInv ==
  /\ TypeOK
  /\ pc # "_start" => sp = stack_top
  /\ pc \notin {"_start", "zero_bss"} =>
       /\ x1 = bss_end
       /\ bss_start <= x0 /\ x0 <= stack_bottom
       /\ \E k \in Nat : x0 = Stride * k
       /\ dirty \cap (bss_start..(x0 - 1)) = {}
  /\ pc \in {"bss_done", "kmain", "spin"} => bss_end <= x0

-----------------------------------------------------------------------------
(* Alignment.                                                              *)

\* Rounding up gives the first multiple of Align not below n.
LEMMA AlignUpFacts ==
  ASSUME NEW n \in Nat
  PROVE  /\ AlignUp(n) \in Nat /\ n <= AlignUp(n) /\ AlignUp(n) < n + Align
         /\ \E q \in Nat : AlignUp(n) = Align * q
<1> USE BoardAssumption
<1> DEFINE q == (n + Align - 1) \div Align  r == (n + Align - 1) % Align
<1>1. q \in Int /\ r \in 0..(Align - 1) /\ n + Align - 1 = Align * q + r
  <2>1. n + Align - 1 \in Int OBVIOUS
  <2> QED BY <2>1, DivMod
<1>2. AlignUp(n) = Align * q BY DEF AlignUp
<1> HIDE DEF q, r
<1>3. Align * q \in Int /\ n <= Align * q /\ Align * q < n + Align BY <1>1
<1>4. q >= 0
  <2> SUFFICES ASSUME q <= -1 PROVE FALSE BY <1>1
  <2>1. Align * q <= Align * (-1) BY <1>1
  <2> QED BY <1>3, <2>1
<1>5. q \in Nat BY <1>1, <1>4
<1> QED BY <1>2, <1>3, <1>5

\* A multiple of Align is a multiple of Stride.
LEMMA AlignedIsWhole ==
  ASSUME NEW q \in Nat
  PROVE  \E k \in Nat : Align * q = Stride * k
<1> USE BoardAssumption
<1> DEFINE d == Align \div Stride
<1>1. d \in Int /\ Align = Stride * d
  BY DivMod
<1>2. d >= 0 BY <1>1
<1> HIDE DEF d
<1>3. d * q \in Nat BY <1>1, <1>2
<1>4. Align * q = Stride * (d * q) BY <1>1, <1>2
<1> QED BY <1>3, <1>4

\* Between two different multiples of Stride there is room for a store.
LEMMA WholeStrides ==
  ASSUME NEW j \in Nat, NEW k \in Nat, Stride * j < Stride * k
  PROVE  Stride * j + Stride <= Stride * k /\ Stride * j + Stride = Stride * (j + 1)
<1> USE BoardAssumption
<1>1. j < k
  <2> SUFFICES ASSUME k <= j PROVE FALSE OBVIOUS
  <2>1. Stride * k <= Stride * j OBVIOUS
  <2>2. Stride * k \in Nat /\ Stride * j \in Nat OBVIOUS
  <2> HIDE BoardAssumption
  <2> QED BY <2>1, <2>2
<1>2. j + 1 <= k BY <1>1
<1>3. Stride * (j + 1) <= Stride * k BY <1>2
<1> QED BY <1>3

\* The layout the linker script computes.
LEMMA LayoutFacts ==
  ASSUME imageEnd \in RamStart..(RamStart + MaxImage), bssSize \in 0..MaxBss
  PROVE  /\ bss_start \in Nat /\ bss_end \in Nat /\ stack_bottom \in Nat /\ stack_top \in Nat
         /\ RamStart <= bss_start /\ bss_start <= bss_end /\ bss_end <= stack_bottom
         /\ stack_top = stack_bottom + StackSize /\ stack_top <= RamEnd
         /\ stack_top % Align = 0
         /\ \E k \in Nat : bss_start = Stride * k
         /\ \E k \in Nat : stack_bottom = Stride * k
<1> USE BoardAssumption
<1>1. imageEnd \in Nat /\ bssSize \in Nat OBVIOUS
<1>2. /\ bss_start \in Nat /\ imageEnd <= bss_start /\ bss_start < imageEnd + Align
      /\ \E q \in Nat : bss_start = Align * q
  BY <1>1, AlignUpFacts DEF bss_start
<1>3. bss_end \in Nat /\ bss_end = bss_start + bssSize BY <1>1, <1>2 DEF bss_end
<1>4. /\ stack_bottom \in Nat /\ bss_end <= stack_bottom /\ stack_bottom < bss_end + Align
      /\ \E q \in Nat : stack_bottom = Align * q
  BY <1>3, AlignUpFacts DEF stack_bottom
<1>5. stack_top \in Nat /\ stack_top = stack_bottom + StackSize BY <1>4 DEF stack_top
<1>6. stack_top <= RamEnd
  BY <1>1, <1>2, <1>3, <1>4, <1>5, FitAssumption
<1>7. stack_top % Align = 0
  <2>1. PICK q \in Nat : stack_bottom = Align * q BY <1>4
  <2> DEFINE d == StackSize \div Align
  <2>2. d \in Int /\ StackSize = Align * d BY DivMod
  <2> HIDE DEF d
  <2>3. stack_top = Align * (q + d) + 0 BY <1>5, <2>1, <2>2
  <2>4. q + d \in Int /\ 0 \in 0..(Align - 1) /\ stack_top \in Int BY <1>5, <2>2
  <2> QED BY <2>3, <2>4, ModValue
<1>8. \E k \in Nat : bss_start = Stride * k BY <1>2, AlignedIsWhole
<1>9. \E k \in Nat : stack_bottom = Stride * k BY <1>4, AlignedIsWhole
<1>10. RamStart <= bss_start /\ bss_start <= bss_end BY <1>1, <1>2, <1>3
<1> HIDE BoardAssumption
<1> QED BY <1>2, <1>3, <1>4, <1>5, <1>6, <1>7, <1>8, <1>9, <1>10

-----------------------------------------------------------------------------
(* The invariant.                                                          *)

\* Power-on satisfies the invariant.
LEMMA InitBoot == Init => BootInv
BY BoardAssumption, PowerOnAssumption DEF Init, BootInv, TypeOK

\* A turn of the clearing loop: the word in front of the stack is cleared, no more.
LEMMA ClearStep ==
  ASSUME BootInv, Clear
  PROVE  /\ BootInv' /\ x0' = x0 + Stride
         /\ dirty \ dirty' \subseteq bss_start..(stack_bottom - 1)
<1> USE BoardAssumption
<1>1. /\ pc = "bss_clear" /\ dirty' = dirty \ (x0..(x0 + Stride - 1))
      /\ x0' = (x0 + Stride) % (2 * Half)
      /\ UNCHANGED <<imageEnd, bssSize, pc, x1, sp, msg, uart>>
  BY DEF Clear, linked
<1>2. TypeOK /\ sp = stack_top BY <1>1 DEF BootInv
<1>3. /\ x1 = bss_end /\ bss_start <= x0 /\ x0 <= stack_bottom
      /\ \E k \in Nat : x0 = Stride * k
      /\ dirty \cap (bss_start..(x0 - 1)) = {}
  BY <1>1 DEF BootInv
<1>4. imageEnd \in RamStart..(RamStart + MaxImage) /\ bssSize \in 0..MaxBss
  BY <1>2 DEF TypeOK
<1>5. /\ bss_start \in Nat /\ bss_end \in Nat /\ stack_bottom \in Nat /\ stack_top \in Nat
      /\ RamStart <= bss_start /\ bss_start <= bss_end /\ bss_end <= stack_bottom
      /\ stack_top = stack_bottom + StackSize /\ stack_top <= RamEnd
      /\ \E k \in Nat : stack_bottom = Stride * k
  BY <1>4, LayoutFacts
<1>6. x0 \in Nat /\ x0 < Half /\ x1 < Half BY <1>3, <1>5
<1>7. x0 < x1
  BY <1>3, <1>5, <1>6 DEF Clear, AtEnd, Signed
<1>8. PICK j \in Nat : x0 = Stride * j BY <1>3
<1>9. PICK k \in Nat : stack_bottom = Stride * k BY <1>5
<1>10. x0 + Stride <= stack_bottom /\ x0 + Stride = Stride * (j + 1)
  <2>1. Stride * j < Stride * k
    <3>1. x0 < stack_bottom BY <1>3, <1>5, <1>7
    <3> QED BY ONLY <1>8, <1>9, <3>1
  <2> QED BY <1>8, <1>9, <2>1, WholeStrides
<1>11. x0' = x0 + Stride
  <2>1. x0 + Stride \in Nat /\ x0 + Stride < 2 * Half BY <1>5, <1>6, <1>10
  <2> QED BY <1>1, <2>1
<1>12. bss_start' = bss_start /\ bss_end' = bss_end
       /\ stack_bottom' = stack_bottom /\ stack_top' = stack_top
  BY <1>1 DEF bss_start, bss_end, stack_bottom, stack_top
<1>13. dirty' \cap (bss_start..(x0' - 1)) = {}
  <2>1. SUFFICES ASSUME NEW a \in bss_start..(x0' - 1), a \in dirty' PROVE FALSE
    OBVIOUS
  <2>2. a \in dirty /\ a \notin x0..(x0 + Stride - 1) BY <1>1, <2>1
  <2>3. a \in Int /\ bss_start <= a /\ a <= x0 + Stride - 1 BY <1>5, <1>6, <1>11
  <2>4. a <= x0 - 1 BY <1>6, <2>2, <2>3
  <2>5. a \in bss_start..(x0 - 1) BY <1>5, <1>6, <2>3, <2>4
  <2> QED BY <1>3, <2>2, <2>5
<1>14. TypeOK'
  <2>1. x0' \in Ram BY <1>3, <1>5, <1>6, <1>10, <1>11 DEF Ram
  <2> QED BY <1>1, <1>2, <2>1 DEF TypeOK
<1>15. BootInv'
  <2>1. x0' = Stride * (j + 1) /\ j + 1 \in Nat BY <1>10, <1>11
  <2>2. bss_start <= x0' /\ x0' <= stack_bottom BY <1>3, <1>5, <1>6, <1>10, <1>11
  <2>3. \E i \in Nat : x0' = Stride * i BY <2>1
  <2> QED BY <1>1, <1>2, <1>3, <1>12, <1>13, <1>14, <2>2, <2>3 DEF BootInv
<1>16. dirty \ dirty' \subseteq bss_start..(stack_bottom - 1)
  <2>1. SUFFICES ASSUME NEW a \in x0..(x0 + Stride - 1)
                 PROVE  a \in bss_start..(stack_bottom - 1)
    BY <1>1
  <2>2. a \in Int /\ x0 <= a /\ a <= x0 + Stride - 1 BY <1>6
  <2>3. bss_start <= a BY <1>3, <1>5, <1>6, <2>2
  <2>4. a <= stack_bottom - 1 BY <1>5, <1>6, <1>10, <2>2
  <2> QED BY <1>5, <2>2, <2>3, <2>4
<1> QED BY <1>11, <1>15, <1>16

\* Every step keeps the invariant.
LEMMA StepBoot == BootInv /\ [Next]_vars => BootInv'
<1> SUFFICES ASSUME BootInv, [Next]_vars PROVE BootInv' OBVIOUS
<1> USE BoardAssumption
<1>1. TypeOK BY DEF BootInv
<1>2. imageEnd \in RamStart..(RamStart + MaxImage) /\ bssSize \in 0..MaxBss
  BY <1>1 DEF TypeOK
<1>3. /\ bss_start \in Nat /\ bss_end \in Nat /\ stack_bottom \in Nat /\ stack_top \in Nat
      /\ RamStart <= bss_start /\ bss_start <= bss_end /\ bss_end <= stack_bottom
      /\ stack_top = stack_bottom + StackSize /\ stack_top <= RamEnd
      /\ \E k \in Nat : bss_start = Stride * k
  BY <1>2, LayoutFacts
<1>4. ASSUME UNCHANGED <<imageEnd, bssSize>>
      PROVE  /\ bss_start' = bss_start /\ bss_end' = bss_end
             /\ stack_bottom' = stack_bottom /\ stack_top' = stack_top
  BY <1>4 DEF bss_start, bss_end, stack_bottom, stack_top
<1>5. CASE SetStack
  <2>1. /\ pc = "_start" /\ x0' = stack_top /\ sp' = stack_top /\ pc' = "zero_bss"
        /\ UNCHANGED <<imageEnd, bssSize, x1, dirty, msg, uart>>
    BY <1>5 DEF SetStack, linked
  <2>2. stack_top \in Ram \cup {0, RamEnd} BY <1>3 DEF Ram
  <2>3. TypeOK' BY <1>1, <2>1, <2>2 DEF TypeOK
  <2> QED BY <1>4, <2>1, <2>3 DEF BootInv
<1>6. CASE LoadBounds
  <2>1. /\ pc = "zero_bss" /\ x0' = bss_start /\ x1' = bss_end /\ pc' = "bss_clear"
        /\ UNCHANGED <<imageEnd, bssSize, sp, dirty, msg, uart>>
    BY <1>6 DEF LoadBounds, linked
  <2>2. bss_start \in Ram /\ bss_end \in Ram BY <1>3 DEF Ram
  <2>3. TypeOK' BY <1>1, <2>1, <2>2 DEF TypeOK
  <2>4. dirty' \cap (bss_start..(x0' - 1)) = {} BY <1>3, <2>1
  <2> QED BY <1>3, <1>4, <2>1, <2>3, <2>4 DEF BootInv
<1>7. CASE Done
  <2>1. /\ pc = "bss_clear" /\ pc' = "bss_done"
        /\ UNCHANGED <<imageEnd, bssSize, x0, x1, sp, dirty, msg, uart>>
    BY <1>7 DEF Done, linked
  <2>2. x1 = bss_end /\ bss_start <= x0 /\ x0 <= stack_bottom BY <2>1 DEF BootInv
  <2>3. x0 \in Nat /\ x0 < Half /\ x1 < Half
    BY <1>1, <1>3, <2>2 DEF TypeOK, Ram
  <2>4. bss_end <= x0 BY <1>3, <1>7, <2>2, <2>3 DEF Done, AtEnd, Signed
  <2>5. TypeOK' BY <1>1, <2>1 DEF TypeOK
  <2> QED BY <1>4, <2>1, <2>4, <2>5 DEF BootInv
<1>8. CASE Clear BY <1>8, ClearStep
<1>9. CASE CallKmain
  <2>1. /\ pc = "bss_done" /\ pc' = "kmain" /\ msg' = 0
        /\ UNCHANGED <<imageEnd, bssSize, x0, x1, sp, dirty, uart>>
    BY <1>9 DEF CallKmain, linked
  <2>2. 0 \in 0..Len(Message) BY <1>1 DEF TypeOK
  <2>3. TypeOK' BY <1>1, <2>1, <2>2 DEF TypeOK
  <2> QED BY <1>4, <2>1, <2>3 DEF BootInv
<1>10. CASE PutChar
  <2>1. /\ pc = "kmain" /\ msg < Len(Message) /\ msg' = msg + 1
        /\ uart' = Append(uart, Message[msg + 1])
        /\ UNCHANGED <<imageEnd, bssSize, pc, x0, x1, sp, dirty>>
    BY <1>10 DEF PutChar, linked
  <2>2. msg + 1 \in 1..Len(Message) /\ msg + 1 \in 0..Len(Message)
    BY <1>1, <2>1 DEF TypeOK
  <2>3. uart' \in Seq({Message[i] : i \in 1..Len(Message)})
    BY <1>1, <2>1, <2>2 DEF TypeOK
  <2>4. TypeOK' BY <1>1, <2>1, <2>2, <2>3 DEF TypeOK
  <2> QED BY <1>4, <2>1, <2>4 DEF BootInv
<1>11. CASE Spin
  <2>1. /\ pc = "kmain" /\ pc' = "spin"
        /\ UNCHANGED <<imageEnd, bssSize, x0, x1, sp, dirty, msg, uart>>
    BY <1>11 DEF Spin, linked
  <2>2. TypeOK' BY <1>1, <2>1 DEF TypeOK
  <2> QED BY <1>4, <2>1, <2>2 DEF BootInv
<1>12. CASE UNCHANGED vars
  <2>1. TypeOK' BY <1>1, <1>12 DEF TypeOK, vars
  <2> QED BY <1>4, <1>12, <2>1 DEF BootInv, vars
<1>13. CASE Loop BY <1>12, <1>13 DEF Loop
<1> QED BY <1>5, <1>6, <1>7, <1>8, <1>9, <1>10, <1>11, <1>12, <1>13 DEF Next

\* The invariant holds throughout start-up.
LEMMA BootInvariant == Spec => []BootInv
BY InitBoot, StepBoot, PTL DEF Spec

-----------------------------------------------------------------------------
(* The theorems.                                                           *)

\* Registers and memory keep their types: in particular x0 never leaves ram.
THEOREM BootTypes == Spec => []TypeOK
<1>1. BootInv => TypeOK BY DEF BootInv
<1> QED BY <1>1, BootInvariant, PTL

\* kmain starts with .bss zeroed and with an aligned stack outside every section.
THEOREM KmainStartsClean == Spec => []KmainReady
<1>1. BootInv => KmainReady
  <2> SUFFICES ASSUME BootInv, pc \in {"kmain", "spin"}
               PROVE  /\ dirty \cap (bss_start..(bss_end - 1)) = {}
                      /\ sp % Align = 0 /\ sp <= RamEnd /\ bss_end <= sp - StackSize
    BY DEF KmainReady
  <2>1. TypeOK /\ sp = stack_top /\ bss_end <= x0 /\ dirty \cap (bss_start..(x0 - 1)) = {}
    BY DEF BootInv
  <2>2. imageEnd \in RamStart..(RamStart + MaxImage) /\ bssSize \in 0..MaxBss
    BY <2>1 DEF TypeOK
  <2>3. /\ bss_start \in Nat /\ bss_end \in Nat /\ stack_bottom \in Nat
        /\ bss_end <= stack_bottom /\ stack_top = stack_bottom + StackSize
        /\ stack_top <= RamEnd /\ stack_top % Align = 0
    BY <2>2, LayoutFacts
  <2>4. x0 \in Nat BY <2>1, BoardAssumption DEF TypeOK, Ram
  <2>5. dirty \cap (bss_start..(bss_end - 1)) = {} BY <2>1, <2>3, <2>4
  <2> QED BY <2>1, <2>3, <2>5, BoardAssumption
<1> QED BY <1>1, BootInvariant, PTL

\* The clearing loop erases .bss and padding, and nothing else.
THEOREM ErasesOnlyBss == Spec => OnlyBssErased
<1>1. BootInv /\ [Next]_vars => [dirty \ dirty' \subseteq bss_start..(stack_bottom - 1)]_vars
  <2> SUFFICES ASSUME BootInv, Next
               PROVE  dirty \ dirty' \subseteq bss_start..(stack_bottom - 1)
    OBVIOUS
  <2>1. CASE Clear BY <2>1, ClearStep
  <2>2. CASE ~Clear
    <3>1. dirty' = dirty
      BY <2>2 DEF Next, SetStack, LoadBounds, Done, CallKmain, PutChar, Spin, Loop, vars
    <3> QED BY <3>1
  <2> QED BY <2>1, <2>2
<1> QED BY <1>1, BootInvariant, PTL DEF Spec, OnlyBssErased

-----------------------------------------------------------------------------
(* The safe half of Booted: what can be said without fairness.             *)

\* How many steps are left at most until kmain is in its endless loop.
StepsLeft ==
  CASE pc = "_start"    -> stack_bottom + Len(Message) + 5
    [] pc = "zero_bss"  -> stack_bottom + Len(Message) + 4
    [] pc = "bss_clear" -> (stack_bottom - x0) + Len(Message) + 3
    [] pc = "bss_done"  -> Len(Message) + 2
    [] pc = "kmain"     -> (Len(Message) - msg) + 1
    [] pc = "spin"      -> 0

\* The UART has received what kmain's pointer has left behind.
MessageInv ==
  /\ pc \notin {"kmain", "spin"} => uart = << >>
  /\ pc \in {"kmain", "spin"} => Len(uart) = msg /\ \A i \in 1..msg : uart[i] = Message[i]
  /\ pc = "spin" => msg = Len(Message)

\* What the invariant says of the bounds of the loops.
LEMMA BoundsFacts ==
  ASSUME BootInv
  PROVE  /\ stack_bottom \in Nat /\ Len(Message) \in Nat /\ msg \in 0..Len(Message)
         /\ bss_start \in Nat /\ Stride \in Nat \ {0}
         /\ pc \in {"_start", "zero_bss", "bss_clear", "bss_done", "kmain", "spin"}
         /\ pc = "bss_clear" => x0 \in Nat /\ x0 <= stack_bottom
<1>1. TypeOK BY DEF BootInv
<1>2. imageEnd \in RamStart..(RamStart + MaxImage) /\ bssSize \in 0..MaxBss
  BY <1>1 DEF TypeOK
<1>3. stack_bottom \in Nat /\ bss_start \in Nat BY <1>2, LayoutFacts
<1>4. Len(Message) \in Nat /\ Stride \in Nat \ {0} BY BoardAssumption
<1>5. pc = "bss_clear" => x0 \in Nat /\ x0 <= stack_bottom
  BY <1>1, BoardAssumption DEF BootInv, TypeOK, Ram
<1> QED BY <1>1, <1>3, <1>4, <1>5 DEF TypeOK

\* A step uses up at least one of the steps that are left.
Advances == StepsLeft \in Nat /\ (pc # "spin" => StepsLeft' < StepsLeft)

\* Start-up never goes round in circles: each step of it, the turns of the loop that clears
\* .bss (boot.S:13-17) and of the one that sends the message (main.cpp) included, uses
\* up one of finitely many, until kmain spins.
THEOREM BootAdvances == Spec => [][Advances]_vars
<1>1. BootInv /\ BootInv' /\ [Next]_vars
        => [Advances]_vars
  <2> SUFFICES ASSUME BootInv, BootInv', Next
               PROVE  StepsLeft \in Nat /\ (pc # "spin" => StepsLeft' < StepsLeft)
    BY DEF Advances
  <2> DEFINE b == stack_bottom  n == Len(Message)
  <2>1. /\ b \in Nat /\ n \in Nat /\ msg \in 0..n /\ bss_start \in Nat /\ Stride \in Nat \ {0}
        /\ pc \in {"_start", "zero_bss", "bss_clear", "bss_done", "kmain", "spin"}
        /\ pc = "bss_clear" => x0 \in Nat /\ x0 <= b
    BY BoundsFacts
  <2>2. stack_bottom' = b
    BY DEF Next, SetStack, LoadBounds, Done, Clear, CallKmain, PutChar, Spin, Loop, linked, vars,
           stack_bottom, bss_end, bss_start
  <2> HIDE DEF b, n
  <2>3. /\ pc = "_start" => StepsLeft = b + n + 5
        /\ pc = "zero_bss" => StepsLeft = b + n + 4
        /\ pc = "bss_clear" => StepsLeft = (b - x0) + n + 3
        /\ pc = "bss_done" => StepsLeft = n + 2
        /\ pc = "kmain" => StepsLeft = (n - msg) + 1
        /\ pc = "spin" => StepsLeft = 0
    BY DEF StepsLeft, b, n
  <2>4. /\ pc' = "zero_bss" => StepsLeft' = b + n + 4
        /\ pc' = "bss_clear" => StepsLeft' = (b - x0') + n + 3
        /\ pc' = "bss_done" => StepsLeft' = n + 2
        /\ pc' = "kmain" => StepsLeft' = (n - msg') + 1
        /\ pc' = "spin" => StepsLeft' = 0
    BY <2>2 DEF StepsLeft, b, n
  <2>5. StepsLeft \in Nat BY <2>1, <2>3
  <2>6. CASE SetStack BY <2>1, <2>3, <2>4, <2>5, <2>6 DEF SetStack
  <2>7. CASE LoadBounds
    <3>1. pc = "zero_bss" /\ pc' = "bss_clear" /\ x0' = bss_start BY <2>7 DEF LoadBounds
    <3> QED BY <2>1, <2>3, <2>4, <2>5, <3>1
  <2>8. CASE Done
    <3>1. pc = "bss_clear" /\ pc' = "bss_done" BY <2>8 DEF Done
    <3> QED BY <2>1, <2>3, <2>4, <2>5, <3>1
  <2>9. CASE Clear
    <3>1. pc = "bss_clear" /\ pc' = "bss_clear" BY <2>9 DEF Clear
    <3>2. x0' = x0 + Stride BY <2>9, ClearStep
    <3> QED BY <2>1, <2>3, <2>4, <2>5, <3>1, <3>2
  <2>10. CASE CallKmain
    <3>1. pc = "bss_done" /\ pc' = "kmain" /\ msg' = 0 BY <2>10 DEF CallKmain
    <3> QED BY <2>1, <2>3, <2>4, <2>5, <3>1
  <2>11. CASE PutChar
    <3>1. pc = "kmain" /\ pc' = "kmain" /\ msg' = msg + 1 BY <2>11 DEF PutChar
    <3> QED BY <2>1, <2>3, <2>4, <2>5, <3>1
  <2>12. CASE Spin
    <3>1. pc = "kmain" /\ pc' = "spin" BY <2>12 DEF Spin
    <3> QED BY <2>1, <2>3, <2>4, <2>5, <3>1
  <2>13. CASE Loop BY <2>5, <2>13 DEF Loop
  <2> QED BY <2>6, <2>7, <2>8, <2>9, <2>10, <2>11, <2>12, <2>13 DEF Next
<1> QED BY <1>1, BootInvariant, PTL DEF Spec

\* When kmain spins, the UART has received the message, whole and once.
THEOREM MessageSent == Spec => [](pc = "spin" => uart = Message)
<1>1. Init => MessageInv BY DEF Init, MessageInv
<1>2. BootInv /\ MessageInv /\ [Next]_vars => MessageInv'
  <2> SUFFICES ASSUME BootInv, MessageInv, [Next]_vars PROVE MessageInv' OBVIOUS
  <2>1. TypeOK /\ Message \in Seq(STRING) BY BoardAssumption DEF BootInv
  <2>2. CASE CallKmain
    <3>1. pc = "bss_done" /\ pc' = "kmain" /\ msg' = 0 /\ uart' = uart
      BY <2>2 DEF CallKmain
    <3> QED BY <3>1 DEF MessageInv
  <2>3. CASE PutChar
    <3>1. /\ pc = "kmain" /\ pc' = "kmain" /\ msg' = msg + 1
          /\ uart' = Append(uart, Message[msg + 1])
      BY <2>3 DEF PutChar
    <3>2. msg \in Nat /\ uart \in Seq({Message[i] : i \in 1..Len(Message)}) /\ Len(uart) = msg
          /\ \A i \in 1..msg : uart[i] = Message[i]
      BY <2>1, <3>1 DEF TypeOK, MessageInv
    <3>3. Len(uart') = msg + 1 /\ uart'[msg + 1] = Message[msg + 1]
          /\ \A i \in 1..msg : uart'[i] = uart[i]
      BY <3>1, <3>2
    <3>4. \A i \in 1..(msg + 1) : i \in 1..msg \/ i = msg + 1 BY <3>2
    <3> QED BY <3>1, <3>2, <3>3, <3>4 DEF MessageInv
  <2>4. CASE Spin
    <3>1. pc = "kmain" /\ pc' = "spin" /\ msg = Len(Message) /\ msg' = msg /\ uart' = uart
      BY <2>4 DEF Spin
    <3> QED BY <3>1 DEF MessageInv
  <2>5. CASE SetStack \/ LoadBounds \/ Done \/ Clear
    <3>1. pc \notin {"kmain", "spin"} /\ pc' \notin {"kmain", "spin"} /\ uart' = uart
      BY <2>5 DEF SetStack, LoadBounds, Done, Clear
    <3> QED BY <3>1 DEF MessageInv
  <2>6. CASE UNCHANGED vars BY <2>6 DEF MessageInv, vars
  <2> QED BY <2>2, <2>3, <2>4, <2>5, <2>6 DEF Next, Loop
<1>3. BootInv /\ MessageInv => (pc = "spin" => uart = Message)
  <2> SUFFICES ASSUME BootInv, MessageInv, pc = "spin" PROVE uart = Message OBVIOUS
  <2>1. /\ uart \in Seq({Message[i] : i \in 1..Len(Message)}) /\ Message \in Seq(STRING)
        /\ Len(uart) = Len(Message) /\ \A i \in 1..Len(Message) : uart[i] = Message[i]
    BY BoardAssumption DEF BootInv, TypeOK, MessageInv
  <2> DEFINE S == STRING \cup {Message[i] : i \in 1..Len(Message)}
  <2>2. uart \in [1..Len(Message) -> S] /\ Message \in [1..Len(Message) -> S] BY <2>1
  <2> QED BY <2>1, <2>2
<1> QED BY <1>1, <1>2, <1>3, BootInvariant, PTL DEF Spec
=============================================================================
