-------------------------------- MODULE Boot --------------------------------
(***************************************************************************)
(* Start-up on qemu_aarch64: the linker script lays out the memory         *)
(* (kernel-qemu-aarch64.ld), _start sets up a stack and zeroes .bss        *)
(* (boot.S), and kmain writes a message to the UART (main.cpp).            *)
(*                                                                         *)
(* .bss starts on a 16-byte boundary but ends anywhere, and the loop       *)
(* clears 8 bytes at a time: what it clears beyond __bss_end has to be     *)
(* padding and not the stack.                                              *)
(***************************************************************************)
EXTENDS Integers, Sequences

CONSTANTS Align,       \* alignment in the linker script (16)
          Stride,      \* bytes cleared by one str of xzr (8)
          StackSize,   \* 65536
          RamStart, RamEnd,   \* the region "ram" (0x40000000, 128M)
          Half,        \* where the sign bit of an address starts (2^63)
          MaxImage,    \* bound: bytes of code and data
          MaxBss,      \* bound: bytes of .bss and COMMON
          PowerOn,     \* possible sets of nonzero bytes before _start
          Message      \* msg without its terminating NUL

Ram == RamStart..(RamEnd - 1)

AlignUp(n) == Align * ((n + Align - 1) \div Align)

ASSUME BoardAssumption ==
  /\ Align \in Nat \ {0} /\ Stride \in Nat \ {0} /\ Align % Stride = 0
  /\ StackSize \in Nat \ {0} /\ StackSize % Align = 0
  /\ RamStart \in Nat /\ RamEnd \in Nat /\ Half \in Nat /\ RamEnd <= Half
  /\ MaxImage \in Nat /\ MaxBss \in Nat
  /\ Message \in Seq(STRING)
\* The image and its stack fit; the linker compares only .bss with the end of ram.
ASSUME FitAssumption ==
  RamStart + MaxImage + MaxBss + 2 * Align + StackSize <= RamEnd
ASSUME PowerOnAssumption == PowerOn \subseteq SUBSET Ram

VARIABLES
  imageEnd, bssSize,   \* the linked program: where .data ends, length of .bss
  pc, x0, x1, sp,      \* registers; pc names the next step
  dirty,               \* the addresses in ram whose byte is not zero
  msg,                 \* kmain's pointer, as the number of characters behind it
  uart                 \* what the UART received

vars == <<imageEnd, bssSize, pc, x0, x1, sp, dirty, msg, uart>>
linked == <<imageEnd, bssSize>>

-----------------------------------------------------------------------------
(* The symbols of the linker script.                                       *)

bss_start == AlignUp(imageEnd)

bss_end == bss_start + bssSize
stack_bottom == AlignUp(bss_end)
stack_top == stack_bottom + StackSize

-----------------------------------------------------------------------------
(* boot.S.                                                                 *)

\* What cmp takes an address for.
Signed(a) == IF a < Half THEN a ELSE a - 2 * Half

SetStack ==
  /\ pc = "_start"
  /\ x0' = stack_top /\ sp' = stack_top
  /\ pc' = "zero_bss"
  /\ UNCHANGED <<linked, x1, dirty, msg, uart>>

LoadBounds ==
  /\ pc = "zero_bss"
  /\ x0' = bss_start /\ x1' = bss_end
  /\ pc' = "bss_clear"
  /\ UNCHANGED <<linked, sp, dirty, msg, uart>>

\* Bug: the loop stops before a store that would pass the end.
StopsShort == Signed(x0) + Stride > Signed(x1)

\* Bug: b.gt in place of b.ge.
OnePastEnd == Signed(x0) > Signed(x1)

\* Bug: b.eq in place of b.ge.
ExactEnd == x0 = x1
AtEnd == Signed(x0) >= Signed(x1)

Done ==
  /\ pc = "bss_clear" /\ AtEnd
  /\ pc' = "bss_done"
  /\ UNCHANGED <<linked, x0, x1, sp, dirty, msg, uart>>

\* Bug: str without the post-increment.
ClearInPlace ==
  /\ pc = "bss_clear" /\ ~AtEnd
  /\ dirty' = dirty \ (x0..(x0 + Stride - 1))
  /\ UNCHANGED <<linked, pc, x0, x1, sp, msg, uart>>

\* str xzr, [x0], #8 and back to bss_clear.
Clear ==
  /\ pc = "bss_clear" /\ ~AtEnd
  /\ dirty' = dirty \ (x0..(x0 + Stride - 1))
  /\ x0' = (x0 + Stride) % (2 * Half)
  /\ UNCHANGED <<linked, pc, x1, sp, msg, uart>>

CallKmain ==
  /\ pc = "bss_done"
  /\ msg' = 0
  /\ pc' = "kmain"
  /\ UNCHANGED <<linked, x0, x1, sp, dirty, uart>>

-----------------------------------------------------------------------------
(* main.cpp.  The UART takes every character; kmain asks for no flags.     *)

PutChar ==
  /\ pc = "kmain" /\ msg < Len(Message)
  /\ uart' = Append(uart, Message[msg + 1])
  /\ msg' = msg + 1
  /\ UNCHANGED <<linked, pc, x0, x1, sp, dirty>>

\* *msg is the terminating NUL: kmain goes into its endless loop.
Spin ==
  /\ pc = "kmain" /\ msg = Len(Message)
  /\ pc' = "spin"
  /\ UNCHANGED <<linked, x0, x1, sp, dirty, msg, uart>>

\* An iteration of the endless loop.
Loop == pc = "spin" /\ UNCHANGED vars

-----------------------------------------------------------------------------
Init ==
  /\ imageEnd \in RamStart..(RamStart + MaxImage) /\ bssSize \in 0..MaxBss
  /\ pc = "_start" /\ x0 = 0 /\ x1 = 0 /\ sp = 0
  /\ dirty \in PowerOn
  /\ msg = 0 /\ uart = << >>

Next == SetStack \/ LoadBounds \/ Done \/ Clear \/ CallKmain \/ PutChar \/ Spin \/ Loop

\* There is one processor, and it goes on from instruction to instruction.
Spec == Init /\ [][Next]_vars /\ WF_vars(Next)

-----------------------------------------------------------------------------
(* What must hold.                                                         *)

\* Every variable has its type.
TypeOK ==
  /\ imageEnd \in RamStart..(RamStart + MaxImage) /\ bssSize \in 0..MaxBss
  /\ pc \in {"_start", "zero_bss", "bss_clear", "bss_done", "kmain", "spin"}
  /\ x0 \in Ram \cup {0, RamEnd} /\ x1 \in Ram \cup {0} /\ sp \in Ram \cup {0, RamEnd}
  /\ dirty \subseteq Ram
  /\ msg \in 0..Len(Message)
  /\ uart \in Seq({Message[i] : i \in 1..Len(Message)})

\* Where C++ code runs, every byte of .bss is zero, and the stack pointer has the
\* 16-byte alignment AArch64 asks for, with StackSize bytes of ram below it that belong
\* to no section.
KmainReady ==
  pc \in {"kmain", "spin"} =>
    /\ dirty \cap (bss_start..(bss_end - 1)) = {}
    /\ sp % Align = 0 /\ sp <= RamEnd /\ bss_end <= sp - StackSize

\* Clearing .bss in strides of 8 bytes touches nothing in front of .bss and nothing of the
\* stack: whatever else it clears is the padding behind __bss_end.
OnlyBssErased == [][dirty \ dirty' \subseteq bss_start..(stack_bottom - 1)]_vars

\* Whatever the memory and the layout, the loop ends and the whole message is sent, once.
Booted == <>[](pc = "spin" /\ uart = Message)
=============================================================================
