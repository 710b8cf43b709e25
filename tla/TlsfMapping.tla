---------------------------- MODULE TlsfMapping ----------------------------
(***************************************************************************)
(* The size classes of the two-level segregated fit allocator, cleo::tlsf  *)
(* (kernel/memory/tlsf/tlsf.hpp): mapping_insert gives the class that a    *)
(* free block of some size is filed under, mapping_search the first class  *)
(* all of whose blocks can serve a request.  Everything that would use     *)
(* these classes (insert, search_free, remove, coalesce, allocate) is an   *)
(* empty or undefined function in the code.                                *)
(*                                                                         *)
(* Integers have the widths of the code's types.  A shift by too many bits *)
(* and __builtin_clzg(0) are undefined, so an operation is modelled by the *)
(* set of its outcomes: one where it is defined, any value of the result   *)
(* type where it is not.                                                   *)
(***************************************************************************)
EXTENDS Integers

CONSTANTS SizeBits,      \* width of cleo::size_t (64)
          UnsignedBits,  \* width of unsigned (32)
          sli,           \* log2 of the number of second-level classes (4)
          mbs,           \* smallest block size (16)
          Pow2           \* Pow2[n] is 2^n

sl_count == Pow2[sli]
SizeT     == 0..(Pow2[SizeBits] - 1)
UnsignedT == 0..(Pow2[UnsignedBits] - 1)

ASSUME WidthAssumption ==
  /\ SizeBits \in Nat /\ UnsignedBits \in Nat /\ sli \in Nat /\ mbs \in Nat
  /\ 0 < sli /\ sli < UnsignedBits /\ UnsignedBits + sli < SizeBits
  /\ SizeBits < Pow2[UnsignedBits]
  /\ sl_count <= mbs /\ mbs < Pow2[SizeBits]
ASSUME PowerAssumption ==
  /\ Pow2 \in [0..SizeBits -> Nat \ {0}]
  /\ Pow2[0] = 1
  /\ \A n \in 0..(SizeBits - 1) : Pow2[n + 1] = 2 * Pow2[n]
  /\ \A m, n \in 0..SizeBits : /\ m <= n => Pow2[m] <= Pow2[n]
                               /\ m + n <= SizeBits => Pow2[m + n] = Pow2[m] * Pow2[n]

-----------------------------------------------------------------------------
(* Arithmetic of the types.                                                *)

ToSize(n)     == n % Pow2[SizeBits]
ToUnsigned(n) == n % Pow2[UnsignedBits]

ShiftRight(x, n) == IF n < SizeBits THEN {x \div Pow2[n]} ELSE SizeT
OneShifted(n)    == IF n < UnsignedBits THEN {Pow2[n]} ELSE UnsignedT

\* fls: the place of the highest bit set, by __builtin_clzg.
Fls(x) == IF x = 0 THEN SizeT
          ELSE {f \in 0..(SizeBits - 1) : Pow2[f] <= x /\ x < Pow2[f + 1]}

-----------------------------------------------------------------------------
(* The classes.                                                            *)

Mapping == [fl : UnsignedT, sl : UnsignedT]

\* Bug: the second level takes the low bits of the size.
InsertLowBits(size) ==
  {[fl |-> ToUnsigned(f), sl |-> size % sl_count] : f \in Fls(size)}

mapping_insert(size) ==
  UNION { {[fl |-> ToUnsigned(f), sl |-> ToUnsigned(q - sl_count)] :
             q \in ShiftRight(size, ToSize(ToUnsigned(f) - sli))} : f \in Fls(size) }

\* What mapping_search adds to the size before it takes the class.
Steps(size) == UNION {OneShifted(ToSize(f - sli)) : f \in Fls(size)}

\* Bug: the request is filed like a block.
SearchUnrounded(size) == mapping_insert(size)

\* Bug: rounding up without the - 1.
SearchTooFar(size) == UNION {mapping_insert(ToSize(size + p)) : p \in Steps(size)}

mapping_search(size) == UNION {mapping_insert(ToSize(size + p - 1)) : p \in Steps(size)}

-----------------------------------------------------------------------------
(* Calls.                                                                  *)

VARIABLES fn,         \* the function being called, or "none"
          arg,        \* its argument
          mapping,    \* what mapping_insert or mapping_search returned
          looping,    \* is floor_log2_const in its loop?
          x, result   \* its variables

vars == <<fn, arg, mapping, looping, x, result>>

CallInsert(size) ==
  /\ fn = "none"
  /\ fn' = "mapping_insert" /\ arg' = size /\ mapping' \in mapping_insert(size)
  /\ UNCHANGED <<looping, x, result>>

CallSearch(size) ==
  /\ fn = "none"
  /\ fn' = "mapping_search" /\ arg' = size /\ mapping' \in mapping_search(size)
  /\ UNCHANGED <<looping, x, result>>

CallFloorLog2(size) ==
  /\ fn = "none"
  /\ fn' = "floor_log2_const" /\ arg' = size
  /\ looping' = TRUE /\ x' = size /\ result' = 0
  /\ UNCHANGED mapping

\* Bug: the loop goes on while x >= 0, which an unsigned x always is.
HalveForever ==
  /\ looping /\ x >= 0
  /\ x' = x \div 2 /\ result' = result + 1
  /\ UNCHANGED <<fn, arg, mapping, looping>>

\* Bug: the loop goes on while x > 0.
HalveToZero ==
  /\ looping /\ x > 0
  /\ x' = x \div 2 /\ result' = result + 1
  /\ UNCHANGED <<fn, arg, mapping, looping>>

Halve ==
  /\ looping /\ x > 1
  /\ x' = x \div 2 /\ result' = result + 1
  /\ UNCHANGED <<fn, arg, mapping, looping>>

LeaveLoop ==
  /\ looping /\ x <= 1
  /\ looping' = FALSE
  /\ UNCHANGED <<fn, arg, mapping, x, result>>

\* The call ends, and its variables with it.
Return ==
  /\ fn # "none" /\ ~looping
  /\ fn' = "none" /\ arg' = 0 /\ mapping' = [fl |-> 0, sl |-> 0]
  /\ x' = 0 /\ result' = 0 /\ UNCHANGED looping

\* has_single_bit, x & (x - 1) by the sets of bits.
Bits(n) == {b \in 0..(SizeBits - 1) : (n \div Pow2[b]) % 2 = 1}
has_single_bit(n) == n # 0 /\ Bits(n) \cap Bits(n - 1) = {}

\* The static_assert on mbs_.
ASSUME BlockAssumption == has_single_bit(mbs)

Init == /\ fn = "none" /\ arg = 0 /\ mapping = [fl |-> 0, sl |-> 0]
        /\ looping = FALSE /\ x = 0 /\ result = 0

Next == \/ \E size \in SizeT : CallInsert(size) \/ CallSearch(size) \/ CallFloorLog2(size)
        \/ Halve \/ LeaveLoop \/ Return

Spec == Init /\ [][Next]_vars

-----------------------------------------------------------------------------
(* What must hold.                                                         *)

\* Requests for which no operation of mapping_search is undefined.
Supported(size) == sl_count <= size /\ size < Pow2[UnsignedBits + sli]

\* The order in which free lists are searched: by first level, then by second level.
Below(m, n) == m.fl < n.fl \/ (m.fl = n.fl /\ m.sl < n.sl)

\* The sizes a block can have.
Blocks == mbs..(Pow2[SizeBits] - 1)

\* Every variable has its type.
TypeOK ==
  /\ fn \in {"none", "mapping_insert", "mapping_search", "floor_log2_const"}
  /\ arg \in SizeT /\ mapping \in Mapping
  /\ looping \in BOOLEAN /\ x \in SizeT /\ result \in 0..SizeBits

\* Good fit: no block that is filed in the class mapping_search returns, or in a later
\* one, is smaller than the request, so the allocator may take any of them unseen.
GoodFit ==
  fn = "mapping_search" /\ Supported(arg)
    => \A b \in Blocks : \A c \in mapping_insert(b) : ~Below(c, mapping) => arg <= b

\* A supported request has one answer, since the shift of 1u and the rounding up stay
\* within their types, and rounding up skips no class needlessly: a block that is large
\* enough is passed over only if it shares its class with the request and with a size too
\* small for it.
SkipsOnlyOwnClass ==
  fn = "mapping_search" /\ Supported(arg)
    => /\ mapping_search(arg) = {mapping}
       /\ \A b \in Blocks : \A c \in mapping_insert(b) :
            arg <= b /\ Below(c, mapping)
              => mapping_insert(arg) = {c} /\ mapping_insert(arg - 1) = {c}

\* The second level always indexes the sl_count lists, and a larger block is never
\* filed below a smaller one.
ClassesOrdered ==
  fn = "mapping_insert" /\ arg >= mbs
    => /\ mapping.sl < sl_count
       /\ \A b \in mbs..arg : \A c \in mapping_insert(b) : ~Below(mapping, c)

\* floor_log2_const, by its loop, finds the same place as fls, by the builtin, and hits
\* a power of two exactly when has_single_bit says so.
LogsAgree ==
  fn = "floor_log2_const" /\ ~looping /\ arg # 0
    => Fls(arg) = {result} /\ (has_single_bit(arg) <=> Pow2[result] = arg)
=============================================================================
