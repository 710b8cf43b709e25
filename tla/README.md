# A verification of the cleo kernel in TLA+

cleo is a freestanding AArch64 kernel at an early stage: a boot path for QEMU, a
lock-free ring buffer, the first functions of a TLSF allocator, and a freestanding
replacement of the C++ standard library (`lib/`) that the rest is written in. This
directory holds TLA+ modules that model those parts, TLC configurations that check the
models on small instances, and proofs, checked by TLAPS, of what matters most for every
value of the constants. Paths below are relative to the root of the repository; line
numbers are those of the commit the models were written from. `PROJECT.json` ties every
definition to its lines.

Contents: 1 the system, 2 the models and the code, 3 the runs, 4 the proofs,
5 divergence found, 6 what is not covered, 7 the plan.

## 1. The system

| component | state | operations | interacts with |
|---|---|---|---|
| ring buffer, `kernel/ring_buf.hpp` | `rb_` (N slots), atomic counters `head_`, `tail_` | `push(const T&)`, `push(T&&)`, `pop`, `front`, `back`, `full`, `empty`, `size` | one producer thread, one consumer thread, callers that hold references; results in `kernel/error.hpp` |
| TLSF size classes, `kernel/memory/tlsf/tlsf.hpp` | none (pure functions) | `fls`, `mapping_insert`, `mapping_search`, `floor_log2_const`, `has_single_bit` | meant for `insert`, `search_free`, ..., which are empty |
| memory interface, `kernel/memory/memory.hpp` | none | declarations without bodies | - |
| start-up, `arch/qemu_aarch64/` | registers, ram, UART | `_start`, `zero_bss`, `bss_clear`, `kmain` | symbols of the linker script; the UART |
| type traits, `lib/type_traits.hpp` | none (compile time) | transformations, categories, relations, `common_type`, INVOKE | used by every other header |
| concepts and customization points, `lib/concepts.hpp`, `utility.hpp`, `functional.hpp` | none; `ranges::swap` changes its arguments | `ranges::swap`, `invoke`, `less`, ... | include each other |
| iterators and array, `lib/iterator.hpp`, `array.hpp` | elements | `reverse_iterator`, `iter_swap`, `fill`, `swap` | `memory.hpp` and `functional.hpp` through `concepts.hpp` |
| object lifetimes, `lib/memory.hpp` | storage | `construct_at`, `destroy_at`, `allocator_traits` | - |
| expected, `lib/expected.hpp` | a union and a flag | construction, destruction, access; cannot be instantiated (section 6) | - |
| scheduler, channels, replay | - | goals in `README.md`, no code | - |

Nothing is persisted and nothing is sent over a network, so there are no crashes to
recover from and no messages to lose. What is hard here:

* **Concurrency under a weak memory model.** The ring buffer is the one object two threads
  share. Each method tests the buffer with two atomic loads and then acts on the result while
  the other thread goes on (`ring_buf.hpp:24-31`, `48-53`, `60-64`, `69-73`); a load may return
  a stale counter; the slots themselves are not atomic and are only protected by the release
  stores and acquire loads around them; references from `front()` and `back()` live on while the
  producer keeps pushing; the counters wrap. Correct means: never more than N values, never a
  pop of what was not pushed, first in first out, no data race on a slot, a held reference keeps
  its value, no method waits for the other thread, and what one thread does reaches the other in
  the end.
* **Arithmetic at the edges of its types.** The TLSF mappings shift 32- and 64-bit values by
  computed amounts, some undefined (`tlsf.hpp:44-51`). Correct means: a class that
  `mapping_search` leads to holds only blocks that fit, no fitting class is passed over, and
  every request in the supported range is free of undefined behaviour.
* **Before the first C++ instruction.** The .bss loop clears 8 bytes at a time up to an end that
  need not be a multiple of 8, and compares addresses as signed numbers (`boot.S:13-16`).
  Correct means: it ends, it clears all of .bss, and nothing of the data or the stack.
* **The edge cases of the type system.** References to void, pointers to references, arrays of
  unknown bound, qualified functions: metaprograms meet them in orders nobody listed. Correct
  means: no ill-formed type is ever formed, the categories are a partition, and the
  transformations obey the laws the rest of the library relies on.
* **Exceptions halfway through an exchange.** Swaps and fills change several objects in turn,
  and an operation of the element type may throw at any of them; operands may be the same object
  or the same array (`utility.hpp:58-62`, `concepts.hpp:131-157`, `array.hpp:134-146`). Correct
  means: whatever returns did all of it, whatever throws stopped between whole elements, no
  value is ever duplicated, and a function that is `noexcept` lets nothing out.
* **Walking backwards.** A reverse iterator is one off from the element it gives and turns every
  sign and comparison round (`iterator.hpp:625-748`); its `iter_swap` works on two copies that
  it decrements first, and those copies and decrements may throw. Correct means: the element,
  order and distance that a walk from the last element to the first has, and nothing exchanged
  when a decrement fails.
* **Calls through wrappers.** Which overload of `invoke_impl` applies depends on the class of
  the object, its qualifiers and what its `operator*` gives; whether a call is `noexcept` is
  worked out apart from the call itself (`type_traits.hpp:1633-1673`, `1783-1800`) and handed
  through any number of `reference_wrapper`s. Correct means: the overload the standard
  prescribes, no exception through a `noexcept` function, and no `noexcept` withheld without
  need.
* **Types of two operands.** `common_type` and `common_reference` choose among conditional
  expressions, copied qualifiers and conversions (`type_traits.hpp:1366-1613`). Correct means:
  an answer that does not depend on the order of the types, and a common reference that refers
  to the operands and gives no access to them that they did not.
* **Order of declaration.** The headers include each other in a cycle (`concepts.hpp:3`,
  `functional.hpp:3`). Correct means: every name is declared before it is used, in whatever
  order a program includes the headers.

`PROJECT.json` lists these hazards one by one, with their lines and the properties that
watch them.

## 2. The models and the code

### RingBuffer: the ring buffer under release/acquire

`RingBuffer.tla` models every method of `RingBuffer<T, N>`. One step is one access to
something shared:

| code | action |
|---|---|
| caller enters `push` / `pop`, `front`, `back` / `size`, `full`, `empty` | `CallPush`, `RetryPush` / `CallConsumer` / `CallSize` |
| `tail_.load(acquire)` in `size()`, 86 | `LoadTail` |
| `head_.load(acquire)` in `size()`, 87, with the comparison and the early return of the calling method | `Fail`, `Pass`, `SizeReturns` |
| `tail_.load(relaxed)` and the assignment of the slot, 28-30, 40-42 | `Write` |
| `tail_.store(release)`, 31, 43 | `Publish` |
| `head_.load(relaxed)`, `head_.store(release)`, 52-53 | `Pop` |
| `head_.load(relaxed)`, 63-64 | `Front` |
| the second `tail_.load(acquire)`, 72-73 | `Back` |
| the consumer reads or writes through the reference it was given | `UseRef` |

The thread that owns a counter is the only one to store it, so a relaxed load of it
returns its own last store and needs no step. *Memory:* each counter has a single writer,
so its i-th store writes i modulo the counter's width, and the history of a counter is a
number. `head` and `tail` count the stores; `seenHead[t]`, `seenTail[t]` are the newest
stores thread t may not read behind (coherence and happens-before); a load may return any
store between that and the newest one. A load with acquire of a store with release also
takes over what the storing thread had seen (`headMsg`, `tailMsg`) and marks the store as
synchronized with (`syncHead`, `syncTail`). The memory orders are definitions
(`TailStoreOrder`, ...), so that a weaker order is a one-word change. This is the
release/acquire fragment of the C++ memory model with one writer per location, where the
order in which stores are made is the modification order.
A slot is one step to assign or to use; that two threads never do so without a
happens-before between them, so that a step is a fair picture of a copy of any size, is the
property `NoDataRace`.

*Values:* `Values` are payloads, `Fresh` is a slot never assigned, `Moved` what
`push(T&&)` leaves in the caller's object. `arg` is that object, `want` what the caller
meant to send: a refused push is retried with `arg`. `queued`, `want`, `lastWrite` and
`lastUse` are ghosts, read by no guard of the code's steps.

*Premises:* `push` is called by the producer only, `pop`, `front` and `back` by the
consumer only (the relaxed loads at 28, 40, 52 and 63 are right for nothing else); a
reference is given up when its element is popped.

`BoundedQueue.tla` is what the class promises: a queue of at most N values with `Enqueue`
and `Dequeue`. `RingBuffer` implements it under `Contents`, the slots from `head` to
`tail` read as a sequence: `Publish` is `Enqueue`, `Pop` is `Dequeue`, and every other step
is a stutter.

`RingBufferInv.tla` holds the inductive invariant `IInv` (section 4). `RingBufferLive.tla` adds
which threads are sure to be scheduled, chosen when the system starts, and states what happens
in the end; its fairness is explained in section 3.

### TlsfMapping: size classes

`fls`, `mapping_insert`, `mapping_search` and `has_single_bit` are operators;
`floor_log2_const` is a loop with a step per round. Because shifts by too many bits and
`__builtin_clzg(0)` are undefined, an operator returns the *set* of outcomes, a singleton
where the code is defined. Conversions to `size_t` and `unsigned` are reductions modulo
their ranges. Powers of two are a constant function with its recurrence as an assumption,
which keeps the module free of recursion and open to proof.

### Boot: from reset to kmain

The linker script's symbols are definitions over two variables, the end of the image and
the length of .bss (`kernel-qemu-aarch64.ld:9-34`). One action per instruction that
changes state: `SetStack`, `LoadBounds`, `Done`/`Clear` (the comparison, the store with
post-increment and the branch), `CallKmain`, and in `main.cpp` `PutChar`, `Spin`, `Loop`.
Memory is the set of addresses whose byte is not zero, nondeterministic at power-on.
`cmp`/`b.ge` compares signed values. The UART takes every character, as QEMU's does.
`while (1) {}` is kept by the toolchain the flake pins, so `kmain` does not return.

### Headers: what is declared when

Each header is the sequence of its includes and of the groups of names it declares and
uses, in the order of the file and as far as several headers are concerned. The actions
are the preprocessor's and the compiler's: `ReadInclude` (with `#pragma once`),
`ReadDeclaration`, `ReadUse`, `Leave`, and `IncludeNext` for a translation unit that
includes another header. A use of a name not yet declared is recorded, and reading goes on.

### Exchange: swaps, fills and what they leave behind

`Exchange.tla` models `cleo::swap`, `ranges::swap` on objects and on arrays, `iter_swap` with
both of its general overloads, `array::swap` and `array::fill`, for every element type: with
or without a swap of its own, and with any of its operations throwing. One step is one
operation of the element type:

| code | action |
|---|---|
| a caller, with two objects or two arrays, which may be one | `CallOnObjects`, `CallOnArrays` |
| `T tmp = move(a)`; `a = move(b)`; `b = move(tmp)` (`utility.hpp:59-61`, `concepts.hpp:142-144`, `iterator.hpp:534-536`) | `Construct`; `Assign`; `Restore` |
| the type's own `swap` (`concepts.hpp:138`) | `OwnSwap` |
| `buffer[i] = value` (`array.hpp:136`) | `Copy` |
| the operation throws | `Throw` |
| the loops (`concepts.hpp:153`, `array.hpp:135`, `143`) | `EndRound`, part of the last operation of a round |

Which operation a function begins with is `FirstStep`: only the customization points look for
the type's own swap. `Noexcept` is what the specifications promise, with the traits
(`nothrow_moves`, `nothrow_swappable`) they are made of. The element type is not code of
this repository: an operation of it that throws leaves the objects it worked on valid but
unspecified, so each of them may have lost its value or kept it. No function looks at a
value, so a call finds objects that are all different, and the value of an object is named by
the object that has it when the call begins.

### ReverseIterator and Cursor: walking an array backwards

`ReverseIterator.tla` extends `Exchange` by a caller who has two `reverse_iterator`s over the
two arrays (`array.hpp:96-118` gives them). The base iterators of `reverse_iterator` are
anything that can be copied and decremented; either may throw (`throws`). A friend function
(`iter_move`, or `iter_swap` with one of the general overloads beneath it) is a `frame` with
steps of its own, and ends in the steps of `Exchange`:

| code | action |
|---|---|
| `rbegin`, `rend`, `make_reverse_iterator` | `Take` |
| `++`, `--`, `+`, `-`, `+=`, `-=` (prefix) | `Walk` |
| `*it++`, `*it--` | `WalkPostfix` |
| `*`, `->`, `[]` | `Look` |
| `==`, `!=`, `<`, `<=`, `>`, `>=`, the difference | `Compare` |
| `ranges::iter_move` or `ranges::iter_swap` finds the friend | `Call` |
| the copies of the bases; `--it_x` and `--it_y` in any order; one of these throws | `CopyBases`; `Decrement`; `BaseThrows` |
| `ranges::iter_move(it)`; `ranges::iter_swap(it_x, it_y)` on the copies | `MoveThrough`; `ExchangeThrough` |
| the friend returns or is left by the exception | `LeaveFriend` |

`Cursor.tla` is what this promises: two places, each the number of elements passed from the end of
an array, and what the caller is told at each. `ReverseIterator` implements it (`WalksBackwards`):
`places` counts from the other end, `result` is what is seen, and the steps of a friend
function before its last are stutters. An iterator may be anywhere from `rbegin` to `rend`; it is
looked through only where there is an element, which is the caller's obligation.

### Invoke: INVOKE, invoke and reference_wrapper

`Callables` are functions, function objects with a qualified call operator, and pointers to member
functions and objects of a class or a union, each in up to `MaxWraps` `reference_wrapper`s.
`Objects` are first arguments: an object of the class, of a derived class, of a class with an
`operator*`, of a union or of another class, directly or behind pointers, smart pointers and
`reference_wrapper`s, with constness and value category. `invoke_impl` is the set of overloads that
take a call. A metaprogram asks (`Ask`), and calls what `is_invocable_r` allows:

| code | action |
|---|---|
| `is_invocable`, `is_nothrow_invocable_r`, ... (`type_traits.hpp:1733-1800`) | `Ask`; `Forget` |
| `invoke`, `invoke_r<R>` (`functional.hpp:12-24`) | `Begin(R)` |
| `invoke_impl` calls `reference_wrapper::operator()`, that `invoke` (`functional.hpp:60-64`) | `Unwrap` |
| the overload of `invoke_impl` that is chosen (`type_traits.hpp:1633-1673`) | `Select` |
| `*o` of the object; the callable; the conversion to R | `Dereference`; `Run`; `Convert` |
| one of these throws | `Throw` |

`frames` is the stack of functions entered, each with its `noexcept`; `risks` is a ghost that
remembers what was done that might have thrown.

### TypeTraits and CommonTypes: types as layers

A type is the sequence of its layers, innermost first. In `TypeTraits` the operators up to
`RRef` are the rules of the language that specializations and substitution failures appeal to;
those after them are the traits, each with the source's name. The state is one type; a step
declares a type from it or applies a transformation of the library to it.

`CommonTypes` adds `common_type`, `common_reference` and `is_convertible`, and the step that
replaces the type by what it has in common with another one. They rest on the conditional
operator, which is not code of this repository: an expression is written as the type `declval`
has for it, and `Conditional` follows [expr.cond] as GCC reads it, for void, two arithmetic
types, and a class and a class derived from it, in all qualifications and references. Where the
standard's wordings differ, it takes what GCC 12 does: of an xvalue of class `C` and an lvalue of
`const C`, `const C` comes out, because a reference to const is bound to lvalues only. (The
properties hold with the other wording as well.) The operators agree with what GCC 12 gives for
the same definitions on all 2704 pairs of these types.
`Combine` leaves out the pairs of void with another type (`IllFormed`, section 6).

## 3. The runs

| run | bounds | states | shows |
|---|---|---|---|
| `ring_safety` | N=2, counters of 4 values, 5 pushes of 2 values | 192 384 | type, capacity, the validity of a passed test, integrity of queued values and references, absence of races, implementation of `BoundedQueue` |
| `ring_observer` | N=2, counters of 4 values, 3 pushes, one thread that only calls `size()` | 711 432 | `IInv`, the inductive invariant that implies all safety properties; `size()` exceeds N only for a third thread that `head_` overtook |
| `ring_liveness` | N=2, 3 pushes, one thread sure to be scheduled, or both | 35 694 | each method returns although the other thread stops anywhere; when both go on, pushed values are popped and a refused push is accepted |
| `tlsf_mapping` | `size_t` of 8 bits, `unsigned` of 4, 8 classes | 5 334 | good fit, no class skipped, order of classes, no undefined behaviour in range, agreement of the two logarithms, for **every** argument |
| `boot` | alignment 4, stride 2, images of 0-5 and .bss of 0-9 bytes | 2 070 | .bss zeroed, stack untouched and aligned, nothing else erased, message sent |
| `type_traits` | types of three layers, sizes of aarch64; with a second and a third type for `common_*` | 15 184 | the laws of transformations, categories and common types |
| `invoke` | all callables in up to 2 wrappers, all first arguments, up to 2 arguments | 84 790 | the overloads are those of INVOKE, wrapped and union objects apart; `noexcept` is exact |
| `invoke_reference` | the same without wrappers around the callable | - | the divergence of section 5 |
| `exchange` | two arrays of three elements, all 24 element types, 7 functions, all operands; two reverse iterators with any base operation throwing | 200 376 | completeness, containment of failures, no duplicates; no exception leaves a `noexcept` function, `array::swap` apart; reverse iterators implement `Cursor` |
| `array_swap` | two elements, `array::swap` only | - | the divergence of section 5 |
| `header_order` | translation units of up to three includes | 6 146 | a name that a header declares is missed only inside the cycle, and only one of two names is |
| `header_test` | `tests/type_traits.cpp` | - | the divergence of section 5 |

*Why the bounds are enough.* Ring buffer: with N=2 and counters of 4 values, 5 pushes wrap
`tail_` past its range and fill and reuse each slot at least twice; the buffer is both full and
empty with stale views of each, and a reference survives a slot's neighbours being reused. Two
values distinguish an order from its reverse; they are symmetric in the run `ring_safety`, and
no symmetry is used with liveness. An N that does not divide the range of the counters is in no
run; the theorems of section 4 cover it up to the wrap. In `ring_liveness`, 3 pushes fill the
buffer, refuse a push, and use a slot again. TLSF: every argument of the scaled types is a
state, and the relations between the widths (`WidthAssumption`) are those of the real ones,
undefined shifts included. Boot: the stride is a proper divisor of the alignment, and all
residues of both ends occur. Type traits: three layers contain every pair of adjacent layers,
with one more around it, and all rules and traits look at one or two; the third type of
`common_reference` is the first that a fold takes. Invoke: a second wrapper is one whose inside
is a wrapper again; paths of two links contain every link behind a pointer, and the code looks
at the outermost link only. Exchange: three elements are a first, a middle and a last one, and
two objects are all that an operation touches; the two operands are in one array, in two, or the
same. Headers: three includes give all orders of the two headers of the cycle after any other
header; the other seven are reached from these.

*Deadlock* is checked everywhere but in the two header runs, where a translation unit ends.

*Mutants.* Every property of a passing run has a mutant in `PROJECT.json`: a definition
that models code, replaced by the form a plausible bug would give it (the definitions
commented "Bug:"), which must make TLC report the property violated. A relaxed store
breaks `NoDataRace`; `>` for `==` in `full()` breaks `CapacityRespected`; a move out of the
caller's object before the test breaks `QueuedIntact`; a `head_` loaded once and cached breaks
`PushAccepted`; and so on.

*Fairness.* `RingBufferLive` chooses a nonempty set of `scheduled` threads when it starts, and
assumes weak fairness of their steps within a method, which is what "this thread is scheduled"
means; nothing is assumed of the other. Only where both are scheduled does `LiveSpec` also
assume strong fairness of four things: the callers come back (a producer that holds a refused
value retries, a consumer calls `pop`), and a store becomes visible to atomic loads in finite
time ([atomics.order], [intro.progress] of the C++ standard), so that of endlessly many loads of
`head_` by the producer and of `tail_` by the consumer some return the newest store. Weak
fairness would not do for these: the load that returns the newest store is not continuously
enabled, because each call does other steps in between. `Boot` has weak fairness of its only
processor.

## 4. The proofs

`DivisionLemmas.tla` states, once, what integer division gives (uniqueness, injectivity of
`%` on an interval shorter than the divisor); the other proofs cite it.

**`RingBufferProofs.tla`**, for every N, counter width, number of pushes, set of values and
set of observers. Assumed: `SizeAssumption` (a counter distinguishes N+1 sizes, and either
N divides its range or it does not wrap within `MaxPush`), `ThreadAssumption` (producer,
consumer and observers are different threads), `ValueAssumption` (payloads are neither
`Fresh`, `Moved` nor `None`).

| theorem | property |
|---|---|
| `Invariance`, `TypeCorrect` | `IInv`, `TypeOK` |
| `Capacity` | `CapacityRespected` |
| `ChecksStayValid` | `CheckStaysValid` |
| `QueueIntact`, `ReferencesStable` | `QueuedIntact`, `RefStable` |
| `RaceFree` | `NoDataRace` |
| `SizesBounded` | `SizeBounded` (an action property) |
| `ImplementsQueue` | `QueueSpec`: the refinement of `BoundedQueue` |
| `MethodsAdvance` | the safe half of `RunnerReturns`: no method waits |

*The argument.* `CapacityRespected` is not inductive: that `Publish` keeps it depends on a
test some steps earlier, made on a stale counter. `IInv` therefore says what each thread
*knows*. `Views`: the producer knows `tail` exactly and a `head` no more than N behind it;
the consumer the other way round; so stale knowledge errs on the safe side. `Registers`
carries this across the two loads of `size()`, so the unsigned difference is the true one
for the thread's view (lemma `SizeExact`); `Passed` carries the outcome of the test to the
store. `Messages` is what makes a third thread's `size()` bounded: a store to `tail_` takes
along a view of `head_` recent enough for what it publishes. `Placed`, `Used` and
`Referred` tie slots to counters: two items less than N apart are in different slots
(`PlaceInjective`), whence integrity and stability, and with `Views` the absence of races:
the last use of a slot precedes a `head` the producer has synchronized with. There is one
lemma per action (`WriteKeeps`, `PublishKeeps`, `PopKeeps`, ...), each split by the
conjuncts the action can disturb. The refinement follows from `Contents = queued` under
`IInv`. `MethodsAdvance` is the half of `RunnerReturns` that needs no fairness: a method in
progress has at most four steps left (`Remaining`), each of its steps leaves fewer, and no step
of another thread touches its program counter, so there is nothing a thread could wait for.

**`TlsfProofs.tla`**, for integer types of every width. Assumed: `WidthAssumption`
(`unsigned` with the class index is narrower than `size_t`, `mbs` is at least
`sl_count`), `PowerAssumption` (the recurrence of powers of two).

| theorem | property |
|---|---|
| `TlsfTypes` | `TypeOK` |
| `SearchIsGoodFit` | `GoodFit`: what `mapping_search` returns holds no block smaller than the request |
| `SearchSkipsNothing` | `SkipsOnlyOwnClass`: a block that fits is passed over only if it is of the request's own class |
| `BlocksOrdered` | `ClassesOrdered`: larger blocks are in later classes |
| `LogarithmsAgree` | `LogsAgree`: `fls`, `floor_log2_const` and `has_single_bit` agree |
| `FloorLog2Correct` | the loop ends with the number of the highest bit |

The core of `SearchIsGoodFit` is `SearchFits`: a size that is at least the request rounded up
has a class not below the request's, by comparing first levels, and within one the quotients
(`InsertMonotone`, which is also `BlocksOrdered`). `SearchSkipsNothing` is the other direction:
rounding up by one class less one (`RoundingUp`) stays in the request's class or reaches the
very next one (`NextClass`), also where that is the first of the next level, so that a class
before it can only be the request's own (`PassedOver`). The loop's invariant, in `CallInv`, is
`2^result * x <= arg < 2^result * (x + 1)`; `SingleBit` says that `x & (x - 1)` is zero exactly
if x is the power of two of its highest bit.

**`BootProofs.tla`**, for every board and every layout. Assumed: `BoardAssumption` (the
stride divides the alignment, the alignment divides the stack, addresses in ram are below
the sign bit), `FitAssumption` (image and stack fit into ram), `PowerOnAssumption`.
`BootTypes`, `KmainStartsClean`, `ErasesOnlyBss`. The invariant `BootInv` says that `x0` is
a multiple of the stride between `bss_start` and `stack_bottom`, and that everything before
it is zero: because `stack_bottom` is a multiple of the stride too, the last store, which
may pass `bss_end`, ends at or before the stack.

Two theorems state the half of `Booted` that needs no fairness: `BootAdvances`, each step uses up
one of finitely many (`StepsLeft`; the clearing loop's share is the distance of `x0` to
`stack_bottom`, which every store shortens), and `MessageSent`, in the endless loop the UART has
received the message, whole and once. That the processor takes those steps is left to TLC.

**`ExchangeProofs.tla`**, for arrays of every size and any subset of the functions. Assumed:
`SizeAssumption` (arrays have elements), `CallAssumption`, `ValueAssumption` (`Moved` and `None`
are not values). `CallsComplete`, `FailuresContained`, `MovesOnly`, `TypeCorrect`. None of them
is inductive: `Completed` says nothing before a call returns. `Progress` says, of each point of
a round, that the rounds before did what was due and where the values of this round's two
objects are. The two facts that carry it are `Operands`, the round's objects have not been
touched by earlier rounds (for `fill`, the value assigned from still is the one passed even if
its own element has been overwritten, with itself), and `NextDue`, one round more changes what
is due for those two objects only. `RoundEnds` puts them together, once for all three ways a
round can end. `ExceptionsAllowed` is `OthersNoexcept`, that `array::swap` is the only function
an exception leaves against its word: `ExceptionInv` says that the operation about to be done is
one that the function's `noexcept` condition has taken into account.

*Reverse iterators*, in the second part of the module. Assumed besides: `NoneAssumption` (`None`
is none of the other values). `ReverseImplementsExchange` says that a behaviour with iterators is
one of `Exchange` (`StepRefines`: what a friend hands on are elements), so that all its theorems
hold again: `ReverseComplete`, `ReverseContained`, `ReverseMovesOnly`. `ImplementsCursor` is the
refinement of `Cursor` (`StepWalks`, one lemma per kind of step), `IteratorsCorrect` is
`IteratorsOK`, `IteratorExceptions` is `IteratorsNoexcept`. The invariant is `IterInv`; its part
`FrameOK` says what a friend function in progress works on: copies of the caller's iterators, of
which those already decremented are one element further down.

**`InvokeProofs.tla`**, for any number of wrappers. Assumed: `WrapAssumption` (the number is a
natural number), `NoneAssumption`. `TypeCorrect`; `NoexceptHonored` is `NoexceptExact`,
`OverloadsAreINVOKE` is `RealizesTheRest`. `NoexceptExact` speaks of the end of a call only; the
invariant adds `SameCallable`, that however many wrappers have been taken off, what is inside is
what was asked about, and `Promises`, what each function on the stack promises: the first may
take the conversion of the result into account, all others promise what the call inside keeps.

**`TypeProofs.tla`**, for types of any number of layers, any enumerations and any sizes, and for
metaprograms that also combine types (`CommonSpec`). Assumed: `SizeAssumption` (signed and
unsigned types of a rank have the same size, sizes follow the ranks, every character and
enumeration has the size of some rank), `EnumAssumption` (enumerations have names of their own),
`LayersAssumption` (the bound on the layers is a natural number).

| theorem | property |
|---|---|
| `TypesExist` | `TypeOK`: no type is formed that the language does not have |
| `CategoriesPartition` | `OneCategory` |
| `LayersRemoved` | `LayersComeOff` |
| `DecaySettles` | `DecayIsFinal` |
| `SignsDetermined` | `SignsAgree` |
| `CommonWith` | `CommonAgrees`: order does not matter, both types convert to the common one |
| `ReferencesBind` | `NothingGained`: no temporary is bound, no qualifier lost |
| `AnyOrder` | `OrderIrrelevant`: three types, folded from the left |

The invariant, `Type`, is that the type is a sequence of layers each of which carries the next;
that every step keeps it is where the fallbacks of the transformations are needed (`ReferIs`,
`PointIs`), and, where types are combined, that the conditional of two types that are not void
is only retried with references (`CommonTypeIs`). Given a type, each trait is a fact about its
last layer, or about its `Element`, the last layer that is no array: `WithCvIs` (qualifying
changes the element's qualifiers and nothing else), `CategoryIs`, `MadeIs` (a rank for each
sign, the same for both). `remove_all_extents`, `rank` and `extent` are recursive functions on
the layers; what they compute is shown by exhibiting a function that satisfies the recursion and
by looking at the least layer at which another one could differ (`AllExtents`, `RankIs`,
`ExtentIs`), which needs no induction rule but that sets of natural numbers have least elements.

The last three theorems are about types that can be combined: a name, qualifiers, and the kind of
reference, if any (`NamesAre`). They replace the search that the definitions make by what it
finds. `MatchesIs` says what `?:` converts an operand to, `MergedIs` what type operands have that
it does not convert, `ConditionalOf` what it gives for each pair of kinds, and from there
`CommonTypeOf` and `CommonRefOf` are in closed form. Of a common reference that is a reference
(`ReferenceParts`), its name is the upper of the two, its qualifiers are those of both, and its
kind follows from the kinds; symmetry and both conversions (`BoundConverts`, `RvalueConverts`)
can be read off. For three types the closed forms are composed (`OfThree`): names have a least
upper bound that does not depend on the order (`JoinIs`, `UpperOrder`), qualifiers are united,
and lvalues stay lvalues (`LvaluesIs`); where an intermediate result has been decayed, which is
of arithmetic types only, the next step decays as well (`LongStays`).

**`HeaderProofs.tla`**, for translation units with any number of includes. Nothing is assumed.
`CycleAlone` is `MissedInCycleOnly` and `RestFound` is `OthersFound`. Neither says what has been
read in the middle of a file, so the invariant (`Order`) does, in three parts. `Stack`: the
files being read are distinct, each is at an item of its text, and their ranks fall, where the
rank of a header is above that of all it includes, but for the two of the cycle, which have the
same. `Effects`: what has been read of an open file, and all of a file that is closed, has been
declared and entered. Together they give the one fact that `RestFound` needs (`BelowIs`): a
header that has been entered and is of a lower rank than the one being read is not open, so all
of it has been read; from there `EnteredIs` collects what each header brings, also through the
includes of others. `CycleInv` is the life of the cycle: neither file entered, one entered and
about to include the other, the other being read inside it, the other read. Only in the third
stage can a name of the cycle be missing: before, the file is not at the use; after, the other
file's name has been declared. And in the third stage the file that declares it is open. What
the texts say is proved once (`AllRegular`): these are the only places where the two names occur.

*Only model-checked:* the liveness properties (`RunnerReturns`, `Delivered`, `PushAccepted`,
`Booted`). Fairness is about `ENABLED`, which is out of this prover's reach; of `RunnerReturns` and
`Booted` the halves without fairness are proved (`MethodsAdvance`, `BootAdvances`,
`MessageSent`). Every other property of a passing run is proved. `RealizesINVOKE`,
`NoexceptHonest` and `Compiles` are violated by the code (section 5), and there is nothing to
prove.

## 5. Divergences found

**The test of the type traits.** `tests/type_traits.cpp:75-76` says "this TU passing compilation
is the test". It does not compile: line 5 includes `functional.hpp`, which enters
`concepts.hpp`, whose own include of `functional.hpp` is skipped by `#pragma once`; so
`concepts.hpp:268` uses `cleo::invoke` before `functional.hpp:12` declares it. Independently,
`memory.hpp:440` uses `cleo::numeric_limits`, which no header declares. `tests/CMakeLists.txt`
builds `hello_test.cpp` only, so nothing notices. Run `header_test` shows the trace; run
`header_order` shows that in every order of inclusion a name that some header declares is missed
only while that header is being read further out, and that the cycle's two names are the only
ones.

**`array::swap`.** `array.hpp:140` makes it `noexcept(is_nothrow_swappable_v<T>)`, a trait
that finds a type's own swap (`utility.hpp:64-65`: "need cleo::swap, and the `using
cleo::swap;` + unqualified call enables ADL"); `array.hpp:144` calls `cleo::swap` by its
qualified name and so never uses it. A type whose own swap is `noexcept` and whose moves throw
has its exceptions end in `std::terminate`. Run `array_swap` shows the shortest such call;
`IteratorsNoexcept` in run `exchange` shows that all the other functions keep their word. (The other
direction does no harm: where the own swap throws, the condition is only too weak.)

**INVOKE.** `type_traits.hpp:1615` says "member_pointer_class + INVOKE machinery - realizes
[func.require] INVOKE". INVOKE applies a pointer to member to the object inside a
`reference_wrapper`; of the overloads of `invoke_impl`, one takes objects of the class or of one
derived from it, and the other (`type_traits.hpp:1640`) applies `operator*`, which
`reference_wrapper` does not have. So `is_invocable` is false and `cleo::invoke(&C::f,
cleo::reference_wrapper(c))` does not compile. The same happens to a pointer to member of a
union, which is not a base of itself. Run `invoke_reference` shows a callable and an argument;
`RealizesTheRest` in run `invoke` shows that there is no other difference.

## 6. What is not covered

* **Two producers, or two consumers.** Outside the contract the relaxed loads imply; the class
  neither checks nor documents it.
* **A counter that wraps with an N that does not divide 2^64.** It needs 2^64 pushes;
  `SizeAssumption` leaves it out, and no run comes near it. Behind the wrap the order of the
  values would be lost.
* **The assignment of a value through the reference `front()` returned**, which would change the
  value queued: `UseRef` is an access, for the purpose of races, that changes nothing.
* **The destruction of popped elements.** `pop()` destroys nothing; an element lives on until
  its slot is assigned again.
* **TLSF's free lists**: their functions are empty or have no body at this commit. The
  `requires` clause of `fls` (`tlsf.hpp:36`) names a class template where a value is meant; the
  model follows what the functions compute.
* **An image that fills ram**, where the linker script would place the stack outside
  (`FitAssumption`), and a UART with a full FIFO.
* **What `array::swap` should do with a type's own swap** beyond the exception: it is never
  called, and the model says so (`FirstStep`); only the promise about exceptions is
  contradicted.
* **`expected`.** Its destructor names `~E()` on a member of type `unexpected<E>`
  (`expected.hpp:113`), so that no `expected` can be instantiated; the constructors are empty
  and the accessors of `unexpected` return nothing. There is no lifecycle yet that a model could
  follow.
* **`memory.hpp`.** `construct_at` calls `voidify` and `max_size` uses `numeric_limits`, which
  nothing declares, and the functions of `allocator` are empty: only the order of declaration is
  modelled.
* **The iterator and range concepts, `iterator_traits`, `projected`**, and the other concepts:
  they are requirements on types, evaluated once and keeping no state. An iterator that brings
  its own `iter_swap` or `iter_move` is covered where the repository has one, in
  `reverse_iterator`.
* **`common_type` of void with another type.** The fallback forms `const void&` outside of any
  immediate context (`type_traits.hpp:1403`), which is an error and not the absence of a common
  type. Types other than void, arithmetic types and classes with one base are left out too:
  their common types are found by the same definitions from other rules of the language.
* Traits that only forward to a compiler builtin; declarations without bodies
  (`kernel/memory/memory.hpp`); build files; `tests/hello_test.cpp`; the scheduler, channels and
  replay that `README.md` describes as goals.

## 7. The plan

Order: what concurrent code relies on first, then what runs before everything else, then
the arithmetic, then the compile-time library, last the parts of it that run.

| step | modules | state |
|---|---|---|
| 1 | `BoundedQueue`, `RingBuffer`, `RingBufferInv`, `RingBufferProofs` | done |
| 2 | `TlsfMapping`, `TlsfProofs` | done; the free lists once they have bodies |
| 3 | `Boot`, `BootProofs` | done |
| 4 | `TypeTraits`, `CommonTypes`, `TypeProofs` | done |
| 5 | `Headers`, `HeaderProofs` | done |
| 6 | `Invoke`, `InvokeProofs` | done |
| 7 | `Exchange`, `ExchangeProofs` | done |
| 8 | `Cursor`, `ReverseIterator`; proofs in `ExchangeProofs` | done |
| 9 | `RingBufferLive` | done |
| 10 | `Lifetimes`: `construct_at`, `destroy_at`, `allocator_traits` over a pool of storage, and `expected`'s union as a client of it | waits for headers that compile and functions that have bodies |

`RingBuffer` composes with 10 where slots have lifetimes. It does not compose with 7: its slots are
assigned, and an assignment that throws leaves the counters as they were, before `Publish`.
