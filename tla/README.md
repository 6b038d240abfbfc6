# FastJavaC in TLA+

FastJavaC compiles Java class files (and the Vire language) ahead of time to native code.
A Rust compiler lowers bytecode to an intermediate representation, optimizes it over the
whole program and emits LLVM; a C runtime supplies the memory manager, threads, strings,
arrays and the rest.  Memory is managed by reference counting with a cycle collector, and
the project's own tests take an empty heap at exit as their oracle.

This directory holds TLA+ models of that system, the TLC configurations that check them
and proofs checked by TLAPS.  Paths below are relative to the repository; `runtime.c` is
`crates/driver/src/runtime.c`, `backend`, `frontend` and `solver` are the crates' `src/`.

## Inventory

| Component | State | Operations | What is hard | What makes it correct |
|---|---|---|---|---|
| Reference counting (`runtime.c` 1232-1691) | packed header (count, colour, buffered bit), drop queue, root buffer | retain, release, allocate | re-entrance: a release starts a drop cascade, whose releases start a collection step | counts equal the owning cells; nothing reachable is freed; nothing is forgotten |
| Cycle collector (2040-2243) | worklists, batch, deferred frees | collection step, shutdown | partial batches over a shared graph; trial deletion; buffers that are trimmed | transparent between steps; terminates; empty heap at exit |
| Arrays (5025-5283, 5443-5479) | elements | aaload, aastore, arraycopy | elements released before they are overwritten | as above |
| Threads and monitors (1693-1751, 1632-1646) | one recursive mutex, thread handles | start, join, monitor enter and exit | non-atomic stores, lifetime of the Runnable | exclusion, exact counts, empty heap after joins |
| Vire concurrency (1753-2018) | threads, Mutex, Atomic, Channel | spawn, join, parallel_for, parallel_map, send, receive | wakeups, list ends, records freed by the caller | FIFO, no lost wakeup, complete results |
| Emitted ownership code (backend 1152-1346, 1674-2480, 2664-3515) | owning slots | stores, returns, cleanup; elisions: moved, borrowed, immortal slots, arenas | a wrong elision is a leak or a dangling pointer | the elided program behaves as the plain one |
| Slab allocator (190-323) | freelists, bump cursors, hash set of slab bases | allocate, free | boundaries, growth of the set, threads | live cells are disjoint and go back to where they came from |
| Arenas and regions (1473-1566, 4898-5023) | stack of bump regions | push, pop, enter, leave | objects that outlive their region | no live reference into a popped region |
| Pending exceptions (2252-2430, 4867-4885) | one pending exception | throw, take, check | overwriting, threads | each exception is caught once and released |
| Optimizer (solver) | the program | RTA, constant propagation, reference copies, inlining, narrowing, bounds, long compares, pending checks, escape | facts that stop holding: overflow, exceptions, aliasing, missed cycles | behaviour is preserved |
| Frontend | operand stack, locals | lowering, exception edges | merges of the stack over branches | behaviour is preserved |
| Class-file parser, IR | data | parse, print | formats | - |
| Class registry, hot patching, Tier-1 JIT (2437-3660), JNI and loading (3796-4809) | tables, local frames | register, redefine, invoke | replacing code that runs, frame limits | calls reach the current method |
| Strings, builders, wrappers, Vire containers, arithmetic, IO, Unsafe, freestanding layer, GPU backends, driver, Java library | data | conversions, system calls | boundaries | - |

The components meet in the heap: emitted code and runtime functions own references and
count them; a release calls the drop function the backend emitted; the collector calls
its trace function; the solver decides whether the collector is there at all.

## Modules

| Module | What it is |
|---|---|
| `ManagedHeap` | what any memory manager promises: objects appear zeroed, cells change only by assignments of the program (of one, or of several elements), objects disappear only when unreachable |
| `RcHeap` | the single-threaded runtime: counting, cascades, collection steps, shutdown, and the program above it |
| `RcHeapInv` | the inductive invariants of `RcHeap`: `IInv` for safety, `LeakInv` for what must not be forgotten |
| `RcHeapProofs` | safety of `RcHeap`, and that it implements `ManagedHeap` |
| `RcHeapLeakProofs` | nothing is forgotten, nothing is left at exit |
| `RcHeapProgressProofs` | the runtime's functions terminate |
| `RcArrays` | `RcHeap` with `aastore` and `arraycopy` |
| `RcArraysInv`, `RcArraysProofs` | its inductive invariant and theorems, without the collector |
| `Threads` | the threaded build: atomic counters, one monitor, start and join |
| `ThreadsInv`, `ThreadsProofs` | its inductive invariant and theorems, for lock-protected programs; that it implements `ManagedHeap` |
| `Fifo` | what a channel promises |
| `Channel` | Vire's channel: list, mutex, condition variable |
| `VirePool` | `jrt_parallel_map`, Mutex and Atomic over a `Channel` |
| `VirePoolInv` | the inductive invariant of `Channel` and `VirePool` |
| `ChannelProofs`, `VirePoolProofs` | the lemmas about the channel's steps; the theorems about both |
| `Ir` | the intermediate representation: blocks, statements, locals |
| `Jvm` | what the compiler is given and promises: bytecode of small Java programs and what the Java virtual machine does with it |
| `Lowering` | the frontend: bytecode to blocks, with the tests for pending exceptions |
| `WholeProgram` | the solver's first pass: reachable functions, and whether the program needs the cycle collector |
| `Passes` | the passes `refcopy`, `pending` and `inline`, which change how references are copied, checked and passed |
| `Scalars` | the passes `constprop` and `longcmp` |
| `Symbols` | what the pass `bounds` says of a value number, one judgement at a time: sign, interval, order, and whether they show an index to be in its array |
| `Bounds` | the pass `bounds`: it numbers values, repeats the judgements of `Symbols` until nothing changes, and removes the checks they make redundant |
| `Values`, `SymbolsProofs` | the values that symbols take when a function runs; the judgements of `Symbols` are right about them |
| `Escape` | escape analysis: which objects and arrays live in a frame or a region |
| `Arithmetic`, `Operators` | `int` and `long` of a given width: wrap-around, comparisons, the runtime's division; the binary operators |
| `Ownership` | the backend's analyses: which locals own a count |
| `Compiler` | the driver's sequence of these, and the emitted code at work |
| `MC...` | instances for TLC |

An operator whose comment starts with "Mutant" is a plausible bug of the operator that
follows it; no specification uses it.  It is what a property must be able to tell from
the code.

### RcHeap

The runtime is one thread but re-entrant, so the state contains its call stack: `rel` is
the old value an operation still has to release, `draining`, `left`, `drop` and `todo`
are the frame of `drain_drops` and of the drop function it runs, `gc` with `batch`,
`pend` and the worklists is the frame of `jrt_collect_step`.  An action is one iteration
of one C loop: a drop function releases one field (`DropField`), `mark_gray` takes one
node off its worklist (`MarkGray`).  The header's packed word is the three variables
`rc`, `color`, `buffered`.  `dropped` and, in the properties, `Held` and `Owned` are
ghosts: they say which cells own what they point to.

The program is arbitrary: it copies locals, reads and writes fields, allocates, and ends
when its locals (which stand for frames and static fields) are null.  Each store retains
the new value and releases the old one afterwards, as `store_dest` and `PutField` do.
`Shape` restricts which objects may be stored in which, for builds the solver proved
acyclic; `Collector` is the preprocessor's choice.

Left open: the order of worklists, buffers and fields (the code's order is one of them);
the positions in the root buffer, so a batch is any set pass 1 can leave in the tail.
Left out: immortal objects (the runtime skips them: they are `NULL`), an exhausted heap
(the program aborts), arenas, and the diagnostic modes.

`RcArrays` adds the two operations that release before they overwrite: `BeginWrites`
retains the new values, `ReleaseElement` releases one old element while it is still in
its slot, `WriteElements` stores.  Between them the runtime runs whatever the release
starts.

### Threads

A store is four steps of a thread - retain, load of the old value, store, release - and a
recursive drop is a stack of frames per thread (the threaded `jrt_release` calls the drop
function directly).  The model is of the plain discipline only, in which every reference
loaded from a shared cell is counted.  The backend does not know of threads (`emit` has no
flag for them), so `borrow_slots` may drop such a retain here as it does in `Compiler`,
on the grounds of what this thread writes.  In a method with a synchronized block the stack slots
0 and 1 are no borrow slots (the handler's `jrt_take_pending` defines the one, `javac`'s
`dup` of the lock the other), so that no ordinary assignment in the block borrows; a nested one
deeper in the stack, `f(a, b, x = S)` with `x` used after the block, may.  The
theorems about `Threads` say nothing of such code.  `owner` and `depth` are the recursive `g_monitor`; `regions` records
which synchronized blocks and methods a thread is inside.  With `Locked` the program
accesses shared cells in synchronized blocks only, without it anything may race.
Main starts and joins the workers, each at most once, since a second `pthread_join` is
undefined; it is not inside a monitor's wait when it joins, because `Join` is enabled only
when the worker is done.  Allocation is one step: the slab has its own lock.

### Channel and VirePool

An action is the code between two points another thread can observe: the node is built
before the mutex is taken, linked under it, and freed after it is released.
`pthread_cond_signal` wakes one waiting thread, `pthread_cond_wait` may return without a
signal.  `queue` is a ghost, the nodes in the order of linking.  `VirePool` adds the
fork/join of `jrt_parallel_map` with the lifetime of its argument records, the Mutex as
the four calls a program makes, and the Atomic; its workers, the caller (after the map)
and a thread spawned before all use the channel.

### The compiler: Ir, Jvm, Lowering, the passes, Ownership, Compiler

`Compiler` takes a Java program through the whole compiler and runs the result.  The first
phases are actions of the driver, in its order: `LowerMethods`, `WholeProgramPass`,
`RefCopyPass`, `ConstPass`, `LongComparePass`, `BoundsPass`, `PendingPass`, `InlinePass`,
`EscapePass`, `EmitFunctions`.  Each applies an operator that is the pass, so what is
checked is not a pass alone but what is left of a program after all of them.
`EmitFunctions` attaches to every function what `emit_function` computes about its locals
before it writes code: borrowed parameters, immortal, borrow and moved slots, non-null
locals.  Then `Start` calls `main` on a heap, and there is one action per statement and
terminator, which does what the emitted instructions do: which retains and releases a
statement contains depends on those sets, as in `store_dest` and `emit_cleanup`.  Object
numbers are never used again, and touching an object that is gone sets `heap.fault`.  An
object in a frame or a region has no count (`IMMORTAL`); `heap.home` says whose it is, so
that it goes with its frame, and that the next object of the same statement takes its place
(`heap.reused`).  An unchecked access outside of its array sets `heap.wild`, after which a run
means nothing and stops; `heap.overflowed` remembers that a number did not fit its type.

`Jvm` is external: the shapes of code javac makes of the programs of the family, and their
meaning by the Java virtual machine specification.  `given.outcome` is the result of that
interpreter on the same heap and the same outcomes of comparisons; the properties compare.

Data is reduced to what decides about references and indices: one class with one reference
field, arrays of `int`, one static variable, static methods.  An `int` has the values
-8..7, a `long` -128..127 (`IntMax`, `LongMax`), so that sums and products wrap around within
a few rounds of a loop; where only the outcome of a comparison matters it may have any
(`Compare`).  Blocks, stack slots, pending exceptions and the exception table are those of the
code.  `Scalars`, `Bounds` and `Escape` are the whole of their passes on these types: `Bounds`
keeps the value numbering with its unique phis, their collapse, the greatest fixpoint for
signs, upper and lower bounds with widening, the must-analysis of branch facts and their
saturation; `Escape` keeps the summaries of parameters, the flow-insensitive aliases, the
components of container and content, and the liveness that decides about loops.  The frame
takes arrays of up to 3 elements (`STACK_ARR_CAP`, 1024 in the source), a longer one outside
of loops goes to the region.  Running out of stack is not modelled.
`TooLarge` says which functions are over the inliner's size limit because of code that is
not modelled; `make()` is one of them, so that a `new` stays behind a call.

## Runs

| Run | Shows |
|---|---|
| `rc_heap` | all programs over three objects of two fields: exact counters, no dangling cell, colours, buffer bits, the bounded root buffer, deferred drops, no forgotten garbage and an empty heap at exit; it keeps its inductive invariant `LeakInv` |
| `rc_heap_live` | `RcHeap` keeps its inductive invariant `IInv` and implements `ManagedHeap`; every step of the runtime comes closer to its return (`RuntimeProgresses`); every operation returns; shutdown ends |
| `rc_heap_trim` | violation: queued drops are discarded with their buffer |
| `rc_arrays` | arrays without the collector: exact counters, no freed array in a local, an empty heap; array operations implement `ManagedHeap`; the inductive invariant `IInvArrays` |
| `rc_arrays_cycles` | violation: `aastore` lets the collector see a released element |
| `threads` | lock-protected programs: exact counters, live accesses, exclusion, an empty heap after the joins; however the threads' steps interleave, their operations are those of one `ManagedHeap`; the inductive invariant `IInv` of `ThreadsInv` |
| `vire_pool` | the channel is a FIFO without lost wakeups; no increment is lost; the map is complete; the inductive invariant `IInv` of `VirePoolInv`, types included |
| `compiler` | every program of the family, compiled and run: the analyses behind removed bounds checks have settled, only live objects are touched, unchecked accesses are within their arrays unless integers have overflowed, the outcome is Java's, counters are exact when `main` returns, borrowed references stay alive, nothing refers to an object that went with its frame, a program linked without the collector makes no cycle, and what ends in Java ends |
| `compiler_moved` | violation: a moved local that is defined in a loop frees what it has handed over |
| `compiler_shift` | violation: the check of an index that is half of a negative number is removed |
| `compiler_given_away` | violation: an object stored in a parameter's field is placed in the frame |
| `compiler_collector` | violation: a program that makes a cycle is linked without the collector |

**Bounds.** Three objects give every small garbage shape: self-loops, two- and three-cycles,
chains into cycles, diamonds.  The caps are scaled down so that they bite: a root buffer
full at 2 candidates and batches of 1 make every step partial and start steps inside
cascades; budgets of 1 defer drops and frees as often as possible.  In `rc_heap` and the
other passing runs `TRIM_CAP` is the first capacity of the queue, that is, the queue never
outgrows it, as in programs whose cascades stay below 8192 queued objects; `rc_heap_trim`
drops that assumption.  `rc_heap_live` has one field per object, enough for cycles and
chains, because liveness needs the whole graph without symmetry.  In `threads` two objects of two fields
and a worker besides main suffice for a race on a cell, on a count and on a nested drop;
`MAX_NESTING` 2 is what recursion of the monitor needs.  `vire_pool` has three nodes, so
that a list of two exists while a third is in a receiver's hands, and four threads, so
that two can sleep while another sends twice.

The 1105 programs of `compiler` are families.  About references: all combinations of a first assignment to a local, a second
statement that loads, stores, allocates or calls, alone or in one of four shapes (`if`, `do`, `while`,
`try`), two results, and callees of five bodies in four kinds: with a result or void, small
enough to be inlined or not.  Two locals are enough for a reference that outlives the
field, static variable or parameter it was read from; a second function with a body that
overwrites a field or the static variable is enough for effects the caller must
know of.  The three heaps have a chain, a cycle, and a null argument, so every access
throws somewhere.  Four objects exist at most (`MaxObj`); loops iterate once or twice over a
comparison (`MAX_CHOICES`), until null over a list; a run that would need another object
stops there, and says nothing about its end.  About frames (`InFrames`, `OwnArrays`): void
methods that make objects or arrays straight on, in and around a loop, link them with each
other, and pass or store them; too large to be inlined, so that their frame ends before
`main`'s.  About arrays: loops with every combination of start, step, limit (a length, a
constant, a parameter) and index (the counter, one more or less, masked, squared, another
variable) over a parameter or a new array; guards without a loop, two-dimensional indices,
`long` counters, indices that count down, binary search, arrays and indices that change after the guard, variables
set on one path only, division in and out of handlers.  They run on arrays of length 0, 2, 3
and 7, the largest index of the width, and on null; with lengths, limits and guards that close, every comparison of
the analysis is met from both sides.  The interval iterations stop after 64 and 256 rounds
(`MAX_ITER`), whether they have ended or not; `AnalysesHaveSettled` says that for these
functions they have, which the theorems about them presuppose.  Between 80 and 96 of the model's
rounds are needed for the lower bounds, where an index counts down until it is widened, and
between 13 and 16 for the upper ones; the model's rounds update all symbols at once, so the
source needs fewer.  A function that does reach the limits has some nine variables for the lower
one, or twenty for the upper one, each of which begins to move when the one before it has come to rest.  The
family has none, and what the code does with one is not checked.

Programs the code fails on are left out, and are what the violations consist of: loops around
stores of a fresh object, methods that begin with a loop, an object stored in a
parameter's field, methods that make an object and return another, shifts of negative numbers, and
`OwnObjects`, all described below.  The overflowing squares are in the family: `UncheckedInBounds` lets an
access go astray only after an overflow.  `BalancedAtReturn` is not asked of runs in
which a moved local's count was lost (`heap.lost`, same place).

**Fairness.** `rc_heap_live` and `compiler` assume some.  `compiler`: weak fairness of `Step`,
the statements of the emitted code; there is one thread, and a machine that runs it.  The
other: weak fairness of `Runtime`, the steps of the
runtime's own functions.  They are loops of a single thread that wait for nothing, so one
that can go on does.  Nothing is assumed of the program: it may stop calling the runtime at
any time, and `ShutdownCompletes` speaks only of a program that has reached exit.

**Deadlock** is not checked where the program ends: the state after `jrt_shutdown`, and
after main has returned, has no successor, nor has a run of `compiler` that is out of
objects.  It is checked in `vire_pool`, where the threads
go on using the channel.

## What the violations say

1. `rc_heap_trim`.  `collector_trim` returns a drop queue of more than 64 KiB to the
   allocator and sets its length to 0.  A collection step can start while the queue is
   being drained (`possible_root` is called by drop functions), so objects queued at count
   0 are lost: they stay allocated, and so does what they point to.
2. `rc_arrays_cycles`.  `jrt_aastore` releases `*slot` before it stores.  If that release
   fills the root buffer, the step traces the array, whose slot still holds the released
   element, and subtracts an edge that is no longer counted.  With `a[0] = a; a[0] = null`
   the array is collected while a local holds it.  `PutField` stores first and is safe.
3. `compiler_moved`.  `moved_locals` asks that a local is used once in the text of the
   function.  In `do { p.f = make(); } while (..)` the one use is executed again and again:
   the local still holds the object it has handed to the field, and the next `store_dest`
   releases it.
4. `compiler_shift`.  `x >> 1` and `x >>> 1` have the symbol of `x / 2`, "for a non-negative
   value" as the comment there says, but nothing looks at the sign.  `compute_lb` divides the
   lower bound -1 of `x` towards zero, so the half seems to be at least 0, `x[n >> 1]` loses
   its check, and the shift of -1 is -1.  The proof that intervals are right found it: the case
   of the symbol `Div` needs the rounding of the code that computes it.
5. `compiler_given_away`.  Aliases are sets of stack slots, and a slot holds many values: after
   `x = new T(); p.f = x;` the slot from which `p` was pushed counts as an alias of the object,
   so the store looks like one between two objects of the frame.
6. `compiler_collector`.  A function is allocator-like when the local it returns is the
   destination of a `new` somewhere in its text, and that local is the stack slot at depth 0.
   `T get(T p) { if (..) p = new T(); return p; }` is allocator-like, `x.f = get(x)` stores a
   fresh object, and a program that makes a cycle is linked without the collector.

Four more configurations are kept beside the runs.  `MCThreadsRace.cfg`: counters are atomic,
but a load followed by a retain is not, nor is the exchange of a field, and two
unsynchronized accesses to one field free an object that the other thread is about to count.
`MCThreadsSync.cfg`: ACC_SYNCHRONIZED is parsed and never used, so synchronized methods do
not exclude.  `MCCompilerEntry.cfg`: where a method begins with a loop, block 0 has the back
edge as a predecessor, `merge_in` of `refcopy` forgets the values the caller passes, and in
`do { p = p.f; } while (..); return p;` a load of `p` looks redundant.
`MCCompilerOverflow.cfg`: `compute_nonneg` takes a product of non-negative numbers for
non-negative, and the guard bounds it from above only; in
`for (k = 0; k < m; k++) if (k * k < n) x[k * k] = 1;` the product wraps around, passes
the guard and is stored through without a check.  That is why `UncheckedInBounds` ends with
the first overflow; `AlwaysInBounds` is the property without that proviso.

Other disagreements have no configuration of their own.  With `Programs <- OwnObjects` TLC
violates `AccessesAreLive`: `x = new T(); small(p);` inlines `small`, whose parameter is
copied from a stack slot that also held the new object, and both non-null analyses take
it for not null, because they strike out the slot but not its copies.  And a store
`p.f = make()` that throws since `p` is null loses the new object, whose count was to be
moved: nobody releases it.  `void act(T p) { T x = new T(); x.f = p; }` leaks too: `x` is in the
frame, which has no drop function, for the reason of number 5.  And an array of negative size
ends the program at once, whatever handlers there are (`AbortOnNegativeSize`; the family
has it only where Java throws and nothing catches).

Where no function has a handler, an element access that fails ends a release build's program on the
spot (`jrt_throw_bounds_fatal`, `AbortAtElement`), while a debug build leaves the exception
pending and goes on to the test (`ThrowForElement`); `compiler` takes both ways.

## Proofs

Every safety property of the passing runs has a theorem, except those of `Compiler`; of its
passes, the judgements of the bounds pass are proved on their own.  The
assumptions are those the modules declare on their constants (`ConstantsAssumption`,
`ArraysAssumption`, `ThreadsAssumption`, `ChannelAssumption`, `PoolAssumption`,
`WidthAssumption`: finite
sets, kinds of cells that do not overlap, positive caps) and the conditions named below,
which the theorems state.  Each proof follows one plan: an inductive invariant, which a run
checks too; one lemma per action and part of the invariant that the action can disturb;
then the properties follow from the invariant.

| Theorems | Module | Hold for | Under |
|---|---|---|---|
| `Invariance`, `TypeCorrect`, `ExactCounters`, `NoUseAfterFree`, `CollectorIsTransparent`, `RootBufferIsSound`, `DeferringDropsIsInvisible`, `RootBufferStaysSmall`, `Refinement` | `RcHeapProofs` | every graph, caps and budgets, with and without the collector | - |
| `LeakInvariance`, `GarbageIsRemembered`, `NothingLeftAtExit` | `RcHeapLeakProofs` | as above | `[]QueueKept`; `Collector \/ Acyclic` |
| `RuntimeTerminates` | `RcHeapProgressProofs` | every graph, caps and budgets, with and without the collector | - |
| `SmallHeapsKeepTheirQueue` | `RcHeapLeakProofs` | as above | `HeapFits` |
| `ArraysInvariance`, `ExactCountersOfArrays`, `ArraysKeepLocalsAlive`, `ArraysRefine`, `ArraysLeaveNothing` | `RcArraysProofs` | every array length and range of `arraycopy` | `~Collector`; the last also `Acyclic` |
| `ThreadsInvariance`, `ThreadsTypeCorrect`, `ThreadsExactCounts`, `ThreadsAccessLive`, `MonitorExcludes`, `ThreadsRefine`, `NothingLeftAfterJoin` | `ThreadsProofs` | every number of workers, with nested and synchronized-method calls | `Locked`; the last also `Acyclic` |
| `PoolInvariance`, `ListIntact`, `WakeupsSuffice`, `ParallelMapComplete`, `ExactCounts`, `ChannelIsFifo` | `VirePoolProofs` | every number of threads, nodes and values | - |
| `JudgementsAreRight`, `RemovedChecksAreRedundant` | `SymbolsProofs` | every function's symbols and any order of running its statements | `Settled`; no overflow, no shift of a negative number |

**Safety of the heap.** Everything rests on exact counters.  Outside of a collection step they are
easy: a cell that starts or stops owning a reference is matched by an increment or a
decrement.  Trial deletion makes them temporarily smaller, so `RcExact` counts only the
fields of black and purple objects, and the question becomes whether the step gives back
what it took: whether a gray or white object can be left behind.  `MarkPhase`, `ScanPhase`
and `CollectPhase` say where the traversal will still come from.  Each uses `Covered(X,
src)`: every non-empty part of `X` that avoids `src` is entered by an edge from the rest
of `X`.  That is reachability from `src` inside `X` without paths or recursion, which
first-order provers handle.  When a worklist is empty, `src` is empty and so is `X`.  In
the scan two such facts are needed: gray objects are reachable from the work that is left,
and gray and white ones together from the batch and the nodes being restored.  An object
that is white when the scan ends has count 0, so by `RcExact` no owning cell outside of
the white set points to it: what the collector claims is closed under ownership and
unreachable, which is what `Refinement` needs; for drops, count 0 says the same at once.

`RootsBound` counts: a step starts with at most `SOFT_CAP` candidates, takes at least one of
them into its batch, and no member of the batch is still a purple candidate when the
marking is over, so compaction keeps fewer than the cap.

**Nothing is forgotten.** `NoForgottenGarbage` is not inductive, and the root buffer cannot
carry it: compaction gives up candidates that have been retained since.  What carries it
are colours.  A purple object is one whose reference was dropped last.  `Entered` says of
every set of held objects outside of a trial deletion that it is entered from
the other held objects, or is `Anchored`: it contains an object in a local or in a field
of an object being dropped, or one being released or waiting to be dropped, or a purple
one.  A set that has lost its last entry contains the object that entry
pointed to, and that object is still purple.  A retain blackens an object, but only through
a cell that refers to it, and that cell is the next entry.  The scan takes objects out of
the trial by restoring them, which happens only below an object with a count that comes from
outside.  `Whereabouts` connects this with the buffers: held purple objects are
candidates, objects at count 0 wait for their drop.  At exit nothing is left to be an
anchor, so every set of objects would have to be entered from outside of it, which the set
of all objects cannot be.

Both conditions are needed.  `QueueKept` says that `collector_trim` meets no drop queue
above its limit; `rc_heap_trim` shows what happens otherwise.  It is an assumption about
the behaviour, not about constants, because cascades in a large heap may or may not
queue that much; `SmallHeapsKeepTheirQueue` shows that it holds in every heap
of at most `TRIM_CAP / 2` objects, 4096 in the source.  And a build without the
collector leaves cycles behind, so there `Acyclic` asks the types to admit none (in every
set of objects one is held by no other), which is what the solver decides on.  `Entered`
follows at once then.

**Termination.** A release can start a cascade, the cascade a collection step, and the step
leaves candidates for the next one, so no single quantity falls.  `Remaining` is a tuple of nine
numbers, and each step of the runtime lowers it in lexicographic order: the part of the
allocation or shutdown, the objects still to be dropped or collected, the release that is
owed, the frames of the drop, the candidates, the phase of the step, and what the phase has
yet to look at.  Marking turns objects gray; the scan may turn a white object black again, but a
black one never white.  The subtle one is compaction, after which candidates the step has
restored must not outnumber those it began with: `RootsBound`.  A step also begins with at
least one candidate (`Work`), or `jrt_shutdown`, which repeats it while there are some, could
repeat it without effect.  The theorem adds that the numbers are natural, so each operation
ends after a bounded number of steps, if steps are taken.

**Arrays.** Between a release and the write of the slot, the slot is stale: it may point
to an object that is gone.  `StoreInv` counts the retained new value in
the place of the old element, and asks of the array only that a local holds it.  Then its count
is not 0, no drop function comes to its stale slots, and after `WriteElements` the slots
own what was counted.  `ArraysRefine` lets an operation take effect when it begins: the
program's view `Seen` has the new elements from then on, so that the write is a stutter and
everything the releases free must be unreachable through the new elements.  (At each release,
one slot at a time, would be wrong: an overlapping copy can overwrite the last slot that
holds a value it has yet to write.)  The theorems assume `~Collector` because with it they are false: a collection step
reads stale slots (`rc_arrays_cycles`).

**Threads.** `RcExactThreads` counts cells and, in addition, the references a thread has between two of
its steps: the value it is about to write, the old value it is about to release, the
Runnable of a worker that runs.  The value read from a shared cell and not retained
yet is none of these, and is why the counters would go wrong without locks.  `Operation`
says that from reading a cell until it has retained the value or overwritten
the cell, the thread holds the monitor or the cell is its own local, so the cell still
has the value.  `Monitor` ties `owner` and `depth` to the blocks of all threads.
`CallStacks` says that an object is dropped by one frame of one thread; the fields this frame has
not released still count.  `NothingLeftAfterJoin` takes from `Acyclic` an object that no other holds.
`Locked` is the condition of the runtime itself: without it the properties fail
(`MCThreadsRace.cfg`).

`ThreadsRefine` says that these interleavings amount to operations on one heap.  A load has
its effect at the step that reads the cell and an allocation at its first step, so the
abstract slot of the thread (`View`) holds that value before the retain or the store of the
reference; a store to a shared cell has it at its write, whatever is released
afterwards; and a Runnable has a slot from the start of its thread until its end, since
`Thread.start` and the thread itself are all that holds it then.  A step that frees an object is a
`Reclaim`: the objects that are not being dropped (`Live`) contain whatever a slot of that heap
names and whatever their own fields name, a value loaded and not yet retained included, since
it is read under the monitor and its cell still owns it; the freed object is none of them.

**Channel and pool.** `ListIsQueue` says that `head`, `next` and `tail` describe the ghost `queue`; it is
inductive with `Private`: the node of a send or a receive in progress belongs
to one thread and is not in the list.  `NoLostWakeup` counts values against the receivers
and signals on their way.  `ForkJoin` relates `created` and `joined` to the workers'
states; it holds because the loops go through the indices in order.  `ChannelIsFifo`
maps linking a node to the send and cutting it off to the receive; every other step is a
stutter.

**Bounds checks.**  The source argues "by induction over the concrete run" that a symbol's
value never exceeds what `compute_ub` found, and that `compute_lb` is right "by the same
induction" (bounds.rs).  `JudgementsAreRight` is that induction.  `Values` lets symbols
take values in any order and as often as a loop will have it, each from values its operands
have had, which no order of statements can exceed; a phi takes any value of an input.
`Settled` is what the analyses must have reached: no further round would change a sign or
an interval, and a collapsed phi has the representative of all its inputs.  From this, and
from nothing about how they got there (widening, orders of updates, numbers of rounds), each
evaluation gives a value the judgements allow.  `AnalysesHaveSettled` checks `Settled` on
every function of the family.
`RemovedChecksAreRedundant` is about the moment of an access: symbols have values that
belong together, and the facts of the branches passed are true (`FactsOfABranch`: a
branch's own facts are).  Saturation adds only true ones, and each of the four ways in which
`provably_in_bounds` accepts an index puts it between 0 and the length.  `Follows` is
the least set closed under rounds of saturation, which stands for their repetition, an induction
the provers cannot do.  Not proved, but checked by `UncheckedInBounds`, is that the
symbols an access looks up have such values when it is reached, that is, that value numbers
and `lt_in` are right about paths.  The theorems compute with unbounded integers, and so end where
the run `compiler_shift` and `MCCompilerOverflow.cfg` show them to end.

**Only model-checked.**  Liveness (`OperationsReturn`, `ShutdownCompletes`,
`EndsAsInJava`): fairness and `ENABLED` are beyond the provers; that the runtime's steps cannot go on for ever
is proved.  All properties of `Compiler` as a whole:
its passes are recursive functions over programs, some with operators the
backends cannot load (`RECURSIVE`), and what they compute needs induction over
the program.  The violations are counterexamples, and need no proof.

## Not modelled

`PROJECT.json` lists every component with its status.  Of the compiler: instance methods,
virtual and guarded calls, constructors with code, and with them devirtualization and the
graph of class types; arrays of other elements than `int`, floating point, `narrow` (which needs
fields of integers) and `mixin`; capsule and loop arenas, typed handlers, thrown objects.
Not modelled at all are the slab allocator, the dynamic runtime
(registry, hot patching, JIT, JNI), and the sequential data conversions; the freestanding
layer, GPU backends and most of the driver are text generation or wrappers of the platform.

## Plan

Done: the heap, arrays, threads, Vire's channel and pool with their proofs, and the compiler
from bytecode to emitted code for static methods over references, integers and arrays, with
whole-program shape analysis, bounds elision with the soundness of its judgements, and escape
analysis.  Next:

1. Proofs: the value numbering of `Bounds`, that the symbols an access looks up have values
   that belong together; the must-analyses of `Passes` and `Ownership` in the same style, a
   judgement at a post-fixpoint.
2. `Compiler`: objects with methods - receivers that are not null, guarded and virtual
   calls - and constructors; several classes, with the target sets and type graph of
   `WholeProgram`; thrown objects and typed handlers; `narrow`.
3. `Slab`: freelists, cursors, the growing hash set; live cells disjoint.
4. `Exceptions` under threads: the one pending exception of the process.
