# CQMSan in TLA+

CQMSan is an opportunistic detector of uses of uninitialised memory. An LLVM
pass adds a check to every load, a run-time library keeps the shadow memory and
records the violations in a map of bytes shared with AFL++, and afl-fuzz re-runs
an input under an accurate detector (Valgrind) when the map shows something new.
These modules model the parts of it whose correctness depends on the order of
events, check them with TLC on small instances, and prove their main properties
with TLAPS for all values of their constants.

## Inventory

| Part | State | Operations | Interaction | What makes it correct |
| --- | --- | --- | --- | --- |
| Warning handlers, map update (`cqmsan.cpp`) | shared map, `last_edge`, `last_cs_edge` | `__cqmsan_warning_fast`, `_pconly`, `cqmsan_update_map`, `cqmsan_site_known` | called by instrumented code of every thread; the map is read by afl-fuzz | a recorded violation reaches the fuzzer |
| Fold (`afl-fuzz-run.c`) | `msan_traces`, `heavyweight_runs`, `qmsan_crashes` | `check_msan_trace`, `qmsan_check_bugs` | after every execution; starts the accurate detector | everything new is seen once, accurate runs are bounded |
| Execution loop (`aflpp_driver.c`) | the process, its threads | one process per input, or a persistent loop | stops, resumes, kills the target | the map survives a target that is cut off |
| Heap shadow (`cqmsan_allocator.cpp`, `cqmsan_poisoning.cpp`) | shadow, `requested_size`, `poisoned_size` | malloc, calloc, realloc, free, unmap | called by the program; read by every check | uninitialised bytes are poisoned, bytes with a value are not |
| Interceptors, signals, atexit (`cqmsan_interceptors.cpp`) | `sigactions`, atexit chain | `signal`, `sigaction`, `atexit`, libc calls | any thread, signal handlers | the kernel and the table agree on handlers |
| Start-up, fork, threads (`cqmsan_linux.cpp`, `cqmsan_thread.cpp`) | locks, TSD key, current thread | fork handlers, TSD destructor | fork with threads running | no child inherits a lock it needs |
| Pass (`CompilerQEMUMemorySanitizer.cpp`) | the function being instrumented | check placement, deferral to sinks, coalescing | output calls the handlers | a moved check fires whenever the original did |
| Allocator of `sanitizer_common` | a cache per thread, the free array of a size class | allocate, free, refill, drain | every thread; fork | a chunk has one owner |
| Mutex of `sanitizer_common` | one word, two semaphores | lock, read-lock, unlock | every lock of the allocator | a writer is alone, nobody sleeps for ever |
| Variadic calls (pass and `cqmsan.cpp`) | a thread-local size | store at the call, load in the prologue, save around a handler | caller, callee, signal handlers | va_arg reads clean words |
| Origins, reports, options, AFL++ support, the rest of `sanitizer_common` | | | | diagnostics, I/O, platform tables |

The hard behaviours are: threads of the target that race on the map; a target
killed, or stopped and resumed, inside a map update; a map that is never
cleared, with one byte that has two uses; shadow that is handed from one owner
of a chunk to the next with a record of what is already poisoned; two shadow
conventions selected at compile time; checks moved to another place of the
function; state that signal handlers and forked children inherit half done; and
wake-ups decided from flags that other threads set and clear. `PROJECT.json` lists each with its line.

## Modules

| Module | Models |
| --- | --- |
| `ViolationLog` | what the two tiers promise: a log of violations that only grows, one accurate run each time something enters it |
| `FeedbackMap` | the map, the handlers of the target's threads, the executions and the fold |
| `MCFeedbackMap` | instances for TLC: an eight-byte map with the code's hash |
| `FeedbackMap_proofs` | its theorems |
| `HeapShadow` | the shadow of heap chunks under both allocators and both conventions |
| `MCHeapShadow` | instances for TLC |
| `HeapShadow_proofs` | its theorems |
| `FlowGraph` | dominance, post-dominance and natural loops, as LLVM provides them |
| `FlowGraph_proofs` | facts about them, for every finite graph |
| `SinkChecks` | where the pass puts the check of a load, and the execution of the instrumented function |
| `MCSinkChecks` | every control-flow graph of four blocks |
| `SinkChecks_proofs` | its theorems |
| `SignalWrap`, `MCSignalWrap` | `sigaction()`, `signal()` and the wrappers the kernel calls |
| `SignalWrap_proofs` | its theorems |
| `LocalCaches`, `MCLocalCaches` | chunks of one size class, the threads' caches, thread exit and fork |
| `LocalCaches_proofs` | its theorems |
| `RwLock` | what a reader-writer lock promises |
| `RwMutex`, `MCRwMutex` | the mutex of `sanitizer_common`, shown to implement it |
| `RwMutex_proofs` | its theorems |
| `VarArgs`, `MCVarArgs` | the size of the stack-passed arguments of a variadic call, and signals |
| `VarArgs_proofs` | its theorems |

The modules are joined by what one assumes of the other. `HeapShadow` takes an
allocator that never hands a chunk to two owners, which `LocalCaches` shows;
`LocalCaches` takes mutexes that exclude, which `RwMutex` shows of the mutex of a
region (`fallback_mutex`, like `sigactions_mu` in `SignalWrap`, is a
`StaticSpinMutex`, a test-and-set loop that is taken to exclude); `FeedbackMap`
takes violations that fire, which `SinkChecks` places; `VarArgs` and `SignalWrap`
share the wrappers `SignalHandler` and `SignalAction`.

### FeedbackMap

A byte of the map is the set of its bits that are one. `map` is
`cqmsan_area_ptr` on the target's side and `fsrv.msan_bits` on afl-fuzz's, one
shared segment; `traces` is `msan_traces`. A violation is an opaque value with
two numbers, the pc of its site (`PcOf`) and the XOR of its stack (`HashOf`);
every slot is computed from these as the code does, `EdgeIdx` being the hash of
the edge bits. Any functions are allowed, collisions included.

Each thread runs `cqmsan_update_map` in steps: the reads and writes of the two
edge registers, a load (`LoadByte`) and a store (`StoreByte`) for each of the
four `|=`, and the sentinel (`MarkDirty`). The pc-only handler skips the
call-stack steps. `HandlerOf` gives each site its handler: a build with the
pc-only handlers has both, because the checks of the interceptors always record
the call stack. `Fire` and `FireKnown` are the entry of the handlers, with
the probe of `skip_known_sites`; `HaltOnError` makes the process die at the end
of the handler, and is false by default; for the map such a death is an
`Interrupt` right after `MarkDirty`, so runs without it that may be cut off
cover it. An unwound stack always holds at least the site's own pc, so the
early return for an empty stack is not taken.

`StartRun`, `EndRun` and `Interrupt` are the execution as afl-fuzz sees it:
`EndRun` needs only the main thread out of the handler, and the other threads
die where they are or, with `Persistent`, stop there and are resumed by the next
`StartRun`. `Interrupt` is a timeout or a fatal signal at any point. `CheckBugs`
and `CheckNothing` are `qmsan_check_bugs`, which every caller in
`afl-fuzz-run.c` runs after every execution; while it runs no thread of the
target does. The verdict of the accurate detector is external and left open. The
bits looked at (`Scanned`) are those of the build command in the README of the
repository: FILTERING, EDGES, CALLSTACK, CALLSTACK_EDGES.

`fresh` and `fired` are history variables: the unseen bits set since the last fold,
and the violations this execution finished recording.

### HeapShadow

A chunk is a block of the primary allocator or a mapping of the secondary (with
`Backend = "glibc"`, a block of glibc's) with `Cap` bytes; its shadow bytes are
0 or 255. `written` is a history variable: which bytes of the program's object
have a value. One action per entry point: `CQMsanAllocate` (malloc, the aligned
variants and, with `zero`, calloc), `CQMsanDeallocate`, `ReallocInPlace`,
`ReallocMove`, and the program's `Store`. `DanglingStore` is a store to freed
memory, which the comment on `poison_reuse` discusses. A chunk belongs to one
thread while the runtime works on its shadow (it is handed out before, given
back after), so operations are atomic. Shadow is byte-exact; that whole pages of
it are given back or remapped, not single bytes, is abstracted: the result, zero
bytes, is the same. A store cleans its bytes whatever it stores, as the pass does
by default and as `__cqmsan_memcpy` does; a value that may be `undef`, for which
the pass makes an exception, is not modelled. `stray` remembers the bytes a
dangling store marked, until the chunk is freed again. The chunks are fixed:
glibc's splitting and merging of free blocks is not modelled, nor are origins.

### SinkChecks

A function is a control-flow graph with a sequence of instructions in each
block. All that matters of an instruction is whether execution may stop there
(`isGuaranteedToTransferExecutionToSuccessor`) and which loads reach one of its
sink operands, so the walk of `findSinkFor` through casts and arithmetic is
given as `uses`; its order, which follows use lists, is left open. The walk stops
at phis and selects, so a load dominates the uses it finds, which `IsProgram`
demands as the IR verifier does (`Available`). Of the blocks it also says which
are exception pads, where no test can be put (`pads`), and of the loads which
are aggregates, which no accumulator takes (`aggs`). `Placement`
is `materializeChecks` in its three ways: a check per instruction, one per
straight-line segment (`anchorFor`), one accumulator per loop. `RunOnFunction` is
the set of instrumented functions the pass may produce, and the actions execute
one of them, each load finding its bytes initialised or not. `acc` and `shadow`
are the values the emitted code computes; `owed` is a history variable, the loads
that read poison and have not been reported. The accumulators of one loop, one
per type, are tested together and are one flag. The default convention is
modelled; checks of stores, of call arguments and of return values, which are not
moved, are not.

### SignalWrap

One signal. `sigactions` is its entry of the table and `kernel` its disposition.
`sigaction()` is two steps, before and after the system call, both under the
lock; `signal()` is two steps with the lock held only in the first. A thread
has two contexts, its code and the handler that has interrupted it; a handler
may make calls itself. `signal()` returns what the kernel had, so that the
program may get the address of a wrapper (`given`) and pass it to a later call
(`Passes`); the table then holds the wrapper, and a delivery that loads it enters
itself again (`LoadCb`). `restored` is a history variable that says that the
program has done so. `last`, `overlap` and `alone` are history variables, with
which the properties say what "the last call" was and which calls stayed clear
of a `signal()` that was half done.

### LocalCaches

Chunks of one size class are in the program's hands, in a cache, in the free
array, beyond `allocated_user`, or on the way between two of these. Every
critical section under `region->mutex` is divided where a fork or another thread
could see it half done; operations on a thread's own cache are one step. A
thread that has run its last destructor has no current thread and uses the shared cache under
`fallback_mutex`. After `fork()` the model goes on as the parent or as the child.
A failing map of the free array ends the process and is left out, as are the
release of pages to the system, the statistics, and the large allocator, whose
one mutex `ForceLock` takes last.

### RwMutex

`st` is the 64-bit word as a record. A compare-and-swap that succeeds is one
action, because the word is then what it was when it was read; a failing one is
an iteration that does nothing (`SpinOn`). `Semaphore` is a token count and a
futex with early returns. `DCHECK`s of the code appear as invariants. What an
unlock in progress has promised to post is counted as a set of tokens, pairs of
the thread and a number, so that sums over threads are cardinalities.

### VarArgs

One thread; activations of functions and of signal handlers on a stack.
`Counted` is the walk of `VarArgAMD64Helper::visitCallBase` over the arguments
(`OverflowSize` its result) and `Placed` what the calling convention makes of the
same arguments (`Read` the words va_arg takes from the stack), both as recursive
functions of the argument number. The sizes of the arguments (`Words`) and their
kinds are common to both; which arguments find a register left, what becomes of
the fixed ones and where alignment leaves a hole is said by each side for itself,
and there the two check each other. Lengths are in words of 8 bytes. The module is
about the default shadow convention, in which the zeroes stored in the prologue
and at `va_start` mean initialised; in the flipped one they would be poison.
128-bit integers and wide vectors are left out.

## Runs

| Run | Instance | Checks |
| --- | --- | --- |
| `map_fork` | 2 threads on the same two bytes, pc-only handler, a process per input, cut off anywhere | types, `SeenIsReported`, `FoldComplete`, `RunsPaidFor`, `RunsOnlyForNews`, implements `ViolationLog` |
| `map_single` | 1 thread, persistent loop, 3 violations with both handlers, known sites skipped, not halting, timeouts | `CompletedIsSeen`, and `LeftoverIsSeen` under fairness |
| `heap_reuse` | default build and flags, with stores to freed memory | types, exactness (`NoMissedByte`, `NoFalseAlarm`), `RecordedExtentValid` |
| `heap_glibc` | flipped convention over glibc | exactness, `RecycledIsPoisoned` |
| `sink_defer` | every graph of 4 blocks, 2 loads, 1 use, 1 call, the three placements | types, `ReportedBeforeLeaving`, `OneWarningPerRead` |
| `signal_calls` | 2 threads with handlers, 3 handlers, wrappers passed on | types, `HandlerIsCallable`, `Agreement`, `OldactIsLast`, `OldactIsUsable` |
| `caches_fork` | 2 threads, 5 chunks, caches of 4 | types and cache bounds, `NoChunkTwice`, `NothingLost`, `LocksHeldByLiving`, and `RegionReleased` under fairness |
| `mutex_wake` | 3 threads, 1 spin iteration | types, `WaitersCounted`, `AwakeWriterFlagged`, `NoOneForgotten`, implements `RwLock`, and `WantedIsTaken` under fairness |
| `varargs_calls` | 1 register of each kind, stack of 4 activations | types, `VarargsAreClean`, `CallerStaysPoisoned` |

Three further runs show that a sentence of a comment does not hold of the code;
`PROJECT.json` quotes each.

| Run | Shows |
| --- | --- |
| `map_persistent` | a background thread stopped inside a `\|=` takes back a folded bit when it resumes |
| `map_skip` | a child killed between the ERROR bit and the sentinel leaves a site "known" that was never reported |
| `sink_continue` | a loop that continues around the sink: the check sees the shadow of a later load, and a poisoned read is never reported |

Limits of the code that other settings of the same models show, or that the
properties exempt by name:

* Two threads that meet in a `|=` on one byte lose one of the two records
  (`RecordedOnMap` under `FeedbackMap_fork.cfg`), and a site that hashes onto the
  sentinel byte is never looked at (`CompletedIsSeen` exempts it).
* Edges between known violations count as news, so accurate runs exceed the
  number of violations; `RunsPaidFor` bounds them by bits. Bits that a killed
  child left are charged to the next input that records anything, which is why
  `RunsOnlyForNews` speaks of all bits set since the last fold. In the persistent
  loop even that fails: a bit that a racing store took out of the map before it
  was folded is put back, by a worker that was stopped with the byte in hand,
  after the fold, and the accurate run is started for no violation of this input.
* `RecycledIsPoisoned` is true of glibc's allocator only. With `Backend =
  "combined"` and `Flip` a block that grows in place is marked with ones, which
  mean initialised there, and one shrunk and freed leaves clean bytes.
* The comment on `sigactions_mu` ("guarantees atomicity of sigaction() and
  signal() calls", `cqmsan_interceptors.cpp:1154`) holds of `sigaction()` only:
  after a call that overlaps a `signal()` the table and the kernel may disagree
  until the next call (`Agreement` without `~overlap` fails). A handler that
  interrupts `sigaction()` inside the lock and calls it again never returns.
* `signal()` hands the address of its wrapper to the program
  (`cqmsan_interceptors.cpp:1562`). The ordinary sequence `old = signal(s,
  SIG_IGN); ... signal(s, old)` stores the wrapper in the table (1620), and the
  next delivery calls itself without end. `HandlerIsCallable` and
  `OldactIsUsable` therefore promise a handler only as long as the program has
  not passed on what `signal()` returned (`restored` in `OfTheProgram`); without
  that condition TLC finds this sequence.
* A child forked while another thread is inside `fallback_mutex` inherits it
  locked; `LocksHeldByLiving` says that this is the only such lock.
* `sanitizer_mutex.h:334` says that waiting readers mean a write-locked mutex.
  Between the release and the next acquisition this is not so; `NoOneForgotten`
  says what holds instead.
* A `long double` after an odd number of words is placed behind padding that the
  computed size does not include, and its last word stays poisoned:
  `VarargsAreClean` exempts such calls (`Padded`). After a call from code that is
  not instrumented the size is that of an earlier call (`ForeignCall`).
* Checks accumulated over a loop, an option that is off by default, may be
  reported again at a second exit, and a cycle that is no natural loop can
  execute a sink twice (`OneWarningPerRead` exempts both).

Bounds. Two violations give every kind of edge (each to itself, each to the
other) and two threads every race on a byte or register; a third adds no new
pair. A third violation, in the run with one thread, has the handler of an
interceptor and lets an execution record one site while two others are left half
recorded. Eight bytes keep the hash and the sentinel apart from the slots in use,
which the `Dense` values put on two bytes so that threads meet and the `Wide`
values spread, one edge falling on the sentinel. Executions are not bounded: the
state space is finite because every accurate run uses up a bit. Three chunks of
two and three bytes give reuse by a smaller and a larger request, growth in
place, a move between size classes and a mapping; the number of operations is
not bounded. Four blocks give branches, joins, loops with one or two exits,
nested loops, loops that continue around a block and cycles that are no loops;
two loads give chains and groups. Two threads with two contexts each give every
overlap of two calls and a handler; the third handler is the runtime's own. Five
chunks and caches of four let a cache overflow with a chunk left over, drain,
refill from a partly filled region and find it exhausted. Three threads are the
least in which one thread unlocks while a second spins and a third sleeps;
`kMaxSpinIters = 1` lets a thread announce itself, spin and block. One register
of each kind makes lists of up to two fixed and two variadic arguments spill in
every way. No run bounds the number of calls.

Fairness. `FeedbackMap` assumes that afl-fuzz checks an execution that has ended
(it does so before anything else) and that its timeout ends an execution; it
assumes nothing of the target's threads, so that `LeftoverIsSeen` holds even of
a target that hangs after it has recorded something. `LocalCaches` assumes that a thread
inside a critical section, which never waits there, is scheduled until it leaves
it. `RwMutex` assumes the same of a thread that can take the lock, block or post;
it assumes nothing of holders, and `WantedIsTaken` does not say that every
thread gets the lock: the code lets others overtake. `caches_fork` does not check
for deadlock, because every thread may end.

## Proofs

All theorems hold for any sets of threads and violations, any map size from 2,
any hash; any set of chunks, sizes and flags; any function and graph; any number
of threads and handlers, of registers and of arguments; with the assumptions
named.

* `TypeCorrect` (all seven modules). In `RwMutex`, `LocalCaches` and `VarArgs` the
  bounds it states (counters within the number of threads, caches within their
  capacity, sizes within one call's arguments) need the rest of the invariant.
* `SeenStaysReported`, without the persistent loop: `SeenIsReported` is not
  inductive, since a store writes back what the thread loaded before. The
  invariant `SeenInv` adds that every byte a thread holds contains what was
  folded of its slot. A fold breaks that for threads that survive it, which is
  why the theorem assumes `~Persistent`, and the run `map_persistent` shows that
  it must.
* `RunsNeedNews`, without the persistent loop: `NewsInv` says that what is in the
  map or in a thread's hands, off the sentinel byte, is folded already or in
  `fresh`.
* `MapImplementsLog`: each step is a `Submit` of the log or a stutter, with the
  pairs (slot, bit) in `msan_traces` as the log.
* `AccurateRunsArePaidFor`: from the refinement, a `Submit` adds a pair for the
  run it counts.
* `FoldLeavesNothing`: `FoldComplete` with the invariant that an execution that
  finished recording leaves the sentinel set, which a racing update of that byte
  cannot undo because it sets a bit too.
* `CompletedViolationsAreSeen`, with one thread: the invariant says which bits
  are in the map at each point of the handler, that the sentinel is set as long
  as a finished violation is unchecked, and that the fold takes all of the map.
  With two threads a record can be lost (`RecordedOnMap`).
* `ExtentStaysValid`: the record of what free poisoned is right, but for bytes
  the program stored to after the free, in every build and with any flags. It is
  this theorem that rests on free giving shadow pages back before it poisons and
  not after; the runs do not take glibc in the default convention, where the
  order would show.
* `NoByteIsMissed`, where malloc poisons, in both allocators in the default
  convention and over glibc in the flipped one: the invariant fixes the shadow of
  every byte of a live block from `written`, and needs the validity of the record
  when `poison_reuse` is set. The flipped convention over the combined allocator
  is left out because there the property is false (growth in place, above).
* `FlippedGlibcMissesNothing`: outside the bytes with a value the shadow is zero
  everywhere, in free memory too, so malloc need not poison.
* `NoAlarmIsFalse`, both conventions, both allocators, all flags: bytes with a
  value are inside their block and clean (`CleanInside`), because growth in place
  marks only what is past the old end, and what malloc and free poison has no
  value yet, or none any more.
* `DeferredChecksAreReached`, for every function and graph, unless
  `ClSinkPastBarriers` is set: the invariant says of every load that read poison
  and is not reported that execution is on a barrier-free way to its check, or
  inside the loop whose accumulator holds it. The step from post-dominance to "the
  next block is still on the way" is the lemma `RegionClosed`.
* `WarnedOncePerRead`, for every function, whatever the flag. The invariant
  `OnceInv` says that a shadow that is still poisoned and no longer owed is behind
  its check: later in the block of the check, in a block that follows it without
  the block of the load in between, or back in the block of the load before the
  load (`Past`). What remains is a fact about graphs, `SinkNeedsNewLoad`: if the
  load's block dominates the check's, both have the same innermost loop and the
  graph is reducible, then no cycle through the check's block avoids the load's.
  A region is the least closed set, so each step of its proof names a closed set,
  and no path is written down. The blocks on the cycles that avoid the load are
  connected among themselves (`AroundConnected`). Reducibility and finiteness give
  one that dominates all its predecessors among them (`HeaderOf`), so it heads a
  loop around the check (`AroundLoop`). The check has an innermost loop
  (`InnermostLoop`: headers of loops around a block form a chain by dominance),
  which contains the load, so this header dominates the load too; the load
  does not dominate the header, so the check is reached around the load,
  against dominance.
* `OnlyLoopsLoseReads`: by the same lemmas the exception of
  `ReportedBeforeLeaving`, a loop that comes back to the load around its sink, is
  empty for a load that is in no loop.
* `HandlerAlwaysCallable`, `TableAgreesWithKernel`, `OldactIsTheLastAct` and
  `OldactIsAlwaysUsable`, for any number of threads and handlers and whatever the
  program passes on, share one invariant: `sigactions_mu` is
  held exactly during a `sigaction()`; the table has a function whenever the kernel
  has a wrapper or a call in progress is about to install one; no wrapper is in
  the table, in an argument or in `old_cb` as long as the program passed none on
  (`RestoredInv`); a `sigaction()` that found the entry unwritten finds no wrapper
  in the kernel afterwards, because a `signal()` half done would have written it
  first and another would have to wait for the lock (`UnwrittenInv`); a call that began
  with no `signal()` half done finds its own entry in the table at its end, and
  beside it only queries; and as long as nothing overlapped, what is in effect
  is the last act, or will be `oldact` of the one `sigaction()` in progress.
* `NoWakeUpIsLost`, `WriterFindsItsFlag`, `SomebodyWillWakeThem` and
  `MutexImplementsLock`, for any number of threads, share one invariant:
  `HoldersInv` (the lock bits are who holds the mutex), `WaitersCounted`,
  `FlagInv` (a set flag belongs to a thread that is awake or being woken),
  `WriterInv` (at most one writer is, and then the flag is set), `ReaderInv`
  (readers that wait have a writer before them, which is why `ReadUnlock` need
  not wake any) and `NoOneForgotten`. The refinement maps threads at `held` to
  holders of the abstract lock; all else stutters.
* `NoChunkHasTwoOwners`, `ChunksDoNotLeak` and `LocksAreHeldByTheLiving`, for any
  threads, chunks and capacities: the invariant says that the places a chunk can
  be in (`At`: the program, the caches, the free array, what a thread frees or
  carries) are a partition of the chunks at every step, with the half-done step
  of `PopulateFreeArray` counted as done (`Counted`); which threads carry
  something (`CarriesInv`); that the two mutexes are held by who is inside
  (`RegionInv`, `FallbackInv`); and that the cache of a thread that ended is
  empty (`EmptyInv`).
* `VarargsAlwaysClean` and `CallerFrameStaysPoisoned`, for any lists of arguments,
  any number of registers and any nesting. One half is about a single call: by
  induction over its arguments the pass and the calling convention take registers
  alike (`SameRegisters`, from `RegisterLeftIs`), and the words on the stack are as many as were counted
  or have a hole (`AreaCovered`). The induction is by a least counterexample
  (`IndexInduction`), which needs no theorem with an operator parameter, and the
  recursive functions are shown to exist the same way (`Recursion`). The other
  half is about steps: a size stored and not yet read is in the thread-local
  variable or, while handlers run, in the backup of the outermost (`CallInv`), so
  that a callee reads the size of its own call (`EntryInv`).

The assumptions are those the modules declare, which TLC evaluates for its
instances; `SinkChecks` also assumes of each function what the IR verifier and
LLVM's analyses guarantee. Only model-checked: `LeftoverIsSeen`, `RegionReleased`
and `WantedIsTaken`: liveness under fairness is out of the prover's reach.

## Not modelled, and plan

Every invariant and every action property that a run checks is stated by a
theorem, and so are the two refinements.

Left out for a reason:

* the header words, canaries and double-free detection of the glibc layer: they
  live in memory that glibc's own free lists reuse, and glibc is not part of the
  repository;
* the diagnostic handlers, `expect_umr`, origins and reports: off in the fuzzing
  build, text output;
* the visitors of the pass that compute the shadow of arithmetic, vector and
  intrinsic instructions, and the bodies of the libc interceptors: straight-line
  code without state of its own;
* the atexit chain and the dlopen hooks: lists that only grow, under one lock;
* the string, queue and option code of AFL++: inherited, I/O;
* most of `sanitizer_common` and `interception`. Of the 67 thousand lines under
  `src/src`, about 16 thousand are CQMSan's own; the rest is vendored, and most
  of that is platform tables, other operating systems, the symbolizer and
  printing, where there is nothing to model. What CQMSan relies on when threads,
  signals and forks meet (the allocator's caches, the mutex) is modelled.
