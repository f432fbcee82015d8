# A verification project for Rayzor

Rayzor is a Haxe compiler with a tiered JIT: a program starts in an interpreter,
a background thread compiles what turns hot, and the running program moves to
the compiled code. The compiler itself is a pipeline of sequential passes. What
is hard to get right, and hard to test, is concurrent: how code is published
while it runs, the runtime objects Haxe threads share, the pool of threads under
the tensor kernels, the allocator. This project models that part in TLA+, and
one sequential algorithm of the compiler (the order of compilation); it checks
the models with TLC on small instances, and proves with TLAPS, for every
instance, each safety property and action property that a passing run checks and
the refinement of the fork-join.

Paths below are relative to the repository. `PROJECT.json` lists the runs, the
mutant of every checked property, the source lines of every definition, the
findings and the hazards.

## 1. Inventory

### Parts that are modelled

| part | state it keeps | operations | interacts with |
|---|---|---|---|
| Promotion barrier (`compiler/src/codegen/tiered_backend.rs`) | state Idle / PromotionRequested / PromotionInProgress, execution counter, two condition variables | enter, wait and enter, exit; request, wait for drain, complete, cancel | `execute_function` enters it around compiled code |
| Tier-up (same file, `execute_function`, `BackgroundTierUp`; `mir_interpreter`) | function tiers, function pointers, the interpreter's native table and resume points, the loaded modules, the request channel, what the worker has served | execute, interpret, call, turn hot, transfer, bail out, compile everything; receive, compile a unit, install, LLVM | program thread and worker share the maps behind `RwLock`s, a channel and atomics |
| Channel (`runtime/src/concurrency.rs`) | buffer, closed flag, one mutex, two condition variables | send, try_send, receive, try_receive, close | called from any Haxe thread |
| Future (`runtime/src/future.rs`) | state Pending / Running / Settling / Resolved, value behind a mutex, error fields, cancelled flag, callback and its environment | await, await with time-out, then, poll, cancel, all, race; the worker's completion; a plugin's resolve and reject | its threads are counted in `ACTIVE_THREAD_COUNT`; re-throws through `exception.rs` |
| Threads (`concurrency.rs`; the caller of main in `cranelift_backend.rs`) | `ACTIVE_THREAD_COUNT`, join handles | spawn, join, create, wait for all, clean up the JIT | the count keeps the JIT code alive |
| Deque, semaphore (`concurrency.rs`) | a list or a count, one mutex, one condition variable | add, pop; acquire, try with and without time-out, release | called from any Haxe thread |
| FixedThreadPool (`compiler/haxe-std/sys/thread/FixedThreadPool.hx`) | its deque, its workers, the shutdown task | new, run, shutdown, the worker loop with its catches | threads and deque above |
| Condition (`concurrency.rs`) | mutex, condition variable, the guard of whoever holds it | acquire, try, release, wait, signal, broadcast | called from any Haxe thread |
| Tensor worker pool (`rayzor-tensors/src/worker_pool.rs`) | one slot per worker with a state flag, parked flags and their count, the pending countdown, bands with cursors | parallel_rows, park and wake, claim a chunk, drop | the caller's stack holds the closure while workers run it |
| Object pool (`runtime/src/object_pool.rs`) | base, next and end of a region; per thread and class a free list and the rest of a chunk | reserve, carve, allocate, free | blocks cross threads |
| Dependency graph (`compiler/src/dependency_graph.rs`) | nodes, edges; the search's and the sort's work lists | build, find cycles, sort | the pipeline compiles files in its order |

What makes each one correct:

- **barrier**: no compiled code runs while pointers are swapped; the counter is
  exact; a granted promotion ends.
- **tier-up**: a function at a compiled tier has code; code only calls what has
  code; the interpreter and `execute_function` agree on what is compiled; no
  tier goes down; what turned hot is served; vector code is never interpreted.
- **channel**: the capacity bounds the buffer; a message or a free slot never
  lies next to a sleeper nobody will wake; close releases everybody and is final.
- **future**: the closure runs once; a reader sees its result, and the initial
  value only of a future that was resolved with nothing in it; no registered
  callback is missed; an await returns.
- **threads, deque, semaphore, thread pool**: the count is exact, so no JIT code
  runs once it was waited for; no element or permit lies next to a sleeper
  nobody will wake; every task that is in the queue at the shutdown runs once;
  the program ends.
- **condition**: one thread at a time is between acquire and release.
- **worker pool**: each row is run exactly once and before the call returns;
  nobody touches the closure afterwards; calls and the drop return.
- **object pool**: a chunk has one owner, a block is in one place, nothing
  outside of the region is touched.
- **dependency graph**: what is imported comes first; no file comes twice and
  none with a name of its own is left out; cycles are reported exactly when there
  are any.

### Parts that are not

Every other part is in `PROJECT.json` with its reason. They are most of the
lines of the repository: parser, macros, type checking and lowering, MIR
optimisation and the code generators are sequential functions from programs to
programs. To say that one of them is right takes a semantics of Haxe, of MIR and
of the target, and a statement about all programs; a model of their case
analyses over a handful of tiny programs would be a copy of the code, with
nothing to check it against but itself. The standard library, the bindings to
GPU and windows, and vendored code are calls into something else. So the share
of the repository's lines this project models is small, and is nearly all of the
code that more than one thread runs.

### Behaviour that is hard

Lost wake-ups (a flag tested under a mutex and written without it, or tested
through a store buffer); a check under a read lock followed by a write under a
write lock; two threads publishing code for the same functions in different
orders; a look at a table that is stale when it is acted on; a time-out racing
the answer; an error that leaves a critical section by `longjmp`; a callback
racing the completion it waits for; an assignment that drops before it writes;
a frame that must outlive the threads that use it. The hazards in `PROJECT.json`
give the line of each and the property that would catch it.

## 2. Modules

| module | what |
|---|---|
| `PromotionBarrier`, `MCPromotionBarrier`, `PromotionBarrier_proofs` | the barrier |
| `TierUp`, `MCTierUp`, `TierUp_proofs` | tier-up of an interpreted program |
| `Channel`, `MCChannel`, `Channel_proofs` | the channel |
| `Future`, `MCFuture`, `Future_proofs` | one future, `all` and `race` included |
| `Threads`, `Deque`, `Semaphore` | objects of the runtime, each with its own state and operations |
| `ThreadPool`, `MCThreadPool`, `ThreadPool_proofs` | a program with a `FixedThreadPool`: composes the three |
| `Condition`, `MCCondition` | the condition |
| `ForkJoin` | abstract: what `parallel_rows` promises |
| `WorkerPool`, `MCWorkerPool`, `WorkerPool_proofs` | the tensor pool, which implements `ForkJoin` |
| `ObjectPool`, `MCObjectPool`, `ObjectPool_proofs` | the allocator |
| `DependencyGraph`, `MCDependencyGraph`, `DependencyGraph_proofs` | cycles and order of compilation |

Operators called "Mutant" in a comment are not part of any specification: each
is a plausible bug, and replacing the definition that follows it by the mutant
makes TLC refute the property the mutant is listed for.

### How state and steps correspond to the code

Atomics are sequentially consistent, except in `WorkerPool`. A condition
variable is a wait set: the threads whose program counter is at the wait.
`Condvar::wait` releases the mutex and joins the set in one step, may return
spuriously, and must take the mutex again. `notify_one` wakes one member or
none. Logging, formatting, profiling counters and stack-trace bookkeeping are
left out.

**PromotionBarrier.** One step is one load, store, exchange, lock, wait or
notify; `pc` and `ppc` say where an executor or a promoter is. `late` holds the
promoters whose drain deadline has passed, which may happen at any time. At this
commit `execute_function` calls the executor half, while `request_promotion`,
`wait_for_drain`, `complete_promotion` and `cancel_promotion` have no caller:
single installs skip the barrier (comment at `tiered_backend.rs:1644`). The
promoter (`Request` ... `CancelNotify`) is the caller the struct's comment
describes: request, drain, swap, then complete; cancel when the drain or the
swap fails.

**TierUp.** The mode modelled is a program that starts interpreted with
background compiles (`start_interpreted` and `enable_tier_promotion`, without
`RAYZOR_TIER_UP_SYNC`). In this mode `record_call` hands hot functions to the
worker before it reaches the beadie routes, so these do not appear. Code is
known by its maker: `"baseline"`, `"all"` (compiled by the program thread),
`"llvm"`.

- One critical section of an `RwLock` is one step; `compile_all_modules_jit`
  inserts pointers under a lock taken per function, so each is a step, and so is
  each `install_native`. A walk that holds the read lock of `function_pointers`
  (`mpc = "natives"`) keeps `Write` out. `install_native` stores into the table
  and then sets the flag behind `has_natives`; that is one step.
- `epoch` tells which copy of the modules is loaded: `SwapModules` replaces them
  once, and a frame, a request and a resume point name the copy they belong to.
- Requests are a set, from which the worker takes any: a superset of the
  first-in-first-out order. `seen` is by function and block, without the copy,
  as in the code.
- A function has at most one loop, and `Places` says where it turns hot. A
  function may turn hot whenever it is interpreted (`Warm`): thresholds are not
  counted.
- `Resumable` holds the functions whose loop can be given a resume point: outside
  of it are the loops `build_resume_variant` refuses, and all of them when OSR is
  switched off. A successful compile gives a loop its way in only if it is in
  this set (`AddResumePoint`, `StoreResumes`); a loop is tried once either way.
- A compile is a step that succeeds or fails as a whole. Functions Cranelift
  leaves out of a successful compile, and the start-up registrations that
  follow `compile_all_modules_jit`, are not modelled. Calls with arguments into
  compiled code (interpreted again by `execute_function`), several interpreter
  threads and the move of a Cranelift loop into LLVM code are not either.

**Channel.** The code between lock and unlock (or wait) is one step; the notify
that follows the unlock is another. `msg[t]` is what `t` sends or received.
`try_send` and `try_receive` that fail change nothing and are stutters.

**Future.** One handle, one call per thread. The worker spawned by caller `t`
has its own counter `wpc[t]`; a plugin's settler completes the future on its own
thread with the same steps, and so does the coordinating thread of `all` or
`race` (`CombineAll`, `CombineRace`), whose sub-futures end with any of the
outcomes. A coordinating thread may panic before it has stored anything; its
handler resolves the outer future with no value, no error and no call of the
callback (place `"bare"` of `wpc`). The values are who produced them: `"zero"` is
the initial content of the cell. The history variable `bare` records that
Resolved was stored before there was a value or an error, by a cancel or by that
handler; no action reads it. `lock` stays with the awaiter that re-throws: the throw is a `longjmp`
and the guard is not dropped. `Init` is one of three: a lazy future, a plugin's,
or the outer future of `all` or `race`.

**Threads, Deque, Semaphore, ThreadPool.** `Threads` has the count and the life
of each thread: a thread of `rayzor_thread_spawn` gives its count back when its
handle is joined, one of `sys_thread_impl_create` when its job ends. `act` is
the runtime call an actor is in, `main` how far the caller of the main function
is: it waits for the count to be zero and only then drops the JIT code. `Deque`
and `Semaphore` keep the caller's place in `deq[t]` and `sem[t]`; a critical
section is a step, the notify of `release` another because it comes after the
unlock (that of `add` is under the mutex). A time-out may happen at any time
while a thread dozes (`TimeOut`). `ThreadPool` instantiates both and adds the Haxe
code: the pool's constructor, `run`, `shutdown`, and the worker's loop, whose
two catches leave on the shutdown exception and start a replacement for a worker
whose task threw. Tasks are of the `Kinds` of the run: they take a permit of a
shared semaphore by waiting (`"waits"`), by waiting and then throw (`"throws"`),
or by trying, with a time-out or without (`"tries"`). Main may start a helper
thread that submits tasks too, and may or may not join it. The helper's `run`
tests `_isShutdown` in one step (`RunTest`) and adds in another (`RunAdd`); main,
which is the one to shut down, does both in one (`Run`). `shutdown` waits for
nobody, so the helper's task can come behind the stops. `sub[x]` says how far
the submission of a task is: not begun, accepted by the test, added before the
shutdown or added after it.

**Condition.** The guard field is what matters: assigning to it drops the old
guard (and so unlocks) and then writes, which are two steps. Callers follow the
documented protocol: release, wait and signal only between acquire and release.

**WorkerPool.** One step is one atomic operation. Stores that are weaker than
SeqCst may be seen late: a caller's flips of the state flags wait in `flips`, a
worker's own `parkedOwn` runs ahead of `parked`; both are visible at the next
SeqCst fence at the latest. The two environment switches (chunk stealing, caller
participation) are chosen in `Init`. `drv[t]` is what a thread does inside a
closure: which band, which chunk. `pending` wraps at `USize`. `touched` counts
how often each row was run; with `open` (the caller is inside a call) it is the
state of `ForkJoin`, and `ImplementsForkJoin` is the refinement.

**ObjectPool.** Addresses are counted in chunks, blocks in units. The reservation
is one step per atomic operation: load, `mmap`, exchange, store of next, store
of end (`NewChunk` ... `StoreEnd`). Allocation from and free to thread-local state is one step each. `fault`
records a header written outside of the region or a block of the pool passed to
libc, which is where the process may die.

**DependencyGraph.** `Init` chooses the names and imports of the files; `Root`,
`Look`, `Return` are the recursive search with its stack made explicit, `Take` an
iteration of Kahn's loop. Names are numbered in the order the maps iterate, so
the run is deterministic after `Init`, as the code is. A file whose name another
file has too is replaced by the later one, as `HashMap::insert` does. `Init` allows any number
of imports; `MCInit` of the run bounds it and lists the files by name.

## 3. Runs

Passing runs:

| run | instance | states | shows |
|---|---|---|---|
| `barrier` | 2 executors, 1 promoter | 4,327 | exclusion of swap and execution, exact counter; every granted promotion settles |
| `tier_up` | 3 functions in a chain, two looping (one of them without a possible resume point), one vector; Cranelift and LLVM; one call of `execute_function` | 2.8 million | `TierHasCode`, `CalleesServed`, `PublishedEverywhere`, `RequestSettled`, `NoDowngrade` |
| `channel` | 4 threads, capacity 2 | 70 thousand | no overfull buffer, no lost wake-up, close is final and releases everybody |
| `future` | one each of await, timed await, then, poll, cancel, all, race, two settlers; closures return, throw or panic, and so do coordinating threads | 488 thousand | single completion, exact thread count, what is returned is the value kept (the initial 0 only of a future resolved with nothing in it), forward state, stable result, callback not missed |
| `thread_pool` | 5 threads, 2 workers, 2 tasks of 2 kinds (throwing, trying), 1 permit | 485 thousand | exact count, no JIT code after the wait, no lost task or permit, every task added before the shutdown once, the program ends |
| `worker_pool` | 2 workers, 1 caller with two calls of 1 or 20 rows, all four switch settings | 257 thousand | refinement of `ForkJoin`; no closure is touched after its call; calls and drop return |
| `object_pool` | 2 threads, 2 classes, 2 chunks of 3 units | 762 thousand | one owner per chunk, every block in one place |
| `dependency_graph` | every program of 4 files, up to 4 names and 4 imports | 881 thousand | cycles exactly when there are any, imports first, no file twice and none with its own name missing, termination |

Runs that refute a statement of the repository (each with its finding):

| run | statement | what the code does |
|---|---|---|
| `future_await_hangs` | `await` blocks until resolved | the worker resolves between the awaiter's test and its wait, and it sleeps for ever; and a re-throw leaves the value mutex locked for the next await |
| `tier_up_vector_code` | vector functions go to Baseline because they cannot be interpreted | a callee with vector code is interpreted, and fails once any function has native code |
| `condition` | the guard stays in the handle until release | an assignment drops another thread's guard, and two threads hold the condition |
| `object_pool_region` | chunks are carved from one reserved region, and failure to reserve it is not fatal | a chunk is carved at address 0 before REGION_NEXT is stored; a failed `mmap` sends another thread's blocks to libc |

**Why the bounds are enough.** Two executors are needed for one to be counted
while another backs out. Four channel threads give two sleepers on one side with
a sender and a closer, or two receivers racing a `try_receive`; capacity 2
separates full, half full and empty. The three functions of `tier_up` are a root
whose loop is compiled and can never be entered half-way, a loop that gets its
resume point, and a callee that forces a bail-out, so that compiling everything, the
worker's unit and the LLVM tier overlap; more functions repeat these roles,
which the proofs settle for every program. For a future, one caller per
operation is enough for every pair of operations to race; two settlers for the
exchange. In `thread_pool` five threads are two workers, a helper and two
replacements; two tasks on one permit are one holder and one waiter, which sleeps,
dozes or gives up. A task that waits and does not throw differs from one that
throws only after it gave its permit back. In `worker_pool` one row runs inline or on one band, 20 rows fill
two bands with a steal at the end of one; two calls let a worker that is late
from the first meet the second. In `object_pool` a chunk of 3 units has a rest
for a small block and none for a large one, and two chunks run out. Four files
hold a cycle of up to four, a cycle below a root, and two files of one name.

Deadlock is checked in the barrier run only: every other system may stop (a
program that has ended, threads that all wait for each other, calls that all
returned). What must not stop is stated as a temporal property.

### Where the code departs from its documentation

The four runs above refute a statement each. The models show these departures as
well; the properties are stated so that they leave them visible, as exceptions
that are named, and do not claim what the documentation says.

- "After cancellation, `.await()` returns null" (`runtime/src/future.rs:786`,
  `compiler/haxe-std/rayzor/concurrent/Future.hx:109`; for the timed await
  `future.rs:367`). An await of a cancelled future returns the content of the
  cell: a boxed 0, or the result if the worker stored it all the same.
  `ReturnedResult` says which of the two: the initial 0 comes out only if
  Resolved was stored with nothing in the future (`bare`).
- "The callback is called ... when the future resolves" (`future.rs:429`,
  `future.rs:472`, `Future.hx:56`). The coordinating thread of `race` resolves
  the outer future without looking for a callback (`future.rs:653`), so one that
  was registered before is never called. A cancel does not call it either.
  `CallbackMade` excepts both.
- When a coordinating thread panics the outer future is resolved "so .await()
  doesn't hang" (`future.rs:628-633`, `754-758`), with no value, no error and no
  call of the callback: an await then returns 0 as if that were the result.
- `FixedThreadPool.run` "throws an exception if the pool is shut down" and after
  `shutdown` "no new tasks will be accepted" (`FixedThreadPool.hx:63`, `75-77`).
  A `run` of another thread that has tested `_isShutdown` (line 66) adds its task
  behind the stops (line 70 after lines 82-84): it is neither rejected nor, once
  the workers took their stops, run. `AllTasksDone` promises the call to the tasks
  that were added before the shutdown, and leaves such a task open.
- "Register all files as nodes" (`compiler/src/dependency_graph.rs:71`, `75`). Of
  two files with one name only the later one stays, the others are not compiled;
  every file that begins with a conditional declaration has the name
  "Conditional" (line 128). `EveryFileOnce` claims the listing for files whose
  name is their own.
- After a close "send() will panic" and receive will "throw ChannelClosed"
  (`Channel.hx:92-93`); the code returns. `ClosedIsFinal` says that the message is
  not taken.

### Known gaps

These are visible in the models and would fail if stated; nothing in the
repository promises them or depends on them at this commit.

- With two promoters the barrier does not exclude: a worker whose drain timed
  out cancels a promotion another one has begun (`tiered_backend.rs:245`).
  `SwapExclusion` has a single promoter as its hypothesis.
- An executor can sleep on an idle barrier: complete and cancel store and notify
  without the wait mutex (`tiered_backend.rs:161`, `229`).
- `then` publishes its callback before its environment (`future.rs:446`), so the
  worker can call it with none; both can call it; a failed future's callback
  gets the initial 0. A second `then` replaces the first. `CallbackMade` asks
  that the callback registered last is called at least once.
- A thread of `rayzor_thread_spawn` that nobody joins keeps its count, and the
  program never ends (`concurrency.rs:307`): the exception in `ProgramEnds`.
  Likewise a counted thread that itself waits for the count to be zero
  (`concurrency.rs:97`).
- Two callers at a time on one tensor pool overwrite each other's slots and
  countdown; `parallel_rows` takes `&self`, so nothing keeps the second one out.
  A kernel that panics never counts down (`worker_pool.rs:622`).
- Two interpreter threads can store older resume points under a newer generation
  (`mir_interpreter/exec.rs:373`).
- The tier-up worker's `recv` never disconnects, because the program it holds
  owns a sender (`tiered_backend.rs:4799`); the process exits under it.
- A thread that ends takes its free lists with it (`object_pool.rs:92`).

## 4. Fairness

Weak fairness of each thread's own steps: the scheduler runs a thread that can
move. Strong fairness of taking a mutex where it matters (`WaitLock`,
`WaitReturn`, `AwaitLock`, `StoreValue`): a mutex that is free again and again is
obtained in the end. A deadline passes (`DeadlinePasses`, `TimeOut`). In `WorkerPool` a
delayed store becomes visible in the end (`Visible`), as it does on every
machine. In `ThreadPool` the main function goes on, the helper returns, and tasks
reach their end: `ProgramEnds` is about what the runtime adds to that. In
`DependencyGraph` the only thread runs.

Not assumed: that anybody calls an operation, that JIT code or a future's closure
returns, or that a condition variable or `park` wakes anyone spuriously.
`AwaitReturns` is refuted under this fairness, so it is the missed notification,
or the lock that was left behind, that stops the thread.

## 5. Proofs

All theorems hold for every value of the constants that satisfies the `ASSUME`s
of the modules. Each is proved from an inductive invariant that TLC was asked
about first.

**PromotionBarrier_proofs.** `TypeCorrect`, `CounterCorrect` for any finite set
of executors and any promoters: the counter is the cardinality of the executors
between `fetch_add` and `fetch_sub`, and each step adds or removes one element.
`SwapExclusion` for a single promoter. `SwapExclusive` is not inductive: it needs
`PhaseMatchesState` (the state word says which phase the promoter is in) and
`Drained` (from the load that saw zero until Idle, nobody runs, because whoever
adds itself sees the request at its second load).

**Channel_proofs.** `TypeCorrect`, `CapacityBound`, `ReceiversWoken`,
`SendersWoken` and `CloseIsFinal`, for any number of threads and any capacity,
the unbounded channel included. The argument counts tokens: a message next to a
sleeping receiver is matched by a receiver that is awake or a sender about to
notify, and a step moves at most one token (`TokenCount`).

**TierUp_proofs.** For any set of functions, any call graph, any of them vector
code, with and without LLVM:

- `TierImpliesCode`, `CalleesHaveCode`, `TiersOnlyRise`. The invariant `CodeInv`
  adds what the worker knows between its steps: the unit it took is closed under
  calls up to code that exists (`UnitClosed`, from the lemma `UnitIsClosed` about
  the least closed set), the LLVM unit is the whole program, what `install` kept
  has not reached the top tier, and the walk over the pointers only meets
  functions that have one. It is inductive because pointers are overwritten and
  never removed.
- `TypeCorrect`. Its content is that there are two copies of the modules at most:
  `ReplacedOnce` says that everything is compiled before there is any code, and
  that the first pointer keeps `execute_function` and a bail-out from doing so
  again.
- `TablesAgree`. `HandOver`: a function with a pointer and without a native entry
  is on the list of the one thread that still has to install it.
- `RequestsSettle`. All requests the worker has seen but the one it serves are
  settled (`OthersSettled`); for that one the invariant keeps what the worker
  learnt: a loop is tried once, its unit holds the function, and it goes on with
  the loop's entry point or leaves a resume point. What is claimed of a loop
  outside of `Resumable` is only that its function has code.

**Future_proofs.** For any number of callers in every role: `SingleCompletion`,
`NoPrematureResult`, `StateOnlyForward`, `ResultIsFinal`, `CountGivenBack`.
`FutureInv` ties the state word to the place of the completer: a future that can
still be started has none (`Unstarted`), the value or the error is stored before
Resolved is (`Stored`), Resolved that is not `bare` comes from the completer
(`ResolvedByCompleter`), whoever cancelled, and a caller in the middle of a call still finds what it
saw (`CallerSaw`). `CallbackNotMissed` has the hypothesis `OneThen`, that one
thread at most calls `then`: a second call replaces the first callback, as
section 3 says. From the load of `then` that does not find Resolved on, the
callback was called or the completer is still to come to it (`CallbackInv`).

**ThreadPool_proofs.** Six theorems about the composition, for any number of
threads, workers, tasks and permits. Every step of the program is a step of
`Threads` or leaves its variables alone (`ProgramStep`), so `CountCorrect` and
`JitOutlivesThreads` are proved of `Threads`' own steps. `ThreadInv` adds to the
exact count that a thread's kind fits its life, that a thread being started
belongs to one starter, that who joins holds a handle, and that after the wait
the count is zero: from the last, nobody is left who could start a thread.
`NoLostTask` (`DequeInv`: the queue is no longer than the set of poppers on their
way to the mutex, once anybody sleeps) and `NoLostPermit` (`SemInv`, with the
threads about to notify counted as well; a thread that times out takes the
permit if there is one) count tokens as in the channel. `SubmittedTasksRun` and
`TypeCorrect` rest on `TaskInv` (a task is in the queue, with one worker, or was
called), `StopInv` (every stop is behind the tasks added before the shutdown, so
whoever has taken one has left none of them in the queue; until the first stop
is taken there are as many workers as were created, a replacement taking the
place of the worker it replaces, and so a task is not left without a worker)
and `PermitInv` (permits are free or held).

**ObjectPool_proofs.** `ChunkHasOneOwner` and `BlockInOnePlace`, for any number
of threads, classes and chunks. What `fetch_add` gave out is below REGION_NEXT
and was given out once (`Claimed`), although REGION_NEXT is stored after other
threads may have added to it: the chunks carved before that are few, and too few
to reach the region (`Few`, with the assumption `RegionIsHigh` that the address
of the region is larger than the number of such carves plus the threads). A
block was carved from a chunk whose header names its class, and is held or once
on one list (`Placed`).

**DependencyGraph_proofs.** For any number of files, names and imports:
`CyclesFoundAlways`, `ImportsComeFirst`, `EveryFileListed`. `SearchInv` is the
argument for depth-first search in terms of its stack: the path follows the
edges, a neighbour that was looked at is visited and not on the stack unless a
cycle was reported, and what was left reaches nothing open and is in no cycle.
No induction over paths is needed: being in a cycle is stated with closed sets of
names. `SortInv` says that `in_degree` counts the dependencies that are not in
the order, and that a name is queued once and exactly when there are none.

**WorkerPool_proofs.** `FrameOutlivesWorkers` (`ClosureAlive`) and
`PoolForksAndJoins` (`ImplementsForkJoin`): for any number of workers, rows and
threads asked for, any number of calls, in all four modes and with the delayed
stores, the pool implements `ForkJoin`. The hypothesis of both is `OneAtATime`:
calls do not overlap. With one caller it always holds; with several it is for the
callers to see to (section 3).

- `FrameInv` follows a worker through a dispatch: slot not written, flag not
  visible, flag set, flag reset and not counted down. The countdown is the number
  of workers in these stages (`Counted`), so that it reaches zero, without
  wrapping, only when nobody is inside the closure or on his way to it.
- `RowInv` is about the rows: each is run, in the hands of one thread, or
  unclaimed, and in one of these only (`Placed`). A row is unclaimed if a cursor
  has not passed it, or if the static band it is in has not been entered. A
  stealing driver ends when all bands are drained, so at the join nothing is
  unclaimed: one worker at least has left the closure (`LeftDrained`).
- The lemmas on the cut say that the bands are disjoint (`BandsDisjoint`), cover
  the rows (`BandsCover`) and have a worker, or the caller, each
  (`DispatchFacts`).
- The steps: `Call` is `Fork`, running a band or a chunk is `Compute`, leaving
  `parallel_rows` is `Join`; all others change neither who is in a call nor the
  rows (`RefineStep`).

**Only model-checked.** Liveness and everything under fairness is outside the
prover: `PromotionSettles`, `CloseReleases`, `NobodyStranded`, `ProgramEnds`,
`JoinReturns`, `DropReturns`, `AnalysisEnds`. The runs that refute a statement
show a counterexample and have nothing to prove.

**Assumptions.** Finite sets of threads, executors, callers and functions; a null
value, a stop task or a main thread that is no member of the set it is added to;
a call graph, and loops with a resume point, over the known functions; callers of a future that make
one call each (`RolesDisjoint`: a thread that makes several is several callers); a countdown wide enough for the workers (`CountdownFits`, a `usize`);
classes that fit into a chunk; `RegionIsHigh` above. TLC evaluates all of them on
the instances of the runs.

## 6. What the models leave out

Weak memory orders outside of the worker pool's flags; failures to spawn a
thread; poisoned mutexes; overflow of 64-bit counters (the worker pool's
countdown wraps); freeing an object while it is used (the callers' obligation in
the code); of `TierUp`, the points listed in section 2; the tensor pool of
`RZT_LEGACY_POOL=1`, and panics of a kernel; `push` and the non-blocking `pop` of
the deque; `ElasticThreadPool`; `select`, which polls channels in turn and keeps
nothing. The sub-futures of `all` and `race` are abstract: that `all` reads the
value cell of a sub-future that failed (`future.rs:599`) is not stated.

## 7. Plan

1. `Condition` and the two negative results about `Future` and `ObjectPool` have
   no theorem. Worth proving: for the condition, exclusion under the hypothesis
   that nobody waits; for the object pool, that no header is written outside of
   the region once it is reserved and no `mmap` failed.
2. The barrier with several promoters under the hypothesis that no drain times
   out.
3. Worth modelling after that: several interpreter threads and the cache of
   resume points in `TierUp`, and the bead life cycle.
