# Specifications of the ArkCompiler ETS runtime

TLA+ models of the parts of the runtime in which several threads share state: how
threads stop each other, how requests reach a VM thread, the pool of worker threads, and
the marking and sweeping of the heap beside running JS code; and of one part that is
sequential but hard, the evaluation of modules with cycles and top-level awaits. TLC checks
them on small instances; TLAPS proves the main invariants for every number of threads,
tasks and objects.

Paths are relative to `src/ecmascript/` unless they start with `src/`.

## The system

A process runs one `Runtime` and any number of VMs. A VM has a `JSThread`, a `Heap`
with its collectors and a job queue. The VMs share the `Runtime` (the thread list, the
mutator lock), the `SharedHeap`, one `Taskpool` and one `Jit`.

| Part | State | Operations | What is hard |
|---|---|---|---|
| Thread states (`js_thread`, `runtime`, `mutator_lock`, `runtime_lock`) | state and flags of each thread, suspend counts, reader/writer lock, thread list | register, unregister, enter and leave RUNNING, suspend all, resume all | flags read before and used after a lock; threads that come while the world stops |
| Safepoint (`JSThread::CheckSafepoint`, `dfx/vm_thread_control`) | interrupt vector, two condition variables | suspend, resume, terminate, install code, end of a marking | one bit shared by five requesters, each with its own lock; timeouts |
| Task pool (`taskpool/`) | queue, terminate flag, running task per worker, use count | initialise, post, terminate tasks, destroy; the worker loop | VMs come and go; wakeups; join under a mutex |
| Concurrent marking (`mem/concurrent_marker`, `work_manager`, `parallel_marker`, `barriers`) | mark bits, stacks of grey objects, mark status, task counts | trigger, mark, barrier, finish, re-mark, reset | JS code changes the graph while it is marked; a marker waits for tasks of its own pool |
| Collections (`mem/heap`, `partial_gc`, `full_gc`, `stw_young_gc`) | spaces, collect set | choose, mark, sweep, evacuate, finish | they run inside each other through callbacks |
| Concurrent sweeping (`mem/concurrent_sweeper`, `sparse_space`) | sweeping and swept lists, remaining task counts, remembered sets | prepare, sweep, fill, ensure finished | JS code allocates from a space that is being swept |
| Evacuation (`mem/parallel_evacuator`) | workloads, forwarding addresses | evacuate, update references | two threads copy one object |
| JIT (`jit/`) | queue of finished tasks, compile tasks | compile, install, cancel | hand-over to the VM thread |
| Modules (`module/js_module_source_text`) | status, DFS indices, pending counts and parents of each module, the walk's stack | instantiate, evaluate, completion of an awaited body | cycles, errors halfway, completions from the job queue, a second load meanwhile |
| Jobs, promises, waiter list, string table, containers | queues, tables | ECMAScript's operations | order; several threads for the last three |

The remaining parts (interpreter and stubs, compiler, builtins, regular expressions,
serialisation, abc files, debugger, profilers) are sequential, or their state is the whole
object model. `PROJECT.json` lists every part with the reason it is modelled or not, and
every hazard with its line.

## Modules

Every module has one action per step that another thread can observe: an access to shared
state, or a critical section of a mutex that nobody holds across steps. A mutex that *is*
held across steps is a variable. Definitions carry the names of the functions they model.
Operators whose name begins with `Bug` are variants of the definition below them, with a
plausible mistake; the properties are tested against them.

### ThreadSuspension, StopTheWorld

`ThreadSuspension` has every state change of a `JSThread`. `state`, `suspendRequest`,
`suspendCount`, `suspendLock` and `checkSafePoint` are the fields of each thread;
`readers`/`writer` is the mutator lock; `threads`, `threadsLock`, `suspendNewCount` belong
to the `Runtime`, and `todo` is the part of `threads_` that a loop of `SuspendAll` or
`ResumeAll` has not reached. `gcMutex` is the collection mutex, taken through
`RuntimeLockHolder`. `StoreState` is four actions: load of the flags, read lock,
compare-and-exchange, and the unlock when a suspend request came between. `SuspendThread`
and `ResumeThread` take the flag and the safepoint bit in two steps under `suspendLock`.

`StopTheWorld` is the promise: once the world is closed nobody enters, and the initiator
goes on when nobody is left. The refinement mapping reads the mutators off `state`, and
the initiator and phase off `pc`.

### Safepoint

One VM thread and the threads that send it requests. `vector` is the interrupt vector.
Every request is two steps, because the request and `SetCheckSafePointStatus` take
`interruptMutex_` separately. `CheckSafepoint` resets the bit, serves a termination and
tests the suspend flag under the mutex, then goes through `SuspendVM`, `InstallTasks` and
`HandleMarkingFinished`. The stop-the-world is reduced to its flag and bit. There are two
ways into `CheckSafepoint`: generated code looks at the bit first (action `CheckSafepoint`), a
call from C++ into JS does not (`Execute`, from `interpreter/interpreter_assembly.cpp:230`).
`cleared` is history: somebody other than the VM thread has reset the bit, and no request has
set it since.

### TaskPool

Any number of VMs share one pool. `isInitialized` counts them; the first makes a `Runner`
and the last terminates and joins it. A task goes from `tasks` to a worker's `task`, is
entered in `runningTask`, run and destroyed. A task carries the id of its VM, or the global
id and one of the profile writer's two types; `TerminateTask` compares both, and the profile
writer withdraws its save tasks only. `target` and `called` record what a call of
`TerminateTask` is about.

### ConcurrentMarking

The heap is a set of objects with one reference each; `roots` is what the JS thread
holds. `inNode`, `outNode` and `workStack` are the work stacks, with `NodeSize` objects a
node, so that nodes fill up and helper tasks are posted. JS code loads, drops, allocates
and stores; a store is followed by the barrier in a step of its own, so markers run
between the two. The marker, its helpers and the JS thread share `MarkObject`, `Push` and
`Pop`. A collection joins an ongoing marking or marks by itself; its end frees white
objects, resets the marker and applies a postponed DISABLE. `PostParallelGCTask` is two steps,
the count and the post. `early` is history: `WaitMarkingFinished` has returned before the
marking was finished, which happens in two ways described under the findings; what the safety
properties say ends there.

### ConcurrentSweeper

Three spaces with free lists, whose regions go from `sweepingList` through the hands of a
thread to `sweptList` and from there to the allocator (`filled`). The threads are the
workers, which run a `SweeperTask` for each space and the `AsyncClearTask` that clears the
mark bits, and the JS thread, which allocates, waits for a space (`WaitingTaskFinish`, where
it helps), collects, and switches concurrent sweeping off and on, by request
(`EnableConcurrentSweep`) or around a fork (`DisableParallelGC`, `EnableParallelGC`). A
worker's test of `sweepingRSet_` and its use are two steps, since a barrier may take the set
over between them. `pc`, `index` and `region` are a thread's place in the loops. A region
has the two remembered sets of the code, `oldToNewSet` and `sweepingRSet`, over three slots:
one that JS code stores to, one it never stores to again, and one of a dead object. `young`
and `stale` are history: the slots that must be remembered, and the regions whose
`HAS_BEEN_SWEPT` was left over.

### ModuleEvaluation

One JS thread, so the state is that of its data: `mod` has the fields of each module record,
`walk` the stack and index of the walk under way, `calls` the C++ calls of which one is
inside the other. Both walks (`InnerModuleInstantiation`, `InnerModuleEvaluation`) share
`Descend` and `Close`, the pop of a cycle. The bodies of modules are abstract: a body without
a top-level await ends or throws, one with an await is put into `awaiting` and is completed
later, at any time at which jobs run, by `AsyncModuleExecutionFulfilled` or
`AsyncModuleRejectedFunc`. The recursions over the parents are closures (`RejectClosed`,
`GatherClosed`): the least set closed under what one call of the function adds. A `Jobs`
frame is the draining of the job queue after a body, where completions and loads nest.
`ExecuteFromJob` is the parameter of that name: TRUE for a dynamic import, which leaves a module
that is resolved alone, FALSE for a load from the host, which evaluates its module again and
drains the queue inside the walk. `started` and `finished` are history;
`spoiled` marks the two known deviations described under the limits below.

## Runs

| Run | Bounds | Checks |
|---|---|---|
| `suspension` | 3 threads, 2 stop-the-worlds, fair | `WorldStopped`, `CountsMatch`, `OneInitiator`, `RequestIsPolled`, `NoLateRunner`, `Refinement`; every operation of a thread returns |
| `safepoint` | 1 caller, 2 calls, 1 timeout, 1 stop-the-world, 1 compiled function, fair | `GrantedMeansParked`, `ReportedMeansParked`, `PendingIsPolled`, `TerminationPolled`; calls return, the VM thread resumes |
| `taskpool` | 2 VMs, 2 workers, 2 tasks, fair | `NoTaskLost`, `JoinedBeforeReuse`, `RunningIsOwned`, `OnlyPoppedEscapes`; tasks run, `Destroy` returns |
| `marking` | every heap of 2 objects, 2 workers, nodes of 1, 4 operations, 2 markings, 2 collections, 1 callback, 1 spurious wakeup, symmetric | `NoDanglingReference`, `MarkingIsOver`, `InitializedOnce`, `TasksCounted` |
| `marking_live` | 1 operation, 2 markings, 2 collections, fair | the marking finishes, the collection returns |
| `sweeper` | 2 regions of 2 spaces, 2 workers, 2 calls, fair | `RegionsAccounted`, `FinishedSpaceIsSwept`, `SweptByItsMarks`, `Remembered`, `NoDeadSlot`, `FoundSetStays`; calls return, the clearing task finishes |
| `modules` | every import graph of 3 modules (1000 with the awaits), 2 dynamic imports, fair | `ExecutedOnce`, `AwaitedFirst`, `ReachableIsLinked`, `CycleRootIsShared`, `FirstLoadSettles` |
| `safepoint_termination`, `safepoint_install`, `marking_wait`, `marking_callback`, `modules_host` | the smallest that show it | violated: see Findings |

The type invariants of the first four modules are theorems; those of `ConcurrentSweeper` and
`ModuleEvaluation` are checked by their runs.

Why the bounds are enough for the cases of interest. Three threads are an initiator, a
second one that competes or registers meanwhile, and a thread that is suspended; a second
stop-the-world meets what the first one leaves behind. Two VMs let a pool be destroyed, or
destroyed and started again, while a worker is anywhere in its loop. Two objects with four
operations give a store into a black object of a white one whose other reference is dropped:
with the barrier switched off at the end of the marking TLC finds the dangling reference.
Nodes of one object make every second push spill to the global stack. A region of the old
space and one of another space, with two calls, give every order of two collections, or of a
collection and what JS code does during the sweeping, and leave one space without regions. A
request to switch off that comes during a sweeping is postponed, and its end at the next
collection would need a third call, with which the state space is too large; the run does
not reach it. Three modules give a diamond's counts (two imports of one cycle), a cycle with
an importer, and a second load that meets the first half done; every order of requests is
among the graphs. `modules` may stop when nothing is awaited and no load is left, so
deadlock is not checked there. Symmetry is used for safety only; the liveness properties are
stated for one thread, task or VM, which stands for the others because the specification
treats them alike.

### Fairness

Weak fairness says that a thread that has begun an operation goes on with it: the threads
are preemptively scheduled and no operation waits for user input. Starting an operation is
never fair. Strong fairness is used three times. The exchange of `StoreState` may fail
spuriously, but not for ever. Managed code reaches safepoints again and again, so a
safepoint bit that is set is seen although the thread may be in native code in between. A
thread that asks for `interruptMutex_` or for the mutex of `VmThreadControl` gets it although
the VM thread takes it at every call into JS: the holder releases it each time and the sections
are short. `Execute` itself is not fair, since nothing makes C++ code call into JS again. The
fairness of the sweeper has the subscript `progress`, the variables that every step of a thread
changes, which means the same and is cheaper to check.
`Task::Run` is assumed to return. Nothing is assumed about spurious wakeups or timeouts. In
`ModuleEvaluation`, C++ calls go on and awaited promises settle; a promise that never settles
keeps its importers waiting, as ECMAScript asks.

### Findings

Five statements of the repository do not hold of the code.

- `safepoint_termination`: `ResumeThread` (`js_thread.cpp:1043`) clears the safepoint bit of a
  thread that has a termination request pending. Code that stays in managed loops runs on until
  another request sets the bit or C++ calls into JS.
- `safepoint_install`: `SetInstallMachineCode(false)` (`js_thread.cpp:711`) comes after the lock
  of `InstallTasks` is released and wipes out a request made in between. The function is queued
  and the safepoint bit is set, but the next `CheckSafepoint` does not look at the queue; the
  code is installed when another compilation ends.
- `marking_wait`: `FinishMarking` sets the status before `notifyMarkingFinished_`
  (`mem/concurrent_marker.cpp:178`). A collection that sees the status may `Reset` in
  between; the notification is then stale and ends the wait of the next marking at once.
  `WaitMarkingFinished` is not a loop either, so a spurious wakeup ends it early.
- `marking_callback`: `HandleMarkingFinished` holds a mutex while finalize callbacks run
  (`mem/concurrent_marker.cpp:87`); one that triggers a marking and a collection waits for it.
- `modules_host`: a load from the host drains the job queue after every body
  (`ecma_context.cpp:353`), in the middle of the walk. The completion of an awaited import
  then finds the importer EVALUATING, against the assertion of `GatherAvailableAncestors`
  (`module/js_module_source_text.cpp:1934`), and runs its body before its other imports.

Known limits of the code that the properties are stated around: two callers can both pass
the first test of `NotifyVMThreadSuspension`; a caller that times out leaves a VM thread
that has just parked where it is; `TerminateTask` misses a task between `PopTask` and
`SetRunTask` (`OnlyPoppedEscapes` says that it misses nothing else). A worker lists a
swept region before it sets `HAS_BEEN_SWEPT`, so the flag may survive the filling of the region
and be met by the next sweeping, and a barrier or an evacuation then takes over a set that is
still being cleared, against the comment "Region is safe while update remember set"
(`mem/parallel_evacuator.cpp:360`); `NoDeadSlot` and `FoundSetStays` except those regions.

Of modules: a module that failed in an earlier load makes `InnerModuleEvaluation` return its
error as an index, without an exception, so the importer stays EVALUATING or runs without it;
the loop of `AsyncModuleExecutionFulfilled` goes on with the exception of a body pending, and
rejects the bodies after it. `spoiled` marks what follows, and the properties end there. A
plain module run by that loop keeps its ordinal, so a module of a later load waits for it
for ever; `FirstLoadSettles` is about what the first load leaves. The loop drains the job
queue after each body, so with two independent awaits and five modules another completion can
run a module before a plain dependency that is still in the loop; `AwaitedFirst` speaks of
awaited modules only. Shared modules are evaluated under a copy of their `StateVisit`, with
its mutex and condition variable (`module/js_module_source_text.cpp:1201`); they are not
modelled.

## Proofs

Each proof has one step per action. The modules with proofs extend the specification and
add only the strengthening.

- **ThreadSuspensionProofs.** `WorldStopped` and `LockDiscipline` follow from `LockInv`,
  which says who holds the mutator lock at each point of `StoreState`: a RUNNING thread is a
  reader, and the lock outlives the state by the steps in `Crossing`. `OneInitiator` follows
  from `ListInv`, about who holds `threadsLock` and what `todo` can be. `CountsMatch` needs
  `HalfWay`, the state of a thread whose `suspendLock` is held; `RequestIsPolled` needs
  `PollInv`, which follows the bit through `CheckSafepoint`.
- **ThreadSuspensionRefinement.** `NoLateRunner` and `Refinement`. The key fact is
  `ExchangeInTime`: a thread whose exchange succeeds saw a clear flag, so by `CountsMatch`
  the initiator is still sending requests.
- **SafepointProofs.** `ReportedMeansParked` for any callers; `GrantedMeansParked` for one
  caller at a time (`OneCaller`); `PendingIsPolled` for one caller too, with any number of
  timeouts, stop-the-worlds and installations: `PollInv` follows the bit and `cleared`
  through the steps of the VM thread between the reset and the last read of a request.
- **TaskPoolProofs.** `RunningIsOwned`, `LivePool`, `JoinedBeforeReuse`, `NoTaskLost`.
  `PoolInv` ties the runner's state to the mutex and the VMs, and `CountInv` makes
  `isInitialized` the cardinality of the VMs inside. `OnlyPoppedEscapes` rests on `Escape`:
  what a termination has not flagged in the queue is terminated, finished or in the hands of
  a worker.
- **ConcurrentMarkingProofs.** Types, the places a thread can be in each task (`Placed`),
  and that `runningTaskCount_` counts the helper tasks, for any number of markings.
- **ConcurrentMarkingSafety**, with the lemmas of **ConcurrentMarkingLife**.
  `NoDanglingReference`, `MarkingIsOver`, `InitializedOnce`, for any heap, node size and
  workers and any number of operations, markings, collections, callbacks and spurious
  wakeups. The invariant holds as long as `early` does not (the run `marking_wait` shows
  why), and `early` stays once it is set. `Life` follows the marking through its tasks and
  the status, `Worked` says that what is on the global stack when the JS thread waits is
  left to a busy helper, and `Coloured` is the tri-colour invariant: a marked object is
  grey, or its reference is marked or about to be.

Assumptions: the named ones of each module, which say that the constants are disjoint,
finite where they are counted, and that bounds are naturals. Liveness is only
model-checked, and so are the sweeper and the modules, whose walk would need an induction over
paths of the import graph.

## Not modelled

Weak memory: every access is sequentially consistent. In `Safepoint`, the start of the CPU
profiler and the forced collection of debug builds. In `TaskPool`, priorities and prologue
hooks. In `ConcurrentMarking`, young marks with remembered sets, weak references, objects
with several fields, the branch of `CollectGarbage` that asks for a marking in place of an old
collection, and a full collection that abandons a marking. In `ConcurrentSweeper`,
sizes and free objects: any region may be the next one, and an allocation may or may not
succeed. In `ModuleEvaluation`, names and their resolution, JSON, native, CommonJS and shared
modules, deregistration, the promise of `Evaluate` (nobody reads it), loads that a body of a
host's walk starts by itself, and the OHOS build, which clears the exception of a body.

## Plan

1. **Evacuation**: claim of workloads, forwarding addresses, one copy per object.
2. **Jit**: compile task, wait and cancellation, composed with `Safepoint`'s installation.
3. **VM exit**: `TaskPool` composed with a heap, for the tasks that outlive it.
4. **SharedGC** on top of `StopTheWorld` instead of `ThreadSuspension`.
5. **Shared modules**: several threads evaluate one graph.
6. **Waiter list, string table**, then the containers as operators against a reference.
