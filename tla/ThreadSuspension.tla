-------------------------- MODULE ThreadSuspension --------------------------
(***************************************************************************)
(* The thread-state protocol of the runtime: how a JSThread enters and     *)
(* leaves the RUNNING state, how a stop-the-world initiator suspends every *)
(* other thread, and how registration and termination of threads           *)
(* interleave with it.                                                     *)
(*                                                                         *)
(*   ecmascript/js_thread.{h,cpp}   UpdateState, StoreState, WaitSuspension*)
(*                                  SuspendThread, ResumeThread,           *)
(*                                  CheckSafepoint (its suspension part),  *)
(*                                  RegisterThread, UnregisterThread       *)
(*   ecmascript/runtime.cpp         SuspendAll, ResumeAll, thread list     *)
(*   ecmascript/mutator_lock.cpp    the reader/writer lock                 *)
(*   ecmascript/runtime_lock.cpp    RuntimeLockHolder                      *)
(*   ecmascript/checkpoint/thread_state_transition.h   the scopes          *)
(*                                                                         *)
(* One step is one access to state that another thread can observe.  A     *)
(* thread's own state field is written by that thread only, so a store to  *)
(* it is merged with the step before or after it.                          *)
(***************************************************************************)
EXTENDS Naturals

CONSTANTS Threads,      \* identities of JSThread objects
          None,         \* "no thread"
          MaxSuspends   \* bound: how often a stop-the-world may be started

ASSUME SuspensionAssumption ==
    /\ None \notin Threads
    /\ MaxSuspends \in Nat

VARIABLES
    state,            \* stateAndFlags_.state
    suspendRequest,   \* stateAndFlags_.flags: SUSPEND_REQUEST
    suspendCount,     \* suspendCount_
    suspendLock,      \* suspendLock_: the thread inside Suspend/ResumeThread
    checkSafePoint,   \* CheckSafePointBit of interruptVector_
    readers, writer,  \* mutatorLock_
    threads,          \* threads_
    threadsLock,      \* threadsLock_: holder while iterating threads_
    suspendNewCount,  \* suspendNewCount_
    todo,             \* threads the iteration over threads_ has not reached
    gcMutex,          \* SharedHeap::gcCollectGarbageMutex_
    pc,               \* where each thread is
    \* Frames; popped ("run", "CREATED") when the call returns:
    afterUnlock,      \* return address of TransferFromRunningToSuspended
    afterLoad,        \* return address of TransferToRunning
    oldState,         \* WaitSuspension's local oldState
    scopeState,       \* oldState_ of SuspendAllScope's transition scope
    suspends          \* stop-the-worlds started so far

lockVars   == <<readers, writer, gcMutex>>
listVars   == <<threads, threadsLock, suspendNewCount, todo>>
flagVars   == <<suspendRequest, suspendCount, suspendLock, checkSafePoint>>
frameVars  == <<afterUnlock, afterLoad, oldState, scopeState, suspends>>
vars == <<state, pc, lockVars, listVars, flagVars, frameVars>>

ThreadState == {"CREATED", "RUNNING", "NATIVE", "WAIT", "IS_SUSPENDED", "TERMINATED"}

Labels == {"new", "run", "unlock", "load", "rdlock", "cas", "casfail", "safept",
           "wait", "restore", "gclock", "gcrel", "scope", "sa", "sawait", "saiter",
           "wrlock", "world", "ra", "raiter", "unreg", "dead"}

TypeOK ==
    /\ state \in [Threads -> ThreadState]
    /\ suspendRequest \in [Threads -> BOOLEAN]
    /\ suspendCount \in [Threads -> Nat]
    /\ suspendLock \in [Threads -> Threads \cup {None}]
    /\ checkSafePoint \in [Threads -> BOOLEAN]
    /\ readers \in SUBSET Threads /\ writer \in Threads \cup {None}
    /\ threads \in SUBSET Threads /\ threadsLock \in Threads \cup {None}
    /\ suspendNewCount \in Nat
    /\ todo \in SUBSET Threads
    /\ gcMutex \in Threads \cup {None}
    /\ pc \in [Threads -> Labels]
    /\ afterUnlock \in [Threads -> {"run", "wait", "gclock", "sa", "unreg"}]
    /\ afterLoad \in [Threads -> {"run", "scope", "gcrel"}]
    /\ oldState \in [Threads -> ThreadState]
    /\ scopeState \in [Threads -> ThreadState]
    /\ suspends \in Nat

\* No JSThread exists yet, no lock is held, nothing is suspended.
Init ==
    /\ state = [t \in Threads |-> "CREATED"]
    /\ suspendRequest = [t \in Threads |-> FALSE]
    /\ suspendCount = [t \in Threads |-> 0]
    /\ suspendLock = [t \in Threads |-> None]
    /\ checkSafePoint = [t \in Threads |-> FALSE]
    /\ readers = {} /\ writer = None
    /\ threads = {} /\ threadsLock = None /\ suspendNewCount = 0 /\ todo = {}
    /\ gcMutex = None
    /\ pc = [t \in Threads |-> "new"]
    /\ afterUnlock = [t \in Threads |-> "run"]
    /\ afterLoad = [t \in Threads |-> "run"]
    /\ oldState = [t \in Threads |-> "CREATED"]
    /\ scopeState = [t \in Threads |-> "CREATED"]
    /\ suspends = 0

Goto(t, label) == pc' = [pc EXCEPT ![t] = label]
SetState(t, s) == state' = [state EXCEPT ![t] = s]
At(t, label)   == pc[t] = label

\* UpdateState to a state other than RUNNING, then label: from RUNNING the
\* mutator lock is released on the way, after the new state has been stored.
LeaveTo(t, label) ==
    /\ Goto(t, IF state[t] = "RUNNING" THEN "unlock" ELSE label)
    /\ afterUnlock' = [afterUnlock EXCEPT ![t] = IF state[t] = "RUNNING" THEN label ELSE @]

-----------------------------------------------------------------------------
(* JSThread::RegisterThread / UnregisterThread, Runtime::(Un)RegisterThread *)

\* Bug: the suspensions in force are not sent to the new thread.
BugRegisterUnsuspended(t) ==
    /\ At(t, "new") /\ threadsLock = None
    /\ threads' = threads \cup {t}
    /\ Goto(t, "run")
    /\ UNCHANGED <<state, lockVars, threadsLock, suspendNewCount, todo, flagVars, frameVars>>

\* The new thread receives every suspension that is in force.
RegisterThread(t) ==
    /\ At(t, "new") /\ threadsLock = None
    /\ threads' = threads \cup {t}
    /\ suspendCount' = [suspendCount EXCEPT ![t] = @ + suspendNewCount]
    /\ suspendRequest' = [suspendRequest EXCEPT ![t] = suspendNewCount > 0]
    /\ checkSafePoint' = [checkSafePoint EXCEPT ![t] = suspendNewCount > 0]
    /\ Goto(t, "run")
    /\ UNCHANGED <<state, suspendLock, lockVars, threadsLock, suspendNewCount, todo, frameVars>>

\* The tail of JSThread::RegisterThread, or PostFork for a thread made for a fork.
Attach(t) ==
    /\ At(t, "run") /\ state[t] = "CREATED"
    /\ SetState(t, "NATIVE")
    /\ UNCHANGED <<pc, lockVars, listVars, flagVars, frameVars>>

\* ~JSThread runs in RUNNING (EcmaVM::~EcmaVM asserts it) or on a thread never forked.
UnregisterThread(t) ==
    /\ At(t, "run") /\ state[t] \in {"CREATED", "RUNNING"}
    /\ SetState(t, "TERMINATED")
    /\ LeaveTo(t, "unreg")
    /\ UNCHANGED <<lockVars, listVars, flagVars, afterLoad, oldState, scopeState, suspends>>

RuntimeUnregisterThread(t) ==
    /\ At(t, "unreg") /\ threadsLock = None
    /\ threads' = threads \ {t}
    /\ Goto(t, "dead")
    /\ UNCHANGED <<state, lockVars, threadsLock, suspendNewCount, todo, flagVars, frameVars>>

-----------------------------------------------------------------------------
(* JSThread::UpdateState and StoreState                                     *)

\* UpdateState from RUNNING: the new state is stored first, then the lock is released.
TransferFromRunningToSuspended(t, newState, next) ==
    /\ state[t] = "RUNNING"
    /\ SetState(t, newState)
    /\ LeaveTo(t, next)

\* ManagedCodeEnd or ThreadNativeScope.
LeaveRunning(t) ==
    /\ At(t, "run")
    /\ TransferFromRunningToSuspended(t, "NATIVE", "run")
    /\ UNCHANGED <<lockVars, listVars, flagVars, afterLoad, oldState, scopeState, suspends>>

TransferUnlock(t) ==
    /\ At(t, "unlock")
    /\ readers' = readers \ {t}
    /\ Goto(t, afterUnlock[t])
    /\ afterUnlock' = [afterUnlock EXCEPT ![t] = "run"]
    /\ UNCHANGED <<state, writer, gcMutex, listVars, flagVars, afterLoad, oldState, scopeState, suspends>>

\* Bug: RUNNING is stored like any other state, without the mutator lock.
BugEnterUnlocked(t) ==
    /\ At(t, "run") /\ state[t] = "NATIVE"
    /\ SetState(t, "RUNNING")
    /\ UNCHANGED <<pc, lockVars, listVars, flagVars, frameVars>>

\* ManagedCodeBegin, ThreadManagedScope, or the end of a native scope.
EnterRunning(t) ==
    /\ At(t, "run") /\ state[t] = "NATIVE"
    /\ Goto(t, "load")
    /\ afterLoad' = [afterLoad EXCEPT ![t] = "run"]
    /\ UNCHANGED <<state, lockVars, listVars, flagVars, afterUnlock, oldState, scopeState, suspends>>

\* StoreState(RUNNING, true): read the word; a flag diverts to WaitSuspension.
StoreStateLoad(t) ==
    /\ At(t, "load")
    /\ \/ /\ suspendRequest[t]
          /\ oldState' = [oldState EXCEPT ![t] = state[t]]
          /\ SetState(t, "IS_SUSPENDED")
          /\ Goto(t, "wait")
       \/ /\ ~suspendRequest[t]
          /\ Goto(t, "rdlock")
          /\ UNCHANGED <<state, oldState>>
    /\ UNCHANGED <<lockVars, listVars, flagVars, afterUnlock, afterLoad, scopeState, suspends>>

StoreStateReadLock(t) ==
    /\ At(t, "rdlock") /\ writer = None
    /\ readers' = readers \cup {t}
    /\ Goto(t, "cas")
    /\ UNCHANGED <<state, writer, gcMutex, listVars, flagVars, frameVars>>

\* Bug: a plain store instead of the exchange.
BugStoreNoCas(t) ==
    /\ At(t, "cas")
    /\ SetState(t, "RUNNING")
    /\ Goto(t, afterLoad[t])
    /\ afterLoad' = [afterLoad EXCEPT ![t] = "run"]
    /\ UNCHANGED <<lockVars, listVars, flagVars, afterUnlock, oldState, scopeState, suspends>>

\* compare_exchange_weak against the word read with no flag set.
StoreStateCas(t) ==
    /\ At(t, "cas") /\ ~suspendRequest[t]
    /\ SetState(t, "RUNNING")
    /\ Goto(t, afterLoad[t])
    /\ afterLoad' = [afterLoad EXCEPT ![t] = "run"]
    /\ UNCHANGED <<lockVars, listVars, flagVars, afterUnlock, oldState, scopeState, suspends>>

\* The exchange fails when a flag appeared, and may fail spuriously.
StoreStateCasFail(t) ==
    /\ At(t, "cas")
    /\ Goto(t, "casfail")
    /\ UNCHANGED <<state, lockVars, listVars, flagVars, frameVars>>

StoreStateUnlock(t) ==
    /\ At(t, "casfail")
    /\ readers' = readers \ {t}
    /\ Goto(t, "load")
    /\ UNCHANGED <<state, writer, gcMutex, listVars, flagVars, frameVars>>

-----------------------------------------------------------------------------
(* JSThread::CheckSafepoint (suspension part) and WaitSuspension            *)

\* Managed code polls the bit; interruptMutex_ is held from here to the test of the flag.
CheckSafepoint(t) ==
    /\ At(t, "run") /\ state[t] = "RUNNING" /\ checkSafePoint[t]
    /\ checkSafePoint' = [checkSafePoint EXCEPT ![t] = FALSE]
    /\ Goto(t, "safept")
    /\ UNCHANGED <<state, lockVars, listVars, suspendRequest, suspendCount, suspendLock, frameVars>>

\* WaitSuspension called from RUNNING.
WaitSuspensionFromRunning(t) ==
    /\ suspendRequest[t]
    /\ TransferFromRunningToSuspended(t, "IS_SUSPENDED", "wait")
    /\ oldState' = [oldState EXCEPT ![t] = "RUNNING"]
    /\ afterLoad' = [afterLoad EXCEPT ![t] = "run"]
    /\ UNCHANGED <<lockVars, listVars, flagVars, scopeState, suspends>>

\* Bug: the bit is consumed but the suspend flag is not looked at.
BugSafepointIgnoresFlag(t) ==
    /\ At(t, "safept")
    /\ Goto(t, "run")
    /\ UNCHANGED <<state, lockVars, listVars, flagVars, frameVars>>

CheckSafepointSuspended(t) ==
    /\ At(t, "safept")
    /\ \/ WaitSuspensionFromRunning(t)
       \/ /\ ~suspendRequest[t]
          /\ Goto(t, "run")
          /\ UNCHANGED <<state, lockVars, listVars, flagVars, frameVars>>

CheckSafepointIfSuspended(t) ==
    /\ At(t, "run")
    /\ WaitSuspensionFromRunning(t)

\* The timed wait re-reads suspendCount_ under suspendLock_ until it is zero.
WaitSuspension(t) ==
    /\ At(t, "wait") /\ suspendLock[t] = None /\ suspendCount[t] = 0
    /\ Goto(t, "restore")
    /\ UNCHANGED <<state, lockVars, listVars, flagVars, frameVars>>

\* UpdateState(oldState): back to StoreState(RUNNING, true) either way.
WaitSuspensionRestore(t) ==
    /\ At(t, "restore")
    /\ SetState(t, IF oldState[t] = "RUNNING" THEN state[t] ELSE oldState[t])
    /\ oldState' = [oldState EXCEPT ![t] = "CREATED"]
    /\ Goto(t, "load")
    /\ UNCHANGED <<lockVars, listVars, flagVars, afterUnlock, afterLoad, scopeState, suspends>>

-----------------------------------------------------------------------------
(* SharedHeap::CollectGarbage: RuntimeLockHolder around SuspendAllScope     *)

\* TryLock succeeds, or the thread goes to WAIT before it blocks on the mutex.
CollectGarbage(t) ==
    /\ At(t, "run") /\ state[t] = "RUNNING" /\ suspends < MaxSuspends
    /\ suspends' = suspends + 1
    /\ \/ /\ gcMutex = None
          /\ gcMutex' = t
          /\ Goto(t, "scope")
          /\ UNCHANGED <<state, afterUnlock>>
       \/ /\ gcMutex # None
          /\ TransferFromRunningToSuspended(t, "WAIT", "gclock")
          /\ UNCHANGED gcMutex
    /\ UNCHANGED <<readers, writer, listVars, flagVars, afterLoad, oldState, scopeState>>

RuntimeLockHolderLock(t) ==
    /\ At(t, "gclock") /\ gcMutex = None
    /\ gcMutex' = t
    /\ Goto(t, "load")
    /\ afterLoad' = [afterLoad EXCEPT ![t] = "scope"]
    /\ UNCHANGED <<state, readers, writer, listVars, flagVars, afterUnlock, oldState, scopeState, suspends>>

RuntimeLockHolderUnlock(t) ==
    /\ At(t, "gcrel")
    /\ gcMutex' = None
    /\ Goto(t, "run")
    /\ UNCHANGED <<state, readers, writer, listVars, flagVars, frameVars>>

\* SuspendAllScope's constructor up to SuspendAll.
SuspendAllScope(t) ==
    /\ scopeState' = [scopeState EXCEPT ![t] = state[t]]
    /\ SetState(t, "IS_SUSPENDED")
    /\ LeaveTo(t, "sa")
    /\ UNCHANGED <<lockVars, listVars, flagVars, afterLoad, oldState>>

CollectGarbageScope(t) ==
    /\ At(t, "scope")
    /\ SuspendAllScope(t)
    /\ UNCHANGED suspends

\* The heap profiler stops the world without the garbage-collection mutex.
HeapProfilerScope(t) ==
    /\ At(t, "run") /\ state[t] \in {"RUNNING", "NATIVE"} /\ suspends < MaxSuspends
    /\ SuspendAllScope(t)
    /\ suspends' = suspends + 1

-----------------------------------------------------------------------------
(* Runtime::SuspendAll and ResumeAll                                        *)

\* Bug: a second initiator does not wait for the first.
BugSuspendNoWait(t) ==
    /\ At(t, "sa") /\ threadsLock = None
    /\ suspendNewCount' = suspendNewCount + 1
    /\ threadsLock' = t
    /\ todo' = threads \ {t}
    /\ Goto(t, "saiter")
    /\ UNCHANGED <<state, lockVars, threads, flagVars, frameVars>>

\* Bug: the initiator suspends itself too.
BugSuspendSelf(t) ==
    /\ At(t, "sa") /\ threadsLock = None /\ suspendNewCount = 0
    /\ suspendNewCount' = suspendNewCount + 1
    /\ threadsLock' = t
    /\ todo' = threads
    /\ Goto(t, "saiter")
    /\ UNCHANGED <<state, lockVars, threads, flagVars, frameVars>>

SuspendAllThreadsImpl(t) ==
    /\ At(t, "sa") /\ threadsLock = None
    /\ \/ /\ suspendNewCount # 0
          /\ Goto(t, "sawait")
          /\ UNCHANGED <<threadsLock, suspendNewCount, todo>>
       \/ /\ suspendNewCount = 0
          /\ suspendNewCount' = suspendNewCount + 1
          /\ threadsLock' = t
          /\ todo' = threads \ {t}
          /\ Goto(t, "saiter")
    /\ UNCHANGED <<state, lockVars, threads, flagVars, frameVars>>

\* A condition variable may wake without a signal.
SpuriousWakeup(t) ==
    /\ At(t, "sawait")
    /\ Goto(t, "sa")
    /\ UNCHANGED <<state, lockVars, listVars, flagVars, frameVars>>

\* SuspendThread, first half: the count, and the flag on the first suspension.
SuspendThread(t, x) ==
    /\ At(t, "saiter") /\ x \in todo /\ suspendLock[x] = None
    /\ suspendLock' = [suspendLock EXCEPT ![x] = t]
    /\ suspendCount' = [suspendCount EXCEPT ![x] = @ + 1]
    /\ suspendRequest' = [suspendRequest EXCEPT ![x] = @ \/ suspendCount[x] = 0]
    /\ UNCHANGED <<state, pc, lockVars, listVars, checkSafePoint, frameVars>>

\* SuspendThread, second half: SetCheckSafePointStatus takes interruptMutex_.
SuspendThreadBit(t, x) ==
    /\ At(t, "saiter") /\ suspendLock[x] = t /\ ~At(x, "safept")
    /\ checkSafePoint' = [checkSafePoint EXCEPT ![x] = @ \/ suspendCount[x] = 1]
    /\ suspendLock' = [suspendLock EXCEPT ![x] = None]
    /\ todo' = todo \ {x}
    /\ UNCHANGED <<state, pc, lockVars, threads, threadsLock, suspendNewCount,
                   suspendRequest, suspendCount, frameVars>>

SuspendAllThreadsDone(t) ==
    /\ At(t, "saiter") /\ todo = {}
    /\ threadsLock' = None
    /\ Goto(t, "wrlock")
    /\ UNCHANGED <<state, lockVars, threads, suspendNewCount, todo, flagVars, frameVars>>

SuspendAllWriteLock(t) ==
    /\ At(t, "wrlock") /\ writer = None /\ readers = {}
    /\ writer' = t
    /\ Goto(t, "world")
    /\ UNCHANGED <<state, readers, gcMutex, listVars, flagVars, frameVars>>

ResumeAllUnlock(t) ==
    /\ At(t, "world")
    /\ writer' = None
    /\ Goto(t, "ra")
    /\ UNCHANGED <<state, readers, gcMutex, listVars, flagVars, frameVars>>

Waiting == {t \in Threads : At(t, "sawait")}

\* Bug: nobody signals the waiting initiators.
BugResumeNoSignal(t) ==
    /\ At(t, "ra") /\ threadsLock = None
    /\ threadsLock' = t
    /\ suspendNewCount' = IF suspendNewCount > 0 THEN suspendNewCount - 1 ELSE 0
    /\ todo' = threads \ {t}
    /\ Goto(t, "raiter")
    /\ UNCHANGED <<state, lockVars, threads, flagVars, frameVars>>

\* threadSuspendCondVar_.Signal wakes one of the waiting initiators.
ResumeAllThreadsImpl(t) ==
    /\ At(t, "ra") /\ threadsLock = None
    /\ threadsLock' = t
    /\ suspendNewCount' = IF suspendNewCount > 0 THEN suspendNewCount - 1 ELSE 0
    /\ todo' = threads \ {t}
    /\ \/ /\ suspendNewCount' = 0
          /\ \E w \in Waiting : pc' = [pc EXCEPT ![t] = "raiter", ![w] = "sa"]
       \/ /\ suspendNewCount' = 0 => Waiting = {}
          /\ Goto(t, "raiter")
    /\ UNCHANGED <<state, lockVars, threads, flagVars, frameVars>>

\* ResumeThread, first half.
ResumeThread(t, x) ==
    /\ At(t, "raiter") /\ x \in todo /\ suspendLock[x] = None
    /\ suspendLock' = [suspendLock EXCEPT ![x] = t]
    /\ suspendCount' = [suspendCount EXCEPT ![x] = IF @ > 0 THEN @ - 1 ELSE 0]
    /\ suspendRequest' = [suspendRequest EXCEPT ![x] = @ /\ suspendCount[x] # 1]
    /\ UNCHANGED <<state, pc, lockVars, listVars, checkSafePoint, frameVars>>

\* ResumeThread, second half: ResetCheckSafePointStatus once the count is back to zero.
ResumeThreadBit(t, x) ==
    /\ At(t, "raiter") /\ suspendLock[x] = t /\ ~At(x, "safept")
    /\ checkSafePoint' = [checkSafePoint EXCEPT ![x] = @ /\ suspendCount[x] # 0]
    /\ suspendLock' = [suspendLock EXCEPT ![x] = None]
    /\ todo' = todo \ {x}
    /\ UNCHANGED <<state, pc, lockVars, threads, threadsLock, suspendNewCount,
                   suspendRequest, suspendCount, frameVars>>

\* The end of ResumeAll and of the scope: UpdateState(oldState_).
ResumeAllDone(t) ==
    /\ At(t, "raiter") /\ todo = {}
    /\ threadsLock' = None
    /\ afterLoad' = [afterLoad EXCEPT ![t] = IF gcMutex = t THEN "gcrel" ELSE "run"]
    /\ \/ /\ scopeState[t] = "RUNNING"
          /\ Goto(t, "load")
          /\ UNCHANGED state
       \/ /\ scopeState[t] # "RUNNING"
          /\ SetState(t, scopeState[t])
          /\ Goto(t, "run")
    /\ scopeState' = [scopeState EXCEPT ![t] = "CREATED"]
    /\ UNCHANGED <<lockVars, threads, suspendNewCount, todo, flagVars,
                   afterUnlock, oldState, suspends>>

-----------------------------------------------------------------------------

\* Every thread has been destroyed.
Finished ==
    /\ \A t \in Threads : At(t, "dead")
    /\ UNCHANGED vars

\* What a thread does by its own choice.
Choose(t) ==
    \/ RegisterThread(t)
    \/ Attach(t)
    \/ UnregisterThread(t)
    \/ LeaveRunning(t)
    \/ EnterRunning(t)
    \/ CheckSafepointIfSuspended(t)
    \/ CollectGarbage(t)
    \/ HeapProfilerScope(t)
    \/ SpuriousWakeup(t)

\* What a thread that has started an operation does next.
Continue(t) ==
    \/ RuntimeUnregisterThread(t)
    \/ TransferUnlock(t)
    \/ StoreStateLoad(t)
    \/ StoreStateReadLock(t)
    \/ StoreStateCas(t)
    \/ StoreStateCasFail(t)
    \/ StoreStateUnlock(t)
    \/ CheckSafepoint(t)
    \/ CheckSafepointSuspended(t)
    \/ WaitSuspension(t)
    \/ WaitSuspensionRestore(t)
    \/ RuntimeLockHolderLock(t)
    \/ RuntimeLockHolderUnlock(t)
    \/ CollectGarbageScope(t)
    \/ SuspendAllThreadsImpl(t)
    \/ \E x \in Threads : \/ SuspendThread(t, x) \/ SuspendThreadBit(t, x)
                          \/ ResumeThread(t, x)  \/ ResumeThreadBit(t, x)
    \/ SuspendAllThreadsDone(t)
    \/ SuspendAllWriteLock(t)
    \/ ResumeAllUnlock(t)
    \/ ResumeAllThreadsImpl(t)
    \/ ResumeAllDone(t)

Next ==
    \/ \E t \in Threads : Choose(t) \/ Continue(t)
    \/ Finished

Spec == Init /\ [][Next]_vars

\* A thread inside an operation goes on with it; the exchange does not fail
\* spuriously for ever.  Managed code polls the safepoint bit.
Fairness ==
    \A t \in Threads : /\ WF_vars(Continue(t))
                       /\ SF_vars(StoreStateCas(t))

FairSpec == Spec /\ Fairness

-----------------------------------------------------------------------------
(* Properties                                                               *)

\* The thread whose stop-the-world is in force (suspendNewCount_ is its mark).
InitiatorLabels == {"saiter", "wrlock", "world", "ra"}
Initiators == {t \in Threads : pc[t] \in InitiatorLabels}

\* While an initiator has the world to itself no thread is in the RUNNING state
\* (SuspendAll's WriteLock against StoreState's ReadLock and Unlock).
WorldStopped ==
    \A t \in Threads : At(t, "world") => \A x \in Threads : state[x] # "RUNNING"

\* HasLock() of the mutator lock agrees with its use: RUNNING means read-locked, every
\* lock operation is called in the state its ASSERT demands (mutator_lock.cpp:24-59).
LockDiscipline ==
    \A t \in Threads :
       /\ state[t] = "RUNNING" => t \in readers
       /\ pc[t] \in {"unlock", "casfail"} => t \in readers
       /\ pc[t] \in {"rdlock", "wrlock", "sa", "sawait"} => t \notin readers /\ writer # t
       /\ At(t, "world") => writer = t

\* A thread outside suspendLock_ is suspended once for the initiator in force and not at
\* all when there is none: no request is lost or left behind, whoever comes or goes.
SuspendedByInitiator(x) ==
    \/ x \in threads /\ \E i \in Initiators \ {x} : x \notin todo \/ ~At(i, "saiter")
    \/ \E i \in Threads : At(i, "raiter") /\ x \in todo
CountsMatch ==
    \A x \in Threads :
       suspendLock[x] = None /\ ~At(x, "dead") =>
          /\ suspendCount[x] = IF SuspendedByInitiator(x) THEN 1 ELSE 0
          /\ suspendRequest[x] <=> suspendCount[x] > 0

\* Two initiators never both have the world in their hands (suspendNewCount_, the wait on
\* threadSuspendCondVar_).
OneInitiator ==
    /\ \A t, u \in Initiators : t = u
    /\ suspendNewCount = IF Initiators = {} THEN 0 ELSE 1

\* A thread that runs managed code with a completed suspend request has its safepoint bit
\* set, so its next poll sees the request (order of flag and bit in SuspendThread).
RequestIsPolled ==
    \A t \in Threads :
       At(t, "run") /\ state[t] = "RUNNING" /\ suspendRequest[t] /\ suspendLock[t] = None
          => checkSafePoint[t]

\* Once every request is out, no thread becomes RUNNING before the initiator takes them
\* back (the flag read and the compare-and-exchange in StoreState).
NoLateRunner ==
    [][\A t \in Threads :
          state[t] # "RUNNING" /\ state'[t] = "RUNNING"
             => ~suspendRequest[t] /\ \A i \in Initiators : At(i, "saiter")]_vars

\* Every UpdateState, safepoint wait, lock of the collection mutex and stop-the-world that
\* a thread starts returns, when stop-the-worlds are finitely many (SuspendAll, ResumeAll).
OperationsReturn(t) ==
    pc[t] \notin {"new", "run", "dead"} ~> pc[t] \in {"run", "dead"}

\* The protocol does what StopTheWorld promises.
PhaseOf ==
    IF \E t \in Threads : At(t, "world") THEN "stopped"
    ELSE IF \E t \in Threads : At(t, "saiter") THEN "closing"
    ELSE IF Initiators # {} THEN "closed"
    ELSE "open"

Mutators == {t \in Threads : state[t] = "RUNNING"}
TheInitiator == IF Initiators = {} THEN None ELSE CHOOSE t \in Initiators : TRUE

STW == INSTANCE StopTheWorld WITH
         mutators <- Mutators, initiator <- TheInitiator, phase <- PhaseOf

Refinement == STW!Spec
=============================================================================
