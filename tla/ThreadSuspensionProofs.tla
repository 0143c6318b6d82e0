----------------------- MODULE ThreadSuspensionProofs -----------------------
(***************************************************************************)
(* Proofs about ThreadSuspension, for every set of threads and any number  *)
(* of stop-the-worlds.                                                     *)
(***************************************************************************)
EXTENDS ThreadSuspension, TLAPS

\* Every variable keeps its type in every reachable state of the suspension protocol.
THEOREM TypeCorrect == Spec => []TypeOK
<1> USE SuspensionAssumption DEF TypeOK
<1>1. Init => TypeOK
  BY DEF Init, ThreadState, Labels
<1>2. TypeOK /\ [Next]_vars => TypeOK'
  <2> SUFFICES ASSUME TypeOK, [Next]_vars PROVE TypeOK'
    OBVIOUS
  <2> USE DEF Goto, SetState, At, ThreadState, Labels, lockVars, listVars, flagVars, frameVars
  <2>1. ASSUME NEW t \in Threads, RegisterThread(t) PROVE TypeOK'
    BY <2>1 DEF RegisterThread
  <2>2. ASSUME NEW t \in Threads, Attach(t) PROVE TypeOK'
    BY <2>2 DEF Attach
  <2>3. ASSUME NEW t \in Threads, UnregisterThread(t) PROVE TypeOK'
    BY <2>3 DEF UnregisterThread, LeaveTo
  <2>4. ASSUME NEW t \in Threads, RuntimeUnregisterThread(t) PROVE TypeOK'
    BY <2>4 DEF RuntimeUnregisterThread
  <2>5. ASSUME NEW t \in Threads, LeaveRunning(t) PROVE TypeOK'
    BY <2>5 DEF LeaveRunning, TransferFromRunningToSuspended, LeaveTo
  <2>6. ASSUME NEW t \in Threads, TransferUnlock(t) PROVE TypeOK'
    BY <2>6 DEF TransferUnlock
  <2>7. ASSUME NEW t \in Threads, EnterRunning(t) PROVE TypeOK'
    BY <2>7 DEF EnterRunning
  <2>8. ASSUME NEW t \in Threads, StoreStateLoad(t) PROVE TypeOK'
    BY <2>8 DEF StoreStateLoad
  <2>9. ASSUME NEW t \in Threads, StoreStateReadLock(t) PROVE TypeOK'
    BY <2>9 DEF StoreStateReadLock
  <2>10. ASSUME NEW t \in Threads, StoreStateCas(t) PROVE TypeOK'
    BY <2>10 DEF StoreStateCas
  <2>11. ASSUME NEW t \in Threads, StoreStateCasFail(t) PROVE TypeOK'
    BY <2>11 DEF StoreStateCasFail
  <2>12. ASSUME NEW t \in Threads, StoreStateUnlock(t) PROVE TypeOK'
    BY <2>12 DEF StoreStateUnlock
  <2>13. ASSUME NEW t \in Threads, CheckSafepoint(t) PROVE TypeOK'
    BY <2>13 DEF CheckSafepoint
  <2>14. ASSUME NEW t \in Threads, CheckSafepointSuspended(t) PROVE TypeOK'
    BY <2>14 DEF CheckSafepointSuspended, WaitSuspensionFromRunning, TransferFromRunningToSuspended, LeaveTo
  <2>15. ASSUME NEW t \in Threads, CheckSafepointIfSuspended(t) PROVE TypeOK'
    BY <2>15 DEF CheckSafepointIfSuspended, WaitSuspensionFromRunning, TransferFromRunningToSuspended, LeaveTo
  <2>16. ASSUME NEW t \in Threads, WaitSuspension(t) PROVE TypeOK'
    BY <2>16 DEF WaitSuspension
  <2>17. ASSUME NEW t \in Threads, WaitSuspensionRestore(t) PROVE TypeOK'
    BY <2>17 DEF WaitSuspensionRestore
  <2>18. ASSUME NEW t \in Threads, CollectGarbage(t) PROVE TypeOK'
    BY <2>18 DEF CollectGarbage, TransferFromRunningToSuspended, LeaveTo
  <2>19. ASSUME NEW t \in Threads, RuntimeLockHolderLock(t) PROVE TypeOK'
    BY <2>19 DEF RuntimeLockHolderLock
  <2>20. ASSUME NEW t \in Threads, RuntimeLockHolderUnlock(t) PROVE TypeOK'
    BY <2>20 DEF RuntimeLockHolderUnlock
  <2>21. ASSUME NEW t \in Threads, CollectGarbageScope(t) PROVE TypeOK'
    BY <2>21 DEF CollectGarbageScope, SuspendAllScope, LeaveTo
  <2>22. ASSUME NEW t \in Threads, HeapProfilerScope(t) PROVE TypeOK'
    BY <2>22 DEF HeapProfilerScope, SuspendAllScope, LeaveTo
  <2>23. ASSUME NEW t \in Threads, SuspendAllThreadsImpl(t) PROVE TypeOK'
    BY <2>23 DEF SuspendAllThreadsImpl
  <2>24. ASSUME NEW t \in Threads, SpuriousWakeup(t) PROVE TypeOK'
    BY <2>24 DEF SpuriousWakeup
  <2>25. ASSUME NEW t \in Threads, SuspendAllThreadsDone(t) PROVE TypeOK'
    BY <2>25 DEF SuspendAllThreadsDone
  <2>26. ASSUME NEW t \in Threads, SuspendAllWriteLock(t) PROVE TypeOK'
    BY <2>26 DEF SuspendAllWriteLock
  <2>27. ASSUME NEW t \in Threads, ResumeAllUnlock(t) PROVE TypeOK'
    BY <2>27 DEF ResumeAllUnlock
  <2>28. ASSUME NEW t \in Threads, ResumeAllThreadsImpl(t) PROVE TypeOK'
    BY <2>28 DEF ResumeAllThreadsImpl, Waiting
  <2>29. ASSUME NEW t \in Threads, ResumeAllDone(t) PROVE TypeOK'
    BY <2>29 DEF ResumeAllDone
  <2>30. ASSUME NEW t \in Threads, NEW x \in Threads, SuspendThread(t, x) PROVE TypeOK'
    BY <2>30 DEF SuspendThread
  <2>31. ASSUME NEW t \in Threads, NEW x \in Threads, SuspendThreadBit(t, x) PROVE TypeOK'
    BY <2>31 DEF SuspendThreadBit
  <2>32. ASSUME NEW t \in Threads, NEW x \in Threads, ResumeThread(t, x) PROVE TypeOK'
    BY <2>32 DEF ResumeThread
  <2>33. ASSUME NEW t \in Threads, NEW x \in Threads, ResumeThreadBit(t, x) PROVE TypeOK'
    BY <2>33 DEF ResumeThreadBit
  <2>34. CASE UNCHANGED vars
    BY <2>34 DEF vars
  <2>35. QED
    BY <2>1, <2>2, <2>3, <2>4, <2>5, <2>6, <2>7, <2>8, <2>9, <2>10, <2>11, <2>12,
       <2>13, <2>14, <2>15, <2>16, <2>17, <2>18, <2>19, <2>20, <2>21, <2>22, <2>23, <2>24,
       <2>25, <2>26, <2>27, <2>28, <2>29, <2>30, <2>31, <2>32, <2>33, <2>34
       DEF Next, Choose, Continue, Finished
<1>3. QED
  BY <1>1, <1>2, PTL DEF Spec

-----------------------------------------------------------------------------
(* The mutator lock                                                         *)

\* Where a thread holds the read lock without being RUNNING.
Crossing == {"unlock", "cas", "casfail"}

\* The read lock is held exactly by RUNNING threads and by those on their way in or out;
\* the write lock exactly by the thread that has the world to itself.
LockInv ==
    /\ \A t \in Threads : state[t] = "RUNNING" => pc[t] \in {"run", "safept", "scope", "gcrel"}
    /\ \A t \in Threads : pc[t] \in {"safept", "scope", "gcrel"} => state[t] = "RUNNING"
    /\ \A t \in Threads : t \in readers <=> state[t] = "RUNNING" \/ pc[t] \in Crossing
    /\ \A t \in Threads : writer = t <=> pc[t] = "world"
    /\ writer # None => readers = {}

\* LockInv holds in every reachable state: UpdateState stores a state other than RUNNING
\* before it unlocks, and RUNNING only after it has locked.
THEOREM LockInvariant == Spec => []LockInv
<1> USE SuspensionAssumption DEF LockInv
<1>1. Init => LockInv
  BY DEF Init, Crossing
<1>2. TypeOK /\ LockInv /\ [Next]_vars => LockInv'
  <2> SUFFICES ASSUME TypeOK, LockInv, [Next]_vars PROVE LockInv'
    OBVIOUS
  <2> USE DEF TypeOK, Goto, SetState, At, Labels, Crossing, lockVars, listVars, flagVars, frameVars
  <2>1. ASSUME NEW t \in Threads, RegisterThread(t) PROVE LockInv'
    BY <2>1 DEF RegisterThread
  <2>2. ASSUME NEW t \in Threads, Attach(t) PROVE LockInv'
    BY <2>2 DEF Attach
  <2>3. ASSUME NEW t \in Threads, UnregisterThread(t) PROVE LockInv'
    BY <2>3 DEF UnregisterThread, LeaveTo
  <2>4. ASSUME NEW t \in Threads, RuntimeUnregisterThread(t) PROVE LockInv'
    BY <2>4 DEF RuntimeUnregisterThread
  <2>5. ASSUME NEW t \in Threads, LeaveRunning(t) PROVE LockInv'
    BY <2>5 DEF LeaveRunning, TransferFromRunningToSuspended, LeaveTo
  <2>6. ASSUME NEW t \in Threads, TransferUnlock(t) PROVE LockInv'
    BY <2>6 DEF TransferUnlock
  <2>7. ASSUME NEW t \in Threads, EnterRunning(t) PROVE LockInv'
    BY <2>7 DEF EnterRunning
  <2>8. ASSUME NEW t \in Threads, StoreStateLoad(t) PROVE LockInv'
    BY <2>8 DEF StoreStateLoad
  <2>9. ASSUME NEW t \in Threads, StoreStateReadLock(t) PROVE LockInv'
    BY <2>9 DEF StoreStateReadLock
  <2>10. ASSUME NEW t \in Threads, StoreStateCas(t) PROVE LockInv'
    BY <2>10 DEF StoreStateCas
  <2>11. ASSUME NEW t \in Threads, StoreStateCasFail(t) PROVE LockInv'
    BY <2>11 DEF StoreStateCasFail
  <2>12. ASSUME NEW t \in Threads, StoreStateUnlock(t) PROVE LockInv'
    BY <2>12 DEF StoreStateUnlock
  <2>13. ASSUME NEW t \in Threads, CheckSafepoint(t) PROVE LockInv'
    BY <2>13 DEF CheckSafepoint
  <2>14. ASSUME NEW t \in Threads, CheckSafepointSuspended(t) PROVE LockInv'
    BY <2>14 DEF CheckSafepointSuspended, WaitSuspensionFromRunning, TransferFromRunningToSuspended, LeaveTo
  <2>15. ASSUME NEW t \in Threads, CheckSafepointIfSuspended(t) PROVE LockInv'
    BY <2>15 DEF CheckSafepointIfSuspended, WaitSuspensionFromRunning, TransferFromRunningToSuspended, LeaveTo
  <2>16. ASSUME NEW t \in Threads, WaitSuspension(t) PROVE LockInv'
    BY <2>16 DEF WaitSuspension
  <2>17. ASSUME NEW t \in Threads, WaitSuspensionRestore(t) PROVE LockInv'
    BY <2>17 DEF WaitSuspensionRestore
  <2>18. ASSUME NEW t \in Threads, CollectGarbage(t) PROVE LockInv'
    BY <2>18 DEF CollectGarbage, TransferFromRunningToSuspended, LeaveTo
  <2>19. ASSUME NEW t \in Threads, RuntimeLockHolderLock(t) PROVE LockInv'
    BY <2>19 DEF RuntimeLockHolderLock
  <2>20. ASSUME NEW t \in Threads, RuntimeLockHolderUnlock(t) PROVE LockInv'
    BY <2>20 DEF RuntimeLockHolderUnlock
  <2>21. ASSUME NEW t \in Threads, CollectGarbageScope(t) PROVE LockInv'
    BY <2>21 DEF CollectGarbageScope, SuspendAllScope, LeaveTo
  <2>22. ASSUME NEW t \in Threads, HeapProfilerScope(t) PROVE LockInv'
    BY <2>22 DEF HeapProfilerScope, SuspendAllScope, LeaveTo
  <2>23. ASSUME NEW t \in Threads, SuspendAllThreadsImpl(t) PROVE LockInv'
    BY <2>23 DEF SuspendAllThreadsImpl
  <2>24. ASSUME NEW t \in Threads, SpuriousWakeup(t) PROVE LockInv'
    BY <2>24 DEF SpuriousWakeup
  <2>25. ASSUME NEW t \in Threads, SuspendAllThreadsDone(t) PROVE LockInv'
    BY <2>25 DEF SuspendAllThreadsDone
  <2>26. ASSUME NEW t \in Threads, SuspendAllWriteLock(t) PROVE LockInv'
    BY <2>26 DEF SuspendAllWriteLock
  <2>27. ASSUME NEW t \in Threads, ResumeAllUnlock(t) PROVE LockInv'
    BY <2>27 DEF ResumeAllUnlock
  <2>28. ASSUME NEW t \in Threads, ResumeAllThreadsImpl(t) PROVE LockInv'
    BY <2>28 DEF ResumeAllThreadsImpl, Waiting
  <2>29. ASSUME NEW t \in Threads, ResumeAllDone(t) PROVE LockInv'
    BY <2>29 DEF ResumeAllDone
  <2>30. ASSUME NEW t \in Threads, NEW x \in Threads, SuspendThread(t, x) PROVE LockInv'
    BY <2>30 DEF SuspendThread
  <2>31. ASSUME NEW t \in Threads, NEW x \in Threads, SuspendThreadBit(t, x) PROVE LockInv'
    BY <2>31 DEF SuspendThreadBit
  <2>32. ASSUME NEW t \in Threads, NEW x \in Threads, ResumeThread(t, x) PROVE LockInv'
    BY <2>32 DEF ResumeThread
  <2>33. ASSUME NEW t \in Threads, NEW x \in Threads, ResumeThreadBit(t, x) PROVE LockInv'
    BY <2>33 DEF ResumeThreadBit
  <2>34. CASE UNCHANGED vars
    BY <2>34 DEF vars
  <2>35. QED
    BY <2>1, <2>2, <2>3, <2>4, <2>5, <2>6, <2>7, <2>8, <2>9, <2>10, <2>11, <2>12,
       <2>13, <2>14, <2>15, <2>16, <2>17, <2>18, <2>19, <2>20, <2>21, <2>22, <2>23, <2>24,
       <2>25, <2>26, <2>27, <2>28, <2>29, <2>30, <2>31, <2>32, <2>33, <2>34
       DEF Next, Choose, Continue, Finished
<1>3. QED
  BY <1>1, <1>2, TypeCorrect, PTL DEF Spec

\* While an initiator is between SuspendAll and ResumeAll no thread is RUNNING.
THEOREM StopTheWorldSafe == Spec => []WorldStopped
<1>1. LockInv => WorldStopped
  BY SuspensionAssumption DEF LockInv, WorldStopped, At
<1>2. QED
  BY <1>1, LockInvariant, PTL

\* The lock operations meet the assertions of MutatorLock.
THEOREM LocksAreDisciplined == Spec => []LockDiscipline
<1>1. LockInv => LockDiscipline
  BY SuspensionAssumption DEF LockInv, LockDiscipline, Crossing, At
<1>2. QED
  BY <1>1, LockInvariant, PTL

-----------------------------------------------------------------------------
(* The list of threads and the requests                                     *)

\* Who may hold threadsLock_ and iterate, and that suspendNewCount_ marks the initiator.
ListInv ==
    /\ \A t, u \in Initiators : t = u
    /\ suspendNewCount = IF Initiators = {} THEN 0 ELSE 1
    /\ \A t \in Threads : threadsLock = t <=> pc[t] \in {"saiter", "raiter"}
    /\ \A t \in Threads : pc[t] = "raiter" => Initiators = {}
    /\ threadsLock = None => todo = {}
    /\ threadsLock \notin todo
    /\ todo \in SUBSET threads
    /\ \A t \in Threads : t \in threads <=> pc[t] \notin {"new", "dead"}
    /\ \A x \in Threads : suspendLock[x] # None => suspendLock[x] = threadsLock /\ x \in todo

\* ListInv holds in every reachable state: threads_ changes only under threadsLock_, and an
\* initiator starts only when suspendNewCount_ is zero.
THEOREM ListInvariant == Spec => []ListInv
<1> USE SuspensionAssumption DEF ListInv, Initiators, InitiatorLabels
<1>1. Init => ListInv
  BY DEF Init
<1>2. TypeOK /\ ListInv /\ [Next]_vars => ListInv'
  <2> SUFFICES ASSUME TypeOK, ListInv, [Next]_vars PROVE ListInv'
    OBVIOUS
  <2> USE DEF TypeOK, Goto, SetState, At, Labels, lockVars, listVars, flagVars, frameVars
  <2>1. ASSUME NEW t \in Threads, RegisterThread(t) PROVE ListInv'
    BY <2>1 DEF RegisterThread
  <2>2. ASSUME NEW t \in Threads, Attach(t) PROVE ListInv'
    BY <2>2 DEF Attach
  <2>3. ASSUME NEW t \in Threads, UnregisterThread(t) PROVE ListInv'
    BY <2>3 DEF UnregisterThread, LeaveTo
  <2>4. ASSUME NEW t \in Threads, RuntimeUnregisterThread(t) PROVE ListInv'
    BY <2>4 DEF RuntimeUnregisterThread
  <2>5. ASSUME NEW t \in Threads, LeaveRunning(t) PROVE ListInv'
    BY <2>5 DEF LeaveRunning, TransferFromRunningToSuspended, LeaveTo
  <2>6. ASSUME NEW t \in Threads, TransferUnlock(t) PROVE ListInv'
    BY <2>6 DEF TransferUnlock
  <2>7. ASSUME NEW t \in Threads, EnterRunning(t) PROVE ListInv'
    BY <2>7 DEF EnterRunning
  <2>8. ASSUME NEW t \in Threads, StoreStateLoad(t) PROVE ListInv'
    BY <2>8 DEF StoreStateLoad
  <2>9. ASSUME NEW t \in Threads, StoreStateReadLock(t) PROVE ListInv'
    BY <2>9 DEF StoreStateReadLock
  <2>10. ASSUME NEW t \in Threads, StoreStateCas(t) PROVE ListInv'
    BY <2>10 DEF StoreStateCas
  <2>11. ASSUME NEW t \in Threads, StoreStateCasFail(t) PROVE ListInv'
    BY <2>11 DEF StoreStateCasFail
  <2>12. ASSUME NEW t \in Threads, StoreStateUnlock(t) PROVE ListInv'
    BY <2>12 DEF StoreStateUnlock
  <2>13. ASSUME NEW t \in Threads, CheckSafepoint(t) PROVE ListInv'
    BY <2>13 DEF CheckSafepoint
  <2>14. ASSUME NEW t \in Threads, CheckSafepointSuspended(t) PROVE ListInv'
    BY <2>14 DEF CheckSafepointSuspended, WaitSuspensionFromRunning, TransferFromRunningToSuspended, LeaveTo
  <2>15. ASSUME NEW t \in Threads, CheckSafepointIfSuspended(t) PROVE ListInv'
    BY <2>15 DEF CheckSafepointIfSuspended, WaitSuspensionFromRunning, TransferFromRunningToSuspended, LeaveTo
  <2>16. ASSUME NEW t \in Threads, WaitSuspension(t) PROVE ListInv'
    BY <2>16 DEF WaitSuspension
  <2>17. ASSUME NEW t \in Threads, WaitSuspensionRestore(t) PROVE ListInv'
    BY <2>17 DEF WaitSuspensionRestore
  <2>18. ASSUME NEW t \in Threads, CollectGarbage(t) PROVE ListInv'
    BY <2>18 DEF CollectGarbage, TransferFromRunningToSuspended, LeaveTo
  <2>19. ASSUME NEW t \in Threads, RuntimeLockHolderLock(t) PROVE ListInv'
    BY <2>19 DEF RuntimeLockHolderLock
  <2>20. ASSUME NEW t \in Threads, RuntimeLockHolderUnlock(t) PROVE ListInv'
    BY <2>20 DEF RuntimeLockHolderUnlock
  <2>21. ASSUME NEW t \in Threads, CollectGarbageScope(t) PROVE ListInv'
    BY <2>21 DEF CollectGarbageScope, SuspendAllScope, LeaveTo
  <2>22. ASSUME NEW t \in Threads, HeapProfilerScope(t) PROVE ListInv'
    BY <2>22 DEF HeapProfilerScope, SuspendAllScope, LeaveTo
  <2>23. ASSUME NEW t \in Threads, SuspendAllThreadsImpl(t) PROVE ListInv'
    BY <2>23 DEF SuspendAllThreadsImpl
  <2>24. ASSUME NEW t \in Threads, SpuriousWakeup(t) PROVE ListInv'
    BY <2>24 DEF SpuriousWakeup
  <2>25. ASSUME NEW t \in Threads, SuspendAllThreadsDone(t) PROVE ListInv'
    BY <2>25 DEF SuspendAllThreadsDone
  <2>26. ASSUME NEW t \in Threads, SuspendAllWriteLock(t) PROVE ListInv'
    BY <2>26 DEF SuspendAllWriteLock
  <2>27. ASSUME NEW t \in Threads, ResumeAllUnlock(t) PROVE ListInv'
    BY <2>27 DEF ResumeAllUnlock
  <2>28. ASSUME NEW t \in Threads, ResumeAllThreadsImpl(t) PROVE ListInv'
    BY <2>28 DEF ResumeAllThreadsImpl, Waiting
  <2>29. ASSUME NEW t \in Threads, ResumeAllDone(t) PROVE ListInv'
    BY <2>29 DEF ResumeAllDone
  <2>30. ASSUME NEW t \in Threads, NEW x \in Threads, SuspendThread(t, x) PROVE ListInv'
    BY <2>30 DEF SuspendThread
  <2>31. ASSUME NEW t \in Threads, NEW x \in Threads, SuspendThreadBit(t, x) PROVE ListInv'
    BY <2>31 DEF SuspendThreadBit
  <2>32. ASSUME NEW t \in Threads, NEW x \in Threads, ResumeThread(t, x) PROVE ListInv'
    BY <2>32 DEF ResumeThread
  <2>33. ASSUME NEW t \in Threads, NEW x \in Threads, ResumeThreadBit(t, x) PROVE ListInv'
    BY <2>33 DEF ResumeThreadBit
  <2>34. CASE UNCHANGED vars
    BY <2>34 DEF vars
  <2>35. QED
    BY <2>1, <2>2, <2>3, <2>4, <2>5, <2>6, <2>7, <2>8, <2>9, <2>10, <2>11, <2>12,
       <2>13, <2>14, <2>15, <2>16, <2>17, <2>18, <2>19, <2>20, <2>21, <2>22, <2>23, <2>24,
       <2>25, <2>26, <2>27, <2>28, <2>29, <2>30, <2>31, <2>32, <2>33, <2>34
       DEF Next, Choose, Continue, Finished
<1>3. QED
  BY <1>1, <1>2, TypeCorrect, PTL DEF Spec

\* One initiator at a time: the wait for suspendNewCount_ = 0 keeps the others out.
THEOREM InitiatorsExclude == Spec => []OneInitiator
<1>1. ListInv => OneInitiator
  BY DEF ListInv, OneInitiator
<1>2. QED
  BY <1>1, ListInvariant, PTL

\* What a thread inside SuspendThread or ResumeThread has already done to its target.
HalfWay ==
    \A x \in Threads :
       suspendLock[x] # None =>
          IF pc[suspendLock[x]] = "saiter"
             THEN suspendCount[x] = 1 /\ suspendRequest[x]
             ELSE suspendCount[x] = 0 /\ ~suspendRequest[x]

CountInv == CountsMatch /\ HalfWay

\* The counts are right in every reachable state, between and inside the critical
\* sections of suspendLock_ (SuspendThread, ResumeThread, RegisterThread).
THEOREM CountInvariant == Spec => []CountInv
<1> USE SuspensionAssumption
        DEF CountInv, CountsMatch, HalfWay, SuspendedByInitiator, Initiators, InitiatorLabels
<1>1. Init => CountInv
  BY DEF Init, At
<1>2. TypeOK /\ ListInv /\ CountInv /\ [Next]_vars => CountInv'
  <2> SUFFICES ASSUME TypeOK, ListInv, CountInv, [Next]_vars PROVE CountInv'
    OBVIOUS
  <2> USE DEF TypeOK, ListInv, Goto, SetState, At, Labels, lockVars, listVars, flagVars, frameVars
  <2>1. ASSUME NEW t \in Threads, RegisterThread(t) PROVE CountInv'
    <3> USE <2>1 DEF RegisterThread
    <3>1. t \notin threads /\ t \notin todo /\ suspendLock[t] = None /\ suspendCount[t] = 0
      OBVIOUS
    <3>2. suspendLock' = suspendLock /\ todo' = todo /\ \A y \in Threads \ {t} :
             /\ suspendCount'[y] = suspendCount[y] /\ suspendRequest'[y] = suspendRequest[y]
             /\ pc'[y] = pc[y] /\ (y \in threads' <=> y \in threads)
      OBVIOUS
    <3>3. Initiators' = Initiators /\ t \notin Initiators
      OBVIOUS
    <3>4. \A y \in Threads \ {t} : SuspendedByInitiator(y)' <=> SuspendedByInitiator(y)
      BY <3>2, <3>3
    <3>5. \A i \in Initiators : ~At(i, "saiter")
      OBVIOUS
    <3>6. SuspendedByInitiator(t)' <=> Initiators # {}
      BY <3>1, <3>3, <3>5
    <3>7. /\ suspendCount'[t] = IF Initiators # {} THEN 1 ELSE 0
          /\ suspendRequest'[t] <=> Initiators # {}
      <4>1. suspendNewCount = IF Initiators # {} THEN 1 ELSE 0
        BY DEF ListInv
      <4>2. suspendCount'[t] = suspendNewCount /\ suspendRequest'[t] = (suspendNewCount > 0)
        BY <3>1
      <4>3. suspendRequest'[t] <=> suspendNewCount > 0
        BY <4>2, Zenon
      <4>4. QED
        BY <4>1, <4>2, <4>3
    <3>8. CountsMatch'
      BY <3>2, <3>4, <3>6, <3>7
    <3>9. HalfWay'
      BY <3>1, <3>2
    <3>10. QED
      BY <3>8, <3>9
  <2>2. ASSUME NEW t \in Threads, Attach(t) PROVE CountInv'
    BY <2>2 DEF Attach
  <2>3. ASSUME NEW t \in Threads, UnregisterThread(t) PROVE CountInv'
    BY <2>3 DEF UnregisterThread, LeaveTo
  <2>4. ASSUME NEW t \in Threads, RuntimeUnregisterThread(t) PROVE CountInv'
    BY <2>4 DEF RuntimeUnregisterThread
  <2>5. ASSUME NEW t \in Threads, LeaveRunning(t) PROVE CountInv'
    BY <2>5 DEF LeaveRunning, TransferFromRunningToSuspended, LeaveTo
  <2>6. ASSUME NEW t \in Threads, TransferUnlock(t) PROVE CountInv'
    BY <2>6 DEF TransferUnlock
  <2>7. ASSUME NEW t \in Threads, EnterRunning(t) PROVE CountInv'
    BY <2>7 DEF EnterRunning
  <2>8. ASSUME NEW t \in Threads, StoreStateLoad(t) PROVE CountInv'
    BY <2>8 DEF StoreStateLoad
  <2>9. ASSUME NEW t \in Threads, StoreStateReadLock(t) PROVE CountInv'
    BY <2>9 DEF StoreStateReadLock
  <2>10. ASSUME NEW t \in Threads, StoreStateCas(t) PROVE CountInv'
    BY <2>10 DEF StoreStateCas
  <2>11. ASSUME NEW t \in Threads, StoreStateCasFail(t) PROVE CountInv'
    BY <2>11 DEF StoreStateCasFail
  <2>12. ASSUME NEW t \in Threads, StoreStateUnlock(t) PROVE CountInv'
    BY <2>12 DEF StoreStateUnlock
  <2>13. ASSUME NEW t \in Threads, CheckSafepoint(t) PROVE CountInv'
    BY <2>13 DEF CheckSafepoint
  <2>14. ASSUME NEW t \in Threads, CheckSafepointSuspended(t) PROVE CountInv'
    BY <2>14 DEF CheckSafepointSuspended, WaitSuspensionFromRunning, TransferFromRunningToSuspended, LeaveTo
  <2>15. ASSUME NEW t \in Threads, CheckSafepointIfSuspended(t) PROVE CountInv'
    BY <2>15 DEF CheckSafepointIfSuspended, WaitSuspensionFromRunning, TransferFromRunningToSuspended, LeaveTo
  <2>16. ASSUME NEW t \in Threads, WaitSuspension(t) PROVE CountInv'
    BY <2>16 DEF WaitSuspension
  <2>17. ASSUME NEW t \in Threads, WaitSuspensionRestore(t) PROVE CountInv'
    BY <2>17 DEF WaitSuspensionRestore
  <2>18. ASSUME NEW t \in Threads, CollectGarbage(t) PROVE CountInv'
    BY <2>18 DEF CollectGarbage, TransferFromRunningToSuspended, LeaveTo
  <2>19. ASSUME NEW t \in Threads, RuntimeLockHolderLock(t) PROVE CountInv'
    BY <2>19 DEF RuntimeLockHolderLock
  <2>20. ASSUME NEW t \in Threads, RuntimeLockHolderUnlock(t) PROVE CountInv'
    BY <2>20 DEF RuntimeLockHolderUnlock
  <2>21. ASSUME NEW t \in Threads, CollectGarbageScope(t) PROVE CountInv'
    BY <2>21 DEF CollectGarbageScope, SuspendAllScope, LeaveTo
  <2>22. ASSUME NEW t \in Threads, HeapProfilerScope(t) PROVE CountInv'
    BY <2>22 DEF HeapProfilerScope, SuspendAllScope, LeaveTo
  <2>23. ASSUME NEW t \in Threads, SuspendAllThreadsImpl(t) PROVE CountInv'
    BY <2>23 DEF SuspendAllThreadsImpl
  <2>24. ASSUME NEW t \in Threads, SpuriousWakeup(t) PROVE CountInv'
    BY <2>24 DEF SpuriousWakeup
  <2>25. ASSUME NEW t \in Threads, SuspendAllThreadsDone(t) PROVE CountInv'
    BY <2>25 DEF SuspendAllThreadsDone
  <2>26. ASSUME NEW t \in Threads, SuspendAllWriteLock(t) PROVE CountInv'
    BY <2>26 DEF SuspendAllWriteLock
  <2>27. ASSUME NEW t \in Threads, ResumeAllUnlock(t) PROVE CountInv'
    BY <2>27 DEF ResumeAllUnlock
  <2>28. ASSUME NEW t \in Threads, ResumeAllThreadsImpl(t) PROVE CountInv'
    BY <2>28 DEF ResumeAllThreadsImpl, Waiting
  <2>29. ASSUME NEW t \in Threads, ResumeAllDone(t) PROVE CountInv'
    BY <2>29 DEF ResumeAllDone
  <2>30. ASSUME NEW t \in Threads, NEW x \in Threads, SuspendThread(t, x) PROVE CountInv'
    <3> USE <2>30 DEF SuspendThread
    <3>1. /\ t \in Initiators /\ x # t /\ x \in threads /\ suspendLock[x] = None
          /\ \A i \in Threads : pc[i] # "raiter"
      OBVIOUS
    <3>2. ~SuspendedByInitiator(x) /\ suspendCount[x] = 0
      BY <3>1
    <3>3. \A y \in Threads \ {x} :
             /\ suspendCount'[y] = suspendCount[y] /\ suspendRequest'[y] = suspendRequest[y]
             /\ suspendLock'[y] = suspendLock[y]
             /\ SuspendedByInitiator(y)' <=> SuspendedByInitiator(y)
      OBVIOUS
    <3>4. /\ suspendLock'[x] = t /\ pc'[t] = "saiter"
          /\ suspendCount'[x] = suspendCount[x] + 1
          /\ suspendRequest'[x] = (suspendRequest[x] \/ suspendCount[x] = 0)
      OBVIOUS
    <3>5. suspendRequest'[x]
      BY <3>2, <3>4, Zenon
    <3>6. QED
      BY <3>2, <3>3, <3>4, <3>5
  <2>31. ASSUME NEW t \in Threads, NEW x \in Threads, SuspendThreadBit(t, x) PROVE CountInv'
    BY <2>31 DEF SuspendThreadBit
  <2>32. ASSUME NEW t \in Threads, NEW x \in Threads, ResumeThread(t, x) PROVE CountInv'
    BY <2>32 DEF ResumeThread
  <2>33. ASSUME NEW t \in Threads, NEW x \in Threads, ResumeThreadBit(t, x) PROVE CountInv'
    BY <2>33 DEF ResumeThreadBit
  <2>34. CASE UNCHANGED vars
    BY <2>34 DEF vars
  <2>35. QED
    BY <2>1, <2>2, <2>3, <2>4, <2>5, <2>6, <2>7, <2>8, <2>9, <2>10, <2>11, <2>12,
       <2>13, <2>14, <2>15, <2>16, <2>17, <2>18, <2>19, <2>20, <2>21, <2>22, <2>23, <2>24,
       <2>25, <2>26, <2>27, <2>28, <2>29, <2>30, <2>31, <2>32, <2>33, <2>34
       DEF Next, Choose, Continue, Finished
<1>3. QED
  BY <1>1, <1>2, TypeCorrect, ListInvariant, PTL DEF Spec

\* No suspend request is lost or left behind.
THEOREM RequestsMatch == Spec => []CountsMatch
<1>1. CountInv => CountsMatch
  BY DEF CountInv
<1>2. QED
  BY <1>1, CountInvariant, PTL

\* RequestIsPolled wherever the thread is RUNNING, except inside CheckSafepoint, which has
\* taken the bit and looks at the flag next.
PollInv ==
    \A t \in Threads :
       state[t] = "RUNNING" /\ pc[t] # "safept" /\ suspendRequest[t] /\ suspendLock[t] = None
          => checkSafePoint[t]

\* PollInv holds in every reachable state: interruptMutex_ keeps SetCheckSafePointStatus
\* out of CheckSafepoint, and the exchange in StoreState fails when the flag is set.
THEOREM PollInvariant == Spec => []PollInv
<1> USE SuspensionAssumption DEF PollInv
<1>1. Init => PollInv
  BY DEF Init
<1>2. TypeOK /\ ListInv /\ LockInv /\ CountInv /\ PollInv /\ [Next]_vars => PollInv'
  <2> SUFFICES ASSUME TypeOK, ListInv, LockInv, CountInv, PollInv, [Next]_vars PROVE PollInv'
    OBVIOUS
  <2> USE DEF TypeOK, Goto, SetState, At, Labels, lockVars, listVars, flagVars, frameVars
  <2>1. ASSUME NEW t \in Threads, RegisterThread(t) PROVE PollInv'
    BY <2>1 DEF RegisterThread, LockInv
  <2>2. ASSUME NEW t \in Threads, Attach(t) PROVE PollInv'
    BY <2>2 DEF Attach
  <2>3. ASSUME NEW t \in Threads, UnregisterThread(t) PROVE PollInv'
    BY <2>3 DEF UnregisterThread, LeaveTo
  <2>4. ASSUME NEW t \in Threads, RuntimeUnregisterThread(t) PROVE PollInv'
    BY <2>4 DEF RuntimeUnregisterThread
  <2>5. ASSUME NEW t \in Threads, LeaveRunning(t) PROVE PollInv'
    BY <2>5 DEF LeaveRunning, TransferFromRunningToSuspended, LeaveTo
  <2>6. ASSUME NEW t \in Threads, TransferUnlock(t) PROVE PollInv'
    BY <2>6 DEF TransferUnlock
  <2>7. ASSUME NEW t \in Threads, EnterRunning(t) PROVE PollInv'
    BY <2>7 DEF EnterRunning
  <2>8. ASSUME NEW t \in Threads, StoreStateLoad(t) PROVE PollInv'
    BY <2>8 DEF StoreStateLoad
  <2>9. ASSUME NEW t \in Threads, StoreStateReadLock(t) PROVE PollInv'
    BY <2>9 DEF StoreStateReadLock
  <2>10. ASSUME NEW t \in Threads, StoreStateCas(t) PROVE PollInv'
    BY <2>10 DEF StoreStateCas
  <2>11. ASSUME NEW t \in Threads, StoreStateCasFail(t) PROVE PollInv'
    BY <2>11 DEF StoreStateCasFail
  <2>12. ASSUME NEW t \in Threads, StoreStateUnlock(t) PROVE PollInv'
    BY <2>12 DEF StoreStateUnlock
  <2>13. ASSUME NEW t \in Threads, CheckSafepoint(t) PROVE PollInv'
    BY <2>13 DEF CheckSafepoint
  <2>14. ASSUME NEW t \in Threads, CheckSafepointSuspended(t) PROVE PollInv'
    BY <2>14 DEF CheckSafepointSuspended, WaitSuspensionFromRunning, TransferFromRunningToSuspended, LeaveTo
  <2>15. ASSUME NEW t \in Threads, CheckSafepointIfSuspended(t) PROVE PollInv'
    BY <2>15 DEF CheckSafepointIfSuspended, WaitSuspensionFromRunning, TransferFromRunningToSuspended, LeaveTo
  <2>16. ASSUME NEW t \in Threads, WaitSuspension(t) PROVE PollInv'
    BY <2>16 DEF WaitSuspension
  <2>17. ASSUME NEW t \in Threads, WaitSuspensionRestore(t) PROVE PollInv'
    BY <2>17 DEF WaitSuspensionRestore
  <2>18. ASSUME NEW t \in Threads, CollectGarbage(t) PROVE PollInv'
    BY <2>18 DEF CollectGarbage, TransferFromRunningToSuspended, LeaveTo
  <2>19. ASSUME NEW t \in Threads, RuntimeLockHolderLock(t) PROVE PollInv'
    BY <2>19 DEF RuntimeLockHolderLock
  <2>20. ASSUME NEW t \in Threads, RuntimeLockHolderUnlock(t) PROVE PollInv'
    BY <2>20 DEF RuntimeLockHolderUnlock
  <2>21. ASSUME NEW t \in Threads, CollectGarbageScope(t) PROVE PollInv'
    BY <2>21 DEF CollectGarbageScope, SuspendAllScope, LeaveTo
  <2>22. ASSUME NEW t \in Threads, HeapProfilerScope(t) PROVE PollInv'
    BY <2>22 DEF HeapProfilerScope, SuspendAllScope, LeaveTo
  <2>23. ASSUME NEW t \in Threads, SuspendAllThreadsImpl(t) PROVE PollInv'
    BY <2>23 DEF SuspendAllThreadsImpl
  <2>24. ASSUME NEW t \in Threads, SpuriousWakeup(t) PROVE PollInv'
    BY <2>24 DEF SpuriousWakeup
  <2>25. ASSUME NEW t \in Threads, SuspendAllThreadsDone(t) PROVE PollInv'
    BY <2>25 DEF SuspendAllThreadsDone
  <2>26. ASSUME NEW t \in Threads, SuspendAllWriteLock(t) PROVE PollInv'
    BY <2>26 DEF SuspendAllWriteLock
  <2>27. ASSUME NEW t \in Threads, ResumeAllUnlock(t) PROVE PollInv'
    BY <2>27 DEF ResumeAllUnlock
  <2>28. ASSUME NEW t \in Threads, ResumeAllThreadsImpl(t) PROVE PollInv'
    BY <2>28 DEF ResumeAllThreadsImpl, Waiting
  <2>29. ASSUME NEW t \in Threads, ResumeAllDone(t) PROVE PollInv'
    BY <2>29 DEF ResumeAllDone
  <2>30. ASSUME NEW t \in Threads, NEW x \in Threads, SuspendThread(t, x) PROVE PollInv'
    BY <2>30 DEF SuspendThread
  <2>31. ASSUME NEW t \in Threads, NEW x \in Threads, SuspendThreadBit(t, x) PROVE PollInv'
    BY <2>31 DEF SuspendThreadBit, CountInv, HalfWay
  <2>32. ASSUME NEW t \in Threads, NEW x \in Threads, ResumeThread(t, x) PROVE PollInv'
    BY <2>32 DEF ResumeThread
  <2>33. ASSUME NEW t \in Threads, NEW x \in Threads, ResumeThreadBit(t, x) PROVE PollInv'
    BY <2>33 DEF ResumeThreadBit, CountInv, HalfWay
  <2>34. CASE UNCHANGED vars
    BY <2>34 DEF vars
  <2>35. QED
    BY <2>1, <2>2, <2>3, <2>4, <2>5, <2>6, <2>7, <2>8, <2>9, <2>10, <2>11, <2>12,
       <2>13, <2>14, <2>15, <2>16, <2>17, <2>18, <2>19, <2>20, <2>21, <2>22, <2>23, <2>24,
       <2>25, <2>26, <2>27, <2>28, <2>29, <2>30, <2>31, <2>32, <2>33, <2>34
       DEF Next, Choose, Continue, Finished
<1>3. QED
  BY <1>1, <1>2, TypeCorrect, ListInvariant, LockInvariant, CountInvariant, PTL DEF Spec

\* A completed suspend request is seen by the next poll of a running thread.
THEOREM RequestsArePolled == Spec => []RequestIsPolled
<1>1. PollInv => RequestIsPolled
  BY DEF PollInv, RequestIsPolled, At
<1>2. QED
  BY <1>1, PollInvariant, PTL
=============================================================================
