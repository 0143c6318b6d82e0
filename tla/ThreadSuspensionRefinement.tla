--------------------- MODULE ThreadSuspensionRefinement ---------------------
(***************************************************************************)
(* The suspension protocol implements StopTheWorld, for every set of       *)
(* threads.  It rests on the invariants of ThreadSuspensionProofs: a       *)
(* thread at the exchange of StoreState with a clear flag knows that no    *)
(* initiator has finished sending its requests.                            *)
(***************************************************************************)
EXTENDS ThreadSuspensionProofs

\* A thread at the exchange whose flag is clear finds every initiator still sending its
\* requests: the requests that are out have reached it.
LEMMA ExchangeInTime ==
    ASSUME TypeOK, ListInv, CountInv, NEW t \in Threads, StoreStateCas(t)
    PROVE  \A i \in Initiators : At(i, "saiter")
<1> SUFFICES ASSUME NEW i \in Initiators, ~At(i, "saiter") PROVE FALSE
  OBVIOUS
<1>1. i \in Threads /\ i # t /\ t \in threads /\ ~At(t, "dead")
  BY DEF Initiators, InitiatorLabels, ListInv, StoreStateCas, At
<1>2. threadsLock = None
  BY <1>1, SuspensionAssumption DEF ListInv, Initiators, InitiatorLabels, At, TypeOK
<1>3. suspendLock[t] = None
  BY <1>2 DEF ListInv
<1>4. SuspendedByInitiator(t)
  BY <1>1 DEF SuspendedByInitiator
<1>5. suspendCount[t] = 1 /\ (suspendRequest[t] <=> suspendCount[t] > 0)
  BY <1>1, <1>3, <1>4 DEF CountInv, CountsMatch
<1>6. QED
  BY <1>5 DEF StoreStateCas

\* Only the exchange of StoreState makes a thread RUNNING.
LEMMA OnlyExchangeRuns ==
    ASSUME TypeOK, [Next]_vars, NEW u \in Threads, state[u] # "RUNNING", state'[u] = "RUNNING"
    PROVE  StoreStateCas(u)
<1> USE DEF TypeOK, Goto, SetState, At, ThreadState, lockVars, listVars, flagVars, frameVars
<1>1. ASSUME NEW t \in Threads, RegisterThread(t) PROVE StoreStateCas(u)
  BY <1>1 DEF RegisterThread
<1>2. ASSUME NEW t \in Threads, Attach(t) PROVE StoreStateCas(u)
  BY <1>2 DEF Attach
<1>3. ASSUME NEW t \in Threads, UnregisterThread(t) PROVE StoreStateCas(u)
  BY <1>3 DEF UnregisterThread, LeaveTo
<1>4. ASSUME NEW t \in Threads, RuntimeUnregisterThread(t) PROVE StoreStateCas(u)
  BY <1>4 DEF RuntimeUnregisterThread
<1>5. ASSUME NEW t \in Threads, LeaveRunning(t) PROVE StoreStateCas(u)
  BY <1>5 DEF LeaveRunning, TransferFromRunningToSuspended, LeaveTo
<1>6. ASSUME NEW t \in Threads, TransferUnlock(t) PROVE StoreStateCas(u)
  BY <1>6 DEF TransferUnlock
<1>7. ASSUME NEW t \in Threads, EnterRunning(t) PROVE StoreStateCas(u)
  BY <1>7 DEF EnterRunning
<1>8. ASSUME NEW t \in Threads, StoreStateLoad(t) PROVE StoreStateCas(u)
  BY <1>8 DEF StoreStateLoad
<1>9. ASSUME NEW t \in Threads, StoreStateReadLock(t) PROVE StoreStateCas(u)
  BY <1>9 DEF StoreStateReadLock
<1>10. ASSUME NEW t \in Threads, StoreStateCas(t) PROVE StoreStateCas(u)
  BY <1>10 DEF StoreStateCas
<1>11. ASSUME NEW t \in Threads, StoreStateCasFail(t) PROVE StoreStateCas(u)
  BY <1>11 DEF StoreStateCasFail
<1>12. ASSUME NEW t \in Threads, StoreStateUnlock(t) PROVE StoreStateCas(u)
  BY <1>12 DEF StoreStateUnlock
<1>13. ASSUME NEW t \in Threads, CheckSafepoint(t) PROVE StoreStateCas(u)
  BY <1>13 DEF CheckSafepoint
<1>14. ASSUME NEW t \in Threads, CheckSafepointSuspended(t) PROVE StoreStateCas(u)
  BY <1>14 DEF CheckSafepointSuspended, WaitSuspensionFromRunning, TransferFromRunningToSuspended, LeaveTo
<1>15. ASSUME NEW t \in Threads, CheckSafepointIfSuspended(t) PROVE StoreStateCas(u)
  BY <1>15 DEF CheckSafepointIfSuspended, WaitSuspensionFromRunning, TransferFromRunningToSuspended, LeaveTo
<1>16. ASSUME NEW t \in Threads, WaitSuspension(t) PROVE StoreStateCas(u)
  BY <1>16 DEF WaitSuspension
<1>17. ASSUME NEW t \in Threads, WaitSuspensionRestore(t) PROVE StoreStateCas(u)
  BY <1>17 DEF WaitSuspensionRestore
<1>18. ASSUME NEW t \in Threads, CollectGarbage(t) PROVE StoreStateCas(u)
  BY <1>18 DEF CollectGarbage, TransferFromRunningToSuspended, LeaveTo
<1>19. ASSUME NEW t \in Threads, RuntimeLockHolderLock(t) PROVE StoreStateCas(u)
  BY <1>19 DEF RuntimeLockHolderLock
<1>20. ASSUME NEW t \in Threads, RuntimeLockHolderUnlock(t) PROVE StoreStateCas(u)
  BY <1>20 DEF RuntimeLockHolderUnlock
<1>21. ASSUME NEW t \in Threads, CollectGarbageScope(t) PROVE StoreStateCas(u)
  BY <1>21 DEF CollectGarbageScope, SuspendAllScope, LeaveTo
<1>22. ASSUME NEW t \in Threads, HeapProfilerScope(t) PROVE StoreStateCas(u)
  BY <1>22 DEF HeapProfilerScope, SuspendAllScope, LeaveTo
<1>23. ASSUME NEW t \in Threads, SuspendAllThreadsImpl(t) PROVE StoreStateCas(u)
  BY <1>23 DEF SuspendAllThreadsImpl
<1>24. ASSUME NEW t \in Threads, SpuriousWakeup(t) PROVE StoreStateCas(u)
  BY <1>24 DEF SpuriousWakeup
<1>25. ASSUME NEW t \in Threads, SuspendAllThreadsDone(t) PROVE StoreStateCas(u)
  BY <1>25 DEF SuspendAllThreadsDone
<1>26. ASSUME NEW t \in Threads, SuspendAllWriteLock(t) PROVE StoreStateCas(u)
  BY <1>26 DEF SuspendAllWriteLock
<1>27. ASSUME NEW t \in Threads, ResumeAllUnlock(t) PROVE StoreStateCas(u)
  BY <1>27 DEF ResumeAllUnlock
<1>28. ASSUME NEW t \in Threads, ResumeAllThreadsImpl(t) PROVE StoreStateCas(u)
  BY <1>28 DEF ResumeAllThreadsImpl, Waiting
<1>29. ASSUME NEW t \in Threads, ResumeAllDone(t) PROVE StoreStateCas(u)
  BY <1>29 DEF ResumeAllDone
<1>30. ASSUME NEW t \in Threads, NEW x \in Threads, SuspendThread(t, x) PROVE StoreStateCas(u)
  BY <1>30 DEF SuspendThread
<1>31. ASSUME NEW t \in Threads, NEW x \in Threads, SuspendThreadBit(t, x) PROVE StoreStateCas(u)
  BY <1>31 DEF SuspendThreadBit
<1>32. ASSUME NEW t \in Threads, NEW x \in Threads, ResumeThread(t, x) PROVE StoreStateCas(u)
  BY <1>32 DEF ResumeThread
<1>33. ASSUME NEW t \in Threads, NEW x \in Threads, ResumeThreadBit(t, x) PROVE StoreStateCas(u)
  BY <1>33 DEF ResumeThreadBit
<1>34. CASE UNCHANGED vars
  BY <1>34 DEF vars
<1>35. QED
  BY <1>1, <1>2, <1>3, <1>4, <1>5, <1>6, <1>7, <1>8, <1>9, <1>10, <1>11, <1>12,
     <1>13, <1>14, <1>15, <1>16, <1>17, <1>18, <1>19, <1>20, <1>21, <1>22, <1>23, <1>24,
     <1>25, <1>26, <1>27, <1>28, <1>29, <1>30, <1>31, <1>32, <1>33, <1>34
     DEF Next, Choose, Continue, Finished

\* ResumeAll is reached from the stopped world only.
LEMMA OnlyUnlockRestarts ==
    ASSUME TypeOK, [Next]_vars, NEW u \in Threads, pc'[u] = "ra"
    PROVE  pc[u] \in {"world", "ra"}
<1> USE DEF TypeOK, Goto, SetState, At, lockVars, listVars, flagVars, frameVars
<1>1. ASSUME NEW t \in Threads, RegisterThread(t) PROVE pc[u] \in {"world", "ra"}
  BY <1>1 DEF RegisterThread
<1>2. ASSUME NEW t \in Threads, Attach(t) PROVE pc[u] \in {"world", "ra"}
  BY <1>2 DEF Attach
<1>3. ASSUME NEW t \in Threads, UnregisterThread(t) PROVE pc[u] \in {"world", "ra"}
  BY <1>3 DEF UnregisterThread, LeaveTo
<1>4. ASSUME NEW t \in Threads, RuntimeUnregisterThread(t) PROVE pc[u] \in {"world", "ra"}
  BY <1>4 DEF RuntimeUnregisterThread
<1>5. ASSUME NEW t \in Threads, LeaveRunning(t) PROVE pc[u] \in {"world", "ra"}
  BY <1>5 DEF LeaveRunning, TransferFromRunningToSuspended, LeaveTo
<1>6. ASSUME NEW t \in Threads, TransferUnlock(t) PROVE pc[u] \in {"world", "ra"}
  BY <1>6 DEF TransferUnlock
<1>7. ASSUME NEW t \in Threads, EnterRunning(t) PROVE pc[u] \in {"world", "ra"}
  BY <1>7 DEF EnterRunning
<1>8. ASSUME NEW t \in Threads, StoreStateLoad(t) PROVE pc[u] \in {"world", "ra"}
  BY <1>8 DEF StoreStateLoad
<1>9. ASSUME NEW t \in Threads, StoreStateReadLock(t) PROVE pc[u] \in {"world", "ra"}
  BY <1>9 DEF StoreStateReadLock
<1>10. ASSUME NEW t \in Threads, StoreStateCas(t) PROVE pc[u] \in {"world", "ra"}
  BY <1>10 DEF StoreStateCas
<1>11. ASSUME NEW t \in Threads, StoreStateCasFail(t) PROVE pc[u] \in {"world", "ra"}
  BY <1>11 DEF StoreStateCasFail
<1>12. ASSUME NEW t \in Threads, StoreStateUnlock(t) PROVE pc[u] \in {"world", "ra"}
  BY <1>12 DEF StoreStateUnlock
<1>13. ASSUME NEW t \in Threads, CheckSafepoint(t) PROVE pc[u] \in {"world", "ra"}
  BY <1>13 DEF CheckSafepoint
<1>14. ASSUME NEW t \in Threads, CheckSafepointSuspended(t) PROVE pc[u] \in {"world", "ra"}
  BY <1>14 DEF CheckSafepointSuspended, WaitSuspensionFromRunning, TransferFromRunningToSuspended, LeaveTo
<1>15. ASSUME NEW t \in Threads, CheckSafepointIfSuspended(t) PROVE pc[u] \in {"world", "ra"}
  BY <1>15 DEF CheckSafepointIfSuspended, WaitSuspensionFromRunning, TransferFromRunningToSuspended, LeaveTo
<1>16. ASSUME NEW t \in Threads, WaitSuspension(t) PROVE pc[u] \in {"world", "ra"}
  BY <1>16 DEF WaitSuspension
<1>17. ASSUME NEW t \in Threads, WaitSuspensionRestore(t) PROVE pc[u] \in {"world", "ra"}
  BY <1>17 DEF WaitSuspensionRestore
<1>18. ASSUME NEW t \in Threads, CollectGarbage(t) PROVE pc[u] \in {"world", "ra"}
  BY <1>18 DEF CollectGarbage, TransferFromRunningToSuspended, LeaveTo
<1>19. ASSUME NEW t \in Threads, RuntimeLockHolderLock(t) PROVE pc[u] \in {"world", "ra"}
  BY <1>19 DEF RuntimeLockHolderLock
<1>20. ASSUME NEW t \in Threads, RuntimeLockHolderUnlock(t) PROVE pc[u] \in {"world", "ra"}
  BY <1>20 DEF RuntimeLockHolderUnlock
<1>21. ASSUME NEW t \in Threads, CollectGarbageScope(t) PROVE pc[u] \in {"world", "ra"}
  BY <1>21 DEF CollectGarbageScope, SuspendAllScope, LeaveTo
<1>22. ASSUME NEW t \in Threads, HeapProfilerScope(t) PROVE pc[u] \in {"world", "ra"}
  BY <1>22 DEF HeapProfilerScope, SuspendAllScope, LeaveTo
<1>23. ASSUME NEW t \in Threads, SuspendAllThreadsImpl(t) PROVE pc[u] \in {"world", "ra"}
  BY <1>23 DEF SuspendAllThreadsImpl
<1>24. ASSUME NEW t \in Threads, SpuriousWakeup(t) PROVE pc[u] \in {"world", "ra"}
  BY <1>24 DEF SpuriousWakeup
<1>25. ASSUME NEW t \in Threads, SuspendAllThreadsDone(t) PROVE pc[u] \in {"world", "ra"}
  BY <1>25 DEF SuspendAllThreadsDone
<1>26. ASSUME NEW t \in Threads, SuspendAllWriteLock(t) PROVE pc[u] \in {"world", "ra"}
  BY <1>26 DEF SuspendAllWriteLock
<1>27. ASSUME NEW t \in Threads, ResumeAllUnlock(t) PROVE pc[u] \in {"world", "ra"}
  BY <1>27 DEF ResumeAllUnlock
<1>28. ASSUME NEW t \in Threads, ResumeAllThreadsImpl(t) PROVE pc[u] \in {"world", "ra"}
  BY <1>28 DEF ResumeAllThreadsImpl, Waiting
<1>29. ASSUME NEW t \in Threads, ResumeAllDone(t) PROVE pc[u] \in {"world", "ra"}
  BY <1>29 DEF ResumeAllDone
<1>30. ASSUME NEW t \in Threads, NEW x \in Threads, SuspendThread(t, x) PROVE pc[u] \in {"world", "ra"}
  BY <1>30 DEF SuspendThread
<1>31. ASSUME NEW t \in Threads, NEW x \in Threads, SuspendThreadBit(t, x) PROVE pc[u] \in {"world", "ra"}
  BY <1>31 DEF SuspendThreadBit
<1>32. ASSUME NEW t \in Threads, NEW x \in Threads, ResumeThread(t, x) PROVE pc[u] \in {"world", "ra"}
  BY <1>32 DEF ResumeThread
<1>33. ASSUME NEW t \in Threads, NEW x \in Threads, ResumeThreadBit(t, x) PROVE pc[u] \in {"world", "ra"}
  BY <1>33 DEF ResumeThreadBit
<1>34. CASE UNCHANGED vars
  BY <1>34 DEF vars
<1>35. QED
  BY <1>1, <1>2, <1>3, <1>4, <1>5, <1>6, <1>7, <1>8, <1>9, <1>10, <1>11, <1>12,
     <1>13, <1>14, <1>15, <1>16, <1>17, <1>18, <1>19, <1>20, <1>21, <1>22, <1>23, <1>24,
     <1>25, <1>26, <1>27, <1>28, <1>29, <1>30, <1>31, <1>32, <1>33, <1>34
     DEF Next, Choose, Continue, Finished

\* Once every request is out no thread becomes RUNNING until they are taken back.
THEOREM NobodyRunsLate == Spec => NoLateRunner
<1> DEFINE Late == \A t \in Threads :
             state[t] # "RUNNING" /\ state'[t] = "RUNNING"
                => ~suspendRequest[t] /\ \A i \in Initiators : At(i, "saiter")
<1>1. TypeOK /\ ListInv /\ CountInv /\ [Next]_vars => [Late]_vars
  <2> SUFFICES ASSUME TypeOK, ListInv, CountInv, [Next]_vars,
                      NEW t \in Threads, state[t] # "RUNNING", state'[t] = "RUNNING"
               PROVE  ~suspendRequest[t] /\ \A i \in Initiators : At(i, "saiter")
    OBVIOUS
  <2>1. StoreStateCas(t)
    BY OnlyExchangeRuns
  <2>2. QED
    BY <2>1, ExchangeInTime DEF StoreStateCas
<1>2. QED
  BY <1>1, TypeCorrect, ListInvariant, CountInvariant, PTL DEF Spec, NoLateRunner

\* No thread is RUNNING from the write lock until ResumeAll has started to take its
\* requests back.
StillStopped ==
    \A i \in Threads : pc[i] \in {"world", "ra"} => \A x \in Threads : state[x] # "RUNNING"

\* StillStopped holds in every reachable state: after the write lock is gone the flags
\* alone keep the threads out of RUNNING.
THEOREM StillStoppedInvariant == Spec => []StillStopped
<1>1. Init => StillStopped
  BY DEF Init, StillStopped
<1>2. TypeOK /\ ListInv /\ CountInv /\ WorldStopped' /\ StillStopped /\ [Next]_vars
         => StillStopped'
  <2> SUFFICES ASSUME TypeOK, ListInv, CountInv, WorldStopped', StillStopped, [Next]_vars,
                      NEW i \in Threads, pc'[i] \in {"world", "ra"},
                      NEW x \in Threads
               PROVE  state'[x] # "RUNNING"
    BY DEF StillStopped
  <2> SUFFICES ASSUME state'[x] = "RUNNING" PROVE FALSE
    OBVIOUS
  <2>1. pc'[i] = "ra"
    BY DEF WorldStopped, At
  <2>2. pc[i] \in {"world", "ra"}
    BY <2>1, OnlyUnlockRestarts
  <2>3. state[x] # "RUNNING"
    BY <2>2 DEF StillStopped
  <2>4. StoreStateCas(x)
    BY <2>3, OnlyExchangeRuns
  <2>5. i \in Initiators /\ ~At(i, "saiter")
    BY <2>2 DEF Initiators, InitiatorLabels, At
  <2>6. QED
    BY <2>4, <2>5, ExchangeInTime
<1>3. QED
  BY <1>1, <1>2, TypeCorrect, ListInvariant, CountInvariant, StopTheWorldSafe, PTL DEF Spec

QuietFor(x) == (pc[x] \notin InitiatorLabels /\ pc'[x] \notin InitiatorLabels) \/ pc'[x] = pc[x]

\* When every thread keeps its label, or is an initiator neither before nor after the step,
\* the initiator and the phase that SuspendAll shows to the outside are the same.
LEMMA QuietStep ==
    ASSUME \A x \in Threads : QuietFor(x)
    PROVE  TheInitiator' = TheInitiator /\ PhaseOf' = PhaseOf
<1>1. Initiators' = Initiators
  BY DEF QuietFor, Initiators, InitiatorLabels
<1>2. \A x \in Threads : /\ At(x, "world")' <=> At(x, "world")
                         /\ At(x, "saiter")' <=> At(x, "saiter")
  BY DEF QuietFor, InitiatorLabels, At
<1>3. QED
  BY <1>1, <1>2 DEF TheInitiator, PhaseOf

\* The abstract state follows the label of the one initiator; before and after a step.
LEMMA InitiatorStep ==
    ASSUME NEW i \in Threads, pc[i] \in InitiatorLabels, ListInv
    PROVE  /\ TheInitiator = i
           /\ PhaseOf = IF pc[i] = "world" THEN "stopped"
                        ELSE IF pc[i] = "saiter" THEN "closing" ELSE "closed"
<1>1. Initiators = {i}
  BY DEF ListInv, Initiators
<1>2. TheInitiator = i
  BY <1>1 DEF TheInitiator
<1>3. QED
  BY <1>1, <1>2 DEF PhaseOf, Initiators, InitiatorLabels, At

\* InitiatorStep for the state after a step.
LEMMA InitiatorAfter ==
    ASSUME NEW i \in Threads, pc'[i] \in InitiatorLabels, ListInv'
    PROVE  /\ TheInitiator' = i
           /\ PhaseOf' = IF pc'[i] = "world" THEN "stopped"
                         ELSE IF pc'[i] = "saiter" THEN "closing" ELSE "closed"
<1>1. Initiators' = {i}
  BY DEF ListInv, Initiators
<1>2. TheInitiator' = i
  BY <1>1 DEF TheInitiator
<1>3. QED
  BY <1>1, <1>2 DEF PhaseOf, Initiators, InitiatorLabels, At

\* The protocol implements StopTheWorld: SuspendAll closes the world, waits until it is
\* stopped, and ResumeAll reopens it, whatever the other threads do meanwhile.
THEOREM Implements == Spec => Refinement
<1> DEFINE Abstract == [STW!Next]_(STW!absVars)
<1>1. Init => STW!Init
  BY DEF Init, STW!Init, Mutators, TheInitiator, Initiators, InitiatorLabels, PhaseOf, At
<1>2. TypeOK /\ ListInv /\ ListInv' /\ LockInv /\ CountInv /\ StillStopped /\ [Next]_vars
         => Abstract
  <2> SUFFICES ASSUME TypeOK, ListInv, ListInv', LockInv, CountInv, StillStopped, [Next]_vars
               PROVE  Abstract
    OBVIOUS
  <2>1. ASSUME NEW t \in Threads, \A x \in Threads : QuietFor(x),
               Mutators' \in {Mutators, Mutators \ {t}}
        PROVE  Abstract
    <3>1. TheInitiator' = TheInitiator /\ PhaseOf' = PhaseOf
      BY <2>1, QuietStep
    <3>2. CASE Mutators' = Mutators
      BY <3>1, <3>2 DEF STW!absVars
    <3>3. CASE Mutators' = Mutators \ {t} /\ t \in Mutators
      BY <3>1, <3>3 DEF STW!Next, STW!Leave
    <3>4. QED
      BY <2>1, <3>2, <3>3
  <2>2. ASSUME NEW t \in Threads, RegisterThread(t) PROVE Abstract
    <3>1. \A x \in Threads : QuietFor(x)
      BY <2>2 DEF RegisterThread, QuietFor, InitiatorLabels, Goto, At, TypeOK
    <3>2. Mutators' \in {Mutators, Mutators \ {t}}
      BY <2>2 DEF RegisterThread, Mutators, SetState, At, TypeOK, ThreadState
    <3>3. QED
      BY <2>1, <3>1, <3>2
  <2>3. ASSUME NEW t \in Threads, Attach(t) PROVE Abstract
    <3>1. \A x \in Threads : QuietFor(x)
      BY <2>3 DEF Attach, QuietFor, InitiatorLabels, Goto, At, TypeOK
    <3>2. Mutators' \in {Mutators, Mutators \ {t}}
      BY <2>3 DEF Attach, Mutators, SetState, At, TypeOK, ThreadState
    <3>3. QED
      BY <2>1, <3>1, <3>2
  <2>4. ASSUME NEW t \in Threads, UnregisterThread(t) PROVE Abstract
    <3>1. \A x \in Threads : QuietFor(x)
      BY <2>4 DEF UnregisterThread, LeaveTo, QuietFor, InitiatorLabels, Goto, At, TypeOK
    <3>2. Mutators' \in {Mutators, Mutators \ {t}}
      BY <2>4 DEF UnregisterThread, LeaveTo, Mutators, SetState, At, TypeOK, ThreadState
    <3>3. QED
      BY <2>1, <3>1, <3>2
  <2>5. ASSUME NEW t \in Threads, RuntimeUnregisterThread(t) PROVE Abstract
    <3>1. \A x \in Threads : QuietFor(x)
      BY <2>5 DEF RuntimeUnregisterThread, QuietFor, InitiatorLabels, Goto, At, TypeOK
    <3>2. Mutators' \in {Mutators, Mutators \ {t}}
      BY <2>5 DEF RuntimeUnregisterThread, Mutators, SetState, At, TypeOK, ThreadState
    <3>3. QED
      BY <2>1, <3>1, <3>2
  <2>6. ASSUME NEW t \in Threads, LeaveRunning(t) PROVE Abstract
    <3>1. \A x \in Threads : QuietFor(x)
      BY <2>6 DEF LeaveRunning, TransferFromRunningToSuspended, LeaveTo, QuietFor, InitiatorLabels, Goto, At, TypeOK
    <3>2. Mutators' \in {Mutators, Mutators \ {t}}
      BY <2>6 DEF LeaveRunning, TransferFromRunningToSuspended, LeaveTo, Mutators, SetState, At, TypeOK, ThreadState
    <3>3. QED
      BY <2>1, <3>1, <3>2
  <2>7. ASSUME NEW t \in Threads, TransferUnlock(t) PROVE Abstract
    <3>1. \A x \in Threads : QuietFor(x)
      BY <2>7 DEF TransferUnlock, QuietFor, InitiatorLabels, Goto, At, TypeOK
    <3>2. Mutators' \in {Mutators, Mutators \ {t}}
      BY <2>7 DEF TransferUnlock, Mutators, SetState, At, TypeOK, ThreadState
    <3>3. QED
      BY <2>1, <3>1, <3>2
  <2>8. ASSUME NEW t \in Threads, EnterRunning(t) PROVE Abstract
    <3>1. \A x \in Threads : QuietFor(x)
      BY <2>8 DEF EnterRunning, QuietFor, InitiatorLabels, Goto, At, TypeOK
    <3>2. Mutators' \in {Mutators, Mutators \ {t}}
      BY <2>8 DEF EnterRunning, Mutators, SetState, At, TypeOK, ThreadState
    <3>3. QED
      BY <2>1, <3>1, <3>2
  <2>9. ASSUME NEW t \in Threads, StoreStateLoad(t) PROVE Abstract
    <3>1. \A x \in Threads : QuietFor(x)
      BY <2>9 DEF StoreStateLoad, QuietFor, InitiatorLabels, Goto, At, TypeOK
    <3>2. Mutators' \in {Mutators, Mutators \ {t}}
      BY <2>9 DEF StoreStateLoad, Mutators, SetState, At, TypeOK, ThreadState
    <3>3. QED
      BY <2>1, <3>1, <3>2
  <2>10. ASSUME NEW t \in Threads, StoreStateReadLock(t) PROVE Abstract
    <3>1. \A x \in Threads : QuietFor(x)
      BY <2>10 DEF StoreStateReadLock, QuietFor, InitiatorLabels, Goto, At, TypeOK
    <3>2. Mutators' \in {Mutators, Mutators \ {t}}
      BY <2>10 DEF StoreStateReadLock, Mutators, SetState, At, TypeOK, ThreadState
    <3>3. QED
      BY <2>1, <3>1, <3>2
  <2>11. ASSUME NEW t \in Threads, StoreStateCas(t) PROVE Abstract
    <3>1. \A i \in Initiators : At(i, "saiter")
      BY <2>11, ExchangeInTime
    <3>2. PhaseOf \in {"open", "closing"}
      BY <3>1 DEF PhaseOf, Initiators, InitiatorLabels, At
    <3>3. TheInitiator' = TheInitiator /\ PhaseOf' = PhaseOf
      <4>1. \A x \in Threads : QuietFor(x)
        BY <2>11 DEF StoreStateCas, QuietFor, InitiatorLabels, Goto, At, TypeOK
      <4>2. QED
        BY <4>1, QuietStep
    <3>4. t \notin Mutators /\ Mutators' = Mutators \cup {t}
      BY <2>11 DEF StoreStateCas, Mutators, SetState, At, TypeOK, LockInv
    <3>5. QED
      BY <3>2, <3>3, <3>4 DEF STW!Next, STW!Enter
  <2>12. ASSUME NEW t \in Threads, StoreStateCasFail(t) PROVE Abstract
    <3>1. \A x \in Threads : QuietFor(x)
      BY <2>12 DEF StoreStateCasFail, QuietFor, InitiatorLabels, Goto, At, TypeOK
    <3>2. Mutators' \in {Mutators, Mutators \ {t}}
      BY <2>12 DEF StoreStateCasFail, Mutators, SetState, At, TypeOK, ThreadState
    <3>3. QED
      BY <2>1, <3>1, <3>2
  <2>13. ASSUME NEW t \in Threads, StoreStateUnlock(t) PROVE Abstract
    <3>1. \A x \in Threads : QuietFor(x)
      BY <2>13 DEF StoreStateUnlock, QuietFor, InitiatorLabels, Goto, At, TypeOK
    <3>2. Mutators' \in {Mutators, Mutators \ {t}}
      BY <2>13 DEF StoreStateUnlock, Mutators, SetState, At, TypeOK, ThreadState
    <3>3. QED
      BY <2>1, <3>1, <3>2
  <2>14. ASSUME NEW t \in Threads, CheckSafepoint(t) PROVE Abstract
    <3>1. \A x \in Threads : QuietFor(x)
      BY <2>14 DEF CheckSafepoint, QuietFor, InitiatorLabels, Goto, At, TypeOK
    <3>2. Mutators' \in {Mutators, Mutators \ {t}}
      BY <2>14 DEF CheckSafepoint, Mutators, SetState, At, TypeOK, ThreadState
    <3>3. QED
      BY <2>1, <3>1, <3>2
  <2>15. ASSUME NEW t \in Threads, CheckSafepointSuspended(t) PROVE Abstract
    <3>1. \A x \in Threads : QuietFor(x)
      BY <2>15 DEF CheckSafepointSuspended, WaitSuspensionFromRunning, TransferFromRunningToSuspended, LeaveTo, QuietFor, InitiatorLabels, Goto, At, TypeOK
    <3>2. Mutators' \in {Mutators, Mutators \ {t}}
      BY <2>15 DEF CheckSafepointSuspended, WaitSuspensionFromRunning, TransferFromRunningToSuspended, LeaveTo, Mutators, SetState, At, TypeOK, ThreadState
    <3>3. QED
      BY <2>1, <3>1, <3>2
  <2>16. ASSUME NEW t \in Threads, CheckSafepointIfSuspended(t) PROVE Abstract
    <3>1. \A x \in Threads : QuietFor(x)
      BY <2>16 DEF CheckSafepointIfSuspended, WaitSuspensionFromRunning, TransferFromRunningToSuspended, LeaveTo, QuietFor, InitiatorLabels, Goto, At, TypeOK
    <3>2. Mutators' \in {Mutators, Mutators \ {t}}
      BY <2>16 DEF CheckSafepointIfSuspended, WaitSuspensionFromRunning, TransferFromRunningToSuspended, LeaveTo, Mutators, SetState, At, TypeOK, ThreadState
    <3>3. QED
      BY <2>1, <3>1, <3>2
  <2>17. ASSUME NEW t \in Threads, WaitSuspension(t) PROVE Abstract
    <3>1. \A x \in Threads : QuietFor(x)
      BY <2>17 DEF WaitSuspension, QuietFor, InitiatorLabels, Goto, At, TypeOK
    <3>2. Mutators' \in {Mutators, Mutators \ {t}}
      BY <2>17 DEF WaitSuspension, Mutators, SetState, At, TypeOK, ThreadState
    <3>3. QED
      BY <2>1, <3>1, <3>2
  <2>18. ASSUME NEW t \in Threads, WaitSuspensionRestore(t) PROVE Abstract
    <3>1. \A x \in Threads : QuietFor(x)
      BY <2>18 DEF WaitSuspensionRestore, QuietFor, InitiatorLabels, Goto, At, TypeOK
    <3>2. Mutators' \in {Mutators, Mutators \ {t}}
      BY <2>18 DEF WaitSuspensionRestore, Mutators, SetState, At, TypeOK, ThreadState
    <3>3. QED
      BY <2>1, <3>1, <3>2
  <2>19. ASSUME NEW t \in Threads, CollectGarbage(t) PROVE Abstract
    <3>1. \A x \in Threads : QuietFor(x)
      BY <2>19 DEF CollectGarbage, TransferFromRunningToSuspended, LeaveTo, QuietFor, InitiatorLabels, Goto, At, TypeOK
    <3>2. Mutators' \in {Mutators, Mutators \ {t}}
      BY <2>19 DEF CollectGarbage, TransferFromRunningToSuspended, LeaveTo, Mutators, SetState, At, TypeOK, ThreadState
    <3>3. QED
      BY <2>1, <3>1, <3>2
  <2>20. ASSUME NEW t \in Threads, RuntimeLockHolderLock(t) PROVE Abstract
    <3>1. \A x \in Threads : QuietFor(x)
      BY <2>20 DEF RuntimeLockHolderLock, QuietFor, InitiatorLabels, Goto, At, TypeOK
    <3>2. Mutators' \in {Mutators, Mutators \ {t}}
      BY <2>20 DEF RuntimeLockHolderLock, Mutators, SetState, At, TypeOK, ThreadState
    <3>3. QED
      BY <2>1, <3>1, <3>2
  <2>21. ASSUME NEW t \in Threads, RuntimeLockHolderUnlock(t) PROVE Abstract
    <3>1. \A x \in Threads : QuietFor(x)
      BY <2>21 DEF RuntimeLockHolderUnlock, QuietFor, InitiatorLabels, Goto, At, TypeOK
    <3>2. Mutators' \in {Mutators, Mutators \ {t}}
      BY <2>21 DEF RuntimeLockHolderUnlock, Mutators, SetState, At, TypeOK, ThreadState
    <3>3. QED
      BY <2>1, <3>1, <3>2
  <2>22. ASSUME NEW t \in Threads, CollectGarbageScope(t) PROVE Abstract
    <3>1. \A x \in Threads : QuietFor(x)
      BY <2>22 DEF CollectGarbageScope, SuspendAllScope, LeaveTo, QuietFor, InitiatorLabels, Goto, At, TypeOK
    <3>2. Mutators' \in {Mutators, Mutators \ {t}}
      BY <2>22 DEF CollectGarbageScope, SuspendAllScope, LeaveTo, Mutators, SetState, At, TypeOK, ThreadState
    <3>3. QED
      BY <2>1, <3>1, <3>2
  <2>23. ASSUME NEW t \in Threads, HeapProfilerScope(t) PROVE Abstract
    <3>1. \A x \in Threads : QuietFor(x)
      BY <2>23 DEF HeapProfilerScope, SuspendAllScope, LeaveTo, QuietFor, InitiatorLabels, Goto, At, TypeOK
    <3>2. Mutators' \in {Mutators, Mutators \ {t}}
      BY <2>23 DEF HeapProfilerScope, SuspendAllScope, LeaveTo, Mutators, SetState, At, TypeOK, ThreadState
    <3>3. QED
      BY <2>1, <3>1, <3>2
  <2>24. ASSUME NEW t \in Threads, SuspendAllThreadsImpl(t) PROVE Abstract
    <3>1. CASE suspendNewCount # 0
      <4>1. \A x \in Threads : QuietFor(x)
        BY <2>24, <3>1 DEF SuspendAllThreadsImpl, QuietFor, InitiatorLabels, Goto, At, TypeOK
      <4>2. Mutators' = Mutators
        BY <2>24 DEF SuspendAllThreadsImpl, Mutators
      <4>3. QED
        BY <2>1, <4>1, <4>2
    <3>2. CASE suspendNewCount = 0
      <4>1. Initiators = {} /\ TheInitiator = None
        BY <3>2 DEF ListInv, TheInitiator
      <4>2. pc'[t] = "saiter"
        BY <2>24, <3>2 DEF SuspendAllThreadsImpl, Goto, TypeOK
      <4>3. TheInitiator' = t /\ PhaseOf' = "closing"
        BY <4>2, InitiatorAfter DEF InitiatorLabels
      <4>4. t \notin Mutators /\ Mutators' = Mutators
        BY <2>24 DEF SuspendAllThreadsImpl, Mutators, At, LockInv
      <4>5. QED
        BY <4>1, <4>3, <4>4 DEF STW!Next, STW!Begin
    <3>3. QED
      BY <3>1, <3>2
  <2>25. ASSUME NEW t \in Threads, SpuriousWakeup(t) PROVE Abstract
    <3>1. \A x \in Threads : QuietFor(x)
      BY <2>25 DEF SpuriousWakeup, QuietFor, InitiatorLabels, Goto, At, TypeOK
    <3>2. Mutators' \in {Mutators, Mutators \ {t}}
      BY <2>25 DEF SpuriousWakeup, Mutators, SetState, At, TypeOK, ThreadState
    <3>3. QED
      BY <2>1, <3>1, <3>2
  <2>26. ASSUME NEW t \in Threads, SuspendAllThreadsDone(t) PROVE Abstract
    <3>1. pc[t] = "saiter" /\ pc'[t] = "wrlock"
      BY <2>26 DEF SuspendAllThreadsDone, Goto, At, TypeOK
    <3>2. TheInitiator = t /\ PhaseOf = "closing"
      BY <3>1, InitiatorStep DEF InitiatorLabels
    <3>3. TheInitiator' = t /\ PhaseOf' = "closed"
      BY <3>1, InitiatorAfter DEF InitiatorLabels
    <3>4. Mutators' = Mutators
      BY <2>26, <3>1 DEF SuspendAllThreadsDone, Mutators
    <3>5. QED
      BY <3>2, <3>3, <3>4 DEF STW!Next, STW!Close
  <2>27. ASSUME NEW t \in Threads, SuspendAllWriteLock(t) PROVE Abstract
    <3>1. pc[t] = "wrlock" /\ pc'[t] = "world"
      BY <2>27 DEF SuspendAllWriteLock, Goto, At, TypeOK
    <3>2. TheInitiator = t /\ PhaseOf = "closed"
      BY <3>1, InitiatorStep DEF InitiatorLabels
    <3>3. TheInitiator' = t /\ PhaseOf' = "stopped"
      BY <3>1, InitiatorAfter DEF InitiatorLabels
    <3>4. Mutators' = Mutators /\ Mutators = {}
      BY <2>27, <3>1 DEF SuspendAllWriteLock, Mutators, LockInv
    <3>5. QED
      BY <3>2, <3>3, <3>4 DEF STW!Next, STW!Stop
  <2>28. ASSUME NEW t \in Threads, ResumeAllUnlock(t) PROVE Abstract
    <3>1. pc[t] = "world" /\ pc'[t] = "ra"
      BY <2>28 DEF ResumeAllUnlock, Goto, At, TypeOK
    <3>2. TheInitiator = t /\ PhaseOf = "stopped"
      BY <3>1, InitiatorStep DEF InitiatorLabels
    <3>3. TheInitiator' = t /\ PhaseOf' = "closed"
      BY <3>1, InitiatorAfter DEF InitiatorLabels
    <3>4. Mutators' = Mutators
      BY <2>28, <3>1 DEF ResumeAllUnlock, Mutators
    <3>5. QED
      BY <3>2, <3>3, <3>4 DEF STW!Next, STW!Restart
  <2>29. ASSUME NEW t \in Threads, ResumeAllThreadsImpl(t) PROVE Abstract
    <3>1. pc[t] = "ra" /\ pc'[t] = "raiter"
      BY <2>29 DEF ResumeAllThreadsImpl, Goto, At, TypeOK, Waiting
    <3>2. TheInitiator = t /\ PhaseOf = "closed"
      BY <3>1, InitiatorStep DEF InitiatorLabels
    <3>3. Initiators' = {}
      BY <3>1 DEF ListInv
    <3>4. TheInitiator' = None /\ PhaseOf' = "open"
      BY <3>3 DEF TheInitiator, PhaseOf, Initiators, InitiatorLabels, At
    <3>5. Mutators' = Mutators /\ Mutators = {}
      BY <2>29, <3>1 DEF ResumeAllThreadsImpl, Mutators, StillStopped
    <3>6. QED
      BY <3>2, <3>4, <3>5 DEF STW!Next, STW!Reopen
  <2>30. ASSUME NEW t \in Threads, ResumeAllDone(t) PROVE Abstract
    <3>1. \A x \in Threads : QuietFor(x)
      BY <2>30 DEF ResumeAllDone, QuietFor, InitiatorLabels, Goto, At, TypeOK
    <3>2. Mutators' \in {Mutators, Mutators \ {t}}
      BY <2>30 DEF ResumeAllDone, Mutators, SetState, At, TypeOK, ThreadState
    <3>3. QED
      BY <2>1, <3>1, <3>2
  <2>31. ASSUME NEW t \in Threads, NEW y \in Threads, SuspendThread(t, y) PROVE Abstract
    <3>1. \A x \in Threads : QuietFor(x)
      BY <2>31 DEF SuspendThread, QuietFor, InitiatorLabels, Goto, At, TypeOK
    <3>2. Mutators' \in {Mutators, Mutators \ {t}}
      BY <2>31 DEF SuspendThread, Mutators, SetState, At, TypeOK, ThreadState
    <3>3. QED
      BY <2>1, <3>1, <3>2
  <2>32. ASSUME NEW t \in Threads, NEW y \in Threads, SuspendThreadBit(t, y) PROVE Abstract
    <3>1. \A x \in Threads : QuietFor(x)
      BY <2>32 DEF SuspendThreadBit, QuietFor, InitiatorLabels, Goto, At, TypeOK
    <3>2. Mutators' \in {Mutators, Mutators \ {t}}
      BY <2>32 DEF SuspendThreadBit, Mutators, SetState, At, TypeOK, ThreadState
    <3>3. QED
      BY <2>1, <3>1, <3>2
  <2>33. ASSUME NEW t \in Threads, NEW y \in Threads, ResumeThread(t, y) PROVE Abstract
    <3>1. \A x \in Threads : QuietFor(x)
      BY <2>33 DEF ResumeThread, QuietFor, InitiatorLabels, Goto, At, TypeOK
    <3>2. Mutators' \in {Mutators, Mutators \ {t}}
      BY <2>33 DEF ResumeThread, Mutators, SetState, At, TypeOK, ThreadState
    <3>3. QED
      BY <2>1, <3>1, <3>2
  <2>34. ASSUME NEW t \in Threads, NEW y \in Threads, ResumeThreadBit(t, y) PROVE Abstract
    <3>1. \A x \in Threads : QuietFor(x)
      BY <2>34 DEF ResumeThreadBit, QuietFor, InitiatorLabels, Goto, At, TypeOK
    <3>2. Mutators' \in {Mutators, Mutators \ {t}}
      BY <2>34 DEF ResumeThreadBit, Mutators, SetState, At, TypeOK, ThreadState
    <3>3. QED
      BY <2>1, <3>1, <3>2
  <2>35. CASE UNCHANGED vars
    <3>1. pc' = pc /\ state' = state
      BY <2>35 DEF vars
    <3>2. TheInitiator' = TheInitiator /\ PhaseOf' = PhaseOf
      BY <3>1, QuietStep DEF QuietFor
    <3>3. Mutators' = Mutators
      BY <3>1 DEF Mutators
    <3>4. QED
      BY <3>2, <3>3 DEF STW!absVars
  <2>36. QED
    BY <2>2, <2>3, <2>4, <2>5, <2>6, <2>7, <2>8, <2>9, <2>10, <2>11, <2>12, <2>13,
       <2>14, <2>15, <2>16, <2>17, <2>18, <2>19, <2>20, <2>21, <2>22, <2>23, <2>24, <2>25,
       <2>26, <2>27, <2>28, <2>29, <2>30, <2>31, <2>32, <2>33, <2>34, <2>35
       DEF Next, Choose, Continue, Finished
<1>3. QED
  BY <1>1, <1>2, TypeCorrect, ListInvariant, LockInvariant, CountInvariant,
     StillStoppedInvariant, PTL DEF Spec, Refinement, STW!Spec
=============================================================================
