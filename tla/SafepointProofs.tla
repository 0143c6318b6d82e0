-------------------------- MODULE SafepointProofs --------------------------
(***************************************************************************)
(* Proofs about Safepoint for any number of calls and requests, with one   *)
(* notifier at a time: the use that NotifyVMThreadSuspension's first test  *)
(* is there to enforce.                                                    *)
(***************************************************************************)
EXTENDS Safepoint, TLAPS

OneCaller == \A m, n \in Notifiers : m = n

\* Every variable keeps its type.
THEOREM TypeCorrect == Spec => []TypeOK
<1> USE SafepointAssumption DEF TypeOK, Bits
<1>1. Init => TypeOK
  <2> SUFFICES ASSUME Init PROVE TypeOK
    OBVIOUS
  <2>1. vector \in [Bits -> BOOLEAN]
    BY Zenon DEF Init
  <2>2. /\ installs \in 0..installed /\ notified \in 0..MaxNotify /\ timeouts \in 0..MaxTimeouts
        /\ worlds \in 0..MaxWorlds /\ installed \in 0..MaxInstalls
    BY DEF Init
  <2>3. notifier \in [Notifiers -> {"idle", "post", "bit", "lock", "wait", "expired",
                                    "clear", "granted"}]
    BY DEF Init
  <2>4. QED
    BY <2>1, <2>2, <2>3 DEF Init
<1>2. TypeOK /\ [Next]_vars => TypeOK'
  <2> SUFFICES ASSUME TypeOK, [Next]_vars PROVE TypeOK'
    OBVIOUS
  <2> USE DEF Set, Clear, SetCheckSafePointStatus, ResetCheckSafePointStatus,
             VectorFree, At, Goto, requesters, counts
  <2>1. ASSUME NEW n \in Notifiers, NotifyVMThreadSuspension(n) PROVE TypeOK'
    BY <2>1 DEF NotifyVMThreadSuspension
  <2>2. ASSUME NEW n \in Notifiers, NotifySpuriousWakeup(n) PROVE TypeOK'
    BY <2>2 DEF NotifySpuriousWakeup
  <2>3. ASSUME NEW n \in Notifiers, NotifyTimeout(n) PROVE TypeOK'
    BY <2>3 DEF NotifyTimeout
  <2>4. ASSUME NEW n \in Notifiers, SetVMNeedSuspension(n) PROVE TypeOK'
    BY <2>4 DEF SetVMNeedSuspension
  <2>5. ASSUME NEW n \in Notifiers, NotifySetBit(n) PROVE TypeOK'
    <3>1. vector' \in [Bits -> BOOLEAN] /\ cleared' \in BOOLEAN
      BY <2>5 DEF NotifySetBit
    <3>2. QED
      BY <2>5, <3>1 DEF NotifySetBit
  <2>6. ASSUME NEW n \in Notifiers, NotifyWait(n) PROVE TypeOK'
    BY <2>6 DEF NotifyWait
  <2>7. ASSUME NEW n \in Notifiers, NotifyWithdraw(n) PROVE TypeOK'
    BY <2>7 DEF NotifyWithdraw
  <2>8. ASSUME NEW n \in Notifiers, NotifyResetBit(n) PROVE TypeOK'
    BY <2>8 DEF NotifyResetBit
  <2>9. ASSUME NEW n \in Notifiers, ResumeVM(n) PROVE TypeOK'
    BY <2>9 DEF ResumeVM
  <2>10. CASE RequestTerminateExecution
    BY <2>10 DEF RequestTerminateExecution
  <2>11. CASE RequestInstallCode
    BY <2>11 DEF RequestInstallCode
  <2>12. CASE FinishMarking
    BY <2>12 DEF FinishMarking
  <2>13. CASE SuspendThread
    BY <2>13 DEF SuspendThread
  <2>14. CASE TerminateSetBit
    <3>1. vector' \in [Bits -> BOOLEAN] /\ cleared' \in BOOLEAN
      BY <2>14 DEF TerminateSetBit
    <3>2. QED
      BY <2>14, <3>1 DEF TerminateSetBit
  <2>15. CASE JitSetBit
    <3>1. vector' \in [Bits -> BOOLEAN] /\ cleared' \in BOOLEAN
      BY <2>15 DEF JitSetBit
    <3>2. QED
      BY <2>15, <3>1 DEF JitSetBit
  <2>16. CASE FinishMarkingSetBit
    <3>1. vector' \in [Bits -> BOOLEAN] /\ cleared' \in BOOLEAN
      BY <2>16 DEF FinishMarkingSetBit
    <3>2. QED
      BY <2>16, <3>1 DEF FinishMarkingSetBit
  <2>17. CASE SuspendThreadBit
    <3>1. vector' \in [Bits -> BOOLEAN] /\ cleared' \in BOOLEAN
      BY <2>17 DEF SuspendThreadBit
    <3>2. QED
      BY <2>17, <3>1 DEF SuspendThreadBit
  <2>18. CASE ResumeThread
    BY <2>18 DEF ResumeThread
  <2>19. CASE ResumeThreadBit
    BY <2>19 DEF ResumeThreadBit
  <2>20. CASE EnterNative
    BY <2>20 DEF EnterNative
  <2>21. CASE CheckSafepoint \/ Execute
    <3>1. vector' \in [Bits -> BOOLEAN]
      BY <2>21, Zenon DEF CheckSafepoint, Execute, StartSafepoint
    <3>2. /\ cleared' = FALSE /\ vm' = "reset"
          /\ UNCHANGED <<suspended, markDone, installs, mutex, notifier, world, requesters, counts>>
      BY <2>21, Zenon DEF CheckSafepoint, Execute, StartSafepoint
    <3>3. QED
      BY <3>1, <3>2
  <2>22. CASE SuspendVMSpuriousWakeup
    BY <2>22 DEF SuspendVMSpuriousWakeup
  <2>23. CASE LeaveNative
    BY <2>23 DEF LeaveNative
  <2>24. CASE CheckSuspended
    BY <2>24 DEF CheckSuspended, NeedOrInstall
  <2>25. CASE WaitSuspension
    BY <2>25 DEF WaitSuspension
  <2>26. CASE CheckNeed
    BY <2>26 DEF CheckNeed, NeedOrInstall
  <2>27. CASE SuspendVM
    BY <2>27 DEF SuspendVM, Waiting
  <2>28. CASE SuspendVMLoop
    BY <2>28 DEF SuspendVMLoop
  <2>29. CASE InstallTasks
    BY <2>29 DEF InstallTasks
  <2>30. CASE SetInstallMachineCode
    BY <2>30 DEF SetInstallMachineCode
  <2>31. CASE HandleMarkingFinished
    <3>1. markDone' \in BOOLEAN
      BY <2>31, Zenon DEF HandleMarkingFinished
    <3>2. vm' = "run" /\ UNCHANGED <<vector, suspended, cleared, installs, mutex, notifier, world, requesters, counts>>
      BY <2>31 DEF HandleMarkingFinished
    <3>3. QED
      BY <3>1, <3>2
  <2>32. CASE UNCHANGED vars
    BY <2>32 DEF vars
  <2>33. QED
    BY <2>1, <2>2, <2>3, <2>4, <2>5, <2>6, <2>7, <2>8, <2>9, <2>10, <2>11, <2>12,
       <2>13, <2>14, <2>15, <2>16, <2>17, <2>18, <2>19, <2>20, <2>21, <2>22, <2>23, <2>24,
       <2>25, <2>26, <2>27, <2>28, <2>29, <2>30, <2>31, <2>32
       DEF Next, NotifierStep, RequesterStep, WorldStep, VMStep
<1>3. QED
  BY <1>1, <1>2, PTL DEF Spec

-----------------------------------------------------------------------------
(* Suspending the VM thread                                                 *)

\* VMHasSuspended is set exactly while the VM thread is inside SuspendVM's wait.
THEOREM ReportsAreTrue == Spec => []ReportedMeansParked
<1> USE DEF ReportedMeansParked, Bits
<1>1. Init => ReportedMeansParked
  BY DEF Init
<1>2. TypeOK /\ ReportedMeansParked /\ [Next]_vars => ReportedMeansParked'
  <2> SUFFICES ASSUME TypeOK, ReportedMeansParked, [Next]_vars PROVE ReportedMeansParked'
    OBVIOUS
  <2> USE DEF TypeOK, Set, Clear, SetCheckSafePointStatus, ResetCheckSafePointStatus, VectorFree,
          At, Goto, requesters, counts
  <2>1. ASSUME NEW n \in Notifiers, NotifyVMThreadSuspension(n) PROVE ReportedMeansParked'
    BY <2>1 DEF NotifyVMThreadSuspension
  <2>2. ASSUME NEW n \in Notifiers, NotifySpuriousWakeup(n) PROVE ReportedMeansParked'
    BY <2>2 DEF NotifySpuriousWakeup
  <2>3. ASSUME NEW n \in Notifiers, NotifyTimeout(n) PROVE ReportedMeansParked'
    BY <2>3 DEF NotifyTimeout
  <2>4. ASSUME NEW n \in Notifiers, SetVMNeedSuspension(n) PROVE ReportedMeansParked'
    BY <2>4 DEF SetVMNeedSuspension
  <2>5. ASSUME NEW n \in Notifiers, NotifySetBit(n) PROVE ReportedMeansParked'
    BY <2>5 DEF NotifySetBit
  <2>6. ASSUME NEW n \in Notifiers, NotifyWait(n) PROVE ReportedMeansParked'
    BY <2>6 DEF NotifyWait
  <2>7. ASSUME NEW n \in Notifiers, NotifyWithdraw(n) PROVE ReportedMeansParked'
    BY <2>7 DEF NotifyWithdraw
  <2>8. ASSUME NEW n \in Notifiers, NotifyResetBit(n) PROVE ReportedMeansParked'
    BY <2>8 DEF NotifyResetBit
  <2>9. ASSUME NEW n \in Notifiers, ResumeVM(n) PROVE ReportedMeansParked'
    BY <2>9 DEF ResumeVM
  <2>10. CASE RequestTerminateExecution
    BY <2>10 DEF RequestTerminateExecution
  <2>11. CASE RequestInstallCode
    BY <2>11 DEF RequestInstallCode
  <2>12. CASE FinishMarking
    BY <2>12 DEF FinishMarking
  <2>13. CASE SuspendThread
    BY <2>13 DEF SuspendThread
  <2>14. CASE TerminateSetBit
    BY <2>14 DEF TerminateSetBit
  <2>15. CASE JitSetBit
    BY <2>15 DEF JitSetBit
  <2>16. CASE FinishMarkingSetBit
    BY <2>16 DEF FinishMarkingSetBit
  <2>17. CASE SuspendThreadBit
    BY <2>17 DEF SuspendThreadBit
  <2>18. CASE ResumeThread
    BY <2>18 DEF ResumeThread
  <2>19. CASE ResumeThreadBit
    BY <2>19 DEF ResumeThreadBit
  <2>20. CASE EnterNative
    BY <2>20 DEF EnterNative
  <2>21. CASE CheckSafepoint \/ Execute
    BY <2>21 DEF CheckSafepoint, Execute, StartSafepoint
  <2>22. CASE SuspendVMSpuriousWakeup
    BY <2>22 DEF SuspendVMSpuriousWakeup
  <2>23. CASE LeaveNative
    BY <2>23 DEF LeaveNative
  <2>24. CASE CheckSuspended
    BY <2>24 DEF CheckSuspended, NeedOrInstall
  <2>25. CASE WaitSuspension
    BY <2>25 DEF WaitSuspension
  <2>26. CASE CheckNeed
    BY <2>26 DEF CheckNeed, NeedOrInstall
  <2>27. CASE SuspendVM
    BY <2>27 DEF SuspendVM, Waiting
  <2>28. CASE SuspendVMLoop
    BY <2>28 DEF SuspendVMLoop
  <2>29. CASE InstallTasks
    BY <2>29 DEF InstallTasks
  <2>30. CASE SetInstallMachineCode
    BY <2>30 DEF SetInstallMachineCode
  <2>31. CASE HandleMarkingFinished
    BY <2>31 DEF HandleMarkingFinished
  <2>32. CASE UNCHANGED vars
    BY <2>32 DEF vars
  <2>33. QED
    BY <2>1, <2>2, <2>3, <2>4, <2>5, <2>6, <2>7, <2>8, <2>9, <2>10, <2>11, <2>12,
       <2>13, <2>14, <2>15, <2>16, <2>17, <2>18, <2>19, <2>20, <2>21, <2>22, <2>23, <2>24,
       <2>25, <2>26, <2>27, <2>28, <2>29, <2>30, <2>31, <2>32
       DEF Next, NotifierStep, RequesterStep, WorldStep, VMStep
<1>3. QED
  BY <1>1, <1>2, TypeCorrect, PTL DEF Spec

\* A notifier inside the call keeps VMNeedSuspension set, and is answered with true only
\* when the VM thread has said that it is suspended.
GrantInv ==
    \A n \in Notifiers :
       /\ notifier[n] \in {"bit", "lock", "wait", "expired", "granted"} => vector["need"]
       /\ notifier[n] = "granted" => vector["hasSuspended"]

\* A lone notifier that was answered with true has the VM thread parked until it calls
\* ResumeVM, whatever the other requesters do.
THEOREM GrantsAreKept ==
    ASSUME OneCaller
    PROVE  Spec => []GrantedMeansParked
<1> USE DEF GrantInv, Bits
<1>1. Init => GrantInv
  BY DEF Init
<1>2. TypeOK /\ ReportedMeansParked /\ GrantInv /\ [Next]_vars => GrantInv'
  <2> SUFFICES ASSUME TypeOK, ReportedMeansParked, GrantInv, [Next]_vars PROVE GrantInv'
    OBVIOUS
  <2> USE OneCaller DEF OneCaller, TypeOK, ReportedMeansParked, Set, Clear, SetCheckSafePointStatus,
                        ResetCheckSafePointStatus, VectorFree, At, Goto, requesters, counts
  <2>1. ASSUME NEW n \in Notifiers, NotifyVMThreadSuspension(n) PROVE GrantInv'
    BY <2>1 DEF NotifyVMThreadSuspension
  <2>2. ASSUME NEW n \in Notifiers, NotifySpuriousWakeup(n) PROVE GrantInv'
    BY <2>2 DEF NotifySpuriousWakeup
  <2>3. ASSUME NEW n \in Notifiers, NotifyTimeout(n) PROVE GrantInv'
    BY <2>3 DEF NotifyTimeout
  <2>4. ASSUME NEW n \in Notifiers, SetVMNeedSuspension(n) PROVE GrantInv'
    BY <2>4 DEF SetVMNeedSuspension
  <2>5. ASSUME NEW n \in Notifiers, NotifySetBit(n) PROVE GrantInv'
    BY <2>5 DEF NotifySetBit
  <2>6. ASSUME NEW n \in Notifiers, NotifyWait(n) PROVE GrantInv'
    BY <2>6 DEF NotifyWait
  <2>7. ASSUME NEW n \in Notifiers, NotifyWithdraw(n) PROVE GrantInv'
    BY <2>7 DEF NotifyWithdraw
  <2>8. ASSUME NEW n \in Notifiers, NotifyResetBit(n) PROVE GrantInv'
    BY <2>8 DEF NotifyResetBit
  <2>9. ASSUME NEW n \in Notifiers, ResumeVM(n) PROVE GrantInv'
    BY <2>9 DEF ResumeVM
  <2>10. CASE RequestTerminateExecution
    BY <2>10 DEF RequestTerminateExecution
  <2>11. CASE RequestInstallCode
    BY <2>11 DEF RequestInstallCode
  <2>12. CASE FinishMarking
    BY <2>12 DEF FinishMarking
  <2>13. CASE SuspendThread
    BY <2>13 DEF SuspendThread
  <2>14. CASE TerminateSetBit
    BY <2>14 DEF TerminateSetBit
  <2>15. CASE JitSetBit
    BY <2>15 DEF JitSetBit
  <2>16. CASE FinishMarkingSetBit
    BY <2>16 DEF FinishMarkingSetBit
  <2>17. CASE SuspendThreadBit
    BY <2>17 DEF SuspendThreadBit
  <2>18. CASE ResumeThread
    BY <2>18 DEF ResumeThread
  <2>19. CASE ResumeThreadBit
    BY <2>19 DEF ResumeThreadBit
  <2>20. CASE EnterNative
    BY <2>20 DEF EnterNative
  <2>21. CASE CheckSafepoint \/ Execute
    BY <2>21 DEF CheckSafepoint, Execute, StartSafepoint
  <2>22. CASE SuspendVMSpuriousWakeup
    BY <2>22 DEF SuspendVMSpuriousWakeup
  <2>23. CASE LeaveNative
    BY <2>23 DEF LeaveNative
  <2>24. CASE CheckSuspended
    BY <2>24 DEF CheckSuspended, NeedOrInstall
  <2>25. CASE WaitSuspension
    BY <2>25 DEF WaitSuspension
  <2>26. CASE CheckNeed
    BY <2>26 DEF CheckNeed, NeedOrInstall
  <2>27. CASE SuspendVM
    BY <2>27 DEF SuspendVM, Waiting
  <2>28. CASE SuspendVMLoop
    BY <2>28 DEF SuspendVMLoop
  <2>29. CASE InstallTasks
    BY <2>29 DEF InstallTasks
  <2>30. CASE SetInstallMachineCode
    BY <2>30 DEF SetInstallMachineCode
  <2>31. CASE HandleMarkingFinished
    BY <2>31 DEF HandleMarkingFinished
  <2>32. CASE UNCHANGED vars
    BY <2>32 DEF vars
  <2>33. QED
    BY <2>1, <2>2, <2>3, <2>4, <2>5, <2>6, <2>7, <2>8, <2>9, <2>10, <2>11, <2>12,
       <2>13, <2>14, <2>15, <2>16, <2>17, <2>18, <2>19, <2>20, <2>21, <2>22, <2>23, <2>24,
       <2>25, <2>26, <2>27, <2>28, <2>29, <2>30, <2>31, <2>32
       DEF Next, NotifierStep, RequesterStep, WorldStep, VMStep
<1>3. ReportedMeansParked /\ GrantInv => GrantedMeansParked
  BY DEF ReportedMeansParked, GrantedMeansParked, At
<1>4. QED
  BY <1>1, <1>2, <1>3, TypeCorrect, ReportsAreTrue, PTL DEF Spec

-----------------------------------------------------------------------------
(* Polling                                                                  *)

\* Where the VM thread has reset the bit and is yet to look for the request.
BeforeNeed    == {"reset", "waitsuspension", "need", "suspendvm", "parked", "woken"}
BeforeInstall == BeforeNeed \cup {"install", "uninstall"}

\* A request that has been sent completely has the bit, or the VM thread has taken the bit
\* and will come to the request, or a reset from outside has taken the bit.
PollInv ==
    /\ vector["termination"] /\ terminator = "done" => vector["check"] \/ cleared
    /\ vector["install"] /\ jit = "idle" => vector["check"] \/ cleared \/ vm \in BeforeInstall
    /\ suspended /\ world = "stopped" =>
          vector["check"] \/ cleared \/ vm \in {"reset", "waitsuspension"}
    /\ \A n \in Notifiers : notifier[n] \in {"lock", "wait", "expired"} /\ vector["need"]
          => vector["check"] \/ cleared \/ vm \in BeforeNeed

\* Until a reset from outside takes the bit away, every request that has been sent
\* completely is seen by the next poll, whatever the number of stop-the-worlds, timeouts
\* and installs.
THEOREM RequestsArePolled ==
    ASSUME OneCaller
    PROVE  Spec => []PendingIsPolled
<1> USE DEF PollInv, BeforeNeed, BeforeInstall, Bits
<1>1. Init => PollInv
  BY DEF Init
<1>2. TypeOK /\ PollInv /\ [Next]_vars => PollInv'
  <2> SUFFICES ASSUME TypeOK, PollInv, [Next]_vars PROVE PollInv'
    OBVIOUS
  <2> USE OneCaller DEF OneCaller, TypeOK, Set, Clear, SetCheckSafePointStatus, ResetCheckSafePointStatus, VectorFree,
          At, Goto, requesters, counts
  <2>1. ASSUME NEW n \in Notifiers, NotifyVMThreadSuspension(n) PROVE PollInv'
    BY <2>1 DEF NotifyVMThreadSuspension
  <2>2. ASSUME NEW n \in Notifiers, NotifySpuriousWakeup(n) PROVE PollInv'
    BY <2>2 DEF NotifySpuriousWakeup
  <2>3. ASSUME NEW n \in Notifiers, NotifyTimeout(n) PROVE PollInv'
    BY <2>3 DEF NotifyTimeout
  <2>4. ASSUME NEW n \in Notifiers, SetVMNeedSuspension(n) PROVE PollInv'
    BY <2>4 DEF SetVMNeedSuspension
  <2>5. ASSUME NEW n \in Notifiers, NotifySetBit(n) PROVE PollInv'
    BY <2>5 DEF NotifySetBit
  <2>6. ASSUME NEW n \in Notifiers, NotifyWait(n) PROVE PollInv'
    BY <2>6 DEF NotifyWait
  <2>7. ASSUME NEW n \in Notifiers, NotifyWithdraw(n) PROVE PollInv'
    BY <2>7 DEF NotifyWithdraw
  <2>8. ASSUME NEW n \in Notifiers, NotifyResetBit(n) PROVE PollInv'
    BY <2>8 DEF NotifyResetBit
  <2>9. ASSUME NEW n \in Notifiers, ResumeVM(n) PROVE PollInv'
    BY <2>9 DEF ResumeVM
  <2>10. CASE RequestTerminateExecution
    BY <2>10 DEF RequestTerminateExecution
  <2>11. CASE RequestInstallCode
    BY <2>11 DEF RequestInstallCode
  <2>12. CASE FinishMarking
    BY <2>12 DEF FinishMarking
  <2>13. CASE SuspendThread
    BY <2>13 DEF SuspendThread
  <2>14. CASE TerminateSetBit
    BY <2>14 DEF TerminateSetBit
  <2>15. CASE JitSetBit
    BY <2>15 DEF JitSetBit
  <2>16. CASE FinishMarkingSetBit
    BY <2>16 DEF FinishMarkingSetBit
  <2>17. CASE SuspendThreadBit
    BY <2>17 DEF SuspendThreadBit
  <2>18. CASE ResumeThread
    BY <2>18 DEF ResumeThread
  <2>19. CASE ResumeThreadBit
    BY <2>19 DEF ResumeThreadBit
  <2>20. CASE EnterNative
    BY <2>20 DEF EnterNative
  <2>21. CASE CheckSafepoint \/ Execute
    BY <2>21 DEF CheckSafepoint, Execute, StartSafepoint
  <2>22. CASE SuspendVMSpuriousWakeup
    BY <2>22 DEF SuspendVMSpuriousWakeup
  <2>23. CASE LeaveNative
    BY <2>23 DEF LeaveNative
  <2>24. CASE CheckSuspended
    BY <2>24 DEF CheckSuspended, NeedOrInstall
  <2>25. CASE WaitSuspension
    BY <2>25 DEF WaitSuspension
  <2>26. CASE CheckNeed
    BY <2>26 DEF CheckNeed, NeedOrInstall
  <2>27. CASE SuspendVM
    BY <2>27 DEF SuspendVM, Waiting
  <2>28. CASE SuspendVMLoop
    BY <2>28 DEF SuspendVMLoop
  <2>29. CASE InstallTasks
    BY <2>29 DEF InstallTasks
  <2>30. CASE SetInstallMachineCode
    BY <2>30 DEF SetInstallMachineCode
  <2>31. CASE HandleMarkingFinished
    BY <2>31 DEF HandleMarkingFinished
  <2>32. CASE UNCHANGED vars
    BY <2>32 DEF vars
  <2>33. QED
    BY <2>1, <2>2, <2>3, <2>4, <2>5, <2>6, <2>7, <2>8, <2>9, <2>10, <2>11, <2>12,
       <2>13, <2>14, <2>15, <2>16, <2>17, <2>18, <2>19, <2>20, <2>21, <2>22, <2>23, <2>24,
       <2>25, <2>26, <2>27, <2>28, <2>29, <2>30, <2>31, <2>32
       DEF Next, NotifierStep, RequesterStep, WorldStep, VMStep
<1>3. PollInv => PendingIsPolled
  BY DEF PendingIsPolled, Pending
<1>4. QED
  BY <1>1, <1>2, <1>3, TypeCorrect, PTL DEF Spec
=============================================================================
