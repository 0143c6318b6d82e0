----------------------------- MODULE Safepoint -----------------------------
(***************************************************************************)
(* Requests that other threads send to one VM thread through its interrupt *)
(* vector, and the safepoint at which the VM thread serves them.           *)
(*                                                                         *)
(*   ecmascript/js_thread.{h,cpp}        the vector, CheckSafepoint        *)
(*   ecmascript/dfx/vm_thread_control.*  suspend, resume and terminate     *)
(*   ecmascript/jit/jit.cpp              RequestInstallCode, InstallTasks  *)
(*   ecmascript/mem/concurrent_marker.cpp   the end of FinishMarking       *)
(*                                                                         *)
(* The stop-the-world request is reduced to the flag and the bit that      *)
(* SuspendThread and ResumeThread change (ThreadSuspension has the rest):  *)
(* its initiator goes on when the VM thread is not in managed code.  Every *)
(* accessor of the vector takes interruptMutex_, which CheckSafepoint      *)
(* holds from "reset" to the test of the suspend flag.                     *)
(***************************************************************************)
EXTENDS Naturals

CONSTANTS Notifiers,    \* threads that call SuspendVM and ResumeVM of DFXJSNApi
          None,
          MaxNotify,    \* bound: calls of NotifyVMThreadSuspension
          MaxTimeouts,  \* bound: how often TIME_OUT_MS elapses first
          MaxWorlds,    \* bound: stop-the-worlds
          MaxInstalls   \* bound: finished JIT tasks

ASSUME SafepointAssumption ==
    /\ None \notin Notifiers
    /\ MaxNotify \in Nat /\ MaxTimeouts \in Nat /\ MaxWorlds \in Nat /\ MaxInstalls \in Nat

VARIABLES
    vector,      \* interruptVector_: a record of its bits
    suspended,   \* SUSPEND_REQUEST of the VM thread (JSThread::IsSuspended)
    markDone,    \* MarkStatus is MARK_FINISHED
    cleared,     \* history: a reset from outside took the safepoint bit, and it was not set since
    installs,    \* installJitTasks_[VM thread]: how many tasks wait
    mutex,       \* vmThreadSuspensionMutex_, where it is held between two steps
    vm,          \* where the VM thread is
    notifier,    \* where each notifier is in NotifyVMThreadSuspension
    world,       \* where the stop-the-world initiator is
    terminator, jit, marker,   \* where those threads are
    notified, timeouts, worlds, installed   \* the bounded counts

requesters == <<terminator, jit, marker>>
counts == <<notified, timeouts, worlds, installed>>
vars == <<vector, suspended, markDone, cleared, installs, mutex, vm, notifier, world,
          requesters, counts>>

Bits == {"check", "need", "hasSuspended", "termination", "terminated", "install"}

TypeOK ==
    /\ vector \in [Bits -> BOOLEAN]
    /\ suspended \in BOOLEAN /\ markDone \in BOOLEAN /\ cleared \in BOOLEAN
    /\ installs \in 0..installed
    /\ mutex \in Notifiers \cup {None}
    /\ vm \in {"run", "native", "reset", "waitsuspension", "need", "suspendvm", "parked",
               "woken", "install", "uninstall", "mark"}
    /\ notifier \in [Notifiers -> {"idle", "post", "bit", "lock", "wait", "expired",
                                   "clear", "granted"}]
    /\ world \in {"idle", "setbit", "stopped", "resetbit"}
    /\ terminator \in {"idle", "bit", "done"}
    /\ jit \in {"idle", "bit"} /\ marker \in {"idle", "bit", "done"}
    /\ notified \in 0..MaxNotify /\ timeouts \in 0..MaxTimeouts
    /\ worlds \in 0..MaxWorlds /\ installed \in 0..MaxInstalls

\* The VM thread runs managed code and nothing has been asked of it.
Init ==
    /\ vector = [b \in Bits |-> FALSE]
    /\ suspended = FALSE /\ markDone = FALSE /\ cleared = FALSE /\ installs = 0
    /\ mutex = None
    /\ vm = "run"
    /\ notifier = [n \in Notifiers |-> "idle"]
    /\ world = "idle" /\ terminator = "idle" /\ jit = "idle" /\ marker = "idle"
    /\ notified = 0 /\ timeouts = 0 /\ worlds = 0 /\ installed = 0

Set(b)   == vector' = [vector EXCEPT ![b] = TRUE]
Clear(b) == vector' = [vector EXCEPT ![b] = FALSE]

SetCheckSafePointStatus   == Set("check") /\ cleared' = FALSE
ResetCheckSafePointStatus == Clear("check") /\ cleared' = TRUE

\* interruptMutex_ is free.
VectorFree == vm # "reset"

At(n, label) == notifier[n] = label
Goto(n, label) == notifier' = [notifier EXCEPT ![n] = label]

-----------------------------------------------------------------------------
(* VmThreadControl, called by the notifiers                                 *)

\* NotifyVMThreadSuspension up to the test of VMNeedSuspension; a set bit returns false.
NotifyVMThreadSuspension(n) ==
    /\ At(n, "idle") /\ VectorFree /\ ~vector["need"] /\ notified < MaxNotify
    /\ notified' = notified + 1
    /\ Goto(n, "post")
    /\ UNCHANGED <<vector, suspended, markDone, cleared, installs, mutex, vm, world, requesters,
                   timeouts, worlds, installed>>

SetVMNeedSuspension(n) ==
    /\ At(n, "post") /\ VectorFree
    /\ Set("need")
    /\ Goto(n, "bit")
    /\ UNCHANGED <<suspended, markDone, cleared, installs, mutex, vm, world, requesters, counts>>

\* Bug: the safepoint bit is not set.
BugNotifyNoBit(n) ==
    /\ At(n, "bit") /\ VectorFree
    /\ Goto(n, "lock")
    /\ UNCHANGED <<vector, suspended, markDone, cleared, installs, mutex, vm, world,
                   requesters, counts>>

NotifySetBit(n) ==
    /\ At(n, "bit") /\ VectorFree
    /\ SetCheckSafePointStatus
    /\ Goto(n, "lock")
    /\ UNCHANGED <<suspended, markDone, installs, mutex, vm, world, requesters, counts>>

\* Bug: the wait is left without looking at VMHasSuspended again.
BugNotifyNoRecheck(n) ==
    /\ At(n, "lock") /\ mutex = None /\ VectorFree
    /\ Goto(n, "granted")
    /\ UNCHANGED <<vector, suspended, markDone, cleared, installs, mutex, vm, world,
                   requesters, counts>>

\* The loop around TimedWait, under the mutex: suspended, or wait (again).
NotifyWait(n) ==
    /\ At(n, "lock") /\ mutex = None /\ VectorFree
    /\ Goto(n, IF vector["hasSuspended"] THEN "granted" ELSE "wait")
    /\ UNCHANGED <<vector, suspended, markDone, cleared, installs, mutex, vm, world,
                   requesters, counts>>

NotifySpuriousWakeup(n) ==
    /\ At(n, "wait")
    /\ Goto(n, "lock")
    /\ UNCHANGED <<vector, suspended, markDone, cleared, installs, mutex, vm, world,
                   requesters, counts>>

\* TIME_OUT_MS elapses; TimedWait has yet to take the mutex again.
NotifyTimeout(n) ==
    /\ At(n, "wait") /\ timeouts < MaxTimeouts
    /\ timeouts' = timeouts + 1
    /\ Goto(n, "expired")
    /\ UNCHANGED <<vector, suspended, markDone, cleared, installs, mutex, vm, world, requesters,
                   notified, worlds, installed>>

NotifyWithdraw(n) ==
    /\ At(n, "expired") /\ mutex = None /\ VectorFree
    /\ mutex' = n
    /\ Clear("need")
    /\ Goto(n, "clear")
    /\ UNCHANGED <<suspended, markDone, cleared, installs, vm, world, requesters, counts>>

NotifyResetBit(n) ==
    /\ At(n, "clear") /\ VectorFree
    /\ mutex' = None
    /\ ResetCheckSafePointStatus
    /\ Goto(n, "idle")
    /\ UNCHANGED <<suspended, markDone, installs, vm, world, requesters, counts>>

\* Bug: the VM thread is not signalled.
BugResumeNoSignal(n) ==
    /\ At(n, "granted") /\ mutex = None /\ VectorFree
    /\ Clear("need")
    /\ Goto(n, "idle")
    /\ UNCHANGED <<suspended, markDone, cleared, installs, mutex, vm, world, requesters, counts>>

ResumeVM(n) ==
    /\ At(n, "granted") /\ mutex = None /\ VectorFree
    /\ Clear("need")
    /\ vm' = IF vm = "parked" THEN "woken" ELSE vm
    /\ Goto(n, "idle")
    /\ UNCHANGED <<suspended, markDone, cleared, installs, mutex, world, requesters, counts>>

-----------------------------------------------------------------------------
(* The other requesters                                                     *)

RequestTerminateExecution ==
    /\ terminator = "idle" /\ VectorFree
    /\ Set("termination")
    /\ terminator' = "bit"
    /\ UNCHANGED <<suspended, markDone, cleared, installs, mutex, vm, notifier, world, jit,
                   marker, counts>>

\* Bug: the safepoint bit is not set.
BugTerminateNoBit ==
    /\ terminator = "bit" /\ VectorFree
    /\ terminator' = "done"
    /\ UNCHANGED <<vector, suspended, markDone, cleared, installs, mutex, vm, notifier, world,
                   jit, marker, counts>>

TerminateSetBit ==
    /\ terminator = "bit" /\ VectorFree
    /\ SetCheckSafePointStatus
    /\ terminator' = "done"
    /\ UNCHANGED <<suspended, markDone, installs, mutex, vm, notifier, world, jit, marker,
                   counts>>

\* installJitTasksDequeMtx_ is held from here to JitSetBit.
RequestInstallCode ==
    /\ jit = "idle" /\ VectorFree /\ installed < MaxInstalls
    /\ installed' = installed + 1
    /\ installs' = installs + 1
    /\ Set("install")
    /\ jit' = "bit"
    /\ UNCHANGED <<suspended, markDone, cleared, mutex, vm, notifier, world, terminator, marker,
                   notified, timeouts, worlds>>

JitSetBit ==
    /\ jit = "bit" /\ VectorFree
    /\ SetCheckSafePointStatus
    /\ jit' = "idle"
    /\ UNCHANGED <<suspended, markDone, installs, mutex, vm, notifier, world, terminator,
                   marker, counts>>

FinishMarking ==
    /\ marker = "idle"
    /\ markDone' = TRUE
    /\ marker' = "bit"
    /\ UNCHANGED <<vector, suspended, cleared, installs, mutex, vm, notifier, world,
                   terminator, jit, counts>>

FinishMarkingSetBit ==
    /\ marker = "bit" /\ VectorFree
    /\ SetCheckSafePointStatus
    /\ marker' = "done"
    /\ UNCHANGED <<suspended, markDone, installs, mutex, vm, notifier, world, terminator, jit,
                   counts>>

\* suspendLock_ is held from here to SuspendThreadBit.
SuspendThread ==
    /\ world = "idle" /\ worlds < MaxWorlds
    /\ worlds' = worlds + 1
    /\ suspended' = TRUE
    /\ world' = "setbit"
    /\ UNCHANGED <<vector, markDone, cleared, installs, mutex, vm, notifier, requesters,
                   notified, timeouts, installed>>

SuspendThreadBit ==
    /\ world = "setbit" /\ VectorFree
    /\ SetCheckSafePointStatus
    /\ world' = "stopped"
    /\ UNCHANGED <<suspended, markDone, installs, mutex, vm, notifier, requesters, counts>>

\* The initiator has had the write lock: the VM thread is not RUNNING.
ResumeThread ==
    /\ world = "stopped" /\ vm \in {"native", "waitsuspension"}
    /\ suspended' = FALSE
    /\ world' = "resetbit"
    /\ UNCHANGED <<vector, markDone, cleared, installs, mutex, vm, notifier, requesters, counts>>

ResumeThreadBit ==
    /\ world = "resetbit" /\ VectorFree
    /\ ResetCheckSafePointStatus
    /\ world' = "idle"
    /\ UNCHANGED <<suspended, markDone, installs, mutex, vm, notifier, requesters, counts>>

-----------------------------------------------------------------------------
(* The VM thread                                                            *)

EnterNative ==
    /\ vm = "run"
    /\ vm' = "native"
    /\ UNCHANGED <<vector, suspended, markDone, cleared, installs, mutex, notifier, world,
                   requesters, counts>>

\* UpdateState(RUNNING) does not return while a suspend request is in force.
LeaveNative ==
    /\ vm = "native" /\ ~suspended
    /\ vm' = "run"
    /\ UNCHANGED <<vector, suspended, markDone, cleared, installs, mutex, notifier, world,
                   requesters, counts>>

\* CheckSafepoint up to the test of the suspend flag: reset the bit, serve a termination
\* request.
StartSafepoint ==
    /\ vm = "run"
    /\ vector' = [vector EXCEPT !["check"] = FALSE,
                                !["terminated"] = @ \/ vector["termination"],
                                !["termination"] = FALSE]
    /\ cleared' = FALSE
    /\ vm' = "reset"
    /\ UNCHANGED <<suspended, markDone, installs, mutex, notifier, world, requesters, counts>>

\* The poll of managed code, which looks at the bit.
CheckSafepoint ==
    /\ vector["check"]
    /\ StartSafepoint

\* A call from C++ into JS code comes to CheckSafepoint whether the bit is set or not.
Execute ==
    /\ ~vector["check"]
    /\ StartSafepoint

NeedOrInstall == IF vector["need"] THEN "suspendvm" ELSE "install"

CheckSuspended ==
    /\ vm = "reset"
    /\ vm' = IF suspended THEN "waitsuspension" ELSE NeedOrInstall
    /\ UNCHANGED <<vector, suspended, markDone, cleared, installs, mutex, notifier, world,
                   requesters, counts>>

\* The count is read under suspendLock_, which both halves of SuspendThread and of
\* ResumeThread hold; then VMNeedSuspension under interruptMutex_.
WaitSuspension ==
    /\ vm = "waitsuspension" /\ ~suspended /\ world # "resetbit"
    /\ vm' = "need"
    /\ UNCHANGED <<vector, suspended, markDone, cleared, installs, mutex, notifier, world,
                   requesters, counts>>

CheckNeed ==
    /\ vm = "need"
    /\ vm' = NeedOrInstall
    /\ UNCHANGED <<vector, suspended, markDone, cleared, installs, mutex, notifier, world,
                   requesters, counts>>

Waiting == {n \in Notifiers : At(n, "wait")}

\* Bug: the VM thread forgets to say that it runs again.
BugSuspendVMStale ==
    /\ vm = "woken" /\ mutex = None
    /\ vm' = IF vector["need"] THEN "parked" ELSE "install"
    /\ UNCHANGED <<vector, suspended, markDone, cleared, installs, mutex, notifier, world,
                   requesters, counts>>

\* SuspendVM up to its wait; Signal wakes one notifier, if one waits.
SuspendVM ==
    /\ vm = "suspendvm" /\ mutex = None
    /\ vector' = [vector EXCEPT !["hasSuspended"] = vector["need"]]
    /\ vm' = IF vector["need"] THEN "parked" ELSE "install"
    /\ \/ \E n \in Waiting : Goto(n, "lock")
       \/ Waiting = {} /\ UNCHANGED notifier
    /\ UNCHANGED <<suspended, markDone, cleared, installs, mutex, world, requesters, counts>>

SuspendVMSpuriousWakeup ==
    /\ vm = "parked"
    /\ vm' = "woken"
    /\ UNCHANGED <<vector, suspended, markDone, cleared, installs, mutex, notifier, world,
                   requesters, counts>>

\* The wait's loop: still needed, or SetVMSuspended(false) and return.
SuspendVMLoop ==
    /\ vm = "woken" /\ mutex = None
    /\ vector' = [vector EXCEPT !["hasSuspended"] = vector["need"]]
    /\ vm' = IF vector["need"] THEN "parked" ELSE "install"
    /\ UNCHANGED <<suspended, markDone, cleared, installs, mutex, notifier, world, requesters,
                   counts>>

\* InstallTasks takes installJitTasksDequeMtx_.
InstallTasks ==
    /\ vm = "install"
    /\ \/ /\ vector["install"] /\ jit # "bit"
          /\ installs' = 0
          /\ vm' = "uninstall"
       \/ /\ ~vector["install"]
          /\ vm' = "mark"
          /\ UNCHANGED installs
    /\ UNCHANGED <<vector, suspended, markDone, cleared, mutex, notifier, world, requesters,
                   counts>>

SetInstallMachineCode ==
    /\ vm = "uninstall"
    /\ Clear("install")
    /\ vm' = "mark"
    /\ UNCHANGED <<suspended, markDone, cleared, installs, mutex, notifier, world, requesters,
                   counts>>

\* The rest of CheckSafepoint: HandleMarkingFinished collects and resets the mark status,
\* unless the thread is serialising.
HandleMarkingFinished ==
    /\ vm = "mark"
    /\ markDone' \in {FALSE, markDone}
    /\ vm' = "run"
    /\ UNCHANGED <<vector, suspended, cleared, installs, mutex, notifier, world, requesters,
                   counts>>

-----------------------------------------------------------------------------

\* Steps that a thread takes once it has started an operation.
NotifierStep(n) ==
    \/ SetVMNeedSuspension(n) \/ NotifySetBit(n) \/ NotifyWait(n)
    \/ NotifyWithdraw(n) \/ NotifyResetBit(n) \/ ResumeVM(n)

RequesterStep ==
    \/ TerminateSetBit \/ JitSetBit \/ FinishMarkingSetBit

WorldStep == SuspendThreadBit \/ ResumeThread \/ ResumeThreadBit

VMStep ==
    \/ LeaveNative \/ CheckSuspended \/ WaitSuspension \/ CheckNeed \/ SuspendVM
    \/ SuspendVMLoop \/ InstallTasks \/ SetInstallMachineCode \/ HandleMarkingFinished

Next ==
    \/ \E n \in Notifiers : \/ NotifyVMThreadSuspension(n) \/ NotifySpuriousWakeup(n)
                            \/ NotifyTimeout(n) \/ NotifierStep(n)
    \/ RequestTerminateExecution \/ RequestInstallCode \/ FinishMarking \/ SuspendThread
    \/ RequesterStep \/ WorldStep
    \/ EnterNative \/ CheckSafepoint \/ Execute \/ SuspendVMSpuriousWakeup \/ VMStep

Spec == Init /\ [][Next]_vars

\* Every thread goes on with what it has started, and gets interruptMutex_ when it is free
\* again and again (strong fairness).  Managed code polls again and again, so a bit that
\* stays set is seen (strong fairness: the thread may be in native code between).  Nothing
\* makes C++ code call into JS again, and no timeout has to elapse.
Fairness ==
    /\ \A n \in Notifiers : SF_vars(NotifierStep(n))
    /\ SF_vars(RequesterStep) /\ SF_vars(WorldStep) /\ WF_vars(VMStep)
    /\ SF_vars(CheckSafepoint)

FairSpec == Spec /\ Fairness

-----------------------------------------------------------------------------
(* Properties                                                               *)

\* A notifier that NotifyVMThreadSuspension answered with true finds the VM thread inside
\* SuspendVM until it calls ResumeVM (the recheck loops of both threads).
GrantedMeansParked ==
    \A n \in Notifiers : At(n, "granted") => vm \in {"parked", "woken"} /\ vector["need"]

\* VMHasSuspended, what IsSuspended reports, is set exactly while the VM thread is parked.
ReportedMeansParked ==
    vector["hasSuspended"] <=> vm \in {"parked", "woken"}

\* The requests whose sender has finished.
Pending ==
    \/ vector["termination"] /\ terminator = "done"
    \/ vector["install"] /\ jit = "idle"
    \/ suspended /\ world = "stopped"
    \/ \E n \in Notifiers : notifier[n] \in {"lock", "wait", "expired"} /\ vector["need"]

\* In managed code every request that has been sent completely has the safepoint bit
\* (SetCheckSafePointStatus after the request, the reset before the requests are read),
\* except between a ResetCheckSafePointStatus from outside and the next set.
PendingIsPolled == vm \in {"run", "native"} /\ Pending /\ ~cleared => vector["check"]

\* A call that timed out has withdrawn its request after the VM thread parked for it.
Abandoned == vm = "parked" /\ ~vector["need"]

\* A termination request ends in TerminateExecution, unless ResumeThread or a
\* NotifyVMThreadSuspension that times out takes the safepoint bit away or leaves the VM
\* thread parked.
TerminationPolled == vector["termination"] ~> vector["terminated"] \/ cleared \/ Abandoned

\* A termination request ends in TerminateExecution.
TerminationDelivered == vector["termination"] ~> vector["terminated"]

\* Compiled code that has been handed over is installed.
InstallDelivered == installs > 0 ~> installs = 0

\* Every call of NotifyVMThreadSuspension is answered, and the VM thread resumed, without
\* the help of the timeout, unless the safepoint bit is taken away.
NotifyReturns == \A n \in Notifiers : notifier[n] # "idle" ~> At(n, "idle") \/ cleared

\* The VM thread runs again after it was parked for a caller that got true, although other
\* calls time out: ResumeVM clears the flag and signals, and SuspendVM's loop sees it.
ParkedResumes == \A n \in Notifiers : At(n, "granted") ~> vm = "run"
=============================================================================
