------------------------------ MODULE TaskPool ------------------------------
(***************************************************************************)
(* The pool of worker threads that the VMs of a process share.             *)
(*                                                                         *)
(*   ecmascript/taskpool/taskpool.{h,cpp}     Initialize, Destroy, PostTask*)
(*   ecmascript/taskpool/runner.{h,cpp}       the workers, runningTask_    *)
(*   ecmascript/taskpool/task_queue.{h,cpp}   the queue and its condition  *)
(*   ecmascript/taskpool/task.h               the terminate flag           *)
(*                                                                         *)
(* A VM initialises the pool once and destroys it once; the first one      *)
(* starts the workers and the last one joins them.  A critical section of  *)
(* mtx_ of the queue or of the runner is one step.  A task carries the id  *)
(* of its VM, or Global (GLOBAL_TASK_ID, the profile writer's tasks), and  *)
(* a type, which tells the profile writer's tasks apart.                   *)
(***************************************************************************)
EXTENDS Naturals, Sequences, FiniteSets

CONSTANTS VMs, Workers, Tasks, None,
          Global   \* GLOBAL_TASK_ID

ASSUME TaskPoolAssumption ==
    /\ None \notin VMs \cup Workers \cup Tasks /\ Global \notin VMs \cup {None}
    /\ IsFiniteSet(VMs) /\ Workers # {}

Ids == VMs \cup {Global}

TaskTypes == {"PGO_SAVE_TASK", "PGO_RESET_OUT_PATH_TASK", "ALL"}

VARIABLES
    isInitialized,  \* isInitialized_
    mutex,          \* Taskpool::mutex_, where it is held between two steps
    vm,             \* where each VM is
    target,         \* the id a VM inside TerminateTask terminates
    called,         \* the unfinished tasks it was about when TerminateTask was called
    tasks,          \* tasks_ of the queue
    terminate,      \* terminate_ of the queue
    worker,         \* where each worker is
    task,           \* the task a worker holds (the unique_ptr in Runner::Run)
    runningTask,    \* runningTask_
    id,             \* id_ of each posted task, None before
    type,           \* GetTaskType() of each task
    terminated,     \* tasks whose terminate_ is set
    finished        \* tasks whose Run has returned

poolVars   == <<isInitialized, mutex>>
callVars   == <<target, called>>
queueVars  == <<tasks, terminate>>
workerVars == <<worker, task, runningTask>>
taskVars   == <<id, type, terminated, finished>>
vars == <<poolVars, vm, callVars, queueVars, workerVars, taskVars>>

Elements(s) == {s[i] : i \in 1..Len(s)}

TypeOK ==
    /\ isInitialized \in Nat
    /\ mutex \in VMs \cup {None}
    /\ vm \in [VMs -> {"new", "live", "queue", "running", "returned", "terminate", "join", "dead"}]
    /\ target \in [VMs -> Ids \cup {None}] /\ called \in [VMs -> SUBSET Tasks]
    /\ tasks \in Seq(Tasks) /\ terminate \in BOOLEAN
    /\ worker \in [Workers -> {"none", "pop", "wait", "set", "run", "unset", "exited"}]
    /\ task \in [Workers -> Tasks \cup {None}]
    /\ runningTask \in [Workers -> Tasks \cup {None}]
    /\ id \in [Tasks -> Ids \cup {None}] /\ type \in [Tasks -> TaskTypes]
    /\ terminated \in SUBSET Tasks /\ finished \in SUBSET Tasks

\* No VM yet, no runner.
Init ==
    /\ isInitialized = 0 /\ mutex = None
    /\ vm = [v \in VMs |-> "new"]
    /\ target = [v \in VMs |-> None] /\ called = [v \in VMs |-> {}]
    /\ tasks = <<>> /\ terminate = FALSE
    /\ worker = [w \in Workers |-> "none"]
    /\ task = [w \in Workers |-> None] /\ runningTask = [w \in Workers |-> None]
    /\ id = [k \in Tasks |-> None] /\ type = [k \in Tasks |-> "ALL"]
    /\ terminated = {} /\ finished = {}

Goto(v, label)   == vm' = [vm EXCEPT ![v] = label]
WorkAt(w, label) == worker' = [worker EXCEPT ![w] = label]

Waiting == {w \in Workers : worker[w] = "wait"}

-----------------------------------------------------------------------------
(* The VM threads                                                           *)

\* The first VM makes a new Runner, with an empty queue and its threads.
Initialize(v) ==
    /\ vm[v] = "new" /\ mutex = None
    /\ isInitialized' = isInitialized + 1
    /\ Goto(v, "live")
    /\ IF isInitialized = 0
          THEN /\ tasks' = <<>> /\ terminate' = FALSE
               /\ worker' = [w \in Workers |-> "pop"]
               /\ task' = [w \in Workers |-> None]
               /\ runningTask' = [w \in Workers |-> None]
          ELSE UNCHANGED <<queueVars, workerVars>>
    /\ UNCHANGED <<mutex, callVars, taskVars>>

\* The task k of a VM, or one of the two tasks of the profile writer.
NewTask(v, k) ==
    \/ id' = [id EXCEPT ![k] = v] /\ UNCHANGED type
    \/ /\ id' = [id EXCEPT ![k] = Global]
       /\ \E t \in TaskTypes \ {"ALL"} : type' = [type EXCEPT ![k] = t]

\* Bug: the queue is pushed but nobody is signalled.
BugPostNoSignal(v, k) ==
    /\ vm[v] = "live" /\ isInitialized > 0 /\ id[k] = None
    /\ NewTask(v, k)
    /\ tasks' = Append(tasks, k)
    /\ UNCHANGED <<poolVars, vm, callVars, terminate, workerVars, terminated, finished>>

\* PostTask, by a VM that has initialised the pool; Signal wakes one waiting worker.
PostTask(v, k) ==
    /\ vm[v] = "live" /\ isInitialized > 0 /\ id[k] = None
    /\ NewTask(v, k)
    /\ tasks' = Append(tasks, k)
    /\ \/ \E w \in Waiting : WorkAt(w, "pop")
       \/ Waiting = {} /\ UNCHANGED worker
    /\ UNCHANGED <<poolVars, vm, callVars, terminate, task, runningTask, terminated, finished>>

\* The type that TerminateTask is called with: only the profile writer names one.
TypeArgument(i) == IF i = Global THEN "PGO_SAVE_TASK" ELSE "ALL"

\* A call of TerminateTask with the id i (None is ALL_TASK_ID) terminates the task k.
Matches(i, k) ==
    /\ i = None \/ id[k] = i
    /\ TypeArgument(i) = "ALL" \/ type[k] = TypeArgument(i)

Unfinished(i) == {k \in Tasks : id[k] # None /\ k \notin finished /\ Matches(i, k)}

\* TerminateTask from a VM that goes on (the profile writer withdraws its save tasks).
TerminateTask(v) ==
    /\ vm[v] = "live" /\ isInitialized > 0
    /\ target' = [target EXCEPT ![v] = Global]
    /\ called' = [called EXCEPT ![v] = Unfinished(Global)]
    /\ Goto(v, "queue")
    /\ UNCHANGED <<poolVars, queueVars, workerVars, taskVars>>

\* Destroy: the last VM terminates every task, then the threads; the others terminate
\* their own tasks.  mutex_ is held to the end.
Destroy(v) ==
    /\ vm[v] = "live" /\ mutex = None /\ isInitialized > 0
    /\ isInitialized' = isInitialized - 1
    /\ mutex' = v
    /\ target' = [target EXCEPT ![v] = IF isInitialized = 1 THEN None ELSE v]
    /\ called' = [called EXCEPT ![v] = Unfinished(IF isInitialized = 1 THEN None ELSE v)]
    /\ Goto(v, "queue")
    /\ UNCHANGED <<queueVars, workerVars, taskVars>>

TerminateQueued(v) ==
    /\ vm[v] = "queue"
    /\ terminated' = terminated \cup {k \in Elements(tasks) : Matches(target[v], k)}
    /\ Goto(v, "running")
    /\ UNCHANGED <<poolVars, callVars, queueVars, workerVars, id, type, finished>>

\* Bug: only the tasks in the queue are terminated.
BugRunningForgotten(v) ==
    /\ vm[v] = "running"
    /\ Goto(v, "returned")
    /\ UNCHANGED <<poolVars, callVars, queueVars, workerVars, taskVars>>

TerminateRunning(v) ==
    /\ vm[v] = "running"
    /\ terminated' = terminated \cup
          {k \in Tasks : (\E w \in Workers : runningTask[w] = k) /\ Matches(target[v], k)}
    /\ Goto(v, "returned")
    /\ UNCHANGED <<poolVars, callVars, queueVars, workerVars, id, type, finished>>

\* TerminateTask has returned to the VM, to Destroy, or to TerminateThread.
TerminateReturned(v) ==
    /\ vm[v] = "returned"
    /\ Goto(v, IF mutex # v THEN "live" ELSE IF target[v] = None THEN "terminate" ELSE "dead")
    /\ mutex' = IF mutex = v /\ target[v] # None THEN None ELSE mutex
    /\ target' = [target EXCEPT ![v] = None]
    /\ called' = [called EXCEPT ![v] = {}]
    /\ UNCHANGED <<isInitialized, queueVars, workerVars, taskVars>>

\* Bug: the workers that wait are not woken.
BugTerminateNoSignal(v) ==
    /\ vm[v] = "terminate"
    /\ terminate' = TRUE
    /\ Goto(v, "join")
    /\ UNCHANGED <<poolVars, callVars, tasks, workerVars, taskVars>>

\* TaskQueue::Terminate, with SignalAll.
Terminate(v) ==
    /\ vm[v] = "terminate"
    /\ terminate' = TRUE
    /\ worker' = [w \in Workers |-> IF worker[w] = "wait" THEN "pop" ELSE worker[w]]
    /\ Goto(v, "join")
    /\ UNCHANGED <<poolVars, callVars, tasks, task, runningTask, taskVars>>

\* Bug: TerminateThread does not wait for the workers.
BugNoJoin(v) ==
    /\ vm[v] = "join"
    /\ mutex' = None
    /\ Goto(v, "dead")
    /\ UNCHANGED <<isInitialized, callVars, queueVars, workerVars, taskVars>>

\* Every thread has been joined.
TerminateThreadJoined(v) ==
    /\ vm[v] = "join" /\ \A w \in Workers : worker[w] = "exited"
    /\ mutex' = None
    /\ Goto(v, "dead")
    /\ UNCHANGED <<isInitialized, callVars, queueVars, workerVars, taskVars>>

-----------------------------------------------------------------------------
(* Runner::Run                                                              *)

\* Bug: a terminated queue is left before it is empty.
BugPopTerminateFirst(w) ==
    /\ worker[w] = "pop"
    /\ \/ /\ terminate
          /\ worker' = [u \in Workers |-> IF u = w THEN "exited"
                                          ELSE IF worker[u] = "wait" THEN "pop" ELSE worker[u]]
          /\ UNCHANGED <<tasks, task>>
       \/ /\ ~terminate /\ tasks # <<>>
          /\ task' = [task EXCEPT ![w] = Head(tasks)]
          /\ tasks' = Tail(tasks)
          /\ WorkAt(w, "set")
       \/ /\ ~terminate /\ tasks = <<>>
          /\ WorkAt(w, "wait")
          /\ UNCHANGED <<tasks, task>>
    /\ UNCHANGED <<poolVars, vm, callVars, terminate, runningTask, taskVars>>

\* PopTask: a task, or the end of the thread, or wait (and come back here).
PopTask(w) ==
    /\ worker[w] = "pop"
    /\ \/ /\ tasks # <<>>
          /\ task' = [task EXCEPT ![w] = Head(tasks)]
          /\ tasks' = Tail(tasks)
          /\ WorkAt(w, "set")
       \/ /\ tasks = <<>> /\ terminate
          /\ worker' = [u \in Workers |-> IF u = w THEN "exited"
                                          ELSE IF worker[u] = "wait" THEN "pop" ELSE worker[u]]
          /\ UNCHANGED <<tasks, task>>
       \/ /\ tasks = <<>> /\ ~terminate
          /\ WorkAt(w, "wait")
          /\ UNCHANGED <<tasks, task>>
    /\ UNCHANGED <<poolVars, vm, callVars, terminate, runningTask, taskVars>>

SpuriousWakeup(w) ==
    /\ worker[w] = "wait"
    /\ WorkAt(w, "pop")
    /\ UNCHANGED <<poolVars, vm, callVars, queueVars, task, runningTask, taskVars>>

SetRunTask(w) ==
    /\ worker[w] = "set"
    /\ runningTask' = [runningTask EXCEPT ![w] = task[w]]
    /\ WorkAt(w, "run")
    /\ UNCHANGED <<poolVars, vm, callVars, queueVars, task, taskVars>>

\* Task::Run, whatever the task does.
RunTask(w) ==
    /\ worker[w] = "run"
    /\ finished' = finished \cup {task[w]}
    /\ WorkAt(w, "unset")
    /\ UNCHANGED <<poolVars, vm, callVars, queueVars, task, runningTask, id, type, terminated>>

\* Bug: the task is destroyed while runningTask_ still points to it.
BugUnsetLate(w) ==
    /\ worker[w] = "unset"
    /\ task' = [task EXCEPT ![w] = None]
    /\ WorkAt(w, "pop")
    /\ UNCHANGED <<poolVars, vm, callVars, queueVars, runningTask, taskVars>>

\* SetRunTask(nullptr); the task is destroyed with the next turn of the loop.
UnsetRunTask(w) ==
    /\ worker[w] = "unset"
    /\ runningTask' = [runningTask EXCEPT ![w] = None]
    /\ task' = [task EXCEPT ![w] = None]
    /\ WorkAt(w, "pop")
    /\ UNCHANGED <<poolVars, vm, callVars, queueVars, taskVars>>

-----------------------------------------------------------------------------

\* Every VM has left the pool.
Finished ==
    /\ \A v \in VMs : vm[v] = "dead"
    /\ UNCHANGED vars

VMStep(v) ==
    \/ TerminateQueued(v) \/ TerminateRunning(v) \/ TerminateReturned(v)
    \/ Terminate(v) \/ TerminateThreadJoined(v)

WorkerStep(w) == PopTask(w) \/ SetRunTask(w) \/ RunTask(w) \/ UnsetRunTask(w)

Next ==
    \/ \E v \in VMs : \/ Initialize(v) \/ TerminateTask(v) \/ Destroy(v) \/ VMStep(v)
                      \/ \E k \in Tasks : PostTask(v, k)
    \/ \E w \in Workers : WorkerStep(w) \/ SpuriousWakeup(w)
    \/ Finished

Spec == Init /\ [][Next]_vars

\* The threads are scheduled and every task's Run returns.
Fairness ==
    /\ \A v \in VMs : WF_vars(VMStep(v))
    /\ \A w \in Workers : WF_vars(WorkerStep(w))

FairSpec == Spec /\ Fairness

-----------------------------------------------------------------------------
(* Properties                                                               *)

Queued  == Elements(tasks)
Popped  == {task[w] : w \in Workers} \ {None}
Posted  == {k \in Tasks : id[k] # None}

\* A posted task waits, is in the hands of exactly one worker, or has been run, and is
\* never dropped with a queue that is replaced (PopTask empties the queue before it ends).
NoTaskLost ==
    /\ Posted = Queued \cup Popped \cup finished
    /\ \A i, j \in 1..Len(tasks) : tasks[i] = tasks[j] => i = j
    /\ Queued \cap (Popped \cup finished) = {}
    /\ \A w, u \in Workers : task[w] = task[u] /\ task[w] # None => w = u

\* PostTask's ASSERT(!terminate_): a VM between Initialize and Destroy has a running pool.
LivePool ==
    \A v \in VMs : vm[v] = "live" =>
       /\ ~terminate /\ isInitialized > 0
       /\ \A w \in Workers : worker[w] \notin {"none", "exited"}

\* A Runner is replaced only when all its threads are gone and its queue is empty.
JoinedBeforeReuse ==
    isInitialized = 0 /\ mutex = None =>
       tasks = <<>> /\ \A w \in Workers : worker[w] \in {"none", "exited"}

\* runningTask_ never points to a task that its worker no longer owns: TerminateTask and
\* ForEachTask dereference it.
RunningIsOwned ==
    \A w \in Workers : runningTask[w] # None => runningTask[w] = task[w]

\* Every task that is posted is run: no wakeup is lost (PostTask's Signal, PopTask's Wait).
TaskRuns(k) == id[k] # None ~> k \in finished

\* Destroy returns: TerminateThread's join does not wait for ever.
DestroyReturns(v) == vm[v] \in {"queue", "terminate", "join"} ~> vm[v] \in {"live", "dead"}

\* Popped and not yet in runningTask_: in neither of the two places where TerminateTask looks.
BetweenPopAndSet == {task[w] : w \in {u \in Workers : worker[u] = "set"}}

\* When TerminateTask has looked in both places, the tasks it is about are terminated or
\* finished, but for those that a worker has popped and not yet put in runningTask_: what
\* was in the queue first, and what was in runningTask_ then, has not escaped.
OnlyPoppedEscapes ==
    [][\A v \in VMs : vm[v] = "running" /\ vm'[v] = "returned" =>
          called[v] \subseteq terminated' \cup finished \cup BetweenPopAndSet]_vars
=============================================================================
