--------------------------- MODULE TaskPoolProofs ---------------------------
(***************************************************************************)
(* Proofs about TaskPool for any number of VMs, workers and tasks.         *)
(***************************************************************************)
EXTENDS TaskPool, TLAPS

\* What the sequence operators of the queue give.
LEMMA QueueTypes ==
    /\ <<>> \in Seq(Tasks)
    /\ \A s \in Seq(Tasks) : /\ \A k \in Tasks : Append(s, k) \in Seq(Tasks)
                             /\ Elements(s) \in SUBSET Tasks
                             /\ s # <<>> => Head(s) \in Tasks /\ Tail(s) \in Seq(Tasks)
BY DEF Elements

\* A worker has a task from PopTask to the end of its turn of the loop.
Holds == \A w \in Workers : worker[w] \in {"set", "run", "unset"} <=> task[w] # None

\* Every variable keeps its type.
THEOREM TypeCorrect == Spec => [](TypeOK /\ Holds)
<1> USE TaskPoolAssumption DEF TypeOK, Ids, Holds
<1>1. Init => TypeOK /\ Holds
  <2> SUFFICES ASSUME Init PROVE TypeOK /\ Holds
    OBVIOUS
  <2>1. tasks \in Seq(Tasks)
    BY QueueTypes DEF Init
  <2>2. /\ vm \in [VMs -> {"new", "live", "queue", "running", "returned", "terminate", "join", "dead"}]
        /\ worker \in [Workers -> {"none", "pop", "wait", "set", "run", "unset", "exited"}]
    BY DEF Init
  <2>3. /\ target \in [VMs -> Ids \cup {None}] /\ called \in [VMs -> SUBSET Tasks]
        /\ task \in [Workers -> Tasks \cup {None}] /\ runningTask \in [Workers -> Tasks \cup {None}]
        /\ id \in [Tasks -> Ids \cup {None}] /\ type \in [Tasks -> TaskTypes]
    BY DEF Init, TaskTypes
  <2>4. QED
    BY <2>1, <2>2, <2>3 DEF Init
<1>2. TypeOK /\ Holds /\ [Next]_vars => (TypeOK /\ Holds)'
  <2> SUFFICES ASSUME TypeOK, Holds, [Next]_vars PROVE (TypeOK /\ Holds)'
    OBVIOUS
  <2> USE DEF Goto, WorkAt, vars, poolVars, callVars, queueVars, workerVars, taskVars
  <2>1. ASSUME NEW v \in VMs, Initialize(v) PROVE (TypeOK /\ Holds)'
    <3>1. tasks' \in Seq(Tasks)
      BY <2>1, QueueTypes DEF Initialize
    <3>2. CASE isInitialized = 0
      <4>1. /\ worker' \in [Workers -> {"none", "pop", "wait", "set", "run", "unset", "exited"}]
            /\ task' \in [Workers -> Tasks \cup {None}] /\ runningTask' \in [Workers -> Tasks \cup {None}]
            /\ Holds'
        BY <2>1, <3>2 DEF Initialize
      <4>2. /\ isInitialized' = isInitialized + 1 /\ terminate' = FALSE
            /\ vm' = [vm EXCEPT ![v] = "live"] /\ UNCHANGED <<mutex, callVars, taskVars>>
        BY <2>1, <3>2 DEF Initialize
      <4>3. vm' \in [VMs -> {"new", "live", "queue", "running", "returned", "terminate", "join", "dead"}]
        BY <4>2
      <4>4. isInitialized' \in Nat /\ mutex' \in VMs \cup {None}
        BY <4>2
      <4>5. /\ target' \in [VMs -> Ids \cup {None}] /\ called' \in [VMs -> SUBSET Tasks]
            /\ id' \in [Tasks -> Ids \cup {None}] /\ type' \in [Tasks -> TaskTypes]
            /\ terminate' \in BOOLEAN
            /\ terminated' \in SUBSET Tasks /\ finished' \in SUBSET Tasks
        BY <4>2
      <4>6. QED
        BY <3>1, <4>1, <4>3, <4>4, <4>5
    <3>3. CASE isInitialized # 0
      BY <2>1, <3>1, <3>3 DEF Initialize
    <3>4. QED
      BY <3>2, <3>3
  <2>2. ASSUME NEW v \in VMs, TerminateTask(v) PROVE (TypeOK /\ Holds)'
    BY <2>2 DEF TerminateTask, Unfinished
  <2>3. ASSUME NEW v \in VMs, Destroy(v) PROVE (TypeOK /\ Holds)'
    BY <2>3 DEF Destroy, Unfinished
  <2>4. ASSUME NEW v \in VMs, TerminateQueued(v) PROVE (TypeOK /\ Holds)'
    <3>1. Elements(tasks) \in SUBSET Tasks
      BY QueueTypes
    <3>2. QED
      BY <2>4, <3>1 DEF TerminateQueued
  <2>5. ASSUME NEW v \in VMs, TerminateRunning(v) PROVE (TypeOK /\ Holds)'
    BY <2>5 DEF TerminateRunning, Matches
  <2>6. ASSUME NEW v \in VMs, TerminateReturned(v) PROVE (TypeOK /\ Holds)'
    BY <2>6 DEF TerminateReturned
  <2>7. ASSUME NEW v \in VMs, Terminate(v) PROVE (TypeOK /\ Holds)'
    BY <2>7 DEF Terminate
  <2>8. ASSUME NEW v \in VMs, TerminateThreadJoined(v) PROVE (TypeOK /\ Holds)'
    BY <2>8 DEF TerminateThreadJoined
  <2>9. ASSUME NEW v \in VMs, NEW k \in Tasks, PostTask(v, k) PROVE (TypeOK /\ Holds)'
    <3>1. tasks' \in Seq(Tasks)
      BY <2>9, QueueTypes DEF PostTask
    <3>2. id' \in [Tasks -> Ids \cup {None}] /\ type' \in [Tasks -> TaskTypes]
      <4>1. NewTask(v, k)
        BY <2>9 DEF PostTask
      <4>2. CASE id' = [id EXCEPT ![k] = v] /\ UNCHANGED type
        BY <4>2
      <4>3. ASSUME NEW t \in TaskTypes, id' = [id EXCEPT ![k] = Global], type' = [type EXCEPT ![k] = t]
            PROVE  id' \in [Tasks -> Ids \cup {None}] /\ type' \in [Tasks -> TaskTypes]
        BY <4>3
      <4>4. QED
        BY <4>1, <4>2, <4>3 DEF NewTask
    <3>3. CASE UNCHANGED worker
      BY <2>9, <3>1, <3>2, <3>3 DEF PostTask
    <3>4. ASSUME NEW w \in Waiting, WorkAt(w, "pop") PROVE (TypeOK /\ Holds)'
      BY <2>9, <3>1, <3>2, <3>4 DEF PostTask, Waiting
    <3>5. QED
      BY <2>9, <3>3, <3>4 DEF PostTask
  <2>10. ASSUME NEW w \in Workers, PopTask(w) PROVE (TypeOK /\ Holds)'
    <3>1. CASE tasks # <<>>
      <4>1. Head(tasks) \in Tasks /\ Tail(tasks) \in Seq(Tasks)
        BY <3>1, QueueTypes
      <4>2. tasks' \in Seq(Tasks)
        BY <2>10, <3>1, <4>1 DEF PopTask
      <4>3. /\ task' = [task EXCEPT ![w] = Head(tasks)]
            /\ worker' = [worker EXCEPT ![w] = "set"]
        BY <2>10, <3>1 DEF PopTask
      <4>4. Holds'
        BY <4>1, <4>3
      <4>5. UNCHANGED <<poolVars, vm, callVars, terminate, runningTask, taskVars>>
        BY <2>10 DEF PopTask
      <4>6. QED
        BY <4>1, <4>2, <4>3, <4>4, <4>5
    <3>2. CASE tasks = <<>> /\ terminate
      <4>1. worker' \in [Workers -> {"none", "pop", "wait", "set", "run", "unset", "exited"}] /\ Holds'
        BY <2>10, <3>2 DEF PopTask
      <4>2. QED
        BY <2>10, <3>2, <4>1 DEF PopTask
    <3>3. CASE tasks = <<>> /\ ~terminate
      BY <2>10, <3>3 DEF PopTask
    <3>4. QED
      BY <3>1, <3>2, <3>3
  <2>11. ASSUME NEW w \in Workers, SetRunTask(w) PROVE (TypeOK /\ Holds)'
    BY <2>11 DEF SetRunTask
  <2>12. ASSUME NEW w \in Workers, RunTask(w) PROVE (TypeOK /\ Holds)'
    BY <2>12 DEF RunTask
  <2>13. ASSUME NEW w \in Workers, UnsetRunTask(w) PROVE (TypeOK /\ Holds)'
    BY <2>13 DEF UnsetRunTask
  <2>14. ASSUME NEW w \in Workers, SpuriousWakeup(w) PROVE (TypeOK /\ Holds)'
    BY <2>14 DEF SpuriousWakeup
  <2>15. CASE Finished
    BY <2>15 DEF Finished
  <2>16. CASE UNCHANGED vars
    BY <2>16 DEF vars
  <2>17. QED
    BY <2>1, <2>2, <2>3, <2>4, <2>5, <2>6, <2>7, <2>8, <2>9, <2>10, <2>11, <2>12,
       <2>13, <2>14, <2>15, <2>16
       DEF Next, VMStep, WorkerStep
<1>3. QED
  BY <1>1, <1>2, PTL DEF Spec

\* runningTask_ has the task of a worker from SetRunTask to SetRunTask(nullptr).
RunsItsTask ==
    \A w \in Workers : runningTask[w] = IF worker[w] \in {"run", "unset"} THEN task[w] ELSE None

\* SetRunTask and SetRunTask(nullptr) keep runningTask_ so.
THEOREM RunsItsTaskInvariant == Spec => []RunsItsTask
<1>1. Init => RunsItsTask
  BY DEF Init, RunsItsTask
<1>2. TypeOK /\ RunsItsTask /\ [Next]_vars => RunsItsTask'
  <2> SUFFICES ASSUME TypeOK, RunsItsTask, [Next]_vars PROVE RunsItsTask'
    OBVIOUS
  <2> USE DEF RunsItsTask, TypeOK, Goto, WorkAt, vars, poolVars, callVars, queueVars, workerVars, taskVars
  <2>1. ASSUME NEW v \in VMs, Initialize(v) PROVE RunsItsTask'
    BY <2>1 DEF Initialize
  <2>2. ASSUME NEW v \in VMs, TerminateTask(v) PROVE RunsItsTask'
    BY <2>2 DEF TerminateTask, Unfinished
  <2>3. ASSUME NEW v \in VMs, Destroy(v) PROVE RunsItsTask'
    BY <2>3 DEF Destroy, Unfinished
  <2>4. ASSUME NEW v \in VMs, TerminateQueued(v) PROVE RunsItsTask'
    BY <2>4 DEF TerminateQueued, Elements
  <2>5. ASSUME NEW v \in VMs, TerminateRunning(v) PROVE RunsItsTask'
    BY <2>5 DEF TerminateRunning
  <2>6. ASSUME NEW v \in VMs, TerminateReturned(v) PROVE RunsItsTask'
    BY <2>6 DEF TerminateReturned
  <2>7. ASSUME NEW v \in VMs, Terminate(v) PROVE RunsItsTask'
    BY <2>7 DEF Terminate
  <2>8. ASSUME NEW v \in VMs, TerminateThreadJoined(v) PROVE RunsItsTask'
    BY <2>8 DEF TerminateThreadJoined
  <2>9. ASSUME NEW v \in VMs, NEW k \in Tasks, PostTask(v, k) PROVE RunsItsTask'
    BY <2>9 DEF PostTask, Waiting
  <2>10. ASSUME NEW w \in Workers, PopTask(w) PROVE RunsItsTask'
    BY <2>10 DEF PopTask
  <2>11. ASSUME NEW w \in Workers, SetRunTask(w) PROVE RunsItsTask'
    BY <2>11 DEF SetRunTask
  <2>12. ASSUME NEW w \in Workers, RunTask(w) PROVE RunsItsTask'
    BY <2>12 DEF RunTask
  <2>13. ASSUME NEW w \in Workers, UnsetRunTask(w) PROVE RunsItsTask'
    BY <2>13 DEF UnsetRunTask
  <2>14. ASSUME NEW w \in Workers, SpuriousWakeup(w) PROVE RunsItsTask'
    BY <2>14 DEF SpuriousWakeup
  <2>15. CASE Finished
    BY <2>15 DEF Finished
  <2>16. CASE UNCHANGED vars
    BY <2>16 DEF vars
  <2>17. QED
    BY <2>1, <2>2, <2>3, <2>4, <2>5, <2>6, <2>7, <2>8, <2>9, <2>10, <2>11, <2>12,
       <2>13, <2>14, <2>15, <2>16
       DEF Next, VMStep, WorkerStep
<1>3. QED
  BY <1>1, <1>2, TypeCorrect, PTL DEF Spec

\* A worker's entry of runningTask_ is empty, or the task that the worker owns.
THEOREM RunningTasksAreOwned == Spec => []RunningIsOwned
<1>1. RunsItsTask => RunningIsOwned
  BY DEF RunsItsTask, RunningIsOwned
<1>2. QED
  BY <1>1, RunsItsTaskInvariant, PTL

-----------------------------------------------------------------------------
(* The life of the pool                                                     *)

\* What holds of the runner while the pool is up, is going down, and is down.
PoolInv ==
    /\ \A v \in VMs : mutex = v => vm[v] \in {"queue", "running", "returned", "terminate", "join"}
    /\ \A v \in VMs : vm[v] \in {"terminate", "join"} => mutex = v /\ isInitialized = 0
    /\ \A v \in VMs : mutex = v => (target[v] = None <=> isInitialized = 0)
    /\ terminate => isInitialized = 0
    /\ \A w \in Workers : worker[w] = "exited" => terminate /\ tasks = <<>>
    /\ \A w \in Workers : worker[w] = "none" => isInitialized = 0 /\ tasks = <<>>
    /\ isInitialized = 0 /\ mutex = None
          => tasks = <<>> /\ \A w \in Workers : worker[w] \in {"none", "exited"}

\* The queue is terminated, and the workers leave it, only when no VM is counted; the pool
\* is down only when they have left.
THEOREM PoolInvariant == Spec => []PoolInv
<1> USE TaskPoolAssumption DEF PoolInv
<1>1. Init => PoolInv
  BY DEF Init
<1>2. TypeOK /\ PoolInv /\ [Next]_vars => PoolInv'
  <2> SUFFICES ASSUME TypeOK, PoolInv, [Next]_vars PROVE PoolInv'
    OBVIOUS
  <2> USE DEF TypeOK, Goto, WorkAt, vars, poolVars, callVars, queueVars, workerVars, taskVars
  <2>1. ASSUME NEW v \in VMs, Initialize(v) PROVE PoolInv'
    BY <2>1 DEF Initialize
  <2>2. ASSUME NEW v \in VMs, TerminateTask(v) PROVE PoolInv'
    BY <2>2 DEF TerminateTask, Unfinished
  <2>3. ASSUME NEW v \in VMs, Destroy(v) PROVE PoolInv'
    BY <2>3 DEF Destroy, Unfinished
  <2>4. ASSUME NEW v \in VMs, TerminateQueued(v) PROVE PoolInv'
    BY <2>4 DEF TerminateQueued, Elements
  <2>5. ASSUME NEW v \in VMs, TerminateRunning(v) PROVE PoolInv'
    BY <2>5 DEF TerminateRunning
  <2>6. ASSUME NEW v \in VMs, TerminateReturned(v) PROVE PoolInv'
    BY <2>6 DEF TerminateReturned
  <2>7. ASSUME NEW v \in VMs, Terminate(v) PROVE PoolInv'
    BY <2>7 DEF Terminate
  <2>8. ASSUME NEW v \in VMs, TerminateThreadJoined(v) PROVE PoolInv'
    BY <2>8 DEF TerminateThreadJoined
  <2>9. ASSUME NEW v \in VMs, NEW k \in Tasks, PostTask(v, k) PROVE PoolInv'
    BY <2>9 DEF PostTask, Waiting
  <2>10. ASSUME NEW w \in Workers, PopTask(w) PROVE PoolInv'
    BY <2>10 DEF PopTask
  <2>11. ASSUME NEW w \in Workers, SetRunTask(w) PROVE PoolInv'
    BY <2>11 DEF SetRunTask
  <2>12. ASSUME NEW w \in Workers, RunTask(w) PROVE PoolInv'
    BY <2>12 DEF RunTask
  <2>13. ASSUME NEW w \in Workers, UnsetRunTask(w) PROVE PoolInv'
    BY <2>13 DEF UnsetRunTask
  <2>14. ASSUME NEW w \in Workers, SpuriousWakeup(w) PROVE PoolInv'
    BY <2>14 DEF SpuriousWakeup
  <2>15. CASE Finished
    BY <2>15 DEF Finished
  <2>16. CASE UNCHANGED vars
    BY <2>16 DEF vars
  <2>17. QED
    BY <2>1, <2>2, <2>3, <2>4, <2>5, <2>6, <2>7, <2>8, <2>9, <2>10, <2>11, <2>12,
       <2>13, <2>14, <2>15, <2>16
       DEF Next, VMStep, WorkerStep
<1>3. QED
  BY <1>1, <1>2, TypeCorrect, PTL DEF Spec

\* When the pool is down, so that the next Initialize replaces the runner, its queue is
\* empty and all its threads have ended.
THEOREM JoinsBeforeReuse == Spec => []JoinedBeforeReuse
<1>1. PoolInv => JoinedBeforeReuse
  BY DEF PoolInv, JoinedBeforeReuse
<1>2. QED
  BY <1>1, PoolInvariant, PTL

-----------------------------------------------------------------------------
(* No task is lost                                                          *)

Distinct(s) == \A i, j \in 1..Len(s) : s[i] = s[j] => i = j

\* What pushing a new task does to the queue's elements.
LEMMA AppendElements ==
    ASSUME NEW s \in Seq(Tasks), NEW k \in Tasks, k \notin Elements(s), Distinct(s)
    PROVE  Elements(Append(s, k)) = Elements(s) \cup {k} /\ Distinct(Append(s, k))
<1> DEFINE t == Append(s, k)
<1>1. Len(t) = Len(s) + 1 /\ Len(s) \in Nat
  OBVIOUS
<1>2. \A i \in 1..Len(t) : t[i] = IF i <= Len(s) THEN s[i] ELSE k
  OBVIOUS
<1>3. Elements(t) = Elements(s) \cup {k}
  <2>1. ASSUME NEW x \in Elements(t) PROVE x \in Elements(s) \cup {k}
    BY <1>1, <1>2 DEF Elements
  <2>2. ASSUME NEW x \in Elements(s) PROVE x \in Elements(t)
    <3>1. PICK i \in 1..Len(s) : x = s[i]
      BY DEF Elements
    <3>2. i \in 1..Len(t) /\ t[i] = x
      BY <1>1, <1>2, <3>1
    <3>3. QED
      BY <3>2 DEF Elements
  <2>3. k \in Elements(t)
    <3>1. Len(t) \in 1..Len(t) /\ t[Len(t)] = k
      BY <1>1, <1>2
    <3>2. QED
      BY <3>1 DEF Elements
  <2>4. QED
    BY <2>1, <2>2, <2>3
<1>4. Distinct(t)
  <2> SUFFICES ASSUME NEW i \in 1..Len(t), NEW j \in 1..Len(t), t[i] = t[j] PROVE i = j
    BY DEF Distinct
  <2>1. \A m \in 1..Len(s) : s[m] # k
    BY DEF Elements
  <2>2. QED
    BY <1>1, <1>2, <2>1 DEF Distinct
<1>5. QED
  BY <1>3, <1>4

\* What popping does to the queue's elements.
LEMMA TailElements ==
    ASSUME NEW s \in Seq(Tasks), s # <<>>, Distinct(s)
    PROVE  /\ Elements(s) = {Head(s)} \cup Elements(Tail(s))
           /\ Head(s) \notin Elements(Tail(s)) /\ Distinct(Tail(s))
<1> DEFINE t == Tail(s)
<1>1. Len(s) \in Nat \ {0} /\ Len(t) = Len(s) - 1 /\ Head(s) = s[1]
  OBVIOUS
<1>2. \A i \in 1..Len(t) : t[i] = s[i + 1]
  OBVIOUS
<1>3. \A i \in 1..Len(t) : i + 1 \in 1..Len(s) /\ i + 1 # 1
  BY <1>1
<1>4. ASSUME NEW x \in Elements(s) PROVE x \in {Head(s)} \cup Elements(t)
  <2>1. PICK i \in 1..Len(s) : x = s[i]
    BY DEF Elements
  <2>2. CASE i = 1
    BY <1>1, <2>1, <2>2
  <2>3. CASE i # 1
    <3>1. i - 1 \in 1..Len(t) /\ t[i - 1] = x
      BY <1>1, <1>2, <2>1, <2>3
    <3>2. QED
      BY <3>1 DEF Elements
  <2>4. QED
    BY <2>2, <2>3
<1>5. Elements(t) \subseteq Elements(s)
  BY <1>2, <1>3 DEF Elements
<1>6. Head(s) \in Elements(s)
  <2>1. 1 \in 1..Len(s) /\ s[1] = Head(s)
    BY <1>1
  <2>2. QED
    BY <2>1 DEF Elements
<1>7. Head(s) \notin Elements(t)
  <2> SUFFICES ASSUME NEW i \in 1..Len(t), t[i] = Head(s) PROVE FALSE
    BY DEF Elements
  <2>1. i + 1 \in 1..Len(s) /\ 1 \in 1..Len(s) /\ s[i + 1] = s[1] /\ i + 1 # 1
    BY <1>1, <1>2, <1>3
  <2>2. QED
    BY <2>1 DEF Distinct
<1>8. Distinct(t)
  <2> SUFFICES ASSUME NEW i \in 1..Len(t), NEW j \in 1..Len(t), t[i] = t[j] PROVE i = j
    BY DEF Distinct
  <2>1. i + 1 = j + 1
    BY <1>2, <1>3 DEF Distinct
  <2>2. QED
    BY <2>1
<1>9. QED
  BY <1>4, <1>5, <1>6, <1>7, <1>8

\* A worker that has left Task::Run holds a task that has been run.
Ran == \A w \in Workers : worker[w] = "unset" => task[w] \in finished

\* UnsetRunTask drops only tasks that have been run.
THEOREM RanInvariant == Spec => []Ran
<1> USE DEF Ran
<1>1. Init => Ran
  BY DEF Init
<1>2. TypeOK /\ Ran /\ [Next]_vars => Ran'
  <2> SUFFICES ASSUME TypeOK, Ran, [Next]_vars PROVE Ran'
    OBVIOUS
  <2> USE DEF TypeOK, Goto, WorkAt, vars, poolVars, callVars, queueVars, workerVars, taskVars
  <2>1. ASSUME NEW v \in VMs, Initialize(v) PROVE Ran'
    BY <2>1 DEF Initialize
  <2>2. ASSUME NEW v \in VMs, TerminateTask(v) PROVE Ran'
    BY <2>2 DEF TerminateTask, Unfinished
  <2>3. ASSUME NEW v \in VMs, Destroy(v) PROVE Ran'
    BY <2>3 DEF Destroy, Unfinished
  <2>4. ASSUME NEW v \in VMs, TerminateQueued(v) PROVE Ran'
    BY <2>4 DEF TerminateQueued, Elements
  <2>5. ASSUME NEW v \in VMs, TerminateRunning(v) PROVE Ran'
    BY <2>5 DEF TerminateRunning
  <2>6. ASSUME NEW v \in VMs, TerminateReturned(v) PROVE Ran'
    BY <2>6 DEF TerminateReturned
  <2>7. ASSUME NEW v \in VMs, Terminate(v) PROVE Ran'
    BY <2>7 DEF Terminate
  <2>8. ASSUME NEW v \in VMs, TerminateThreadJoined(v) PROVE Ran'
    BY <2>8 DEF TerminateThreadJoined
  <2>9. ASSUME NEW v \in VMs, NEW k \in Tasks, PostTask(v, k) PROVE Ran'
    BY <2>9 DEF PostTask, Waiting
  <2>10. ASSUME NEW w \in Workers, PopTask(w) PROVE Ran'
    BY <2>10 DEF PopTask
  <2>11. ASSUME NEW w \in Workers, SetRunTask(w) PROVE Ran'
    BY <2>11 DEF SetRunTask
  <2>12. ASSUME NEW w \in Workers, RunTask(w) PROVE Ran'
    BY <2>12 DEF RunTask
  <2>13. ASSUME NEW w \in Workers, UnsetRunTask(w) PROVE Ran'
    BY <2>13 DEF UnsetRunTask
  <2>14. ASSUME NEW w \in Workers, SpuriousWakeup(w) PROVE Ran'
    BY <2>14 DEF SpuriousWakeup
  <2>15. CASE Finished
    BY <2>15 DEF Finished
  <2>16. CASE UNCHANGED vars
    BY <2>16 DEF vars
  <2>17. QED
    BY <2>1, <2>2, <2>3, <2>4, <2>5, <2>6, <2>7, <2>8, <2>9, <2>10, <2>11, <2>12,
       <2>13, <2>14, <2>15, <2>16
       DEF Next, VMStep, WorkerStep
<1>3. QED
  BY <1>1, <1>2, TypeCorrect, PTL DEF Spec

\* A posted task waits in the queue, is held by exactly one worker, or has been run: none
\* is dropped when the pool goes down and comes up again, and none is run twice.
THEOREM TasksAreKept == Spec => []NoTaskLost
<1> USE TaskPoolAssumption DEF NoTaskLost, Posted, Queued, Popped
<1>1. Init => NoTaskLost
  BY DEF Init, Elements
<1>2. TypeOK /\ Holds /\ Ran /\ PoolInv /\ NoTaskLost /\ [Next]_vars => NoTaskLost'
  <2> SUFFICES ASSUME TypeOK, Holds, Ran, PoolInv, NoTaskLost, [Next]_vars PROVE NoTaskLost'
    OBVIOUS
  <2>0. Distinct(tasks)
    BY DEF Distinct
  <2> USE DEF TypeOK, Ids, Goto, WorkAt, vars, poolVars, callVars, queueVars, workerVars, taskVars
  <2>1. ASSUME NEW v \in VMs, Initialize(v) PROVE NoTaskLost'
    <3>1. CASE isInitialized = 0
      <4>1. tasks = <<>> /\ \A w \in Workers : task[w] = None
        BY <2>1, <3>1 DEF Initialize, PoolInv, Holds
      <4>2. tasks' = tasks /\ (\A w \in Workers : task'[w] = None) /\ UNCHANGED taskVars
        BY <2>1, <3>1, <4>1 DEF Initialize
      <4>3. Posted' = Posted /\ Popped' = Popped /\ Queued' = Queued /\ finished' = finished
        BY <4>1, <4>2
      <4>4. QED
        BY <4>2, <4>3
    <3>2. CASE isInitialized # 0
      BY <2>1, <3>2 DEF Initialize
    <3>3. QED
      BY <3>1, <3>2
  <2>2. ASSUME NEW v \in VMs, TerminateTask(v) PROVE NoTaskLost'
    BY <2>2 DEF TerminateTask, Unfinished
  <2>3. ASSUME NEW v \in VMs, Destroy(v) PROVE NoTaskLost'
    BY <2>3 DEF Destroy, Unfinished
  <2>4. ASSUME NEW v \in VMs, TerminateQueued(v) PROVE NoTaskLost'
    BY <2>4 DEF TerminateQueued, Matches
  <2>5. ASSUME NEW v \in VMs, TerminateRunning(v) PROVE NoTaskLost'
    BY <2>5 DEF TerminateRunning
  <2>6. ASSUME NEW v \in VMs, TerminateReturned(v) PROVE NoTaskLost'
    BY <2>6 DEF TerminateReturned
  <2>7. ASSUME NEW v \in VMs, Terminate(v) PROVE NoTaskLost'
    BY <2>7 DEF Terminate
  <2>8. ASSUME NEW v \in VMs, TerminateThreadJoined(v) PROVE NoTaskLost'
    BY <2>8 DEF TerminateThreadJoined
  <2>9. ASSUME NEW v \in VMs, NEW k \in Tasks, PostTask(v, k) PROVE NoTaskLost'
    <3>1. k \notin Posted /\ Posted' = Posted \cup {k}
      BY <2>9, TaskPoolAssumption DEF PostTask, NewTask, Posted, Ids, TypeOK
    <3>2. k \notin Queued
      BY <3>1
    <3>3. Queued' = Queued \cup {k} /\ Distinct(tasks')
      BY <2>9, <2>0, <3>2, AppendElements DEF PostTask
    <3>4. Popped' = Popped /\ finished' = finished /\ task' = task
      BY <2>9 DEF PostTask
    <3>5. QED
      BY <3>1, <3>3, <3>4 DEF Distinct
  <2>10. ASSUME NEW w \in Workers, PopTask(w) PROVE NoTaskLost'
    <3>1. CASE tasks # <<>>
      <4>1. /\ Queued = {Head(tasks)} \cup Queued' /\ Head(tasks) \notin Queued' /\ Distinct(tasks')
            /\ Head(tasks) \in Tasks
        <5>1. tasks' = Tail(tasks) /\ Head(tasks) \in Tasks
          BY <2>10, <3>1, QueueTypes DEF PopTask
        <5>2. tasks \in Seq(Tasks)
          OBVIOUS
        <5>3. QED
          BY <2>0, <3>1, <5>1, <5>2, TailElements
      <4>2. task[w] = None /\ task' = [task EXCEPT ![w] = Head(tasks)] /\ UNCHANGED <<id, finished>>
        BY <2>10, <3>1 DEF PopTask, Holds
      <4>3. Popped' = Popped \cup {Head(tasks)} /\ Posted' = Posted
        BY <4>1, <4>2
      <4>4. Head(tasks) \notin Popped \cup finished
        BY <4>1
      <4>5. \A u, x \in Workers : task'[u] = task'[x] /\ task'[u] # None => u = x
        BY <4>2, <4>4
      <4>6. QED
        BY <4>1, <4>2, <4>3, <4>4, <4>5 DEF Distinct
    <3>2. CASE tasks = <<>>
      BY <2>10, <3>2 DEF PopTask
    <3>3. QED
      BY <3>1, <3>2
  <2>11. ASSUME NEW w \in Workers, SetRunTask(w) PROVE NoTaskLost'
    BY <2>11 DEF SetRunTask
  <2>12. ASSUME NEW w \in Workers, RunTask(w) PROVE NoTaskLost'
    <3>1. task[w] \in Popped /\ finished' = finished \cup {task[w]}
      BY <2>12 DEF RunTask, Holds
    <3>2. UNCHANGED <<tasks, task, id>>
      BY <2>12 DEF RunTask
    <3>3. Posted' = Posted /\ Popped' = Popped /\ Queued' = Queued
      BY <3>2
    <3>4. QED
      BY <3>1, <3>2, <3>3
  <2>13. ASSUME NEW w \in Workers, UnsetRunTask(w) PROVE NoTaskLost'
    <3>1. task[w] \in finished /\ task' = [task EXCEPT ![w] = None] /\ UNCHANGED <<tasks, id, finished>>
      BY <2>13 DEF UnsetRunTask, Ran
    <3>2. Popped' \subseteq Popped /\ Popped \subseteq Popped' \cup {task[w]}
      BY <3>1
    <3>3. Posted' = Posted /\ Queued' = Queued
      BY <3>1
    <3>4. \A u, x \in Workers : task'[u] = task'[x] /\ task'[u] # None => u = x
      BY <3>1
    <3>5. QED
      BY <3>1, <3>2, <3>3, <3>4
  <2>14. ASSUME NEW w \in Workers, SpuriousWakeup(w) PROVE NoTaskLost'
    BY <2>14 DEF SpuriousWakeup
  <2>15. CASE Finished
    BY <2>15 DEF Finished
  <2>16. CASE UNCHANGED vars
    BY <2>16 DEF vars
  <2>17. QED
    BY <2>1, <2>2, <2>3, <2>4, <2>5, <2>6, <2>7, <2>8, <2>9, <2>10, <2>11, <2>12,
       <2>13, <2>14, <2>15, <2>16
       DEF Next, VMStep, WorkerStep
<1>3. QED
  BY <1>1, <1>2, TypeCorrect, RanInvariant, PoolInvariant, PTL DEF Spec

-----------------------------------------------------------------------------
(* What TerminateTask misses                                               *)

\* What TerminateTask of v knows of the tasks it was called for: they carry an id that it
\* terminates and, once it has been through the queue, the ones it missed are held by a
\* worker or have been run.
Escape(v) ==
    vm[v] \in {"queue", "running"} =>
       /\ \A k \in called[v] : id[k] # None /\ Matches(target[v], k)
       /\ vm[v] # "queue" => called[v] \subseteq terminated \cup finished \cup Popped

\* What no step takes back: a terminated task stays so, a held one stays held until it has
\* been run, and a posted one keeps its id and its type.
Kept ==
    /\ terminated \subseteq terminated'
    /\ Popped \cup finished \subseteq Popped' \cup finished'
    /\ \A k \in Tasks : id[k] # None => id'[k] = id[k] /\ type'[k] = type[k]

\* Every step is like that, the start of a new Runner too: the workers of the old one are gone.
LEMMA StepKeeps == ASSUME TypeOK, Holds, Ran, PoolInv, [Next]_vars PROVE Kept
<1> USE DEF TypeOK, Kept, Goto, WorkAt, vars, poolVars, callVars, queueVars, workerVars, taskVars
<1>1. ASSUME NEW v \in VMs, Initialize(v) PROVE Kept
  <2>1. UNCHANGED taskVars
    BY <1>1 DEF Initialize
  <2>2. CASE isInitialized = 0
    <3>1. \A w \in Workers : task[w] = None
      BY <1>1, <2>2 DEF Initialize, PoolInv, Holds
    <3>2. Popped = {}
      BY <3>1 DEF Popped
    <3>3. QED
      BY <2>1, <3>2
  <2>3. CASE isInitialized # 0
    BY <1>1, <2>1, <2>3 DEF Initialize, Popped
  <2>4. QED
    BY <2>2, <2>3
<1>2. ASSUME NEW v \in VMs, TerminateTask(v) \/ Destroy(v) \/ VMStep(v) PROVE Kept
  BY <1>2 DEF TerminateTask, Destroy, VMStep, TerminateQueued, TerminateRunning, TerminateReturned,
              Terminate, TerminateThreadJoined, Popped
<1>3. ASSUME NEW v \in VMs, NEW k \in Tasks, PostTask(v, k) PROVE Kept
  BY <1>3 DEF PostTask, NewTask, Popped
<1>4. ASSUME NEW w \in Workers, PopTask(w) PROVE Kept
  <2>1. task[w] = None /\ \A u \in Workers : u # w => task'[u] = task[u]
    BY <1>4 DEF PopTask, Holds
  <2>2. Popped \subseteq Popped'
    BY <2>1 DEF Popped
  <2>3. QED
    BY <1>4, <2>2 DEF PopTask
<1>5. ASSUME NEW w \in Workers, UnsetRunTask(w) PROVE Kept
  <2>1. task[w] \in finished /\ \A u \in Workers : u # w => task'[u] = task[u]
    BY <1>5 DEF UnsetRunTask, Ran
  <2>2. Popped \subseteq Popped' \cup {task[w]}
    BY <2>1 DEF Popped
  <2>3. QED
    BY <1>5, <2>1, <2>2 DEF UnsetRunTask
<1>6. ASSUME NEW w \in Workers, SetRunTask(w) \/ RunTask(w) \/ SpuriousWakeup(w) PROVE Kept
  BY <1>6 DEF SetRunTask, RunTask, SpuriousWakeup, Popped
<1>7. CASE UNCHANGED vars
  BY <1>7 DEF Popped
<1>8. QED
  BY <1>1, <1>2, <1>3, <1>4, <1>5, <1>6, <1>7 DEF Next, WorkerStep, Finished

\* So a step of others leaves what v knows.
LEMMA EscapeFrame ==
    ASSUME TypeOK, TypeOK', Kept, NEW v \in VMs, Escape(v),
           vm'[v] = vm[v] \/ vm'[v] \notin {"queue", "running"},
           target'[v] = target[v], called'[v] = called[v]
    PROVE  Escape(v)'
<1>1. called[v] \subseteq Tasks
  BY DEF TypeOK
<1>2. QED
  BY <1>1 DEF Escape, Matches, Kept

\* TerminateTask knows so at every step.
THEOREM EscapeInvariant == Spec => [](\A v \in VMs : Escape(v))
<1> DEFINE Escapes == \A v \in VMs : Escape(v)
<1>1. Init => Escapes
  BY DEF Init, Escape
<1>2. TypeOK /\ TypeOK' /\ Holds /\ Ran /\ PoolInv /\ NoTaskLost /\ Escapes /\ [Next]_vars => Escapes'
  <2> SUFFICES ASSUME TypeOK, TypeOK', Holds, Ran, PoolInv, NoTaskLost, Escapes, [Next]_vars, NEW u \in VMs
               PROVE  Escape(u)'
    OBVIOUS
  <2>0. Kept
    BY StepKeeps
  <2> USE DEF Goto, WorkAt, vars, poolVars, callVars, queueVars, workerVars, taskVars
  <2>1. CASE vm'[u] = vm[u] /\ target'[u] = target[u] /\ called'[u] = called[u]
    BY <2>0, <2>1, EscapeFrame
  <2>2. CASE \/ Initialize(u) \/ TerminateRunning(u) \/ TerminateReturned(u)
            \/ Terminate(u) \/ TerminateThreadJoined(u)
    <3>1. vm'[u] \notin {"queue", "running"}
      BY <2>2 DEF Initialize, TerminateRunning, Terminate, TerminateThreadJoined, TerminateReturned, TypeOK
    <3>2. QED
      BY <3>1 DEF Escape
  <2>3. CASE TerminateTask(u) \/ Destroy(u)
    BY <2>3, TaskPoolAssumption DEF TerminateTask, Destroy, Unfinished, TypeOK, Escape, Matches, Ids
  <2>4. CASE TerminateQueued(u)
    <3>1. /\ vm[u] = "queue" /\ vm'[u] = "running" /\ UNCHANGED <<target, called, id, type, finished, task>>
          /\ terminated' = terminated \cup {k \in Queued : Matches(target[u], k)}
      BY <2>4 DEF TerminateQueued, TypeOK, Queued
    <3>2. \A k \in called[u] : k \in Posted /\ Matches(target[u], k)
      BY <3>1 DEF Escape, Posted, TypeOK
    <3>3. called[u] \subseteq terminated' \cup finished \cup Popped
      BY <3>1, <3>2 DEF NoTaskLost
    <3>4. Popped' = Popped
      BY <3>1 DEF Popped
    <3>5. QED
      BY <3>1, <3>2, <3>3, <3>4 DEF Escape, Matches, Posted
  <2>5. \/ vm'[u] = vm[u] /\ target'[u] = target[u] /\ called'[u] = called[u]
        \/ Initialize(u) \/ TerminateTask(u) \/ Destroy(u) \/ VMStep(u)
    <3>1. ASSUME NEW v \in VMs, v # u,
                 Initialize(v) \/ TerminateTask(v) \/ Destroy(v) \/ VMStep(v)
          PROVE  vm'[u] = vm[u] /\ target'[u] = target[u] /\ called'[u] = called[u]
      BY <3>1 DEF Initialize, TerminateTask, Destroy, VMStep, TerminateQueued, TerminateRunning,
                  TerminateReturned, Terminate, TerminateThreadJoined, TypeOK
    <3>2. ASSUME NEW v \in VMs, NEW k \in Tasks, PostTask(v, k) PROVE UNCHANGED <<vm, target, called>>
      BY <3>2 DEF PostTask
    <3>3. ASSUME NEW w \in Workers, WorkerStep(w) \/ SpuriousWakeup(w) PROVE UNCHANGED <<vm, target, called>>
      BY <3>3 DEF WorkerStep, PopTask, SetRunTask, RunTask, UnsetRunTask, SpuriousWakeup
    <3>4. QED
      BY <3>1, <3>2, <3>3 DEF Next, Finished
  <2>6. QED
    BY <2>1, <2>2, <2>3, <2>4, <2>5 DEF VMStep
<1>3. QED
  BY <1>1, <1>2, TypeCorrect, RanInvariant, PoolInvariant, TasksAreKept, PTL DEF Spec

\* When TerminateTask has been through the queue and runningTask_, the tasks it was called for
\* are terminated or finished, but for those between PopTask and SetRunTask.
THEOREM PoppedEscape == Spec => OnlyPoppedEscapes
<1> DEFINE Looked == \A v \in VMs : vm[v] = "running" /\ vm'[v] = "returned" =>
                        called[v] \subseteq terminated' \cup finished \cup BetweenPopAndSet
<1>1. /\ TypeOK /\ Holds /\ Ran /\ RunsItsTask /\ [Next]_vars
      /\ \A v \in VMs : Escape(v)
      => [Looked]_vars
  <2> SUFFICES ASSUME TypeOK, Holds, Ran, RunsItsTask, [Next]_vars, \A v \in VMs : Escape(v),
                      NEW v \in VMs, vm[v] = "running", vm'[v] = "returned",
                      NEW k \in called[v], k \notin terminated', k \notin finished
               PROVE  k \in BetweenPopAndSet
    OBVIOUS
  <2>1. TerminateRunning(v)
    <3> USE DEF Goto, WorkAt, TypeOK, vars, poolVars, callVars, queueVars, workerVars, taskVars
    <3>1. ASSUME NEW u \in VMs,
                 \/ Initialize(u) \/ TerminateTask(u) \/ Destroy(u)
                 \/ VMStep(u) /\ ~TerminateRunning(u)
          PROVE  FALSE
      BY <3>1 DEF Initialize, TerminateTask, Destroy, VMStep, TerminateQueued, TerminateReturned,
                  Terminate, TerminateThreadJoined
    <3>2. ASSUME NEW u \in VMs, u # v, TerminateRunning(u) PROVE FALSE
      BY <3>2 DEF TerminateRunning
    <3>3. ASSUME NEW u \in VMs, NEW j \in Tasks, PostTask(u, j) PROVE FALSE
      BY <3>3 DEF PostTask
    <3>4. ASSUME NEW w \in Workers, WorkerStep(w) \/ SpuriousWakeup(w) PROVE FALSE
      BY <3>4 DEF WorkerStep, PopTask, SetRunTask, RunTask, UnsetRunTask, SpuriousWakeup
    <3>5. QED
      BY <3>1, <3>2, <3>3, <3>4 DEF Next, Finished
  <2>2. /\ terminated' = terminated \cup
                {j \in Tasks : (\E w \in Workers : runningTask[w] = j) /\ Matches(target[v], j)}
    BY <2>1 DEF TerminateRunning
  <2>3. k \in Tasks /\ Matches(target[v], k) /\ k \in Popped
    BY <2>2 DEF Escape, TypeOK
  <2>4. PICK w \in Workers : task[w] = k /\ k # None
    BY <2>3 DEF Popped
  <2>5. worker[w] \in {"set", "run", "unset"}
    BY <2>4 DEF Holds
  <2>6. worker[w] # "unset"
    BY <2>4 DEF Ran
  <2>7. worker[w] # "run"
    BY <2>2, <2>3, <2>4 DEF RunsItsTask
  <2>8. QED
    BY <2>4, <2>5, <2>6, <2>7 DEF BetweenPopAndSet
<1>2. QED
  BY <1>1, TypeCorrect, RanInvariant, RunsItsTaskInvariant, EscapeInvariant, PTL DEF Spec, OnlyPoppedEscapes

-----------------------------------------------------------------------------
(* The VMs that are counted                                                 *)

INSTANCE FiniteSetTheorems

\* The VMs that isInitialized_ counts.
Members == {v \in VMs : \/ vm[v] = "live"
                        \/ vm[v] \in {"queue", "running", "returned"} /\ mutex # v}

\* Members is finite, and one VM more or less changes its cardinality by one.
LEMMA MembersFinite ==
    ASSUME NEW S \in SUBSET VMs
    PROVE  /\ IsFiniteSet(S) /\ Cardinality(S) \in Nat
           /\ \A v \in S : Cardinality(S) > 0 /\ Cardinality(S \ {v}) = Cardinality(S) - 1
           /\ \A v \in VMs \ S : Cardinality(S \cup {v}) = Cardinality(S) + 1
<1>1. IsFiniteSet(S)
  BY TaskPoolAssumption, FS_Subset
<1>2. Cardinality(S) \in Nat
  BY <1>1, FS_CardinalityType
<1>3. ASSUME NEW v \in S PROVE Cardinality(S) > 0 /\ Cardinality(S \ {v}) = Cardinality(S) - 1
  <2>1. Cardinality(S \ {v}) = Cardinality(S) - 1
    BY <1>1, FS_RemoveElement
  <2>2. Cardinality(S) # 0
    BY <1>1, FS_EmptySet
  <2>3. QED
    BY <1>2, <2>1, <2>2
<1>4. ASSUME NEW v \in VMs \ S PROVE Cardinality(S \cup {v}) = Cardinality(S) + 1
  BY <1>1, FS_AddElement
<1>5. QED
  BY <1>1, <1>2, <1>3, <1>4

\* isInitialized_ counts the VMs between Initialize and Destroy.
CountInv == isInitialized = Cardinality(Members)

\* isInitialized_ is the number of VMs that have initialised the pool and not left it.
THEOREM CountInvariant == Spec => []CountInv
<1> USE TaskPoolAssumption DEF CountInv
<1>1. Init => CountInv
  <2>1. Init => Members = {}
    BY DEF Init, Members
  <2>2. QED
    BY <2>1, FS_EmptySet DEF Init
<1>2. TypeOK /\ PoolInv /\ CountInv /\ [Next]_vars => CountInv'
  <2> SUFFICES ASSUME TypeOK, PoolInv, CountInv, [Next]_vars PROVE CountInv'
    OBVIOUS
  <2> USE DEF TypeOK, Members, Goto, WorkAt, vars, poolVars, callVars, queueVars, workerVars, taskVars
  <2>1. ASSUME NEW v \in VMs, Initialize(v) PROVE CountInv'
    <3>1. v \notin Members /\ Members' = Members \cup {v}
      BY <2>1 DEF Initialize
    <3>2. Members \in SUBSET VMs
      OBVIOUS
    <3>3. QED
      BY <2>1, <3>1, <3>2, MembersFinite DEF Initialize
  <2>2. ASSUME NEW v \in VMs, TerminateTask(v) PROVE CountInv'
    <3>1. Members' = Members
      BY <2>2 DEF TerminateTask, PoolInv
    <3>2. QED
      BY <2>2, <3>1 DEF TerminateTask
  <2>3. ASSUME NEW v \in VMs, Destroy(v) PROVE CountInv'
    <3>1. v \in Members /\ Members' = Members \ {v}
      BY <2>3 DEF Destroy
    <3>2. Members \in SUBSET VMs
      OBVIOUS
    <3>3. QED
      BY <2>3, <3>1, <3>2, MembersFinite DEF Destroy
  <2>4. ASSUME NEW v \in VMs, TerminateQueued(v) PROVE CountInv'
    BY <2>4 DEF TerminateQueued, Elements
  <2>5. ASSUME NEW v \in VMs, TerminateRunning(v) PROVE CountInv'
    BY <2>5 DEF TerminateRunning
  <2>6. ASSUME NEW v \in VMs, TerminateReturned(v) PROVE CountInv'
    <3>1. Members' = Members
      BY <2>6 DEF TerminateReturned, PoolInv
    <3>2. QED
      BY <2>6, <3>1 DEF TerminateReturned
  <2>7. ASSUME NEW v \in VMs, Terminate(v) PROVE CountInv'
    BY <2>7 DEF Terminate
  <2>8. ASSUME NEW v \in VMs, TerminateThreadJoined(v) PROVE CountInv'
    <3>1. Members' = Members
      BY <2>8 DEF TerminateThreadJoined, PoolInv
    <3>2. QED
      BY <2>8, <3>1 DEF TerminateThreadJoined
  <2>9. ASSUME NEW v \in VMs, NEW k \in Tasks, PostTask(v, k) PROVE CountInv'
    BY <2>9 DEF PostTask, Waiting
  <2>10. ASSUME NEW w \in Workers, PopTask(w) PROVE CountInv'
    BY <2>10 DEF PopTask
  <2>11. ASSUME NEW w \in Workers, SetRunTask(w) PROVE CountInv'
    BY <2>11 DEF SetRunTask
  <2>12. ASSUME NEW w \in Workers, RunTask(w) PROVE CountInv'
    BY <2>12 DEF RunTask
  <2>13. ASSUME NEW w \in Workers, UnsetRunTask(w) PROVE CountInv'
    BY <2>13 DEF UnsetRunTask
  <2>14. ASSUME NEW w \in Workers, SpuriousWakeup(w) PROVE CountInv'
    BY <2>14 DEF SpuriousWakeup
  <2>15. CASE Finished
    BY <2>15 DEF Finished
  <2>16. CASE UNCHANGED vars
    BY <2>16 DEF vars
  <2>17. QED
    BY <2>1, <2>2, <2>3, <2>4, <2>5, <2>6, <2>7, <2>8, <2>9, <2>10, <2>11, <2>12,
       <2>13, <2>14, <2>15, <2>16
       DEF Next, VMStep, WorkerStep
<1>3. QED
  BY <1>1, <1>2, TypeCorrect, PoolInvariant, PTL DEF Spec

\* A VM between Initialize and Destroy has a pool whose queue is not terminated and whose
\* workers are there: PostTask's ASSERT(!terminate_) holds.
THEOREM LivePools == Spec => []LivePool
<1>1. TypeOK /\ CountInv /\ PoolInv => LivePool
  <2> SUFFICES ASSUME TypeOK, CountInv, PoolInv, NEW v \in VMs, vm[v] = "live"
               PROVE  /\ ~terminate /\ isInitialized > 0
                      /\ \A w \in Workers : worker[w] \notin {"none", "exited"}
    BY DEF LivePool
  <2>1. v \in Members /\ Members \in SUBSET VMs
    BY DEF Members
  <2>2. isInitialized > 0
    BY <2>1, MembersFinite DEF CountInv
  <2>3. QED
    BY <2>2 DEF PoolInv, TypeOK
<1>2. QED
  BY <1>1, TypeCorrect, CountInvariant, PoolInvariant, PTL
=============================================================================
