------------------------ MODULE ConcurrentMarkingLife ------------------------
(***************************************************************************)
(* Lemmas for ConcurrentMarkingSafety: the life of a concurrent marking    *)
(* (its task, its status, the collection that joins it), and which threads *)
(* can hold objects that are still to be visited.                          *)
(***************************************************************************)
EXTENDS ConcurrentMarkingProofs

\* The MarkerTask of a worker has still to mark.
Marks(w) == phase[w] = "marker" /\ pc[w] \notin {"notify", "decrease"}

\* The marking is under way: it starts, its task is posted, or its task runs.
Marking == phase[Main] = "initialize" \/ markerTasks > 0 \/ \E w \in Workers : Marks(w)

\* A marking has one task, although the task of the marking before may still have to notify;
\* the status says whether a marking is under way, and a collection that joins it does not
\* go on before it is finished.
Life ==
    /\ \A w, x \in Workers : Marks(w) /\ Marks(x) => w = x
    /\ markerTasks \in {0, 1}
    /\ markerTasks > 0 => phase[Main] # "initialize" /\ \A w \in Workers : ~Marks(w)
    /\ phase[Main] = "initialize" => \A w \in Workers : ~Marks(w)
    /\ status = "MARKING" <=> Marking
    /\ status # "READY_TO_MARK" => isConcurrentMarking /\ initialized /\ IsEnabled
    /\ phase[Main] = "ongoing" =>
          /\ status # "READY_TO_MARK" /\ markingInProgress
          /\ At = "tasks" => status = "MARK_FINISHED"
    /\ phase[Main] = "mark" =>
          initialized /\ status # "MARKING" /\ (markingInProgress <=> status = "MARK_FINISHED")
    /\ initialized /\ phase[Main] = "none" => status # "READY_TO_MARK"

\* A thread in ProcessMarkStack.
Busy(t) == pc[t] \in {"pop", "visit", "count", "post"}

\* A worker has objects only while it is busy; when the JS thread waits for the last tasks
\* of a collection, what is on the global stack is left to a task that is busy; no task
\* is left when no marking and no collection goes on.
Worked ==
    /\ \A w \in Workers : inNode[w] # {} \/ outNode[w] # {} => Busy(w)
    /\ phase[Main] = "mark" /\ pc[Main] \in {"tasks", "sweep"} =>
          /\ inNode[Main] = {} /\ outNode[Main] = {}
          /\ workStack # {} => \E w \in Workers : phase[w] = "parallel" /\ Busy(w)
    /\ pc[Main] = "sweep" => runningTaskCount = 0
    /\ phase[Main] = "none" /\ status = "READY_TO_MARK" =>
          runningTaskCount = 0 /\ pc[Main] \notin {"count", "post"}

-----------------------------------------------------------------------------

\* The life of the marking goes on as Life says, unless WaitMarkingFinished returns early.
LEMMA LifeStep ==
  ASSUME TypeOK, Placed, Life, [Next]_vars, ~early' PROVE Life'
  <1> USE MarkingAssumption DEF Placed, At, Life, Marking, Marks, IsEnabled, Goto, Use, heap, nodes, threads, marker, config, tasks
  <1>1. Main \in Threads /\ Main \notin Workers /\ \A w \in Workers : w \in Threads /\ w # Main
    BY DEF Threads
  <1>2. Threads = Workers \cup {Main}
    BY DEF Threads
  <1> USE <1>1, <1>2
  <1>3. /\ pc \in [Threads -> Labels] /\ after \in [Threads -> Labels]
        /\ phase \in [Threads -> {"none", "marker", "parallel", "initialize", "ongoing", "mark"}]
        /\ val \in [Threads -> Objects \cup {Null}]
        /\ status \in {"READY_TO_MARK", "MARKING", "MARK_FINISHED"}
        /\ markingInProgress \in BOOLEAN /\ notifyMarkingFinished \in BOOLEAN
        /\ isConcurrentMarking \in BOOLEAN /\ initialized \in BOOLEAN
        /\ markerTasks \in Nat /\ early \in BOOLEAN
        /\ used \in [{"ops", "markings", "collections", "spurious", "callbacks"} -> Nat]
    BY DEF TypeOK
  <1>4. Life'
  <2>1. ASSUME NEW w \in Workers, RunMarkerTask(w) PROVE Life'
    BY <2>1, <1>3 DEF RunMarkerTask
  <2>2. ASSUME NEW w \in Workers, RunParallelGCTask(w) PROVE Life'
    BY <2>2, <1>3 DEF RunParallelGCTask
  <2>3. ASSUME NEW w \in Workers, HasInitialized(w) PROVE Life'
    BY <2>3, <1>3 DEF HasInitialized
  <2>4. ASSUME NEW w \in Workers, ReduceTaskCount(w) PROVE Life'
    BY <2>4, <1>3 DEF ReduceTaskCount
  <2>5. ASSUME NEW w \in Workers, WaitRunningTaskFinished(w) PROVE Life'
    BY <2>5, <1>3 DEF WaitRunningTaskFinished
  <2>6. ASSUME NEW w \in Workers, FinishMarking(w) PROVE Life'
    BY <2>6, <1>3 DEF FinishMarking
  <2>7. ASSUME NEW w \in Workers, FinishMarkingNotify(w) PROVE Life'
    BY <2>7, <1>3 DEF FinishMarkingNotify
  <2>8. ASSUME NEW w \in Workers, DecreaseTaskCounts(w) PROVE Life'
    BY <2>8, <1>3 DEF DecreaseTaskCounts
  <2>9. ASSUME NEW t \in Threads, Pop(t) PROVE Life'
    BY <2>9, <1>3 DEF Pop
  <2>10. ASSUME NEW t \in Threads, PopFails(t) PROVE Life'
    BY <2>10, <1>3 DEF PopFails, StackDone
  <2>11. ASSUME NEW t \in Threads, Visit(t) PROVE Life'
    <3>1. MarkObject(t, val[t], "pop")
      BY <2>11 DEF Visit
    <3>2. /\ \A u \in Threads \ {t} : pc'[u] = pc[u] /\ after'[u] = after[u]
          /\ pc'[t] = "pop" \/ (pc'[t] = "count" /\ after'[t] = "pop")
      BY <3>1, <1>3, MarkObjectEffect
    <3>3. UNCHANGED <<phase, initialized, marker, config, tasks, used>>
      BY <2>11 DEF Visit
    <3>4. QED
      BY <2>11, <3>2, <3>3, <1>3 DEF Visit
  <2>12. ASSUME NEW t \in Threads, PostParallelGCTask(t) PROVE Life'
    BY <2>12, <1>3 DEF PostParallelGCTask
  <2>13. ASSUME NEW o \in Objects, Load(o) PROVE Life'
    BY <2>13, <1>3 DEF Load
  <2>14. ASSUME NEW o \in Objects, Drop(o) PROVE Life'
    BY <2>14, <1>3 DEF Drop
  <2>15. ASSUME NEW o \in Objects, Allocate(o) PROVE Life'
    BY <2>15, <1>3 DEF Allocate
  <2>16. ASSUME NEW o \in Objects, MarkRoot(o) PROVE Life'
    <3>1. MarkObject(Main, o, "roots")
      BY <2>16 DEF MarkRoot
    <3>2. /\ \A u \in Threads \ {Main} : pc'[u] = pc[u] /\ after'[u] = after[u]
          /\ pc'[Main] = "roots" \/ (pc'[Main] = "count" /\ after'[Main] = "roots")
      BY <3>1, <1>3, MarkObjectEffect
    <3>3. UNCHANGED <<phase, initialized, marker, config, tasks, used>>
      BY <2>16 DEF MarkRoot
    <3>4. QED
      BY <2>16, <3>2, <3>3, <1>3 DEF MarkRoot
  <2>17. ASSUME NEW o \in Objects, NEW v \in Objects \cup {Null}, SetObject(o, v) PROVE Life'
    BY <2>17, <1>3 DEF SetObject
  <2>18. ASSUME NEW type \in MarkTypes, EnableConcurrentMarking(type) PROVE Life'
    BY <2>18, <1>3 DEF EnableConcurrentMarking, MarkTypes
  <2>19. CASE TriggerConcurrentMarking
    BY <2>19, <1>3 DEF TriggerConcurrentMarking, InitializeWork, TryIncreaseTaskCounts
  <2>20. CASE CollectGarbage
    BY <2>20, <1>3 DEF CollectGarbage, StartCollection, InitializeWork, Ongoing
  <2>21. CASE WriteBarrier
    <3>1. UNCHANGED <<phase, initialized, marker, config, tasks, used>>
      BY <2>21 DEF WriteBarrier
    <3>2. (\A w \in Workers : pc'[w] = pc[w]) /\ phase[Main] = "none"
      <4>1. CASE status # "READY_TO_MARK"
        <5>1. MarkObject(Main, val[Main], "js")
          BY <2>21, <4>1 DEF WriteBarrier
        <5>2. QED
          BY <2>21, <5>1, <1>3, MarkObjectEffect DEF WriteBarrier
      <4>2. CASE status = "READY_TO_MARK"
        BY <2>21, <4>2, <1>3 DEF WriteBarrier
      <4>3. QED
        BY <4>1, <4>2
    <3>3. QED
      BY <3>1, <3>2, <1>3
  <2>22. CASE MarkRootsDone
    BY <2>22, <1>3 DEF MarkRootsDone
  <2>23. CASE CheckSafepoint
    BY <2>23, <1>3 DEF CheckSafepoint
  <2>24. CASE HandleMarkingFinished
    BY <2>24, <1>3 DEF HandleMarkingFinished, StartCollection, InitializeWork, Ongoing
  <2>25. CASE WaitMarkingFinished
    BY <2>25, <1>3 DEF WaitMarkingFinished, Return
  <2>26. CASE WaitMarkingFinishedReturns
    BY <2>26, <1>3 DEF WaitMarkingFinishedReturns, Return
  <2>27. CASE MainWaitRunningTaskFinished
    BY <2>27, <1>3 DEF MainWaitRunningTaskFinished
  <2>28. CASE FinishCollection
    BY <2>28, <1>3 DEF FinishCollection, MarkTypes
  <2>29. CASE HandleMarkingFinishedReturns
    BY <2>29, <1>3 DEF HandleMarkingFinishedReturns
  <2>30. CASE SpuriousWakeup
    BY <2>30, <1>3 DEF SpuriousWakeup
  <2>31. CASE Finished
    BY <2>31, <1>3 DEF Finished, vars
  <2>32. CASE UNCHANGED vars
    BY <2>32, <1>3 DEF vars
  <2>33. QED
    BY <2>1, <2>2, <2>3, <2>4, <2>5, <2>6, <2>7, <2>8, <2>9, <2>10, <2>11, <2>12,
       <2>13, <2>14, <2>15, <2>16, <2>17, <2>18, <2>19, <2>20, <2>21, <2>22, <2>23, <2>24,
       <2>25, <2>26, <2>27, <2>28, <2>29, <2>30, <2>31, <2>32
       DEF Next, WorkerStep, MarkStep, JSStep, MainStep, Threads
  <1>5. QED
    BY <1>4

\* When the counter is zero, no ParallelGCTask runs, waits in the pool or is to be posted.
LEMMA NoHelpers ==
  ASSUME TypeOK, Counted, runningTaskCount = 0
  PROVE  /\ gcTasks = 0 /\ \A w \in Workers : phase[w] # "parallel"
         /\ \A t \in Threads : pc[t] # "post"
  <1>1. gcTasks \in Nat /\ 0 = gcTasks + Cardinality(Helpers) + Cardinality(Posting)
    BY DEF TypeOK, Counted, TasksCounted, Helpers, Posting
  <1>2. gcTasks = 0 /\ Cardinality(Helpers) = 0 /\ Cardinality(Posting) = 0
    BY <1>1, CountsAreNaturals
  <1>3. Helpers = {} /\ Posting = {}
    BY <1>2, CountsAreNaturals, FS_EmptySet
  <1>4. QED
    BY <1>2, <1>3 DEF Helpers, Posting

\* Grey objects stay with threads that are busy.
LEMMA WorkedStep ==
  ASSUME TypeOK, Placed, Counted, Life, Worked, [Next]_vars PROVE Worked'
  <1> USE MarkingAssumption DEF Worked, Busy, Goto, Use, heap, nodes, threads, marker, config, tasks
  <1>1. Main \in Threads /\ Main \notin Workers /\ \A w \in Workers : w \in Threads /\ w # Main
    BY DEF Threads
  <1>2. Threads = Workers \cup {Main}
    BY DEF Threads
  <1> USE <1>1, <1>2
  <1>3. /\ pc \in [Threads -> Labels] /\ after \in [Threads -> Labels]
        /\ phase \in [Threads -> {"none", "marker", "parallel", "initialize", "ongoing", "mark"}]
        /\ inNode \in [Threads -> SUBSET Objects] /\ outNode \in [Threads -> SUBSET Objects]
        /\ val \in [Threads -> Objects \cup {Null}] /\ runningTaskCount \in Nat
        /\ status \in {"READY_TO_MARK", "MARKING", "MARK_FINISHED"}
    BY DEF TypeOK
  <1>4. /\ \A w \in Workers : phase[w] = "marker" /\ Busy(w) => status = "MARKING"
        /\ phase[Main] = "initialize" => status = "MARKING"
        /\ phase[Main] = "mark" => status # "MARKING"
    BY DEF Life, Marking, Marks
  <1>5. /\ runningTaskCount = 0 => gcTasks = 0 /\ \A w \in Workers : phase[w] # "parallel"
        /\ \A w \in Workers : Busy(w) => phase[w] \in {"marker", "parallel"}
        /\ \A w \in Workers : pc[w] = "reduce" => phase[w] = "parallel"
        /\ \A w \in Workers : phase[w] \in {"none", "marker", "parallel"} /\ after[w] = "pop"
    BY <1>3, NoHelpers DEF Placed
  <1>6. /\ phase[Main] = "none" => At \in {"js", "barrier", "handle"}
        /\ phase[Main] = "initialize" => At = "roots"
        /\ phase[Main] = "ongoing" => At \in {"pop", "visit", "lock", "wait", "woken", "tasks"}
        /\ phase[Main] = "mark" => At \in {"roots", "pop", "visit", "tasks", "sweep"}
        /\ phase[Main] \in {"none", "initialize", "ongoing", "mark"}
        /\ after[Main] \in {"js", "roots", "pop"}
    BY DEF Placed
  <1>7. Worked'
  <2>1. ASSUME NEW w \in Workers, RunMarkerTask(w) PROVE Worked'
    BY <2>1, <1>3, <1>4, <1>5, <1>6 DEF RunMarkerTask, At
  <2>2. ASSUME NEW w \in Workers, RunParallelGCTask(w) PROVE Worked'
    BY <2>2, <1>3, <1>4, <1>5, <1>6 DEF RunParallelGCTask, At
  <2>3. ASSUME NEW w \in Workers, HasInitialized(w) PROVE Worked'
    BY <2>3, <1>3, <1>4, <1>5, <1>6 DEF HasInitialized, At
  <2>4. ASSUME NEW w \in Workers, ReduceTaskCount(w) PROVE Worked'
    BY <2>4, <1>3, <1>4, <1>5, <1>6 DEF ReduceTaskCount, At
  <2>5. ASSUME NEW w \in Workers, WaitRunningTaskFinished(w) PROVE Worked'
    BY <2>5, <1>3, <1>4, <1>5, <1>6 DEF WaitRunningTaskFinished, At
  <2>6. ASSUME NEW w \in Workers, FinishMarking(w) PROVE Worked'
    BY <2>6, <1>3, <1>4, <1>5, <1>6 DEF FinishMarking, At
  <2>7. ASSUME NEW w \in Workers, FinishMarkingNotify(w) PROVE Worked'
    BY <2>7, <1>3, <1>4, <1>5, <1>6 DEF FinishMarkingNotify, At
  <2>8. ASSUME NEW w \in Workers, DecreaseTaskCounts(w) PROVE Worked'
    BY <2>8, <1>3, <1>4, <1>5, <1>6 DEF DecreaseTaskCounts, At
  <2>9. ASSUME NEW t \in Threads, Pop(t) PROVE Worked'
    BY <2>9, <1>3, <1>4, <1>5, <1>6 DEF Pop, At
  <2>10. ASSUME NEW t \in Threads, PopFails(t) PROVE Worked'
    BY <2>10, <1>3, <1>4, <1>5, <1>6 DEF PopFails, StackDone, At
  <2>11. ASSUME NEW t \in Threads, Visit(t) PROVE Worked'
    <3>1. MarkObject(t, val[t], "pop")
      BY <2>11 DEF Visit
    <3>2. /\ \A u \in Threads \ {t} : pc'[u] = pc[u] /\ inNode'[u] = inNode[u]
          /\ pc'[t] \in {"pop", "count"}
      BY <3>1, <1>3, MarkObjectEffect
    <3>3. UNCHANGED <<phase, outNode, marker, tasks>>
      BY <2>11 DEF Visit
    <3>4. QED
      BY <2>11, <3>2, <3>3, <1>3, <1>4, <1>5, <1>6 DEF Visit, At
  <2>12. ASSUME NEW t \in Threads, PostParallelGCTask(t) PROVE Worked'
    BY <2>12, <1>3, <1>4, <1>5, <1>6 DEF PostParallelGCTask, At
  <2>13. ASSUME NEW o \in Objects, Load(o) PROVE Worked'
    BY <2>13, <1>3, <1>4, <1>5, <1>6 DEF Load, At
  <2>14. ASSUME NEW o \in Objects, Drop(o) PROVE Worked'
    BY <2>14, <1>3, <1>4, <1>5, <1>6 DEF Drop, At
  <2>15. ASSUME NEW o \in Objects, Allocate(o) PROVE Worked'
    BY <2>15, <1>3, <1>4, <1>5, <1>6 DEF Allocate, At
  <2>16. ASSUME NEW o \in Objects, MarkRoot(o) PROVE Worked'
    <3>1. MarkObject(Main, o, "roots")
      BY <2>16 DEF MarkRoot
    <3>2. /\ \A u \in Threads \ {Main} : pc'[u] = pc[u] /\ inNode'[u] = inNode[u]
          /\ pc'[Main] \in {"roots", "count"}
      BY <3>1, <1>3, MarkObjectEffect
    <3>3. UNCHANGED <<phase, outNode, marker, tasks>>
      BY <2>16 DEF MarkRoot
    <3>4. QED
      BY <2>16, <3>2, <3>3, <1>3, <1>4, <1>5, <1>6 DEF MarkRoot, At
  <2>17. ASSUME NEW o \in Objects, NEW v \in Objects \cup {Null}, SetObject(o, v) PROVE Worked'
    BY <2>17, <1>3, <1>4, <1>5, <1>6 DEF SetObject, At
  <2>18. ASSUME NEW type \in MarkTypes, EnableConcurrentMarking(type) PROVE Worked'
    BY <2>18, <1>3, <1>4, <1>5, <1>6 DEF EnableConcurrentMarking, MarkTypes, IsEnabled, At
  <2>19. CASE TriggerConcurrentMarking
    BY <2>19, <1>3, <1>4, <1>5, <1>6 DEF TriggerConcurrentMarking, InitializeWork, At
  <2>20. CASE CollectGarbage
    BY <2>20, <1>3, <1>4, <1>5, <1>6 DEF CollectGarbage, StartCollection, InitializeWork, At
  <2>21. CASE WriteBarrier
    <3>1. UNCHANGED <<phase, outNode, marker, tasks>>
      BY <2>21 DEF WriteBarrier
    <3>2. /\ \A w \in Workers : pc'[w] = pc[w] /\ inNode'[w] = inNode[w]
          /\ phase[Main] = "none" /\ pc'[Main] # "sweep"
          /\ status = "READY_TO_MARK" => pc'[Main] \notin {"count", "post"}
      <4>1. CASE status # "READY_TO_MARK"
        <5>1. MarkObject(Main, val[Main], "js")
          BY <2>21, <4>1 DEF WriteBarrier
        <5>2. QED
          BY <2>21, <5>1, <4>1, <1>3, <1>6, MarkObjectEffect DEF WriteBarrier, At
      <4>2. CASE status = "READY_TO_MARK"
        BY <2>21, <4>2, <1>3, <1>6 DEF WriteBarrier, At
      <4>3. QED
        BY <4>1, <4>2
    <3>3. QED
      BY <3>1, <3>2, <1>3, <1>4, <1>5, <1>6 DEF At
  <2>22. CASE MarkRootsDone
    BY <2>22, <1>3, <1>4, <1>5, <1>6 DEF MarkRootsDone, At
  <2>23. CASE CheckSafepoint
    BY <2>23, <1>3, <1>4, <1>5, <1>6 DEF CheckSafepoint, At
  <2>24. CASE HandleMarkingFinished
    <3>1. CASE notifyMarkingFinished
      BY <2>24, <3>1, <1>3, <1>4, <1>5, <1>6 DEF HandleMarkingFinished, StartCollection, InitializeWork, At
    <3>2. CASE ~notifyMarkingFinished
      BY <2>24, <3>2, <1>3, <1>4, <1>5, <1>6 DEF HandleMarkingFinished, At
    <3>3. QED
      BY <3>1, <3>2
  <2>25. CASE WaitMarkingFinished
    BY <2>25, <1>3, <1>4, <1>5, <1>6 DEF WaitMarkingFinished, Return, At
  <2>26. CASE WaitMarkingFinishedReturns
    BY <2>26, <1>3, <1>4, <1>5, <1>6 DEF WaitMarkingFinishedReturns, Return, At
  <2>27. CASE MainWaitRunningTaskFinished
    BY <2>27, <1>3, <1>4, <1>5, <1>6 DEF MainWaitRunningTaskFinished, At
  <2>28. CASE FinishCollection
    BY <2>28, <1>3, <1>4, <1>5, <1>6 DEF FinishCollection, MarkTypes, At
  <2>29. CASE HandleMarkingFinishedReturns
    BY <2>29, <1>3, <1>4, <1>5, <1>6 DEF HandleMarkingFinishedReturns, At
  <2>30. CASE SpuriousWakeup
    BY <2>30, <1>3, <1>4, <1>5, <1>6 DEF SpuriousWakeup, At
  <2>31. CASE Finished
    BY <2>31, <1>3, <1>4, <1>5, <1>6 DEF Finished, vars, At
  <2>32. CASE UNCHANGED vars
    BY <2>32, <1>3, <1>4, <1>5, <1>6 DEF vars, At
  <2>33. QED
    BY <2>1, <2>2, <2>3, <2>4, <2>5, <2>6, <2>7, <2>8, <2>9, <2>10, <2>11, <2>12,
       <2>13, <2>14, <2>15, <2>16, <2>17, <2>18, <2>19, <2>20, <2>21, <2>22, <2>23, <2>24,
       <2>25, <2>26, <2>27, <2>28, <2>29, <2>30, <2>31, <2>32
       DEF Next, WorkerStep, MarkStep, JSStep, MainStep, Threads
  <1>8. QED
    BY <1>7
=============================================================================
