----------------------- MODULE ConcurrentMarkingProofs -----------------------
(***************************************************************************)
(* Proofs about ConcurrentMarking: its types, where its threads can be,    *)
(* and what its counters count.                                            *)
(***************************************************************************)
EXTENDS ConcurrentMarking, TLAPS

\* Where the JS thread is, or will be after it has posted a task.
At == IF pc[Main] \in {"count", "post"} THEN after[Main] ELSE pc[Main]

\* Which steps a thread can be at in each of its tasks.
Placed ==
    /\ \A w \in Workers :
          /\ pc[w] = "idle" <=> phase[w] = "none"
          /\ phase[w] \in {"none", "marker", "parallel"} /\ after[w] = "pop"
          /\ phase[w] = "marker" => pc[w] \in {"start", "pop", "visit", "count", "post", "tasks",
                                               "finish", "notify", "decrease"}
          /\ phase[w] = "parallel" => pc[w] \in {"start", "pop", "visit", "count", "post", "reduce"}
    /\ phase[Main] = "none" => At \in {"js", "barrier", "handle"}
    /\ phase[Main] = "initialize" => At = "roots"
    /\ phase[Main] = "ongoing" => At \in {"pop", "visit", "lock", "wait", "woken", "tasks"}
    /\ phase[Main] = "mark" => At \in {"roots", "pop", "visit", "tasks", "sweep"}
    /\ phase[Main] \in {"none", "initialize", "ongoing", "mark"}
    /\ after[Main] \in {"js", "roots", "pop"}

Markers == {w \in Workers : phase[w] = "marker"}
Helpers == {w \in Workers : phase[w] = "parallel"}
Posting == {t \in Threads : pc[t] = "post"}
Starting == IF phase[Main] = "initialize" THEN 1 ELSE 0

\* The two counters count tasks: taskCounts the MarkerTasks, from the start of the marking.
Counted ==
    /\ taskCounts = Starting + markerTasks + Cardinality(Markers)
    /\ TasksCounted

\* A counter that a worker is about to decrease is not zero.
CanReduce ==
    \A w \in Workers : /\ pc[w] = "reduce" => runningTaskCount # 0
                       /\ pc[w] = "decrease" => taskCounts # 0

-----------------------------------------------------------------------------

\* What Push and MarkObject do: the value is marked, the thread goes on or posts a task
\* first, and other threads are left alone.
LEMMA MarkObjectEffect ==
  ASSUME NEW t \in Threads, NEW o \in Objects \cup {Null}, NEW label \in {"js", "roots", "pop"},
         TypeOK, MarkObject(t, o, label)
  PROVE  /\ marked' = marked \cup ({o} \ {Null})
         /\ inNode' \in [Threads -> SUBSET Objects] /\ workStack' \in SUBSET SUBSET Objects
         /\ pc' \in [Threads -> Labels] /\ after' \in [Threads -> Labels]
         /\ \A u \in Threads \ {t} : pc'[u] = pc[u] /\ after'[u] = after[u] /\ inNode'[u] = inNode[u]
         /\ after'[t] \in {after[t], label}
         /\ pc'[t] = label \/ (pc'[t] = "count" /\ after'[t] = label)
  <1>1. label \in Labels /\ "count" \in Labels
    BY DEF Labels
  <1>2. CASE o = Null \/ o \in marked
    BY <1>1, <1>2 DEF MarkObject, Goto, TypeOK
  <1>3. CASE o \in Objects /\ o \notin marked
    <2>1. marked' = marked \cup {o} /\ Push(t, o, label)
      BY <1>3, MarkingAssumption DEF MarkObject
    <2>2. CASE Cardinality(inNode[t]) < NodeSize
      BY <1>1, <1>3, <2>1, <2>2, MarkingAssumption DEF Push, Goto, TypeOK
    <2>3. CASE ~(Cardinality(inNode[t]) < NodeSize)
      BY <1>1, <1>3, <2>1, <2>3, MarkingAssumption DEF Push, Goto, TypeOK
    <2>4. QED
      BY <2>2, <2>3
  <1>4. QED
    BY <1>2, <1>3

\* StartCollection keeps the types of what it changes.
LEMMA StartCollectionTypes ==
  ASSUME TypeOK, StartCollection
  PROVE  /\ pc' \in [Threads -> Labels] /\ markingInProgress' \in BOOLEAN /\ initialized' \in BOOLEAN
         /\ phase' \in [Threads -> {"none", "marker", "parallel", "initialize", "ongoing", "mark"}]
         /\ inNode' \in [Threads -> SUBSET Objects] /\ outNode' \in [Threads -> SUBSET Objects]
         /\ todo' \in SUBSET Objects
         /\ used' \in [{"ops", "markings", "collections", "spurious", "callbacks"} -> Nat]
  <1>1. markingInProgress' \in BOOLEAN
    BY DEF StartCollection, Ongoing
  <1>2. used' \in [{"ops", "markings", "collections", "spurious", "callbacks"} -> Nat]
    BY DEF StartCollection, Use, TypeOK
  <1>3. CASE Ongoing
    BY <1>1, <1>2, <1>3 DEF StartCollection, Goto, TypeOK, Labels
  <1>4. CASE ~Ongoing
    BY <1>1, <1>2, <1>4 DEF StartCollection, InitializeWork, Goto, TypeOK, Labels
  <1>5. QED
    BY <1>3, <1>4

\* Every variable keeps its type through every step.
LEMMA TypeStep ==
  ASSUME TypeOK, Placed, CanReduce, [Next]_vars PROVE TypeOK'
  <1> USE MarkingAssumption DEF TypeOK, Goto, Use, vars, heap, nodes, threads, marker, config, tasks
  <1>1. Main \in Threads /\ \A w \in Workers : w \in Threads
    BY DEF Threads
  <1>2. TypeOK'
  <2>1. ASSUME NEW w \in Workers, RunMarkerTask(w) PROVE TypeOK'
    BY <2>1, <1>1 DEF RunMarkerTask, Labels
  <2>2. ASSUME NEW w \in Workers, RunParallelGCTask(w) PROVE TypeOK'
    BY <2>2, <1>1 DEF RunParallelGCTask, Labels
  <2>3. ASSUME NEW w \in Workers, HasInitialized(w) PROVE TypeOK'
    BY <2>3, <1>1 DEF HasInitialized, Labels
  <2>4. ASSUME NEW w \in Workers, ReduceTaskCount(w) PROVE TypeOK'
    BY <2>4, <1>1 DEF ReduceTaskCount, CanReduce, Labels
  <2>5. ASSUME NEW w \in Workers, WaitRunningTaskFinished(w) PROVE TypeOK'
    BY <2>5, <1>1 DEF WaitRunningTaskFinished, Labels
  <2>6. ASSUME NEW w \in Workers, FinishMarking(w) PROVE TypeOK'
    BY <2>6, <1>1 DEF FinishMarking, Labels
  <2>7. ASSUME NEW w \in Workers, FinishMarkingNotify(w) PROVE TypeOK'
    BY ZenonT(30), <2>7, <1>1 DEF FinishMarkingNotify, Labels
  <2>8. ASSUME NEW w \in Workers, DecreaseTaskCounts(w) PROVE TypeOK'
    BY <2>8, <1>1 DEF DecreaseTaskCounts, CanReduce, Labels
  <2>9. ASSUME NEW t \in Threads, Pop(t) PROVE TypeOK'
    BY <2>9, <1>1 DEF Pop, Labels
  <2>10. ASSUME NEW t \in Threads, PopFails(t) PROVE TypeOK'
    <3>1. StackDone(t) \in Labels
      BY <2>10, <1>1 DEF PopFails, StackDone, Labels, Placed, At, Threads
    <3>2. QED
      BY <2>10, <3>1, <1>1 DEF PopFails
  <2>11. ASSUME NEW t \in Threads, Visit(t) PROVE TypeOK'
    <3>1. MarkObject(t, val[t], "pop")
      BY <2>11 DEF Visit
    <3>2. marked' \in SUBSET Objects /\ inNode' \in [Threads -> SUBSET Objects]
          /\ workStack' \in SUBSET SUBSET Objects /\ pc' \in [Threads -> Labels]
          /\ after' \in [Threads -> Labels]
      BY <3>1, <1>1, MarkObjectEffect
    <3>3. QED
      BY ZenonT(30), <2>11, <3>2, <1>1 DEF Visit
  <2>12. ASSUME NEW t \in Threads, PostParallelGCTask(t) PROVE TypeOK'
    BY <2>12, <1>1 DEF PostParallelGCTask, Labels
  <2>13. ASSUME NEW o \in Objects, Load(o) PROVE TypeOK'
    BY <2>13, <1>1 DEF Load, Labels
  <2>14. ASSUME NEW o \in Objects, Drop(o) PROVE TypeOK'
    BY <2>14, <1>1 DEF Drop, Labels
  <2>15. ASSUME NEW o \in Objects, Allocate(o) PROVE TypeOK'
    BY <2>15, <1>1 DEF Allocate, Labels
  <2>16. ASSUME NEW o \in Objects, MarkRoot(o) PROVE TypeOK'
    <3>1. MarkObject(Main, o, "roots")
      BY <2>16 DEF MarkRoot
    <3>2. marked' \in SUBSET Objects /\ inNode' \in [Threads -> SUBSET Objects]
          /\ workStack' \in SUBSET SUBSET Objects /\ pc' \in [Threads -> Labels]
          /\ after' \in [Threads -> Labels]
      BY <3>1, <1>1, MarkObjectEffect
    <3>3. QED
      BY <2>16, <3>2, <1>1 DEF MarkRoot
  <2>17. ASSUME NEW o \in Objects, NEW v \in Objects \cup {Null}, SetObject(o, v) PROVE TypeOK'
    BY <2>17, <1>1 DEF SetObject, Labels
  <2>18. ASSUME NEW type \in MarkTypes, EnableConcurrentMarking(type) PROVE TypeOK'
    BY <2>18, <1>1 DEF EnableConcurrentMarking, MarkTypes, IsEnabled, Labels
  <2>19. CASE TriggerConcurrentMarking
    BY <2>19, <1>1 DEF TriggerConcurrentMarking, InitializeWork, Labels
  <2>20. CASE CollectGarbage
    BY <2>20, <1>1, StartCollectionTypes DEF CollectGarbage, StartCollection
  <2>21. CASE WriteBarrier
    <3>1. CASE status # "READY_TO_MARK"
      <4>1. MarkObject(Main, val[Main], "js")
        BY <2>21, <3>1 DEF WriteBarrier
      <4>2. marked' \in SUBSET Objects /\ inNode' \in [Threads -> SUBSET Objects]
            /\ workStack' \in SUBSET SUBSET Objects /\ pc' \in [Threads -> Labels]
            /\ after' \in [Threads -> Labels]
        BY <4>1, <1>1, MarkObjectEffect
      <4>3. QED
        BY ZenonT(30), <2>21, <4>2, <1>1 DEF WriteBarrier
    <3>2. CASE status = "READY_TO_MARK"
      BY <2>21, <3>2, <1>1 DEF WriteBarrier, Labels
    <3>3. QED
      BY <3>1, <3>2
  <2>22. CASE MarkRootsDone
    BY <2>22, <1>1 DEF MarkRootsDone, Labels
  <2>23. CASE CheckSafepoint
    BY <2>23, <1>1 DEF CheckSafepoint, Labels
  <2>24. CASE HandleMarkingFinished
    <3>1. CASE notifyMarkingFinished /\ mutex' = Main /\ StartCollection
      BY <3>1, <1>1, StartCollectionTypes DEF StartCollection
    <3>2. CASE ~notifyMarkingFinished /\ Goto(Main, "js")
      BY <2>24, <3>2, <1>1 DEF HandleMarkingFinished, Labels
    <3>3. QED
      BY <2>24, <3>1, <3>2 DEF HandleMarkingFinished
  <2>25. CASE WaitMarkingFinished
    BY <2>25, <1>1 DEF WaitMarkingFinished, Return, Labels
  <2>26. CASE WaitMarkingFinishedReturns
    BY <2>26, <1>1 DEF WaitMarkingFinishedReturns, Return, Labels
  <2>27. CASE MainWaitRunningTaskFinished
    BY <2>27, <1>1 DEF MainWaitRunningTaskFinished, Labels
  <2>28. CASE FinishCollection
    <3>1. mutex' \in Threads \cup {None}
          /\ used' \in [{"ops", "markings", "collections", "spurious", "callbacks"} -> Nat]
      BY <2>28, <1>1 DEF FinishCollection
    <3>2. status' \in {"READY_TO_MARK", "MARKING", "MARK_FINISHED"}
          /\ isConcurrentMarking' \in BOOLEAN /\ notifyMarkingFinished' \in BOOLEAN
      BY ZenonT(30), <2>28 DEF FinishCollection
    <3>3. enableMarkType' \in MarkTypes \cup {"REQUEST_DISABLE"}
      BY <2>28 DEF FinishCollection, MarkTypes
    <3>4. pc' \in [Threads -> Labels]
          /\ phase' \in [Threads -> {"none", "marker", "parallel", "initialize", "ongoing", "mark"}]
      BY <2>28, <1>1 DEF FinishCollection, Labels
    <3>5. QED
      BY ZenonT(30), <2>28, <3>1, <3>2, <3>3, <3>4 DEF FinishCollection
  <2>29. CASE HandleMarkingFinishedReturns
    BY <2>29, <1>1 DEF HandleMarkingFinishedReturns, Labels
  <2>30. CASE SpuriousWakeup
    BY <2>30, <1>1 DEF SpuriousWakeup, Labels
  <2>31. CASE Finished
    BY <2>31, <1>1 DEF Finished, Labels
  <2>32. CASE UNCHANGED vars
    BY <2>32, <1>1 DEF vars
  <2>33. QED
    BY <2>1, <2>2, <2>3, <2>4, <2>5, <2>6, <2>7, <2>8, <2>9, <2>10, <2>11, <2>12,
       <2>13, <2>14, <2>15, <2>16, <2>17, <2>18, <2>19, <2>20, <2>21, <2>22, <2>23, <2>24,
       <2>25, <2>26, <2>27, <2>28, <2>29, <2>30, <2>31, <2>32
       DEF Next, WorkerStep, MarkStep, JSStep, MainStep, Threads
  <1>3. QED
    BY <1>2

\* A thread stays where its task puts it.
LEMMA PlacedStep ==
  ASSUME TypeOK, Placed, [Next]_vars PROVE Placed'
  <1> USE MarkingAssumption DEF Goto, Use, heap, nodes, threads, marker, config, tasks
  <1>1. Main \in Threads /\ Main \notin Workers /\ \A w \in Workers : w \in Threads /\ w # Main
    BY DEF Threads
  <1>2. Threads = Workers \cup {Main}
    BY DEF Threads
  <1> USE <1>1, <1>2
  <1>3. /\ pc \in [Threads -> Labels] /\ after \in [Threads -> Labels]
        /\ phase \in [Threads -> {"none", "marker", "parallel", "initialize", "ongoing", "mark"}]
    BY DEF TypeOK
  <1>4. Placed'
  <2>1. ASSUME NEW w \in Workers, RunMarkerTask(w) PROVE Placed'
    BY <2>1, <1>3 DEF RunMarkerTask, Placed, At
  <2>2. ASSUME NEW w \in Workers, RunParallelGCTask(w) PROVE Placed'
    BY <2>2, <1>3 DEF RunParallelGCTask, Placed, At
  <2>3. ASSUME NEW w \in Workers, HasInitialized(w) PROVE Placed'
    BY <2>3, <1>3 DEF HasInitialized, Placed, At
  <2>4. ASSUME NEW w \in Workers, ReduceTaskCount(w) PROVE Placed'
    BY <2>4, <1>3 DEF ReduceTaskCount, Placed, At
  <2>5. ASSUME NEW w \in Workers, WaitRunningTaskFinished(w) PROVE Placed'
    BY <2>5, <1>3 DEF WaitRunningTaskFinished, Placed, At
  <2>6. ASSUME NEW w \in Workers, FinishMarking(w) PROVE Placed'
    BY <2>6, <1>3 DEF FinishMarking, Placed, At
  <2>7. ASSUME NEW w \in Workers, FinishMarkingNotify(w) PROVE Placed'
    BY <2>7, <1>3 DEF FinishMarkingNotify, Placed, At
  <2>8. ASSUME NEW w \in Workers, DecreaseTaskCounts(w) PROVE Placed'
    BY <2>8, <1>3 DEF DecreaseTaskCounts, Placed, At
  <2>9. ASSUME NEW t \in Threads, Pop(t) PROVE Placed'
    BY <2>9, <1>3 DEF Pop, Placed, At
  <2>10. ASSUME NEW t \in Threads, PopFails(t) PROVE Placed'
    BY <2>10, <1>3 DEF PopFails, StackDone, Placed, At
  <2>11. ASSUME NEW t \in Threads, Visit(t) PROVE Placed'
    <3>1. MarkObject(t, val[t], "pop")
      BY <2>11 DEF Visit
    <3>2. /\ \A u \in Threads \ {t} : pc'[u] = pc[u] /\ after'[u] = after[u]
          /\ after'[t] \in {after[t], "pop"}
          /\ pc'[t] = "pop" \/ (pc'[t] = "count" /\ after'[t] = "pop")
      BY <3>1, MarkObjectEffect DEF TypeOK
    <3>3. phase' = phase
      BY <2>11 DEF Visit
    <3>4. QED
      BY <2>11, <3>2, <3>3, <1>3 DEF Visit, Placed, At
  <2>12. ASSUME NEW t \in Threads, PostParallelGCTask(t) PROVE Placed'
    BY <2>12, <1>3 DEF PostParallelGCTask, Placed, At
  <2>13. ASSUME NEW o \in Objects, Load(o) PROVE Placed'
    BY <2>13, <1>3 DEF Load, Placed, At
  <2>14. ASSUME NEW o \in Objects, Drop(o) PROVE Placed'
    BY <2>14, <1>3 DEF Drop, Placed, At
  <2>15. ASSUME NEW o \in Objects, Allocate(o) PROVE Placed'
    BY <2>15, <1>3 DEF Allocate, Placed, At
  <2>16. ASSUME NEW o \in Objects, MarkRoot(o) PROVE Placed'
    <3>1. MarkObject(Main, o, "roots")
      BY <2>16 DEF MarkRoot
    <3>2. /\ \A u \in Threads \ {Main} : pc'[u] = pc[u] /\ after'[u] = after[u]
          /\ after'[Main] \in {after[Main], "roots"}
          /\ pc'[Main] = "roots" \/ (pc'[Main] = "count" /\ after'[Main] = "roots")
      BY <3>1, MarkObjectEffect DEF TypeOK
    <3>3. phase' = phase
      BY <2>16 DEF MarkRoot
    <3>4. QED
      BY <2>16, <3>2, <3>3, <1>3 DEF MarkRoot, Placed, At
  <2>17. ASSUME NEW o \in Objects, NEW v \in Objects \cup {Null}, SetObject(o, v) PROVE Placed'
    BY <2>17, <1>3 DEF SetObject, Placed, At
  <2>18. ASSUME NEW type \in MarkTypes, EnableConcurrentMarking(type) PROVE Placed'
    BY <2>18, <1>3 DEF EnableConcurrentMarking, MarkTypes, IsEnabled, Placed, At
  <2>19. CASE TriggerConcurrentMarking
    BY <2>19, <1>3 DEF TriggerConcurrentMarking, InitializeWork, Placed, At
  <2>20. CASE CollectGarbage
    BY <2>20, <1>3 DEF CollectGarbage, StartCollection, InitializeWork, Placed, At
  <2>21. CASE WriteBarrier
    <3>1. CASE status # "READY_TO_MARK"
      <4>1. MarkObject(Main, val[Main], "js")
        BY <2>21, <3>1 DEF WriteBarrier
      <4>2. /\ \A u \in Threads \ {Main} : pc'[u] = pc[u] /\ after'[u] = after[u]
            /\ after'[Main] \in {after[Main], "js"}
            /\ pc'[Main] = "js" \/ (pc'[Main] = "count" /\ after'[Main] = "js")
        BY <4>1, <1>3, MarkObjectEffect DEF TypeOK
      <4>3. QED
        BY <2>21, <4>2, <1>3 DEF WriteBarrier, Placed, At
    <3>2. CASE status = "READY_TO_MARK"
      BY <2>21, <3>2, <1>3 DEF WriteBarrier, Placed, At
    <3>3. QED
      BY <3>1, <3>2
  <2>22. CASE MarkRootsDone
    BY <2>22, <1>3 DEF MarkRootsDone, Placed, At
  <2>23. CASE CheckSafepoint
    BY <2>23, <1>3 DEF CheckSafepoint, Placed, At
  <2>24. CASE HandleMarkingFinished
    BY <2>24, <1>3 DEF HandleMarkingFinished, StartCollection, InitializeWork, Placed, At
  <2>25. CASE WaitMarkingFinished
    BY <2>25, <1>3 DEF WaitMarkingFinished, Return, Placed, At
  <2>26. CASE WaitMarkingFinishedReturns
    BY <2>26, <1>3 DEF WaitMarkingFinishedReturns, Return, Placed, At
  <2>27. CASE MainWaitRunningTaskFinished
    BY <2>27, <1>3 DEF MainWaitRunningTaskFinished, Placed, At
  <2>28. CASE FinishCollection
    BY <2>28, <1>3 DEF FinishCollection, MarkTypes, Placed, At
  <2>29. CASE HandleMarkingFinishedReturns
    BY <2>29, <1>3 DEF HandleMarkingFinishedReturns, Placed, At
  <2>30. CASE SpuriousWakeup
    BY <2>30, <1>3 DEF SpuriousWakeup, Placed, At
  <2>31. CASE Finished
    BY <2>31, <1>3 DEF Finished, vars, Placed, At
  <2>32. CASE UNCHANGED vars
    BY <2>32, <1>3 DEF vars, Placed, At
  <2>33. QED
    BY <2>1, <2>2, <2>3, <2>4, <2>5, <2>6, <2>7, <2>8, <2>9, <2>10, <2>11, <2>12,
       <2>13, <2>14, <2>15, <2>16, <2>17, <2>18, <2>19, <2>20, <2>21, <2>22, <2>23, <2>24,
       <2>25, <2>26, <2>27, <2>28, <2>29, <2>30, <2>31, <2>32
       DEF Next, WorkerStep, MarkStep, JSStep, MainStep, Threads
  <1>5. QED
    BY <1>4

-----------------------------------------------------------------------------
(* What the counters count                                                  *)

INSTANCE FiniteSetTheorems

\* The sets of threads that the counters count are finite.
LEMMA CountsAreNaturals ==
  /\ IsFiniteSet(Markers) /\ IsFiniteSet(Helpers) /\ IsFiniteSet(Posting)
  /\ Cardinality(Markers) \in Nat /\ Cardinality(Helpers) \in Nat /\ Cardinality(Posting) \in Nat
  <1>1. IsFiniteSet(Threads)
    BY MarkingAssumption, FS_Union, FS_Singleton DEF Threads
  <1>2. IsFiniteSet(Markers) /\ IsFiniteSet(Helpers) /\ IsFiniteSet(Posting)
    BY <1>1, MarkingAssumption, FS_Subset DEF Markers, Helpers, Posting
  <1>3. QED
    BY <1>2, FS_CardinalityType

\* A worker that is about to decrease a counter is one of those it counts.
LEMMA CountedCanReduce ==
  ASSUME TypeOK, Placed, Counted PROVE CanReduce
  <1>1. ASSUME NEW w \in Workers, pc[w] = "reduce" PROVE runningTaskCount # 0
    <2>1. w \in Helpers
      BY <1>1 DEF Helpers, Placed
    <2>2. Cardinality(Helpers) # 0
      BY <2>1, CountsAreNaturals, FS_EmptySet
    <2>3. runningTaskCount = gcTasks + Cardinality(Helpers) + Cardinality(Posting) /\ gcTasks \in Nat
      BY DEF Counted, TasksCounted, Helpers, Posting, TypeOK
    <2>4. QED
      BY <2>2, <2>3, CountsAreNaturals
  <1>2. ASSUME NEW w \in Workers, pc[w] = "decrease" PROVE taskCounts # 0
    <2>1. w \in Markers
      BY <1>2 DEF Markers, Placed
    <2>2. Cardinality(Markers) # 0
      BY <2>1, CountsAreNaturals, FS_EmptySet
    <2>3. /\ taskCounts = Starting + markerTasks + Cardinality(Markers)
          /\ Starting \in {0, 1} /\ markerTasks \in Nat
      BY DEF Counted, Starting, TypeOK
    <2>4. QED
      BY <2>2, <2>3, CountsAreNaturals
  <1>3. QED
    BY <1>1, <1>2 DEF CanReduce

\* The counters still count when no task begins or ends.
LEMMA CountedKept ==
  ASSUME Counted, \A w \in Workers : phase'[w] = phase[w], phase'[Main] = "initialize" <=> phase[Main] = "initialize",
         \A t \in Threads : pc'[t] = "post" <=> pc[t] = "post",
         UNCHANGED <<taskCounts, markerTasks, runningTaskCount, gcTasks>>
  PROVE  Counted'
  <1>1. Markers' = Markers /\ Helpers' = Helpers /\ Starting' = Starting /\ Posting' = Posting
    BY DEF Markers, Helpers, Starting, Posting
  <1>2. QED
    BY <1>1 DEF Counted, TasksCounted, Helpers, Posting

\* The counters change with the tasks they count.
LEMMA CountedStep ==
  ASSUME TypeOK, Placed, Counted, [Next]_vars PROVE Counted'
  <1> USE MarkingAssumption DEF Goto, Use, heap, nodes, threads, marker, config, tasks
  <1>1. Main \in Threads /\ Main \notin Workers /\ \A w \in Workers : w \in Threads /\ w # Main
    BY DEF Threads
  <1>2. /\ IsFiniteSet(Markers) /\ IsFiniteSet(Helpers) /\ IsFiniteSet(Posting)
        /\ Cardinality(Markers) \in Nat /\ Cardinality(Helpers) \in Nat
        /\ Cardinality(Posting) \in Nat /\ Starting \in {0, 1}
    BY CountsAreNaturals DEF Starting
  <1>3. Counted <=> /\ taskCounts = Starting + markerTasks + Cardinality(Markers)
                    /\ runningTaskCount = gcTasks + Cardinality(Helpers) + Cardinality(Posting)
    BY DEF Counted, TasksCounted, Helpers, Posting
  <1>4. Counted' <=> /\ taskCounts' = Starting' + markerTasks' + Cardinality(Markers')
                     /\ runningTaskCount' = gcTasks' + Cardinality(Helpers') + Cardinality(Posting')
    BY DEF Counted, TasksCounted, Helpers, Posting
  <1>5. /\ pc \in [Threads -> Labels]
        /\ phase \in [Threads -> {"none", "marker", "parallel", "initialize", "ongoing", "mark"}]
        /\ taskCounts \in Nat /\ markerTasks \in Nat /\ runningTaskCount \in Nat /\ gcTasks \in Nat
    BY DEF TypeOK
  <1>6. /\ At \in {"js", "handle"} => phase[Main] = "none"
        /\ At \in {"tasks", "sweep"} => phase[Main] # "initialize"
    BY DEF Placed
  <1>7. \A w \in Workers : /\ pc[w] = "idle" <=> phase[w] = "none"
                           /\ pc[w] = "reduce" => phase[w] = "parallel"
                           /\ pc[w] = "decrease" => phase[w] = "marker"
    BY DEF Placed
  <1>8. \A t \in Threads : pc[t] = "pop" => phase[t] \in {"ongoing", "mark", "marker", "parallel"}
    BY <1>5 DEF Placed, At, Threads
  <1>9. Counted'
  <2>1. ASSUME NEW w \in Workers, RunMarkerTask(w) PROVE Counted'
    <3>1. Helpers' = Helpers /\ Starting' = Starting /\ Posting' = Posting /\ Markers' = Markers \cup {w} /\ w \notin Markers
      BY <2>1, <1>1, <1>5, <1>7 DEF RunMarkerTask, Helpers, Markers, Starting, Posting
    <3>2. Cardinality(Markers') = Cardinality(Markers) + 1
      BY ZenonT(30), <3>1, <1>2, FS_AddElement
    <3>3. QED
      BY <2>1, <1>2, <1>3, <1>4, <1>5, <3>1, <3>2 DEF RunMarkerTask
  <2>2. ASSUME NEW w \in Workers, RunParallelGCTask(w) PROVE Counted'
    <3>1. Markers' = Markers /\ Starting' = Starting /\ Posting' = Posting /\ Helpers' = Helpers \cup {w} /\ w \notin Helpers
      BY <2>2, <1>1, <1>5, <1>7 DEF RunParallelGCTask, Helpers, Markers, Starting, Posting
    <3>2. Cardinality(Helpers') = Cardinality(Helpers) + 1
      BY ZenonT(30), <3>1, <1>2, FS_AddElement
    <3>3. QED
      BY <2>2, <1>2, <1>3, <1>4, <1>5, <3>1, <3>2 DEF RunParallelGCTask
  <2>3. ASSUME NEW w \in Workers, HasInitialized(w) PROVE Counted'
    BY <2>3, <1>1, <1>5, <1>6, CountedKept DEF HasInitialized, At
  <2>4. ASSUME NEW w \in Workers, ReduceTaskCount(w) PROVE Counted'
    <3>1. Markers' = Markers /\ Starting' = Starting /\ Posting' = Posting /\ Helpers' = Helpers \ {w} /\ w \in Helpers
      BY <2>4, <1>1, <1>5, <1>7 DEF ReduceTaskCount, Helpers, Markers, Starting, Posting
    <3>2. Cardinality(Helpers') = Cardinality(Helpers) - 1
      BY ZenonT(30), <3>1, <1>2, FS_RemoveElement
    <3>3. QED
      BY <2>4, <1>2, <1>3, <1>4, <1>5, <3>1, <3>2 DEF ReduceTaskCount
  <2>5. ASSUME NEW w \in Workers, WaitRunningTaskFinished(w) PROVE Counted'
    BY <2>5, <1>1, <1>5, <1>6, CountedKept DEF WaitRunningTaskFinished, At
  <2>6. ASSUME NEW w \in Workers, FinishMarking(w) PROVE Counted'
    BY <2>6, <1>1, <1>5, <1>6, CountedKept DEF FinishMarking, At
  <2>7. ASSUME NEW w \in Workers, FinishMarkingNotify(w) PROVE Counted'
    BY <2>7, <1>1, <1>5, <1>6, CountedKept DEF FinishMarkingNotify, At
  <2>8. ASSUME NEW w \in Workers, DecreaseTaskCounts(w) PROVE Counted'
    <3>1. Helpers' = Helpers /\ Starting' = Starting /\ Posting' = Posting /\ Markers' = Markers \ {w} /\ w \in Markers
      BY <2>8, <1>1, <1>5, <1>7 DEF DecreaseTaskCounts, Helpers, Markers, Starting, Posting
    <3>2. Cardinality(Markers') = Cardinality(Markers) - 1
      BY ZenonT(30), <3>1, <1>2, FS_RemoveElement
    <3>3. QED
      BY <2>8, <1>2, <1>3, <1>4, <1>5, <3>1, <3>2 DEF DecreaseTaskCounts
  <2>9. ASSUME NEW t \in Threads, Pop(t) PROVE Counted'
    BY <2>9, <1>1, <1>5, <1>6, CountedKept DEF Pop, At
  <2>10. ASSUME NEW t \in Threads, PopFails(t) PROVE Counted'
    BY <2>10, <1>8, <1>1, <1>5, <1>6, CountedKept DEF PopFails, StackDone, At
  <2>11. ASSUME NEW t \in Threads, Visit(t) PROVE Counted'
    <3>1. MarkObject(t, val[t], "pop")
      BY <2>11 DEF Visit
    <3>2. \A u \in Threads : pc'[u] = "post" <=> pc[u] = "post"
      BY <2>11, <3>1, <1>1, <1>5, MarkObjectEffect DEF Visit, TypeOK
    <3>3. QED
      BY <2>11, <3>2, <1>1, <1>5, <1>6, CountedKept DEF Visit, At
  <2>12. ASSUME NEW t \in Threads, PostParallelGCTask(t) PROVE Counted'
    <3>1. Markers' = Markers /\ Helpers' = Helpers /\ Starting' = Starting
      BY <2>12 DEF PostParallelGCTask, Markers, Helpers, Starting
    <3>2. CASE pc[t] = "count"
      <4>1. Posting' = Posting \cup {t} /\ t \notin Posting
        BY <2>12, <3>2, <1>5 DEF PostParallelGCTask, Posting
      <4>2. Cardinality(Posting') = Cardinality(Posting) + 1
        BY ZenonT(30), <4>1, <1>2, FS_AddElement
      <4>3. runningTaskCount' = runningTaskCount + 1 /\ UNCHANGED <<gcTasks, taskCounts, markerTasks>>
        BY <2>12, <3>2 DEF PostParallelGCTask
      <4>4. QED
        BY <1>2, <1>3, <1>4, <1>5, <3>1, <4>2, <4>3
    <3>3. CASE pc[t] = "post"
      <4>1. after[t] # "post"
        BY <1>1 DEF Placed, Threads
      <4>2. Posting' = Posting \ {t} /\ t \in Posting
        BY <2>12, <3>3, <4>1, <1>5 DEF PostParallelGCTask, Posting
      <4>3. Cardinality(Posting') = Cardinality(Posting) - 1
        BY ZenonT(30), <4>2, <1>2, FS_RemoveElement
      <4>4. gcTasks' = gcTasks + 1 /\ UNCHANGED <<runningTaskCount, taskCounts, markerTasks>>
        BY <2>12, <3>3 DEF PostParallelGCTask
      <4>5. QED
        BY <1>2, <1>3, <1>4, <1>5, <3>1, <4>3, <4>4
    <3>4. QED
      BY <2>12, <3>2, <3>3 DEF PostParallelGCTask
  <2>13. ASSUME NEW o \in Objects, Load(o) PROVE Counted'
    BY <2>13, <1>1, <1>5, <1>6, CountedKept DEF Load, At
  <2>14. ASSUME NEW o \in Objects, Drop(o) PROVE Counted'
    BY <2>14, <1>1, <1>5, <1>6, CountedKept DEF Drop, At
  <2>15. ASSUME NEW o \in Objects, Allocate(o) PROVE Counted'
    BY <2>15, <1>1, <1>5, <1>6, CountedKept DEF Allocate, At
  <2>16. ASSUME NEW o \in Objects, MarkRoot(o) PROVE Counted'
    <3>1. MarkObject(Main, o, "roots")
      BY <2>16 DEF MarkRoot
    <3>2. \A u \in Threads : pc'[u] = "post" <=> pc[u] = "post"
      BY <2>16, <3>1, <1>1, <1>5, MarkObjectEffect DEF MarkRoot, TypeOK
    <3>3. QED
      BY <2>16, <3>2, <1>1, <1>5, <1>6, CountedKept DEF MarkRoot, At
  <2>17. ASSUME NEW o \in Objects, NEW v \in Objects \cup {Null}, SetObject(o, v) PROVE Counted'
    BY <2>17, <1>1, <1>5, <1>6, CountedKept DEF SetObject, At
  <2>18. ASSUME NEW type \in MarkTypes, EnableConcurrentMarking(type) PROVE Counted'
    BY <2>18, <1>1, <1>5, <1>6, CountedKept DEF EnableConcurrentMarking, At
  <2>19. CASE TriggerConcurrentMarking
    <3>1. Markers' = Markers /\ Helpers' = Helpers /\ Starting' = 1 /\ Starting = 0
      BY <2>19, <1>1, <1>5, <1>6 DEF TriggerConcurrentMarking, Markers, Helpers, Starting, At
    <3>2. Posting' = Posting
      BY <2>19, <1>5 DEF TriggerConcurrentMarking, InitializeWork, Posting
    <3>3. QED
      BY <2>19, <1>2, <1>3, <1>4, <1>5, <3>1, <3>2 DEF TriggerConcurrentMarking
  <2>20. ASSUME StartCollection, pc[Main] \in {"js", "handle"} PROVE Counted'
    <3>1. phase[Main] = "none" /\ UNCHANGED tasks
      BY <2>20, <1>6 DEF StartCollection, At
    <3>2. \E x \in {"ongoing", "mark"} : phase' = [phase EXCEPT ![Main] = x]
      BY <2>20 DEF StartCollection
    <3>3. \A t \in Threads : pc'[t] = "post" <=> pc[t] = "post"
      BY <2>20, <1>1, <1>5 DEF StartCollection, InitializeWork
    <3>4. QED
      BY <3>1, <3>2, <3>3, <1>1, <1>5, CountedKept
  <2>21. CASE WriteBarrier
    <3>1. \A u \in Threads : pc'[u] = "post" <=> pc[u] = "post"
      <4>1. CASE status = "READY_TO_MARK"
        BY <2>21, <4>1, <1>1, <1>5 DEF WriteBarrier
      <4>2. CASE status # "READY_TO_MARK"
        <5>1. MarkObject(Main, val[Main], "js")
          BY <2>21, <4>2 DEF WriteBarrier
        <5>2. QED
          BY <2>21, <5>1, <1>1, <1>5, MarkObjectEffect DEF WriteBarrier, TypeOK
      <4>3. QED
        BY <4>1, <4>2
    <3>2. QED
      BY <2>21, <3>1, <1>1, <1>5, <1>6, CountedKept DEF WriteBarrier, At
  <2>22. CASE MarkRootsDone
    <3>1. Markers' = Markers /\ Helpers' = Helpers /\ Posting' = Posting
      BY <2>22, <1>1, <1>5 DEF MarkRootsDone, Markers, Helpers, Posting
    <3>2. Starting' + markerTasks' = Starting + markerTasks
      BY <2>22, <1>1, <1>5 DEF MarkRootsDone, Starting
    <3>3. UNCHANGED <<taskCounts, runningTaskCount, gcTasks>> /\ Starting' \in {0, 1} /\ markerTasks' \in Nat
      BY <2>22, <1>5 DEF MarkRootsDone, Starting
    <3>4. QED
      BY <1>2, <1>3, <1>4, <1>5, <3>1, <3>2, <3>3
  <2>23. CASE CheckSafepoint
    BY <2>23, <1>1, <1>5, <1>6, CountedKept DEF CheckSafepoint, At
  <2>24. CASE HandleMarkingFinished
    <3>1. CASE notifyMarkingFinished
      BY <2>24, <2>20, <3>1 DEF HandleMarkingFinished
    <3>2. CASE ~notifyMarkingFinished
      BY <2>24, <3>2, <1>1, <1>5, CountedKept DEF HandleMarkingFinished
    <3>3. QED
      BY <3>1, <3>2
  <2>25. CASE WaitMarkingFinished
    BY <2>25, <1>1, <1>5, <1>6, CountedKept DEF WaitMarkingFinished, Return, At
  <2>26. CASE WaitMarkingFinishedReturns
    BY <2>26, <1>1, <1>5, <1>6, CountedKept DEF WaitMarkingFinishedReturns, Return, At
  <2>27. CASE MainWaitRunningTaskFinished
    BY <2>27, <1>1, <1>5, <1>6, CountedKept DEF MainWaitRunningTaskFinished, At
  <2>28. CASE FinishCollection
    BY <2>28, <1>1, <1>5, <1>6, CountedKept DEF FinishCollection, At
  <2>29. CASE HandleMarkingFinishedReturns
    BY <2>29, <1>1, <1>5, <1>6, CountedKept DEF HandleMarkingFinishedReturns, At
  <2>30. CASE SpuriousWakeup
    BY <2>30, <1>1, <1>5, <1>6, CountedKept DEF SpuriousWakeup, At
  <2>31. CASE UNCHANGED vars
    BY <2>31, <1>1, <1>5, <1>6, CountedKept DEF vars, At
  <2>32. QED
    BY <2>1, <2>2, <2>3, <2>4, <2>5, <2>6, <2>7, <2>8, <2>9, <2>10, <2>11, <2>12,
       <2>13, <2>14, <2>15, <2>16, <2>17, <2>18, <2>19, <2>20, <2>21, <2>22, <2>23, <2>24,
       <2>25, <2>26, <2>27, <2>28, <2>29, <2>30, <2>31
       DEF Next, WorkerStep, MarkStep, JSStep, MainStep, Threads, CollectGarbage, Finished
  <1>10. QED
    BY <1>9

\* Every variable has its type, every thread is where its task puts it, and the counters
\* count the tasks.
THEOREM TypeCorrect == Spec => [](TypeOK /\ Placed /\ Counted)
  <1>1. Init => TypeOK /\ Placed /\ Counted
    <2>1. SUFFICES ASSUME Init PROVE TypeOK /\ Placed /\ Counted
      OBVIOUS
    <2>2. TypeOK
      BY ZenonT(30), <2>1, MarkingAssumption DEF Init, TypeOK, Labels, MarkTypes, Threads
    <2>3. Placed
      BY <2>1, MarkingAssumption DEF Init, Placed, At, Threads
    <2>4. Markers = {} /\ Helpers = {} /\ Posting = {} /\ Starting = 0
      BY <2>1, MarkingAssumption DEF Init, Markers, Helpers, Posting, Starting, Threads
    <2>5. Cardinality(Markers) = 0 /\ Cardinality(Helpers) = 0 /\ Cardinality(Posting) = 0
      BY <2>4, FS_EmptySet
    <2>6. taskCounts = 0 /\ markerTasks = 0 /\ runningTaskCount = 0 /\ gcTasks = 0
      BY <2>1 DEF Init
    <2>7. Counted
      BY <2>4, <2>5, <2>6 DEF Counted, TasksCounted, Helpers, Posting
    <2>8. QED
      BY <2>2, <2>3, <2>7
  <1>2. TypeOK /\ Placed /\ Counted /\ [Next]_vars => (TypeOK /\ Placed /\ Counted)'
    BY CountedCanReduce, TypeStep, PlacedStep, CountedStep
  <1>3. QED
    BY <1>1, <1>2, PTL DEF Spec

\* runningTaskCount_ counts the ParallelGCTasks that wait in the pool or run, and those that
\* are about to be posted.
THEOREM TasksAreCounted == Spec => []TasksCounted
  BY TypeCorrect, PTL DEF Counted
=============================================================================
