-------------------------- MODULE ConcurrentMarking --------------------------
(***************************************************************************)
(* Marking the heap of one VM while its JS thread runs.                    *)
(*                                                                         *)
(*   ecmascript/mem/concurrent_marker.{h,cpp}  the marker and its handshake*)
(*   ecmascript/mem/work_manager.{h,cpp}       the stacks of grey objects  *)
(*   ecmascript/mem/parallel_marker*.{h,cpp}   MarkRoots, ProcessMarkStack *)
(*   ecmascript/mem/barriers*.{h,cpp}          the write barrier           *)
(*   ecmascript/mem/heap.cpp, partial_gc.cpp   triggering, collecting      *)
(*                                                                         *)
(* Main is the JS thread; the workers are threads of the task pool, which  *)
(* run the MarkerTask and the ParallelGCTasks.  The body of an object is   *)
(* one reference.  A WorkNode is the set of the objects on its stack and   *)
(* holds NodeSize of them; the global stack is the set of its nodes.       *)
(***************************************************************************)
EXTENDS Naturals, FiniteSets

CONSTANTS Objects, Null, Main, Workers, None,
          NodeSize,        \* how many objects a WorkNode holds
          MaxOps,          \* bound: what JS code does
          MaxMarkings,     \* bound: concurrent markings
          MaxCollections,  \* bound: collections
          MaxSpurious,     \* bound: spurious wakeups of the condition variable
          MaxCallbacks     \* bound: finalize callbacks that run JS code

ASSUME MarkingAssumption ==
    /\ Null \notin Objects /\ Main \notin Workers /\ None \notin Workers \cup {Main}
    /\ IsFiniteSet(Objects) /\ IsFiniteSet(Workers)
    /\ NodeSize \in Nat \ {0} /\ MaxOps \in Nat /\ MaxMarkings \in Nat
    /\ MaxCollections \in Nat /\ MaxSpurious \in Nat /\ MaxCallbacks \in Nat

Threads == Workers \cup {Main}

VARIABLES
    allocated, field, roots,    \* the objects, their references, what the JS thread holds
    marked,                     \* the mark bitsets
    inNode, outNode, workStack, \* works_, workStack_ of the WorkManager
    initialized,                \* initialized_ of the WorkManager
    pc, phase,                  \* where a thread is, and in which of its tasks
    val, after,                 \* the value a thread marks, where it goes after a post
    todo,                       \* the roots that MarkRoots has still to visit
    status,                     \* MarkStatus of the JS thread
    isConcurrentMarking, notifyMarkingFinished, vmThreadWait,
    early,                      \* history: WaitMarkingFinished has returned too early
    enableMarkType,             \* enableMarkType_
    markingInProgress,          \* markingInProgress_ of PartialGC
    mutex,                      \* waitMarkingFinishedMutex_
    runningTaskCount,           \* of the heap
    taskCounts,                 \* MarkerTasks that are not done (of all VMs; here of one)
    markerTasks, gcTasks,      \* the tasks that wait in the pool
    used                        \* how much of the bounds is used

heap    == <<allocated, field, roots>>
nodes   == <<inNode, outNode, workStack, initialized>>
threads == <<pc, phase, val, after>>
marker  == <<status, isConcurrentMarking, notifyMarkingFinished, vmThreadWait, mutex, early>>
config  == <<enableMarkType, markingInProgress>>
tasks   == <<runningTaskCount, taskCounts, markerTasks, gcTasks>>
vars == <<heap, marked, nodes, threads, todo, marker, config, tasks, used>>

MarkTypes == {"ENABLE", "DISABLE"}

Labels == {"js", "barrier", "roots", "pop", "visit", "count", "post", "lock", "wait", "woken",
           "tasks", "sweep", "handle", "idle", "start", "reduce", "finish", "notify", "decrease"}

TypeOK ==
    /\ allocated \in SUBSET Objects /\ roots \in SUBSET Objects /\ todo \in SUBSET Objects
    /\ field \in [Objects -> Objects \cup {Null}]
    /\ marked \in SUBSET Objects
    /\ inNode \in [Threads -> SUBSET Objects] /\ outNode \in [Threads -> SUBSET Objects]
    /\ workStack \in SUBSET SUBSET Objects /\ initialized \in BOOLEAN
    /\ pc \in [Threads -> Labels] /\ after \in [Threads -> Labels]
    /\ phase \in [Threads -> {"none", "marker", "parallel", "initialize", "ongoing", "mark"}]
    /\ val \in [Threads -> Objects \cup {Null}]
    /\ status \in {"READY_TO_MARK", "MARKING", "MARK_FINISHED"}
    /\ isConcurrentMarking \in BOOLEAN /\ notifyMarkingFinished \in BOOLEAN
    /\ vmThreadWait \in BOOLEAN /\ mutex \in Threads \cup {None}
    /\ enableMarkType \in MarkTypes \cup {"REQUEST_DISABLE"}
    /\ markingInProgress \in BOOLEAN
    /\ runningTaskCount \in Nat /\ taskCounts \in Nat
    /\ markerTasks \in Nat /\ gcTasks \in Nat
    /\ used \in [{"ops", "markings", "collections", "spurious", "callbacks"} -> Nat]
    /\ early \in BOOLEAN

\* A heap with any references among some objects; nothing is marked.
Init ==
    /\ allocated \in SUBSET Objects
    /\ field \in [Objects -> Objects \cup {Null}]
    /\ \A o \in Objects : field[o] # Null => o \in allocated /\ field[o] \in allocated
    /\ roots \in SUBSET allocated /\ todo = {}
    /\ marked = {}
    /\ inNode = [t \in Threads |-> {}] /\ outNode = [t \in Threads |-> {}]
    /\ workStack = {} /\ initialized = FALSE
    /\ pc = [t \in Threads |-> IF t = Main THEN "js" ELSE "idle"]
    /\ after = [t \in Threads |-> "pop"] /\ phase = [t \in Threads |-> "none"]
    /\ val = [t \in Threads |-> Null]
    /\ status = "READY_TO_MARK" /\ isConcurrentMarking = FALSE
    /\ notifyMarkingFinished = FALSE /\ vmThreadWait = FALSE /\ mutex = None
    /\ enableMarkType = "ENABLE" /\ markingInProgress = FALSE
    /\ runningTaskCount = 0 /\ taskCounts = 0 /\ markerTasks = 0 /\ gcTasks = 0
    /\ used = [b \in {"ops", "markings", "collections", "spurious", "callbacks"} |-> 0]
    /\ early = FALSE

Goto(t, label) == pc' = [pc EXCEPT ![t] = label]
Use(bound, max) == used[bound] < max /\ used' = [used EXCEPT ![bound] = @ + 1]

IsEnabled == enableMarkType # "DISABLE"

-----------------------------------------------------------------------------
(* Grey objects                                                             *)

\* maxMarkTaskCount_ is one less than the pool has threads.
CheckCanDistributeTask == runningTaskCount < Cardinality(Workers) - 1

\* WorkManager::Push.  A full node goes to the global stack, and perhaps a task for it is
\* posted, before the object goes on the new node, which only this thread uses.
Push(t, o, label) ==
    IF Cardinality(inNode[t]) < NodeSize
       THEN /\ inNode' = [inNode EXCEPT ![t] = @ \cup {o}]
            /\ Goto(t, label)
            /\ UNCHANGED <<workStack, after>>
       ELSE /\ workStack' = workStack \cup {inNode[t]}
            /\ inNode' = [inNode EXCEPT ![t] = {o}]
            /\ Goto(t, IF CheckCanDistributeTask THEN "count" ELSE label)
            /\ after' = [after EXCEPT ![t] = label]

\* MarkObject, MarkValue: AtomicMark decides which thread pushes the object.
MarkObject(t, o, label) ==
    IF o = Null \/ o \in marked
       THEN Goto(t, label) /\ UNCHANGED <<marked, inNode, workStack, after>>
       ELSE marked' = marked \cup {o} /\ Push(t, o, label)

\* Bug: the task is counted after it is posted.
BugPostFirst(t) ==
    /\ \/ /\ pc[t] = "count" /\ Goto(t, "post")
          /\ gcTasks' = gcTasks + 1 /\ UNCHANGED runningTaskCount
       \/ /\ pc[t] = "post" /\ Goto(t, after[t])
          /\ runningTaskCount' = runningTaskCount + 1 /\ UNCHANGED gcTasks
    /\ UNCHANGED <<heap, marked, nodes, phase, val, after, todo, marker, config, taskCounts,
                   markerTasks, used>>

\* PostParallelGCTask counts the task, then posts it, and returns to the marking.
PostParallelGCTask(t) ==
    /\ \/ /\ pc[t] = "count" /\ Goto(t, "post")
          /\ runningTaskCount' = runningTaskCount + 1 /\ UNCHANGED gcTasks
       \/ /\ pc[t] = "post" /\ Goto(t, after[t])
          /\ gcTasks' = gcTasks + 1 /\ UNCHANGED runningTaskCount
    /\ UNCHANGED <<heap, marked, nodes, phase, val, after, todo, marker, config, taskCounts,
                   markerTasks, used>>

\* Where ProcessMarkStack returns to.
StackDone(t) ==
    CASE phase[t] = "ongoing"  -> "lock"
      [] phase[t] = "mark"     -> "tasks"
      [] phase[t] = "marker"   -> "tasks"
      [] phase[t] = "parallel" -> "reduce"

\* WorkManager::Pop and the read of the object's reference: from the thread's own nodes, or
\* from a node of the global stack.
Pop(t) ==
    /\ pc[t] = "pop"
    /\ \/ \E o \in outNode[t] :
             /\ outNode' = [outNode EXCEPT ![t] = @ \ {o}]
             /\ val' = [val EXCEPT ![t] = field[o]]
             /\ UNCHANGED <<inNode, workStack>>
       \/ /\ outNode[t] = {}
          /\ \E o \in inNode[t] :
                /\ outNode' = [outNode EXCEPT ![t] = inNode[t] \ {o}]
                /\ inNode' = [inNode EXCEPT ![t] = {}]
                /\ val' = [val EXCEPT ![t] = field[o]]
          /\ UNCHANGED workStack
       \/ /\ outNode[t] = {} /\ inNode[t] = {}
          /\ \E n \in workStack : \E o \in n :
                /\ workStack' = workStack \ {n}
                /\ outNode' = [outNode EXCEPT ![t] = n \ {o}]
                /\ val' = [val EXCEPT ![t] = field[o]]
          /\ UNCHANGED inNode
    /\ Goto(t, "visit")
    /\ UNCHANGED <<heap, marked, initialized, phase, after, todo, marker, config, tasks, used>>

\* Nothing is left for this thread: ProcessMarkStack returns.
PopFails(t) ==
    /\ pc[t] = "pop" /\ outNode[t] = {} /\ inNode[t] = {} /\ workStack = {}
    /\ Goto(t, StackDone(t))
    /\ UNCHANGED <<heap, marked, nodes, phase, val, after, todo, marker, config, tasks, used>>

Visit(t) ==
    /\ pc[t] = "visit"
    /\ MarkObject(t, val[t], "pop")
    /\ val' = [val EXCEPT ![t] = Null]
    /\ UNCHANGED <<heap, outNode, initialized, phase, todo, marker, config, tasks, used>>

-----------------------------------------------------------------------------
(* JS code                                                                  *)

Load(o) ==
    /\ pc[Main] = "js" /\ o \in roots /\ field[o] # Null /\ Use("ops", MaxOps)
    /\ roots' = roots \cup {field[o]}
    /\ UNCHANGED <<allocated, field, marked, nodes, threads, todo, marker, config, tasks>>

Drop(o) ==
    /\ pc[Main] = "js" /\ o \in roots /\ Use("ops", MaxOps)
    /\ roots' = roots \ {o}
    /\ UNCHANGED <<allocated, field, marked, nodes, threads, todo, marker, config, tasks>>

\* An object is born white, and only the JS thread holds it.
Allocate(o) ==
    /\ pc[Main] = "js" /\ o \notin allocated /\ Use("ops", MaxOps)
    /\ allocated' = allocated \cup {o} /\ roots' = roots \cup {o}
    /\ field' = [field EXCEPT ![o] = Null]
    /\ UNCHANGED <<marked, nodes, threads, todo, marker, config, tasks>>

\* SetObject stores first; a primitive has no barrier.
SetObject(o, v) ==
    /\ pc[Main] = "js" /\ o \in roots /\ v \in roots \cup {Null} /\ Use("ops", MaxOps)
    /\ field' = [field EXCEPT ![o] = v]
    /\ val' = [val EXCEPT ![Main] = v]
    /\ Goto(Main, IF v = Null THEN "js" ELSE "barrier")
    /\ UNCHANGED <<allocated, roots, marked, nodes, phase, after, todo, marker, config, tasks>>

\* Bug: the barrier is off once the marker has finished.
BugBarrierMarkingOnly ==
    /\ pc[Main] = "barrier"
    /\ IF status = "MARKING"
          THEN MarkObject(Main, val[Main], "js")
          ELSE Goto(Main, "js") /\ UNCHANGED <<marked, inNode, workStack, after>>
    /\ val' = [val EXCEPT ![Main] = Null]
    /\ UNCHANGED <<heap, outNode, initialized, phase, todo, marker, config, tasks, used>>

\* WriteBarrier, Barriers::Update: the stored value is marked.
WriteBarrier ==
    /\ pc[Main] = "barrier"
    /\ IF status # "READY_TO_MARK"
          THEN MarkObject(Main, val[Main], "js")
          ELSE Goto(Main, "js") /\ UNCHANGED <<marked, inNode, workStack, after>>
    /\ val' = [val EXCEPT ![Main] = Null]
    /\ UNCHANGED <<heap, outNode, initialized, phase, todo, marker, config, tasks, used>>

\* Bug: DISABLE takes effect while a marking goes on.
BugDisableAtOnce(type) ==
    /\ pc[Main] = "js" /\ type # enableMarkType /\ Use("ops", MaxOps)
    /\ enableMarkType' = type
    /\ UNCHANGED <<heap, marked, nodes, threads, todo, marker, markingInProgress, tasks>>

\* EnableConcurrentMarking: DISABLE is postponed to the end of the collection.
EnableConcurrentMarking(type) ==
    /\ pc[Main] = "js" /\ type # enableMarkType /\ Use("ops", MaxOps)
    /\ enableMarkType' = IF IsEnabled /\ status # "READY_TO_MARK" /\ type = "DISABLE"
                            THEN "REQUEST_DISABLE" ELSE type
    /\ UNCHANGED <<heap, marked, nodes, threads, todo, marker, markingInProgress, tasks>>

-----------------------------------------------------------------------------
(* Starting a marking                                                       *)

TryIncreaseTaskCounts == taskCounts + 1 < Cardinality(Workers)

\* WorkManager::Initialize gives every thread two empty nodes; MarkRoots starts.
InitializeWork ==
    /\ runningTaskCount = 0
    /\ inNode' = [t \in Threads |-> {}] /\ outNode' = [t \in Threads |-> {}]
    /\ initialized' = TRUE
    /\ todo' = roots
    /\ Goto(Main, "roots")

\* TriggerConcurrentMarking, Mark, InitializeMarking up to MarkRoots.
TriggerConcurrentMarking ==
    /\ pc[Main] = "js" /\ IsEnabled /\ status = "READY_TO_MARK"
    /\ TryIncreaseTaskCounts /\ Use("markings", MaxMarkings)
    /\ taskCounts' = taskCounts + 1
    /\ InitializeWork
    /\ isConcurrentMarking' = TRUE /\ status' = "MARKING"
    /\ phase' = [phase EXCEPT ![Main] = "initialize"]
    /\ UNCHANGED <<heap, marked, workStack, val, after, notifyMarkingFinished, vmThreadWait, mutex,
                   early, config, runningTaskCount, markerTasks, gcTasks>>

MarkRoot(o) ==
    /\ pc[Main] = "roots" /\ o \in todo
    /\ todo' = todo \ {o}
    /\ MarkObject(Main, o, "roots")
    /\ UNCHANGED <<heap, outNode, initialized, phase, val, marker, config, tasks, used>>

\* MarkRoots ends: the node of Main becomes visible to the other threads.  A concurrent
\* marking posts its MarkerTask; a collection goes on with ProcessMarkStack.
MarkRootsDone ==
    /\ pc[Main] = "roots" /\ todo = {}
    /\ workStack' = IF inNode[Main] = {} THEN workStack ELSE workStack \cup {inNode[Main]}
    /\ inNode' = [inNode EXCEPT ![Main] = {}]
    /\ IF phase[Main] = "initialize"
          THEN /\ markerTasks' = markerTasks + 1
               /\ Goto(Main, "js")
               /\ phase' = [phase EXCEPT ![Main] = "none"]
          ELSE /\ Goto(Main, "pop")
               /\ UNCHANGED <<markerTasks, phase>>
    /\ UNCHANGED <<heap, marked, outNode, initialized, val, after, todo, marker, config,
                   runningTaskCount, taskCounts, gcTasks, used>>

-----------------------------------------------------------------------------
(* The workers                                                              *)

RunMarkerTask(w) ==
    /\ pc[w] = "idle" /\ markerTasks > 0
    /\ markerTasks' = markerTasks - 1
    /\ Goto(w, "start") /\ phase' = [phase EXCEPT ![w] = "marker"]
    /\ UNCHANGED <<heap, marked, nodes, val, after, todo, marker, config, runningTaskCount,
                   taskCounts, gcTasks, used>>

RunParallelGCTask(w) ==
    /\ pc[w] = "idle" /\ gcTasks > 0
    /\ gcTasks' = gcTasks - 1
    /\ Goto(w, "start") /\ phase' = [phase EXCEPT ![w] = "parallel"]
    /\ UNCHANGED <<heap, marked, nodes, val, after, todo, marker, config, runningTaskCount,
                   taskCounts, markerTasks, used>>

\* Both tasks spin until the WorkManager is initialised.
HasInitialized(w) ==
    /\ pc[w] = "start" /\ initialized
    /\ Goto(w, "pop")
    /\ UNCHANGED <<heap, marked, nodes, phase, val, after, todo, marker, config, tasks, used>>

\* Bug: the count is left as it is.
BugReduceForgotten(w) ==
    /\ pc[w] = "reduce"
    /\ Goto(w, "idle") /\ phase' = [phase EXCEPT ![w] = "none"]
    /\ UNCHANGED <<heap, marked, nodes, val, after, todo, marker, config, tasks, used>>

ReduceTaskCount(w) ==
    /\ pc[w] = "reduce"
    /\ runningTaskCount' = runningTaskCount - 1
    /\ Goto(w, "idle") /\ phase' = [phase EXCEPT ![w] = "none"]
    /\ UNCHANGED <<heap, marked, nodes, val, after, todo, marker, config, taskCounts,
                   markerTasks, gcTasks, used>>

\* The MarkerTask in WaitRunningTaskFinished.
WaitRunningTaskFinished(w) ==
    /\ pc[w] = "tasks" /\ runningTaskCount = 0
    /\ Goto(w, "finish")
    /\ UNCHANGED <<heap, marked, nodes, phase, val, after, todo, marker, config, tasks, used>>

\* FinishMarking up to the first thing that the JS thread can see.
FinishMarking(w) ==
    /\ pc[w] = "finish" /\ mutex = None
    /\ mutex' = w
    /\ status' = "MARK_FINISHED"
    /\ Goto(w, "notify")
    /\ UNCHANGED <<heap, marked, nodes, phase, val, after, todo, isConcurrentMarking,
                   notifyMarkingFinished, vmThreadWait, early, config, tasks, used>>

\* Bug: the JS thread that waits is not signalled.
BugFinishNoSignal(w) ==
    /\ pc[w] = "notify"
    /\ vmThreadWait' = FALSE /\ notifyMarkingFinished' = TRUE
    /\ mutex' = None
    /\ Goto(w, "decrease")
    /\ UNCHANGED <<heap, marked, nodes, phase, val, after, todo, status, isConcurrentMarking,
                   early, config, tasks, used>>

\* The rest of FinishMarking.
FinishMarkingNotify(w) ==
    /\ pc[w] = "notify"
    /\ vmThreadWait' = FALSE /\ notifyMarkingFinished' = TRUE
    /\ mutex' = None
    /\ pc' = [pc EXCEPT ![w] = "decrease",
                        ![Main] = IF vmThreadWait /\ @ = "wait" THEN "woken" ELSE @]
    /\ UNCHANGED <<heap, marked, nodes, phase, val, after, todo, status, isConcurrentMarking,
                   early, config, tasks, used>>

DecreaseTaskCounts(w) ==
    /\ pc[w] = "decrease"
    /\ taskCounts' = taskCounts - 1
    /\ Goto(w, "idle") /\ phase' = [phase EXCEPT ![w] = "none"]
    /\ UNCHANGED <<heap, marked, nodes, val, after, todo, marker, config, runningTaskCount,
                   markerTasks, gcTasks, used>>

-----------------------------------------------------------------------------
(* Collecting                                                               *)

\* CheckOngoingConcurrentMarking's condition.
Ongoing == IsEnabled /\ status # "READY_TO_MARK" /\ isConcurrentMarking

\* CollectGarbage up to the marking: it joins the ongoing one (and helps it, when it is not
\* finished), or marks by itself.
StartCollection ==
    /\ Use("collections", MaxCollections)
    /\ markingInProgress' = Ongoing
    /\ IF Ongoing
          THEN /\ Goto(Main, IF status = "MARKING" THEN "pop" ELSE "tasks")
               /\ phase' = [phase EXCEPT ![Main] = "ongoing"]
               /\ UNCHANGED <<inNode, outNode, initialized, todo>>
          ELSE /\ InitializeWork
               /\ phase' = [phase EXCEPT ![Main] = "mark"]
    /\ UNCHANGED <<heap, marked, workStack, val, after, enableMarkType, tasks, status,
                   isConcurrentMarking, notifyMarkingFinished, vmThreadWait, early>>

CollectGarbage ==
    /\ pc[Main] = "js"
    /\ StartCollection
    /\ UNCHANGED mutex

\* CheckSafepoint finds the marking finished.
CheckSafepoint ==
    /\ pc[Main] = "js" /\ status = "MARK_FINISHED" /\ isConcurrentMarking
    /\ used["collections"] < MaxCollections
    /\ Goto(Main, "handle")
    /\ UNCHANGED <<heap, marked, nodes, phase, val, after, todo, marker, config, tasks, used>>

\* HandleMarkingFinished keeps the mutex during the collection.
HandleMarkingFinished ==
    /\ pc[Main] = "handle" /\ mutex = None
    /\ IF notifyMarkingFinished
          THEN mutex' = Main /\ StartCollection
          ELSE /\ Goto(Main, "js")
               /\ UNCHANGED <<heap, marked, nodes, phase, val, after, todo, marker, config, tasks, used>>

\* WaitMarkingFinished returns, and whether that is too early is recorded.
Return ==
    /\ Goto(Main, "tasks")
    /\ early' = (early \/ status # "MARK_FINISHED")

\* WaitMarkingFinished: test and wait once.
WaitMarkingFinished ==
    /\ pc[Main] = "lock" /\ mutex = None
    /\ vmThreadWait' = (vmThreadWait \/ ~notifyMarkingFinished)
    /\ IF notifyMarkingFinished THEN Return ELSE Goto(Main, "wait") /\ UNCHANGED early
    /\ UNCHANGED <<heap, marked, nodes, phase, val, after, todo, status, isConcurrentMarking,
                   notifyMarkingFinished, mutex, config, tasks, used>>

WaitMarkingFinishedReturns ==
    /\ pc[Main] = "woken" /\ mutex = None
    /\ Return
    /\ UNCHANGED <<heap, marked, nodes, phase, val, after, todo, status, isConcurrentMarking,
                   notifyMarkingFinished, vmThreadWait, mutex, config, tasks, used>>

SpuriousWakeup ==
    /\ pc[Main] = "wait" /\ Use("spurious", MaxSpurious)
    /\ Goto(Main, "woken")
    /\ UNCHANGED <<heap, marked, nodes, phase, val, after, todo, marker, config, tasks>>

\* Bug: ReMark does not wait for the tasks.
BugReMarkNoWait ==
    /\ pc[Main] = "tasks"
    /\ IF phase[Main] = "ongoing"
          THEN todo' = roots /\ Goto(Main, "roots") /\ phase' = [phase EXCEPT ![Main] = "mark"]
          ELSE Goto(Main, "sweep") /\ UNCHANGED <<todo, phase>>
    /\ UNCHANGED <<heap, marked, nodes, val, after, marker, config, tasks, used>>

\* WaitRunningTaskFinished in CheckOngoingConcurrentMarking, after which ReMark visits the
\* roots again, and at the end of ReMark and PartialGC::Mark.
MainWaitRunningTaskFinished ==
    /\ pc[Main] = "tasks" /\ runningTaskCount = 0
    /\ IF phase[Main] = "ongoing"
          THEN todo' = roots /\ Goto(Main, "roots") /\ phase' = [phase EXCEPT ![Main] = "mark"]
          ELSE Goto(Main, "sweep") /\ UNCHANGED <<todo, phase>>
    /\ UNCHANGED <<heap, marked, nodes, val, after, marker, config, tasks, used>>

\* The rest of the collection: white objects are freed, the mark bits cleared, the marker
\* is Reset if it took part, a postponed DISABLE takes effect.  When HandleMarkingFinished
\* called, the mutex is kept for the callbacks and released.
FinishCollection ==
    /\ pc[Main] = "sweep"
    /\ allocated' = allocated \cap marked
    /\ marked' = {}
    /\ initialized' = FALSE
    /\ IF markingInProgress
          THEN status' = "READY_TO_MARK" /\ isConcurrentMarking' = FALSE /\ notifyMarkingFinished' = FALSE
          ELSE UNCHANGED <<status, isConcurrentMarking, notifyMarkingFinished>>
    /\ enableMarkType' = IF enableMarkType = "REQUEST_DISABLE" THEN "DISABLE" ELSE enableMarkType
    /\ markingInProgress' = FALSE
    /\ phase' = [phase EXCEPT ![Main] = "none"]
    /\ Goto(Main, "js")
    /\ \/ mutex = Main /\ Use("callbacks", MaxCallbacks) /\ UNCHANGED mutex
       \/ mutex' = (IF mutex = Main THEN None ELSE mutex) /\ UNCHANGED used
    /\ UNCHANGED <<field, roots, inNode, outNode, workStack, val, after, todo, vmThreadWait, early, tasks>>

\* The callbacks have returned, and so does HandleMarkingFinished.
HandleMarkingFinishedReturns ==
    /\ pc[Main] = "js" /\ mutex = Main
    /\ mutex' = None
    /\ UNCHANGED <<heap, marked, nodes, threads, todo, status, isConcurrentMarking,
                   notifyMarkingFinished, vmThreadWait, early, config, tasks, used>>

-----------------------------------------------------------------------------

\* The JS thread may have nothing more to do; a worker that spins goes on spinning.
Finished ==
    /\ pc[Main] = "js" /\ \A w \in Workers : pc[w] \in {"idle", "start"}
    /\ UNCHANGED vars

MarkStep(t) == Pop(t) \/ PopFails(t) \/ Visit(t) \/ PostParallelGCTask(t)

WorkerStep(w) ==
    \/ RunMarkerTask(w) \/ RunParallelGCTask(w) \/ HasInitialized(w) \/ MarkStep(w)
    \/ ReduceTaskCount(w)
    \/ WaitRunningTaskFinished(w) \/ FinishMarking(w) \/ FinishMarkingNotify(w)
    \/ DecreaseTaskCounts(w)

JSStep ==
    \/ \E o \in Objects : \/ Load(o) \/ Drop(o) \/ Allocate(o)
                          \/ \E v \in Objects \cup {Null} : SetObject(o, v)
    \/ \E type \in MarkTypes : EnableConcurrentMarking(type)
    \/ TriggerConcurrentMarking \/ CollectGarbage

MainStep ==
    \/ WriteBarrier \/ MarkStep(Main) \/ MarkRootsDone \/ \E o \in Objects : MarkRoot(o)
    \/ CheckSafepoint \/ HandleMarkingFinished \/ WaitMarkingFinished
    \/ WaitMarkingFinishedReturns \/ MainWaitRunningTaskFinished \/ FinishCollection
    \/ HandleMarkingFinishedReturns

Next ==
    \/ \E w \in Workers : WorkerStep(w)
    \/ JSStep \/ MainStep \/ SpuriousWakeup \/ Finished

Spec == Init /\ [][Next]_vars

\* The threads are scheduled, and JS code reaches a safepoint.
Fairness ==
    /\ \A w \in Workers : WF_vars(WorkerStep(w))
    /\ WF_vars(MainStep)

FairSpec == Spec /\ Fairness

-----------------------------------------------------------------------------
(* Properties                                                               *)

\* No root and no object that is kept refers to an object that was freed: a collection
\* frees only what marking was right to leave white, as long as WaitMarkingFinished has
\* waited for the end of the marking.
NoDanglingReference ==
    ~early => /\ roots \subseteq allocated
              /\ \A o \in allocated : field[o] # Null => field[o] \in allocated

\* ReMark and PartialGC::Mark end with every stack empty and every other thread out of the
\* mark stack: nothing marks after them, as long as WaitMarkingFinished has waited.
MarkingIsOver ==
    pc[Main] = "sweep" /\ ~early =>
       /\ workStack = {} /\ \A t \in Threads : inNode[t] = {} /\ outNode[t] = {}
       /\ \A w \in Workers : pc[w] \notin {"pop", "visit", "count", "post"}

\* WorkManager::Initialize finds the manager not initialised ("this branch is unreachable"),
\* as long as WaitMarkingFinished has waited for the end of the marking.
InitializedOnce ==
    ~early => /\ pc[Main] = "js" /\ initialized => Ongoing
              /\ status # "READY_TO_MARK" => initialized

\* runningTaskCount_ counts the ParallelGCTasks that wait in the pool or run, and those that
\* are about to be posted: the waits for it never pass beside a task that has not marked.
TasksCounted ==
    runningTaskCount = gcTasks + Cardinality({w \in Workers : phase[w] = "parallel"})
                               + Cardinality({t \in Threads : pc[t] = "post"})

\* A marking that has started finishes, though its MarkerTask occupies a thread of the pool
\* while it waits for the tasks that it posted.
MarkingFinishes == status = "MARKING" ~> status # "MARKING"

\* A collection returns to JS code: its waits end.
CollectionReturns == pc[Main] # "js" ~> pc[Main] = "js"

\* concurrent_marker.cpp:94, of WaitMarkingFinished: "call in EcmaVm thread, wait for mark
\* finished": when it has returned to the collection, the marking is finished.
WaitedMeansFinished ==
    pc[Main] = "tasks" /\ phase[Main] = "ongoing" => status = "MARK_FINISHED"

\* js_thread.cpp:251: "the second callback may lead to another GC": such a collection never
\* waits for the mutex that its own caller holds.
NoSelfDeadlock == ~(pc[Main] \in {"lock", "handle"} /\ mutex = Main)
=============================================================================
