------------------------- MODULE ConcurrentSweeper -------------------------
(***************************************************************************)
(* Concurrent sweeping of the local heap, beside JS code and beside the    *)
(* task that clears the mark bits.                                         *)
(*                                                                         *)
(*   ecmascript/mem/concurrent_sweeper.{h,cpp}  the tasks and their waits  *)
(*   ecmascript/mem/sparse_space.cpp            the lists of each space    *)
(*   ecmascript/mem/region.h, region-inl.h      remembered sets, the flag  *)
(*   ecmascript/mem/parallel_evacuator.cpp      UpdateRSet                 *)
(*   ecmascript/mem/heap.cpp, heap-inl.h        Prepare, Resume,           *)
(*                                              ReclaimRegions             *)
(*                                                                         *)
(* A critical section of lock_ of a space or of a mutex of the sweeper is  *)
(* one step.  A remembered set is Null or a set of slots.  Two slots of    *)
(* each region refer to young objects at first; JS code stores to "hot"    *)
(* again and again, never to "cold".  "dead" is a slot of an object that   *)
(* the last marking did not reach.                                         *)
(* The order in which regions are swept depends on their live sizes, so    *)
(* any region of a list may be taken.                                      *)
(***************************************************************************)
EXTENDS Naturals, Sequences, FiniteSets

CONSTANTS Regions, SpaceOf, Workers, Main, Null, MaxCalls

OLD_SPACE     == 0
NON_MOVABLE   == 1
FREE_LIST_NUM == 3
Spaces == 0..(FREE_LIST_NUM - 1)

ASSUME SweeperAssumption ==
    /\ SpaceOf \in [Regions -> Spaces]
    /\ Main \notin Workers /\ Null \notin Regions
    /\ MaxCalls \in Nat

Threads == Workers \cup {Main}
CLEAR == FREE_LIST_NUM   \* AsyncClearTask among the tasks, after the three SweeperTasks

VARIABLES
    enableType,         \* enableType_
    isSweeping,         \* isSweeping_
    startSpaceType,     \* startSpaceType_
    remaining,          \* remainingTaskNum_
    sweepState,         \* sweepState_ of each space
    sweepingList,       \* the regions in a sweepingList_
    sweptList,          \* the regions in a sweptList_
    filled,             \* the regions whose free memory the allocator has
    hasBeenSwept,       \* the regions with HAS_BEEN_SWEPT
    oldToNewSet, sweepingRSet,  \* the remembered sets of each region
    marked,             \* the regions whose mark bits are those of the last marking
    taskQueue,          \* the tasks posted to the pool
    clearTaskFinished,  \* clearTaskFinished_
    pc, task,           \* where each thread is, and the task of a worker
    index,              \* the space a thread is at, or i of its loop over the spaces
    region,             \* the region a thread sweeps
    op,                 \* what the JS thread does: "js", or the call it is in
    young,              \* the slots of each region that refer to young objects
    stale,              \* the regions that had the flag before this sweeping began
    calls               \* how many calls JS code has made

sweeper == <<enableType, isSweeping, startSpaceType>>
lists   == <<sweepingList, sweptList, filled>>
rsets   == <<oldToNewSet, sweepingRSet, hasBeenSwept>>
ghosts  == <<young, stale>>
tasks   == <<taskQueue, clearTaskFinished>>
threads == <<pc, task, index, region>>
vars == <<sweeper, remaining, sweepState, lists, rsets, marked, tasks, threads, op, ghosts, calls>>

Slots == {"hot", "cold", "dead"}

TypeOK ==
    /\ enableType \in {"ENABLE", "CONFIG_DISABLE", "DISABLE", "REQUEST_DISABLE"} /\ isSweeping \in BOOLEAN
    /\ startSpaceType \in {OLD_SPACE, NON_MOVABLE} /\ remaining \in [Spaces -> Nat]
    /\ sweepState \in [Spaces -> {"NO_SWEEP", "SWEEPING", "SWEPT"}]
    /\ sweepingList \subseteq Regions /\ sweptList \subseteq Regions /\ filled \subseteq Regions
    /\ hasBeenSwept \subseteq Regions /\ marked \subseteq Regions
    /\ oldToNewSet \in [Regions -> SUBSET Slots \cup {Null}]
    /\ sweepingRSet \in [Regions -> SUBSET Slots \cup {Null}]
    /\ taskQueue \in Seq(Spaces \cup {CLEAR}) /\ clearTaskFinished \in BOOLEAN
    /\ pc \in [Threads -> {"idle", "get", "free", "range", "add", "set", "check", "wait", "clear",
                           "fill", "ensure", "increase", "finish", "prepared", "evacuate", "post", "resume"}]
    /\ task \in [Workers -> Spaces \cup {CLEAR, Null}]
    /\ index \in [Threads -> 0..FREE_LIST_NUM] /\ region \in [Threads -> Regions \cup {Null}]
    /\ op \in {"js", "allocate", "ensure", "old_gc", "full_gc", "fork", "finish_gc"}
    /\ young \in [Regions -> SUBSET Slots] /\ stale \subseteq Regions
    /\ calls \in Nat

\* JS code has stored references to young objects, and no collection was yet.
Init ==
    /\ enableType = "ENABLE" /\ isSweeping = FALSE /\ startSpaceType = OLD_SPACE
    /\ remaining = [s \in Spaces |-> 0] /\ sweepState = [s \in Spaces |-> "NO_SWEEP"]
    /\ sweepingList = {} /\ sweptList = {} /\ filled = Regions
    /\ hasBeenSwept = {} /\ marked = {}
    /\ oldToNewSet = [r \in Regions |-> {"hot", "cold"}] /\ sweepingRSet = [r \in Regions |-> Null]
    /\ taskQueue = <<>> /\ clearTaskFinished = TRUE
    /\ pc = [t \in Threads |-> "idle"] /\ task = [w \in Workers |-> Null]
    /\ index = [t \in Threads |-> 0] /\ region = [t \in Threads |-> Null]
    /\ op = "js" /\ young = [r \in Regions |-> {"hot", "cold"}] /\ stale = {}
    /\ calls = 0

Goto(t, label) == pc' = [pc EXCEPT ![t] = label]
Call           == calls < MaxCalls /\ calls' = calls + 1
In(list, s)    == {r \in list : SpaceOf[r] = s}

ConcurrentSweepEnabled == enableType \notin {"DISABLE", "CONFIG_DISABLE"}

\* What sweeping a region removes from a remembered set: the slots of its dead objects.
Clear(set) == IF set = Null THEN Null ELSE set \ {"dead"}

\* Bug: the set of the sweeping is dropped when a new one was created meanwhile.
BugMergeDrops(set, swept) == IF set = Null THEN swept ELSE set

Merge(set, swept) == IF swept = Null THEN set ELSE IF set = Null THEN swept ELSE set \cup swept

\* MergeRSetForConcurrentSweeping for the regions of R.
MergeRSetForConcurrentSweeping(R) ==
    /\ oldToNewSet' = [r \in Regions |-> IF r \in R THEN Merge(oldToNewSet[r], sweepingRSet[r]) ELSE oldToNewSet[r]]
    /\ sweepingRSet' = [r \in Regions |-> IF r \in R THEN Null ELSE sweepingRSet[r]]

-----------------------------------------------------------------------------
(* The tasks                                                                *)

\* The space a thread is at: each SweeperTask begins its round with its own.
SpaceAt(t) ==
    IF t \in Workers /\ task[t] # CLEAR
       THEN ((index[t] + task[t]) % (FREE_LIST_NUM - startSpaceType)) + startSpaceType
       ELSE index[t]

\* Bug: the mark bits are cleared without waiting for the sweeping.
BugClearWithoutWait(w) ==
    /\ pc[w] = "idle" /\ taskQueue # <<>>
    /\ taskQueue' = Tail(taskQueue)
    /\ task' = [task EXCEPT ![w] = Head(taskQueue)]
    /\ index' = [index EXCEPT ![w] = startSpaceType]
    /\ Goto(w, IF Head(taskQueue) # CLEAR THEN "get" ELSE "clear")
    /\ UNCHANGED <<sweeper, remaining, sweepState, lists, rsets, marked, clearTaskFinished, region, op, ghosts, calls>>

\* A worker takes a task: SweeperTask::Run begins, or ReclaimRegions calls WaitAllTaskFinished.
RunTask(w) ==
    /\ pc[w] = "idle" /\ taskQueue # <<>>
    /\ taskQueue' = Tail(taskQueue)
    /\ task' = [task EXCEPT ![w] = Head(taskQueue)]
    /\ index' = [index EXCEPT ![w] = startSpaceType]
    /\ Goto(w, IF Head(taskQueue) # CLEAR THEN "get" ELSE IF isSweeping THEN "check" ELSE "clear")
    /\ UNCHANGED <<sweeper, remaining, sweepState, lists, rsets, marked, clearTaskFinished, region, op, ghosts, calls>>

\* Bug: the region stays in the list.
BugGetWithoutPop(t) ==
    /\ pc[t] = "get"
    /\ \E r \in In(sweepingList, SpaceAt(t)) : region' = [region EXCEPT ![t] = r]
    /\ Goto(t, "free")
    /\ UNCHANGED <<sweeper, remaining, sweepState, lists, rsets, marked, tasks, task, index, op, ghosts, calls>>

GetSweepingRegionSafe(t) ==
    /\ pc[t] = "get"
    /\ \E r \in In(sweepingList, SpaceAt(t)) :
          /\ sweepingList' = sweepingList \ {r}
          /\ region' = [region EXCEPT ![t] = r]
    /\ Goto(t, "free")
    /\ UNCHANGED <<sweeper, remaining, sweepState, sweptList, filled, rsets, marked, tasks, task, index, op, ghosts, calls>>

\* FreeRegion by a worker, up to the first dead range: AtomicClearSweepingRSetInRange finds
\* that the region has a set for the sweeping.
FreeRegion(w) ==
    /\ pc[w] = "free"
    /\ IF ConcurrentSweepEnabled
          THEN UNCHANGED oldToNewSet
          ELSE oldToNewSet' = [oldToNewSet EXCEPT ![region[w]] = Clear(@)]
    /\ Goto(w, IF ConcurrentSweepEnabled /\ sweepingRSet[region[w]] # Null THEN "range" ELSE "add")
    /\ UNCHANGED <<sweeper, remaining, sweepState, lists, sweepingRSet, hasBeenSwept, marked, tasks, task, index, region, op, ghosts, calls>>

\* The set that was found is cleared, though the JS thread may have taken it over since.
AtomicClearRange(w) ==
    /\ pc[w] = "range"
    /\ IF sweepingRSet[region[w]] # Null
          THEN sweepingRSet' = [sweepingRSet EXCEPT ![region[w]] = Clear(@)] /\ UNCHANGED oldToNewSet
          ELSE oldToNewSet' = [oldToNewSet EXCEPT ![region[w]] = Clear(@)] /\ UNCHANGED sweepingRSet
    /\ Goto(w, "add")
    /\ UNCHANGED <<sweeper, remaining, sweepState, lists, hasBeenSwept, marked, tasks, task, index, region, op, ghosts, calls>>

AddSweptRegionSafe(w) ==
    /\ pc[w] = "add"
    /\ sweptList' = sweptList \cup {region[w]}
    /\ Goto(w, "set")
    /\ UNCHANGED <<sweeper, remaining, sweepState, sweepingList, filled, rsets, marked, tasks, task, index, region, op, ghosts, calls>>

SetSwept(w) ==
    /\ pc[w] = "set"
    /\ hasBeenSwept' = hasBeenSwept \cup {region[w]}
    /\ region' = [region EXCEPT ![w] = Null]
    /\ Goto(w, "get")
    /\ UNCHANGED <<sweeper, remaining, sweepState, lists, oldToNewSet, sweepingRSet, marked, tasks, task, index, op, ghosts, calls>>

\* The end of AsyncSweepSpace, when the list is empty (it stays so): the last thread wakes
\* those of W that wait for the space.  The JS thread goes on to wait, a worker to the next space.
ReduceAndSignal(t, W) ==
    /\ pc[t] = "get" /\ In(sweepingList, SpaceAt(t)) = {}
    /\ remaining' = [remaining EXCEPT ![SpaceAt(t)] = @ - 1]
    /\ LET last == t \in Workers /\ index[t] + 1 = FREE_LIST_NUM
           next == IF t = Main THEN "check" ELSE IF last THEN "idle" ELSE "get" IN
       /\ pc' = [u \in Threads |->
                    IF u = t THEN next
                    ELSE IF remaining'[SpaceAt(t)] = 0 /\ u \in W /\ pc[u] = "wait" /\ SpaceAt(u) = SpaceAt(t) THEN "check"
                    ELSE pc[u]]
       /\ index' = IF t = Main THEN index ELSE [index EXCEPT ![t] = IF last THEN 0 ELSE @ + 1]
       /\ task' = IF last THEN [task EXCEPT ![t] = Null] ELSE task
    /\ UNCHANGED <<sweeper, sweepState, lists, rsets, marked, tasks, region, op, ghosts, calls>>

\* Bugs: one of the waiting threads is signalled, and the other is not.
BugSignalsTask(t) == ReduceAndSignal(t, Workers)
BugSignalsMain(t) == ReduceAndSignal(t, {Main})

\* SignalAll.
ReduceRemainingTask(t) == ReduceAndSignal(t, Threads)

\* The tests of the wait loops, in WaitingTaskFinish (the JS thread) and WaitAllTaskFinished.
WaitTask(t) ==
    /\ pc[t] = "check"
    /\ IF remaining[index[t]] > 0 THEN Goto(t, "wait") /\ UNCHANGED index
       ELSE IF t = Main THEN Goto(t, "finish") /\ UNCHANGED index
       ELSE IF index[t] + 1 = FREE_LIST_NUM THEN Goto(t, "clear") /\ UNCHANGED index
       ELSE index' = [index EXCEPT ![t] = @ + 1] /\ UNCHANGED pc
    /\ UNCHANGED <<sweeper, remaining, sweepState, lists, rsets, marked, tasks, task, region, op, ghosts, calls>>

\* A condition variable may wake without a signal.
SpuriousWakeup(t) ==
    /\ pc[t] = "wait" /\ Goto(t, "check")
    /\ UNCHANGED <<sweeper, remaining, sweepState, lists, rsets, marked, tasks, task, index, region, op, ghosts, calls>>

\* The end of ReclaimRegions.
ClearMarkGCBitset(w) ==
    /\ pc[w] = "clear"
    /\ marked' = {} /\ clearTaskFinished' = TRUE
    /\ task' = [task EXCEPT ![w] = Null] /\ index' = [index EXCEPT ![w] = 0]
    /\ Goto(w, "idle")
    /\ UNCHANGED <<sweeper, remaining, sweepState, lists, rsets, taskQueue, region, op, ghosts, calls>>

-----------------------------------------------------------------------------
(* The JS thread waits for a space, and takes what is swept                 *)

\* WaitingTaskFinish: the first test, without the mutex.
WaitingTaskFinish ==
    /\ pc[Main] = "ensure"
    /\ Goto(Main, IF remaining[index[Main]] > 0 THEN "increase" ELSE "finish")
    /\ UNCHANGED <<sweeper, remaining, sweepState, lists, rsets, marked, tasks, task, index, region, op, ghosts, calls>>

\* Bug: the JS thread sweeps uncounted.
BugNotCounted ==
    /\ pc[Main] = "increase"
    /\ Goto(Main, "get")
    /\ UNCHANGED <<sweeper, remaining, sweepState, lists, rsets, marked, tasks, task, index, region, op, ghosts, calls>>

\* Bug: the JS thread takes one of the tasks as its own.
BugDecreases ==
    /\ pc[Main] = "increase"
    /\ remaining' = [remaining EXCEPT ![index[Main]] = @ - 1]
    /\ Goto(Main, "get")
    /\ UNCHANGED <<sweeper, sweepState, lists, rsets, marked, tasks, task, index, region, op, ghosts, calls>>

IncreaseRemainingTask ==
    /\ pc[Main] = "increase"
    /\ remaining' = [remaining EXCEPT ![index[Main]] = @ + 1]
    /\ Goto(Main, "get")
    /\ UNCHANGED <<sweeper, sweepState, lists, rsets, marked, tasks, task, index, region, op, ghosts, calls>>

\* FreeRegion by the JS thread, whose free memory goes straight to the allocator, and the merge.
MainFreeRegion ==
    /\ pc[Main] = "free"
    /\ LET r == region[Main] IN
       /\ oldToNewSet' = [oldToNewSet EXCEPT ![r] = Merge(@, Clear(sweepingRSet[r]))]
       /\ sweepingRSet' = [sweepingRSet EXCEPT ![r] = Null]
       /\ filled' = filled \cup {r}
    /\ region' = [region EXCEPT ![Main] = Null]
    /\ Goto(Main, "get")
    /\ UNCHANGED <<sweeper, remaining, sweepState, sweepingList, sweptList, hasBeenSwept, marked, tasks, task, index, op, ghosts, calls>>

\* One round of the loop of TryFillSweptRegion.
FillSweptRegion ==
    /\ pc[Main] \in {"fill", "finish"}
    /\ \E r \in In(sweptList, index[Main]) :
          /\ sweptList' = sweptList \ {r} /\ filled' = filled \cup {r}
          /\ hasBeenSwept' = hasBeenSwept \ {r}
          /\ MergeRSetForConcurrentSweeping({r})
    /\ UNCHANGED <<sweeper, remaining, sweepState, sweepingList, marked, tasks, threads, op, ghosts, calls>>

\* TryFillSweptRegion ends: in an allocation that may have to wait for the tasks of the
\* space, or in the last loop of a collection.
TryFillSweptRegionReturns ==
    /\ pc[Main] = "fill" /\ In(sweptList, index[Main]) = {}
    /\ \/ /\ op = "allocate" /\ op' = "js"
          /\ Goto(Main, "idle") /\ UNCHANGED index
       \/ /\ op = "allocate" /\ isSweeping
          /\ Goto(Main, "ensure") /\ UNCHANGED <<op, index>>
       \/ /\ op = "finish_gc" /\ index[Main] + 1 < FREE_LIST_NUM
          /\ index' = [index EXCEPT ![Main] = @ + 1] /\ UNCHANGED <<pc, op>>
       \/ /\ op = "finish_gc" /\ index[Main] + 1 = FREE_LIST_NUM
          /\ op' = "js" /\ Goto(Main, "idle") /\ UNCHANGED index
    /\ UNCHANGED <<sweeper, remaining, sweepState, lists, rsets, marked, tasks, task, region, ghosts, calls>>

\* FinishFillSweptRegion ends WaitingTaskFinish; after the last space so does
\* EnsureAllTaskFinished.
FinishFillSweptRegion ==
    /\ pc[Main] = "finish" /\ In(sweptList, index[Main]) = {}
    /\ sweepState' = [sweepState EXCEPT ![index[Main]] = "SWEPT"]
    /\ IF op # "allocate" /\ index[Main] + 1 < FREE_LIST_NUM
          THEN /\ index' = [index EXCEPT ![Main] = @ + 1]
               /\ Goto(Main, "ensure")
               /\ UNCHANGED <<isSweeping, enableType, op>>
          ELSE /\ Goto(Main, IF op \in {"old_gc", "full_gc", "fork"} THEN "prepared" ELSE "idle")
               /\ op' = IF op \in {"old_gc", "full_gc", "fork"} THEN op ELSE "js"
               /\ isSweeping' = (isSweeping /\ op = "allocate")
               /\ enableType' = IF op # "allocate" /\ enableType = "REQUEST_DISABLE" THEN "DISABLE" ELSE enableType
               /\ UNCHANGED index
    /\ UNCHANGED <<startSpaceType, remaining, lists, rsets, marked, tasks, task, region, ghosts, calls>>

-----------------------------------------------------------------------------
(* JS code                                                                  *)

\* Bug: the barrier takes the set over before the region is swept.
BugTakesOver(r) ==
    /\ pc[Main] = "idle"
    /\ young' = [young EXCEPT ![r] = @ \cup {"hot"}]
    /\ LET set == Merge(oldToNewSet[r], sweepingRSet[r]) IN
       oldToNewSet' = [oldToNewSet EXCEPT ![r] = (IF set = Null THEN {} ELSE set) \cup {"hot"}]
    /\ sweepingRSet' = [sweepingRSet EXCEPT ![r] = Null]
    /\ UNCHANGED <<sweeper, remaining, sweepState, lists, hasBeenSwept, marked, tasks, threads, op, stale, calls>>

\* The barrier of a store of a young object: GetOrCreateOldToNewRememberedSet, and the slot.
Store(r) ==
    /\ pc[Main] = "idle"
    /\ young' = [young EXCEPT ![r] = @ \cup {"hot"}]
    /\ LET takeOver == oldToNewSet[r] = Null /\ sweepingRSet[r] # Null /\ r \in hasBeenSwept
           set == IF takeOver THEN sweepingRSet[r] ELSE IF oldToNewSet[r] = Null THEN {} ELSE oldToNewSet[r] IN
       /\ oldToNewSet' = [oldToNewSet EXCEPT ![r] = set \cup {"hot"}]
       /\ sweepingRSet' = [sweepingRSet EXCEPT ![r] = IF takeOver THEN Null ELSE @]
    /\ UNCHANGED <<sweeper, remaining, sweepState, lists, hasBeenSwept, marked, tasks, threads, op, stale, calls>>

\* An allocation that finds the free lists empty: AllocateAfterSweepingCompleted.
Allocate(s) ==
    /\ pc[Main] = "idle" /\ sweepState[s] = "SWEEPING" /\ Call
    /\ op' = "allocate"
    /\ index' = [index EXCEPT ![Main] = s]
    /\ Goto(Main, IF In(sweptList, s) # {} THEN "fill" ELSE "ensure")
    /\ UNCHANGED <<sweeper, remaining, sweepState, lists, rsets, marked, tasks, task, region, ghosts>>

\* EnsureAllTaskFinished, by itself (a heap query, the report of an OOM) or in Prepare.
EnsureAllTaskFinished(why) ==
    /\ pc[Main] = "idle" /\ op' = why
    /\ index' = [index EXCEPT ![Main] = startSpaceType]
    /\ Goto(Main, IF isSweeping THEN "ensure" ELSE "prepared")
    /\ UNCHANGED <<sweeper, remaining, sweepState, lists, rsets, marked, tasks, task, region, ghosts>>

QueryHeap == isSweeping /\ Call /\ EnsureAllTaskFinished("ensure")

CollectGarbage(type) == Call /\ EnsureAllTaskFinished(type)

\* Bug: DISABLE takes effect while the tasks sweep.
BugDisableAtOnce(type) ==
    /\ pc[Main] = "idle" /\ enableType \notin {type, "CONFIG_DISABLE"} /\ Call
    /\ enableType' = type
    /\ UNCHANGED <<isSweeping, startSpaceType, remaining, sweepState, lists, rsets, marked, tasks, threads, op, ghosts>>

EnableConcurrentSweep(type) ==
    /\ pc[Main] = "idle" /\ enableType \notin {type, "CONFIG_DISABLE"} /\ Call
    /\ enableType' = IF ConcurrentSweepEnabled /\ isSweeping /\ type = "DISABLE" THEN "REQUEST_DISABLE" ELSE type
    /\ UNCHANGED <<isSweeping, startSpaceType, remaining, sweepState, lists, rsets, marked, tasks, threads, op, ghosts>>

\* DisableParallelGC, before a fork: WaitAllTasksFinished, and then ConfigConcurrentSweep(false).
DisableParallelGC == Call /\ EnsureAllTaskFinished("fork")

ConfigConcurrentSweep ==
    /\ pc[Main] = "prepared" /\ op = "fork" /\ clearTaskFinished
    /\ enableType' = "CONFIG_DISABLE"
    /\ op' = "js" /\ Goto(Main, "idle")
    /\ UNCHANGED <<isSweeping, startSpaceType, remaining, sweepState, lists, rsets, marked, tasks, task, index, region, ghosts, calls>>

\* EnableParallelGC, after the fork: ConfigConcurrentSweep(true).
EnableParallelGC ==
    /\ pc[Main] = "idle" /\ enableType = "CONFIG_DISABLE"
    /\ enableType' = "ENABLE"
    /\ UNCHANGED <<isSweeping, startSpaceType, remaining, sweepState, lists, rsets, marked, tasks, threads, op, ghosts, calls>>

-----------------------------------------------------------------------------
(* The collection                                                           *)

\* A remembered set after the marking: some slots belong to dead objects.  A full collection
\* clears the sets and leaves no young object.
Aged(r) ==
    IF oldToNewSet[r] = Null THEN Null ELSE IF op = "full_gc" THEN {} ELSE oldToNewSet[r] \cup {"dead"}

\* WaitClearTaskFinished, the marking, and Sweep.  A full collection has moved the objects
\* of the old space to new regions, where nothing is dead.
Sweep ==
    /\ pc[Main] = "prepared" /\ op # "fork" /\ clearTaskFinished
    /\ LET start == IF op = "full_gc" THEN NON_MOVABLE ELSE OLD_SPACE
           R == {r \in Regions : SpaceOf[r] >= start} IN
       /\ marked' = Regions
       /\ young' = IF op = "full_gc" THEN [r \in Regions |-> {}] ELSE young
       /\ stale' = hasBeenSwept \cap R
       /\ hasBeenSwept' = hasBeenSwept \cap R
       /\ IF ConcurrentSweepEnabled
             THEN /\ sweepingRSet' = [r \in Regions |-> IF r \in R THEN Aged(r) ELSE Null]
                  /\ oldToNewSet' = [r \in Regions |-> Null]
                  /\ sweepingList' = sweepingList \cup R /\ filled' = Regions \ R
                  /\ sweepState' = [s \in Spaces |-> IF s >= start THEN "SWEEPING" ELSE "NO_SWEEP"]
                  /\ isSweeping' = TRUE /\ startSpaceType' = start
                  /\ remaining' = [s \in Spaces |-> IF s >= start THEN FREE_LIST_NUM - start ELSE remaining[s]]
             ELSE /\ oldToNewSet' = [r \in Regions |-> IF r \in R THEN Clear(Aged(r)) ELSE Null]
                  /\ filled' = Regions
                  /\ sweepState' = [s \in Spaces |-> IF s >= start THEN sweepState[s] ELSE "NO_SWEEP"]
                  /\ UNCHANGED <<sweepingRSet, sweepingList, isSweeping, startSpaceType, remaining>>
    /\ Goto(Main, IF op = "full_gc" THEN "post" ELSE "evacuate")
    /\ UNCHANGED <<enableType, sweptList, tasks, task, index, region, op, calls>>

\* An evacuation thread takes a region of the old space for itself: one that is swept
\* (TryToGetSuitableSweptRegion), or one that it sweeps (TrySweepToGetSuitableRegion),
\* and that it leaves in the swept list when it has too little room.
TryToGetExclusiveRegion(r) ==
    /\ pc[Main] = "evacuate" /\ sweepState[OLD_SPACE] = "SWEEPING" /\ SpaceOf[r] = OLD_SPACE
    /\ \/ /\ r \in sweptList
          /\ sweptList' = sweptList \ {r} /\ filled' = filled \cup {r}
          /\ hasBeenSwept' = hasBeenSwept \ {r}
          /\ MergeRSetForConcurrentSweeping({r})
          /\ UNCHANGED sweepingList
       \/ /\ r \in sweepingList
          /\ sweepingList' = sweepingList \ {r}
          /\ \/ /\ filled' = filled \cup {r} /\ hasBeenSwept' = hasBeenSwept \ {r}
                /\ oldToNewSet' = [oldToNewSet EXCEPT ![r] = Merge(@, Clear(sweepingRSet[r]))]
                /\ sweepingRSet' = [sweepingRSet EXCEPT ![r] = Null]
                /\ UNCHANGED sweptList
             \/ /\ sweptList' = sweptList \cup {r} /\ hasBeenSwept' = hasBeenSwept \cup {r}
                /\ sweepingRSet' = [sweepingRSet EXCEPT ![r] = Clear(@)]
                /\ UNCHANGED <<filled, oldToNewSet>>
    /\ UNCHANGED <<sweeper, remaining, sweepState, marked, tasks, threads, op, ghosts, calls>>

\* The end of Evacuate: UpdateRSet of every region, which merges the sets of a region
\* that has been swept.
UpdateRSet ==
    /\ pc[Main] = "evacuate"
    /\ MergeRSetForConcurrentSweeping(IF isSweeping THEN hasBeenSwept ELSE {})
    /\ Goto(Main, "post")
    /\ UNCHANGED <<sweeper, remaining, sweepState, lists, hasBeenSwept, marked, tasks, task, index, region, op, ghosts, calls>>

PostTask ==
    /\ pc[Main] = "post"
    /\ taskQueue' = IF ConcurrentSweepEnabled
                       THEN taskQueue \o (IF op = "full_gc" THEN <<1, 2>> ELSE <<0, 1, 2>>) ELSE taskQueue
    /\ Goto(Main, "resume")
    /\ UNCHANGED <<sweeper, remaining, sweepState, lists, rsets, marked, clearTaskFinished, task, index, region, op, ghosts, calls>>

\* Resume posts the AsyncClearTask; then Finish fills what is swept.
Resume ==
    /\ pc[Main] = "resume"
    /\ taskQueue' = Append(taskQueue, CLEAR) /\ clearTaskFinished' = FALSE
    /\ op' = "finish_gc" /\ index' = [index EXCEPT ![Main] = startSpaceType]
    /\ Goto(Main, "fill")
    /\ UNCHANGED <<sweeper, remaining, sweepState, lists, rsets, marked, task, region, ghosts, calls>>

-----------------------------------------------------------------------------
WorkerStep(w) ==
    \/ RunTask(w) \/ FreeRegion(w) \/ AtomicClearRange(w) \/ AddSweptRegionSafe(w) \/ SetSwept(w) \/ ClearMarkGCBitset(w)
    \/ GetSweepingRegionSafe(w) \/ ReduceRemainingTask(w) \/ WaitTask(w)

MainStep ==
    \/ GetSweepingRegionSafe(Main) \/ ReduceRemainingTask(Main) \/ WaitTask(Main)
    \/ WaitingTaskFinish \/ IncreaseRemainingTask \/ MainFreeRegion
    \/ FillSweptRegion \/ TryFillSweptRegionReturns \/ FinishFillSweptRegion
    \/ ConfigConcurrentSweep \/ Sweep \/ UpdateRSet \/ PostTask \/ Resume

JSStep ==
    \/ \E r \in Regions : Store(r) \/ TryToGetExclusiveRegion(r)
    \/ \E s \in Spaces : Allocate(s)
    \/ QueryHeap \/ DisableParallelGC \/ EnableParallelGC
    \/ \E type \in {"old_gc", "full_gc"} : CollectGarbage(type)
    \/ \E type \in {"ENABLE", "DISABLE"} : EnableConcurrentSweep(type)

Next == (\E w \in Workers : WorkerStep(w)) \/ MainStep \/ JSStep \/ \E t \in Threads : SpuriousWakeup(t)

Spec == Init /\ [][Next]_vars

\* Every step of a call or of a task changes one of these.
progress == <<pc, index, sweptList>>

\* The threads are scheduled: a call of the JS thread and a task of the pool go on.
FairSpec == Spec /\ WF_progress(MainStep) /\ \A w \in Workers : WF_progress(WorkerStep(w))

-----------------------------------------------------------------------------
(* Properties                                                               *)

\* The regions whose dead objects are not freed yet.
Unswept == sweepingList \cup {region[t] : t \in {u \in Threads : pc[u] \in {"free", "range"}}}

\* The regions a worker has swept and not listed yet.
Held == {region[w] : w \in {u \in Workers : pc[u] = "add"}}

\* Every region is in one place: to be swept, in the hands of a thread, swept, or in the free
\* lists of the allocator (GetSweepingRegionSafe, AddSweptRegionSafe, GetSweptRegionSafe);
\* two threads never sweep one region.
RegionsAccounted ==
    /\ Unswept \cup Held \cup sweptList \cup filled = Regions
    /\ sweepingList \cap (Held \cup sweptList \cup filled) = {} /\ sweptList \cap filled = {}
    /\ \A t, u \in Threads :
          pc[t] \in {"free", "range", "add"} =>
             /\ region[t] \notin sweepingList \cup sweptList \cup filled
             /\ t # u /\ pc[u] \in {"free", "range", "add"} => region[t] # region[u]

\* A space that WaitingTaskFinish has finished has no region left to sweep or to fill, and no
\* thread still sweeps it.
FinishedSpaceIsSwept ==
    \A s \in Spaces : sweepState[s] # "SWEEPING" =>
        /\ In(Unswept \cup Held \cup sweptList, s) = {}
        /\ remaining[s] = 0

\* ReclaimRegions clears the mark bits only when nothing has to be swept with them.
SweptByItsMarks == Unswept \subseteq marked

\* No store is forgotten: the slot is in one of the two remembered sets of its region.
Remembered ==
    \A r \in Regions : \A slot \in young[r] :
        \E set \in {oldToNewSet[r], sweepingRSet[r]} : set # Null /\ slot \in set

\* After a region is swept, no remembered set of it has a slot of a dead object, unless its
\* HAS_BEEN_SWEPT was left over from an earlier sweeping.
NoDeadSlot ==
    \A r \in Regions \ (Unswept \cup stale) : \A set \in {oldToNewSet[r], sweepingRSet[r]} : set # Null => "dead" \notin set

\* The remembered set that a worker has found and is about to clear is not taken over by the
\* barrier meanwhile (HAS_BEEN_SWEPT is set after the region is swept), unless the flag of
\* the region was left over from an earlier sweeping.
FoundSetStays ==
    \A w \in Workers : pc[w] = "range" /\ region[w] \notin stale => sweepingRSet[region[w]] # Null

\* Every call of the JS thread returns: an allocation, a query, a collection.
CallReturns == op # "js" ~> op = "js"

\* The AsyncClearTask finishes, though it waits for the sweeping in a thread of the pool.
ClearTaskFinishes == ~clearTaskFinished ~> clearTaskFinished
=============================================================================
