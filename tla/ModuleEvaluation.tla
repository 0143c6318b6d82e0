--------------------------- MODULE ModuleEvaluation ---------------------------
(***************************************************************************)
(* Loading ECMAScript modules: SourceTextModule::Instantiate and Evaluate, *)
(* the two depth-first walks over the import graph, and the completion of  *)
(* modules with a top-level await (TLA) from the micro job queue.          *)
(*                                                                         *)
(* One JS thread runs everything, so the state is the module records, the  *)
(* call stack of the C++ functions below, and what waits in the job queue. *)
(* A load comes from a dynamic import's job (ExecuteFromJob = TRUE) or     *)
(* from the host (FALSE); in the second case the queue is drained after    *)
(* every module body, in the middle of the walk.                           *)
(***************************************************************************)
EXTENDS Integers, Sequences, FiniteSets, SequencesExt, FiniteSetsExt

CONSTANTS
    Modules,          \* the module records
    Graphs,           \* [requests: [Modules -> Seq(Modules)], tla: SUBSET Modules]
    ExecuteFromJob,   \* BOOLEAN, the parameter executeFromJob of the loads
    MaxLoads          \* bound on the number of loads

ASSUME GraphsAssumption ==
    \A g \in Graphs : /\ DOMAIN g.requests = Modules
                      /\ \A m \in Modules : Range(g.requests[m]) \subseteq Modules
                      /\ g.tla \subseteq Modules

VARIABLES
    graph,        \* RequestedModules and HasTLA of every module
    loaded,       \* the modules in ModuleManager's resolvedModules_
    mod,          \* the fields of the module records that change
    walk,         \* the walk under way: its phase, root, stack and index
    calls,        \* the C++ call stack, newest frame last
    awaiting,     \* async bodies whose promise has the two reactions attached
    nextOrdinal,  \* ModuleManager::nextModuleAsyncEvaluatingOrdinal_
    loads,        \* history: the number of loads so far
    started,      \* history: the bodies that have been entered, in order
    finished,     \* history: the bodies that have run to their end
    spoiled       \* history: an error was used as an index, or a body was run
                  \* with the exception of another one still pending

vars == <<graph, loaded, mod, walk, calls, awaiting, nextOrdinal, loads,
          started, finished, spoiled>>

UNDEFINED_INDEX == -1
MODULE_ERROR == 1
NOT_ASYNC_EVALUATED == 0
ASYNC_EVALUATE_DID_FINISH == 1
FIRST_ASYNC_EVALUATING_ORDINAL == 2

ModuleStatus == {"UNINSTANTIATED", "INSTANTIATING", "INSTANTIATED",
                 "EVALUATING", "EVALUATING_ASYNC", "EVALUATED"}

NewSourceTextModule(m) ==
    [status |-> "UNINSTANTIATED", dfsIndex |-> UNDEFINED_INDEX,
     dfsAncestorIndex |-> UNDEFINED_INDEX, pending |-> UNDEFINED_INDEX,
     ordinal |-> NOT_ASYNC_EVALUATED, parents |-> <<>>, cycleRoot |-> m,
     error |-> UNDEFINED_INDEX]

\* A variant: the first ordinal does not count as asynchronous.
BugFirstOrdinal(m) == mod[m].ordinal > FIRST_ASYNC_EVALUATING_ORDINAL

\* A variant: every module is taken for an asynchronous one.
BugAllAwait(m) == TRUE

IsAsyncEvaluating(m) == mod[m].ordinal >= FIRST_ASYNC_EVALUATING_ORDINAL
HasTLA(m) == m \in graph.tla
Requested(m) == graph.requests[m]

NoWalk == [phase |-> "None", root |-> CHOOSE m \in Modules : TRUE, stack |-> <<>>, index |-> 0]

Init ==
    /\ graph \in Graphs
    /\ loaded = {}
    /\ mod = [m \in Modules |-> NewSourceTextModule(m)]
    /\ walk = NoWalk
    /\ calls = <<>>
    /\ awaiting = {}
    /\ nextOrdinal = FIRST_ASYNC_EVALUATING_ORDINAL
    /\ loads = 0 /\ started = <<>> /\ finished = {} /\ spoiled = FALSE

-------------------------------------------------------------------------------
(* The call stack.  An Inner frame is InnerModuleInstantiation or          *)
(* InnerModuleEvaluationUnsafe of m at its i-th request; i is one past the *)
(* requests at the body, two past them after it.  A Fulfilled frame is the *)
(* loop of AsyncModuleExecutionFulfilled, a Jobs frame the draining of the *)
(* job queue after the body of m.                                          *)

Inner(m, i) == [fn |-> "Inner", m |-> m, i |-> i]
Jobs(m) == [fn |-> "Jobs", m |-> m]
Fulfilling(todo, exception) == [fn |-> "Fulfilled", todo |-> todo, exception |-> exception]

Top == Last(calls)
Running(fn) == calls # <<>> /\ Top.fn = fn
JobsRun == calls # <<>> => Top.fn = "Jobs"
Walking == \E k \in DOMAIN calls : calls[k].fn = "Load"
Caller == Front(calls)
Advanced == Append(Caller, Inner(Top.m, Top.i + 1))

-------------------------------------------------------------------------------
(* The two walks.                                                          *)

Doing == [Instantiate |-> "INSTANTIATING", Evaluate |-> "EVALUATING"]

\* A variant: the walk of Evaluate enters a module that has been evaluated.
BugNotEvaluated ==
    [Instantiate |-> {"INSTANTIATING", "INSTANTIATED", "EVALUATING_ASYNC", "EVALUATED"},
     Evaluate    |-> {"EVALUATING", "EVALUATING_ASYNC"}]

\* The statuses at which the inner function returns at once.
Settled ==
    [Instantiate |-> {"INSTANTIATING", "INSTANTIATED", "EVALUATING_ASYNC", "EVALUATED"},
     Evaluate    |-> {"EVALUATING", "EVALUATING_ASYNC", "EVALUATED"}]

Enter(m, w, below) ==
    /\ mod' = [mod EXCEPT ![m].status = Doing[w.phase],
                          ![m].dfsIndex = w.index,
                          ![m].dfsAncestorIndex = w.index,
                          ![m].pending = IF w.phase = "Evaluate" THEN 0 ELSE @]
    /\ walk' = [w EXCEPT !.stack = Append(@, m), !.index = @ + 1]
    /\ calls' = Append(below, Inner(m, 1))
    /\ loaded' = loaded \union {m}

\* ExecuteFromAbcFile, called by DynamicImportJob for a module that is not resolved
\* yet, or by the host for any module: it is instantiated, unless it has been.
Load(r) ==
    /\ JobsRun /\ ~Walking /\ loads < MaxLoads
    /\ ExecuteFromJob => r \notin loaded
    /\ loads' = loads + 1
    /\ LET w == [phase |-> "Instantiate", root |-> r, stack |-> <<>>, index |-> 0]
           below == Append(calls, [fn |-> "Load"])
       IN IF mod[r].status \in Settled.Instantiate
          THEN walk' = w /\ calls' = below /\ UNCHANGED <<mod, loaded>>
          ELSE Enter(r, w, below)
    /\ UNCHANGED <<graph, awaiting, nextOrdinal, started, finished, spoiled>>

\* The walk of Instantiate has returned without an exception.  ExecuteFromAbcFile sets
\* the root to INSTANTIATED whatever it was, so that Evaluate enters it, also again.
Evaluate ==
    /\ Running("Load") /\ walk.phase = "Instantiate"
    /\ Enter(walk.root, [walk EXCEPT !.phase = "Evaluate", !.index = 0], calls)
    /\ UNCHANGED <<graph, awaiting, nextOrdinal, loads, started, finished, spoiled>>

\* The walk of Evaluate has returned without an exception (HandleEvaluateResult);
\* the job queue is drained at its end, as it is by the caller.
LoadReturns ==
    /\ Running("Load") /\ walk.phase = "Evaluate"
    /\ calls' = Caller
    /\ walk' = NoWalk
    /\ UNCHANGED <<graph, loaded, mod, awaiting, nextOrdinal, loads, started,
                   finished, spoiled>>

AtRequest == Running("Inner") /\ Top.i <= Len(Requested(Top.m))
AtBody(phase) == /\ Running("Inner") /\ walk.phase = phase
                 /\ Top.i = Len(Requested(Top.m)) + 1
AtEnd == Running("Inner") /\ Top.i = Len(Requested(Top.m)) + 2

Descend ==
    /\ AtRequest
    /\ LET d == Requested(Top.m)[Top.i]
       IN /\ mod[d].status \notin Settled[walk.phase]
          /\ Enter(d, walk, calls)
    /\ UNCHANGED <<graph, awaiting, nextOrdinal, loads, started, finished, spoiled>>

\* InnerModuleInstantiation of the required module returned.
InstantiatedRequest ==
    /\ AtRequest /\ walk.phase = "Instantiate"
    /\ LET d == Requested(Top.m)[Top.i]
       IN /\ mod[d].status \in Settled.Instantiate
          /\ mod' = [mod EXCEPT ![Top.m].dfsAncestorIndex =
                         IF mod[d].status = "INSTANTIATING"
                         THEN Min({@, mod[d].dfsAncestorIndex}) ELSE @]
    /\ calls' = Advanced
    /\ UNCHANGED <<graph, loaded, walk, awaiting, nextOrdinal, loads, started,
                   finished, spoiled>>

\* InnerModuleEvaluation of the required module d returned.  Outside the walk's
\* stack its cycle root c stands for d; the error of c is returned as an index.
EvaluatedRequest ==
    /\ AtRequest /\ walk.phase = "Evaluate"
    /\ LET m == Top.m
           d == Requested(m)[Top.i]
           onStack == mod[d].status = "EVALUATING"
           c == IF onStack THEN d ELSE mod[d].cycleRoot
           waits == IsAsyncEvaluating(c)
           returned == IF onStack \/ mod[d].error = UNDEFINED_INDEX
                       THEN walk.index ELSE mod[d].error
       IN /\ mod[d].status \in Settled.Evaluate
          /\ \/ /\ ~onStack /\ mod[c].error # UNDEFINED_INDEX
                /\ walk' = [walk EXCEPT !.index = mod[c].error]
                /\ calls' = Caller
                /\ spoiled' = TRUE
                /\ UNCHANGED mod
             \/ /\ onStack \/ mod[c].error = UNDEFINED_INDEX
                /\ mod' = [mod EXCEPT
                     ![m].dfsAncestorIndex = IF onStack THEN Min({@, mod[d].dfsAncestorIndex})
                                                        ELSE @,
                     ![m].pending = IF waits THEN @ + 1 ELSE @,
                     ![c].parents = IF waits THEN Append(@, m) ELSE @]
                /\ walk' = [walk EXCEPT !.index = returned]
                /\ calls' = Advanced
                /\ UNCHANGED spoiled
    /\ UNCHANGED <<graph, loaded, awaiting, nextOrdinal, loads, started, finished>>

\* A variant: the modules on the stack keep their status.
BugNoReset(m) == [mod[m] EXCEPT !.dfsIndex = UNDEFINED_INDEX,
                                !.dfsAncestorIndex = UNDEFINED_INDEX]

\* What HandleInstantiateException leaves of a module on the stack.
Reset(m) == [mod[m] EXCEPT !.status = "UNINSTANTIATED",
                           !.dfsIndex = UNDEFINED_INDEX,
                           !.dfsAncestorIndex = UNDEFINED_INDEX]

\* What HandleEvaluateResult leaves of a module on the stack.
Failed(m) == [mod[m] EXCEPT !.status = "EVALUATED", !.error = walk.index]

\* An exception ends the walk and the load.
Unwind(left) ==
    /\ mod' = [m \in Modules |-> IF m \in Range(walk.stack) THEN left[m] ELSE mod[m]]
    /\ walk' = NoWalk
    /\ calls' = SubSeq(calls, 1, (CHOOSE k \in DOMAIN calls : calls[k].fn = "Load") - 1)

\* ModuleDeclarationEnvironmentSetup binds the imports of the module, or throws.
Link ==
    /\ AtBody("Instantiate")
    /\ \/ calls' = Advanced /\ UNCHANGED <<mod, walk>>
       \/ Unwind([m \in Modules |-> Reset(m)])
    /\ UNCHANGED <<graph, loaded, awaiting, nextOrdinal, loads, started,
                   finished, spoiled>>

\* The frames after the body of m, in the walk and in the loop of
\* AsyncModuleExecutionFulfilled: the queue is drained unless executeFromJob.
AfterBody(m, frames, fromJob) == IF fromJob THEN frames ELSE Append(frames, Jobs(m))

\* A module with a TLA or with asynchronous dependencies.
EvaluateAsync ==
    /\ AtBody("Evaluate")
    /\ LET m == Top.m
       IN /\ mod[m].pending > 0 \/ HasTLA(m)
          /\ mod' = [mod EXCEPT ![m].ordinal = nextOrdinal]
          /\ nextOrdinal' = nextOrdinal + 1
          /\ \/ /\ mod[m].pending > 0
                /\ calls' = Advanced
                /\ UNCHANGED <<awaiting, started>>
             \/ /\ mod[m].pending = 0
                /\ started' = Append(started, m)
                /\ calls' = AfterBody(m, Advanced, ExecuteFromJob)
                /\ awaiting' = IF ExecuteFromJob THEN awaiting \union {m} ELSE awaiting
    /\ UNCHANGED <<graph, loaded, walk, loads, finished, spoiled>>

\* ModuleExecution in the walk; an exception unwinds it (HandleEvaluateResult).
EvaluateSync ==
    /\ AtBody("Evaluate")
    /\ LET m == Top.m
       IN /\ mod[m].pending = 0 /\ ~HasTLA(m)
          /\ started' = Append(started, m)
          /\ \/ /\ finished' = finished \union {m}
                /\ calls' = AfterBody(m, Advanced, ExecuteFromJob)
                /\ UNCHANGED <<mod, walk>>
             \/ Unwind([x \in Modules |-> Failed(x)]) /\ UNCHANGED finished
    /\ UNCHANGED <<graph, loaded, awaiting, nextOrdinal, loads, spoiled>>

\* The end of both inner functions: the root of a cycle pops the cycle.
Component(m) == Range(SubSeq(walk.stack, SelectInSeq(walk.stack, LAMBDA x : x = m),
                             Len(walk.stack)))

\* A variant: CycleRoot stays the module itself.
BugNoCycleRoot(x, m) ==
    IF walk.phase = "Instantiate"
    THEN [mod[x] EXCEPT !.status = "INSTANTIATED"]
    ELSE [mod[x] EXCEPT !.status = IF IsAsyncEvaluating(x) THEN "EVALUATING_ASYNC"
                                                           ELSE "EVALUATED"]

Popped(x, m) ==
    IF walk.phase = "Instantiate"
    THEN [mod[x] EXCEPT !.status = "INSTANTIATED"]
    ELSE [mod[x] EXCEPT !.status = IF IsAsyncEvaluating(x) THEN "EVALUATING_ASYNC"
                                                           ELSE "EVALUATED",
                        !.cycleRoot = m]

Close ==
    /\ AtEnd
    /\ LET m == Top.m
       IN IF mod[m].dfsAncestorIndex = mod[m].dfsIndex
          THEN /\ mod' = [x \in Modules |-> IF x \in Component(m) THEN Popped(x, m) ELSE mod[x]]
               /\ walk' = [walk EXCEPT !.stack = SelectSeq(@, LAMBDA x : x \notin Component(m))]
          ELSE UNCHANGED <<mod, walk>>
    /\ calls' = Caller
    /\ UNCHANGED <<graph, loaded, awaiting, nextOrdinal, loads, started, finished, spoiled>>

-------------------------------------------------------------------------------
(* The completion of asynchronous modules.                                 *)

\* Closed under AsyncModuleExecutionRejected's recursion over the parents.
RejectClosed(x, E) ==
    /\ mod[x].status # "EVALUATED" => x \in E
    /\ \A y \in E : \A p \in Range(mod[y].parents) : mod[p].status # "EVALUATED" => p \in E

\* What AsyncModuleExecutionRejected(x) leaves in the records.
AsyncModuleExecutionRejected(x) ==
    LET failed == {y \in Modules : \A E \in SUBSET Modules : RejectClosed(x, E) => y \in E}
    IN [y \in Modules |-> IF y \in failed
                          THEN [mod[y] EXCEPT !.error = MODULE_ERROR, !.status = "EVALUATED"]
                          ELSE mod[y]]

\* The modules whose parents GatherAvailableAncestors meets when it has put E
\* into execList: the recursion stops at a module with a TLA.
Gathered(x, E) == {x} \union {e \in E : ~HasTLA(e)}

\* A variant: a parent that waits twice for a module is met once.
BugVisitsOnce(x, p, E) == Cardinality({e \in Gathered(x, E) : p \in Range(mod[e].parents)})

\* How often it meets p.
Visits(x, p, E) ==
    Cardinality(UNION {{<<e, k>> : k \in {i \in DOMAIN mod[e].parents : mod[e].parents[i] = p}} :
                         e \in Gathered(x, E)})

Healthy(p) == mod[mod[p].cycleRoot].error = UNDEFINED_INDEX

GatherClosed(x, E) ==
    \A p \in Modules : /\ Healthy(p)
                       /\ Visits(x, p, E) > 0
                       /\ Visits(x, p, E) >= mod[p].pending
                       => p \in E

GatherAvailableAncestors(x) ==
    {p \in Modules : \A E \in SUBSET Modules : GatherClosed(x, E) => p \in E}

\* AsyncParentCompletionSet is ordered by the ordinals.
Sorted(E) == SetToSortSeq(E, LAMBDA p, q : mod[p].ordinal < mod[q].ordinal)

\* AsyncModuleFulfilledFunc: the body of x has run to its end.
AsyncModuleExecutionFulfilled(x) ==
    /\ JobsRun /\ x \in awaiting
    /\ awaiting' = awaiting \ {x}
    /\ finished' = finished \union {x}
    /\ IF mod[x].status = "EVALUATED"
       THEN UNCHANGED <<mod, calls>>
       ELSE LET execList == GatherAvailableAncestors(x)
                gathered(p) == IF Healthy(p)
                               THEN [mod[p] EXCEPT !.pending = Max({0, @ - Visits(x, p, execList)})]
                               ELSE mod[p]
            IN /\ mod' = [[p \in Modules |-> IF Visits(x, p, execList) > 0
                                             THEN gathered(p) ELSE mod[p]]
                          EXCEPT ![x].ordinal = ASYNC_EVALUATE_DID_FINISH,
                                 ![x].status = "EVALUATED"]
               /\ calls' = Append(calls, Fulfilling(Sorted(execList), FALSE))
    /\ UNCHANGED <<graph, loaded, walk, nextOrdinal, loads, started, spoiled>>

\* AsyncModuleRejectedFunc: the body of x has thrown.
AsyncModuleRejectedFunc(x) ==
    /\ JobsRun /\ x \in awaiting
    /\ awaiting' = awaiting \ {x}
    /\ mod' = AsyncModuleExecutionRejected(x)
    /\ UNCHANGED <<graph, loaded, walk, calls, nextOrdinal, loads, started,
                   finished, spoiled>>

\* One turn of the loop over execList.  A throwing body leaves its exception
\* pending, so that the bodies after it are rejected whatever they do.
ExecuteAvailable ==
    /\ Running("Fulfilled") /\ Top.todo # <<>>
    /\ LET m == Head(Top.todo)
           next(exception) == Append(Caller, Fulfilling(Tail(Top.todo), exception))
       IN \/ /\ mod[m].status = "EVALUATED"
             /\ calls' = next(Top.exception)
             /\ UNCHANGED <<mod, started, finished, spoiled>>
          \/ /\ mod[m].status # "EVALUATED" /\ ~Top.exception
             /\ started' = Append(started, m)
             /\ finished' = IF HasTLA(m) THEN finished ELSE finished \union {m}
             /\ calls' = AfterBody(m, next(FALSE), FALSE)
             /\ UNCHANGED <<mod, spoiled>>
          \/ /\ mod[m].status # "EVALUATED" /\ (HasTLA(m) => Top.exception)
             /\ started' = Append(started, m)
             /\ mod' = IF HasTLA(m) THEN mod ELSE AsyncModuleExecutionRejected(m)
             /\ calls' = next(TRUE)
             /\ spoiled' = (spoiled \/ Top.exception)
             /\ UNCHANGED finished
    /\ UNCHANGED <<graph, loaded, walk, awaiting, nextOrdinal, loads>>

FulfilledReturns ==
    /\ Running("Fulfilled") /\ Top.todo = <<>>
    /\ calls' = Caller
    /\ UNCHANGED <<graph, loaded, mod, walk, awaiting, nextOrdinal, loads, started,
                   finished, spoiled>>

\* The queue is empty: the reactions of an async body are attached after it, a
\* plain body run by the loop is EVALUATED after it.
JobsReturn ==
    /\ Running("Jobs")
    /\ LET m == Top.m
       IN /\ awaiting' = IF HasTLA(m) THEN awaiting \union {m} ELSE awaiting
          /\ mod' = IF ~HasTLA(m) /\ Last(Caller).fn = "Fulfilled"
                    THEN [mod EXCEPT ![m].status = "EVALUATED"] ELSE mod
    /\ calls' = Caller
    /\ UNCHANGED <<graph, loaded, walk, nextOrdinal, loads, started, finished, spoiled>>

-------------------------------------------------------------------------------
Step == \/ Evaluate \/ LoadReturns \/ Descend \/ InstantiatedRequest
        \/ EvaluatedRequest \/ Link \/ EvaluateAsync \/ EvaluateSync \/ Close
        \/ ExecuteAvailable \/ FulfilledReturns \/ JobsReturn

Settle(x) == AsyncModuleExecutionFulfilled(x) \/ AsyncModuleRejectedFunc(x)

Next == \/ \E r \in Modules : Load(r)
        \/ Step
        \/ \E x \in Modules : Settle(x)

Spec == Init /\ [][Next]_vars
FairSpec == Spec /\ WF_vars(Step) /\ \A x \in Modules : WF_vars(Settle(x))

-------------------------------------------------------------------------------
(* Properties.  A load that imports a module whose evaluation failed in an   *)
(* earlier load, and a body that is run while the exception of another one  *)
(* is pending, leave the algorithm that the comments of the code quote;     *)
(* spoiled records it, and what the properties say of the modules ends      *)
(* there.                                                                    *)

Frame == [fn : {"Load"}] \union [fn : {"Inner"}, m : Modules, i : Nat \ {0}]
         \union [fn : {"Jobs"}, m : Modules]
         \union [fn : {"Fulfilled"}, todo : Seq(Modules), exception : BOOLEAN]

\* Every field keeps its type, and only a module with a TLA is waited for
\* (ExecuteAsyncModule asserts HasTLA).
TypeOK ==
    /\ loaded \subseteq Modules /\ awaiting \subseteq graph.tla
    /\ mod \in [Modules -> [status : ModuleStatus, dfsIndex : Int, dfsAncestorIndex : Int,
                            pending : Int, ordinal : Nat, parents : Seq(Modules),
                            cycleRoot : Modules, error : Int]]
    /\ walk \in [phase : {"None", "Instantiate", "Evaluate"}, root : Modules,
                 stack : Seq(Modules), index : Nat]
    /\ \A k \in DOMAIN calls : calls[k] \in Frame
    /\ nextOrdinal \in Nat /\ loads \in 0 .. MaxLoads
    /\ started \in Seq(Modules) /\ finished \subseteq Modules /\ spoiled \in BOOLEAN

\* The modules m imports, directly or not.
ReachClosed(m, E) == \A x \in E \union {m} : Range(Requested(x)) \subseteq E
Reachable(m) == {d \in Modules : \A E \in SUBSET Modules : ReachClosed(m, E) => d \in E}
SameCycle(m, d) == m = d \/ (d \in Reachable(m) /\ m \in Reachable(d))

\* What m imports through requests that leave its cycle.
Outside(m) == UNION {Reachable(q) \union {q} :
                       q \in {x \in Range(Requested(m)) : ~SameCycle(m, x)}}

\* A module body runs at most once, whichever of the walk and the loop of
\* AsyncModuleExecutionFulfilled runs it, and whichever load reaches it.
ExecutedOnce == ~spoiled => IsInjective(started)

\* When a body starts, every module below it outside its cycle is free of
\* errors, and those with a top-level await have run to their end: the count
\* PendingAsyncDependencies never reaches zero early.
AwaitedFirst ==
    [][\A m \in Modules :
         started' = Append(started, m) /\ ~spoiled' =>
            \A d \in Outside(m) :
               mod[d].error = UNDEFINED_INDEX /\ (HasTLA(d) => d \in finished)]_vars

\* While a load evaluates, everything it can reach has been instantiated, also
\* after an earlier load was given up halfway (InnerModuleEvaluationUnsafe
\* asserts the status INSTANTIATED of what it enters).
ReachableIsLinked ==
    walk.phase = "Evaluate" /\ ~spoiled =>
       \A d \in Reachable(walk.root) : mod[d].status \notin {"UNINSTANTIATED", "INSTANTIATING"}

\* The DFS indices find the cycles: two modules that were evaluated without an
\* error have one CycleRoot exactly when they import each other.
CycleRootIsShared ==
    calls = <<>> /\ ~spoiled =>
       \A m, d \in {x \in Modules : /\ mod[x].status \in {"EVALUATING_ASYNC", "EVALUATED"}
                                    /\ mod[x].error = UNDEFINED_INDEX} :
          mod[m].cycleRoot = mod[d].cycleRoot <=> SameCycle(m, d)

\* What the first load leaves EVALUATING_ASYNC becomes EVALUATED once the
\* awaited promises settle, whatever a second load does meanwhile.
FirstLoadSettles ==
    \A m \in Modules :
       (loads = 1 /\ mod[m].status = "EVALUATING_ASYNC") ~> (mod[m].status = "EVALUATED" \/ spoiled)

\* GatherAvailableAncestors asserts that a module it counts down is
\* EVALUATING_ASYNC, so whenever a reaction may run the parents are.
ParentIsAsync ==
    \A x \in awaiting : \A p \in Range(mod[x].parents) :
       JobsRun /\ mod[x].status # "EVALUATED" /\ Healthy(p) => mod[p].status = "EVALUATING_ASYNC"
===============================================================================
