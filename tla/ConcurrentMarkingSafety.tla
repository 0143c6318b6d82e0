----------------------- MODULE ConcurrentMarkingSafety -----------------------
(***************************************************************************)
(* Proofs about ConcurrentMarking: a collection frees no object that a     *)
(* kept object or the JS thread refers to, whatever the number of objects  *)
(* and workers, of the operations of JS code, of markings, of collections  *)
(* and of spurious wakeups, as long as no WaitMarkingFinished has returned *)
(* before the end of its marking (after that it is false).                 *)
(***************************************************************************)
EXTENDS ConcurrentMarkingLife

\* An object on a stack: marked, with a body that nobody has visited yet.
Grey(o) == (\E t \in Threads : o \in inNode[t] \/ o \in outNode[t]) \/ \E n \in workStack : o \in n

\* A marked object that is not grey refers to a marked object, unless the reference is about
\* to be marked: a thread visits it, or the barrier of its store is still to come.
Black(o) ==
    field[o] = Null \/ field[o] \in marked
    \/ \E t \in Threads : pc[t] \in {"visit", "barrier"} /\ val[t] = field[o]

\* The allocated objects are closed under reference.
Closed ==
    /\ roots \subseteq allocated
    /\ \A o \in allocated : field[o] # Null => field[o] \in allocated

Coloured ==
    /\ Closed
    /\ marked \subseteq allocated
    /\ \A o \in Objects : Grey(o) => o \in marked
    /\ \A t \in Threads : val[t] # Null => val[t] \in allocated /\ pc[t] \in {"visit", "barrier"}
    /\ todo \subseteq roots
    /\ todo # {} => At = "roots"
    /\ status = "READY_TO_MARK" /\ phase[Main] = "none" => marked = {}
    /\ phase[Main] = "mark" => roots \subseteq marked \cup todo
    /\ \A o \in marked : Grey(o) \/ Black(o)

-----------------------------------------------------------------------------

\* MarkObject makes the object grey when it was white; every other object keeps its colour.
LEMMA MarkObjectGrey ==
  ASSUME NEW t \in Threads, NEW o \in Objects \cup {Null}, NEW label \in {"js", "roots", "pop"},
         TypeOK, MarkObject(t, o, label), outNode' = outNode
  PROVE  \A x \in Objects : Grey(x)' <=> (Grey(x) \/ (x = o /\ o \notin marked))
  <1>1. CASE o = Null \/ o \in marked
    BY <1>1, MarkingAssumption DEF MarkObject, Grey
  <1>2. CASE o \in Objects /\ o \notin marked
    <2>1. Push(t, o, label)
      BY <1>2, MarkingAssumption DEF MarkObject
    <2>2. CASE Cardinality(inNode[t]) < NodeSize
      <3>1. inNode' = [inNode EXCEPT ![t] = @ \cup {o}] /\ workStack' = workStack
        BY <2>1, <2>2 DEF Push
      <3>2. QED
        BY <1>2, <3>1 DEF Grey, TypeOK
    <2>3. CASE ~(Cardinality(inNode[t]) < NodeSize)
      <3>1. inNode' = [inNode EXCEPT ![t] = {o}] /\ workStack' = workStack \cup {inNode[t]}
        BY <2>1, <2>3 DEF Push
      <3>2. QED
        BY <1>2, <3>1 DEF Grey, TypeOK
    <2>4. QED
      BY <2>2, <2>3
  <1>3. QED
    BY <1>1, <1>2

\* Pop takes one grey object, whose reference the thread then visits.
LEMMA PopGrey ==
  ASSUME NEW t \in Threads, TypeOK, Pop(t)
  PROVE  \E p \in Objects : /\ Grey(p) /\ val' = [val EXCEPT ![t] = field[p]]
                            /\ \A x \in Objects \ {p} : Grey(x)' <=> Grey(x)
                            /\ Grey(p)' => Grey(p)
  <1>1. ASSUME NEW p \in outNode[t], outNode' = [outNode EXCEPT ![t] = @ \ {p}],
               UNCHANGED <<inNode, workStack>>
        PROVE  p \in Objects /\ Grey(p) /\ \A x \in Objects \ {p} : Grey(x)' <=> Grey(x)
    BY <1>1 DEF Grey, TypeOK
  <1>2. ASSUME NEW p \in inNode[t], outNode[t] = {}, outNode' = [outNode EXCEPT ![t] = inNode[t] \ {p}],
               inNode' = [inNode EXCEPT ![t] = {}], UNCHANGED workStack
        PROVE  p \in Objects /\ Grey(p) /\ \A x \in Objects \ {p} : Grey(x)' <=> Grey(x)
    BY <1>2 DEF Grey, TypeOK
  <1>3. ASSUME NEW n \in workStack, NEW p \in n, outNode[t] = {}, workStack' = workStack \ {n},
               outNode' = [outNode EXCEPT ![t] = n \ {p}], UNCHANGED inNode
        PROVE  p \in Objects /\ Grey(p) /\ \A x \in Objects \ {p} : Grey(x)' <=> Grey(x)
    BY <1>3 DEF Grey, TypeOK
  <1>4. QED
    BY <1>1, <1>2, <1>3 DEF Pop

\* What Coloured asks of a step that leaves the heap, the mark bits and the values of the
\* threads alone: the marked objects keep their colour, no visit or barrier is dropped, and
\* the list of roots is right for where the JS thread is.
LEMMA ColouredFrame ==
  ASSUME Coloured, UNCHANGED <<allocated, field, roots, marked, val>>,
         \A x \in Objects : Grey(x)' => x \in marked,
         \A x \in marked : Grey(x) => Grey(x)',
         \A t \in Threads : pc[t] \in {"visit", "barrier"} => pc'[t] = pc[t],
         todo' \subseteq roots, todo' # {} => At' = "roots",
         status' = "READY_TO_MARK" /\ phase'[Main] = "none" => marked = {},
         phase'[Main] = "mark" => roots \subseteq marked \cup todo'
  PROVE  Coloured'
  <1>1. Closed' /\ marked' \subseteq allocated' /\ (\A x \in Objects : Grey(x)' => x \in marked')
    BY DEF Coloured, Closed
  <1>2. \A t \in Threads : val'[t] # Null => val'[t] \in allocated' /\ pc'[t] \in {"visit", "barrier"}
    BY DEF Coloured
  <1>3. ASSUME NEW x \in marked PROVE Grey(x)' \/ Black(x)'
    BY DEF Coloured, Black
  <1>4. QED
    BY <1>1, <1>2, <1>3 DEF Coloured

\* The same for a step that does not touch the stacks of grey objects (most steps of the
\* handshake between the marker and the collection).
LEMMA ColouredKept ==
  ASSUME Coloured, UNCHANGED <<allocated, field, roots, marked, val, inNode, outNode, workStack>>,
         \A t \in Threads : pc[t] \in {"visit", "barrier"} => pc'[t] = pc[t],
         todo' \subseteq roots, todo' # {} => At' = "roots",
         status' = "READY_TO_MARK" /\ phase'[Main] = "none" => marked = {},
         phase'[Main] = "mark" => roots \subseteq marked \cup todo'
  PROVE  Coloured'
  <1>1. \A x : Grey(x)' <=> Grey(x)
    BY DEF Grey
  <1>2. \A x \in Objects : Grey(x) => x \in marked
    BY DEF Coloured
  <1>3. QED
    BY <1>1, <1>2, ColouredFrame

\* No step breaks the colours: this is where the write barrier, the second visit of the
\* roots and the waits of the collection are needed.
LEMMA ColouredStep ==
  ASSUME TypeOK, Placed, Counted, Life, Worked, Coloured, [Next]_vars PROVE Coloured'
  <1> USE MarkingAssumption DEF Goto, Use, heap, nodes, threads, marker, config, tasks
  <1>1. Main \in Threads /\ Main \notin Workers /\ \A w \in Workers : w \in Threads /\ w # Main
    BY DEF Threads
  <1>2. Threads = Workers \cup {Main}
    BY DEF Threads
  <1>3. /\ pc \in [Threads -> Labels] /\ after \in [Threads -> Labels]
        /\ val \in [Threads -> Objects \cup {Null}]
        /\ phase \in [Threads -> {"none", "marker", "parallel", "initialize", "ongoing", "mark"}]
    BY DEF TypeOK
  <1>4. /\ allocated \subseteq Objects /\ roots \subseteq Objects /\ marked \subseteq Objects
        /\ field \in [Objects -> Objects \cup {Null}]
    BY DEF TypeOK
  <1>5. /\ todo \subseteq roots /\ (todo # {} => At = "roots")
        /\ (status = "READY_TO_MARK" /\ phase[Main] = "none" => marked = {})
        /\ (phase[Main] = "mark" => roots \subseteq marked \cup todo)
        /\ \A x \in Objects : Grey(x) => x \in marked
    BY DEF Coloured
  <1>6. At \in {"js", "barrier", "handle"} => phase[Main] = "none"
    BY DEF Placed
  <1>7. Closed /\ marked \subseteq allocated
    BY DEF Coloured
  <1>8. \A t \in Threads : val[t] # Null => val[t] \in allocated /\ pc[t] \in {"visit", "barrier"}
    BY DEF Coloured
  <1>9. \A x \in marked : Grey(x) \/ Black(x)
    BY DEF Coloured
  <1>10. Coloured'
  <2>1. ASSUME NEW w \in Workers, RunMarkerTask(w) PROVE Coloured'
    BY <2>1, <1>1, <1>2, <1>3, <1>5, <1>6, ColouredKept DEF RunMarkerTask, At
  <2>2. ASSUME NEW w \in Workers, RunParallelGCTask(w) PROVE Coloured'
    BY <2>2, <1>1, <1>2, <1>3, <1>5, <1>6, ColouredKept DEF RunParallelGCTask, At
  <2>3. ASSUME NEW w \in Workers, HasInitialized(w) PROVE Coloured'
    BY <2>3, <1>1, <1>2, <1>3, <1>5, <1>6, ColouredKept DEF HasInitialized, At
  <2>4. ASSUME NEW w \in Workers, ReduceTaskCount(w) PROVE Coloured'
    BY <2>4, <1>1, <1>2, <1>3, <1>5, <1>6, ColouredKept DEF ReduceTaskCount, At
  <2>5. ASSUME NEW w \in Workers, WaitRunningTaskFinished(w) PROVE Coloured'
    BY <2>5, <1>1, <1>2, <1>3, <1>5, <1>6, ColouredKept DEF WaitRunningTaskFinished, At
  <2>6. ASSUME NEW w \in Workers, FinishMarking(w) PROVE Coloured'
    BY <2>6, <1>1, <1>2, <1>3, <1>5, <1>6, ColouredKept DEF FinishMarking, At
  <2>7. ASSUME NEW w \in Workers, FinishMarkingNotify(w) PROVE Coloured'
    BY <2>7, <1>1, <1>2, <1>3, <1>5, <1>6, ColouredKept DEF FinishMarkingNotify, At
  <2>8. ASSUME NEW w \in Workers, DecreaseTaskCounts(w) PROVE Coloured'
    BY <2>8, <1>1, <1>2, <1>3, <1>5, <1>6, ColouredKept DEF DecreaseTaskCounts, At
  <2>9. ASSUME NEW t \in Threads, Pop(t) PROVE Coloured'
    <3>1. PICK p \in Objects : /\ Grey(p) /\ val' = [val EXCEPT ![t] = field[p]]
                               /\ \A x \in Objects \ {p} : Grey(x)' <=> Grey(x)
                               /\ Grey(p)' => Grey(p)
      BY <2>9, PopGrey
    <3>2. pc' = [pc EXCEPT ![t] = "visit"] /\ pc[t] = "pop" /\ UNCHANGED <<heap, marked, phase, after, todo, marker>>
      BY <2>9 DEF Pop
    <3>3. Closed' /\ marked' \subseteq allocated' /\ (\A x \in Objects : Grey(x)' => x \in marked')
      BY <3>1, <3>2, <1>5, <1>7 DEF Closed
    <3>4. \A u \in Threads : val'[u] # Null => val'[u] \in allocated' /\ pc'[u] \in {"visit", "barrier"}
      BY <3>1, <3>2, <1>3, <1>5, <1>7, <1>8 DEF Closed
    <3>5. ASSUME NEW x \in marked' PROVE Grey(x)' \/ Black(x)'
      <4>1. CASE x = p
        BY <3>1, <3>2, <4>1, <1>3 DEF Black
      <4>2. CASE x # p /\ Grey(x)
        BY <3>1, <3>2, <4>2, <1>4
      <4>3. CASE Black(x)
        <5>1. CASE field[x] = Null \/ field[x] \in marked
          BY <3>2, <5>1 DEF Black
        <5>2. ASSUME NEW u \in Threads, pc[u] \in {"visit", "barrier"}, val[u] = field[x] PROVE Black(x)'
          <6>1. u # t /\ pc'[u] = pc[u] /\ val'[u] = val[u] /\ field' = field
            BY <3>1, <3>2, <5>2, <1>3
          <6>2. QED
            BY <5>2, <6>1 DEF Black
        <5>3. QED
          BY <4>3, <5>1, <5>2 DEF Black
      <4>4. QED
        BY <3>2, <4>1, <4>2, <4>3, <1>9
    <3>6. /\ todo' \subseteq roots' /\ (todo' # {} => At' = "roots")
          /\ (status' = "READY_TO_MARK" /\ phase'[Main] = "none" => marked' = {})
          /\ (phase'[Main] = "mark" => roots' \subseteq marked' \cup todo')
      BY <3>2, <1>1, <1>3, <1>5 DEF At
    <3>7. QED
      BY <3>3, <3>4, <3>5, <3>6 DEF Coloured
  <2>10. ASSUME NEW t \in Threads, PopFails(t) PROVE Coloured'
    BY <2>10, <1>1, <1>2, <1>3, <1>5, <1>6, ColouredKept DEF PopFails, StackDone, At
  <2>11. ASSUME NEW t \in Threads, Visit(t) PROVE Coloured'
    <3>1. MarkObject(t, val[t], "pop") /\ val[t] \in Objects \cup {Null}
      BY <2>11, <1>3 DEF Visit
    <3>2. /\ \A u \in Threads \ {t} : pc'[u] = pc[u] /\ after'[u] = after[u]
          /\ marked' = marked \cup ({val[t]} \ {Null})
          /\ pc'[t] = "pop" \/ (pc'[t] = "count" /\ after'[t] = "pop")
      BY <3>1, <1>1, MarkObjectEffect
    <3>3. \A x \in Objects : Grey(x)' <=> (Grey(x) \/ (x = val[t] /\ val[t] \notin marked))
      BY <2>11, <3>1, MarkObjectGrey DEF Visit
    <3>4. pc[t] = "visit" /\ val' = [val EXCEPT ![t] = Null] /\ UNCHANGED <<heap, phase, todo, marker>>
      BY <2>11 DEF Visit
    <3>5. Closed' /\ marked' \subseteq allocated' /\ (\A x \in Objects : Grey(x)' => x \in marked')
      BY <3>2, <3>3, <3>4, <1>5, <1>7, <1>8 DEF Closed
    <3>6. \A u \in Threads : val'[u] # Null => val'[u] \in allocated' /\ pc'[u] \in {"visit", "barrier"}
      BY <3>2, <3>4, <1>3, <1>8
    <3>7. ASSUME NEW x \in marked' PROVE Grey(x)' \/ Black(x)'
      <4>1. CASE x = val[t] /\ x \notin marked
        BY <3>2, <3>3, <4>1, <3>1
      <4>2. CASE x \in marked /\ Grey(x)
        BY <3>3, <4>2, <1>4
      <4>3. CASE x \in marked /\ Black(x)
        <5>1. CASE field[x] = Null \/ field[x] \in marked
          BY <3>2, <3>4, <5>1 DEF Black
        <5>2. ASSUME NEW u \in Threads, pc[u] \in {"visit", "barrier"}, val[u] = field[x] PROVE Black(x)'
          <6>1. CASE u = t
            BY <3>2, <3>4, <5>2, <6>1 DEF Black
          <6>2. CASE u # t
            BY <3>2, <3>4, <5>2, <6>2, <1>3 DEF Black
          <6>3. QED
            BY <6>1, <6>2
        <5>3. QED
          BY <4>3, <5>1, <5>2 DEF Black
      <4>4. QED
        BY <3>2, <4>1, <4>2, <4>3, <1>9
    <3>8. /\ todo' \subseteq roots' /\ (todo' # {} => At' = "roots")
          /\ (status' = "READY_TO_MARK" /\ phase'[Main] = "none" => marked' = {})
          /\ (phase'[Main] = "mark" => roots' \subseteq marked' \cup todo')
      <4>1. t \in Workers => phase[t] = "parallel" \/ Marks(t)
        BY <3>4, <1>2 DEF Marks, Placed
      <4>2. status = "READY_TO_MARK" /\ phase[Main] = "none" => t \notin Workers
        BY <4>1, NoHelpers DEF Worked, Life, Marking
      <4>3. status = "READY_TO_MARK" /\ phase[Main] = "none" => t # Main
        BY <3>4 DEF Placed, At
      <4>4. QED
        BY <3>2, <3>4, <4>2, <4>3, <1>1, <1>2, <1>5 DEF At
    <3>9. QED
      BY <3>5, <3>6, <3>7, <3>8 DEF Coloured
  <2>12. ASSUME NEW t \in Threads, PostParallelGCTask(t) PROVE Coloured'
    BY <2>12, <1>1, <1>2, <1>3, <1>5, <1>6, ColouredKept DEF PostParallelGCTask, At
  <2>13. ASSUME NEW o \in Objects, Load(o) PROVE Coloured'
    <3>1. todo = {} /\ phase[Main] = "none" /\ UNCHANGED <<marked, nodes, threads, todo, marker>>
      BY <2>13, <1>5, <1>6 DEF Load, At
    <3>2. \A x : Grey(x)' <=> Grey(x)
      BY <3>1 DEF Grey
    <3>3. Closed' /\ allocated \subseteq allocated' /\ (\A x \in marked : field'[x] = field[x])
      BY <2>13, <1>4, <1>7 DEF Load, Closed
    <3>4. \A x \in marked' : Grey(x)' \/ Black(x)'
      BY <3>1, <3>2, <3>3, <1>9 DEF Black
    <3>5. QED
      BY <3>1, <3>2, <3>3, <3>4, <1>5, <1>7, <1>8 DEF Coloured
  <2>14. ASSUME NEW o \in Objects, Drop(o) PROVE Coloured'
    <3>1. todo = {} /\ phase[Main] = "none" /\ UNCHANGED <<marked, nodes, threads, todo, marker>>
      BY <2>14, <1>5, <1>6 DEF Drop, At
    <3>2. \A x : Grey(x)' <=> Grey(x)
      BY <3>1 DEF Grey
    <3>3. Closed' /\ allocated \subseteq allocated' /\ (\A x \in marked : field'[x] = field[x])
      BY <2>14, <1>4, <1>7 DEF Drop, Closed
    <3>4. \A x \in marked' : Grey(x)' \/ Black(x)'
      BY <3>1, <3>2, <3>3, <1>9 DEF Black
    <3>5. QED
      BY <3>1, <3>2, <3>3, <3>4, <1>5, <1>7, <1>8 DEF Coloured
  <2>15. ASSUME NEW o \in Objects, Allocate(o) PROVE Coloured'
    <3>1. todo = {} /\ phase[Main] = "none" /\ UNCHANGED <<marked, nodes, threads, todo, marker>>
      BY <2>15, <1>5, <1>6 DEF Allocate, At
    <3>2. \A x : Grey(x)' <=> Grey(x)
      BY <3>1 DEF Grey
    <3>3. Closed' /\ allocated \subseteq allocated' /\ (\A x \in marked : field'[x] = field[x])
      BY <2>15, <1>4, <1>7 DEF Allocate, Closed
    <3>4. \A x \in marked' : Grey(x)' \/ Black(x)'
      BY <3>1, <3>2, <3>3, <1>9 DEF Black
    <3>5. QED
      BY <3>1, <3>2, <3>3, <3>4, <1>5, <1>7, <1>8 DEF Coloured
  <2>16. ASSUME NEW o \in Objects, MarkRoot(o) PROVE Coloured'
    <3>1. MarkObject(Main, o, "roots") /\ o \in todo /\ todo' = todo \ {o} /\ UNCHANGED <<heap, phase, val, marker>>
      BY <2>16 DEF MarkRoot
    <3>2. /\ \A u \in Threads \ {Main} : pc'[u] = pc[u] /\ after'[u] = after[u]
          /\ marked' = marked \cup {o}
          /\ pc'[Main] = "roots" \/ (pc'[Main] = "count" /\ after'[Main] = "roots")
      <4>1. Main \in Threads /\ o # Null /\ MarkObject(Main, o, "roots")
        BY <3>1, <1>3 DEF Threads
      <4>2. QED
        BY <4>1, <1>1, MarkObjectEffect, SMTT(20)
    <3>3. \A x \in Objects : Grey(x)' <=> (Grey(x) \/ (x = o /\ o \notin marked))
      BY <2>16, <3>1, <1>1, MarkObjectGrey DEF MarkRoot
    <3>4. pc[Main] = "roots" /\ phase[Main] # "none"
      BY <2>16, <1>1 DEF MarkRoot, Placed, At
    <3>5. \A x \in marked' : Grey(x)' \/ Black(x)'
      BY <3>1, <3>2, <3>3, <3>4, <1>4, <1>9 DEF Black
    <3>6. \A u \in Threads : val'[u] # Null => val'[u] \in allocated' /\ pc'[u] \in {"visit", "barrier"}
      BY <3>1, <3>2, <3>4, <1>8
    <3>7. Closed' /\ marked' \subseteq allocated' /\ (\A x \in Objects : Grey(x)' => x \in marked')
      BY <3>1, <3>2, <3>3, <1>5, <1>7 DEF Closed
    <3>8. QED
      BY <3>1, <3>2, <3>4, <3>5, <3>6, <3>7, <1>5 DEF Coloured, At
  <2>17. ASSUME NEW o \in Objects, NEW v \in Objects \cup {Null}, SetObject(o, v) PROVE Coloured'
    <3>1. /\ todo = {} /\ phase[Main] = "none" /\ pc[Main] = "js" /\ o \in roots /\ v \in roots \cup {Null}
          /\ UNCHANGED <<allocated, roots, marked, nodes, phase, after, todo, marker>>
          /\ field' = [field EXCEPT ![o] = v] /\ val' = [val EXCEPT ![Main] = v]
          /\ pc' = [pc EXCEPT ![Main] = IF v = Null THEN "js" ELSE "barrier"]
      BY <2>17, <1>5, <1>6 DEF SetObject, At
    <3>2. \A x : Grey(x)' <=> Grey(x)
      BY <3>1 DEF Grey
    <3>3. Closed'
      BY <3>1, <1>4, <1>7 DEF Closed
    <3>4. \A u \in Threads : val'[u] # Null => val'[u] \in allocated' /\ pc'[u] \in {"visit", "barrier"}
      BY <3>1, <1>1, <1>3, <1>7, <1>8 DEF Closed
    <3>5. ASSUME NEW x \in marked, Black(x) PROVE Black(x)'
      <4>1. CASE x = o
        BY <3>1, <4>1, <1>1, <1>3, <1>4 DEF Black
      <4>2. CASE x # o
        BY <3>1, <3>5, <4>2, <1>1, <1>3, <1>4 DEF Black
      <4>3. QED
        BY <4>1, <4>2
    <3>6. QED
      BY <3>1, <3>2, <3>3, <3>4, <3>5, <1>5, <1>7, <1>9 DEF Coloured
  <2>18. ASSUME NEW type \in MarkTypes, EnableConcurrentMarking(type) PROVE Coloured'
    BY <2>18, <1>1, <1>2, <1>3, <1>5, <1>6, ColouredKept DEF EnableConcurrentMarking, At
  <2>19. CASE TriggerConcurrentMarking
    <3>1. \A x \in Objects : Grey(x)' => Grey(x)
      BY <2>19 DEF TriggerConcurrentMarking, InitializeWork, Grey
    <3>2. pc[Main] = "js" /\ status = "READY_TO_MARK" /\ phase[Main] = "none" /\ marked = {}
      BY <2>19, <1>5, <1>6 DEF TriggerConcurrentMarking, At
    <3>3. /\ UNCHANGED <<heap, marked, val>> /\ pc' = [pc EXCEPT ![Main] = "roots"] /\ todo' = roots
          /\ phase'[Main] = "initialize"
      BY <2>19, <1>1, <1>3 DEF TriggerConcurrentMarking, InitializeWork
    <3>4. At' = "roots" /\ \A t \in Threads : pc[t] \in {"visit", "barrier"} => pc'[t] = pc[t]
      BY <3>2, <3>3, <1>1, <1>3 DEF At
    <3>5. QED
      BY <3>1, <3>2, <3>3, <3>4, <1>5, ColouredFrame
  <2>20. ASSUME StartCollection, pc[Main] \in {"js", "handle"} PROVE Coloured'
    <3>1. phase[Main] = "none" /\ todo = {} /\ UNCHANGED <<heap, marked, workStack, val, status>>
      BY <2>20, <1>5, <1>6 DEF StartCollection, At
    <3>2. CASE Ongoing
      <4>1. /\ UNCHANGED <<inNode, outNode, todo>> /\ phase'[Main] = "ongoing"
            /\ \E label \in {"pop", "tasks"} : pc' = [pc EXCEPT ![Main] = label]
        BY <2>20, <3>2, <1>1, <1>3 DEF StartCollection
      <4>2. \A t \in Threads : pc[t] \in {"visit", "barrier"} => pc'[t] = pc[t]
        BY <2>20, <4>1, <1>1, <1>3
      <4>3. QED
        BY <3>1, <4>1, <4>2, ColouredKept
    <3>3. CASE ~Ongoing
      <4>1. /\ pc' = [pc EXCEPT ![Main] = "roots"] /\ todo' = roots /\ phase'[Main] = "mark"
            /\ inNode' = [t \in Threads |-> {}] /\ outNode' = [t \in Threads |-> {}]
        BY <2>20, <3>3, <1>1, <1>3 DEF StartCollection, InitializeWork
      <4>2. marked = {}
        BY <3>1, <3>3, <1>5 DEF Ongoing, Life
      <4>3. \A x \in Objects : Grey(x)' => Grey(x)
        BY <3>1, <4>1 DEF Grey
      <4>4. At' = "roots" /\ \A t \in Threads : pc[t] \in {"visit", "barrier"} => pc'[t] = pc[t]
        BY <2>20, <4>1, <1>1, <1>3 DEF At
      <4>5. QED
        BY <3>1, <4>1, <4>2, <4>3, <4>4, <1>5, ColouredFrame
    <3>4. QED
      BY <3>2, <3>3
  <2>21. CASE WriteBarrier
    <3>1. CASE status # "READY_TO_MARK"
      <4>1. /\ MarkObject(Main, val[Main], "js") /\ pc[Main] = "barrier" /\ val[Main] \in Objects \cup {Null}
            /\ val' = [val EXCEPT ![Main] = Null] /\ UNCHANGED <<heap, phase, todo, marker>>
        BY <2>21, <3>1, <1>1, <1>3 DEF WriteBarrier
      <4>2. /\ \A u \in Threads \ {Main} : pc'[u] = pc[u] /\ after'[u] = after[u]
            /\ marked' = marked \cup ({val[Main]} \ {Null})
        BY <4>1, <1>1, MarkObjectEffect
      <4>3. \A x \in Objects : Grey(x)' <=> (Grey(x) \/ (x = val[Main] /\ val[Main] \notin marked))
        BY <2>21, <4>1, <1>1, MarkObjectGrey DEF WriteBarrier
      <4>4. todo = {} /\ phase[Main] = "none"
        BY <4>1, <1>5, <1>6 DEF At
      <4>5. Closed' /\ marked' \subseteq allocated' /\ (\A x \in Objects : Grey(x)' => x \in marked')
        BY <4>1, <4>2, <4>3, <1>1, <1>5, <1>7, <1>8 DEF Closed
      <4>6. \A u \in Threads : val'[u] # Null => val'[u] \in allocated' /\ pc'[u] \in {"visit", "barrier"}
        BY <4>1, <4>2, <1>1, <1>3, <1>8
      <4>7. ASSUME NEW x \in marked, Black(x) PROVE Black(x)'
        BY <4>1, <4>2, <4>7, <1>1, <1>3, <1>4 DEF Black
      <4>8. \A x \in marked' : Grey(x)' \/ Black(x)'
        BY <4>1, <4>2, <4>3, <4>7, <1>4, <1>9
      <4>9. QED
        BY <4>1, <4>4, <4>5, <4>6, <4>8, <3>1 DEF Coloured
    <3>2. CASE status = "READY_TO_MARK"
      <4>1. /\ UNCHANGED <<heap, marked, nodes, phase, todo, status>> /\ pc[Main] = "barrier"
            /\ pc' = [pc EXCEPT ![Main] = "js"] /\ val' = [val EXCEPT ![Main] = Null]
        BY <2>21, <3>2 DEF WriteBarrier
      <4>2. todo = {} /\ phase[Main] = "none" /\ marked = {}
        BY <4>1, <3>2, <1>5, <1>6 DEF At
      <4>3. \A x : Grey(x)' <=> Grey(x)
        BY <4>1 DEF Grey
      <4>4. \A u \in Threads : val'[u] # Null => val'[u] \in allocated' /\ pc'[u] \in {"visit", "barrier"}
        BY <4>1, <1>1, <1>3, <1>8
      <4>5. QED
        BY <4>1, <4>2, <4>3, <4>4, <1>5, <1>7 DEF Coloured, Closed
    <3>3. QED
      BY <3>1, <3>2
  <2>22. CASE MarkRootsDone
    <3>1. \A x \in Objects : Grey(x)' <=> Grey(x)
      <4>1. inNode' = [inNode EXCEPT ![Main] = {}] /\ outNode' = outNode
        BY <2>22 DEF MarkRootsDone
      <4>2. workStack' = IF inNode[Main] = {} THEN workStack ELSE workStack \cup {inNode[Main]}
        BY <2>22 DEF MarkRootsDone
      <4>3. inNode \in [Threads -> SUBSET Objects]
        BY DEF TypeOK
      <4>4. QED
        BY <4>1, <4>2, <4>3, <1>1 DEF Grey
    <3>2. /\ pc[Main] = "roots" /\ todo = {} /\ UNCHANGED <<heap, marked, val, todo, marker>>
          /\ \A w \in Workers : pc'[w] = pc[w]
          /\ (phase'[Main] = "mark" => phase[Main] = "mark")
          /\ (phase'[Main] = "none" => phase[Main] \in {"none", "initialize"})
      BY <2>22, <1>1, <1>3 DEF MarkRootsDone
    <3>3. status = "READY_TO_MARK" => phase[Main] # "initialize"
      BY DEF Life, Marking
    <3>4. \A t \in Threads : pc[t] \in {"visit", "barrier"} => pc'[t] = pc[t]
      BY <3>2, <1>2
    <3>5. QED
      BY <3>1, <3>2, <3>3, <3>4, <1>4, <1>5, ColouredFrame
  <2>23. CASE CheckSafepoint
    BY <2>23, <1>1, <1>2, <1>3, <1>5, <1>6, ColouredKept DEF CheckSafepoint, At
  <2>24. CASE HandleMarkingFinished
    <3>1. CASE notifyMarkingFinished
      BY <2>24, <2>20, <3>1 DEF HandleMarkingFinished
    <3>2. CASE ~notifyMarkingFinished
      BY <2>24, <3>2, <1>1, <1>2, <1>3, <1>5, <1>6, ColouredKept DEF HandleMarkingFinished, At
    <3>3. QED
      BY <3>1, <3>2
  <2>25. CASE WaitMarkingFinished
    BY <2>25, <1>1, <1>2, <1>3, <1>5, <1>6, ColouredKept DEF WaitMarkingFinished, Return, At
  <2>26. CASE WaitMarkingFinishedReturns
    BY <2>26, <1>1, <1>2, <1>3, <1>5, <1>6, ColouredKept DEF WaitMarkingFinishedReturns, Return, At
  <2>27. CASE MainWaitRunningTaskFinished
    <3>1. todo = {} /\ pc[Main] = "tasks"
      BY <2>27, <1>5 DEF MainWaitRunningTaskFinished, At
    <3>2. CASE phase[Main] = "ongoing"
      BY <2>27, <3>1, <3>2, <1>1, <1>3, <1>5, ColouredKept DEF MainWaitRunningTaskFinished, At
    <3>3. CASE phase[Main] # "ongoing"
      BY <2>27, <3>1, <3>3, <1>1, <1>3, <1>5, ColouredKept DEF MainWaitRunningTaskFinished, At
    <3>4. QED
      BY <3>2, <3>3
  <2>28. CASE FinishCollection
    <3>1. /\ pc[Main] = "sweep" /\ allocated' = allocated \cap marked /\ marked' = {}
          /\ pc' = [pc EXCEPT ![Main] = "js"] /\ UNCHANGED <<field, roots, inNode, outNode, workStack, val, todo>>
          /\ phase'[Main] = "none"
      BY <2>28, <1>1, <1>3 DEF FinishCollection
    <3>2. phase[Main] = "mark"
      BY <3>1 DEF Placed, At
    <3>3. \A w \in Workers : phase[w] # "parallel" /\ ~Marks(w)
      BY <3>1, <3>2, NoHelpers DEF Life, Marking, Worked
    <3>4. \A w \in Workers : ~Busy(w) /\ pc[w] # "barrier"
      BY <3>3 DEF Busy, Marks, Placed
    <3>5. \A t \in Threads : pc[t] \notin {"visit", "barrier"} /\ inNode[t] = {} /\ outNode[t] = {}
      BY <3>1, <3>2, <3>4, <1>2 DEF Worked, Busy
    <3>6. workStack = {}
      BY <3>1, <3>2, <3>4 DEF Worked
    <3>7. \A x \in Objects : ~Grey(x) /\ ~Grey(x)'
      BY <3>1, <3>5, <3>6 DEF Grey
    <3>8. \A o \in marked : field[o] = Null \/ field[o] \in marked
      BY <3>5, <3>7, <1>4, <1>9 DEF Black
    <3>9. roots \subseteq marked /\ todo = {} /\ allocated' = marked
      BY <3>1, <3>2, <1>5, <1>7 DEF At
    <3>10. \A t \in Threads : val[t] = Null
      BY <3>5, <1>8
    <3>11. Closed'
      BY <3>1, <3>8, <3>9 DEF Closed
    <3>12. QED
      BY <3>1, <3>7, <3>9, <3>10, <3>11 DEF Coloured
  <2>29. CASE HandleMarkingFinishedReturns
    BY <2>29, <1>1, <1>2, <1>3, <1>5, <1>6, ColouredKept DEF HandleMarkingFinishedReturns, At
  <2>30. CASE SpuriousWakeup
    BY <2>30, <1>1, <1>2, <1>3, <1>5, <1>6, ColouredKept DEF SpuriousWakeup, At
  <2>31. CASE UNCHANGED vars
    BY <2>31, <1>1, <1>2, <1>3, <1>5, <1>6, ColouredKept DEF vars, At
  <2>32. QED
    BY <2>1, <2>2, <2>3, <2>4, <2>5, <2>6, <2>7, <2>8, <2>9, <2>10, <2>11, <2>12,
       <2>13, <2>14, <2>15, <2>16, <2>17, <2>18, <2>19, <2>20, <2>21, <2>22, <2>23, <2>24,
       <2>25, <2>26, <2>27, <2>28, <2>29, <2>30, <2>31
       DEF Next, WorkerStep, MarkStep, JSStep, MainStep, Threads, CollectGarbage, Finished
  <1>11. QED
    BY <1>10

\* A wait that has returned too early is not forgotten.
LEMMA EarlyStays ==
  ASSUME TypeOK, [Next]_vars, ~early' PROVE ~early
  <1> USE DEF marker
  <1>1. ASSUME NEW t \in Threads, MarkStep(t) PROVE UNCHANGED early
    BY <1>1 DEF MarkStep, Pop, PopFails, Visit, PostParallelGCTask
  <1>2. ASSUME NEW w \in Workers, WorkerStep(w) PROVE UNCHANGED early
    <2>1. CASE RunMarkerTask(w) \/ RunParallelGCTask(w) \/ HasInitialized(w)
      BY <2>1 DEF RunMarkerTask, RunParallelGCTask, HasInitialized
    <2>2. CASE ReduceTaskCount(w) \/ WaitRunningTaskFinished(w) \/ DecreaseTaskCounts(w)
      BY <2>2 DEF ReduceTaskCount, WaitRunningTaskFinished, DecreaseTaskCounts
    <2>3. CASE FinishMarking(w) \/ FinishMarkingNotify(w)
      BY <2>3 DEF FinishMarking, FinishMarkingNotify
    <2>4. QED
      BY <1>1, <1>2, <2>1, <2>2, <2>3 DEF WorkerStep, Threads
  <1>3. StartCollection => UNCHANGED early
    BY DEF StartCollection
  <1>4. CASE JSStep
    <2>1. ASSUME NEW o \in Objects, Load(o) \/ Drop(o) \/ Allocate(o) PROVE UNCHANGED early
      BY <2>1 DEF Load, Drop, Allocate
    <2>2. ASSUME NEW o \in Objects, NEW v \in Objects \cup {Null}, SetObject(o, v)
          PROVE  UNCHANGED early
      BY <2>2 DEF SetObject
    <2>3. ASSUME NEW type \in MarkTypes, EnableConcurrentMarking(type) PROVE UNCHANGED early
      BY <2>3 DEF EnableConcurrentMarking
    <2>4. CASE TriggerConcurrentMarking
      BY <2>4 DEF TriggerConcurrentMarking
    <2>5. CASE CollectGarbage
      BY <2>5, <1>3 DEF CollectGarbage
    <2>6. QED
      BY <1>4, <2>1, <2>2, <2>3, <2>4, <2>5 DEF JSStep
  <1>5. CASE MainStep
    <2>1. CASE WriteBarrier \/ MarkRootsDone \/ \E o \in Objects : MarkRoot(o)
      BY <2>1 DEF WriteBarrier, MarkRootsDone, MarkRoot
    <2>2. CASE CheckSafepoint \/ HandleMarkingFinished
      BY <2>2, <1>3 DEF CheckSafepoint, HandleMarkingFinished
    <2>3. CASE WaitMarkingFinished \/ WaitMarkingFinishedReturns
      BY <2>3 DEF WaitMarkingFinished, WaitMarkingFinishedReturns, Return
    <2>4. CASE MainWaitRunningTaskFinished \/ FinishCollection \/ HandleMarkingFinishedReturns
      BY <2>4 DEF MainWaitRunningTaskFinished, FinishCollection, HandleMarkingFinishedReturns
    <2>5. QED
      BY <1>1, <1>5, <2>1, <2>2, <2>3, <2>4 DEF MainStep, Threads
  <1>6. CASE SpuriousWakeup \/ Finished \/ UNCHANGED vars
    BY <1>6 DEF SpuriousWakeup, Finished, vars
  <1>7. QED
    BY <1>2, <1>4, <1>5, <1>6 DEF Next

\* The inductive invariant holds until WaitMarkingFinished returns before the end of the marking.
THEOREM MarkingInvariant ==
  Spec => [](~early => Life /\ Worked /\ Coloured)
  <1>1. Init => Life /\ Worked /\ Coloured
    <2>1. SUFFICES ASSUME Init PROVE Life /\ Worked /\ Coloured
      OBVIOUS
    <2>2. Main \in Threads /\ \A w \in Workers : w \in Threads /\ w # Main
      BY MarkingAssumption DEF Threads
    <2>3. Life
      BY <2>1, <2>2 DEF Init, Life, Marking, Marks, At, IsEnabled
    <2>4. Worked
      BY <2>1, <2>2 DEF Init, Worked
    <2>5. \A o \in Objects : ~Grey(o)
      BY <2>1 DEF Init, Grey
    <2>6. Coloured
      BY <2>1, <2>2, <2>5 DEF Init, Coloured, Closed
    <2>7. QED
      BY <2>3, <2>4, <2>6
  <1>2. TypeOK /\ Placed /\ Counted /\ (~early => Life /\ Worked /\ Coloured) /\ [Next]_vars
        => (~early => Life /\ Worked /\ Coloured)'
    BY EarlyStays, LifeStep, WorkedStep, ColouredStep
  <1>3. QED
    BY <1>1, <1>2, TypeCorrect, PTL DEF Spec

\* A collection frees only what no root and no kept object refers to, in every behaviour
\* in which WaitMarkingFinished has waited for the end of the marking.
THEOREM NothingDangles == Spec => []NoDanglingReference
  <1>1. (~early => Life /\ Worked /\ Coloured) => NoDanglingReference
    BY DEF Coloured, Closed, NoDanglingReference
  <1>2. QED
    BY <1>1, MarkingInvariant, PTL

\* When a collection begins to free, no object is grey and no worker marks, as long as
\* WaitMarkingFinished has waited.
THEOREM MarkingEnds == Spec => []MarkingIsOver
  <1>1. TypeOK /\ Placed /\ Counted /\ (~early => Life /\ Worked /\ Coloured) => MarkingIsOver
    <2>1. SUFFICES ASSUME TypeOK, Placed, Counted, Life, Worked, pc[Main] = "sweep", ~early
                   PROVE  /\ workStack = {} /\ \A t \in Threads : inNode[t] = {} /\ outNode[t] = {}
                          /\ \A w \in Workers : ~Busy(w)
      BY DEF MarkingIsOver, Busy
    <2>2. phase[Main] = "mark"
      BY <2>1 DEF Placed, At
    <2>3. \A w \in Workers : phase[w] # "parallel" /\ ~Marks(w)
      BY <2>1, <2>2, NoHelpers DEF Life, Marking, Worked
    <2>4. \A w \in Workers : ~Busy(w)
      BY <2>1, <2>3 DEF Placed, Marks, Busy
    <2>5. QED
      BY <2>1, <2>2, <2>4 DEF Worked, Threads
  <1>2. QED
    BY <1>1, TypeCorrect, MarkingInvariant, PTL

\* WorkManager::Initialize never finds the manager initialised, as long as WaitMarkingFinished
\* has waited.
THEOREM InitializesOnce == Spec => []InitializedOnce
  <1>1. TypeOK /\ Placed /\ (~early => Life /\ Worked /\ Coloured) => InitializedOnce
    BY DEF InitializedOnce, Placed, At, Life, Ongoing, IsEnabled
  <1>2. QED
    BY <1>1, TypeCorrect, MarkingInvariant, PTL
=============================================================================
