\* Two concurrent markings and the collections around them.  A collection that a finalize
\* callback starts may wait for the mutex of its own caller: then the system stops.
SPECIFICATION Spec
CONSTANTS
    o1 = o1
    o2 = o2
    w1 = w1
    w2 = w2
    Main = Main
    Null = Null
    None = None
    Objects <- TwoObjects
    Workers <- MCWorkers
    NodeSize = 1
    MaxOps = 4
    MaxMarkings = 2
    MaxCollections = 2
    MaxSpurious = 1
    MaxCallbacks = 1
SYMMETRY MCSymmetry
INVARIANTS NoDanglingReference MarkingIsOver InitializedOnce TasksCounted
CHECK_DEADLOCK FALSE
