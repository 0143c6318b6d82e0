\* The threads are scheduled: markings and collections end.
SPECIFICATION FairSpec
CONSTANTS
    o1 = o1
    o2 = o2
    w1 = w1
    w2 = w2
    Main = Main
    Null = Null
    None = None
    Objects <- TwoObjects
    Workers <- MCWorkers
    NodeSize = 1
    MaxOps = 1
    MaxMarkings = 2
    MaxCollections = 2
    MaxSpurious = 0
    MaxCallbacks = 0
PROPERTIES MarkingFinishes CollectionReturns
