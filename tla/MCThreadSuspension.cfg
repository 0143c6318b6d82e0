SPECIFICATION FairSpec
CONSTANTS
    t1 = t1
    t2 = t2
    t3 = t3
    None = None
    Threads <- MCThreads
    MaxSuspends = 2
INVARIANT WorldStopped
INVARIANT CountsMatch
INVARIANT OneInitiator
INVARIANT RequestIsPolled
PROPERTY NoLateRunner
PROPERTY Refinement
PROPERTY MCOperationsReturn
