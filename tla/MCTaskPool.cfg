\* Two VMs share two workers; the pool may be started twice.
SPECIFICATION FairSpec
CONSTANTS
    v1 = v1
    v2 = v2
    w1 = w1
    w2 = w2
    k1 = k1
    k2 = k2
    None = None
    Global = Global
    VMs <- MCVMs
    Workers <- MCWorkers
    Tasks <- TwoTasks
INVARIANTS NoTaskLost JoinedBeforeReuse RunningIsOwned
PROPERTIES OnlyPoppedEscapes MCTaskRuns MCDestroyReturns
