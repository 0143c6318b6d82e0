SPECIFICATION FairSpec
CONSTANTS
    r1 = r1
    r2 = r2
    w1 = w1
    w2 = w2
    Main = Main
    Null = Null
    Regions <- MCRegions
    SpaceOf <- MCSpaceOf
    Workers <- MCWorkers
    MaxCalls = 2
INVARIANTS TypeOK RegionsAccounted FinishedSpaceIsSwept SweptByItsMarks Remembered NoDeadSlot
           FoundSetStays
PROPERTIES CallReturns ClearTaskFinishes
