CONSTANTS
  m1 = m1
  m2 = m2
  m3 = m3
  Modules <- MCModules
  Graphs <- MCGraphs
  ExecuteFromJob = TRUE
  MaxLoads = 2
SPECIFICATION FairSpec
INVARIANTS TypeOK ExecutedOnce ReachableIsLinked CycleRootIsShared
PROPERTIES AwaitedFirst FirstLoadSettles
CHECK_DEADLOCK FALSE
