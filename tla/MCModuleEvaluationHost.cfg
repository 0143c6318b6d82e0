CONSTANTS
  m1 = m1
  m2 = m2
  m3 = m3
  Modules <- MCModules
  Graphs <- MCGraphs
  ExecuteFromJob = FALSE
  MaxLoads = 1
SPECIFICATION Spec
INVARIANT ParentIsAsync
CHECK_DEADLOCK FALSE
