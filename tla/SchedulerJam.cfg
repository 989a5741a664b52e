SPECIFICATION Spec
CONSTANTS
  a = a
  b = b
  Tasks = {a, b}
  Order <- OneAfterTheOther
  Instants <- TwoTasks
  Setups <- TwoSetups
  NoCatchup = {}
  MaxRuntime = 1
  MaxTime = 3
  MaxRows = 3
  MaxCrashes = 1
  MaxChanges = 1
PROPERTIES
  OnlyLiveRunsBlock
CHECK_DEADLOCK FALSE
