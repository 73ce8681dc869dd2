SPECIFICATION Spec
CHECK_DEADLOCK FALSE
CONSTANTS
  g1 = g1
  g2 = g2
  Gid <- TwoTasks
  TaskIds = {1, 2}
  MaxActiveTasks = 1
  MaxTasks = 3
  MaxGeneration = 1
  MaxId = 2
  MaxPatch = 1
  Inputs = {"Pause", "Remove", "Admit", "Retry", "SlowDemote", "Drain", "Policy", "Delete", "Position", "Terminal"}
  PolicyChoices <- SomePolicies
  AddChoices <- PlainAdd
  RestoreBatches <- Restarts
INVARIANTS WakeupsDistinct
PROPERTIES StoppedOrderFrozen
