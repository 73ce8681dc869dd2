SPECIFICATION Spec
CHECK_DEADLOCK FALSE
CONSTANTS
  g1 = g1
  g2 = g2
  Gid <- TwoTasks
  TaskIds = {1, 2}
  MaxActiveTasks = 1
  MaxTasks = 2
  MaxGeneration = 1
  MaxId = 1
  MaxPatch = 1
  Inputs = {"Add", "Pause", "Resume", "Remove", "Admit", "Terminal", "Retry", "Fail", "Drain"}
  PolicyChoices <- DefaultPolicy
  AddChoices <- PlainAdd
  RestoreBatches <- NewSession
INVARIANTS SlotBound EndingsReachable
