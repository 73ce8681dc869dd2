SPECIFICATION Spec
CHECK_DEADLOCK FALSE
CONSTANTS
  g1 = g1
  g2 = g2
  Gid <- OneTask
  TaskIds = {1}
  MaxActiveTasks = 1
  MaxTasks = 3
  MaxGeneration = 2
  MaxId = 2
  MaxPatch = 2
  Inputs = {"Add", "Pause", "Resume", "Remove", "Admit", "Terminal", "Fail", "Verify", "Patch", "Drain"}
  PolicyChoices <- DefaultPolicy
  AddChoices <- AnyAdd
  RestoreBatches <- NewSession
INVARIANTS NothingLostBehind
