SPECIFICATION Spec
CHECK_DEADLOCK FALSE
CONSTANTS
  g1 = g1
  g2 = g2
  Gid <- OneTask
  TaskIds = {1, 2}
  MaxActiveTasks = 1
  MaxTasks = 3
  MaxGeneration = 1
  MaxId = 1
  MaxPatch = 1
  Inputs = {"Add", "Pause", "Resume", "Remove", "Delete", "Position", "Source", "Patch", "HostKey", "Admit", "Terminal", "Retry", "Restart", "Fail", "NoSpace", "SlowDemote", "SlowPause", "Verify", "Seed", "Drain"}
  PolicyChoices <- DefaultPolicy
  AddChoices <- AnyAdd
  RestoreBatches <- NewSession
INVARIANTS TypeOK SlotJustified QueuesPublished WorkAllowed
PROPERTIES DecisionsStand
