SPECIFICATION HostSpec
CHECK_DEADLOCK FALSE
CONSTANTS
  g1 = g1
  g2 = g2
  Gid <- TwoTasks
  TaskIds = {1, 2}
  MaxActiveTasks = 2
  MaxTasks = 2
  MaxGeneration = 4
  MaxId = 5
  MaxPatch = 0
  MaxMoves = 4
  RequestCapacity = 2
  EventCapacity = 1
  TimerCapacity = 2
  MaxWorkers = 2
  PendingCapacity = 5
  Inputs = {"Pause", "Resume", "Remove", "Delete", "Force", "Retry", "Restart", "SlowPause", "StoreFails", "OwnerBusy"}
  PolicyChoices <- DefaultPolicy
  AddChoices <- PlainAdd
  RestoreBatches <- NewSession
INVARIANTS PressureHandled
PROPERTIES ViewWhole
