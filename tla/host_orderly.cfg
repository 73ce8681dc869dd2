SPECIFICATION HostSpec
CONSTANTS
  g1 = g1
  g2 = g2
  Gid <- TwoTasks
  TaskIds = {1, 2}
  MaxActiveTasks = 1
  MaxTasks = 2
  MaxGeneration = 4
  MaxId = 5
  MaxPatch = 0
  MaxMoves = 4
  RequestCapacity = 2
  EventCapacity = 1
  TimerCapacity = 2
  MaxWorkers = 1
  PendingCapacity = 3
  Inputs = {"Pause", "Resume", "Remove", "Delete", "Retry", "HostKey", "SlowDemote"}
  PolicyChoices <- DefaultPolicy
  AddChoices <- PlainAdd
  RestoreBatches <- NewSession
INVARIANTS HostSound SettledOwesNothing
PROPERTIES RequestsEnd
