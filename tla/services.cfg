SPECIFICATION ServicesSpec
CONSTANTS
  Calls <- MCCalls
  Scripts <- MCScripts
  Known = {1, 2}
  New = 3
  UrgentCapacity = 2
  BulkCapacity = 2
  UrgentBurst = 2
  Writes = {1, 2, 3}
  OperationId <- MCOperationId
  Buffers = {1, 2}
  QuarantineBytes = 1
  QueueCapacity = 1
  CompletionCapacity = 2
  AcceptedBytes = 3
  DiskWorkers = 1
  Streams = {"a", "b"}
  Path <- MCPath
  GlobalScope = "global"
  Limits = {0, 2}
  Quantum = 2
  MaxWaiters = 2
  MaxTicks = 2
  MaxAcquires = 3
  MaxChanges = 1
  Openers = {"p1", "p2"}
  Supports <- MCSupports
  MaxFrames = 2
  Files = {1, 2}
  MaxFailures = 2
  OwnerCommands = {1, 2, 3, 4, 5, 6, 7}
  Of <- MCOf
  OwnerTasks = {1, 2}
  Kind <- MCKind
  Capacity = 2
  PlanOf <- MCPlanOf
  Stages = {"s"}
  PlanCapacity = 2
  MaxDispatches = 3
  StartTasks = {1, 2, 3}
  MaxStops = 2
INVARIANTS CrashWritesSound CrashRecoverySound ControlSound DiskSound ProcessSound SessionFilesSound EffectsSound
PROPERTIES LaterControlsWin NeverStepped
CHECK_DEADLOCK FALSE
