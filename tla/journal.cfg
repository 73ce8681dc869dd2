SPECIFICATION MCSpec
CONSTANTS
  Payloads = {a, b}
  MaxGeneration = 1
  MaxSequence = 3
  MaxSegments = 3
  SegmentBudget = 3
  RecordBudget = 2
  MaxRecords = 8
  MaxLeases = 2
  MaxDurable = 2
  MaxRetryStates = 1
  MaxFinalizations = 2
  MaxValidators = 1
  Permitted <- MCPermitted
  Layouts <- MCLayouts
  Digests = {"d"}
  MaxReplayGeneration = 1
INVARIANTS LogSound ReplaySound
PROPERTIES ImplementsDurableLog ReplayKeeps
CHECK_DEADLOCK FALSE
