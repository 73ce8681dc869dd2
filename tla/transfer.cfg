SPECIFICATION FetchSpec
CONSTANTS
  MaxRecords = 100
  MaxLeases = 10
  MaxDurable = 10
  MaxRetryStates = 8
  MaxFinalizations = 2
  MaxValidators = 2
  Permitted <- MCPermitted
  Alignment = "Relaxed"
  MaxHashLeases = 4
  Layout <- MCLayout
  Sources <- MCSources
  PieceTotal = 2
  Split = 1
  MaxPerOrigin = 2
  MaxTotalAttempts = 2
  MaxSourceAttempts = 2
  MaxDuplicates = 1
  Policies <- MCPolicies
  HeadCauses <- MCHeadCauses
  BodyCauses <- MCBodyCauses
  EventCapacity = 1
  MaxRuns = 2
INVARIANTS RangesSound RunsWhole HttpSound
CHECK_DEADLOCK FALSE
