SPECIFICATION MCSpec
CONSTANTS
  MaxRecords = 100
  MaxLeases = 10
  MaxDurable = 10
  MaxRetryStates = 4
  MaxFinalizations = 2
  MaxValidators = 2
  Permitted <- MCPermitted
  Alignment = "Relaxed"
  MaxHashLeases = 4
  Layout <- MCLayout
  Manifest <- MCManifest
  Contents = {"good", "bad"}
  Modes = {"Plain", "Verified"}
  MaxGeneration = 1
  MaxLeaseStarts = 2
  MaxCrashes = 1
  MaxAttempts = 3
  MaxPerMirror = 2
  MaxGenerations = 1
  MaxFailures = 1
  MaxQueued = 2
INVARIANTS JournalSound DurableIsSynced TransfersKept
CHECK_DEADLOCK FALSE
