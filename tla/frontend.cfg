SPECIFICATION FrontendSpec
CONSTANTS
  Gids = {g1, g2}
  Journals = {j1, j2}
  Keys <- MCKeys
  Entries <- MCEntries
  Bindings <- MCBindings
  Marked = {g1}
  MaxTasks = 2
  MaxTime = 1
  MaxGenerations = 1
  RpcClients <- MCClients
  Broadcasts <- MCBroadcasts
  TokenRequired = TRUE
  RpcItems = 4
  RpcBytes = 7
  ClientBytes = 7
  MaxConnections = 2
  MaxSubscribers = 1
  BatchLimit = 4
  WriterRoom = 2
  EventQueue = 2
  Documents <- MCDocuments
  GlobalPatches <- MCGlobal
  Additions <- MCAdditions
  TaskPatches <- MCPatches
  MaxEdits = 2
  MaxSpecs = 2
  MaxAdded = 1
  Torrents = {1, 2}
  Outputs <- MCOutputs
  TransferOutput = 1
  MaxGeneration = 2
  MaxProgress = 1
  MaxTrouble = 3
  PairTrouble = 1
  RateTotals = {3, 6, 99}
  Unlimited = 99
INVARIANTS StoreSound ResumeMatchesSetup RpcSound TaskOptionsSound BtSound
PROPERTIES HistoryKept
CHECK_DEADLOCK FALSE
