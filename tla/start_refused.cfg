CONSTANTS
  Gids = {1, 2}
  Journals = {j1}
  Keys = {1, 2}
  Entries = {a}
  HostKeyed = {1}
  Patched = {1}
  Restless = {1}
  MaxPatches = 1
  MaxTasks = 2
  MaxTime = 1
  MaxGenerations = 1
SPECIFICATION CrashSpec
INVARIANTS EveryStartOpens
CHECK_DEADLOCK FALSE
