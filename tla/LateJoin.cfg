SPECIFICATION Spec
CONSTANTS
  Device = {d1}
  MaxBoots = 1
  MaxRuns = 1
  MaxCommands = 1
  Commands = {"unr"}
  MayRebuild = {}
  EarlyQueries = FALSE
INVARIANT
  DevicesInSync
CHECK_DEADLOCK FALSE
