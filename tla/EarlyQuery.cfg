SPECIFICATION Spec
CONSTANTS
  Device = {d1}
  MaxBoots = 1
  MaxRuns = 1
  MaxCommands = 1
  Commands = {"show"}
  MayRebuild = {}
  EarlyQueries = TRUE
INVARIANT
  QueriesSeeWholeSummaries
CHECK_DEADLOCK FALSE
