SPECIFICATION FairSpec
CONSTANTS
  Device = {d1, d2}
  MaxBoots = 2
  MaxRuns = 1
  MaxCommands = 2
  Commands = {"unr", "show", "bad"}
  MayRebuild = {"unr"}
  EarlyQueries = FALSE
PROPERTIES
  
  
  QueriesResume
CHECK_DEADLOCK FALSE
