SPECIFICATION Spec
CONSTANTS
  Device = {d1, d2}
  MaxBoots = 2
  MaxRuns = 2
  MaxCommands = 2
  Commands = {"add", "rem", "unr", "rev", "exi", "bad", "huge"}
  MayRebuild = {"add", "unr", "rev"}
  EarlyQueries = TRUE
SYMMETRY Symmetry
INVARIANTS
  TypeOK
  DivergenceExplained
  RegisteredFirst
  
PROPERTY
  ViewsNeverGoBack
CHECK_DEADLOCK FALSE
