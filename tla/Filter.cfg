SPECIFICATION FairSpec
CONSTANTS
  n = 4
  m = 2
  Fp = {1, 2, 3}
  alternate <- MCAlternate
  max_kick_steps = 2
INVARIANTS
  TypeOK
  FilledCellExact
  LookupExact
PROPERTIES
  ImplementsBag
  InsertReturns
