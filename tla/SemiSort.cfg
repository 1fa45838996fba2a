SPECIFICATION Spec
CONSTANTS
  n = 7
  FpLen = {4, 5, 6, 7, 8, 9, 10, 11, 12, 13, 14, 15, 16}
  Used <- Around
  Sample <- TwoFingerprints
INVARIANTS
  TypeOK
  SlotsInOrder
  MemoryExact
