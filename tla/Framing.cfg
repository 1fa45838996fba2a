SPECIFICATION Spec
CONSTANTS
  Base = 4
  Word <- MCWord
  Marker = 3
  MAXRECV = 7
  Int32 = 2
  Int64 = 3
  Batches <- MCBatches
  Fulls <- MCFulls
INVARIANTS
  TypeOK
  RoundTrip
  LengthDecides
PROPERTY
  Answered
CHECK_DEADLOCK FALSE
