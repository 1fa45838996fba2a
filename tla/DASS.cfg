SPECIFICATION Spec
CONSTANTS
  Key = {p, q, r}
  p = p
  q = q
  r = r
  Bucket = {0, 1, 2}
  Fp = {"f", "g"}
  Placement <- MCPlacement
  Sentinel = Sentinel
  Unknown = Unknown
  MaxCopies = 3
  MaxStrayed = 2
SYMMETRY Alike
INVARIANTS
  TypeOK
  AnswersExact
  KeysKept
  ListsExact
  Survives
  DeviceAgrees
CHECK_DEADLOCK FALSE
