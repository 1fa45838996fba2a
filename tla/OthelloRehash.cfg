SPECIFICATION Spec
CONSTANTS
  Key <- TwoKeys
  NodeA <- MCNodeA
  NodeB <- MCNodeB
  Hash <- FourHashes
  IndexBits = 2
  PlainErase = TRUE
INVARIANTS
  TypeOK
  Integrity
  ForestExact
  MembersFound
PROPERTY
  ImplementsMap
