SPECIFICATION Spec
CONSTANTS
  Key <- FourKeys
  NodeA <- MCNodeA
  NodeB <- MCNodeB
  Hash <- CycleHash
  IndexBits = 2
  PlainErase = FALSE
INVARIANTS
  Integrity
  KeysAcyclic
  DataPlaneInSync
PROPERTY
  ImplementsMap
