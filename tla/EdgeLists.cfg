SPECIFICATION Spec
CONSTANTS
  Key <- MCKey
  Ma = 6
  Mb = 5
  Hash <- MCHash
INVARIANTS
  TypeOK
  ListsExact
  DisjointSetExact
  FillsEveryTree
PROPERTY ImplementsForest
