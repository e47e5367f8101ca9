SPECIFICATION FairSpec
CONSTANTS
  Writers = {w1, w2}
  Null = null
  Points <- ThreePoints
  Bits = 2
  LeafSize = 1
  MaxCommits = 2
  Initial <- AllThree
  Batches <- FewBatches
  Cutoff = 3
INVARIANTS TypeOK Separation IInv CInv
PROPERTIES SharedNodesAreImmutable ImplementsIndex
CHECK_DEADLOCK FALSE
