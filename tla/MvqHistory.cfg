SPECIFICATION Spec
CONSTANTS
  Writers = {w1}
  Null = null
  Points <- FewPoints
  Bits = 4
  LeafSize = 2
  MaxCommits = 2
  Initial <- FewInitial
  Batches <- History
  CellWidth = 2
  Eps = 1
  World <- GridWorld
  Boxes <- FewBoxes
  Centers <- GridCenters
  Counts = {1, 2, 3}
  Distances = {2, 3}
  ScanLength = 2
INVARIANTS MergedSonsAreLeaves DiffsAreExact SpatialDiffsAreExact JoinsAreExact
CHECK_DEADLOCK FALSE
