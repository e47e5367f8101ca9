SPECIFICATION Spec
CONSTANTS
  Writers = {w1}
  Null = null
  Points <- Grid
  Bits = 4
  LeafSize = 2
  MaxCommits = 0
  Initial <- SubsetsOfGrid
  Batches <- SubsetsOfGrid
  CellWidth = 2
  Eps = 1
  World <- GridWorld
  Boxes <- GridBoxes
  Centers <- GridCenters
  Counts = {1, 2, 3}
  Distances = {2}
  ScanLength = 2
INVARIANTS SplitsAreExact RangeQueriesAreExact KnnIsExact
CHECK_DEADLOCK FALSE
