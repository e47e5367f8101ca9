SPECIFICATION Spec
CONSTANTS
  Writers = {w1}
  Null = null
  Points <- FourPoints
  Bits = 2
  LeafSize = 2
  MaxCommits = 1
  Initial <- BagsOfFour
  Batches <- BagsOfFour
  Cutoff = 2
INVARIANTS VersionsAreAsBuilt PurgeSparesTheOther InPlaceUpdatesAreExact
PROPERTIES ImplementsIndexSafely
CHECK_DEADLOCK FALSE
