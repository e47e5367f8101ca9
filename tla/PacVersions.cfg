SPECIFICATION Spec
CONSTANTS
  B = 2
  Null = null
  Initial <- FewInitial
  Batches <- FewBatches
  Boxes <- FewBoxes
  Centers <- FewCenters
  MaxCommits = 2
  MaxQueries = 1
INVARIANTS CountsAreExact TreesStayBalanced AnswersAreExact
PROPERTY ImplementsMap
CHECK_DEADLOCK FALSE
