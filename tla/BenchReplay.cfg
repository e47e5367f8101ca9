SPECIFICATION Spec
CONSTANTS
  Ids = {1, 2, 3}
  Places = {"a", "b", "c"}
  CodeOf <- CellOf
  Base <- BaseData
  LargestMbr <- Everywhere
  Num = 3
  Den = 1
  MaxEvents = 3
INVARIANTS MvqHoldsActive PaczLosesWhatStayed LogsKeepTheUntouched
CHECK_DEADLOCK FALSE
