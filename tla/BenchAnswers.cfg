SPECIFICATION Spec
CONSTANTS
  Ids = {1, 2, 3}
  Places = {"a", "b", "c"}
  CodeOf <- CellOf
  Base <- BaseData
  LargestMbr <- Unset
  Num = 3
  Den = 1
  MaxEvents = 3
INVARIANTS SomeAnswerIsAboutActive
CHECK_DEADLOCK FALSE
