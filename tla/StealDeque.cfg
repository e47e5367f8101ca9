SPECIFICATION Spec
CONSTANTS
  Owner = Owner
  t1 = t1
  t2 = t2
  Thieves <- TwoThieves
  QSize = 4
  MaxPushes = 4
  None = None
  Busy = Busy
SYMMETRY ThiefSymmetry
INVARIANTS IInv
PROPERTIES ImplementsWorkDeque
CHECK_DEADLOCK FALSE
