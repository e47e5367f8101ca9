SPECIFICATION Spec
CONSTANTS
  Points <- TwoIds
  MaxVersions = 4
INVARIANTS UpdatesAreMerged
CHECK_DEADLOCK FALSE
