SPECIFICATION Spec
CONSTANTS
  Points <- TwoIds
  MaxVersions = 4
INVARIANTS VersionsKeepIdsApart ConflictsAreTheClashes MergeKeepsInsertsAndDeletes MergeIsSymmetric LoopsComputeTheSets
CHECK_DEADLOCK FALSE
