CONSTANTS
  Resources <- OnlyVSD
  Names <- TwoNames
  Callers = {c1}
  Wishes <- SameWish
  PageSize = 1
  MaxRevision = 2
CHECK_DEADLOCK FALSE
SPECIFICATION Spec
INVARIANT WatchComplete
