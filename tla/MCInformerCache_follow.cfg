CONSTANTS
  Resources <- Both
  Names <- TwoNames
  Callers = {c1}
  Wishes <- SameWish
  PageSize = 1
  MaxRevision = 3
CHECK_DEADLOCK FALSE
SPECIFICATION FairSpec
INVARIANTS TypeOK ListIsSnapshot ReadySeesList
PROPERTIES CacheMovesForward Converges
