CONSTANTS
  Names = {1}
  Values <- TwoValues
  Variables = {v, w}
  Contents <- SomeContents
  MaxEvents = 3
CHECK_DEADLOCK FALSE
SPECIFICATION Spec
INVARIANTS TypeOK WatchTellsAll
PROPERTY ScribblesStayLocal
