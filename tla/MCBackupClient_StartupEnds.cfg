CONSTANTS
  Workers = {w0, w1, w2}
  MaxRestarts = 1
CHECK_DEADLOCK FALSE
SPECIFICATION FairSpec
PROPERTY StartupEnds
