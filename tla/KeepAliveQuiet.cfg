CONSTANTS
  PongWait = 25
  Lag = 2

SPECIFICATION FairSpec
INVARIANT PingsWhenQuiet
CHECK_DEADLOCK FALSE
