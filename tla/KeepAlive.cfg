CONSTANTS
  PongWait = 25
  Lag = 2

SPECIFICATION FairSpec
INVARIANT ResponsiveClientStays
PROPERTY SilentClientEnds
CHECK_DEADLOCK FALSE
