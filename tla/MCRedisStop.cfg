CONSTANTS
  Readers = {r}
  IDs = {i}
  NoReader = NoReader
  Limit = 0
  Faults = {}

SPECIFICATION FairSpec
INVARIANT StopWakesReader
CHECK_DEADLOCK FALSE
