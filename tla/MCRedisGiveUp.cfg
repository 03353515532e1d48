CONSTANTS
  Readers = {r}
  IDs = {i}
  NoReader = NoReader
  Limit = 1
  Faults = {"subscribe", "control"}

SPECIFICATION FairSpec
PROPERTY GiveUpCloses
CHECK_DEADLOCK FALSE
