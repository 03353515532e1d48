CONSTANTS
  Readers = {r1, r2}
  IDs = {i}
  NoReader = NoReader
  Limit = 0
  Faults = {}

SPECIFICATION FairSpec
PROPERTY CloseStopsReaders
CHECK_DEADLOCK FALSE
