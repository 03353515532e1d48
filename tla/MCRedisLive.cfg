CONSTANTS
  Readers = {r}
  IDs = {i}
  NoReader = NoReader
  Limit = 1
  Faults = {"dial", "subscribe", "receive", "control"}

SPECIFICATION FairSpec
PROPERTIES
  ClosedReaderEnds
  GaveUpReaderEnds
CHECK_DEADLOCK FALSE
