CONSTANTS
  Readers = {r1, r2}
  IDs = {i, j}
  NoReader = NoReader
  Limit = 0
  Faults = {"dial", "subscribe", "receive", "control"}

SPECIFICATION Spec
INVARIANTS
  TypeOK
  ClosedReaderIsWoken
  OneConnection
SYMMETRY Interchangeable
CHECK_DEADLOCK FALSE
