CONSTANTS
  Apps = {}
  IDs = {i}
  Cap = 2
  Traffic <- InitTraffic
  PeerEvents = {"closeFrame"}
  InitResults = {"ok"}
  EventResults = {"ok"}
  CloseResults = {"ok"}
  AppCalls = {}
  Watched = {"null"}

SPECIFICATION Spec
INVARIANTS
  NoNullFrame
CHECK_DEADLOCK FALSE
