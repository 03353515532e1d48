CONSTANTS
  Apps = {}
  IDs = {i}
  Cap = 2
  Traffic <- InitTraffic
  PeerEvents = {}
  InitResults = {"ok", "error"}
  EventResults = {"ok"}
  CloseResults = {"ok"}
  AppCalls = {}
  Watched = {"connection_ack", "connection_error"}

SPECIFICATION Spec
INVARIANTS
  InitAnswered
CHECK_DEADLOCK FALSE
