CONSTANTS
  Apps = {a}
  IDs = {i}
  Cap = 2
  Traffic <- InitTraffic
  PeerEvents = {}
  InitResults = {"ok"}
  EventResults = {"ok"}
  CloseResults = {"ok"}
  AppCalls = {"Close"}
  Watched = {}

SPECIFICATION FairSpec
PROPERTIES
  ClosedIsFinal
CHECK_DEADLOCK FALSE
