CONSTANTS
  Apps = {}
  IDs = {i}
  Cap = 2
  Traffic <- InitTraffic
  PeerEvents = {}
  InitResults = {"ok"}
  EventResults = {"ok"}
  CloseResults = {"ok"}
  AppCalls = {}
  Watched = {}

SPECIFICATION FairSpec
PROPERTIES
  ReinitializationForbidden
CHECK_DEADLOCK FALSE
