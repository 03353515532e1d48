CONSTANTS
  Apps = {}
  IDs = {i}
  Cap = 2
  Traffic <- TerminateTraffic
  PeerEvents = {}
  InitResults = {"ok"}
  EventResults = {"ok"}
  CloseResults = {"ok"}
  AppCalls = {}
  Watched = {}

SPECIFICATION FairSpec
PROPERTIES
  TerminateTerminates
CHECK_DEADLOCK FALSE
