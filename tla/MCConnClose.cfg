CONSTANTS
  Apps = {a, b}
  IDs = {i}
  Cap = 1
  Traffic <- LockTraffic
  PeerEvents = {}
  InitResults = {"ok"}
  EventResults = {"ok"}
  CloseResults = {"ok"}
  AppCalls = {"Close", "SendData"}
  Watched = {}

SPECIFICATION FairSpec
PROPERTIES
  CloseFinishes
CHECK_DEADLOCK FALSE
