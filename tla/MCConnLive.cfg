CONSTANTS
  Apps = {a}
  IDs = {i}
  Cap = 1
  Traffic <- LockTraffic
  PeerEvents = {"closeFrame", "error", "gone"}
  InitResults = {"ok", "error"}
  EventResults = {"ok"}
  CloseResults = {"ok"}
  AppCalls = {"Close", "SendData"}
  Watched = {}

SPECIFICATION FairSpec
PROPERTIES
  ShutdownEndsPumps
CHECK_DEADLOCK FALSE
