CONSTANTS
  Apps = {r}
  IDs = {i}
  Cap = 1
  Traffic <- ClientTraffic
  PeerEvents = {"closeFrame"}
  InitResults = {"ok"}
  EventResults = {"ok"}
  CloseResults = {"ok", "panic"}
  AppCalls = {}
  Watched = {}
  NoReader = NoReader
  Limit = 0
  Faults = {"subscribe", "control"}

SPECIFICATION SFairSpec
PROPERTIES
  ImplementsRedis
  TeardownEnds
CHECK_DEADLOCK FALSE
