CONSTANTS
  Apps = {r}
  IDs = {i}
  Cap = 1
  Traffic <- ClientTraffic
  PeerEvents = {"closeFrame"}
  InitResults = {"ok"}
  EventResults = {"ok"}
  CloseResults = {"ok"}
  AppCalls = {}
  Watched = {}
  NoReader = NoReader
  Limit = 0
  Faults = {"control"}

SPECIFICATION SSpec
INVARIANT NoReaderLeftBehind
CHECK_DEADLOCK FALSE
