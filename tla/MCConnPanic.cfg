CONSTANTS
  Apps = {}
  IDs = {i}
  Cap = 2
  Traffic <- SubscriptionTraffic
  PeerEvents = {"closeFrame"}
  InitResults = {"ok"}
  EventResults = {"ok"}
  CloseResults = {"ok"}
  AppCalls = {}
  Watched = {}

SPECIFICATION Spec
INVARIANTS
  NoUnrecoveredPanic
CHECK_DEADLOCK FALSE
