CONSTANTS
  Apps = {a}
  IDs = {i}
  Cap = 1
  Traffic = {}
  PeerEvents = {"gone"}
  InitResults = {"ok"}
  EventResults = {"ok"}
  CloseResults = {"ok"}
  AppCalls = {"SendError"}
  Watched = {}

SPECIFICATION Spec
INVARIANT NoUnrecoveredPanic
CHECK_DEADLOCK FALSE
