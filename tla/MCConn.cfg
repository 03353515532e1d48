CONSTANTS
  Apps = {a}
  IDs = {i}
  Cap = 1
  Traffic <- CoreTraffic
  PeerEvents = {"closeFrame", "gone", "error", "pong", "null"}
  InitResults = {"ok", "fatal", "error", "panic"}
  EventResults = {"ok", "panic"}
  CloseResults = {"ok", "error", "panic"}
  AppCalls = {"Close", "SendData", "SendError"}
  Watched = {}

SPECIFICATION Spec
INVARIANTS
  TypeOK
  IndInv
  SafeSend
  CloseOnce
  NoSubscriptionBeforeInit
  PumpExitShutsDown
PROPERTIES
  TeardownUnderLock
  ImplementsLifecycle
CHECK_DEADLOCK FALSE
