CONSTANTS
  Users = {u1, u2}
  Hs = {h1, h2}
  Roles <- AllRoles
  MaxHandlers = 2
  Results = {"nil", "error", "none", "prevented", "stopped", "both"}
  Recorded = {"init"}
  Removes = TRUE

SPECIFICATION Spec
INVARIANTS
  TypeOK
  NoHandlerLost
  InitAsksEveryHandler
SYMMETRY Interchangeable
CHECK_DEADLOCK FALSE
