CONSTANTS
  Users = {u}
  Hs = {h1, h2}
  Roles <- AllRoles
  MaxHandlers = 3
  Results = {"nil", "error", "none", "prevented", "stopped", "both"}
  Recorded = {"init"}
  Removes = TRUE

SPECIFICATION Spec
INVARIANT ListIsRegistered
CHECK_DEADLOCK FALSE
