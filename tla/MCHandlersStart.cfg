CONSTANTS
  Users = {u}
  Hs = {h1, h2}
  Roles <- AllRoles
  MaxHandlers = 3
  Results = {"nil", "error", "none", "prevented", "stopped", "both"}
  Recorded = {"init", "start"}
  Removes = FALSE

SPECIFICATION Spec
INVARIANT StartErrorsRefuse
CHECK_DEADLOCK FALSE
