CONSTANTS
  Users = {u}
  Hs = {h1, h2}
  Roles <- AllRoles
  MaxHandlers = 3
  Results = {"nil", "error", "none", "prevented", "stopped", "both"}
  Recorded = {"init", "stop"}
  Removes = FALSE

SPECIFICATION Spec
INVARIANT StopPropagationStops
CHECK_DEADLOCK FALSE
