\* Two writers of one tenant.
SPECIFICATION AuditSpec
CONSTANTS
  Callers = {"planner", "server"}
  Inline = {"planner"}
  TenantOf <- MCTenantOf
  Actions = {"Read", "Modify"}
  SeesRows = TRUE
  MaxEvents = 1
  MaxHelper = 0
INVARIANTS
  ChainLinear
CHECK_DEADLOCK FALSE
