\* A planner that awaits its records and a server that spawns them share a
\* tenant; a third writer uses the SQL helper.
SPECIFICATION AuditSpec
CONSTANTS
  Callers = {"planner", "server"}
  Inline = {"planner"}
  TenantOf <- MCTenantOf
  Actions = {"Modify"}
  SeesRows = TRUE
  MaxEvents = 2
  MaxHelper = 2
INVARIANTS
  ChainRooted
  OneRowEach
  InlineInOrder
CHECK_DEADLOCK FALSE
