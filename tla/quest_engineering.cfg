\* ShellTool as the base executor with auto_commit on; the validator allows
\* more steps than the planner, so the planner's own bound ends a loop.
SPECIFICATION Spec
CONSTANTS
  Tools = {"inspect", "finish", "edit", "cargo_test", "shell"}
  Perms = {"Read", "Execute"}
  AutoCommit = TRUE
  EngineeringTools = TRUE
  MaxSubtasks = 2
  MaxSteps = 2
  ValidatorSteps = 3
  MaxRepair = 2
  MaxRetries = 1
  MaxParsed = 3
INVARIANTS
  RunsCoveredByGrants
  WorkBounded
PROPERTIES
  QuestReturns
  ImplementsContract
CHECK_DEADLOCK FALSE
