\* A principal without the Execute bit, auto_commit off, BasicToolExecutor.
SPECIFICATION Spec
CONSTANTS
  Tools = {"inspect", "finish", "modify", "Modify", "commit", "shell"}
  Perms = {"Read", "Modify", "Commit"}
  AutoCommit = FALSE
  EngineeringTools = FALSE
  MaxSubtasks = 2
  MaxSteps = 2
  ValidatorSteps = 2
  MaxRepair = 1
  MaxRetries = 1
  MaxParsed = 3
INVARIANTS
  EffectsGoverned
  ApprovalsAccountForGrants
  SubtasksInOrder
CHECK_DEADLOCK FALSE
