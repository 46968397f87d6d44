CONSTANTS
  Job = {1, 2}
  Scope = {1}
  Limit = 2
  Retention = 9
  MaxClaims = 2
  Prompt = TRUE
  MaxGates = 1
SPECIFICATION Spec
INVARIANTS NoTrainEventSkipped
CHECK_DEADLOCK FALSE
