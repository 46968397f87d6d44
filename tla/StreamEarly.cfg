CONSTANTS
  Job = {1, 2}
  Scope = {1, 2}
  Limit = 2
  Retention = 9
  MaxClaims = 1
  Prompt = TRUE
  MaxGates = 1
SPECIFICATION Spec
INVARIANTS EndsAfterAnnounced
CHECK_DEADLOCK FALSE
