CONSTANTS
  Branch = {b}
  MayTurnOff = TRUE
  MaxRows = 2
  MaxCommits = 2
  MaxRuns = 2
  MaxGcs = 1
  MaxVerifies = 0
SPECIFICATION Spec
INVARIANT LateRunnerSpared
CHECK_DEADLOCK FALSE
