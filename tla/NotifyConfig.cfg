CONSTANTS
  Repo = {a, b}
  Answers = {a}
  Outcome = {"idle", "landed", "no_landing", "error"}
  Limit = 1
  MaxReports = 2
  MaxCrashes = 0
  Faults = {"down", "config"}
SPECIFICATION Spec
INVARIANT KeptUntilDelivered
