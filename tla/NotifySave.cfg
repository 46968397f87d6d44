CONSTANTS
  Repo = {a, b}
  Answers = {a}
  Outcome = {"idle", "landed", "no_landing", "error"}
  Limit = 2
  MaxReports = 2
  MaxCrashes = 1
  Faults = {"down", "unsaved"}
SPECIFICATION Spec
INVARIANT SaveOnlyRepeats
