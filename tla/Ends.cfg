CONSTANTS
  Job = {1, 2, 3, 4}
  Member = {leader, child, sudo}
  Leader = leader
  Traps = {leader, child}
  Foreign = {sudo}
  MayWedge = TRUE
  Repo = {a, b}
  Answering = a
  Outcome = {"idle", "landed", "error"}
  KeptLimit = 2
  MaxReports = 3
  MaxCrashes = 0
  Faults = {"down"}
  ClaimJob = {1, 2}
  ClaimScope = {1, 2}
  ClaimLimit = 9
  ClaimRetention = 4
  AgainJob = {1}
  AgainScope = {1}
  AgainLimit = 2
  AgainRetention = 9
  AgainClaims = 2
  Prompt = TRUE
  MaxGates = 1
  Path = {main, alias, other}
  Dirs = {{main, alias}, {other}}
  Roots = {{main, alias}, {other}}
  Dbs = {{main, alias}, {other}}
  HubCommand = c1
  Concurrency = 1
  Breakable = {main}
  MaxRoster = 3
  MaxBreaks = 1
  MaxSweeps = 2
SPECIFICATION Spec
INVARIANTS BlameIsJust GateIsStopped StreamIsComplete
PROPERTIES TrainEnds StopCompletes KeptIsSent StreamEnds HealthyServed
CHECK_DEADLOCK FALSE
