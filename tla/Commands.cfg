CONSTANTS
  Agent = {a1, a2}
  Branch = {b1, b2}
  Approval = {c1, c2}
  OrderedApproval = {c1}
  MaxRows = 3
  MaxCommands = 3
  QueueMoves = 1
  QueueDeaths = 0
  OrderedMoves = 0
  OrderedDeaths = 1
  GcBranch = {b1}
  GcRows = 2
  MaxRuns = 2
  MaxGcs = 1
  CollectCommits = 2
  CollectVerifies = 0
  CheckedCommits = 1
  CheckedVerifies = 1
  Path = {main, linked, clone}
  HubDirs = {{main}, {linked}, {clone}}
  Roots = {{main, linked}, {clone}}
  Dbs = {{main, linked, clone}}
  Concurrency = 2
  Breakable = {main}
  HubCommands = 2
  MaxRoster = 3
  MaxBreaks = 1
  MaxSweeps = 1
  Repo = {r1, r2}
  NotifyOutcome = {"idle", "landed", "error"}
  Limit = 1
  MaxReports = 2
  MaxCrashes = 1
  Faults = {"down", "unsaved", "config"}
SPECIFICATION Spec
INVARIANTS RunsOnce ReplacesRetired AutoGranted NothingTaken SweepFollowsRoster DeliveredOnce
PROPERTIES LandsInOrder
SYMMETRY Symmetry
CHECK_DEADLOCK FALSE
