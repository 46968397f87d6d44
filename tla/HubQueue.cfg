CONSTANTS
  Path = {main, clone}
  Dirs = {{main}, {clone}}
  Roots = {{main}, {clone}}
  Dbs = {{main, clone}}
  Command = {c1}
  Concurrency = 1
  Breakable = {main}
  MaxCommands = 1
  MaxRoster = 2
  MaxBreaks = 1
  MaxSweeps = 1
SPECIFICATION Spec
INVARIANTS OptOutFollowsQueue
CHECK_DEADLOCK FALSE
