CONSTANTS
  Job = {1, 2}
  AutoJob = {1}
  Ordered = TRUE
  Proc = {p, d}
  MaxToken = 4
  Ref = {main}
  Main = main
  MaxSha = 3
  MaxMoves = 0
  Faults = {"crash", "cancel", "stop", "dismiss", "retry", "late", "drop", "error"}
  Daemon = {d}
  Manual = {d}
SPECIFICATION Spec
SYMMETRY Symmetry
INVARIANTS DeployedLanded
PROPERTIES OrderedLanding
CHECK_DEADLOCK FALSE
