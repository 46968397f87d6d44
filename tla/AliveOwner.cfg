CONSTANTS
  Job = {1, 2}
  AutoJob = {}
  Ordered = FALSE
  Proc = {p, q}
  MaxToken = 3
  Ref = {main}
  Main = main
  MaxSha = 2
  MaxMoves = 0
  Faults = {"expire"}
  Daemon = {}
  Manual = {}
SPECIFICATION Spec
SYMMETRY Symmetry
PROPERTIES AliveOwnerKeepsLease
CHECK_DEADLOCK FALSE
