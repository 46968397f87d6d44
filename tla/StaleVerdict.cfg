CONSTANTS
  Job = {1}
  AutoJob = {1}
  Ordered = FALSE
  Proc = {p, q, d}
  MaxToken = 5
  Ref = {main}
  Main = main
  MaxSha = 2
  MaxMoves = 0
  Faults = {"expire", "crash", "drop", "stall"}
  Daemon = {d}
  Manual = {}
SPECIFICATION Spec
SYMMETRY Symmetry
PROPERTIES NoStaleDecision
CHECK_DEADLOCK FALSE
