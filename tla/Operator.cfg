CONSTANTS
  Job = {1, 2}
  AutoJob = {}
  Ordered = FALSE
  Proc = {p, q}
  MaxToken = 5
  Ref = {main}
  Main = main
  MaxSha = 2
  MaxMoves = 0
  Faults = {"cancel", "stop", "busy", "refuse", "drop", "timeout", "dismiss", "retry"}
  Daemon = {}
  Manual = {}
SPECIFICATION Spec
SYMMETRY Symmetry
INVARIANTS OneWholeTrain
PROPERTIES CancelHonoured KeepsLedger
CHECK_DEADLOCK FALSE
