CONSTANTS
  Job = {1, 2}
  AutoJob = {1, 2}
  Ordered = FALSE
  Proc = {p, d}
  MaxToken = 3
  Ref = {main}
  Main = main
  MaxSha = 2
  MaxMoves = 0
  Faults = {"crash", "cancel", "stop", "busy", "stale", "drop", "refuse"}
  Daemon = {d}
  Manual = {}
SPECIFICATION Spec
SYMMETRY Symmetry
INVARIANTS HealedClaims
PROPERTIES VerdictAfterPush CancelHonoured
CHECK_DEADLOCK FALSE
