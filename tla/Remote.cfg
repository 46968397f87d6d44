CONSTANTS
  Job = {1, 2}
  AutoJob = {}
  Ordered = FALSE
  Proc = {p, q}
  MaxToken = 5
  Ref = {main, rel}
  Main = main
  MaxSha = 2
  MaxMoves = 2
  Faults = {"crash", "drop", "timeout", "rewrite", "foreign", "unclear", "refuse", "offline"}
  Daemon = {}
  Manual = {}
SPECIFICATION Spec
SYMMETRY Symmetry
INVARIANTS LandingsKept
PROPERTIES KeepsLedger
CHECK_DEADLOCK FALSE
