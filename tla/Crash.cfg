CONSTANTS
  Job = {1, 2}
  AutoJob = {}
  Ordered = FALSE
  Proc = {p, q}
  MaxToken = 4
  Ref = {main}
  Main = main
  MaxSha = 2
  MaxMoves = 0
  Faults = {"crash", "expire", "reuse", "drop"}
  Daemon = {}
  Manual = {}
SPECIFICATION Spec
SYMMETRY Symmetry
INVARIANTS TypeOK OneClaim PushIsOnRecord OnePush
PROPERTIES VerdictAfterPush KeepsLedger
CHECK_DEADLOCK FALSE
