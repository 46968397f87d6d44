CONSTANTS
  Job = {1, 2}
  AutoJob = {1, 2}
  Ordered = FALSE
  Proc = {p, d, e}
  MaxToken = 2
  Ref = {main}
  Main = main
  MaxSha = 4
  MaxMoves = 0
  Faults = {"crash", "drop", "timeout", "busy", "cancel"}
  Daemon = {d, e}
  Manual = {}
SPECIFICATION FairSpec
PROPERTIES ClaimEnds AutoWorkStarts
CHECK_DEADLOCK FALSE
