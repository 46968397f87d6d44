CONSTANTS
  Leader = leader
  Member = {leader, child, sudo}
  Traps = {leader, child}
  Foreign = {sudo}
  MayWedge = TRUE
SPECIFICATION Spec
INVARIANTS ServerLeavesNone
CHECK_DEADLOCK FALSE
