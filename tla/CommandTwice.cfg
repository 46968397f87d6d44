CONSTANTS
  Leader = leader
  Member = {leader, child, sudo}
  Traps = {leader, child}
  Foreign = {sudo}
  MayWedge = FALSE
SPECIFICATION Spec
INVARIANTS GateStopped
CHECK_DEADLOCK FALSE
