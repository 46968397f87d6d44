CONSTANTS
  Gate = {unit, docs, smoke}
  Always = {smoke}
  Scoped = {docs}
  Policy = {p1, p2}
  Mode = {"rerun", "fail"}
  Env = {e1, e2}
  MaxAge = 0
  MaxClock = 1
  MaxMoves = 1
  MaxRuns = 2
SPECIFICATION Spec
INVARIANT UnchangedSinceGated
CHECK_DEADLOCK FALSE
