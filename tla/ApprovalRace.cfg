CONSTANTS
  Job = {j1, j2}
  Daemon = {d}
  Terminal = {}
  Mcp = {}
  Url = {u1, u2}
  Refs = {r1, r2}
  Policy = {q1, q2}
  Head = {h1, h2}
  MaxEdits = 3
SPECIFICATION Spec
PROPERTY BlockedForCause
CHECK_DEADLOCK FALSE
