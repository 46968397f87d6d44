CONSTANTS
  Daemon = {daemon}
  Terminal = {terminal}
  Mcp = {mcp}
  Url = {a1, a2}
  Head = {a1, a2}
  Policy = {c1, c2}
  AskedJob = {1}
  AskedRefs = {1}
  AskedEdits = 2
  AutoJob = {1, 2}
  AutoRefs = {b1, b2}
  AutoEdits = 3
  Gate = {unit, docs, smoke}
  Always = {smoke}
  Scoped = {docs}
  Env = {b1, b2}
  Mode = {"rerun", "fail"}
  MaxAge = 0
  MaxClock = 1
  MaxMoves = 2
  MaxRuns = 2
  DeployedJob = {1, 2}
  Verifier = {a1, a2}
  Hooks = {b1, b2, none}
  NoHooks = none
  MaxEdits = 2
  MaxCommands = 2
  PlanGate = {1, 2, 3}
  Group = {"quality"}
  MaxWorkers = 2
SPECIFICATION Spec
INVARIANTS ShippedAsApproved LandedGated ReuseIsSound VerifiedByItsHooks PlanGoesOn PlanIsHonest
PROPERTIES SettledForGood
CHECK_DEADLOCK FALSE
