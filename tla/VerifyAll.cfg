CONSTANTS
  Job = {1, 2}
  Verifier = {v}
  Policy = {none, p, q}
  NoHooks = none
  MaxEdits = 1
  MaxCommands = 1
SPECIFICATION Spec
PROPERTY AllAccepted
CHECK_DEADLOCK FALSE
