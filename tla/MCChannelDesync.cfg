SPECIFICATION Spec
CONSTANTS
  c1 = c1
  c2 = c2
  Callers = {c1, c2}
  ScriptLines = 2
  SttyLine = 1
  QuietIsIdle = TRUE
  MaxLines = 6
  MaxCancels = 1
  MaxEnvs = 0
SYMMETRY CallerSymmetry
CHECK_DEADLOCK FALSE
INVARIANT
  Attributed
