SPECIFICATION Spec
CONSTANTS
  c1 = c1
  c2 = c2
  Callers = {c1, c2}
  ScriptLines = 2
  SttyLine = 1
  QuietIsIdle = TRUE
  MaxLines = 7
  MaxCancels = 2
  MaxEnvs = 2
SYMMETRY CallerSymmetry
CHECK_DEADLOCK FALSE
INVARIANTS
  ChannelTypeOK
  OwesOnlyReaders
  LagBounded
