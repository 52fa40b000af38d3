SPECIFICATION SessSpec
CONSTANTS
  s1 = s1
  s2 = s2
  u1 = u1
  c1 = c1
  c2 = c2
  web = web
  padded = padded
  yamlCfg = yamlCfg
  NoConfig = NoConfig
  NoSession = NoSession
  Sessions = {s1, s2}
  Tunnels = {u1}
  Tasks = {s1, s2, u1}
  Callers = {c1, c2}
  Hosts = {web}
  RawNames = {padded}
  Norm <- Stripped
  Configs = {yamlCfg}
  PasswordAuth = {}
  InitRegistry <- Registered
  Aliases = {}
  AliasConfig = yamlCfg
  PoolSize = 1
  MaxChannels = 1
  MaxConns = 1
  MaxGen = 1
  MaxInUse = 3
  MaxCancels = 1
SYMMETRY Symmetries
CHECK_DEADLOCK FALSE
INVARIANTS
  SessTypeOK
  NeverOvercounts
  SlotsOwned
  NoLockCycle
