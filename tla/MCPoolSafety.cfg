SPECIFICATION Spec
CONSTANTS
  t1 = t1
  t2 = t2
  t3 = t3
  web = web
  padded = padded
  yamlCfg = yamlCfg
  aliasCfg = aliasCfg
  NoConfig = NoConfig
  Tasks = {t1, t2, t3}
  Hosts = {web}
  RawNames = {padded}
  Norm <- Stripped
  Configs = {yamlCfg, aliasCfg}
  PasswordAuth = {yamlCfg}
  InitRegistry <- Registered
  Aliases = {web}
  AliasConfig = aliasCfg
  PoolSize = 1
  MaxChannels = 1
  MaxConns = 2
  MaxGen = 2
  MaxInUse = 3
SYMMETRY TaskSymmetry
INVARIANTS
  TypeOK
  PoolBound
  FreshUsable
  NoYank
  NoOrphan
  InUseAccounted
PROPERTY
  ImplementsLease
CONSTRAINT RawOrThree
