SPECIFICATION FairSpec
CONSTANTS
  t1 = t1
  t2 = t2
  t3 = t3
  web = web
  padded = padded
  yamlCfg = yamlCfg
  aliasCfg = aliasCfg
  NoConfig = NoConfig
  Tasks = {t1, t2}
  Hosts = {web}
  RawNames = {}
  Norm <- Stripped
  Configs = {yamlCfg, aliasCfg}
  PasswordAuth = {yamlCfg}
  InitRegistry <- Registered
  Aliases = {web}
  AliasConfig = aliasCfg
  PoolSize = 1
  MaxChannels = 1
  MaxConns = 2
  MaxGen = 1
  MaxInUse = 3
PROPERTIES
  GetTerminates
  RetiredDrains
