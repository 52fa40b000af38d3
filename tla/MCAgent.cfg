SPECIFICATION Spec
CONSTANTS
    a1 = a1  a2 = a2  t1 = t1  t2 = t2  h1 = h1  v1 = v1  v2 = v2  pw = pw
    Agents <- TwoAgents
    Clients <- TwoClients
    Names <- OneHost
    Kinds <- SshAndSudo
    SameAsSsh <- OneHost
    Values <- TwoValues
    Command <- Commands
    TTLs = {2}
    DefaultTTL = 1
    NoFile = NoFile
    Stale = Stale
    NoVal = NoVal
    MaxTicks = 1
    MaxCommands = 2
    MaxLookups = 1
SYMMETRY AgentSymmetry
INVARIANTS AgentTypeOK FreshCredential ReadYourWrites
PROPERTIES NoTakeover
CHECK_DEADLOCK FALSE
