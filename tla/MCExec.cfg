SPECIFICATION Spec
CONSTANTS
    c1 = c1  c2 = c2  h1 = h1  h2 = h2  h3 = h3  here = here
    Calls <- TwoCalls
    Hosts <- SomeHosts
    Local = here
    Allowed <- AllowedHosts
    Limit = 1
    MaxCommands = 2
    Requests <- SomeRequests
CONSTRAINTS ShortTogether WindowStands
INVARIANTS ExecTypeOK RollingStops RecordedUnlessExcused NothingAfterUnrecorded
CHECK_DEADLOCK FALSE
