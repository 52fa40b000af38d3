SPECIFICATION Spec
CONSTANTS
    s1 = s1  s2 = s2  s3 = s3  j1 = j1  j2 = j2  q1 = q1  q2 = q2
    Servers <- ThreeServers
    Jobs <- TwoJobs
    Ops <- TwoOps
    MaxLive = 1
    MaxStarts = 3
    NoRec = NoRec
SYMMETRY JobSymmetry
CONSTRAINT RestartsOrJobs
INVARIANTS JobTypeOK FinishedIsOver CapHolds KeptThroughRestart
CHECK_DEADLOCK FALSE
