SPECIFICATION Spec
CONSTANTS
    f1 = f1  f2 = f2  c1 = c1  c2 = c2
    Tree <- FileAndLink
    Links <- TheLink
    Calls <- TwoCalls
    Versions <- TwoVersions
    Hole = 0
    NoFile = NoFile
    MaxTime = 2
    MaxEdits = 1
    MaxCalls = 2
    MaxUploads = 3
SYMMETRY CallSymmetry
CONSTRAINT RetriesOrBatches
INVARIANTS TransferTypeOK TransfersAgree
PROPERTIES SkipSound
CHECK_DEADLOCK FALSE
