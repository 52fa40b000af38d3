SPECIFICATION Spec
CONSTANTS
    c1 = c1  c2 = c2  a = a  b = b  d = d  x = x  y = y  z = z
    NL = NL  ToEOF = ToEOF
    Calls <- TwoCalls
    Tokens <- AllTokens
    Asks <- ManyAsks
    FirstText <- ThreeLines
    ForeignTexts <- OneForeign
    ReadEnds <- SomeEnds
    MaxForeign = 1
    READ_MAX_LINES = 2
    READ_MAX_BYTES = 3
CONSTRAINT ManyOrConcurrent
INVARIANTS EditorTypeOK WalkReassembles FileSurvives TmpReclaimed
PROPERTIES CommitsWholePatch PagesAdvance
CHECK_DEADLOCK FALSE
