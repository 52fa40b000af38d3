SPECIFICATION Spec
CONSTANTS
    c1 = c1  c2 = c2  a = a  b = b  d = d  x = x  y = y  z = z
    NL = NL  ToEOF = ToEOF
    Calls <- OneCall
    Tokens <- AllTokens
    Asks <- OneAsk
    FirstText <- ThreeLines
    ForeignTexts <- OneForeign
    ReadEnds <- SomeEnds
    MaxForeign = 0
    READ_MAX_LINES = 2
    READ_MAX_BYTES = 3
INVARIANT NothingLost
CHECK_DEADLOCK FALSE
