SPECIFICATION Spec
CONSTANTS
    CompressPrecision <- OneAndAHalf
    RateDen = 1
    x = x
    y = y
    z = z
    Value = {v1, v2}
    MultChain = {1}
    MultLong = {1}
    MultSplit = {1}
    MultFiltered = {1}
    Plans <- ThreePieces
INVARIANT CenterKnown
