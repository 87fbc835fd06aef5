SPECIFICATION Spec
CONSTANTS
    CompressPrecision <- OneAndAHalf
    RateDen = 2
    x = x
    y = y
    z = z
    Value = {v1, v2}
    MultChain = {0, 2, 3}
    MultLong = {0, 2}
    MultSplit = {0, 1, 3}
    MultFiltered = {0, 2}
    Plans <- AcyclicPlans
SYMMETRY ValueSymmetry
INVARIANT TypeOK
INVARIANT EdgesExact
INVARIANT SumsToCard
INVARIANT UpperBound
INVARIANT RateAtMostOne
INVARIANT AverageKeepsCard
INVARIANT RateInterpolates
INVARIANT NeverBelowIndependence
INVARIANT WeightedFilterCovers
PROPERTY WorkShrinks
