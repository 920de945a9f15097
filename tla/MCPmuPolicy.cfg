\* One CPU slot; the priority inputs straddle every threshold of the table.
CONSTANTS
    CPUs = {0}
    TimeFactors = {0, 71, 231, 399}
    Localities = {29, 30, 80, 81}
    Boosts = {0, 4, 5, 6, 130}
    NoPattern = NoPattern
    NoMetrics = NoMetrics
SPECIFICATION Spec
INVARIANT TypeOK
INVARIANT PriorityAsSpecified
INVARIANT RefreshAsSpecified
