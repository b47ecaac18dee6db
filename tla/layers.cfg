SPECIFICATION LayersSpec
CONSTANTS
    OrderIds = {o1, o2}
    MaxLayer = 2
    MaxTime = 2
    MaxQuantity = 2
    MaxRequests = 2
SYMMETRY Symmetry
INVARIANTS
    LayersBalance
    CostFollowsOrder
    ReturnedWithinSold
CHECK_DEADLOCK FALSE
