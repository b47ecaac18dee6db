SPECIFICATION Spec
CONSTANTS
    o1 = o1
    o2 = o2
    o3 = o3
    Orders <- MCOrders
    Overdue <- MCOverdue
    Demand <- MCDemand
    MaxUnit = 2
    MaxQuantity = 2
    MaxSettle = 2
SYMMETRY Symmetry
INVARIANTS
    PromisedOnce
    HoldKept
    ReservedForSomebody
PROPERTIES
    HistoryStays
