SPECIFICATION FairSpec
PROPERTIES
    ShopOrdersDecided
CONSTANTS
    s1 = s1
    s2 = s2
    m1 = m1
    q1 = q1
    q2 = q2
    r1 = r1
    r2 = r2
    ShopOrders = {s1, s2}
    MarketOrders = {m1}
    Rows = {r1}
    Baskets <- OneRow
    InitialStock <- TwoUnits
    Requests = {q1}
    CancelFrom <- SeededCancel
CHECK_DEADLOCK FALSE
