SPECIFICATION Spec
INVARIANTS
    AtMostOnePayment
    PaidMeansSold
    OpenOrdersHold
    FulfilledIsPaid
    StockConserved
    LedgerExact
PROPERTIES
    HoldSpec
    SettledOnce
    FinalStays
CONSTANTS
    s1 = s1
    s2 = s2
    m1 = m1
    q1 = q1
    q2 = q2
    r1 = r1
    r2 = r2
    ShopOrders = {s1, s2}
    MarketOrders = {m1}
    Rows = {r1, r2}
    Baskets <- TwoRows
    InitialStock <- TwoOfEach
    Requests = {q1, q2}
    CancelFrom <- SeededCancel
SYMMETRY Alike
CHECK_DEADLOCK FALSE
