SPECIFICATION Spec
INVARIANTS
    NeverOversold
    OrdersHeld
PROPERTIES
    BookSpec
    CheckoutEnds
CONSTANTS
    shop = shop
    market = market
    v1 = v1
    v2 = v2
    q1 = q1
    q2 = q2
    Nobody = Nobody
    Carts = {shop, market}
    MarketCarts = {market}
    Requests = {q1, q2}
    Variants = {v1, v2}
    Sellers = {1, 2}
    Rows = {1, 2, 3, 4}
    RowVariant <- OneRowTwice
    RowSeller <- TheSellers
    Sellable <- Few
    MaxPrice = 1
    MaxQuantity = 1
    MaxLine = 4
    MaxEdits = 1
    Moving <- OneOffer
    Edited = {market}
    MayAsk <- TheAsks
    StartCart <- BothWays
CHECK_DEADLOCK FALSE
