SPECIFICATION PointsSpec
INVARIANTS
    BalanceIsLedger
    EarnedOnce
CONSTANTS
    q1 = q1
    q2 = q2
    Writers = {q1, q2}
    Amounts = {1, 2}
    References = {"r"}
    NoReference = "none"
    MaxEntries = 3
    Nobody = Nobody
SYMMETRY Alike
