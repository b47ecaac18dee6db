SPECIFICATION Spec
INVARIANTS
    ConfirmedAgrees
    LiveFits
PROPERTIES
    ApprovedAsSent
CONSTANTS
    Requests = {q1, q2}
    Values = {0, 1}
    Empty = 0
    Fitting <- TheRules
    NoProduct = NoProduct
    Nobody = Nobody
CONSTRAINT Few
SYMMETRY Alike
CHECK_DEADLOCK FALSE
