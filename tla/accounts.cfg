SPECIFICATION Spec
INVARIANTS
    SpentOnce
PROPERTIES
    LatestOnly
    ResetReplacesKnown
CONSTANTS
    Handlers = {h1, h2}
    Passwords = {w1, w2}
    MaxCode = 2
    MaxAttempts = 2
    Flows = {"register", "login", "phone", "reset"}
    Edits = {"profile", "password", "admin"}
    None = None
SYMMETRY Alike
CHECK_DEADLOCK FALSE
