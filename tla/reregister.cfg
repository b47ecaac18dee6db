SPECIFICATION Spec
PROPERTIES
    ConfirmedStays
CONSTANTS
    Handlers = {h1, h2}
    Passwords = {w1, w2}
    MaxCode = 2
    MaxAttempts = 2
    Flows = {"register"}
    Edits = {}
    None = None

CHECK_DEADLOCK FALSE
