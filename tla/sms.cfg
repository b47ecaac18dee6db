SPECIFICATION FairSpec
CONSTANTS
    Messages = {m1}
    Sensitive = {m1}
    Workers = {w1, w2}
    Copies = {c1, c2}
    StaleAfter = 0
    MaxRetries = 1
    MaxPolls = 1
    MaxCrashes = 1
INVARIANTS
    NoDoubleSend
    PlainTextSent
    ErasedOrErasing
PROPERTIES
    DeliveredStays
    PublishedSettles
CHECK_DEADLOCK FALSE
