SPECIFICATION FairSpec
CONSTANTS
    Workers = {w1, w2}
    N = 2
    MaxCrashes = 1
    MaxRedeliveries = 1
INVARIANTS
    ImportedOnce
    StopsAfterCancel
    CompletedIsComplete
    CountsAgree
PROPERTIES
    EndedStays
    JobEnds
CHECK_DEADLOCK FALSE
