\* Four requests on one address, any interleaving; keys expire, requests fail.
SPECIFICATION Spec
CONSTANTS
    r1 = r1
    r2 = r2
    r3 = r3
    r4 = r4
    e1 = e1
    Reqs = {r1, r2, r3, r4}
    Emails = {e1}
    AskSets <- MCAsks
    Aging = {r1}
    Faults = TRUE
INVARIANTS TypeOK OneAccountPerEmail SuccessorsOverlap LatestIsLive
PROPERTIES DeletedIsFrozen ImplementsAccess
CHECK_DEADLOCK FALSE
