\* Four requests on one address; nothing expires or fails.
SPECIFICATION Spec
CONSTANTS
    r1 = r1
    r2 = r2
    r3 = r3
    r4 = r4
    e1 = e1
    Reqs = {r1, r2, r3, r4}
    Emails = {e1}
    AskSets <- MCAsks
    Aging = {}
    Faults = FALSE
INVARIANTS LogoutEndsLogin
CHECK_DEADLOCK FALSE
