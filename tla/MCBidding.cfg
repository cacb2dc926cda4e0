\* Three overlapping bids of two users; requests die at any step.
SPECIFICATION Spec
CONSTANTS
    Products = {p1}
    Users = {1, 2}
    Buyers = {1, 2}
    Amounts = {1, 2, 3}
    Stamps = {1}
    BidReqs = {r1, r2, r3}
    BodySets <- MCBodies
    StartMsgs = {}
    EndMsgs = {}
    Views <- MCViews
    Faults = TRUE
SYMMETRY MCSymmetry
INVARIANTS TypeOK OutrunsEarlierBids OneActiveBid OutbidIsDue
PROPERTIES ImplementsLedger
CHECK_DEADLOCK FALSE
