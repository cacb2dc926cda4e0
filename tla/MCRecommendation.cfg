\* Eight messages in any order; handlers stop, messages are lost or repeated.
SPECIFICATION Spec
CONSTANTS
    Users = {1, 2}
    Sellers = {2}
    Products = {1, 2, 3}
    Category <- MCCategory
    Events = {1, 2, 3, 4, 5, 6, 7, 8}
    EventSets <- MCEventSets
    Flaky = {7}
INVARIANTS TypeOK SimilarIsBacked ListedOnce UpdatedIsCurrent HistoryIsFollowed
CHECK_DEADLOCK FALSE
