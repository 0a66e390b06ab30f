CONSTANTS
    o1 = o1  o2 = o2
    Order <- TwoOrders
    Click = {c1}
    Unreachable <- FirstOne
    Limit = 2
    MayFail = TRUE
CHECK_DEADLOCK FALSE
SPECIFICATION FairSpec
INVARIANTS
    IInv
    NotifiedKnows
    NewsIsTrue
PROPERTIES FinishedIsTold
