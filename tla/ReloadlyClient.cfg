CONSTANTS
    r1 = r1  r2 = r2
    Request <- TwoRequests
    Order <- OneOrder
SPECIFICATION Spec
CHECK_DEADLOCK FALSE
INVARIANTS
    UnauthorizedWasFresh
    IInv
PROPERTIES PurchaseSpec
