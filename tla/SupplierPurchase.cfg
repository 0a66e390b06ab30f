CONSTANTS
    o1 = o1  o2 = o2  t1 = t1  t2 = t2  t3 = t3
    Order <- TwoOrders
    Task <- TwoTasks
    NoOrder = NoOrder
    Price = 2
    InitialBalance = 3
    MayDiverge = TRUE
SYMMETRY Interchangeable
SPECIFICATION Spec
INVARIANTS
    LedgerMatchesWallet
    AtMostOneCall
    RejectedHoldsNothing
    DeliveredIsBought
    OpenOrderIsReconcilable
    IInv
