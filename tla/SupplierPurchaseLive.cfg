CONSTANTS
    o1 = o1  o2 = o2  t1 = t1  t2 = t2  t3 = t3
    Order <- OneOrder
    Task <- ThreeTasks
    NoOrder = NoOrder
    Price = 2
    InitialBalance = 5
    MayDiverge = FALSE
SPECIFICATION FairSpec
PROPERTIES
    NoCodeAfterRefund
    LifecycleSpec
    BoughtIsResolved
