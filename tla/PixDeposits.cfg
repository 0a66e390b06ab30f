CONSTANTS
    d1 = d1  t1 = t1  t2 = t2
    None = None
    Amount = 3
    InitialBalance = 1
    Deposit <- OneDeposit
    Task <- TwoTasks
    MaxOpen = 1
    Notified <- MoneyEvents
    MayDiverge = TRUE
CHECK_DEADLOCK FALSE
SPECIFICATION FairSpec
INVARIANTS
    StatusTellsLedger
    IInv
PROPERTIES
    LifecycleSpec
    PaidIsCredited
