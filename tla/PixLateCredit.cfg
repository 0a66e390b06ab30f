CONSTANTS
    d1 = d1  t1 = t1  t2 = t2
    None = None
    Amount = 3
    InitialBalance = 1
    Deposit <- OneDeposit
    Task <- TwoTasks
    MaxOpen = 1
    Notified <- ManyEvents
    MayDiverge = FALSE
SYMMETRY Interchangeable
CHECK_DEADLOCK FALSE
SPECIFICATION Spec
INVARIANTS ReturnedLeavesNoCredit
