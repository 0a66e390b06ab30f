CONSTANTS
    o1 = o1
    u1 = u1
    Order = {o1, u1}
    Notification <- PaidAndRefunded
    Task = {t1, t2}
    Loop = loop
    None = None
    Unknown = {u1}
    Backlog <- OneUnknown
    Limit = 2
    MaxFaults = 1
SPECIFICATION FairSpec
INVARIANTS IInv AnsweredIsRecorded ProcessedWasReconciled
PROPERTIES TellsOnce RecordedIsReconciled
