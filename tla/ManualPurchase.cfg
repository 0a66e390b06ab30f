CONSTANTS
    c1 = c1  c2 = c2  k1 = k1  k2 = k2
    i1 = i1  i2 = i2  t1 = t1  t2 = t2
    None = None
    Customer <- TwoCustomers
    Click <- TwoClicks
    Owner <- EachOwner
    Item <- TwoItems
    Task <- TwoTasks
    Price = 2
    InitialBalance = 2
    Amounts <- MinusPrice
    MoveBound = 2
SPECIFICATION FairSpec
INVARIANTS
    SoldOnce
    OneOrderPerClick
    LedgerMatchesWallet
    IInv
PROPERTIES
    AtomicSpec
    BlockedBuysNothing
    TransactionsEnd
