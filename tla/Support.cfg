CONSTANTS
    c1 = c1  h1 = h1  h2 = h2  k1 = k1  k2 = k2  t1 = t1  t2 = t2
    None = None
    Customer <- OneCustomer
    Chat <- TwoChats
    Owner <- OneOwner
    Ticket <- TwoTickets
    Task <- TwoTasks
    MaxOpen = 1
    MaxMessages = 3
SYMMETRY Interchangeable
SPECIFICATION Spec
INVARIANTS
    OpenTicketsCapped
    StatusTellsTurn
    ConfirmedWasShown
    IInv
PROPERTIES
    ResolvedIsFinal
