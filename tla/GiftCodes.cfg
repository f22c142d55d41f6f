SPECIFICATION Spec
CONSTANTS
    a1 = a1
    a2 = a2
    a3 = a3
    a4 = a4
    p1 = p1
    o1 = o1
    k1 = k1
    r1 = r1
    r2 = r2
    None = None
    Accounts = {a1, a2, a3, a4}
    Mailbox <- MCMailbox
    Orders = {o1}
    Buyer <- MCBuyer
    Campaigns = {k1}
    NewOnly = {k1}
    Cap <- MCCap
    SeedBudget <- MCSeedBudget
    PackBudget = 1
    OperatorBudget = 1
    Requests = {r1, r2}
    Invites <- MCInvites
    MaxGifts = 3
SYMMETRY Symmetry
INVARIANTS
    GiftsBounded
PROPERTIES
    ReversalIsFinal
    ChainIsAPath
CHECK_DEADLOCK FALSE
