\* two sends, one pack, two disputes, a refund, expiry and an interrupted daily task
SPECIFICATION LedgerFairSpec
CONSTANTS
    a = a
    b = b
    p1 = p1
    d1 = d1
    d2 = d2
    Sends = {a, b}
    Packs = {p1}
    Disputes = {d1, d2}
    DisputedPack <- AllOfOnePack
    PackCredits = 4
    PackExpiry = 2
    PromoCredits = 1
    PromoExpiry = 1
    Cost = 2
    Never = 3
    QuietReconcile = FALSE
    MaxLots = 7
CHECK_DEADLOCK FALSE
INVARIANTS
    LotsAreSound
    RefundedPackIsEmpty
PROPERTIES
    WonGivesBack
    CoverIsKept
    BalanceSettles
