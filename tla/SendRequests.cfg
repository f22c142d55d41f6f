SPECIFICATION Spec
CONSTANTS
    a1 = a1
    a2 = a2
    d1 = d1
    d2 = d2
    d3 = d3
    d4 = d4
    r1 = r1
    r2 = r2
    None = None
    Requests = {r1, r2}
    Accounts = {a1, a2}
    Drafts = {d1, d2, d3, d4}
    Owner <- MCOwner
    Mail <- MCMail
    MailOn <- MCMailOn
    GiftDrafts = {d4}
    AccountCap = 2
    GlobalCap = 2
    GiftCap = 1
    DateCap = 1
    Funds = 1
SYMMETRY RequestSymmetry
INVARIANTS
    OncePerDraft
    FundsAgree
    LimitsHold
    SomeoneIsFree
    OnlyLocksStop
PROPERTIES
    NoTwins
    RefundReachesMail
CHECK_DEADLOCK FALSE
