\* MailOutboxPromise: a prepaid and a Pay & Send letter of one account
SPECIFICATION Spec
CONSTANTS
    l1 = l1
    l2 = l2
    p1 = p1
    a1 = a1
    w1 = w1
    w2 = w2
    w3 = w3
    Letters = {l1, l2}
    JitLetters = {l2}
    Packs = {p1}
    Accounts = {a1}
    Workers = {w1}
    Pack <- AllPack
    Owner <- AllOwner
    PackOwner <- AllPackOwner
    MaxAttempts = 1
    AttemptBound = 2
    OperatorWaits = TRUE
    NoLetter = NoLetter
CHECK_DEADLOCK FALSE
INVARIANTS
    RowsAgree
PROPERTIES
    KeepsPromise
