\* MailOutboxLateRejection: a rejection that outlives its claim
SPECIFICATION Spec
CONSTANTS
    l1 = l1
    l2 = l2
    p1 = p1
    a1 = a1
    w1 = w1
    w2 = w2
    w3 = w3
    Letters = {l1}
    JitLetters = {}
    Packs = {p1}
    Accounts = {a1}
    Workers = {w1, w2}
    Pack <- AllPack
    Owner <- AllOwner
    PackOwner <- AllPackOwner
    MaxAttempts = 2
    AttemptBound = 3
    OperatorWaits = FALSE
    NoLetter = NoLetter
CHECK_DEADLOCK FALSE
PROPERTIES
    RejectionSettlesItsOwnDispatch
