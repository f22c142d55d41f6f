SPECIFICATION PackSpec
CONSTANTS
    p1 = p1
    Packs = {p1}
INVARIANTS
    GrantedOnce
    MoneyBackTakesLetters
    LossesStand
\* Every payment, refund and dispute comes to an end, and its events are heard.
CHECK_DEADLOCK FALSE
