SPECIFICATION FairSpec
CONSTANTS
    g1 = g1
    g2 = g2
    g3 = g3
    Calls = {g1, g2}
    Entitlements = {1, 2}
    Bought = {1}
    Quantity <- MCQuantity
    Ceiling = 2
INVARIANTS
    ImagesAreCounted
PROPERTIES
    EndsOnce
    ReservationEnds
CHECK_DEADLOCK FALSE
