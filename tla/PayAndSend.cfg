\* a draft checked out from the card and from the confirmation page at once
SPECIFICATION FairSpec
CONSTANTS
    c1 = c1
    c2 = c2
    cardReturn = cardReturn
    pageReturn = pageReturn
    MaxOrders = 2
    Calls = {c1, c2}
    Requests = {cardReturn, pageReturn}
    MaxContent = 2
    LoneFaults = TRUE
CHECK_DEADLOCK FALSE
INVARIANTS
    PaidMailIsAsShown
    ChargesAreSound
PROPERTIES
    OnlyStripeCloses
    CheckoutEnds
