\* an erasure against calls, payments, workers and disputes of its account
SPECIFICATION FairSpec
CONSTANTS
    a = a
    x = x
    y = y
    p = p
    Drafts = {a}
    Packs = {p}
    Disputes = {x, y}
    MaxCrashes = 1
    DueMeanwhile = FALSE
CHECK_DEADLOCK FALSE
INVARIANTS
    TombstoneIsQuiet
PROPERTIES
    ErasureIsAnswered
