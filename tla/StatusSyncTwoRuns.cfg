\* two runs of the sync, for ever, about one prepaid certified letter
SPECIFICATION FairSpec
CONSTANTS
    l1 = l1
    l2 = l2
    s1 = s1
    s2 = s2
    Letters = {l1}
    PayAndSend = {}
    Certified = {l1}
    Syncs = {s1, s2}
    Scheduled = {s1}
    CancelsLate = TRUE
    NoLetter = NoLetter
CHECK_DEADLOCK FALSE
INVARIANTS
    ReturnIsAnnounced
PROPERTIES
    PrintedIsForAPerson
    RecordCatchesUp
