SPECIFICATION FairSpec
CONSTANTS
    c1 = c1
    c2 = c2
    w1 = w1
    w2 = w2
    Commands = {c1}
    Workers = {w1, w2}
    PackLetters = 2
    AttemptLimit = 2
    OneRefunder = TRUE
INVARIANTS
    BooksAgree
    MoneyOrLetters
PROPERTIES
    CommandSettles
CHECK_DEADLOCK FALSE
