SPECIFICATION FairSpec
CONSTANTS
    m_seqMax = 3
    m_initialWindow = 2
    m_setInitialWindowOnTimeout = TRUE
    MaxArriving = 2
INVARIANTS
    BooksAgree
    KarnsRule
    NeverStalls
PROPERTIES
    AllAnswered
CHECK_DEADLOCK FALSE
