CONSTANTS
    Node = {n1}
    Nonce = {i1, i2}
    Name = {d1, d2}
    Sig <- FakeSig
    Header = {h}
    EntryId = {1, 2, 3}
    NoEntry = NoEntry
    MAXHOPS = 2
    MAX_IMPLICIT_ACK_TRIES = 3
SPECIFICATION FairSpec
INVARIANTS PftUnique TimerOwned NothingStalls TransmissionBudget QuietStaysQuiet
PROPERTY EventuallyAtRest
