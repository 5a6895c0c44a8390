SPECIFICATION Spec
CONSTANTS
    Node = {"a", "b"}
    NetPkt = {"p", "q", "r"}
    From <- MCFrom
    FragCount <- MCFragCount
    SeqRange = 9
    LastTxSeqNo = 5
    maxRetx = 1
    Thresholds = {1, 2}
    FragRoom = 2
    IdleRoom = 1
    MaxSwitches <- MCMaxSwitches
    MaxAir = 2
    MaxSent = 2
INVARIANTS
    ReliabilityTypeOK
    NoInvalidIterator
    FirstIsOldest
    ListsAndTimersExact
    CountsLaterAcks
    AckedWasReceived
PROPERTIES
    AlwaysLessToDo
CHECK_DEADLOCK FALSE
