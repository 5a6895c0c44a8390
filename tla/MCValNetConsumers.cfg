CONSTANTS
    Node = {0, 1, 2}
    Nonce = {1, 2}
    Name = {1}
    Sig <- DistinctSig
    Header <- NetHeader
    EntryId = {1, 2, 3}
    NoEntry = NoEntry
    MAXHOPS = 9
    MAX_IMPLICIT_ACK_TRIES = 3
    Pos <- Line
    NameOf <- OneName
    Producer = {2}
    Consumer = {0, 1}
    Lossy = FALSE
    Prompt = TRUE
SPECIFICATION NetSpec
INVARIANT AlwaysDefined
CHECK_DEADLOCK FALSE
