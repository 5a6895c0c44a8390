CONSTANTS
    Node = {0, 1, 2, 3}
    Nonce = {1, 2}
    Name = {1, 2}
    Sig <- DistinctSig
    Header <- NetHeader
    EntryId = {1, 2, 3}
    NoEntry = NoEntry
    MAXHOPS = 9
    MAX_IMPLICIT_ACK_TRIES = 1
    Pos <- Diamond
    NameOf <- OwnName
    Producer = {3}
    Consumer = {0}
    Lossy = FALSE
    Prompt = TRUE
SPECIFICATION NetFairSpec
INVARIANT OneRelayForwards
PROPERTY Delivered
CHECK_DEADLOCK FALSE
