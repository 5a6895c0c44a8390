CONSTANTS
    Node = {0, 1, 2}
    Nonce = {1}
    Name = {1}
    Sig <- DistinctSig
    Header <- NetHeader
    EntryId = {1, 2}
    NoEntry = NoEntry
    MAXHOPS = 3
    MAX_IMPLICIT_ACK_TRIES = 1
    Pos <- Line
    NameOf <- OwnName
    Producer = {2}
    Consumer = {0}
    Lossy = TRUE
    Prompt = FALSE
SPECIFICATION NetSpec
INVARIANTS NetTypeOK AlwaysDefined DfntTransient ReturnPathKnown RoutesLeadToProducers ForwardedOnce
PROPERTY ImplementsPft
CHECK_DEADLOCK FALSE
