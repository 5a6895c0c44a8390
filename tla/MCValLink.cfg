CONSTANTS
    Sender = {s1}
    Receiver = {r1}
    Msg <- MCMsg
    Size <- MCSize
    HeaderSize <- MCHeaderSize
    MTU = 1500
    nMaxFragments = 3
    SeqMod = 6
    MaxSends = 2
CHECK_DEADLOCK FALSE
SPECIFICATION FairSpec
INVARIANTS PartialHasTimer NeverOverMtu
PROPERTIES ImplementsChannel DeliveredUnlessLost
