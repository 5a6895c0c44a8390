CONSTANTS
    Sender = {s1, s2}
    Receiver = {r1}
    Msg <- MCPair
    Size <- MCPairSize
    HeaderSize <- MCPairHeaderSize
    MTU = 1500
    nMaxFragments = 3
    SeqMod = 6
    MaxSends = 2
SPECIFICATION Spec
PROPERTY ImplementsChannel
