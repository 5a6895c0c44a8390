----------------------------- MODULE MCValLink -----------------------------
(* ValLink over Ethernet: a packet that fits in a frame, two of the same     *)
(* layout that take two fragments, one of three, and one of too many.        *)
EXTENDS ValLink

MCMsg == {"one", "a", "b", "three", "many"}
MCSize == [one |-> 1200, a |-> 2700, b |-> 2700, three |-> 4000, many |-> 8000]
MCHeaderSize == [m \in MCMsg |-> 61]

\* The two packets of the same layout alone
MCPair == {"a", "b"}
MCPairSize == [m \in MCPair |-> MCSize[m]]
MCPairHeaderSize == [m \in MCPair |-> MCHeaderSize[m]]
=============================================================================
