----------------------------- MODULE ValChannel -----------------------------
(***************************************************************************)
(* What the face of a vehicle promises the layers above it: a broadcast    *)
(* that may lose a packet but never makes one up.  ValForwarder hands a    *)
(* ValPacket to its face (Face::sendValPacket), and the ValForwarder of a  *)
(* vehicle that hears it gets that packet or nothing.                      *)
(***************************************************************************)
CONSTANTS
    Packet,     \* ValPackets: a header and an NDN packet
    Receiver    \* vehicles in range

VARIABLES
    sent,   \* the packets handed to a face
    got     \* got[r]: the packets given to the ValForwarder of r

Init ==
    /\ sent = {}
    /\ got = [r \in Receiver |-> {}]

Send(p) ==
    /\ sent' = sent \cup {p}
    /\ UNCHANGED got

HandUp(r, p) ==
    /\ p \in sent
    /\ got' = [got EXCEPT ![r] = @ \cup {p}]
    /\ UNCHANGED sent

Next ==
    \/ \E p \in Packet : Send(p)
    \/ \E r \in Receiver, p \in Packet : HandUp(r, p)

Spec == Init /\ [][Next]_<<sent, got>>
=============================================================================
