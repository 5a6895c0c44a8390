------------------------------ MODULE MCValNet ------------------------------
(* Instances of ValNet for TLC.  Node is a range 0..k of vehicles. *)
EXTENDS ValNet

\* A line of vehicles 100 metres apart: each one hears its neighbours only, and
\* every second one starts a new area.
Line == [n \in Node |-> 100 * n]

\* Two relays side by side between the ends
Diamond == [n \in Node |-> <<0, 100, 110, 200>>[n + 1]]

NetHeader ==
    [sa : {MyArea(n) : n \in Node},
     da : {MyArea(n) : n \in Node} \cup {FLOOD_AREA},
     phPos : Range(Pos),
     mark : {0, CLEAN}]

\* Nonces are numbers; either all ask for one name, or each for its own.
OneName == [i \in Nonce |-> CHOOSE x \in Name : TRUE]
OwnName == [i \in Nonce |-> i]

DistinctSig == [d \in Name |-> d]
=============================================================================
