-------------------------- MODULE MCLpReliability --------------------------
(* One end sends a packet of two fragments and one of one, the other end a   *)
(* packet of one; the numbers of an end wrap around after three LpPackets.   *)
EXTENDS LpReliability

MCFrom == [p \in NetPkt |-> IF p = "r" THEN "b" ELSE "a"]
MCFragCount == [p \in NetPkt |-> IF p = "p" THEN 2 ELSE 1]
MCMaxSwitches == [n \in Node |-> IF n = "b" THEN 1 ELSE 0]
=============================================================================
