---------------------------- MODULE ValContention ----------------------------
(***************************************************************************)
(* Relays that have heard the same packet from the same previous hop       *)
(* contend to forward it (doAfterIfntHit, doAfterDfntHit of                *)
(* val-distances-strategy.cpp): each registers it with a delay that grows  *)
(* or shrinks with a distance, the first to fire cancels the others.       *)
(***************************************************************************)
EXTENDS ValDistances

CONSTANTS
    Relay,        \* the contenders, in range of one another
    Places,       \* distances in metres that a relay may be at
    Hops,         \* hop counts the packet may have left
    Purpose,      \* of {"area", "explore", "data"}: why it is forwarded
    Delays,       \* random delays that generateMicroSecondDelay may add
    WithinReach   \* whether no relay is farther than the delays are scaled for

ASSUME PlacesAssumption == Places \subseteq Nat /\ Hops \subseteq Nat \ {0}
ASSUME PurposeAssumption == Purpose \subseteq {"area", "explore", "data"}
ASSUME DelaysAssumption == \A d \in Delays : d \in Nat /\ MIN_DELAY <= d /\ d <= MAX_DELAY
ASSUME ReachAssumption == WithinReach \in BOOLEAN

NotSet == -1
NoOne == "no one"

VARIABLES
    purpose, hopC,   \* the packet
    dist,            \* dist[r]: to the area, the previous hop or the next hops
    due,             \* due[r]: when the forwarding timer of r fires, or NotSet
    forwarder        \* who has forwarded the packet

contentionVars == <<purpose, hopC, dist, due, forwarder>>

ContentionInit ==
    /\ purpose \in Purpose
    /\ hopC \in Hops
    /\ dist \in [Relay -> Places]
    /\ WithinReach /\ purpose # "data" =>
            \A r \in Relay : dist[r] <= MaxDist(hopC, purpose = "area")
    /\ due = [r \in Relay |-> NotSet]
    /\ forwarder = NoOne

\* The duration passed to sendValPacket
Duration(r) ==
    CASE purpose = "area" -> FwdTimer(dist[r], hopC, TRUE, FALSE)
      [] purpose = "data" -> FwdTimer(dist[r], 0, FALSE, TRUE)
      [] purpose = "explore" -> InvertedFwdTimer(dist[r])

\* The packet is heard and registered
Register(r) ==
    /\ due[r] = NotSet
    /\ \E delay \in Delays :
            due' = [due EXCEPT ![r] = Duration(r) + delay]
    /\ UNCHANGED <<purpose, hopC, dist, forwarder>>

\* The earliest timer fires; the others hear the packet and cancel theirs
Forward(r) ==
    /\ forwarder = NoOne
    /\ \A s \in Relay : due[s] # NotSet /\ due[r] <= due[s]
    /\ forwarder' = r
    /\ UNCHANGED <<purpose, hopC, dist, due>>

ContentionNext == \E r \in Relay : Register(r) \/ Forward(r)

ContentionSpec == ContentionInit /\ [][ContentionNext]_contentionVars

\* Whether s is better placed than r to forward the packet: closer to the area
\* or to the next hops of a Data, farther from the previous hop of an exploring
\* Interest
Better(s, r) ==
    IF purpose = "explore" THEN dist[s] > dist[r] ELSE dist[s] < dist[r]

\* The best placed relay forwards, whatever the random delays: a metre makes
\* more of a difference than the random delay can.  "follows the less distance
\* less time approach" (calcFwdTimer, val-distances-strategy.hpp:103), "the more
\* distance less time approach" (calcInvertedFwdTimer, :116).
BestPlacedForwards ==
    forwarder # NoOne => \A s \in Relay : ~Better(s, forwarder)
=============================================================================
