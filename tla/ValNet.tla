------------------------------- MODULE ValNet -------------------------------
(***************************************************************************)
(* Vehicles running VAL over a broadcast medium: consumers ask, relays     *)
(* forward on timers, producers and caches answer.  Each step is one event *)
(* of one node's scheduler: an application's Interest, a reception, a      *)
(* timer, or the expiry of a pending Interest.  What an event does to the  *)
(* tables comes from ValNode, what it does to the PFT is a step of ValPft. *)
(*                                                                         *)
(* The medium loses any copy of a broadcast and delivers the others in any *)
(* order.  Positions do not change: an exchange lasts milliseconds.        *)
(***************************************************************************)
EXTENDS ValNode

CONSTANTS
    Consumer,   \* the nodes that run a Consumer application
    Lossy,      \* whether the medium loses packets
    Prompt      \* whether copies arrive before any timer of some milliseconds
                \* fires, and exchanges end within the InterestLifetime

ASSUME ConsumerAssumption == Consumer \subseteq Node \ Producer
ASSUME HeaderAssumption ==
    Header = [sa : {MyArea(n) : n \in Node},
              da : {MyArea(n) : n \in Node} \cup {FLOOD_AREA},
              phPos : Range(Pos),
              mark : {0, CLEAN}]
ASSUME MediumAssumption == Lossy \in BOOLEAN /\ Prompt \in BOOLEAN

VARIABLES
    tab,      \* tab[n]: IFNT, DFNT, PIT, CS, FIB and Dead Nonce List of node n
    air,      \* <<n, p>>: a copy of packet p on its way to node n
    asked,    \* <<n, i>>: node n has expressed the Interest with nonce i
    got,      \* got[n]: names the application of n has received Data for
    sent,     \* <<n, p>>: history, node n has transmitted packet p
    crashed   \* nodes that ran into undefined behaviour

tables == <<tab, asked, got, crashed>>
netVars == <<vars, tables, air, sent>>
-----------------------------------------------------------------------------
NetInit ==
    /\ Init
    /\ tab = [n \in Node |-> EmptyTables]
    /\ air = {}
    /\ asked = {}
    /\ got = [n \in Node |-> {}]
    /\ sent = {}
    /\ crashed = {}

\* What the strategy sends and the PFT does not hold yet.  A packet it holds is
\* refused ("this should not happen!!", val-forwarder.cpp:265).
Accepted(n, c) == {p \in c.send : Matching(n, p) \ Satisfied(n, c.gone) = {}}

\* Mutant: the satisfied Interests are removed and their events left running
OutgoingKeepsEvents(n, c) ==
    LET new == Accepted(n, c)
    IN \/ \E p \in new : RegisterOutgoing(n, p, c.gone)
       \/ new = {} /\ Install(n, obj[n], pft[n] \ Satisfied(n, c.gone), timer[n])

\* The PFT's part of an event: cancel the Interests that its Data satisfies,
\* then register what the strategy sends
Outgoing(n, c) ==
    LET new == Accepted(n, c)
    IN \/ \E p \in new : RegisterOutgoing(n, p, c.gone)
       \/ new = {} /\ CancelSatisfied(n, c.gone)
       \/ new = {} /\ Satisfied(n, c.gone) = {} /\ UNCHANGED vars

Completes(n, c) ==
    /\ tab' = [tab EXCEPT ![n] = c.t]
    /\ got' = [got EXCEPT ![n] = @ \cup c.app]
    /\ crashed' = IF c.fault THEN crashed \cup {n} ELSE crashed
    /\ Outgoing(n, c)

\* Consumer::SendPacket: every Interest, retransmissions included, has a nonce
\* of its own
Express(n, i) ==
    /\ \A m \in Node : <<m, i>> \notin asked
    /\ asked' = asked \cup {<<n, i>>}
    /\ Completes(n, OnIncomingInterest(n, Context(tab[n]), APP, i, NoTag))
    /\ UNCHANGED <<air, sent>>

\* ValLinkService::doReceivePacket: a packet that was sent in one fragment
Arrives(n, p) ==
    /\ <<n, p>> \in air
    /\ air' = air \ {<<n, p>>}

\* preProcessingValPacket, a match whose hop count says nothing
HopMismatch(n, p) ==
    /\ \E a \in Matching(n, p) :
         LET x == obj[n][a]
         IN IF x.state = WAITING_FORWARDING
            THEN x.pkt.hopC # p.hopC
            ELSE ~AcksEntry(x, p)
    /\ UNCHANGED vars

\* onReceivedValPacket, dropped by preProcessingValPacket
Overhear(n, p) ==
    /\ Arrives(n, p)
    /\ ForwardingCancelled(n, p) \/ ImplicitAck(n, p) \/ HopMismatch(n, p)
    /\ UNCHANGED <<tables, sent>>

\* processInterestFromNetwork or processDataFromNetwork: the contexts they may
\* end in
Outcomes(n, p) ==
    LET c == Context(tab[n])
    IN IF IsData(p)
       THEN {ProcessDataFromNetwork(n, c, p, order) :
                order \in Orders(Downstreams(c, p.id))}
       ELSE {ProcessInterestFromNetwork(n, c, p)}

\* onReceivedValPacket, passed on to NFD
Receive(n, p) ==
    /\ Arrives(n, p)
    /\ Matching(n, p) = {}
    /\ \E c \in Outcomes(n, p) : Completes(n, c)
    /\ UNCHANGED <<asked, sent>>

InRange(n) == {m \in Node \ {n} : DistanceToPoint(Pos[n], Pos[m]) <= SIGNAL_RANGE}

\* Face::sendValPacket: the copies that reach a neighbour
Broadcast(n, p) ==
    /\ \E R \in SUBSET InRange(n) :
         /\ Lossy \/ R = InRange(n)
         /\ air' = air \cup {<<m, p>> : m \in R}
    /\ sent' = sent \cup {<<n, p>>}

\* A timer callback, with the transmission it makes
Fire(n, a) ==
    /\ Prompt => air = {}
    /\ \E kind \in Kind :
         /\ IF kind = "forward" THEN ForwardingTimer(n, a) ELSE ImpAckTimer(n, a)
         /\ IF Due(obj[n][a], kind)
            THEN Broadcast(n, obj[n][a].pkt)
            ELSE UNCHANGED <<air, sent>>
    /\ UNCHANGED tables

Quiet == air = {} /\ \A n \in Node : timer[n] = {}

\* The expiry timer of a pending Interest.  InterestLifetime is 2 s, a packet
\* is on the air or in a PFT for some 300 ms at each hop.
Expire(n, x) ==
    /\ tab[n].pit[x].in # {}
    /\ Prompt => Quiet
    /\ tab' = [tab EXCEPT ![n] = OnInterestFinalize(@, x)]
    /\ UNCHANGED <<vars, air, sent, asked, got, crashed>>

\* What the simulator's scheduler has pending
Pending ==
    /\ crashed = {}
    /\ \E n \in Node :
        \/ \E p \in {d[2] : d \in air} : Receive(n, p) \/ Overhear(n, p)
        \/ \E a \in EntryId : Fire(n, a)
        \/ \E x \in Name : Expire(n, x)

Ask == crashed = {} /\ \E n \in Consumer, i \in Nonce : Express(n, i)

NetNext == Ask \/ Pending

NetSpec == NetInit /\ [][NetNext]_netVars

\* No event is pending, or the simulation has crashed
Idle == crashed # {} \/ (Quiet /\ \A n \in Node, x \in Name : tab[n].pit[x].in = {})

\* The simulator executes events until none is left: weak fairness of Pending,
\* which is enabled exactly when not Idle and is every step but Ask
NetFairSpec == NetSpec /\ ([]<>Idle \/ []<><<asked' = asked>>_netVars)
-----------------------------------------------------------------------------
Areas == {MyArea(n) : n \in Node} \cup {FLOOD_AREA}
Records == (Areas \cup {APP}) \X Nonce

\* Packets on the air are well formed, with the hop counts the uint8_t
\* arithmetic of the tables and of "one more hop for good luck" should give,
\* and so are the tables.
NetTypeOK ==
    /\ air \subseteq Node \X ValPacket
    /\ asked \subseteq Node \X Nonce
    /\ got \in [Node -> SUBSET Name]
    /\ sent \subseteq Node \X ValPacket
    /\ crashed \subseteq Node
    /\ \A n \in Node :
        /\ \A i \in Nonce : \A e \in Range(tab[n].ifnt[i]) : e.nonce = i /\ e.hopC < MAXHOPS
        /\ \A x \in Name :
            /\ tab[n].pit[x].in \subseteq Records
            /\ tab[n].pit[x].out \subseteq Records
            /\ tab[n].pit[x].nonces \subseteq Nonce
            /\ tab[n].cs[x] \in {NotCached, 0, CLEAN, CLEAN_DFNT}
        /\ tab[n].dnl \subseteq Nonce

\* getLongestJorney is never asked for the longest journey of no Interest, and
\* no mean distance is taken over no point: doAfterDfntMiss and doAfterDfntHit
\* find the IFNT entries that NFD's nonce list promises.
AlwaysDefined == crashed = {}

\* A DFNT entry lives for one event only: whatever path a Data takes through
\* NFD, VAL gets it back, or the command 500 or 501, and removes its entry.
\* An entry left behind would make a later Data produced here look relayed.
DfntTransient == \A n \in Node, g \in Signatures : tab[n].dfnt[g] = <<>>

\* For each geoFace that NFD's PIT owes a Data, VAL's IFNT still knows where
\* the Interest came from.
ReturnPathKnown ==
    \A n \in Node, x \in Name : \A r \in tab[n].pit[x].in :
        IsGeoFace(r[1]) => tab[n].ifnt[r[2]] # <<>>

\* Routes learnt from Data, solicited or overheard, lead to a producer's area
\* and never to the floodFace ("as it is data there is no change of the geoface
\* being the floodFace", NFD/daemon/fw/forwarder.cpp:461).
RoutesLeadToProducers ==
    \A n \in Node : Range(tab[n].fib) \subseteq {MyArea(m) : m \in Producer}

\* A forwarding timer never runs for an Interest the node has already put on the
\* air, whatever copies of it come back after the PFT, the PIT or the IFNT has
\* forgotten it: an Interest does not circulate.
ForwardedOnce ==
    \A n \in Node, a \in EntryId : <<a, "forward">> \in timer[n] =>
        \A s \in sent : s[1] = n => IsData(s[2]) \/ ~SamePacket(s[2], obj[n][a].pkt)

\* On a medium that loses nothing and is faster than the timers, of the vehicles
\* that hear each other one forwards a packet at a given hop count: forwarding
\* cancellation holds a broadcast storm back (README.md, point 5).
OneRelayForwards ==
    \A s, t \in sent :
        /\ s[2].hopC = t[2].hopC
        /\ SamePacket(s[2], t[2])
        => t[1] \notin InRange(s[1])

\* Whatever happens in the network, each node's PFT and timers behave as ValPft
\* says: all that is proved of ValPft holds here.  (Spec, the steps that leave
\* the PFTs alone named first.)
ImplementsPft == Init /\ [][UNCHANGED vars \/ Next]_vars

\* On a medium that loses nothing and is faster than the timers, every Interest
\* is answered: again and again the applications have all they asked for.  (An
\* Interest stays asked for and Data stays received.)
Delivered == []<>(\A q \in asked : NameOf[q[2]] \in got[q[1]])
=============================================================================
