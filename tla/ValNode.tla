------------------------------- MODULE ValNode -------------------------------
(***************************************************************************)
(* What one node does with a packet: VAL's tables and strategy on one side *)
(* (model/val/fw, model/val/table), the NFD pipelines it hooks on the      *)
(* other (NFD/daemon/fw/forwarder.cpp, broadcast-strategy.cpp).            *)
(*                                                                         *)
(* The two call each other synchronously through geoFaces, so a reception  *)
(* is one event: every handler is an operator from a node's context to the *)
(* context after it, and handlers compose.  A context holds the tables and *)
(* what the event does outside them.  ValNet turns the events into steps.  *)
(*                                                                         *)
(* A geoFace exists for each area (F2A is a bijection), so a face is the   *)
(* number of its area, FLOOD_AREA for the floodFace, or APP.  All names    *)
(* are under one prefix, the consumers' and the producer's.                *)
(***************************************************************************)
EXTENDS ValPft, ValDistances, Sequences, Functions

CONSTANTS
    Pos,        \* Pos[n]: where node n is on the road
    NameOf,     \* NameOf[i]: the name requested by the Interest with nonce i
    Producer    \* the nodes whose FIB has an appFace under the prefix

ASSUME PosAssumption == Pos \in [Node -> Nat]
ASSUME NameOfAssumption == NameOf \in [Nonce -> Name]
ASSUME ProducerAssumption == Producer \subseteq Node

\* uint8_t, and 9 in the code: with one more hop it still fits
ASSUME HopByteAssumption == MAXHOPS \in 1..254

APP == -1
NoTag == -2
IsGeoFace(f) == f >= 0

MyArea(n) == AreaFromPosition(Pos[n], 0)

\* CongestionMark of a Data: 500 and 501 are commands from NFD to VAL
\* ("clean", "clean DFNT"), left on the Data object and sent with it
CLEAN == 500
CLEAN_DFNT == 501
NotCached == -1

Signatures == {Sig[x] : x \in Name}

NoPit == [in |-> {}, out |-> {}, nonces |-> {}]

\* ifnt[i]: the entries of nonce i, oldest first (addEntry appends);
\* dfnt[g]: the entries of signature g, newest first (addEntry prepends);
\* pit[x]: in- and out-records <<face, last nonce>> and the nonce list;
\* cs[x]: the mark of the cached Data; fib: geoFaces learnt for the prefix.
EmptyTables ==
    [ifnt |-> [i \in Nonce |-> <<>>],
     dfnt |-> [g \in Signatures |-> <<>>],
     pit |-> [x \in Name |-> NoPit],
     cs |-> [x \in Name |-> NotCached],
     fib |-> <<>>,
     dnl |-> {}]

\* c.send: the packets the event wants registered; c.gone: the nonces whose
\* pending Interests it cancels; c.app: the names given to the application;
\* c.fault: undefined behaviour was reached.
Context(tables) ==
    [t |-> tables, send |-> {}, gone |-> {}, app |-> {}, fault |-> FALSE]

\* ValStrategy::sendValPacket.  Two packets of one event are the same Data, so
\* the second one is refused by addEntry as the first one was or because of it.
SendValPacket(c, p) == IF c.send = {} THEN [c EXCEPT !.send = {p}] ELSE c
-----------------------------------------------------------------------------
(* VAL: an Interest from NFD on its way out *)

Interest(i, hopC, sa, da, n) ==
    [type |-> INTEREST_SET, id |-> i, hopC |-> hopC,
     hdr |-> [sa |-> sa, da |-> da, phPos |-> Pos[n], mark |-> 0]]

\* doAfterIfntHit: towards a known area only nodes closer than the previous
\* hop forward; otherwise (exploration) every node does, to the face NFD chose
AfterIfntHit(n, c, face, e) ==
    LET known == e.da # FLOOD_AREA /\ e.da # MyArea(n)
        closer == DistanceToArea(Pos[n], e.da) < DistanceToArea(e.phPos, e.da)
    IN IF e.hopC = 0 \/ (known /\ ~closer) THEN c
       ELSE SendValPacket(c, Interest(e.nonce, e.hopC, e.sa,
                                      IF known THEN e.da ELSE face, n))

\* doAfterIfntMiss
AfterIfntMiss(n, c, face, i) ==
    SendValPacket(c, Interest(i, MAXHOPS, MyArea(n), face, n))

\* reveiceInterest
ReceiveInterest(n, c, face, i) ==
    IF c.t.ifnt[i] # <<>>
    THEN AfterIfntHit(n, c, face, Head(c.t.ifnt[i]))
    ELSE AfterIfntMiss(n, c, face, i)
-----------------------------------------------------------------------------
(* VAL: a Data from NFD on its way out *)

Data(x, hopC, sa, da, mark, n) ==
    [type |-> DATA_SET, id |-> x, hopC |-> hopC,
     hdr |-> [sa |-> sa, da |-> da, phPos |-> Pos[n], mark |-> mark]]

Faulty(c) == [c EXCEPT !.fault = TRUE]

\* Mutant: the test of the previous hop's distance is reversed
RelaysServedHops(n, c, e, entries, x, mark) ==
    LET prevHopDist == MultiPointDist(e.phPos, entries)
        myDist == MultiPointDist(Pos[n], entries)
    IN CASE e.hopC = 0 -> c
         [] e.hopC # 0 /\ entries = {} -> Faulty(c)
         [] OTHER -> IF prevHopDist <= SIGNAL_RANGE /\ myDist < prevHopDist
                     THEN SendValPacket(c, Data(x, e.hopC, e.sa, e.da, mark, n))
                     ELSE c

\* doAfterDfntHit: relay unless the previous hop already reached the next ones
\* or is closer to them
AfterDfntHit(n, c, e, entries, x, mark) ==
    LET prevHopDist == MultiPointDist(e.phPos, entries)
        myDist == MultiPointDist(Pos[n], entries)
    IN CASE e.hopC = 0 -> c
         [] e.hopC # 0 /\ entries = {} -> Faulty(c)
         [] OTHER -> IF prevHopDist > SIGNAL_RANGE /\ myDist < prevHopDist
                     THEN SendValPacket(c, Data(x, e.hopC, e.sa, e.da, mark, n))
                     ELSE c

\* getLongestJorney: the entry with the fewest hops left.  Of several the code
\* takes the first in list order; only the DA of the Data, which nothing reads,
\* depends on it.
LongestJorney(entries) == CHOOSE e \in entries : \A f \in entries : e.hopC <= f.hopC

\* Mutant: the producer announces the area of the face the Interest came from
FaceAreaAsSource(n, c, face, x, mark, entries, isProducer) ==
    LET e == LongestJorney(entries)
    IN IF entries = {} THEN Faulty(c)
       ELSE SendValPacket(c, Data(x, (MAXHOPS - e.hopC + 1) % 256, face, e.sa, mark, n))

\* doAfterDfntMiss.  getLongestJorney dereferences the first of its entries.
AfterDfntMiss(n, c, face, x, mark, entries, isProducer) ==
    LET e == LongestJorney(entries)
    IN IF entries = {} THEN Faulty(c)
       ELSE SendValPacket(c, Data(x, (MAXHOPS - e.hopC + 1) % 256,
                                  IF isProducer THEN MyArea(n) ELSE face,
                                  e.sa, mark, n))

Pop(seq) == IF seq = <<>> THEN seq ELSE Tail(seq)

\* reveiceData
ReceiveData(n, c, face, x, mark, nonces, isProducer) ==
    LET entries == {Head(c.t.ifnt[i]) : i \in {j \in nonces : c.t.ifnt[j] # <<>>}}
        heard == c.t.dfnt[Sig[x]]
        popped == [c EXCEPT !.t.dfnt[Sig[x]] = Pop(@)]
        cleaned == [popped EXCEPT !.t.ifnt =
                        [i \in Nonce |-> IF i \in nonces THEN Pop(@[i]) ELSE @[i]]]
        relayed == [cleaned EXCEPT !.gone = @ \cup nonces]
    IN CASE mark = CLEAN_DFNT -> popped
         [] mark # CLEAN_DFNT /\ heard # <<>> /\ ~isProducer ->
                IF mark = CLEAN THEN relayed
                ELSE AfterDfntHit(n, relayed, Head(heard), entries, x, mark)
         [] OTHER -> AfterDfntMiss(n, cleaned, face, x, mark, entries, isProducer)
-----------------------------------------------------------------------------
(* NFD: a Data arriving on a geoFace or from the producer's application *)

\* The next hops of the longest matching FIB entry: geoFaces learnt for the
\* prefix, or the producer's appFace, or the floodFace of the root entry
NextHops(n, c) ==
    IF c.t.fib # <<>> THEN c.t.fib
    ELSE IF n \in Producer THEN <<APP>> ELSE <<FLOOD_AREA>>

HasAppFace(n, c) == APP \in Range(NextHops(n, c))

\* addOrUpdateNextHop.  All costs are 1: sortNextHops (std::sort, an insertion
\* sort for so few) leaves the next hops in order of arrival.
AddNextHop(c, face) ==
    IF face \in Range(c.t.fib) THEN c ELSE [c EXCEPT !.t.fib = Append(@, face)]

\* Cs::insert: an entry already there keeps its Data object, mark included
CsInsert(c, x, mark) == [c EXCEPT !.t.cs[x] = IF @ = NotCached THEN mark ELSE @]

LastNonce(records, face) == {r[2] : r \in {q \in records : q[1] = face}}

\* One turn of the loop of BroadcastStrategy::afterReceiveData over the pending
\* downstreams.  The first geoFace gets the Data with the nonce list; every
\* downstream's own nonce leaves the list; after an application has been
\* served the Data carries the mark CLEAN.
ServeDownstream(n, face, x, records, a, d) ==
    LET rest == a.nonces \ LastNonce(records, d)
        given == [a.c EXCEPT !.app = @ \cup {x}]
    IN CASE a.c.fault -> a
         [] ~a.c.fault /\ IsGeoFace(d) /\ ~a.served ->
                [a EXCEPT !.c = ReceiveData(n, a.c, d, x, a.mark, a.nonces, ~IsGeoFace(face)),
                          !.nonces = rest, !.served = TRUE]
         [] ~a.c.fault /\ IsGeoFace(d) /\ a.served -> [a EXCEPT !.nonces = rest]
         [] OTHER ->
                [a EXCEPT !.c = IF IsGeoFace(face)
                                THEN ReceiveData(n, given, face, x, CLEAN, a.nonces, FALSE)
                                ELSE given,
                          !.nonces = rest,
                          !.mark = IF IsGeoFace(face) THEN CLEAN ELSE a.mark]

\* The loop: what there is after each of its turns
Turns(n, face, x, records, start, order) ==
    LET turn[k \in 0..Len(order)] ==
            IF k = 0 THEN start
            ELSE ServeDownstream(n, face, x, records, turn[k - 1], order[k])
    IN turn

\* BroadcastStrategy::afterReceiveData.  The downstreams are in a set of
\* pointers: order is the order in which their addresses happen to come.
AfterReceiveData(n, c, face, x, mark, order) ==
    LET pit == c.t.pit[x]
        start == [c |-> IF IsGeoFace(face) THEN AddNextHop(c, face) ELSE c,
                  nonces |-> pit.nonces, mark |-> mark, served |-> FALSE]
    IN Turns(n, face, x, pit.in, start, order)[Len(order)].c

\* Mutant: an unsolicited Data is cached without the command to VAL
UnsolicitedNotCleaned(n, c, face, x) ==
    IF HasAppFace(n, c) THEN c
    ELSE CsInsert(AddNextHop(c, face), x, CLEAN_DFNT)

\* onDataUnsolicited, for a geoFace
OnDataUnsolicited(n, c, face, x) ==
    LET isProducer == HasAppFace(n, c)
        clean == ReceiveData(n, c, face, x, CLEAN_DFNT, {}, isProducer)
    IN IF isProducer THEN clean
       ELSE CsInsert(AddNextHop(clean, face), x, CLEAN_DFNT)

\* onIncomingData and the onInterestFinalize it schedules for now.  A satisfied
\* Interest without MustBeFresh leaves nothing in the Dead Nonce List.
OnIncomingData(n, c, face, x, mark, order) ==
    IF c.t.pit[x].in = {} THEN OnDataUnsolicited(n, c, face, x)
    ELSE [AfterReceiveData(n, CsInsert(c, x, mark), face, x, mark, order)
            EXCEPT !.t.pit[x] = NoPit]

Downstreams(c, x) == {r[1] : r \in c.t.pit[x].in}

\* The orders in which the addresses of faces S may come, and one of them
Orders(S) == Injection(1..Cardinality(S), S)
AnyOrder(S) == CHOOSE order \in Orders(S) : TRUE
-----------------------------------------------------------------------------
(* NFD: an Interest arriving on a geoFace or from the consumer *)

Record(records, face, i) == {r \in records : r[1] # face} \cup {<<face, i>>}

GeoFaces(faces) == {k \in DOMAIN faces : IsGeoFace(faces[k])}
FirstGeoFace(faces) == faces[Min(GeoFaces(faces))]

\* onOutgoingInterest.  The Producer application answers at once (OnInterest).
OnOutgoingInterest(n, c, face, i) ==
    LET x == NameOf[i]
        sent == [c EXCEPT !.t.pit[x].out = Record(@, face, i)]
    IN IF IsGeoFace(face) THEN ReceiveInterest(n, sent, face, i)
       ELSE OnIncomingData(n, sent, APP, x, 0, AnyOrder(Downstreams(c, x)))

\* onContentStoreMiss, with BroadcastStrategy::afterReceiveInterest when the
\* Interest has no NextHopFaceId tag.  The root FIB entry always has a next hop,
\* so the branch that creates a FIB entry for a relay is never taken.
OnContentStoreMiss(n, c, face, i, tag) ==
    LET pending == [c EXCEPT !.t.pit[NameOf[i]].in = Record(@, face, i),
                             !.t.pit[NameOf[i]].nonces = @ \cup {i}]
        out == CASE HasAppFace(n, c) -> APP
                 [] ~HasAppFace(n, c) /\ tag # NoTag -> tag
                 [] OTHER -> FirstGeoFace(NextHops(n, c))
    IN OnOutgoingInterest(n, pending, out, i)

\* Mutant: the nonce list is read after the in-record has been deleted
HitWithoutNonces(n, c, face, i) ==
    LET x == NameOf[i]
        hops == NextHops(n, c)
    IN CASE ~IsGeoFace(face) -> [c EXCEPT !.app = @ \cup {x}]
         [] IsGeoFace(face) /\ GeoFaces(hops) # {} ->
                ReceiveData(n, c, FirstGeoFace(hops), x, c.t.cs[x], {}, FALSE)
         [] OTHER -> c

\* onContentStoreHit and BroadcastStrategy::afterContentStoreHit: on a geoFace
\* the Data leaves by the first geoFace among the next hops, if there is one.
\* The PIT entry, new in this event, is finalized with it.
OnContentStoreHit(n, c, face, i) ==
    LET x == NameOf[i]
        hops == NextHops(n, c)
    IN CASE ~IsGeoFace(face) -> [c EXCEPT !.app = @ \cup {x}]
         [] IsGeoFace(face) /\ GeoFaces(hops) # {} ->
                ReceiveData(n, c, FirstGeoFace(hops), x, c.t.cs[x], {i}, FALSE)
         [] OTHER -> c

\* onIncomingInterest.  Nacks go to no geoFace.
OnIncomingInterest(n, c, face, i, tag) ==
    LET x == NameOf[i]
        pit == c.t.pit[x]
        loop == i \in c.t.dnl \/ \E r \in pit.in \cup pit.out : r[2] = i
    IN CASE loop -> c
         [] ~loop /\ pit.in = {} /\ c.t.cs[x] # NotCached -> OnContentStoreHit(n, c, face, i)
         [] OTHER -> OnContentStoreMiss(n, c, face, i, tag)

\* Mutant: nothing enters the Dead Nonce List
FinalizeWithoutDnl(tables, x) == [tables EXCEPT !.pit[x] = NoPit]

\* onInterestFinalize of an unsatisfied Interest: the last nonce sent on each
\* face enters the Dead Nonce List
OnInterestFinalize(tables, x) ==
    [tables EXCEPT !.dnl = @ \cup {r[2] : r \in tables.pit[x].out},
                   !.pit[x] = NoPit]
-----------------------------------------------------------------------------
(* VAL: a packet from the network that matches nothing in the PFT *)

\* ifnt::Entry and dfnt::Entry: both take one hop off (uint8_t).  The face is
\* the node's only one; RN takes no part.
IfntEntry(p) ==
    [nonce |-> p.id, hopC |-> (p.hopC - 1) % 256,
     sa |-> p.hdr.sa, da |-> p.hdr.da, phPos |-> p.hdr.phPos]

DfntEntry(p) ==
    [hopC |-> (p.hopC - 1) % 256,
     sa |-> p.hdr.sa, da |-> p.hdr.da, phPos |-> p.hdr.phPos]

\* Ifnt::addEntry, of an entry that equals none in the table
IfntAdd(c, e) == [c EXCEPT !.t.ifnt[e.nonce] = Append(@, e)]

\* Dfnt::addEntry
DfntAdd(c, g, e) == [c EXCEPT !.t.dfnt[g] = <<e>> \o @]

\* Mutant: the IFNT records only Interests with a known destination
IfntOnlyKnown(n, c, p) ==
    LET e == IfntEntry(p)
    IN IF p.hdr.da = FLOOD_AREA THEN OnIncomingInterest(n, c, p.hdr.sa, p.id, NoTag)
       ELSE OnIncomingInterest(n, IfntAdd(c, e),
                               p.hdr.sa, p.id, p.hdr.da)

\* Mutant: the IFNT entry keeps the hop count of the header
HopNotTaken(n, c, p) ==
    LET e == [IfntEntry(p) EXCEPT !.hopC = p.hopC]
        tag == IF p.hdr.da # FLOOD_AREA THEN p.hdr.da ELSE NoTag
    IN IF e \in Range(c.t.ifnt[p.id]) THEN c
       ELSE OnIncomingInterest(n, IfntAdd(c, e),
                               p.hdr.sa, p.id, tag)

\* processInterestFromNetwork.  isEscapedPacket always says no.  An Interest
\* whose entry is already there is being treated, and is dropped.
ProcessInterestFromNetwork(n, c, p) ==
    LET e == IfntEntry(p)
        tag == IF p.hdr.da # FLOOD_AREA THEN p.hdr.da ELSE NoTag
    IN IF e \in Range(c.t.ifnt[p.id]) THEN c
       ELSE OnIncomingInterest(n, IfntAdd(c, e),
                               p.hdr.sa, p.id, tag)

\* processDataFromNetwork
ProcessDataFromNetwork(n, c, p, order) ==
    OnIncomingData(n, DfntAdd(c, Sig[p.id], DfntEntry(p)), p.hdr.sa, p.id,
                   p.hdr.mark, order)
=============================================================================
