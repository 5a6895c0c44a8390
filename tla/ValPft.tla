------------------------------- MODULE ValPft -------------------------------
(***************************************************************************)
(* The Pending Forwarding Table of VAL and its timers                      *)
(* (model/val/table/val-pft*.{hpp,cpp}, model/val/fw/val-forwarder.cpp).   *)
(*                                                                         *)
(* A ValPacket that the strategy wants on the air is registered in the PFT *)
(* with a forwarding timer.  When it fires the packet is sent and an       *)
(* implicit-ACK timer is armed, which retransmits until the tries run out. *)
(* A packet heard from a neighbour may cancel either timer.                *)
(*                                                                         *)
(* pft::Entry objects are reached through shared_ptr from two places, the  *)
(* table and the closures of scheduled events, so the objects (obj), the   *)
(* table (pft) and the live events (timer) are three variables: an event   *)
(* may outlive the table's reference to its entry, and only the invariants *)
(* below say that it never does.                                           *)
(***************************************************************************)
EXTENDS Integers

CONSTANTS
    Node,                    \* vehicles, each with one ValForwarder
    Nonce,                   \* Interest nonces
    Name,                    \* Data names
    Sig,                     \* Sig[d]: the signature of the Data named d
    Header,                  \* what a ValHeader carries besides the hop count
    EntryId,                 \* addresses of pft::Entry objects
    NoEntry,                 \* content of an address that holds no object
    MAXHOPS,                 \* ValHeader::MAXHOPS
    MAX_IMPLICIT_ACK_TRIES   \* pft::Entry::MAX_IMPLICIT_ACK_TRIES

ASSUME EntryIdAssumption == EntryId \subseteq Nat
ASSUME HopAssumption == MAXHOPS \in Nat
ASSUME TriesAssumption == MAX_IMPLICIT_ACK_TRIES \in Nat \ {0}

VARIABLES
    obj,    \* obj[n][a]: the entry object at address a of node n
    pft,    \* pft[n]: the addresses held by the table of node n
    timer   \* timer[n]: live events <<a, kind>> of node n's scheduler

vars == <<obj, pft, timer>>
-----------------------------------------------------------------------------
INTEREST_SET == "interest"
DATA_SET == "data"

\* Interests leave with 1..MAXHOPS hops; Data may carry "one more hop for
\* good luck" (val-distances-strategy.cpp:148).
Interests == [type : {INTEREST_SET}, id : Nonce, hopC : 1..MAXHOPS, hdr : Header]
Datas == [type : {DATA_SET}, id : Name, hopC : 1..(MAXHOPS + 1), hdr : Header]
ValPacket == Interests \cup Datas

IsData(p) == p.type = DATA_SET

\* PFT::findMatch: same NDN type, and same nonce or same signature.  The hop
\* count and the rest of the header do not take part.
SamePacket(p, q) ==
    \/ ~IsData(p) /\ ~IsData(q) /\ p.id = q.id
    \/ IsData(p) /\ IsData(q) /\ Sig[p.id] = Sig[q.id]

WAITING_FORWARDING == 0
WAITING_IMPLICIT_ACK == 1
FORWARDING_TRIES == -1

Kind == {"forward", "impAck"}

\* sent and quiet are history: how often the entry was put on the air, and
\* whether a heard packet has cancelled it.
Entry == [pkt : ValPacket,
          state : {WAITING_FORWARDING, WAITING_IMPLICIT_ACK},
          tries : FORWARDING_TRIES..MAX_IMPLICIT_ACK_TRIES,
          timerId : Kind,
          sent : Nat,
          quiet : BOOLEAN]

\* pft::Entry::Entry, and the setTimer that registerOutgoingValPacket does
NewEntry(p) ==
    [pkt |-> p, state |-> WAITING_FORWARDING, tries |-> FORWARDING_TRIES,
     timerId |-> "forward", sent |-> 0, quiet |-> FALSE]

\* Mutant: the tries are not set when the state changes
WaitingImpAckKeepsTries(x) ==
    IF x.state = WAITING_FORWARDING
    THEN [x EXCEPT !.state = WAITING_IMPLICIT_ACK]
    ELSE x

\* pft::Entry::changeStateToWaintingImpAck
WaitingImpAck(x) ==
    IF x.state = WAITING_FORWARDING
    THEN [x EXCEPT !.state = WAITING_IMPLICIT_ACK,
                   !.tries = MAX_IMPLICIT_ACK_TRIES]
    ELSE x

\* pft::Entry::oneLessTry
OneLessTry(x) == IF x.tries > 0 THEN [x EXCEPT !.tries = @ - 1] ELSE x

Transmitted(x) == [x EXCEPT !.sent = @ + 1]
Silenced(x) == [x EXCEPT !.quiet = TRUE]
SetTimer(x, kind) == [x EXCEPT !.timerId = kind]

Matching(n, p) == {a \in pft[n] : SamePacket(obj[n][a].pkt, p)}

\* scheduler::cancel(entry.getTimerId()) for every entry at an address of S
Cancel(n, T, S) == T \ {<<a, obj[n][a].timerId>> : a \in S}

\* shared_ptr: an object lives while the table or a scheduled closure holds it
Collect(o, P, T) ==
    [a \in EntryId |->
        IF a \in P \/ \E k \in Kind : <<a, k>> \in T THEN o[a] ELSE NoEntry]

Install(n, o, P, T) ==
    /\ pft' = [pft EXCEPT ![n] = P]
    /\ timer' = [timer EXCEPT ![n] = T]
    /\ obj' = [obj EXCEPT ![n] = Collect(o, P, T)]

Free(n, a) == a \notin pft[n] /\ \A k \in Kind : <<a, k>> \notin timer[n]

\* make_shared takes some unused address; the least one keeps runs small
FirstFree(n, a) == Free(n, a) /\ \A b \in EntryId : Free(n, b) => a <= b
-----------------------------------------------------------------------------
Init ==
    /\ obj = [n \in Node |-> [a \in EntryId |-> NoEntry]]
    /\ pft = [n \in Node |-> {}]
    /\ timer = [n \in Node |-> {}]

\* reveiceData, relay branch: the pending Interests whose nonce the Data
\* satisfies (PFT::findMatchByNonceList)
Satisfied(n, S) == {a \in pft[n] : ~IsData(obj[n][a].pkt) /\ obj[n][a].pkt.id \in S}

\* Mutant: addEntry without its findMatch
RegisterUnchecked(n, p, S) ==
    LET gone == Satisfied(n, S)
    IN \E a \in EntryId :
            /\ FirstFree(n, a)
            /\ Install(n, [obj[n] EXCEPT ![a] = NewEntry(p)],
                       (pft[n] \ gone) \cup {a},
                       Cancel(n, timer[n], gone) \cup {<<a, "forward">>})

\* registerOutgoingValPacket after the Interests of nonce list S have been
\* cancelled and removed; S is empty unless a Data is relayed.  A packet that
\* matches an entry already in the table is not registered (addEntry).
RegisterOutgoing(n, p, S) ==
    LET gone == Satisfied(n, S)
    IN /\ Matching(n, p) \ gone = {}
       /\ \E a \in EntryId :
            /\ FirstFree(n, a)
            /\ Install(n, [obj[n] EXCEPT ![a] = NewEntry(p)],
                       (pft[n] \ gone) \cup {a},
                       Cancel(n, timer[n], gone) \cup {<<a, "forward">>})

\* reveiceData of a relay that does not forward the Data, or of a consumer
CancelSatisfied(n, S) ==
    LET gone == Satisfied(n, S)
    IN /\ gone # {}
       /\ Install(n, obj[n], pft[n] \ gone, Cancel(n, timer[n], gone))

\* Mutant: the forwarding timer is left running, since its callback tests the
\* state anyway
ForwardingNotCancelled(n, p) ==
    \E a \in Matching(n, p) :
        LET x == obj[n][a]
        IN /\ x.state = WAITING_FORWARDING
           /\ x.pkt.hopC = p.hopC
           /\ Install(n, [obj[n] EXCEPT ![a] = Silenced(WaitingImpAck(x))],
                      IF IsData(x.pkt) THEN pft[n] \ Matching(n, p) ELSE pft[n],
                      timer[n])

\* Mutant: the copy is dropped, and the timer runs on as if it had not come
CancellationForgotten(n, p) ==
    /\ \E a \in Matching(n, p) :
        /\ obj[n][a].state = WAITING_FORWARDING
        /\ obj[n][a].pkt.hopC = p.hopC
    /\ UNCHANGED vars

\* preProcessingValPacket, entry in WAITING_FORWARDING: a node in a better
\* position has sent the packet.  A Data entry is removed, an Interest entry
\* stays in the table with its state changed.
ForwardingCancelled(n, p) ==
    \E a \in Matching(n, p) :
        LET x == obj[n][a]
        IN /\ x.state = WAITING_FORWARDING
           /\ x.pkt.hopC = p.hopC
           /\ Install(n, [obj[n] EXCEPT ![a] = Silenced(WaitingImpAck(x))],
                      IF IsData(x.pkt) THEN pft[n] \ Matching(n, p) ELSE pft[n],
                      Cancel(n, timer[n], {a}))

\* preProcessingValPacket, entry in WAITING_IMPLICIT_ACK.  The comparison is
\* made in int, so a hop count of 0 has no predecessor.
AcksEntry(x, p) ==
    \/ x.pkt.hopC - 1 = p.hopC
    \/ IsData(x.pkt) /\ x.pkt.hopC = p.hopC

\* Mutant: the timer is cancelled only where the entry is removed
ImplicitAckKeepsTimer(n, p) ==
    \E a \in Matching(n, p) :
        LET x == obj[n][a]
        IN /\ x.state = WAITING_IMPLICIT_ACK
           /\ AcksEntry(x, p)
           /\ Install(n, [obj[n] EXCEPT ![a] = Silenced(x)],
                      IF IsData(x.pkt) THEN pft[n] \ Matching(n, p) ELSE pft[n],
                      IF IsData(x.pkt) THEN Cancel(n, timer[n], {a}) ELSE timer[n])

ImplicitAck(n, p) ==
    \E a \in Matching(n, p) :
        LET x == obj[n][a]
        IN /\ x.state = WAITING_IMPLICIT_ACK
           /\ AcksEntry(x, p)
           /\ Install(n, [obj[n] EXCEPT ![a] = Silenced(x)],
                      IF IsData(x.pkt) THEN pft[n] \ Matching(n, p) ELSE pft[n],
                      Cancel(n, timer[n], {a}))

\* The state a timer callback tests before it sends
Due(x, kind) ==
    x.state = IF kind = "forward" THEN WAITING_FORWARDING ELSE WAITING_IMPLICIT_ACK

\* forwardingTimerCallback.  "Data Last hop does not receive ImpACK": with two
\* hops or less left the timer just set is cancelled and the entry removed.
ForwardingTimer(n, a) ==
    LET x == obj[n][a]
        fires == Due(x, "forward")
        y == SetTimer(WaitingImpAck(Transmitted(x)), "impAck")
        last == IsData(x.pkt) /\ x.pkt.hopC <= 2
        rest == timer[n] \ {<<a, "forward">>}
    IN /\ <<a, "forward">> \in timer[n]
       /\ Install(n, IF fires THEN [obj[n] EXCEPT ![a] = y] ELSE obj[n],
                  IF fires /\ last THEN pft[n] \ Matching(n, x.pkt) ELSE pft[n],
                  IF fires /\ ~last THEN rest \cup {<<a, "impAck">>} ELSE rest)

\* Mutant: with one try left the callback re-arms itself without sending
RearmsWithoutSending(n, a) ==
    LET x == obj[n][a]
        fires == Due(x, "impAck")
        y == IF x.tries > 1 THEN OneLessTry(Transmitted(x)) ELSE x
        rest == timer[n] \ {<<a, "impAck">>}
    IN /\ <<a, "impAck">> \in timer[n]
       /\ Install(n, IF fires THEN [obj[n] EXCEPT ![a] = y] ELSE obj[n],
                  pft[n],
                  IF fires THEN rest \cup {<<a, "impAck">>} ELSE rest)

\* Mutant: only a Data leaves the table when the tries are used up
InterestNotGivenUp(n, a) ==
    LET x == obj[n][a]
        fires == Due(x, "impAck")
        y == OneLessTry(Transmitted(x))
        again == y.tries > 0
        rest == timer[n] \ {<<a, "impAck">>}
    IN /\ <<a, "impAck">> \in timer[n]
       /\ Install(n, IF fires THEN [obj[n] EXCEPT ![a] = y] ELSE obj[n],
                  IF fires /\ ~again /\ IsData(x.pkt) THEN pft[n] \ Matching(n, x.pkt)
                  ELSE pft[n],
                  IF fires /\ again THEN rest \cup {<<a, "impAck">>} ELSE rest)

\* impAckTimerCallback: retransmit, then re-arm or give up
ImpAckTimer(n, a) ==
    LET x == obj[n][a]
        fires == Due(x, "impAck")
        y == OneLessTry(Transmitted(x))
        again == y.tries > 0
        rest == timer[n] \ {<<a, "impAck">>}
    IN /\ <<a, "impAck">> \in timer[n]
       /\ Install(n, IF fires THEN [obj[n] EXCEPT ![a] = y] ELSE obj[n],
                  IF fires /\ ~again THEN pft[n] \ Matching(n, x.pkt) ELSE pft[n],
                  IF fires /\ again THEN rest \cup {<<a, "impAck">>} ELSE rest)

Next ==
    \E n \in Node :
        \/ \E a \in EntryId : ForwardingTimer(n, a) \/ ImpAckTimer(n, a)
        \/ \E S \in SUBSET Nonce : CancelSatisfied(n, S)
        \/ \E p \in ValPacket :
             \/ RegisterOutgoing(n, p, {})
             \/ IsData(p) /\ \E S \in SUBSET Nonce : RegisterOutgoing(n, p, S)
             \/ ForwardingCancelled(n, p)
             \/ ImplicitAck(n, p)

Spec == Init /\ [][Next]_vars

\* The scheduler runs every event that is not cancelled.
Fairness == \A n \in Node, a \in EntryId :
    WF_vars(ForwardingTimer(n, a)) /\ WF_vars(ImpAckTimer(n, a))

FairSpec == Spec /\ Fairness
-----------------------------------------------------------------------------
\* Every reachable value has the type the C++ declarations give it, with the
\* tries confined to -1..MAX_IMPLICIT_ACK_TRIES.
TypeOK ==
    /\ obj \in [Node -> [EntryId -> Entry \cup {NoEntry}]]
    /\ pft \in [Node -> SUBSET EntryId]
    /\ timer \in [Node -> SUBSET (EntryId \X Kind)]

Armed(n, a) == \E k \in Kind : <<a, k>> \in timer[n]

\* The table holds at most one entry for an Interest nonce and one for a Data
\* signature: removeEntry, addEntry and findMatch may stop at the first match.
PftUnique ==
    \A n \in Node : \A a, b \in pft[n] :
        SamePacket(obj[n][a].pkt, obj[n][b].pkt) => a = b

\* A live event belongs to an entry that is still in the table, is the event
\* that the entry's m_timerId names, and finds the state its callback tests
\* for: no callback works on a removed entry, and cancel() reaches every event.
TimerOwned ==
    \A n \in Node, a \in EntryId, k \in Kind : <<a, k>> \in timer[n] =>
        /\ a \in pft[n]
        /\ obj[n][a].timerId = k
        /\ (k = "forward") <=> (obj[n][a].state = WAITING_FORWARDING)

\* A packet waiting to be forwarded, any Data, and any Interest of which no other
\* node has been heard, has a live event: it will be sent again or given up, and
\* cannot sit in the table dropping later copies.  The entries left without an
\* event are thus the Interests that preProcessingValPacket has cancelled or found
\* acknowledged ("or removing???"), and no others.
NothingStalls ==
    \A n \in Node : \A a \in pft[n] :
        LET x == obj[n][a]
        IN x.state = WAITING_FORWARDING \/ IsData(x.pkt) \/ ~x.quiet => Armed(n, a)

\* One registration puts its packet on the air once for the forwarding timer
\* and at most once for each implicit-ACK try: while events are live, what has
\* been sent and what may still be sent add up to that budget.
TransmissionBudget ==
    \A n \in Node, a \in EntryId :
        LET x == obj[n][a]
        IN /\ <<a, "forward">> \in timer[n] => x.sent = 0
           /\ <<a, "impAck">> \in timer[n] =>
                /\ x.sent + x.tries = 1 + MAX_IMPLICIT_ACK_TRIES
                /\ x.tries > 0

\* After a better placed node's broadcast or an implicit ACK has been heard,
\* no event is left that would transmit the entry again.
QuietStaysQuiet ==
    \A n \in Node : \A a \in pft[n] : obj[n][a].quiet => ~Armed(n, a)

\* Every armed entry is eventually at rest: the retransmissions come to an end
\* whatever the neighbours do.
EventuallyAtRest ==
    \A n \in Node, a \in EntryId : Armed(n, a) ~> ~Armed(n, a)
=============================================================================
