--------------------------- MODULE LpReliability ---------------------------
(***************************************************************************)
(* Link-layer reliability (NFD/daemon/face/lp-reliability.cpp) of the      *)
(* GenericLinkService at both ends of a link that loses and reorders.      *)
(*                                                                         *)
(* The state of an end is a record, and every function of LpReliability    *)
(* is an operator from one such record to the next.  A use of an iterator  *)
(* that is not valid, the assertion of onLpPacketLost, the length_error    *)
(* and a loop that cannot end set the flag "failed".                       *)
(*                                                                         *)
(* RTT estimation is left out: the RTO timer of a fragment may fire at any *)
(* time while it is scheduled.  LpPackets are within the MTU (the sizes    *)
(* are the subject of ValLink), so piggyback is bounded by how many Acks   *)
(* fit beside a fragment and in an IDLE packet.                            *)
(***************************************************************************)
EXTENDS Integers, Sequences, FiniteSets

CONSTANTS
    Node,        \* the two ends of the link
    NetPkt,      \* network packets
    From,        \* [NetPkt -> Node]: who sends a network packet
    FragCount,   \* [NetPkt -> Nat]: into how many fragments
    SeqRange,    \* TxSequence numbers are modulo SeqRange (2^64 in the code)
    LastTxSeqNo, \* m_lastTxSeqNo when the run starts, everything acknowledged
    maxRetx,
    Thresholds,  \* the values of seqNumLossThreshold
    FragRoom,    \* Acks that fit beside a fragment
    IdleRoom,    \* Acks that fit in an IDLE packet
    MaxSwitches, \* bound, [Node -> Nat]: how often an end switches reliability
    MaxAir,      \* bound: LpPackets under way
    MaxSent      \* bound: network packets sent in a run

Nil == -1
Frag == UNION {{p} \X (1..FragCount[p]) : p \in NetPkt}
NoFrag == <<>>

\* How many LpPackets with a TxSequence number an end can send in a run
MaxTx(n) == Cardinality({f \in Frag : From[f[1]] = n}) * (maxRetx + 1)

ASSUME ConstantTypes ==
    /\ IsFiniteSet(NetPkt)
    /\ From \in [NetPkt -> Node]
    /\ FragCount \in [NetPkt -> Nat \ {0}]
    /\ SeqRange \in Nat \ {0}
    /\ LastTxSeqNo \in 0..(SeqRange - 1)
    /\ maxRetx \in Nat
    /\ Thresholds \subseteq Nat
    /\ FragRoom \in Nat

\* The link is between two
ASSUME TwoEnds == \E a, b \in Node : a # b /\ Node = {a, b}

\* The run is too short for a number to be used twice: with 2^64 of them, no
\* packet or Ack is still around when its number comes back
ASSUME RunIsShort == \A n \in Node : MaxTx(n) < SeqRange

\* Else an IDLE packet never empties the queue of Acks (lp-reliability.cpp:203)
ASSUME AckFits == IdleRoom \in Nat \ {0}

VARIABLES
    link,        \* [Node -> the state of the LpReliability of this end]
    air,         \* LpPackets under way
    received,    \* [Node -> the fragments that arrived here]
    switches     \* [Node -> how often reliability was switched]

vars == <<link, air, received, switches>>

Peer(n) == CHOOSE m \in Node : m # n
Keys(l) == DOMAIN l.unackedFrags
NetPktOf(l, s) == l.unackedFrags[s].frag[1]

Min2(a, b) == IF a < b THEN a ELSE b
Least(S) == CHOOSE s \in S : \A t \in S : s <= t

Init ==
    /\ \E threshold \in Thresholds : link =
               [n \in Node |->
                 [isEnabled |-> TRUE,
                  seqNumLossThreshold |-> threshold,
                  unackedFrags |-> <<>>,
                  firstUnackedFrag |-> Nil,
                  lastTxSeqNo |-> LastTxSeqNo,
                  rtoTimers |-> {},
                  netPkt |-> [p \in NetPkt |-> {}],
                  didRetx |-> {},
                  outcome |-> [p \in NetPkt |-> "none"],
                  ackQueue |-> <<>>,
                  isIdleAckTimerRunning |-> FALSE,
                  acked |-> {},
                  out |-> {},
                  failed |-> FALSE]]
    /\ air = {}
    /\ received = [n \in Node |-> {}]
    /\ switches = [n \in Node |-> 0]
-----------------------------------------------------------------------------
(* Sending *)

\* The Acks of a queue that the j-th of several LpPackets takes
Chunk(queue, j, room) == SubSeq(queue, (j - 1) * room + 1, Min2(j * room, Len(queue)))

\* sendLpPacket for each of pkts in turn, with the Acks that piggyback finds room for
SendLpPackets(l, pkts) ==
    LET room == IF l.isEnabled THEN FragRoom ELSE 0
    IN  [l EXCEPT !.ackQueue = SubSeq(@, Len(pkts) * room + 1, Len(@)),
                  !.out = @ \cup {[frag |-> pkts[j].frag, txSeq |-> pkts[j].txSeq,
                                   acks |-> Chunk(l.ackQueue, j, room)] : j \in DOMAIN pkts}]

assignTxSequence(l) ==
    LET txSeq == (l.lastTxSeqNo + 1) % SeqRange
    IN  [l EXCEPT !.lastTxSeqNo = txSeq,
                  !.failed = @ \/ (Keys(l) # {} /\ txSeq = l.firstUnackedFrag)]

\* The map with the fragments of new, unless their numbers are taken
Emplaced(frags, new) ==
    [s \in DOMAIN frags \cup DOMAIN new |-> IF s \in DOMAIN frags THEN frags[s] ELSE new[s]]

UnackedFrag(frag, retxCount) ==
    [frag |-> frag, retxCount |-> retxCount, nGreaterSeqAcks |-> 0]

\* handleOutgoing: the fragments of p are tracked under the numbers that follow
handleOutgoing(l, p) ==
    LET txSeq == [i \in 1..FragCount[p] |-> (l.lastTxSeqNo + i) % SeqRange]
        new == {txSeq[i] : i \in DOMAIN txSeq}
        first == IF Keys(l) = {} THEN txSeq[1] ELSE l.firstUnackedFrag
        FragAt(s) == <<p, (s - l.lastTxSeqNo) % SeqRange>>
    IN  [l EXCEPT !.lastTxSeqNo = txSeq[FragCount[p]],
                  !.unackedFrags = Emplaced(@, [s \in new |-> UnackedFrag(FragAt(s), 0)]),
                  !.rtoTimers = @ \cup new,
                  !.netPkt[p] = new,
                  !.outcome[p] = "unacked",
                  !.firstUnackedFrag = first,
                  !.failed = @ \/ \E i \in DOMAIN txSeq :
                                     txSeq[i] = first /\ (Keys(l) # {} \/ i > 1)]

\* sendNetPacket: all fragments are tracked before the first one is sent
SendTracked(l, p) ==
    SendLpPackets(handleOutgoing(l, p),
                  [i \in 1..FragCount[p] |->
                     [frag |-> <<p, i>>, txSeq |-> (l.lastTxSeqNo + i) % SeqRange]])

SendUntracked(l, p) ==
    SendLpPackets([l EXCEPT !.outcome[p] = "untracked"],
                  [i \in 1..FragCount[p] |-> [frag |-> <<p, i>>, txSeq |-> Nil]])
-----------------------------------------------------------------------------
(* Losing and acknowledging *)

\* The fragment after s in the map, of the numbers in keys, around its end
NextFrag(keys, s) ==
    IF \E t \in keys : t > s THEN Least({t \in keys : t > s}) ELSE Least(keys)

\* Mutant: the window moves to the lowest number
WindowAtLowest(l, S) ==
    LET rest == Keys(l) \ S
    IN  [l EXCEPT !.unackedFrags = [s \in rest |-> l.unackedFrags[s]],
                  !.rtoTimers = @ \ S,
                  !.firstUnackedFrag = IF rest = {} THEN Nil
                                       ELSE IF @ \in S THEN Least(rest) ELSE @,
                  !.failed = @ \/ (S \cup {l.firstUnackedFrag}) \ Keys(l) # {}]

\* deleteUnackedFrag of each number in S: the start of the window moves on as
\* long as it is the one that is deleted
deleteUnackedFrags(l, S) ==
    LET rest == Keys(l) \ S
    IN  [l EXCEPT !.unackedFrags = [s \in rest |-> l.unackedFrags[s]],
                  !.rtoTimers = @ \ S,
                  !.firstUnackedFrag = IF rest = {} THEN Nil
                                       ELSE IF @ \in S THEN NextFrag(rest, @) ELSE @,
                  !.failed = @ \/ (S \cup {l.firstUnackedFrag}) \ Keys(l) # {}]

\* Mutant: the network packet that is given up counts as retransmitted
GivenUpIsRetransmitted(l, s) ==
    LET p == NetPktOf(l, s)
    IN  [deleteUnackedFrags(l, l.netPkt[p] \cup {s})
           EXCEPT !.netPkt[p] = {}, !.outcome[p] = "retransmitted"]

\* The branch of onLpPacketLost that gives up the network packet
GiveUp(l, s) ==
    LET p == NetPktOf(l, s)
    IN  [deleteUnackedFrags(l, l.netPkt[p] \cup {s})
           EXCEPT !.netPkt[p] = {}, !.outcome[p] = "exhausted"]

\* Mutant: retxCount of the new fragment starts at zero
RetxNotCounted(l, s) ==
    LET frag == l.unackedFrags[s]
        a == assignTxSequence(l)
        new == a.lastTxSeqNo
        moved == [a EXCEPT !.unackedFrags = Emplaced(@, [t \in {new} |-> UnackedFrag(frag.frag, 0)]),
                           !.netPkt[frag.frag[1]] = (@ \ {s}) \cup {new},
                           !.didRetx = @ \cup {frag.frag[1]}]
        sent == SendLpPackets(deleteUnackedFrags(moved, {s}),
                              <<[frag |-> frag.frag, txSeq |-> new]>>)
    IN  [sent EXCEPT !.rtoTimers = @ \cup {new}]

\* Mutant: no RTO timer for the retransmission
NoTimerAfterRetx(l, s) ==
    LET frag == l.unackedFrags[s]
        a == assignTxSequence(l)
        new == a.lastTxSeqNo
        again == UnackedFrag(frag.frag, frag.retxCount + 1)
        moved == [a EXCEPT !.unackedFrags = Emplaced(@, [t \in {new} |-> again]),
                           !.netPkt[frag.frag[1]] = (@ \ {s}) \cup {new},
                           !.didRetx = @ \cup {frag.frag[1]}]
    IN  SendLpPackets(deleteUnackedFrags(moved, {s}), <<[frag |-> frag.frag, txSeq |-> new]>>)

\* Its other branch: a new number, the packet is sent and its timer is started
Retransmit(l, s) ==
    LET frag == l.unackedFrags[s]
        a == assignTxSequence(l)
        new == a.lastTxSeqNo
        again == UnackedFrag(frag.frag, frag.retxCount + 1)
        moved == [a EXCEPT !.unackedFrags = Emplaced(@, [t \in {new} |-> again]),
                           !.netPkt[frag.frag[1]] = (@ \ {s}) \cup {new},
                           !.didRetx = @ \cup {frag.frag[1]}]
        sent == SendLpPackets(deleteUnackedFrags(moved, {s}),
                              <<[frag |-> frag.frag, txSeq |-> new]>>)
    IN  [sent EXCEPT !.rtoTimers = @ \cup {new}]

\* Mutant: one retransmission too many
OneMoreRetx(l, s) ==
    IF s \notin Keys(l) THEN [l EXCEPT !.failed = TRUE]
    ELSE IF l.unackedFrags[s].retxCount > maxRetx THEN GiveUp(l, s)
    ELSE Retransmit(l, s)

onLpPacketLost(l, s) ==
    IF s \notin Keys(l) THEN [l EXCEPT !.failed = TRUE]
    ELSE IF l.unackedFrags[s].retxCount >= maxRetx THEN GiveUp(l, s)
    ELSE Retransmit(l, s)

\* The numbers onLpPacketLost returns
RemovedByLoss(l, s) ==
    IF l.unackedFrags[s].retxCount >= maxRetx THEN l.netPkt[NetPktOf(l, s)] \cup {s} ELSE {s}

\* Mutant: a fragment that fell with its network packet is lost once more
NoRemovedLpPackets(x, s) ==
    [l |-> onLpPacketLost(x.l, s), removed |-> x.removed]

\* The body of the loop over lostLpPackets, with removedLpPackets
ResendOrFail(x, s) ==
    IF s \in x.removed THEN x
    ELSE [l |-> onLpPacketLost(x.l, s), removed |-> x.removed \cup RemovedByLoss(x.l, s)]

\* Mutant: the walk starts at the lowest number, as if none had wrapped
OlderIgnoringWrap(l, s) == {t \in Keys(l) : t < s}

\* What findLostLpPackets walks over: from the start of the window to s
Older(l, s) ==
    LET Dist(t) == (t - l.firstUnackedFrag) % SeqRange
    IN  {t \in Keys(l) : Dist(t) < Dist(s)}

Counted(l, s) ==
    [l EXCEPT !.unackedFrags =
        [t \in Keys(l) |-> IF t \in Older(l, s)
                           THEN [l.unackedFrags[t] EXCEPT !.nGreaterSeqAcks = @ + 1]
                           ELSE l.unackedFrags[t]]]

\* What findLostLpPackets returns
LostLpPackets(l, s) ==
    {t \in Older(l, s) : l.unackedFrags[t].nGreaterSeqAcks >= l.seqNumLossThreshold}

\* The loop over lost, in the order of the walk that began at first
Resends(start, lost, first) ==
    LET turn[d \in 0..SeqRange] ==
            IF d = 0 THEN start
            ELSE LET s == (first + d - 1) % SeqRange
                 IN  IF s \in lost THEN ResendOrFail(turn[d - 1], s) ELSE turn[d - 1]
    IN  turn

onLpPacketAcknowledged(l, s) ==
    LET p == NetPktOf(l, s)
        left == l.netPkt[p] \ {s}
    IN  deleteUnackedFrags(
          [l EXCEPT !.netPkt[p] = left,
                    !.acked = @ \cup {s},
                    !.outcome[p] = IF left # {} THEN @
                                   ELSE IF p \in l.didRetx THEN "retransmitted"
                                   ELSE "acknowledged"],
          {s})

\* The body of processIncomingPacket's loop over the Acks
ProcessAck(l, s) ==
    IF s \notin Keys(l) THEN l
    ELSE LET counted == Counted(l, s)
             start == [l |-> onLpPacketAcknowledged(counted, s), removed |-> {}]
         IN  Resends(start, LostLpPackets(counted, s), l.firstUnackedFrag)[SeqRange].l

ProcessAcks(l, acks) ==
    LET turn[k \in 0..Len(acks)] ==
            IF k = 0 THEN l ELSE ProcessAck(turn[k - 1], acks[k])
    IN  turn

processIncomingPacket(l, m) ==
    LET acked == ProcessAcks(l, m.acks)[Len(m.acks)]
    IN  IF m.frag # NoFrag /\ m.txSeq # Nil
        THEN [acked EXCEPT !.ackQueue = Append(@, m.txSeq), !.isIdleAckTimerRunning = TRUE]
        ELSE acked

\* The handler of the idle Ack timer: IDLE packets until no Ack is left, which
\* takes for ever when sendLpPacket adds none
SendIdlePackets(l) ==
    LET acks == {Chunk(l.ackQueue, j, IdleRoom) : j \in 1..Len(l.ackQueue)} \ {<<>>}
    IN  IF l.isEnabled
        THEN [l EXCEPT !.ackQueue = <<>>,
                       !.out = @ \cup {[frag |-> NoFrag, txSeq |-> Nil, acks |-> a] : a \in acks},
                       !.isIdleAckTimerRunning = FALSE]
        ELSE [l EXCEPT !.isIdleAckTimerRunning = FALSE, !.failed = @ \/ l.ackQueue # <<>>]
-----------------------------------------------------------------------------
(* Actions *)

\* The end n goes on from l.  Of the packets it sent the link loses some, and
\* the others join those that are under way.
Step(n, l, underway) ==
    /\ link' = [link EXCEPT ![n] = [l EXCEPT !.out = {}]]
    /\ \E kept \in SUBSET l.out :
          /\ Cardinality(underway) + Cardinality(kept) <= MaxAir
          /\ air' = underway \cup {[to |-> Peer(n), pkt |-> m] : m \in kept}

\* GenericLinkService::sendNetPacket
SendNetPacket(p) ==
    LET n == From[p]
    IN  /\ link[n].outcome[p] = "none"
        /\ Cardinality({r \in NetPkt : link[From[r]].outcome[r] # "none"}) < MaxSent
        /\ IF link[n].isEnabled THEN Step(n, SendTracked(link[n], p), air)
                                ELSE Step(n, SendUntracked(link[n], p), air)
        /\ UNCHANGED <<received, switches>>

\* GenericLinkService::doReceivePacket; reassembly is not part of this module
DoReceivePacket(n) ==
    \E m \in {a \in air : a.to = n} :
        /\ Step(n, IF link[n].isEnabled THEN processIncomingPacket(link[n], m.pkt) ELSE link[n],
                air \ {m})
        /\ received' = [received EXCEPT ![n] = @ \cup ({m.pkt.frag} \ {NoFrag})]
        /\ UNCHANGED switches

\* The RTO timer of a fragment fires
RtoTimeout(n) ==
    \E s \in link[n].rtoTimers :
        /\ Step(n, onLpPacketLost(link[n], s), air)
        /\ UNCHANGED <<received, switches>>

IdleAckTimeout(n) ==
    /\ link[n].isIdleAckTimerRunning
    /\ Step(n, SendIdlePackets(link[n]), air)
    /\ UNCHANGED <<received, switches>>

\* GenericLinkService::setOptions switches reliability on or off
SetOptions(n) ==
    /\ switches[n] < MaxSwitches[n]
    /\ link' = [link EXCEPT ![n].isEnabled = ~@,
                            ![n].isIdleAckTimerRunning = @ /\ ~link[n].isEnabled]
    /\ switches' = [switches EXCEPT ![n] = @ + 1]
    /\ UNCHANGED <<air, received>>

Next ==
    \/ \E p \in NetPkt : SendNetPacket(p)
    \/ \E n \in Node : \/ DoReceivePacket(n) \/ RtoTimeout(n)
                       \/ IdleAckTimeout(n) \/ SetOptions(n)

Spec == Init /\ [][Next]_vars
-----------------------------------------------------------------------------
(* Properties *)

Outcome == {"none", "untracked", "unacked", "acknowledged", "retransmitted", "exhausted"}

\* The state has its type, and no fragment is retransmitted more than maxRetx times
ReliabilityTypeOK ==
    \A n \in Node :
        LET l == link[n]
        IN  /\ l.lastTxSeqNo \in 0..SeqRange - 1
            /\ Keys(l) \subseteq 0..SeqRange - 1
            /\ l.firstUnackedFrag \in Keys(l) \cup {Nil}
            /\ \A s \in Keys(l) : /\ l.unackedFrags[s].frag \in Frag
                                  /\ l.unackedFrags[s].retxCount \in 0..maxRetx
            /\ l.outcome \in [NetPkt -> Outcome]
            /\ l.out = {}

\* No iterator that was invalidated is used, no fragment is declared lost that is
\* not (any more) unacknowledged, the TxSequence range is not exceeded,
\* and the idle Ack timer's loop ends: it never runs while reliability is off and
\* sendLpPacket takes no Acks.  (The assertions that a fragment is in the list of
\* its network packet are the subject of ListsAndTimersExact.)
NoInvalidIterator == \A n \in Node : ~link[n].failed

\* The window starts at the oldest unacknowledged fragment, also when the numbers
\* have wrapped around (the comment on m_firstUnackedFrag, lp-reliability.hpp:209)
FirstIsOldest ==
    \A n \in Node :
        LET l == link[n]
            Age(s) == (l.lastTxSeqNo - s) % SeqRange
        IN  IF Keys(l) = {} THEN l.firstUnackedFrag = Nil
            ELSE /\ l.firstUnackedFrag \in Keys(l)
                 /\ \A s \in Keys(l) : Age(s) <= Age(l.firstUnackedFrag)

\* Every unacknowledged fragment is in the list of its network packet and has an
\* RTO timer; no list and no timer names a fragment that is gone
ListsAndTimersExact ==
    \A n \in Node :
        LET l == link[n]
        IN  /\ l.rtoTimers = Keys(l)
            /\ \A p \in NetPkt : l.netPkt[p] = {s \in Keys(l) : NetPktOf(l, s) = p}
            /\ \A p \in NetPkt : l.outcome[p] = "unacked" <=> l.netPkt[p] # {}

\* The place of a number in the order in which they are assigned
Order(s) == (s - LastTxSeqNo - 1) % SeqRange

\* nGreaterSeqAcks of a fragment counts exactly the acknowledged fragments that
\* were sent after it, so a fragment is never declared lost too early
CountsLaterAcks ==
    \A n \in Node :
        LET l == link[n]
        IN  \A s \in Keys(l) :
                /\ l.unackedFrags[s].nGreaterSeqAcks =
                       Cardinality({a \in l.acked : Order(a) > Order(s)})
                /\ l.unackedFrags[s].nGreaterSeqAcks \in 0..(l.seqNumLossThreshold - 1) \cup {0}

\* A network packet that nAcknowledged or nRetransmitted counts has reached the
\* peer with all its fragments, whatever the link lost or reordered
AckedWasReceived ==
    \A p \in NetPkt :
        link[From[p]].outcome[p] \in {"acknowledged", "retransmitted"} =>
            {f \in Frag : f[1] = p} \subseteq received[Peer(From[p])]

\* The transmissions an end may still make for the fragments it tracks: <<f, k>>
\* is the one that follows the k-th retransmission of f
Work(l) ==
    UNION {{l.unackedFrags[s].frag} \X (l.unackedFrags[s].retxCount..maxRetx) : s \in Keys(l)}

LessToDo(l, new) ==
    /\ \/ Keys(new) = Keys(l)
       \/ Work(new) \subseteq Work(l) /\ Work(new) # Work(l)
       \/ \E p \in NetPkt : l.outcome[p] = "none" /\ new.outcome[p] # "none"
    /\ \A p \in NetPkt :
          l.outcome[p] \notin {"none", "unacked"} => new.outcome[p] = l.outcome[p]

\* Reliability ends: unless a network packet is sent, a step that touches the
\* unacknowledged fragments (an RTO, an Ack, the losses it reveals) leaves less
\* to do, and a network packet that was acknowledged or given up stays so
\* whatever Ack comes late.  As every fragment has an RTO timer, every tracked
\* network packet is acknowledged or given up once the timers run.
AlwaysLessToDo == [][\A n \in Node : LessToDo(link[n], link'[n])]_vars
=============================================================================
