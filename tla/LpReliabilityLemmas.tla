------------------------ MODULE LpReliabilityLemmas ------------------------
(***************************************************************************)
(* The invariant of LpReliability and what the single steps of its         *)
(* handlers do to one end of a link: giving a packet up, sending it again, *)
(* acknowledging it.  LpReliabilityProofs puts the steps together.         *)
(***************************************************************************)
EXTENDS LpReliability, FiniteSetTheorems, WellFoundedInduction, TLAPS

\* Leaves are for Zenon unless they name another prover.
USE ZenonT(30)

Numbers == 0..(SeqRange - 1)
MyFrags(n) == {f \in Frag : From[f[1]] = n}

\* How many numbers an end has assigned
Used(l) == (l.lastTxSeqNo - LastTxSeqNo) % SeqRange

UnackedFrags == [frag : Frag, retxCount : 0..maxRetx, nGreaterSeqAcks : Nat]
FragMaps == UNION {[K -> UnackedFrags] : K \in SUBSET Numbers}
Packets == [frag : Frag \cup {NoFrag}, txSeq : Numbers \cup {Nil}, acks : Seq(Numbers)]

Links == [isEnabled : BOOLEAN,
          seqNumLossThreshold : Nat,
          unackedFrags : FragMaps,
          firstUnackedFrag : Numbers \cup {Nil},
          lastTxSeqNo : Numbers,
          rtoTimers : SUBSET Numbers,
          netPkt : [NetPkt -> SUBSET Numbers],
          didRetx : SUBSET NetPkt,
          outcome : [NetPkt -> Outcome],
          ackQueue : Seq(Numbers),
          isIdleAckTimerRunning : BOOLEAN,
          acked : SUBSET Numbers,
          out : SUBSET Packets,
          failed : BOOLEAN]

Tracks(l, f) == \E s \in Keys(l) : l.unackedFrags[s].frag = f

\* The transmissions that an end has made, or can no longer make: at least as
\* many as the numbers it has used
Spent(n, l) ==
    {x \in MyFrags(n) \X (0..maxRetx) :
        /\ l.outcome[x[1][1]] # "none"
        /\ \A s \in Keys(l) : l.unackedFrags[s].frag = x[1] => x[2] <= l.unackedFrags[s].retxCount}

FragsOK(n, l) ==
    /\ \A s \in Keys(l) : Order(s) < Used(l) /\ l.unackedFrags[s].frag \in MyFrags(n)
    /\ \A s, t \in Keys(l) : l.unackedFrags[s].frag = l.unackedFrags[t].frag => s = t
    /\ \A s \in l.acked : Order(s) < Used(l) /\ s \notin Keys(l)

WindowOK(l) ==
    IF Keys(l) = {} THEN l.firstUnackedFrag = Nil
    ELSE /\ l.firstUnackedFrag \in Keys(l)
         /\ \A s \in Keys(l) : Order(l.firstUnackedFrag) <= Order(s)

ListsOK(l) ==
    /\ l.rtoTimers = Keys(l)
    /\ \A p \in NetPkt : l.netPkt[p] = {s \in Keys(l) : NetPktOf(l, s) = p}
    /\ \A p \in NetPkt : l.outcome[p] = "unacked" <=> l.netPkt[p] # {}

Later(l, s) == {a \in l.acked : Order(a) > Order(s)}

CountsOK(l) ==
    \A s \in Keys(l) : l.unackedFrags[s].nGreaterSeqAcks = Cardinality(Later(l, s))

\* What holds of an end throughout every handler
LinkInv(n, l) ==
    /\ l \in Links
    /\ ~l.failed
    /\ FragsOK(n, l)
    /\ WindowOK(l)
    /\ ListsOK(l)
    /\ CountsOK(l)
    /\ Used(l) <= Cardinality(Spent(n, l))

\* No fragment has been declared lost: the counts are below the threshold
NoneLost(l) ==
    \A s \in Keys(l) :
        \/ l.unackedFrags[s].nGreaterSeqAcks = 0
        \/ l.unackedFrags[s].nGreaterSeqAcks < l.seqNumLossThreshold

\* Between two events
Idle(l) ==
    /\ l.out = {}
    /\ NoneLost(l)
    /\ l.isIdleAckTimerRunning => l.isEnabled

\* s is a number that an end in state l has used, and if it stands for a
\* fragment still, then one of got
Heard(l, s, got) ==
    /\ s \in Numbers /\ Order(s) < Used(l)
    /\ s \in Keys(l) => l.unackedFrags[s].frag \in got

Reported(outcome) == outcome \in {"unacked", "acknowledged", "retransmitted"}

LinkNet(n) ==
    LET l == link[n]
        peer == Peer(n)
    IN  /\ \A k \in DOMAIN link[peer].ackQueue : Heard(l, link[peer].ackQueue[k], received[peer])
        /\ \A m \in air : m.to = n => \A k \in DOMAIN m.pkt.acks : Heard(l, m.pkt.acks[k], received[peer])
        /\ \A m \in air : m.to = peer /\ m.pkt.txSeq # Nil => Heard(l, m.pkt.txSeq, {m.pkt.frag})
        /\ \A f \in MyFrags(n) : Reported(l.outcome[f[1]]) => f \in received[peer] \/ Tracks(l, f)

ReliabilityInv ==
    /\ air \in SUBSET [to : Node, pkt : Packets]
    /\ received \in [Node -> SUBSET Frag]
    /\ DOMAIN link = Node
    /\ \A n \in Node : LinkInv(n, link[n]) /\ Idle(link[n]) /\ LinkNet(n)

(***************************************************************************)
(* What a handler does to an end, from l to m                              *)
(***************************************************************************)
\* A sequence of elements of q
Within(c, q) ==
    /\ c \in Seq(Numbers)
    /\ \A k \in DOMAIN c : \E i \in DOMAIN q : c[k] = q[i]

AckSet(l) == {l.ackQueue[k] : k \in DOMAIN l.ackQueue}

\* An LpPacket that an end in state m has sent, with Acks out of queued
Sent(m, queued, pkt) ==
    /\ \A k \in DOMAIN pkt.acks : pkt.acks[k] \in queued
    /\ pkt.txSeq # Nil => Heard(m, pkt.txSeq, {pkt.frag})

SameSetup(l, m) ==
    /\ m.isEnabled = l.isEnabled
    /\ m.seqNumLossThreshold = l.seqNumLossThreshold
    /\ m.isIdleAckTimerRunning = l.isIdleAckTimerRunning

\* sendLpPacket changes nothing but ackQueue and out
OnlySends(l, m) ==
    /\ SameSetup(l, m)
    /\ m.unackedFrags = l.unackedFrags
    /\ m.firstUnackedFrag = l.firstUnackedFrag
    /\ m.lastTxSeqNo = l.lastTxSeqNo
    /\ m.rtoTimers = l.rtoTimers
    /\ m.netPkt = l.netPkt
    /\ m.didRetx = l.didRetx
    /\ m.outcome = l.outcome
    /\ m.acked = l.acked
    /\ m.failed = l.failed

\* The fragments and the window without the numbers S
Deleted(l, m, S) ==
    /\ Keys(m) = Keys(l) \ S
    /\ \A s \in Keys(m) : m.unackedFrags[s] = l.unackedFrags[s]
    /\ m.rtoTimers = l.rtoTimers \ S

\* A fragment after an Ack for s
AckCounted(l, s, t) ==
    [l.unackedFrags[t] EXCEPT !.nGreaterSeqAcks = IF t \in Older(l, s) THEN @ + 1 ELSE @]

\* The fragment s is acknowledged
Acknowledged(l, m, s) ==
    LET p == NetPktOf(l, s)
    IN  /\ Keys(m) = Keys(l) \ {s}
        /\ \A t \in Keys(m) : m.unackedFrags[t] = AckCounted(l, s, t)
        /\ WindowOK(m)
        /\ SameSetup(l, m)
        /\ m.lastTxSeqNo = l.lastTxSeqNo /\ m.rtoTimers = l.rtoTimers \ {s}
        /\ m.ackQueue = l.ackQueue /\ m.out = l.out /\ m.failed = l.failed
        /\ p \in NetPkt
        /\ m.acked = l.acked \cup {s}
        /\ m.netPkt = [l.netPkt EXCEPT ![p] = @ \ {s}]
        /\ \A q \in NetPkt :
              \/ m.outcome[q] = l.outcome[q] /\ (q = p => l.netPkt[p] \ {s} # {})
              \/ /\ q = p /\ l.netPkt[p] \ {s} = {}
                 /\ m.outcome[q] \in {"acknowledged", "retransmitted"}

\* The fragments of the network packet p are tracked under the numbers that follow
NewlyTracked(l, m, p) ==
    LET new == {(l.lastTxSeqNo + i) % SeqRange : i \in 1..FragCount[p]}
    IN  /\ Keys(m) = Keys(l) \cup new
        /\ new \in SUBSET Numbers
        /\ \A s \in Keys(l) : m.unackedFrags[s] = l.unackedFrags[s]
        /\ \A i \in 1..FragCount[p] :
              /\ (l.lastTxSeqNo + i) % SeqRange \in Numbers
              /\ Order((l.lastTxSeqNo + i) % SeqRange) = Used(l) + i - 1
              /\ m.unackedFrags[(l.lastTxSeqNo + i) % SeqRange] = UnackedFrag(<<p, i>>, 0)
        /\ WindowOK(m)
        /\ SameSetup(l, m)
        /\ Used(m) = Used(l) + FragCount[p]
        /\ m.rtoTimers = l.rtoTimers \cup new
        /\ m.netPkt = [l.netPkt EXCEPT ![p] = new]
        /\ m.outcome = [l.outcome EXCEPT ![p] = "unacked"]
        /\ m.acked = l.acked /\ m.ackQueue = l.ackQueue /\ m.out = l.out /\ m.failed = l.failed

\* Numbers go forward: one that l does not use for the same fragment is new
Renamed(l, m) ==
    /\ Used(l) <= Used(m)
    /\ \A s \in Keys(m) :
          \/ s \in Keys(l) /\ m.unackedFrags[s].frag = l.unackedFrags[s].frag
          \/ Order(s) >= Used(l)

\* The counts of the fragments that stay are as before, new ones count from zero
Recounted(l, m) ==
    \A s \in Keys(m) :
        \/ s \in Keys(l) /\ m.unackedFrags[s].nGreaterSeqAcks = l.unackedFrags[s].nGreaterSeqAcks
        \/ m.unackedFrags[s].nGreaterSeqAcks = 0

Passed(l, m) ==
    /\ AckSet(m) \subseteq AckSet(l)
    /\ \A pkt \in m.out : pkt \in l.out \/ Sent(m, AckSet(l), pkt)

\* Only a network packet that is under way comes to its end
Ended(l, m) ==
    \A p \in NetPkt :
        \/ m.outcome[p] = l.outcome[p]
        \/ l.outcome[p] = "unacked" /\ m.outcome[p] # "none"

\* A fragment is tracked until the peer has it or its network packet is given up
Kept(l, m, got) ==
    \A f \in Frag : Tracks(l, f) => Tracks(m, f) \/ m.outcome[f[1]] = "exhausted" \/ f \in got

LessWork(l, m) ==
    /\ Work(m) \subseteq Work(l)
    /\ Keys(m) # Keys(l) => Work(m) # Work(l)

\* Some fragments are gone, the others stay as they are but for their counts
Thinned(l, m) ==
    /\ Keys(m) \subseteq Keys(l)
    /\ \A s \in Keys(m) : /\ m.unackedFrags[s].frag = l.unackedFrags[s].frag
                          /\ m.unackedFrags[s].retxCount = l.unackedFrags[s].retxCount
    /\ m.lastTxSeqNo = l.lastTxSeqNo
    /\ \A s \in m.acked : s \in l.acked \cup Keys(l) /\ s \notin Keys(m)

Moved(l, m, got) ==
    /\ SameSetup(l, m)
    /\ Renamed(l, m)
    /\ Passed(l, m)
    /\ Ended(l, m)
    /\ Kept(l, m, got)
    /\ LessWork(l, m)

\* The loop over lost, which began in state l, has come to the distance d from
\* first: what is lost is removed or still tracked, and no fragment that was
\* removed is tracked under its old number
Resent(n, l, lost, first, d, x) ==
    /\ LinkInv(n, x.l)
    /\ Moved(l, x.l, {})
    /\ Recounted(l, x.l)
    /\ \A t \in x.removed : t \in Numbers /\ Order(t) < Used(x.l) /\ t \notin Keys(x.l)
    /\ lost \subseteq Keys(x.l) \cup x.removed
    /\ \A t \in lost : (t - first) % SeqRange < d => t \in x.removed

\* handleOutgoing has tracked p, and no fragment before it is lost from sight
NowTracked(l, m, p) ==
    /\ m.ackQueue = l.ackQueue /\ m.out = l.out /\ SameSetup(l, m)
    /\ m.outcome = [l.outcome EXCEPT ![p] = "unacked"]
    /\ \A f \in Frag : Tracks(l, f) \/ f[1] = p => Tracks(m, f)
    /\ \A i \in 1..FragCount[p] : Heard(m, (l.lastTxSeqNo + i) % SeqRange, {<<p, i>>})

\* Nothing but the queue of Acks, the options and what is sent changes
Untouched(l, m) ==
    /\ m.unackedFrags = l.unackedFrags
    /\ m.firstUnackedFrag = l.firstUnackedFrag
    /\ m.lastTxSeqNo = l.lastTxSeqNo
    /\ m.rtoTimers = l.rtoTimers
    /\ m.netPkt = l.netPkt
    /\ m.acked = l.acked
    /\ m.failed = l.failed
    /\ \A p \in NetPkt : \/ m.outcome[p] = l.outcome[p]
                         \/ l.outcome[p] = "none" /\ m.outcome[p] = "untracked"

\* What a handler of n makes of link[n], before the packets in m.out are sent
Handled(n, m) ==
    /\ LinkInv(n, m)
    /\ NoneLost(m)
    /\ m.isIdleAckTimerRunning => m.isEnabled
    /\ Renamed(link[n], m)
    /\ LessToDo(link[n], m)
    /\ \A pkt \in m.out : Sent(m, AckSet(link[n]), pkt)
    /\ \A f \in MyFrags(n) : Reported(m.outcome[f[1]]) => f \in received[Peer(n)] \/ Tracks(m, f)

\* A step of the end n
EndStep(n) ==
    /\ DOMAIN link' = Node
    /\ \A k \in Node \ {n} : link'[k] = link[k]
    /\ LinkInv(n, link'[n]) /\ Idle(link'[n])
    /\ Renamed(link[n], link'[n])
    /\ LessToDo(link[n], link'[n])
    /\ \A k \in DOMAIN link'[n].ackQueue :
          \/ link'[n].ackQueue[k] \in AckSet(link[n])
          \/ Heard(link[Peer(n)], link'[n].ackQueue[k], received'[n])
    /\ \A f \in MyFrags(n) :
          Reported(link'[n].outcome[f[1]]) => f \in received[Peer(n)] \/ Tracks(link'[n], f)
    /\ \A a \in air' :
          \/ a \in air
          \/ /\ a \in [to : Node, pkt : Packets] /\ a.to = Peer(n)
             /\ Sent(link'[n], AckSet(link[n]), a.pkt)
    /\ received' \in [Node -> SUBSET Frag]
    /\ \A k \in Node : received[k] \subseteq received'[k]

\* The packet of number s is sent again, as fragment f with number new
Retransmitted(l, m, s, new, f) ==
    /\ m \in Links
    /\ Keys(m) = (Keys(l) \ {s}) \cup {new}
    /\ \A t \in Keys(l) \ {s} : m.unackedFrags[t] = l.unackedFrags[t]
    /\ m.unackedFrags[new] = UnackedFrag(f, l.unackedFrags[s].retxCount + 1)
    /\ WindowOK(m)
    /\ SameSetup(l, m)
    /\ m.lastTxSeqNo = new
    /\ m.rtoTimers = (l.rtoTimers \ {s}) \cup {new}
    /\ m.netPkt = [l.netPkt EXCEPT ![f[1]] = (@ \ {s}) \cup {new}]
    /\ m.outcome = l.outcome /\ m.acked = l.acked /\ m.failed = l.failed
    /\ AckSet(m) \subseteq AckSet(l)
    /\ \A pkt \in m.out :
          \/ pkt \in l.out
          \/ /\ pkt.frag = f /\ pkt.txSeq = new
             /\ \A k \in DOMAIN pkt.acks : pkt.acks[k] \in AckSet(l)
-----------------------------------------------------------------------------
(* Natural numbers *)

\* Every set of natural numbers that is not empty has a least element.
LEMMA LeastElement ==
    ASSUME NEW T \in SUBSET Nat, T # {}
    PROVE  \E m \in T : \A k \in T : m <= k
<1> DEFINE R == {ss \in Nat \X Nat : ss[1] < ss[2]}
<1>1. IsWellFoundedOn(R, Nat)
  BY NatLessThanWellFounded DEF OpToRel
<1>2. PICK m \in T : \A k \in T : ~(<<k, m>> \in R)
  <2> HIDE DEF R
  <2> QED BY <1>1, WFMin
<1>3. ASSUME NEW k \in T PROVE m <= k
  <2>1. <<k, m>> \in Nat \X Nat /\ <<k, m>>[1] = k /\ <<k, m>>[2] = m
    OBVIOUS
  <2>2. ~(k < m)
    BY <1>2, <2>1
  <2> QED BY <2>2, SMTT(30)
<1> QED BY <1>3

\* Induction: a set that holds 0, and the successor of what it holds, holds
\* every natural number.
LEMMA SetInduction ==
    ASSUME NEW S, 0 \in S, \A k \in Nat : k \in S => k + 1 \in S
    PROVE  Nat \subseteq S
<1> SUFFICES ASSUME Nat \ S # {} PROVE FALSE
  OBVIOUS
<1>1. PICK m \in Nat \ S : \A k \in Nat \ S : m <= k
  BY LeastElement
<1>2. m # 0 /\ m - 1 \in Nat
  BY <1>1, SMTT(30)
<1>3. m - 1 \in S
  BY <1>1, <1>2, SMTT(30)
<1> QED BY <1>1, <1>2, <1>3, SMTT(30)
-----------------------------------------------------------------------------
(* TxSequence numbers *)

\* Remainders of numbers that are at most one range off
LEMMA Remainder ==
    ASSUME NEW x \in Int
    PROVE  /\ x % SeqRange \in Numbers
           /\ x \in Numbers => x % SeqRange = x
           /\ x \in SeqRange..(2 * SeqRange - 1) => x % SeqRange = x - SeqRange
           /\ x \in (-SeqRange)..(-1) => x % SeqRange = x + SeqRange
BY ConstantTypes, SMTT(30) DEF Numbers

\* The order of the numbers starts after LastTxSeqNo and wraps around
LEMMA OrderIs ==
    ASSUME NEW s \in Numbers
    PROVE  /\ Order(s) \in Numbers
           /\ s > LastTxSeqNo => Order(s) = s - LastTxSeqNo - 1
           /\ s <= LastTxSeqNo => Order(s) = s - LastTxSeqNo - 1 + SeqRange
<1>1. LastTxSeqNo \in Numbers /\ SeqRange \in Nat \ {0}
  BY ConstantTypes DEF Numbers
<1>2. s - LastTxSeqNo - 1 \in Int
  BY <1>1, SMTT(30) DEF Numbers
<1> QED
  BY <1>1, <1>2, Remainder, SMTT(30) DEF Order, Numbers

\* How many sequence numbers a link has used, without the modulus: the counter wraps at most
\* once.
LEMMA UsedIs ==
    ASSUME NEW l, l.lastTxSeqNo \in Numbers
    PROVE  /\ Used(l) \in Numbers
           /\ l.lastTxSeqNo >= LastTxSeqNo => Used(l) = l.lastTxSeqNo - LastTxSeqNo
           /\ l.lastTxSeqNo < LastTxSeqNo => Used(l) = l.lastTxSeqNo - LastTxSeqNo + SeqRange
<1>1. LastTxSeqNo \in Numbers /\ SeqRange \in Nat \ {0}
  BY ConstantTypes DEF Numbers
<1>2. l.lastTxSeqNo - LastTxSeqNo \in Int
  BY <1>1, SMTT(30) DEF Numbers
<1> QED
  BY <1>1, <1>2, Remainder, SMTT(30) DEF Used, Numbers

\* Different sequence numbers have different places in the order of use.
LEMMA OrderInjective ==
    ASSUME NEW s \in Numbers, NEW t \in Numbers, Order(s) = Order(t)
    PROVE  s = t
<1>1. LastTxSeqNo \in Numbers /\ SeqRange \in Nat \ {0}
  BY ConstantTypes DEF Numbers
<1> QED
  BY <1>1, OrderIs, SMTT(30) DEF Numbers

\* The i-th number that follows
LEMMA NumberAfter ==
    ASSUME NEW l, l.lastTxSeqNo \in Numbers, NEW i \in Nat \ {0}, Used(l) + i < SeqRange
    PROVE  /\ (l.lastTxSeqNo + i) % SeqRange \in Numbers
           /\ Order((l.lastTxSeqNo + i) % SeqRange) = Used(l) + i - 1
           /\ (((l.lastTxSeqNo + i) % SeqRange) - LastTxSeqNo) % SeqRange = Used(l) + i
           /\ (((l.lastTxSeqNo + i) % SeqRange) - l.lastTxSeqNo) % SeqRange = i
<1> DEFINE a == l.lastTxSeqNo
           s == (a + i) % SeqRange
<1>1. LastTxSeqNo \in Numbers /\ SeqRange \in Nat \ {0} /\ a \in Numbers
  BY ConstantTypes DEF Numbers
<1>2. /\ Used(l) \in Numbers
      /\ a >= LastTxSeqNo => Used(l) = a - LastTxSeqNo
      /\ a < LastTxSeqNo => Used(l) = a - LastTxSeqNo + SeqRange
  BY UsedIs
<1>3. i < SeqRange
  BY <1>1, <1>2, SMTT(30) DEF Numbers
<1>4. a + i \in Int
  BY <1>1, SMTT(30) DEF Numbers
<1>5. /\ s \in Numbers
      /\ a + i < SeqRange => s = a + i
      /\ a + i >= SeqRange => s = a + i - SeqRange
  <2> DEFINE x == a + i
             r == x % SeqRange
  <2>1. x \in Int
    BY <1>4
  <2>2. /\ r \in Numbers
        /\ x \in Numbers => r = x
        /\ x \in SeqRange..(2 * SeqRange - 1) => r = x - SeqRange
    <3> HIDE DEF x
    <3> QED
      BY <2>1, Remainder
  <2> HIDE DEF r
  <2>3. /\ r \in Numbers
        /\ a + i < SeqRange => r = a + i
        /\ a + i >= SeqRange => r = a + i - SeqRange
    BY <1>1, <1>3, <2>2, SMTT(30) DEF Numbers
  <2> QED
    BY <2>3 DEF r
<1> HIDE DEF s
<1>6. Order(s) = Used(l) + i - 1
  BY <1>1, <1>2, <1>3, <1>5, OrderIs, SMTT(30) DEF Numbers
<1>7. s - LastTxSeqNo \in Int /\ s - a \in Int
  BY <1>1, <1>5, SMTT(30) DEF Numbers
<1>8. (s - LastTxSeqNo) % SeqRange = Used(l) + i
  <2> DEFINE x == s - LastTxSeqNo
             r == x % SeqRange
  <2>1. /\ r \in Numbers
        /\ x \in Numbers => r = x
        /\ x \in (-SeqRange)..(-1) => r = x + SeqRange
    BY <1>7, Remainder
  <2> HIDE DEF r
  <2>2. r = Used(l) + i
    BY <1>1, <1>2, <1>3, <1>5, <2>1, SMTT(30) DEF Numbers
  <2> QED
    BY <2>2 DEF r
<1>9. (s - a) % SeqRange = i
  <2> DEFINE x == s - a
             r == x % SeqRange
  <2>1. /\ r \in Numbers
        /\ x \in Numbers => r = x
        /\ x \in (-SeqRange)..(-1) => r = x + SeqRange
    BY <1>7, Remainder
  <2> HIDE DEF r
  <2>2. r = i
    BY <1>1, <1>3, <1>5, <2>1, SMTT(30) DEF Numbers
  <2> QED
    BY <2>2 DEF r
<1> QED
  BY <1>5, <1>6, <1>8, <1>9 DEF s

\* The distance from the start of the window is the difference in the order
LEMMA DistanceIs ==
    ASSUME NEW s \in Numbers, NEW t \in Numbers, Order(t) >= Order(s)
    PROVE  (t - s) % SeqRange = Order(t) - Order(s)
<1>1. LastTxSeqNo \in Numbers /\ SeqRange \in Nat \ {0}
  BY ConstantTypes DEF Numbers
<1>2. t - s \in Int
  BY SMTT(30) DEF Numbers
<1> DEFINE x == t - s
           r == x % SeqRange
<1>3. /\ r \in Numbers
      /\ x \in Numbers => r = x
      /\ x \in (-SeqRange)..(-1) => r = x + SeqRange
  BY <1>2, Remainder
<1> HIDE DEF r
<1>4. r = Order(t) - Order(s)
  BY <1>1, <1>3, OrderIs, SMTT(30) DEF Numbers
<1> QED
  BY <1>4 DEF r

\* A nonempty set of numbers has a least element, which is what Least finds
LEMMA LeastIs ==
    ASSUME NEW K \in SUBSET Numbers, K # {}
    PROVE  Least(K) \in K /\ \A t \in K : Least(K) <= t
<1>1. K \in SUBSET Nat
  BY ConstantTypes, SMTT(30) DEF Numbers
<1>2. PICK x \in K : \A t \in K : x <= t
  BY <1>1, LeastElement
<1> QED
  BY <1>2 DEF Least

\* Deleting the numbers S from the window that starts at first
LEMMA WindowMoves ==
    ASSUME NEW K \in SUBSET Numbers, NEW first \in K, \A t \in K : Order(first) <= Order(t),
           NEW S, K \ S # {},
           NEW f, f = (IF first \in S THEN NextFrag(K \ S, first) ELSE first)
    PROVE  f \in K \ S /\ \A t \in K \ S : Order(f) <= Order(t)
<1>1. LastTxSeqNo \in Numbers /\ SeqRange \in Nat \ {0} /\ first \in Numbers
  BY ConstantTypes DEF Numbers
<1>2. CASE first \notin S
  BY <1>2
<1>3. CASE first \in S
  <2> DEFINE after == {t \in K \ S : t > first}
  <2>1. \A t \in K \ S : t \in Numbers /\ Order(first) < Order(t)
    BY <1>1, <1>3, OrderInjective, OrderIs, SMTT(30) DEF Numbers
  <2>2. CASE after # {}
    <3>1. f = Least(after)
      BY <1>3, <2>2 DEF NextFrag
    <3>2. f \in after /\ \A t \in after : f <= t
      BY <2>2, <3>1, LeastIs
    <3>3. ASSUME NEW t \in K \ S PROVE Order(f) <= Order(t)
      <4>1. t \in Numbers /\ f \in Numbers /\ Order(first) < Order(t) /\ Order(first) < Order(f)
        BY <2>1, <3>2
      <4>2. f > first /\ (t > first => f <= t)
        BY <3>2
      <4> QED
        BY <1>1, <4>1, <4>2, OrderIs, SMTT(30) DEF Numbers
    <3> QED
      BY <3>2, <3>3
  <2>3. CASE after = {}
    <3>1. f = Least(K \ S)
      BY <1>3, <2>3 DEF NextFrag
    <3>2. f \in K \ S /\ \A t \in K \ S : f <= t /\ ~(t > first)
      BY <2>3, <3>1, LeastIs
    <3>3. ASSUME NEW t \in K \ S PROVE Order(f) <= Order(t)
      <4>1. t \in Numbers /\ f \in Numbers /\ Order(first) < Order(t) /\ Order(first) < Order(f)
        BY <2>1, <3>2
      <4>2. f <= t /\ ~(t > first) /\ ~(f > first)
        BY <3>2
      <4> QED
        BY <1>1, <4>1, <4>2, OrderIs, SMTT(30) DEF Numbers
    <3> QED
      BY <3>2, <3>3
  <2> QED
    BY <2>2, <2>3
<1> QED
  BY <1>2, <1>3
-----------------------------------------------------------------------------
(* Fragments and transmissions *)

\* A fragment is a pair of a packet and an index within the packet's fragment count.
LEMMA FragIs ==
    ASSUME NEW f \in Frag
    PROVE  f[1] \in NetPkt /\ f[2] \in 1..FragCount[f[1]] /\ f = <<f[1], f[2]>>
BY SMTT(30) DEF Frag

\* The converse: such a pair is a fragment.
LEMMA IsFrag ==
    ASSUME NEW p \in NetPkt, NEW i \in 1..FragCount[p]
    PROVE  <<p, i>> \in Frag
BY SMTT(30) DEF Frag

\* There are finitely many fragments.
LEMMA FragFinite == IsFiniteSet(Frag)
<1> DEFINE Of == [p \in NetPkt |-> {p} \X (1..FragCount[p])]
           S == {{p} \X (1..FragCount[p]) : p \in NetPkt}
<1>1. Of \in Surjection(NetPkt, S)
  BY DEF Surjection
<1>2. IsFiniteSet(S)
  <2> HIDE DEF Of, S
  <2> QED
    BY <1>1, ConstantTypes, FS_Surjection
<1>3. ASSUME NEW T \in S PROVE IsFiniteSet(T)
  <2>1. PICK p \in NetPkt : T = {p} \X (1..FragCount[p])
    OBVIOUS
  <2>2. IsFiniteSet({p})
    BY FS_Singleton
  <2>3. IsFiniteSet(1..FragCount[p])
    BY FS_Interval, ConstantTypes, SMTT(30)
  <2> QED
    BY <2>1, <2>2, <2>3, FS_Product
<1>4. Frag = UNION S
  BY DEF Frag
<1> HIDE DEF S
<1> QED
  BY <1>2, <1>3, <1>4, FS_UNION

\* The transmissions T, which are not spent yet, have numbers left, and an end
\* that has spent them as well may have used one number for each
LEMMA SpendMore ==
    ASSUME NEW n \in Node, NEW l, Used(l) <= Cardinality(Spent(n, l)), Used(l) \in Int,
           NEW T \in SUBSET (MyFrags(n) \X (0..maxRetx)), T \cap Spent(n, l) = {}
    PROVE  /\ Cardinality(T) \in Nat
           /\ Used(l) + Cardinality(T) < SeqRange
           /\ \A m : (Spent(n, l) \cup T) \subseteq Spent(n, m) =>
                        Used(l) + Cardinality(T) <= Cardinality(Spent(n, m))
<1> DEFINE Every == MyFrags(n) \X (0..maxRetx)
           A == Spent(n, l)
<1>1. IsFiniteSet(MyFrags(n)) /\ Cardinality(MyFrags(n)) \in Nat
  <2>1. MyFrags(n) \subseteq Frag
    BY DEF MyFrags
  <2> QED
    BY <2>1, FragFinite, FS_Subset, FS_CardinalityType
<1>2. IsFiniteSet(0..maxRetx) /\ Cardinality(0..maxRetx) = maxRetx + 1
  <2>1. 0 \in Int /\ maxRetx \in Int /\ ~(0 > maxRetx) /\ maxRetx - 0 + 1 = maxRetx + 1
    BY ConstantTypes, SMTT(30)
  <2>2. /\ IsFiniteSet(0..maxRetx)
        /\ Cardinality(0..maxRetx) = IF 0 > maxRetx THEN 0 ELSE maxRetx - 0 + 1
    BY <2>1, FS_Interval
  <2> QED
    BY <2>1, <2>2
<1>3. IsFiniteSet(Every) /\ Cardinality(Every) = MaxTx(n)
  BY <1>1, <1>2, FS_Product DEF MaxTx, MyFrags
<1>4. \A m : Spent(n, m) \subseteq Every
  BY DEF Spent
<1>5. A \cup T \subseteq Every
  BY <1>4
<1>6. MaxTx(n) < SeqRange
  BY RunIsShort
<1> HIDE DEF Every, A
<1>7. IsFiniteSet(T) /\ IsFiniteSet(A)
  BY <1>3, <1>5, FS_Subset
<1>8. Cardinality(T) \in Nat /\ Cardinality(A) \in Nat
  BY <1>7, FS_CardinalityType
<1>9. Cardinality(A \cup T) = Cardinality(A) + Cardinality(T)
  <2>1. A \cap T = {}
    BY DEF A
  <2> QED
    BY <1>7, <1>8, <2>1, FS_Union, FS_EmptySet, SMTT(30)
<1>10. Cardinality(A \cup T) <= Cardinality(Every) /\ Cardinality(Every) \in Nat
  BY <1>3, <1>5, FS_Subset, FS_CardinalityType
<1>11. Used(l) <= Cardinality(A)
  BY DEF A
<1>12. SeqRange \in Nat
  BY ConstantTypes
<1>13. Used(l) + Cardinality(T) < SeqRange
  BY <1>3, <1>6, <1>8, <1>9, <1>10, <1>11, <1>12, SMTT(30)
<1>14. ASSUME NEW m, (A \cup T) \subseteq Spent(n, m)
       PROVE  Used(l) + Cardinality(T) <= Cardinality(Spent(n, m))
  <2>1. IsFiniteSet(Spent(n, m))
    BY <1>3, <1>4, FS_Subset
  <2>2. Cardinality(A \cup T) <= Cardinality(Spent(n, m)) /\ Cardinality(Spent(n, m)) \in Nat
    BY <1>14, <2>1, FS_Subset, FS_CardinalityType
  <2> QED
    BY <1>8, <1>9, <1>11, <2>2, SMTT(30)
<1> QED
  BY <1>8, <1>13, <1>14 DEF A

\* As long as no transmission is taken back
LEMMA SpendNone ==
    ASSUME NEW n \in Node, NEW l, NEW m, Used(l) <= Cardinality(Spent(n, l)), Used(l) \in Int,
           Used(m) = Used(l), Spent(n, l) \subseteq Spent(n, m)
    PROVE  Used(m) <= Cardinality(Spent(n, m))
<1>1. Cardinality({}) = 0
  BY FS_EmptySet
<1>2. {} \in SUBSET (MyFrags(n) \X (0..maxRetx)) /\ {} \cap Spent(n, l) = {}
  OBVIOUS
<1>3. (Spent(n, l) \cup {}) \subseteq Spent(n, m)
  OBVIOUS
<1>4. Used(l) + Cardinality({}) <= Cardinality(Spent(n, m))
  BY <1>2, <1>3, SpendMore
<1> QED
  BY <1>1, <1>4, SMTT(30)
-----------------------------------------------------------------------------
(* What the operators do to an end *)

\* A part of an ack queue holds only numbers of the queue.
LEMMA PartOf ==
    ASSUME NEW q \in Seq(Numbers), NEW a \in Nat, NEW b \in Nat, b <= Len(q)
    PROVE  Within(SubSeq(q, a + 1, b), q)
<1> DEFINE c == SubSeq(q, a + 1, b)
<1>1. c \in Seq(Numbers)
  BY SMTT(30)
<1>2. Len(c) = IF a + 1 <= b THEN b - a ELSE 0
  BY SMTT(30)
<1>3. ASSUME NEW k \in DOMAIN c PROVE a + k \in DOMAIN q /\ c[k] = q[a + k]
  <2>1. k \in 1..Len(c)
    BY <1>1, SMTT(30)
  <2>2. k \in Nat /\ k >= 1 /\ a + 1 <= b /\ k <= b - a
    BY <1>1, <1>2, <2>1, SMTT(30)
  <2> QED
    BY <2>2, SMTT(30)
<1> QED
  BY <1>1, <1>3 DEF Within

\* The acks that piggyback puts on one packet come from the ack queue.
LEMMA ChunkIs ==
    ASSUME NEW q \in Seq(Numbers), NEW j \in Nat \ {0}, NEW room \in Nat
    PROVE  Within(Chunk(q, j, room), q)
<1> DEFINE a == (j - 1) * room
           b == Min2(j * room, Len(q))
<1>1. a \in Nat /\ j * room \in Nat
  BY SMTT(30)
<1>2. b \in Nat /\ b <= Len(q)
  BY <1>1, SMTT(30) DEF Min2
<1>3. Chunk(q, j, room) = SubSeq(q, a + 1, b)
  BY DEF Chunk
<1> HIDE DEF a, b
<1> QED
  BY <1>1, <1>2, <1>3, PartOf

\* Sending a batch changes only the ack queue and what is sent: each packet sent is one of the
\* batch, with acks of the queue.
LEMMA SendLpPacketsDoes ==
    ASSUME NEW l \in Links,
           NEW pkts \in Seq([frag : Frag, txSeq : Numbers \cup {Nil}]),
           NEW m, m = SendLpPackets(l, pkts)
    PROVE  /\ m \in Links
           /\ OnlySends(l, m)
           /\ AckSet(m) \subseteq AckSet(l)
           /\ \A pkt \in m.out :
                 \/ pkt \in l.out
                 \/ /\ \E j \in DOMAIN pkts : pkt.frag = pkts[j].frag /\ pkt.txSeq = pkts[j].txSeq
                    /\ \A k \in DOMAIN pkt.acks : pkt.acks[k] \in AckSet(l)
<1> DEFINE room == IF l.isEnabled THEN FragRoom ELSE 0
           q == l.ackQueue
           rest == SubSeq(q, Len(pkts) * room + 1, Len(q))
           new == {[frag |-> pkts[j].frag, txSeq |-> pkts[j].txSeq,
                    acks |-> Chunk(q, j, room)] : j \in DOMAIN pkts}
<1>1. room \in Nat /\ q \in Seq(Numbers)
  BY ConstantTypes DEF Links
<1>2. Within(rest, q)
  <2> DEFINE a == Len(pkts) * room
  <2>1. a \in Nat /\ Len(q) \in Nat /\ Len(q) <= Len(q)
    BY <1>1, SMTT(30)
  <2> HIDE DEF a, room, q
  <2>2. Within(SubSeq(q, a + 1, Len(q)), q)
    BY <1>1, <2>1, PartOf
  <2> QED
    BY <2>2 DEF a
<1>3. ASSUME NEW j \in DOMAIN pkts
      PROVE  Within(Chunk(q, j, room), q)
  <2>1. j \in Nat \ {0}
    BY SMTT(30)
  <2> HIDE DEF room, q
  <2> QED
    BY <1>1, <2>1, ChunkIs
<1>4. m = [l EXCEPT !.ackQueue = rest, !.out = @ \cup new]
  BY DEF SendLpPackets
<1>5. new \subseteq Packets
  <2> HIDE DEF room
  <2>1. ASSUME NEW j \in DOMAIN pkts
        PROVE  [frag |-> pkts[j].frag, txSeq |-> pkts[j].txSeq, acks |-> Chunk(q, j, room)] \in Packets
    <3>1. \A S : \A sq \in Seq(S) : \A i \in DOMAIN sq : sq[i] \in S
      BY SMTT(30)
    <3>2. pkts[j] \in [frag : Frag, txSeq : Numbers \cup {Nil}]
      BY <3>1
    <3>3. Chunk(q, j, room) \in Seq(Numbers)
      BY <1>3 DEF Within
    <3> QED
      BY <3>2, <3>3 DEF Packets
  <2> QED
    BY <2>1
<1>6. \A pkt \in new :
         /\ \E j \in DOMAIN pkts : pkt.frag = pkts[j].frag /\ pkt.txSeq = pkts[j].txSeq
         /\ \A k \in DOMAIN pkt.acks : pkt.acks[k] \in AckSet(l)
  <2> HIDE DEF room
  <2>1. ASSUME NEW j \in DOMAIN pkts, NEW k \in DOMAIN Chunk(q, j, room)
        PROVE  Chunk(q, j, room)[k] \in AckSet(l)
    BY <1>3 DEF AckSet, Within
  <2> QED
    BY <2>1, SMTT(30)
<1> HIDE DEF room, rest, new
<1>7. m \in Links
  BY <1>2, <1>4, <1>5 DEF Links, Within
<1>8. OnlySends(l, m) /\ m.ackQueue = rest /\ m.out = l.out \cup new
  BY <1>4 DEF Links, OnlySends, SameSetup
<1>9. AckSet(m) \subseteq AckSet(l)
  BY <1>2, <1>8, SMTT(30) DEF AckSet, Within
<1> QED
  BY <1>6, <1>7, <1>8, <1>9

\* Fields of an end that the proofs keep using
LEMMA LinkFields ==
    ASSUME NEW l \in Links
    PROVE  /\ l.lastTxSeqNo \in Numbers
           /\ Keys(l) \in SUBSET Numbers
           /\ \A s \in Keys(l) : l.unackedFrags[s] \in UnackedFrags
           /\ \A s \in Keys(l) : l.unackedFrags[s].frag \in Frag /\ NetPktOf(l, s) \in NetPkt
           /\ l.netPkt \in [NetPkt -> SUBSET Numbers]
           /\ l.outcome \in [NetPkt -> Outcome]
           /\ l.acked \in SUBSET Numbers
           /\ Used(l) \in Numbers
<1>1. PICK K \in SUBSET Numbers : l.unackedFrags \in [K -> UnackedFrags]
  BY DEF Links, FragMaps
<1>2. Keys(l) = K
  BY <1>1 DEF Keys
<1>3. \A s \in Keys(l) : l.unackedFrags[s] \in UnackedFrags
  BY <1>1, <1>2
<1>4. \A s \in Keys(l) : l.unackedFrags[s].frag \in Frag /\ NetPktOf(l, s) \in NetPkt
  BY <1>3, FragIs DEF UnackedFrags, NetPktOf
<1>5. l.lastTxSeqNo \in Numbers
  BY DEF Links
<1>6. Used(l) \in Numbers
  BY <1>5, UsedIs
<1> QED
  BY <1>2, <1>3, <1>4, <1>5, <1>6 DEF Links

\* A map of fragments is one of an end
LEMMA MapOfFrags ==
    ASSUME NEW K \in SUBSET Numbers, NEW g \in [K -> UnackedFrags]
    PROVE  g \in FragMaps
BY DEF FragMaps

\* Whatever an end has numbered has a place in the order of use
LEMMA OrdersAre ==
    ASSUME NEW l \in Links
    PROVE  /\ Used(l) \in Int /\ Used(l) \in Nat
           /\ \A s \in Keys(l) : Order(s) \in Int
           /\ \A s \in l.acked : Order(s) \in Int
<1>1. Keys(l) \subseteq Numbers /\ l.acked \subseteq Numbers /\ Used(l) \in Numbers
  BY LinkFields
<1>2. \A s \in Numbers : Order(s) \in Numbers
  BY OrderIs
<1>3. Numbers \subseteq Int /\ Numbers \subseteq Nat
  BY SMTT(30) DEF Numbers
<1> QED
  BY <1>1, <1>2, <1>3

\* What FragsOK says of the fragments waiting for an ack and of the numbers already
\* acknowledged.
LEMMA FragsAre ==
    ASSUME NEW n, NEW l \in Links, FragsOK(n, l)
    PROVE  /\ \A s \in Keys(l) : /\ Order(s) < Used(l) /\ Order(s) \in Int
                                 /\ l.unackedFrags[s].frag \in MyFrags(n)
           /\ \A s \in l.acked : Order(s) < Used(l) /\ Order(s) \in Int /\ s \notin Keys(l)
BY OrdersAre DEF FragsOK

\* deleteUnackedFrag: the start of the window stays the oldest fragment
LEMMA DeleteDoes ==
    ASSUME NEW l \in Links, NEW S, S \subseteq Keys(l), Keys(l) # {}, WindowOK(l),
           NEW m, m = deleteUnackedFrags(l, S)
    PROVE  /\ m \in Links
           /\ Deleted(l, m, S)
           /\ WindowOK(m)
           /\ SameSetup(l, m)
           /\ m.lastTxSeqNo = l.lastTxSeqNo /\ m.netPkt = l.netPkt /\ m.didRetx = l.didRetx
           /\ m.outcome = l.outcome /\ m.ackQueue = l.ackQueue /\ m.acked = l.acked
           /\ m.out = l.out /\ m.failed = l.failed
<1> DEFINE rest == Keys(l) \ S
           map == [s \in rest |-> l.unackedFrags[s]]
           first == IF rest = {} THEN Nil
                    ELSE IF l.firstUnackedFrag \in S THEN NextFrag(rest, l.firstUnackedFrag)
                    ELSE l.firstUnackedFrag
           fails == l.failed \/ (S \cup {l.firstUnackedFrag}) \ Keys(l) # {}
<1>1. /\ l.firstUnackedFrag \in Keys(l) /\ Keys(l) \in SUBSET Numbers
      /\ \A t \in Keys(l) : Order(l.firstUnackedFrag) <= Order(t)
  BY LinkFields DEF WindowOK
<1>2. rest # {} => first \in rest /\ \A t \in rest : Order(first) <= Order(t)
  <2> DEFINE K == Keys(l)
             a == l.firstUnackedFrag
  <2>1. /\ a \in K /\ K \in SUBSET Numbers
        /\ \A t \in K : Order(a) <= Order(t)
    BY <1>1
  <2>2. HAVE rest # {}
  <2>3. K \ S # {} /\ first = IF a \in S THEN NextFrag(K \ S, a) ELSE a
    BY <2>2
  <2> HIDE DEF K, a, first
  <2>4. first \in K \ S /\ \A t \in K \ S : Order(first) <= Order(t)
    BY <2>1, <2>3, WindowMoves, SMTT(30)
  <2> QED
    BY <2>4 DEF K
<1>3. map \in FragMaps
  <2>1. rest \in SUBSET Numbers /\ map \in [rest -> UnackedFrags]
    BY <1>1, LinkFields
  <2> QED
    BY <2>1, MapOfFrags
<1>4. first \in Numbers \cup {Nil}
  BY <1>1, <1>2
<1>5. fails = l.failed
  <2>1. (S \cup {l.firstUnackedFrag}) \ Keys(l) = {} /\ l.failed \in BOOLEAN
    BY <1>1 DEF Links
  <2> QED
    BY <2>1
<1>6. m = [l EXCEPT !.unackedFrags = map, !.rtoTimers = @ \ S, !.firstUnackedFrag = first,
                    !.failed = fails]
  BY DEF deleteUnackedFrags
<1>7. DOMAIN map = rest /\ \A s \in rest : map[s] = l.unackedFrags[s]
  OBVIOUS
<1> HIDE DEF map, first, fails
<1>8. m \in Links
  <2> DEFINE timers == l.rtoTimers \ S
             starts == Numbers \cup {Nil}
  <2>1. timers \in SUBSET Numbers /\ fails \in BOOLEAN
    BY <1>5 DEF Links
  <2>2. m = [l EXCEPT !.unackedFrags = map, !.rtoTimers = timers, !.firstUnackedFrag = first,
                      !.failed = fails]
    BY <1>6
  <2>3. first \in starts
    BY <1>4
  <2> HIDE DEF timers
  <2> QED
    BY <1>3, <2>1, <2>2, <2>3 DEF Links
<1>9. m.unackedFrags = map /\ m.rtoTimers = l.rtoTimers \ S /\ m.firstUnackedFrag = first
  BY <1>6 DEF Links
<1>10. /\ SameSetup(l, m)
       /\ m.lastTxSeqNo = l.lastTxSeqNo /\ m.netPkt = l.netPkt /\ m.didRetx = l.didRetx
       /\ m.outcome = l.outcome /\ m.ackQueue = l.ackQueue /\ m.acked = l.acked
       /\ m.out = l.out /\ m.failed = l.failed
  BY <1>5, <1>6 DEF Links, SameSetup
<1>11. Deleted(l, m, S)
  BY <1>7, <1>9 DEF Deleted, Keys
<1>12. WindowOK(m)
  <2>1. Keys(m) = rest
    BY <1>11 DEF Deleted
  <2>2. rest = {} => first = Nil
    BY DEF first
  <2> QED
    BY <1>2, <1>9, <2>1, <2>2 DEF WindowOK
<1> QED
  BY <1>8, <1>10, <1>11, <1>12

\* Giving up a network packet deletes all its fragments
LEMMA GiveUpDoes ==
    ASSUME NEW l \in Links, NEW s \in Keys(l), WindowOK(l), ListsOK(l),
           NEW m, m = GiveUp(l, s), NEW p, p = NetPktOf(l, s)
    PROVE  /\ m \in Links
           /\ Deleted(l, m, {t \in Keys(l) : NetPktOf(l, t) = p})
           /\ WindowOK(m)
           /\ SameSetup(l, m)
           /\ m.lastTxSeqNo = l.lastTxSeqNo /\ m.ackQueue = l.ackQueue /\ m.acked = l.acked
           /\ m.out = l.out /\ m.failed = l.failed
           /\ p \in NetPkt
           /\ m.netPkt = [l.netPkt EXCEPT ![p] = {}]
           /\ m.outcome = [l.outcome EXCEPT ![p] = "exhausted"]
<1> DEFINE S == {t \in Keys(l) : NetPktOf(l, t) = p}
           d == deleteUnackedFrags(l, S)
<1>1. p \in NetPkt
  BY LinkFields
<1>2. l.netPkt[p] \cup {s} = S
  BY <1>1 DEF ListsOK
<1>3. S \subseteq Keys(l) /\ Keys(l) # {}
  OBVIOUS
<1>4. m = [d EXCEPT !.netPkt[p] = {}, !.outcome[p] = "exhausted"]
  BY <1>2 DEF GiveUp
<1> HIDE DEF S, d
<1>5. /\ d \in Links
      /\ Deleted(l, d, S)
      /\ WindowOK(d)
      /\ SameSetup(l, d)
      /\ d.lastTxSeqNo = l.lastTxSeqNo /\ d.netPkt = l.netPkt
      /\ d.outcome = l.outcome /\ d.ackQueue = l.ackQueue /\ d.acked = l.acked
      /\ d.out = l.out /\ d.failed = l.failed
  BY <1>3, DeleteDoes, SMTT(30) DEF d
<1>6. m \in Links
  <2> DEFINE np == [d.netPkt EXCEPT ![p] = {}]
             oc == [d.outcome EXCEPT ![p] = "exhausted"]
  <2>1. np \in [NetPkt -> SUBSET Numbers] /\ oc \in [NetPkt -> Outcome]
    BY <1>1, <1>5, LinkFields DEF Outcome
  <2>2. m = [d EXCEPT !.netPkt = np, !.outcome = oc]
    BY <1>4
  <2> HIDE DEF np, oc
  <2> QED
    BY <1>5, <2>1, <2>2 DEF Links
<1>7. /\ m.unackedFrags = d.unackedFrags /\ m.firstUnackedFrag = d.firstUnackedFrag
      /\ m.rtoTimers = d.rtoTimers /\ SameSetup(d, m)
      /\ m.lastTxSeqNo = d.lastTxSeqNo /\ m.ackQueue = d.ackQueue /\ m.acked = d.acked
      /\ m.out = d.out /\ m.failed = d.failed
      /\ m.netPkt = [d.netPkt EXCEPT ![p] = {}]
      /\ m.outcome = [d.outcome EXCEPT ![p] = "exhausted"]
  BY <1>4, <1>5 DEF Links, SameSetup
<1>8. Deleted(l, m, S) /\ WindowOK(m)
  BY <1>5, <1>7 DEF Deleted, WindowOK, Keys
<1>9. SameSetup(l, m)
  BY <1>5, <1>7 DEF SameSetup
<1> QED
  BY <1>1, <1>5, <1>6, <1>7, <1>8, <1>9 DEF S

\* A retransmission has a number of its own, and its fragment is the youngest
LEMMA RetransmitDoes ==
    ASSUME NEW l \in Links, NEW s \in Keys(l), WindowOK(l),
           l.unackedFrags[s].retxCount < maxRetx,
           NEW new, new = (l.lastTxSeqNo + 1) % SeqRange, new \in Numbers, new \notin Keys(l),
           \A t \in Keys(l) : Order(t) <= Order(new),
           NEW m, m = Retransmit(l, s), NEW f, f = l.unackedFrags[s].frag
    PROVE  Retransmitted(l, m, s, new, f)
<1> DEFINE again == UnackedFrag(f, l.unackedFrags[s].retxCount + 1)
           map == Emplaced(l.unackedFrags, [t \in {new} |-> again])
           np == [l.netPkt EXCEPT ![f[1]] = (@ \ {s}) \cup {new}]
           retx == l.didRetx \cup {f[1]}
           fails == l.failed \/ (Keys(l) # {} /\ new = l.firstUnackedFrag)
           moved == [l EXCEPT !.unackedFrags = map, !.lastTxSeqNo = new, !.netPkt = np,
                              !.didRetx = retx, !.failed = fails]
           d == deleteUnackedFrags(moved, {s})
           pkts == <<[frag |-> f, txSeq |-> new]>>
           sent == SendLpPackets(d, pkts)
<1>1. f \in Frag /\ f[1] \in NetPkt /\ again \in UnackedFrags
  <2>1. l.unackedFrags[s] \in UnackedFrags
    BY LinkFields
  <2>2. f \in Frag /\ l.unackedFrags[s].retxCount + 1 \in 0..maxRetx
    BY <2>1, ConstantTypes, SMTT(30) DEF UnackedFrags
  <2> QED
    BY <2>2, FragIs DEF UnackedFrag, UnackedFrags
<1>2. /\ DOMAIN map = Keys(l) \cup {new} /\ map[new] = again
      /\ \A t \in Keys(l) : map[t] = l.unackedFrags[t]
  <2> HIDE DEF again
  <2> QED
    BY DEF Emplaced, Keys
<1>3. map \in FragMaps
  <2>1. DOMAIN map \in SUBSET Numbers
    BY <1>2, LinkFields
  <2>2. map = [t \in DOMAIN map |-> map[t]]
    BY DEF Emplaced
  <2>3. \A t \in DOMAIN map : map[t] \in UnackedFrags
    BY <1>1, <1>2, LinkFields
  <2> HIDE DEF map
  <2>4. map \in [DOMAIN map -> UnackedFrags]
    BY <2>2, <2>3
  <2> QED
    BY <2>1, <2>4, MapOfFrags
<1>4. np \in [NetPkt -> SUBSET Numbers] /\ retx \in SUBSET NetPkt
  BY <1>1, LinkFields DEF Links
<1>5. fails = l.failed /\ l.failed \in BOOLEAN
  <2>1. ~(Keys(l) # {} /\ new = l.firstUnackedFrag) /\ l.failed \in BOOLEAN
    BY DEF WindowOK, Links
  <2> QED
    BY <2>1
<1>6. m = [sent EXCEPT !.rtoTimers = @ \cup {new}]
  <2>1. assignTxSequence(l) = [l EXCEPT !.lastTxSeqNo = new, !.failed = fails]
    BY DEF assignTxSequence
  <2>2. moved = [assignTxSequence(l) EXCEPT
                    !.unackedFrags = Emplaced(@, [t \in {new} |-> again]),
                    !.netPkt[f[1]] = (@ \ {s}) \cup {new},
                    !.didRetx = @ \cup {f[1]}]
    BY <2>1 DEF Links
  <2>3. assignTxSequence(l).lastTxSeqNo = new
    BY <2>1 DEF Links
  <2> HIDE DEF moved
  <2> QED
    BY <2>2, <2>3 DEF Retransmit
<1> HIDE DEF again, map, np, retx, fails
<1>7. moved \in Links
  BY <1>3, <1>4, <1>5 DEF Links
<1>8. /\ moved.unackedFrags = map /\ moved.lastTxSeqNo = new /\ moved.netPkt = np
      /\ moved.failed = l.failed /\ moved.firstUnackedFrag = l.firstUnackedFrag
      /\ moved.rtoTimers = l.rtoTimers /\ SameSetup(l, moved)
      /\ moved.outcome = l.outcome /\ moved.acked = l.acked
      /\ moved.ackQueue = l.ackQueue /\ moved.out = l.out
  BY <1>5 DEF Links, SameSetup
<1> HIDE DEF moved
<1>9. Keys(moved) = Keys(l) \cup {new}
  BY <1>2, <1>8 DEF Keys
<1>10. WindowOK(moved)
  BY <1>8, <1>9 DEF WindowOK
<1>11. {s} \subseteq Keys(moved) /\ Keys(moved) # {}
  BY <1>9
<1>12. /\ d \in Links
       /\ Deleted(moved, d, {s})
       /\ WindowOK(d)
       /\ SameSetup(moved, d)
       /\ d.lastTxSeqNo = moved.lastTxSeqNo /\ d.netPkt = moved.netPkt
       /\ d.outcome = moved.outcome /\ d.ackQueue = moved.ackQueue /\ d.acked = moved.acked
       /\ d.out = moved.out /\ d.failed = moved.failed
  BY <1>7, <1>10, <1>11, DeleteDoes, SMTT(30)
<1>13. pkts \in Seq([frag : Frag, txSeq : Numbers \cup {Nil}])
  BY <1>1, SMTT(30)
<1> HIDE DEF d
<1>14. /\ sent \in Links
       /\ OnlySends(d, sent)
       /\ AckSet(sent) \subseteq AckSet(d)
       /\ \A pkt \in sent.out :
             \/ pkt \in d.out
             \/ /\ \E j \in DOMAIN pkts : pkt.frag = pkts[j].frag /\ pkt.txSeq = pkts[j].txSeq
                /\ \A k \in DOMAIN pkt.acks : pkt.acks[k] \in AckSet(d)
  <2> HIDE DEF pkts
  <2> QED
    BY <1>12, <1>13, SendLpPacketsDoes
<1>15. \A j \in DOMAIN pkts : pkts[j].frag = f /\ pkts[j].txSeq = new
  BY SMTT(30)
<1> HIDE DEF sent, pkts
<1>16. m \in Links
  <2> DEFINE timers == sent.rtoTimers \cup {new}
  <2>1. timers \in SUBSET Numbers
    BY <1>14 DEF Links
  <2>2. m = [sent EXCEPT !.rtoTimers = timers]
    BY <1>6
  <2> HIDE DEF timers
  <2> QED
    BY <1>14, <2>1, <2>2 DEF Links
<1>17. /\ m.unackedFrags = sent.unackedFrags /\ m.firstUnackedFrag = sent.firstUnackedFrag
       /\ m.rtoTimers = sent.rtoTimers \cup {new} /\ SameSetup(sent, m)
       /\ m.lastTxSeqNo = sent.lastTxSeqNo /\ m.ackQueue = sent.ackQueue /\ m.acked = sent.acked
       /\ m.out = sent.out /\ m.failed = sent.failed
       /\ m.netPkt = sent.netPkt /\ m.outcome = sent.outcome
  BY <1>6, <1>14 DEF Links, SameSetup
<1>18. m.unackedFrags = d.unackedFrags /\ m.firstUnackedFrag = d.firstUnackedFrag
  BY <1>14, <1>17 DEF OnlySends
<1>19. WindowOK(m) /\ Keys(m) = Keys(d)
  BY <1>12, <1>18 DEF WindowOK, Keys
<1>20. Keys(m) = (Keys(l) \ {s}) \cup {new}
  BY <1>9, <1>12, <1>19 DEF Deleted
<1>21. /\ \A t \in Keys(l) \ {s} : m.unackedFrags[t] = l.unackedFrags[t]
       /\ m.unackedFrags[new] = again
  BY <1>2, <1>8, <1>12, <1>18, <1>19, <1>20 DEF Deleted
<1>22. m.rtoTimers = (l.rtoTimers \ {s}) \cup {new}
  BY <1>8, <1>12, <1>14, <1>17 DEF Deleted, OnlySends
<1>23. SameSetup(l, m)
  BY <1>8, <1>12, <1>14, <1>17 DEF SameSetup, OnlySends
<1>24. m.lastTxSeqNo = new /\ m.netPkt = np /\ m.outcome = l.outcome /\ m.acked = l.acked
       /\ m.failed = l.failed
  BY <1>8, <1>12, <1>14, <1>17 DEF OnlySends
<1>25. AckSet(d) = AckSet(l) /\ AckSet(m) = AckSet(sent) /\ d.out = l.out
  <2>1. d.ackQueue = l.ackQueue /\ m.ackQueue = sent.ackQueue /\ d.out = l.out
    BY <1>8, <1>12, <1>17
  <2> QED
    BY <2>1 DEF AckSet
<1>26. AckSet(m) \subseteq AckSet(l)
  BY <1>14, <1>25
<1>27. ASSUME NEW pkt \in m.out
       PROVE  \/ pkt \in l.out
              \/ /\ pkt.frag = f /\ pkt.txSeq = new
                 /\ \A k \in DOMAIN pkt.acks : pkt.acks[k] \in AckSet(l)
  BY <1>14, <1>15, <1>17, <1>25
<1> QED
  BY <1>16, <1>19, <1>20, <1>21, <1>22, <1>23, <1>24, <1>26, <1>27
  DEF again, np, Retransmitted

\* Counting an Ack changes nothing but the counts of the older fragments
LEMMA CountedDoes ==
    ASSUME NEW l \in Links, NEW s \in Keys(l), NEW c, c = Counted(l, s)
    PROVE  /\ c \in Links
           /\ Keys(c) = Keys(l)
           /\ \A t \in Keys(l) : c.unackedFrags[t] =
                 [l.unackedFrags[t] EXCEPT !.nGreaterSeqAcks = IF t \in Older(l, s) THEN @ + 1 ELSE @]
           /\ c = [l EXCEPT !.unackedFrags = c.unackedFrags]
<1> DEFINE After(t) == [l.unackedFrags[t] EXCEPT !.nGreaterSeqAcks =
                                                     IF t \in Older(l, s) THEN @ + 1 ELSE @]
           map == [t \in Keys(l) |-> After(t)]
<1>1. \A t \in Keys(l) : After(t) \in UnackedFrags
  BY LinkFields, SMTT(30) DEF UnackedFrags
<1>2. map \in FragMaps
  <2>1. Keys(l) \in SUBSET Numbers /\ map \in [Keys(l) -> UnackedFrags]
    BY <1>1, LinkFields
  <2> QED
    BY <2>1, MapOfFrags
<1>3. c = [l EXCEPT !.unackedFrags = map]
  <2>1. ASSUME NEW t \in Keys(l)
        PROVE  After(t) = IF t \in Older(l, s)
                          THEN [l.unackedFrags[t] EXCEPT !.nGreaterSeqAcks = @ + 1]
                          ELSE l.unackedFrags[t]
    <3>1. l.unackedFrags[t] \in UnackedFrags
      BY LinkFields
    <3> QED
      BY <3>1 DEF UnackedFrags
  <2>2. map = [t \in Keys(l) |-> IF t \in Older(l, s)
                                 THEN [l.unackedFrags[t] EXCEPT !.nGreaterSeqAcks = @ + 1]
                                 ELSE l.unackedFrags[t]]
    BY <2>1
  <2> HIDE DEF map
  <2> QED
    BY <2>2 DEF Counted
<1>4. DOMAIN map = Keys(l) /\ \A t \in Keys(l) : map[t] = After(t)
  OBVIOUS
<1> HIDE DEF map
<1>5. c \in Links /\ c.unackedFrags = map
  BY <1>2, <1>3 DEF Links
<1> QED
  BY <1>3, <1>4, <1>5 DEF Keys

\* An Ack deletes its fragment and counts for those that were sent before it
LEMMA AckDoes ==
    ASSUME NEW l \in Links, NEW s \in Keys(l), WindowOK(l),
           NEW m, m = onLpPacketAcknowledged(Counted(l, s), s)
    PROVE  m \in Links /\ Acknowledged(l, m, s)
<1> DEFINE p == NetPktOf(l, s)
           c == Counted(l, s)
           np == [l.netPkt EXCEPT ![p] = @ \ {s}]
           end == IF l.netPkt[p] \ {s} # {} THEN l.outcome[p]
                  ELSE IF p \in l.didRetx THEN "retransmitted" ELSE "acknowledged"
           oc == [l.outcome EXCEPT ![p] = end]
           acks == l.acked \cup {s}
           e == [c EXCEPT !.netPkt = np, !.acked = acks, !.outcome = oc]
<1>1. p \in NetPkt /\ s \in Numbers
  BY LinkFields
<1>2. /\ c \in Links
      /\ Keys(c) = Keys(l)
      /\ \A t \in Keys(l) : c.unackedFrags[t] =
            [l.unackedFrags[t] EXCEPT !.nGreaterSeqAcks = IF t \in Older(l, s) THEN @ + 1 ELSE @]
      /\ c = [l EXCEPT !.unackedFrags = c.unackedFrags]
  <2> HIDE DEF c
  <2> QED
    BY CountedDoes DEF c
<1>3. np \in [NetPkt -> SUBSET Numbers] /\ acks \in SUBSET Numbers /\ oc \in [NetPkt -> Outcome]
  BY <1>1, LinkFields DEF Outcome
<1>4. NetPktOf(c, s) = p
  <2>1. l.unackedFrags[s] \in UnackedFrags
    BY LinkFields
  <2>2. c.unackedFrags[s] =
            [l.unackedFrags[s] EXCEPT !.nGreaterSeqAcks = IF s \in Older(l, s) THEN @ + 1 ELSE @]
    BY <1>2
  <2> HIDE DEF c
  <2> QED
    BY <2>1, <2>2 DEF NetPktOf, UnackedFrags
<1> HIDE DEF c
<1>5. /\ c.netPkt = l.netPkt /\ c.outcome = l.outcome /\ c.acked = l.acked
      /\ c.didRetx = l.didRetx /\ c.firstUnackedFrag = l.firstUnackedFrag
      /\ SameSetup(l, c) /\ c.lastTxSeqNo = l.lastTxSeqNo /\ c.rtoTimers = l.rtoTimers
      /\ c.ackQueue = l.ackQueue /\ c.out = l.out /\ c.failed = l.failed
  <2> DEFINE g == c.unackedFrags
  <2>1. c = [l EXCEPT !.unackedFrags = g]
    BY <1>2
  <2> HIDE DEF g
  <2> QED
    BY <2>1 DEF Links, SameSetup
<1>6. m = deleteUnackedFrags(e, {s})
  <2>1. e = [c EXCEPT !.netPkt[p] = l.netPkt[p] \ {s},
                      !.acked = @ \cup {s},
                      !.outcome[p] = IF l.netPkt[p] \ {s} # {} THEN @
                                     ELSE IF p \in l.didRetx THEN "retransmitted"
                                     ELSE "acknowledged"]
    BY <1>5
  <2>2. m = onLpPacketAcknowledged(c, s)
    BY DEF c
  <2> HIDE DEF e
  <2> QED
    BY <1>4, <1>5, <2>1, <2>2 DEF onLpPacketAcknowledged
<1>7. /\ \A q \in NetPkt : q # p => oc[q] = l.outcome[q]
      /\ l.netPkt[p] \ {s} # {} => oc[p] = l.outcome[p]
      /\ l.netPkt[p] \ {s} = {} => oc[p] \in {"acknowledged", "retransmitted"}
  BY <1>1, LinkFields
<1> HIDE DEF np, acks, oc
<1>8. e \in Links
  BY <1>2, <1>3 DEF Links
<1>9. /\ e.unackedFrags = c.unackedFrags /\ e.netPkt = np /\ e.acked = acks /\ e.outcome = oc
      /\ e.firstUnackedFrag = c.firstUnackedFrag
      /\ SameSetup(c, e) /\ e.lastTxSeqNo = c.lastTxSeqNo /\ e.rtoTimers = c.rtoTimers
      /\ e.ackQueue = c.ackQueue /\ e.out = c.out /\ e.failed = c.failed
  BY <1>2 DEF Links, SameSetup
<1> HIDE DEF e
<1>10. Keys(e) = Keys(l)
  BY <1>2, <1>9 DEF Keys
<1>11. WindowOK(e)
  BY <1>5, <1>9, <1>10 DEF WindowOK
<1>12. {s} \subseteq Keys(e) /\ Keys(e) # {}
  BY <1>10
<1>13. /\ m \in Links
       /\ Deleted(e, m, {s})
       /\ WindowOK(m)
       /\ SameSetup(e, m)
       /\ m.lastTxSeqNo = e.lastTxSeqNo /\ m.netPkt = e.netPkt
       /\ m.outcome = e.outcome /\ m.ackQueue = e.ackQueue /\ m.acked = e.acked
       /\ m.out = e.out /\ m.failed = e.failed
  BY <1>6, <1>8, <1>11, <1>12, DeleteDoes, SMTT(30)
<1>14. Keys(m) = Keys(l) \ {s} /\ m.rtoTimers = l.rtoTimers \ {s}
  BY <1>5, <1>9, <1>10, <1>13 DEF Deleted
<1>15. \A t \in Keys(m) : t \in Keys(l) /\ m.unackedFrags[t] = c.unackedFrags[t]
  BY <1>9, <1>13, <1>14 DEF Deleted
<1>16. SameSetup(l, m)
  BY <1>5, <1>9, <1>13 DEF SameSetup
<1>17. /\ m.lastTxSeqNo = l.lastTxSeqNo /\ m.ackQueue = l.ackQueue /\ m.out = l.out
       /\ m.failed = l.failed /\ m.acked = acks /\ m.netPkt = np /\ m.outcome = oc
  BY <1>5, <1>9, <1>13
<1>18. \A t \in Keys(m) : m.unackedFrags[t] =
          [l.unackedFrags[t] EXCEPT !.nGreaterSeqAcks = IF t \in Older(l, s) THEN @ + 1 ELSE @]
  BY <1>2, <1>15
<1>19. \A q \in NetPkt :
          \/ m.outcome[q] = l.outcome[q] /\ (q = p => l.netPkt[p] \ {s} # {})
          \/ /\ q = p /\ l.netPkt[p] \ {s} = {}
             /\ m.outcome[q] \in {"acknowledged", "retransmitted"}
  BY <1>7, <1>17
<1> QED
  BY <1>1, <1>13, <1>14, <1>16, <1>17, <1>18, <1>19 DEF np, acks, Acknowledged, AckCounted

\* The fragments of a network packet get the numbers that follow
LEMMA HandleOutgoingDoes ==
    ASSUME NEW l \in Links, WindowOK(l), NEW p \in NetPkt, Used(l) + FragCount[p] < SeqRange,
           \A s \in Keys(l) : Order(s) < Used(l),
           NEW m, m = handleOutgoing(l, p)
    PROVE  m \in Links /\ NewlyTracked(l, m, p)
<1> DEFINE k == FragCount[p]
           new == {(l.lastTxSeqNo + i) % SeqRange : i \in 1..k}
           last == l.lastTxSeqNo
           Num(i) == (last + i) % SeqRange
           FragAt(s) == <<p, (s - last) % SeqRange>>
           txSeq == [i \in 1..k |-> Num(i)]
           first == IF Keys(l) = {} THEN Num(1) ELSE l.firstUnackedFrag
           newMap == [s \in new |-> UnackedFrag(FragAt(s), 0)]
           map == Emplaced(l.unackedFrags, newMap)
           timers == l.rtoTimers \cup new
           np == [l.netPkt EXCEPT ![p] = new]
           oc == [l.outcome EXCEPT ![p] = "unacked"]
           again == \E i \in 1..k : Num(i) = first /\ (Keys(l) # {} \/ i > 1)
           fails == l.failed \/ again
<1>1. /\ k \in Nat \ {0} /\ Used(l) \in Nat /\ last \in Numbers /\ SeqRange \in Nat
      /\ Keys(l) \in SUBSET Numbers
  BY LinkFields, ConstantTypes, SMTT(30) DEF Numbers
<1>2. ASSUME NEW i \in 1..k
      PROVE  /\ Num(i) \in Numbers
             /\ Order(Num(i)) = Used(l) + i - 1
             /\ (Num(i) - LastTxSeqNo) % SeqRange = Used(l) + i
             /\ (Num(i) - last) % SeqRange = i
  <2>1. i \in Nat \ {0} /\ Used(l) + i < SeqRange
    BY <1>1, SMTT(30)
  <2> QED
    BY <1>1, <2>1, NumberAfter
<1>3. new = {Num(i) : i \in 1..k} /\ 1 \in 1..k /\ k \in 1..k
  BY <1>1, SMTT(30)
<1> HIDE DEF Num
<1>4. new \in SUBSET Numbers /\ new # {}
  BY <1>2, <1>3
<1>25. ASSUME NEW s \in new PROVE Order(s) \in Int /\ Order(s) >= Used(l)
  <2>1. PICK i \in 1..k : s = Num(i)
    BY <1>3
  <2>2. Order(s) = Used(l) + i - 1
    BY <1>2, <2>1
  <2> QED
    BY <1>1, <2>2, SMTT(30)
<1>5. new \cap Keys(l) = {}
  BY <1>1, <1>25, SMTT(30)
<1>6. \A i \in 1..k : FragAt(Num(i)) = <<p, i>> /\ <<p, i>> \in Frag
  BY <1>2, IsFrag
<1> HIDE DEF FragAt
<1>7. \A f \in Frag : UnackedFrag(f, 0) \in UnackedFrags
  BY ConstantTypes, SMTT(30) DEF UnackedFrag, UnackedFrags
<1>8. \A s \in new : UnackedFrag(FragAt(s), 0) \in UnackedFrags
  BY <1>3, <1>6, <1>7
<1>9. /\ DOMAIN map = Keys(l) \cup new
      /\ \A s \in Keys(l) : map[s] = l.unackedFrags[s]
      /\ \A s \in new : map[s] = UnackedFrag(FragAt(s), 0)
  BY <1>5 DEF Emplaced, Keys
<1>10. map \in FragMaps
  <2>1. DOMAIN map \in SUBSET Numbers
    BY <1>1, <1>4, <1>9
  <2>2. map = [t \in DOMAIN map |-> map[t]]
    BY DEF Emplaced
  <2>3. \A t \in DOMAIN map : map[t] \in UnackedFrags
    BY <1>8, <1>9, LinkFields
  <2> HIDE DEF map
  <2>4. map \in [DOMAIN map -> UnackedFrags]
    BY <2>2, <2>3
  <2> QED
    BY <2>1, <2>4, MapOfFrags
<1>11. timers \in SUBSET Numbers
  BY <1>4 DEF Links
<1>12. np \in [NetPkt -> SUBSET Numbers] /\ oc \in [NetPkt -> Outcome]
  BY <1>4, LinkFields DEF Outcome
<1>13. ~again
  <2> SUFFICES ASSUME NEW i \in 1..k, Num(i) = first, Keys(l) # {} \/ i > 1
               PROVE  FALSE
    OBVIOUS
  <2>1. CASE Keys(l) # {}
    <3>1. first \in Keys(l) /\ Num(i) \in new
      BY <1>3, <2>1 DEF WindowOK
    <3> QED
      BY <1>5, <3>1
  <2>2. CASE Keys(l) = {} /\ i > 1
    BY <1>1, <1>2, <1>3, <2>2, SMTT(30)
  <2> QED
    BY <2>1, <2>2
<1>14. fails = l.failed /\ l.failed \in BOOLEAN
  <2>1. l.failed \in BOOLEAN
    BY DEF Links
  <2> HIDE DEF again
  <2> QED
    BY <1>13, <2>1
<1>15. /\ first \in Keys(l) \cup new
       /\ \A s \in Keys(l) \cup new : Order(first) <= Order(s)
  <2>1. CASE Keys(l) # {}
    <3>1. first \in Keys(l) /\ \A s \in Keys(l) : Order(first) <= Order(s)
      BY <2>1 DEF WindowOK
    <3>3. Order(first) < Used(l) /\ Order(first) \in Int
      BY <1>1, <3>1, OrderIs, SMTT(30) DEF Numbers
    <3> QED
      BY <1>1, <1>25, <3>1, <3>3, SMTT(30)
  <2>2. CASE Keys(l) = {}
    <3>1. first = Num(1) /\ Num(1) \in new /\ Order(Num(1)) = Used(l)
      <4>1. Order(Num(1)) = Used(l) + 1 - 1
        BY <1>2, <1>3
      <4> QED
        BY <1>1, <1>3, <2>2, <4>1, SMTT(30)
    <3> QED
      BY <1>1, <1>25, <2>2, <3>1
  <2> QED
    BY <2>1, <2>2
<1>16. m = [l EXCEPT !.lastTxSeqNo = Num(k), !.unackedFrags = map, !.rtoTimers = timers,
                     !.netPkt = np, !.outcome = oc, !.firstUnackedFrag = first, !.failed = fails]
  <2>1. /\ DOMAIN txSeq = 1..k /\ txSeq[k] = Num(k) /\ txSeq[1] = Num(1)
        /\ {txSeq[i] : i \in DOMAIN txSeq} = new
        /\ \A i \in DOMAIN txSeq : txSeq[i] = Num(i)
    BY <1>3
  <2>2. handleOutgoing(l, p) =
          [l EXCEPT !.lastTxSeqNo = txSeq[k],
                    !.unackedFrags = Emplaced(@, [s \in {txSeq[i] : i \in DOMAIN txSeq} |->
                                                    UnackedFrag(FragAt(s), 0)]),
                    !.rtoTimers = @ \cup {txSeq[i] : i \in DOMAIN txSeq},
                    !.netPkt[p] = {txSeq[i] : i \in DOMAIN txSeq},
                    !.outcome[p] = "unacked",
                    !.firstUnackedFrag = IF Keys(l) = {} THEN txSeq[1] ELSE l.firstUnackedFrag,
                    !.failed = @ \/ \E i \in DOMAIN txSeq :
                          /\ txSeq[i] = IF Keys(l) = {} THEN txSeq[1] ELSE l.firstUnackedFrag
                          /\ Keys(l) # {} \/ i > 1]
    BY DEF handleOutgoing, Num, FragAt
  <2>3. again = \E i \in DOMAIN txSeq :
                   /\ txSeq[i] = IF Keys(l) = {} THEN txSeq[1] ELSE l.firstUnackedFrag
                   /\ Keys(l) # {} \/ i > 1
    BY <2>1
  <2>4. /\ map = Emplaced(l.unackedFrags, [s \in {txSeq[i] : i \in DOMAIN txSeq} |->
                                             UnackedFrag(FragAt(s), 0)])
        /\ first = IF Keys(l) = {} THEN txSeq[1] ELSE l.firstUnackedFrag
        /\ timers = l.rtoTimers \cup {txSeq[i] : i \in DOMAIN txSeq}
        /\ np = [l.netPkt EXCEPT ![p] = {txSeq[i] : i \in DOMAIN txSeq}]
    BY <2>1
  <2> DEFINE tip == txSeq[k]
  <2>5. handleOutgoing(l, p) =
          [l EXCEPT !.lastTxSeqNo = tip, !.unackedFrags = map, !.rtoTimers = timers,
                    !.netPkt = np, !.outcome = oc, !.firstUnackedFrag = first, !.failed = fails]
    <3> HIDE DEF txSeq, again, map, first, timers, np
    <3> QED
      BY <2>2, <2>3, <2>4, SMTT(30)
  <2> QED
    BY <2>1, <2>5
<1>17. first \in Numbers \cup {Nil} /\ Num(k) \in Numbers
  BY <1>1, <1>2, <1>3, <1>4, <1>15
<1>18. \A i \in 1..k : map[Num(i)] = UnackedFrag(<<p, i>>, 0)
  BY <1>3, <1>6, <1>9
<1> HIDE DEF map, timers, np, oc, first, fails, txSeq, newMap
<1>19. m \in Links
  <2> DEFINE starts == Numbers \cup {Nil}
             tip == Num(k)
  <2>1. first \in starts /\ tip \in Numbers
    BY <1>17
  <2>2. fails \in BOOLEAN
    BY <1>14
  <2>3. m = [l EXCEPT !.lastTxSeqNo = tip, !.unackedFrags = map, !.rtoTimers = timers,
                      !.netPkt = np, !.outcome = oc, !.firstUnackedFrag = first, !.failed = fails]
    BY <1>16
  <2> HIDE DEF tip
  <2> QED
    BY <1>10, <1>11, <1>12, <2>1, <2>2, <2>3 DEF Links
<1>20. /\ m.unackedFrags = map /\ m.rtoTimers = timers /\ m.netPkt = np /\ m.outcome = oc
       /\ m.firstUnackedFrag = first /\ m.lastTxSeqNo = Num(k) /\ m.failed = l.failed
       /\ SameSetup(l, m)
       /\ m.acked = l.acked /\ m.ackQueue = l.ackQueue /\ m.out = l.out
  BY <1>14, <1>16 DEF Links, SameSetup
<1>21. Keys(m) = Keys(l) \cup new /\ WindowOK(m)
  <2>1. Keys(m) = Keys(l) \cup new
    BY <1>9, <1>20 DEF Keys
  <2> QED
    BY <1>4, <1>15, <1>20, <2>1 DEF WindowOK
<1>22. Used(m) = Used(l) + k
  BY <1>2, <1>3, <1>20 DEF Used
<1>23. \A s \in Keys(l) : m.unackedFrags[s] = l.unackedFrags[s]
  BY <1>9, <1>20
<1>24. \A i \in 1..k : /\ Num(i) \in Numbers
                       /\ Order(Num(i)) = Used(l) + i - 1
                       /\ m.unackedFrags[Num(i)] = UnackedFrag(<<p, i>>, 0)
  BY <1>2, <1>18, <1>20
<1> QED
  BY <1>4, <1>19, <1>20, <1>21, <1>22, <1>23, <1>24 DEF Num, timers, np, oc, NewlyTracked
-----------------------------------------------------------------------------
(* What holds of an end throughout *)

\* The retransmissions a link can still do, written out.
LEMMA WorkIs ==
    ASSUME NEW l, NEW x
    PROVE  x \in Work(l) <=>
             \E s \in Keys(l) : \E k \in l.unackedFrags[s].retxCount..maxRetx :
                x = <<l.unackedFrags[s].frag, k>>
<1>1. ASSUME NEW f, NEW A PROVE x \in {f} \X A <=> \E k \in A : x = <<f, k>>
  BY SMTT(30)
<1> QED
  BY <1>1, SMTT(30) DEF Work

\* With fewer fragments there is less to do, and no transmission is taken back
LEMMA ThinnedKeeps ==
    ASSUME NEW n \in Node, NEW l \in Links, NEW m \in Links, FragsOK(n, l), Thinned(l, m),
           Used(l) <= Cardinality(Spent(n, l)),
           \A p \in NetPkt : m.outcome[p] = "none" => l.outcome[p] = "none"
    PROVE  /\ FragsOK(n, m)
           /\ Used(m) = Used(l)
           /\ Used(m) <= Cardinality(Spent(n, m))
           /\ Renamed(l, m)
           /\ LessWork(l, m)
<1>1. /\ Keys(m) \subseteq Keys(l)
      /\ \A s \in Keys(m) : /\ m.unackedFrags[s].frag = l.unackedFrags[s].frag
                            /\ m.unackedFrags[s].retxCount = l.unackedFrags[s].retxCount
      /\ m.lastTxSeqNo = l.lastTxSeqNo
      /\ \A s \in m.acked : s \in l.acked \cup Keys(l) /\ s \notin Keys(m)
  BY DEF Thinned
<1>2. Used(m) = Used(l)
  BY <1>1 DEF Used
<1>3. FragsOK(n, m)
  BY <1>1, <1>2 DEF FragsOK
<1>4. Spent(n, l) \subseteq Spent(n, m)
  <2> SUFFICES ASSUME NEW x \in Spent(n, l) PROVE x \in Spent(n, m)
    OBVIOUS
  <2>1. x \in MyFrags(n) \X (0..maxRetx) /\ l.outcome[x[1][1]] # "none"
    BY DEF Spent
  <2>2. x[1][1] \in NetPkt
    BY <2>1, FragIs DEF MyFrags
  <2>3. m.outcome[x[1][1]] # "none"
    BY <2>1, <2>2
  <2>4. \A s \in Keys(m) : m.unackedFrags[s].frag = x[1] => x[2] <= m.unackedFrags[s].retxCount
    BY <1>1 DEF Spent
  <2> QED
    BY <2>1, <2>3, <2>4 DEF Spent
<1>5. Used(m) <= Cardinality(Spent(n, m))
  <2>1. Used(l) \in Int
    BY OrdersAre
  <2> QED
    BY <1>2, <1>4, <2>1, SpendNone
<1>6. Renamed(l, m)
  <2>1. Used(l) \in Int
    BY OrdersAre
  <2> QED
    BY <1>1, <1>2, <2>1, SMTT(30) DEF Renamed
<1>7. Work(m) \subseteq Work(l)
  <2> SUFFICES ASSUME NEW x \in Work(m) PROVE x \in Work(l)
    OBVIOUS
  <2>1. PICK s \in Keys(m) : \E k \in m.unackedFrags[s].retxCount..maxRetx :
                                x = <<m.unackedFrags[s].frag, k>>
    BY WorkIs, SMTT(30)
  <2> QED
    BY <1>1, <2>1, WorkIs
<1>8. ASSUME Keys(m) # Keys(l) PROVE Work(m) # Work(l)
  <2>1. PICK s \in Keys(l) : s \notin Keys(m)
    BY <1>1, <1>8
  <2> DEFINE x == <<l.unackedFrags[s].frag, maxRetx>>
  <2>2. maxRetx \in l.unackedFrags[s].retxCount..maxRetx
    <3>1. l.unackedFrags[s] \in UnackedFrags
      BY LinkFields
    <3>2. l.unackedFrags[s].retxCount \in 0..maxRetx
      BY <3>1 DEF UnackedFrags
    <3> QED
      BY <3>2, ConstantTypes, SMTT(30)
  <2>3. x \in Work(l)
    BY <2>2, WorkIs
  <2>4. ASSUME x \in Work(m) PROVE FALSE
    <3>1. PICK t \in Keys(m) : \E k \in m.unackedFrags[t].retxCount..maxRetx :
                                  x = <<m.unackedFrags[t].frag, k>>
      BY <2>4, WorkIs, SMTT(30)
    <3>2. m.unackedFrags[t].frag = l.unackedFrags[s].frag
      BY <3>1
    <3> QED
      BY <1>1, <2>1, <3>2 DEF FragsOK
  <2> QED
    BY <2>3, <2>4
<1> QED
  BY <1>2, <1>3, <1>5, <1>6, <1>7, <1>8 DEF LessWork

\* The number that follows is in use for nothing, unless all retransmissions of
\* all fragments have been made
LEMMA NextNumberIsFree ==
    ASSUME NEW n \in Node, NEW l, LinkInv(n, l), NEW s \in Keys(l),
           l.unackedFrags[s].retxCount < maxRetx,
           NEW new, new = (l.lastTxSeqNo + 1) % SeqRange
    PROVE  /\ new \in Numbers /\ new \notin Keys(l) /\ new \notin l.acked
           /\ Order(new) = Used(l)
           /\ (new - LastTxSeqNo) % SeqRange = Used(l) + 1
           /\ \A t \in Keys(l) : Order(t) <= Order(new)
           /\ \A m : /\ Spent(n, l) \subseteq Spent(n, m)
                     /\ <<l.unackedFrags[s].frag, l.unackedFrags[s].retxCount + 1>> \in Spent(n, m)
                     => Used(l) + 1 <= Cardinality(Spent(n, m))
<1> DEFINE x == <<l.unackedFrags[s].frag, l.unackedFrags[s].retxCount + 1>>
<1>1. l \in Links /\ FragsOK(n, l) /\ Used(l) <= Cardinality(Spent(n, l))
  BY DEF LinkInv
<1>2. l.lastTxSeqNo \in Numbers /\ Keys(l) \in SUBSET Numbers /\ Used(l) \in Nat
  BY <1>1, LinkFields, OrdersAre
<1>3. l.unackedFrags[s].retxCount \in 0..maxRetx
  <2>1. l.unackedFrags[s] \in UnackedFrags
    BY <1>1, LinkFields
  <2> QED
    BY <2>1 DEF UnackedFrags
<1>4. x \in MyFrags(n) \X (0..maxRetx)
  BY <1>1, <1>3, ConstantTypes, SMTT(30) DEF FragsOK
<1>5. x \notin Spent(n, l)
  <2>1. ~(l.unackedFrags[s].retxCount + 1 <= l.unackedFrags[s].retxCount)
    BY <1>3, SMTT(30)
  <2> QED
    BY <2>1 DEF Spent
<1> HIDE DEF x
<1>6. Cardinality({x}) = 1
  BY FS_Singleton
<1>7. {x} \in SUBSET (MyFrags(n) \X (0..maxRetx)) /\ {x} \cap Spent(n, l) = {}
  BY <1>4, <1>5
<1>8. /\ Used(l) + Cardinality({x}) < SeqRange
      /\ \A m : (Spent(n, l) \cup {x}) \subseteq Spent(n, m) =>
                   Used(l) + Cardinality({x}) <= Cardinality(Spent(n, m))
  BY <1>1, <1>2, <1>7, SpendMore, SMTT(30)
<1>9. Used(l) + 1 < SeqRange /\ 1 \in Nat \ {0}
  BY <1>6, <1>8, SMTT(30)
<1>10. /\ new \in Numbers
       /\ Order(new) = Used(l) + 1 - 1
       /\ (new - LastTxSeqNo) % SeqRange = Used(l) + 1
  BY <1>2, <1>9, NumberAfter
<1>11. Order(new) = Used(l)
  BY <1>2, <1>10, SMTT(30)
<1>12. \A t \in Keys(l) : Order(t) < Used(l) /\ Order(t) \in Int
  BY <1>1, <1>2, OrderIs, SMTT(30) DEF FragsOK, Numbers
<1>13. \A t \in l.acked : Order(t) < Used(l)
  BY <1>1 DEF FragsOK
<1>14. new \notin Keys(l) /\ new \notin l.acked /\ \A t \in Keys(l) : Order(t) <= Order(new)
  BY <1>2, <1>11, <1>12, <1>13, SMTT(30)
<1>15. ASSUME NEW m, Spent(n, l) \subseteq Spent(n, m), x \in Spent(n, m)
       PROVE  Used(l) + 1 <= Cardinality(Spent(n, m))
  BY <1>6, <1>8, <1>15
<1> QED
  BY <1>10, <1>11, <1>14, <1>15 DEF x

\* Giving up a network packet
LEMMA GiveUpKeeps ==
    ASSUME NEW n \in Node, NEW l, LinkInv(n, l), NEW s \in Keys(l), NEW m, m = GiveUp(l, s)
    PROVE  /\ LinkInv(n, m) /\ Moved(l, m, {}) /\ Recounted(l, m)
           /\ Keys(m) = Keys(l) \ {t \in Keys(l) : NetPktOf(l, t) = NetPktOf(l, s)}
<1> DEFINE p == NetPktOf(l, s)
           S == {t \in Keys(l) : NetPktOf(l, t) = p}
<1>1. /\ l \in Links /\ ~l.failed /\ FragsOK(n, l) /\ WindowOK(l) /\ ListsOK(l) /\ CountsOK(l)
      /\ Used(l) <= Cardinality(Spent(n, l))
  BY DEF LinkInv
<1>2. /\ m \in Links
      /\ Deleted(l, m, S)
      /\ WindowOK(m)
      /\ SameSetup(l, m)
      /\ m.lastTxSeqNo = l.lastTxSeqNo /\ m.ackQueue = l.ackQueue /\ m.acked = l.acked
      /\ m.out = l.out /\ m.failed = l.failed
      /\ p \in NetPkt
      /\ m.netPkt = [l.netPkt EXCEPT ![p] = {}]
      /\ m.outcome = [l.outcome EXCEPT ![p] = "exhausted"]
  BY <1>1, GiveUpDoes, SMTT(30)
<1>3. /\ Keys(m) = Keys(l) \ S
      /\ \A t \in Keys(m) : t \in Keys(l) /\ m.unackedFrags[t] = l.unackedFrags[t]
  BY <1>2 DEF Deleted
<1>4. /\ m.outcome[p] = "exhausted" /\ m.netPkt[p] = {}
      /\ \A q \in NetPkt : q # p => m.outcome[q] = l.outcome[q] /\ m.netPkt[q] = l.netPkt[q]
  BY <1>1, <1>2, LinkFields
<1>5. Thinned(l, m)
  BY <1>1, <1>2, <1>3 DEF Thinned, FragsOK
<1>6. \A q \in NetPkt : m.outcome[q] = "none" => l.outcome[q] = "none"
  BY <1>4
<1>7. /\ FragsOK(n, m) /\ Used(m) <= Cardinality(Spent(n, m))
      /\ Renamed(l, m) /\ LessWork(l, m)
  BY <1>1, <1>2, <1>5, <1>6, ThinnedKeeps
<1>8. ListsOK(m)
  <2>1. m.rtoTimers = Keys(m)
    BY <1>1, <1>2, <1>3 DEF ListsOK, Deleted
  <2>2. \A t \in Keys(m) : NetPktOf(m, t) = NetPktOf(l, t)
    BY <1>3 DEF NetPktOf
  <2>3. ASSUME NEW q \in NetPkt
        PROVE  /\ m.netPkt[q] = {t \in Keys(m) : NetPktOf(m, t) = q}
               /\ m.outcome[q] = "unacked" <=> m.netPkt[q] # {}
    <3>1. CASE q = p
      BY <1>3, <1>4, <2>2, <3>1
    <3>2. CASE q # p
      <4>1. {t \in Keys(m) : NetPktOf(m, t) = q} = {t \in Keys(l) : NetPktOf(l, t) = q}
        BY <1>3, <2>2, <3>2
      <4> QED
        BY <1>1, <1>4, <3>2, <4>1 DEF ListsOK
    <3> QED
      BY <3>1, <3>2
  <2> QED
    BY <2>1, <2>3 DEF ListsOK
<1>9. CountsOK(m)
  <2>1. \A t \in Keys(m) : Later(m, t) = Later(l, t)
    BY <1>2 DEF Later
  <2> QED
    BY <1>1, <1>3, <2>1 DEF CountsOK
<1>10. LinkInv(n, m)
  BY <1>1, <1>2, <1>7, <1>8, <1>9 DEF LinkInv
<1>11. Recounted(l, m)
  BY <1>3 DEF Recounted
<1>12. Passed(l, m)
  BY <1>2, SMTT(30) DEF Passed, AckSet
<1>13. Ended(l, m)
  <2>1. l.outcome[p] = "unacked"
    BY <1>1, <1>2 DEF ListsOK
  <2> QED
    BY <1>4, <2>1 DEF Ended
<1>14. Kept(l, m, {})
  <2> SUFFICES ASSUME NEW f \in Frag, Tracks(l, f), m.outcome[f[1]] # "exhausted"
               PROVE  Tracks(m, f)
    BY DEF Kept
  <2>1. PICK t \in Keys(l) : l.unackedFrags[t].frag = f
    BY DEF Tracks
  <2>2. t \notin S
    BY <1>4, <2>1 DEF NetPktOf
  <2> QED
    BY <1>3, <2>1, <2>2 DEF Tracks
<1> QED
  BY <1>2, <1>3, <1>7, <1>10, <1>11, <1>12, <1>13, <1>14 DEF Moved

\* A retransmission uses a number and a transmission that was not spent
LEMMA RetransmitKeeps ==
    ASSUME NEW n \in Node, NEW l, LinkInv(n, l), NEW s \in Keys(l),
           l.unackedFrags[s].retxCount < maxRetx, NEW m, m = Retransmit(l, s)
    PROVE  /\ LinkInv(n, m) /\ Moved(l, m, {}) /\ Recounted(l, m)
           /\ s \notin Keys(m) /\ Keys(l) \ {s} \subseteq Keys(m)
<1> DEFINE new == (l.lastTxSeqNo + 1) % SeqRange
           f == l.unackedFrags[s].frag
           c == l.unackedFrags[s].retxCount
<1>1. /\ l \in Links /\ ~l.failed /\ FragsOK(n, l) /\ WindowOK(l) /\ ListsOK(l) /\ CountsOK(l)
      /\ Used(l) <= Cardinality(Spent(n, l))
  BY DEF LinkInv
<1>2. /\ new \in Numbers /\ new \notin Keys(l) /\ new \notin l.acked
      /\ Order(new) = Used(l)
      /\ (new - LastTxSeqNo) % SeqRange = Used(l) + 1
      /\ \A t \in Keys(l) : Order(t) <= Order(new)
      /\ \A k : Spent(n, l) \subseteq Spent(n, k) /\ <<f, c + 1>> \in Spent(n, k) =>
                   Used(l) + 1 <= Cardinality(Spent(n, k))
  BY NextNumberIsFree
<1>3. f \in Frag /\ f[1] \in NetPkt /\ c \in 0..maxRetx /\ s \in Numbers /\ Used(l) \in Nat
  <2>1. l.unackedFrags[s] \in UnackedFrags /\ s \in Numbers /\ Used(l) \in Numbers
    BY <1>1, LinkFields
  <2>2. f \in Frag /\ c \in 0..maxRetx
    BY <2>1 DEF UnackedFrags
  <2> QED
    BY <2>1, <2>2, FragIs, SMTT(30) DEF Numbers
<1> HIDE DEF new, f, c
<1>4. /\ m \in Links
      /\ Keys(m) = (Keys(l) \ {s}) \cup {new}
      /\ \A t \in Keys(l) \ {s} : m.unackedFrags[t] = l.unackedFrags[t]
      /\ m.unackedFrags[new] = UnackedFrag(f, c + 1)
      /\ WindowOK(m)
      /\ SameSetup(l, m)
      /\ m.lastTxSeqNo = new
      /\ m.rtoTimers = (l.rtoTimers \ {s}) \cup {new}
      /\ m.netPkt = [l.netPkt EXCEPT ![f[1]] = (@ \ {s}) \cup {new}]
      /\ m.outcome = l.outcome /\ m.acked = l.acked /\ m.failed = l.failed
      /\ AckSet(m) \subseteq AckSet(l)
      /\ \A pkt \in m.out :
            \/ pkt \in l.out
            \/ /\ pkt.frag = f /\ pkt.txSeq = new
               /\ \A k \in DOMAIN pkt.acks : pkt.acks[k] \in AckSet(l)
  <2>1. Retransmitted(l, m, s, new, f)
    BY <1>1, <1>2, RetransmitDoes DEF new, f
  <2> QED
    BY <2>1 DEF Retransmitted, c
<1>5. /\ m.unackedFrags[new].frag = f /\ m.unackedFrags[new].retxCount = c + 1
      /\ m.unackedFrags[new].nGreaterSeqAcks = 0
  BY <1>4, SMTT(30) DEF UnackedFrag
<1>6. \A t \in Keys(m) : \/ t = new
                         \/ t \in Keys(l) /\ t # s /\ m.unackedFrags[t] = l.unackedFrags[t]
  BY <1>4
<1>7. Used(m) = Used(l) + 1
  BY <1>2, <1>4 DEF Used
<1>8. FragsOK(n, m)
  <2>1. f \in MyFrags(n)
    BY <1>1 DEF f, FragsOK
  <2>2. \A t \in Keys(l) : Order(t) < Used(l) /\ Order(t) \in Int /\ l.unackedFrags[t].frag \in MyFrags(n)
    BY <1>1, FragsAre
  <2>3. \A t \in Keys(m) : Order(t) < Used(m) /\ m.unackedFrags[t].frag \in MyFrags(n)
    BY <1>2, <1>3, <1>5, <1>6, <1>7, <2>1, <2>2, SMTT(30)
  <2>4. \A t \in Keys(l) : t # s => l.unackedFrags[t].frag # f
    BY <1>1 DEF f, FragsOK
  <2>5. \A t, u \in Keys(m) : m.unackedFrags[t].frag = m.unackedFrags[u].frag => t = u
    BY <1>1, <1>5, <1>6, <2>4, SMTT(30) DEF FragsOK
  <2>6. \A t \in m.acked : Order(t) < Used(l) /\ Order(t) \in Int /\ t \notin Keys(l) /\ t # new
    <3>1. m.acked = l.acked
      BY <1>4
    <3> QED
      BY <1>1, <1>2, <3>1, FragsAre
  <2>7. \A t \in m.acked : Order(t) < Used(m) /\ t \notin Keys(m)
    BY <1>3, <1>6, <1>7, <2>6, SMTT(30)
  <2> QED
    BY <2>3, <2>5, <2>7 DEF FragsOK
<1>9. ListsOK(m)
  <2>1. m.rtoTimers = Keys(m)
    BY <1>1, <1>4 DEF ListsOK
  <2>2. /\ \A t \in Keys(l) \ {s} : NetPktOf(m, t) = NetPktOf(l, t)
        /\ NetPktOf(m, new) = f[1] /\ NetPktOf(l, s) = f[1]
    BY <1>4, <1>5 DEF NetPktOf, f
  <2>3. /\ m.netPkt[f[1]] = (l.netPkt[f[1]] \ {s}) \cup {new}
        /\ \A q \in NetPkt : q # f[1] => m.netPkt[q] = l.netPkt[q]
    BY <1>1, <1>3, <1>4, LinkFields
  <2>4. ASSUME NEW q \in NetPkt
        PROVE  /\ m.netPkt[q] = {t \in Keys(m) : NetPktOf(m, t) = q}
               /\ m.outcome[q] = "unacked" <=> m.netPkt[q] # {}
    <3>1. l.netPkt[q] = {t \in Keys(l) : NetPktOf(l, t) = q} /\ (l.outcome[q] = "unacked" <=> l.netPkt[q] # {})
      BY <1>1 DEF ListsOK
    <3>2. CASE q = f[1]
      BY <1>4, <2>2, <2>3, <3>1, <3>2
    <3>3. CASE q # f[1]
      BY <1>4, <2>2, <2>3, <3>1, <3>3, SMTT(30)
    <3> QED
      BY <3>2, <3>3
  <2> QED
    BY <2>1, <2>4 DEF ListsOK
<1>10. CountsOK(m)
  <2>1. \A t : Later(m, t) = Later(l, t)
    BY <1>4 DEF Later
  <2>2. Later(m, new) = {}
    <3>1. \A a \in l.acked : ~(Order(a) > Order(new))
      <4>1. \A a \in l.acked : Order(a) < Used(l) /\ Order(a) \in Int
        BY <1>1, FragsAre
      <4>2. Order(new) = Used(l) /\ Used(l) \in Int
        BY <1>1, <1>2, OrdersAre
      <4> QED
        BY <4>1, <4>2, SMTT(30)
    <3> QED
      BY <1>4, <3>1 DEF Later
  <2>3. Cardinality(Later(m, new)) = 0
    BY <2>2, FS_EmptySet
  <2> QED
    BY <1>1, <1>5, <1>6, <2>1, <2>3 DEF CountsOK
<1>11. Used(m) <= Cardinality(Spent(n, m))
  <2>1. Spent(n, l) \subseteq Spent(n, m)
    <3> SUFFICES ASSUME NEW x \in Spent(n, l) PROVE x \in Spent(n, m)
      OBVIOUS
    <3>1. /\ x \in MyFrags(n) \X (0..maxRetx) /\ l.outcome[x[1][1]] # "none"
          /\ \A t \in Keys(l) : l.unackedFrags[t].frag = x[1] => x[2] <= l.unackedFrags[t].retxCount
      BY DEF Spent
    <3>2. f = x[1] => x[2] <= c
      BY <3>1 DEF f, c
    <3>3. \A t \in Keys(m) : m.unackedFrags[t].frag = x[1] => x[2] <= m.unackedFrags[t].retxCount
      BY <1>3, <1>5, <1>6, <3>1, <3>2, SMTT(30)
    <3> QED
      BY <1>4, <3>1, <3>3 DEF Spent
  <2>2. <<f, c + 1>> \in Spent(n, m)
    <3>1. f \in MyFrags(n) /\ c + 1 \in 0..maxRetx
      BY <1>1, <1>3, ConstantTypes, SMTT(30) DEF f, c, FragsOK
    <3>2. m.outcome[f[1]] # "none"
      BY <1>1, <1>3, <1>4 DEF ListsOK, f, NetPktOf
    <3>3. \A t \in Keys(m) : m.unackedFrags[t].frag = f => t = new
      BY <1>1, <1>6 DEF f, FragsOK
    <3>4. \A t \in Keys(m) : m.unackedFrags[t].frag = f => c + 1 <= m.unackedFrags[t].retxCount
      BY <1>3, <1>5, <3>3, SMTT(30)
    <3> QED
      BY <3>1, <3>2, <3>4 DEF Spent
  <2> QED
    BY <1>2, <1>7, <2>1, <2>2
<1>12. LinkInv(n, m)
  BY <1>1, <1>4, <1>8, <1>9, <1>10, <1>11 DEF LinkInv
<1>13. Recounted(l, m)
  BY <1>5, <1>6 DEF Recounted
<1>14. Renamed(l, m)
  BY <1>2, <1>3, <1>6, <1>7, SMTT(30) DEF Renamed
<1>15. Passed(l, m)
  <2>1. new \in Numbers /\ Order(new) < Used(m) /\ (new \in Keys(m) => m.unackedFrags[new].frag \in {f})
    BY <1>2, <1>3, <1>5, <1>7, SMTT(30)
  <2> QED
    BY <1>4, <2>1 DEF Passed, Sent, Heard
<1>16. Ended(l, m)
  BY <1>4 DEF Ended
<1>17. Kept(l, m, {})
  <2> SUFFICES ASSUME NEW g \in Frag, Tracks(l, g) PROVE Tracks(m, g)
    BY DEF Kept
  <2>1. PICK t \in Keys(l) : l.unackedFrags[t].frag = g
    BY DEF Tracks
  <2>2. CASE t = s
    BY <1>4, <1>5, <2>1, <2>2 DEF Tracks, f
  <2>3. CASE t # s
    BY <1>4, <2>1, <2>3 DEF Tracks
  <2> QED
    BY <2>2, <2>3
<1>18. LessWork(l, m)
  <2>1. Work(m) \subseteq Work(l)
    <3> SUFFICES ASSUME NEW x \in Work(m) PROVE x \in Work(l)
      OBVIOUS
    <3>1. PICK t \in Keys(m) : \E k \in m.unackedFrags[t].retxCount..maxRetx :
                  x = <<m.unackedFrags[t].frag, k>>
      BY WorkIs, SMTT(30)
    <3>4. PICK k \in m.unackedFrags[t].retxCount..maxRetx : x = <<m.unackedFrags[t].frag, k>>
      BY <3>1
    <3>2. CASE t = new
      <4>1. x = <<f, k>> /\ k \in c..maxRetx
        BY <1>3, <1>5, <3>4, <3>2, ConstantTypes, SMTT(30)
      <4> QED
        BY <4>1, WorkIs DEF f, c
    <3>3. CASE t # new
      BY <1>6, <3>3, <3>4, WorkIs
    <3> QED
      BY <3>2, <3>3
  <2> DEFINE x == <<f, c>>
  <2>2. x \in Work(l)
    <3>1. c \in c..maxRetx
      BY <1>3, ConstantTypes, SMTT(30)
    <3> QED
      BY <3>1, WorkIs DEF f, c
  <2>3. ASSUME x \in Work(m) PROVE FALSE
    <3>1. PICK t \in Keys(m) : \E k \in m.unackedFrags[t].retxCount..maxRetx :
                  x = <<m.unackedFrags[t].frag, k>>
      BY <2>3, WorkIs, SMTT(30)
    <3>2. m.unackedFrags[t].frag = f /\ c \in m.unackedFrags[t].retxCount..maxRetx
      BY <3>1
    <3>3. t = new
      BY <1>1, <1>6, <3>2 DEF f, FragsOK
    <3> QED
      BY <1>3, <1>5, <3>2, <3>3, ConstantTypes, SMTT(30)
  <2> QED
    BY <2>1, <2>2, <2>3 DEF LessWork
<1> QED
  BY <1>2, <1>4, <1>12, <1>13, <1>14, <1>15, <1>16, <1>17, <1>18 DEF Moved

\* The walk from the start of the window meets the fragments sent before s
LEMMA OlderIs ==
    ASSUME NEW l \in Links, WindowOK(l), NEW s \in Keys(l), NEW t \in Keys(l)
    PROVE  t \in Older(l, s) <=> Order(t) < Order(s)
<1> DEFINE first == l.firstUnackedFrag
<1>1. first \in Keys(l) /\ Order(first) <= Order(t) /\ Order(first) <= Order(s)
  BY DEF WindowOK
<1>2. first \in Numbers /\ s \in Numbers /\ t \in Numbers
  BY <1>1, LinkFields
<1>3. Order(first) \in Int /\ Order(t) \in Int /\ Order(s) \in Int
  BY <1>2, OrderIs, SMTT(30) DEF Numbers
<1>4. /\ (t - first) % SeqRange = Order(t) - Order(first)
      /\ (s - first) % SeqRange = Order(s) - Order(first)
  BY <1>1, <1>2, <1>3, DistanceIs
<1>5. t \in Older(l, s) <=> (t - first) % SeqRange < (s - first) % SeqRange
  BY DEF Older
<1> QED
  BY <1>3, <1>4, <1>5, SMTT(30)

\* An Ack counts for exactly the fragments that were sent before its own
LEMMA AckKeeps ==
    ASSUME NEW n \in Node, NEW l, LinkInv(n, l), NEW s \in Keys(l),
           NEW m, m = onLpPacketAcknowledged(Counted(l, s), s),
           NEW got, l.unackedFrags[s].frag \in got
    PROVE  LinkInv(n, m) /\ Moved(l, m, got)
<1> DEFINE p == NetPktOf(l, s)
<1>1. /\ l \in Links /\ ~l.failed /\ FragsOK(n, l) /\ WindowOK(l) /\ ListsOK(l) /\ CountsOK(l)
      /\ Used(l) <= Cardinality(Spent(n, l))
  BY DEF LinkInv
<1>2. /\ m \in Links
      /\ Keys(m) = Keys(l) \ {s}
      /\ \A t \in Keys(m) : m.unackedFrags[t] =
            [l.unackedFrags[t] EXCEPT !.nGreaterSeqAcks = IF t \in Older(l, s) THEN @ + 1 ELSE @]
      /\ WindowOK(m)
      /\ SameSetup(l, m)
      /\ m.lastTxSeqNo = l.lastTxSeqNo /\ m.rtoTimers = l.rtoTimers \ {s}
      /\ m.ackQueue = l.ackQueue /\ m.out = l.out /\ m.failed = l.failed
      /\ p \in NetPkt
      /\ m.acked = l.acked \cup {s}
      /\ m.netPkt = [l.netPkt EXCEPT ![p] = @ \ {s}]
      /\ \A q \in NetPkt :
            \/ m.outcome[q] = l.outcome[q] /\ (q = p => l.netPkt[p] \ {s} # {})
            \/ /\ q = p /\ l.netPkt[p] \ {s} = {}
               /\ m.outcome[q] \in {"acknowledged", "retransmitted"}
  <2>1. m \in Links /\ Acknowledged(l, m, s)
    BY <1>1, AckDoes
  <2> QED
    BY <2>1 DEF Acknowledged, AckCounted
<1>3. ASSUME NEW t \in Keys(m)
      PROVE  /\ t \in Keys(l) /\ t # s
             /\ m.unackedFrags[t].frag = l.unackedFrags[t].frag
             /\ m.unackedFrags[t].retxCount = l.unackedFrags[t].retxCount
             /\ l.unackedFrags[t].nGreaterSeqAcks \in Nat
             /\ m.unackedFrags[t].nGreaterSeqAcks =
                   IF t \in Older(l, s) THEN l.unackedFrags[t].nGreaterSeqAcks + 1
                                        ELSE l.unackedFrags[t].nGreaterSeqAcks
  <2>1. t \in Keys(l) /\ t # s
    BY <1>2
  <2>2. l.unackedFrags[t] \in UnackedFrags
    BY <1>1, <2>1, LinkFields
  <2>3. m.unackedFrags[t] =
           [l.unackedFrags[t] EXCEPT !.nGreaterSeqAcks = IF t \in Older(l, s) THEN @ + 1 ELSE @]
    BY <1>2
  <2> QED
    BY <2>1, <2>2, <2>3 DEF UnackedFrags
<1>4. Thinned(l, m)
  BY <1>1, <1>2, <1>3 DEF Thinned, FragsOK
<1>5. \A q \in NetPkt : m.outcome[q] = "none" => l.outcome[q] = "none"
  BY <1>2
<1>6. /\ FragsOK(n, m) /\ Used(m) <= Cardinality(Spent(n, m))
      /\ Renamed(l, m) /\ LessWork(l, m)
  BY <1>1, <1>2, <1>4, <1>5, ThinnedKeeps, SMTT(30)
<1>7. l.outcome[p] = "unacked"
  BY <1>1, <1>2 DEF ListsOK
<1>8. ListsOK(m)
  <2>1. m.rtoTimers = Keys(m)
    BY <1>1, <1>2 DEF ListsOK
  <2>2. \A t \in Keys(m) : t \in Keys(l) /\ t # s /\ NetPktOf(m, t) = NetPktOf(l, t)
    BY <1>3 DEF NetPktOf
  <2>3. /\ m.netPkt[p] = l.netPkt[p] \ {s}
        /\ \A q \in NetPkt : q # p => m.netPkt[q] = l.netPkt[q]
    BY <1>1, <1>2, LinkFields
  <2>4. ASSUME NEW q \in NetPkt
        PROVE  /\ m.netPkt[q] = {t \in Keys(m) : NetPktOf(m, t) = q}
               /\ m.outcome[q] = "unacked" <=> m.netPkt[q] # {}
    <3>1. l.netPkt[q] = {t \in Keys(l) : NetPktOf(l, t) = q} /\ (l.outcome[q] = "unacked" <=> l.netPkt[q] # {})
      BY <1>1 DEF ListsOK
    <3>2. CASE q = p
      <4>1. m.netPkt[q] = {t \in Keys(m) : NetPktOf(m, t) = q}
        BY <1>2, <2>2, <2>3, <3>1, <3>2
      <4>2. m.outcome[q] = "unacked" <=> m.netPkt[q] # {}
        BY <1>2, <1>7, <2>3, <3>2
      <4> QED
        BY <4>1, <4>2
    <3>3. CASE q # p
      <4>1. m.netPkt[q] = {t \in Keys(m) : NetPktOf(m, t) = q}
        BY <1>2, <2>2, <2>3, <3>1, <3>3, SMTT(30)
      <4>2. m.outcome[q] = l.outcome[q] /\ m.netPkt[q] = l.netPkt[q]
        BY <1>2, <2>3, <3>3
      <4> QED
        BY <3>1, <4>1, <4>2
    <3> QED
      BY <3>2, <3>3
  <2> QED
    BY <2>1, <2>4 DEF ListsOK
<1>9. CountsOK(m)
  <2> SUFFICES ASSUME NEW t \in Keys(m)
               PROVE  m.unackedFrags[t].nGreaterSeqAcks = Cardinality(Later(m, t))
    BY DEF CountsOK
  <2>1. t \in Keys(l) /\ l.unackedFrags[t].nGreaterSeqAcks = Cardinality(Later(l, t))
    BY <1>1, <1>3 DEF CountsOK
  <2>2. t \in Older(l, s) <=> Order(t) < Order(s)
    BY <1>1, <2>1, OlderIs
  <2>3. s \notin l.acked /\ IsFiniteSet(Later(l, t)) /\ Order(s) \in Int /\ Order(t) \in Int
    <3>1. Later(l, t) \subseteq Numbers /\ s \in Numbers /\ t \in Numbers
      BY <1>1, <2>1, LinkFields DEF Later
    <3>2. IsFiniteSet(Numbers)
      BY FS_Interval, ConstantTypes, SMTT(30) DEF Numbers
    <3>3. IsFiniteSet(Later(l, t))
      BY <3>1, <3>2, FS_Subset
    <3>4. Order(s) \in Int /\ Order(t) \in Int
      BY <3>1, OrderIs, SMTT(30) DEF Numbers
    <3> QED
      BY <1>1, <3>3, <3>4 DEF FragsOK
  <2>4. CASE t \in Older(l, s)
    <3>1. Later(m, t) = Later(l, t) \cup {s} /\ s \notin Later(l, t)
      BY <1>2, <2>2, <2>3, <2>4 DEF Later
    <3>2. Cardinality(Later(l, t) \cup {s}) = Cardinality(Later(l, t)) + 1
      BY <2>3, <3>1, FS_AddElement
    <3> QED
      BY <1>3, <2>1, <2>4, <3>1, <3>2
  <2>5. CASE t \notin Older(l, s)
    <3>1. Later(m, t) = Later(l, t)
      BY <1>2, <2>2, <2>3, <2>5 DEF Later
    <3> QED
      BY <1>3, <2>1, <2>5, <3>1
  <2> QED
    BY <2>4, <2>5
<1>10. LinkInv(n, m)
  BY <1>1, <1>2, <1>6, <1>8, <1>9 DEF LinkInv
<1>11. Passed(l, m)
  BY <1>2, SMTT(30) DEF Passed, AckSet
<1>12. Ended(l, m)
  BY <1>2, <1>7 DEF Ended
<1>13. Kept(l, m, got)
  <2> SUFFICES ASSUME NEW f \in Frag, Tracks(l, f), f \notin got
               PROVE  Tracks(m, f)
    BY DEF Kept
  <2>1. PICK t \in Keys(l) : l.unackedFrags[t].frag = f
    BY DEF Tracks
  <2>2. t # s
    BY <2>1
  <2> QED
    BY <1>2, <1>3, <2>1, <2>2 DEF Tracks
<1> QED
  BY <1>2, <1>6, <1>10, <1>11, <1>12, <1>13 DEF Moved

\* What findLostLpPackets returns is still tracked, and of the others none has
\* reached the threshold
LEMMA LostAre ==
    ASSUME NEW n \in Node, NEW l, LinkInv(n, l), NoneLost(l), NEW s \in Keys(l),
           NEW m, m = onLpPacketAcknowledged(Counted(l, s), s),
           NEW lost, lost = LostLpPackets(Counted(l, s), s)
    PROVE  /\ lost \subseteq Keys(m)
           /\ \A t \in Keys(m) \ lost :
                 \/ m.unackedFrags[t].nGreaterSeqAcks = 0
                 \/ m.unackedFrags[t].nGreaterSeqAcks < m.seqNumLossThreshold
<1> DEFINE c == Counted(l, s)
<1>1. l \in Links /\ WindowOK(l)
  BY DEF LinkInv
<1>2. /\ c \in Links
      /\ Keys(c) = Keys(l)
      /\ \A t \in Keys(l) : c.unackedFrags[t] =
            [l.unackedFrags[t] EXCEPT !.nGreaterSeqAcks = IF t \in Older(l, s) THEN @ + 1 ELSE @]
      /\ c = [l EXCEPT !.unackedFrags = c.unackedFrags]
  BY <1>1, CountedDoes
<1> HIDE DEF c
<1>3. c.firstUnackedFrag = l.firstUnackedFrag /\ c.seqNumLossThreshold = l.seqNumLossThreshold
  <2> DEFINE g == c.unackedFrags
  <2>1. c = [l EXCEPT !.unackedFrags = g]
    BY <1>2
  <2> HIDE DEF g
  <2> QED
    BY <1>1, <2>1 DEF Links
<1>4. Older(c, s) = Older(l, s)
  BY <1>2, <1>3 DEF Older
<1>5. /\ Keys(m) = Keys(l) \ {s}
      /\ \A t \in Keys(m) : m.unackedFrags[t] =
            [l.unackedFrags[t] EXCEPT !.nGreaterSeqAcks = IF t \in Older(l, s) THEN @ + 1 ELSE @]
      /\ m.seqNumLossThreshold = l.seqNumLossThreshold
  <2>1. /\ Keys(m) = Keys(l) \ {s}
        /\ \A t \in Keys(m) : m.unackedFrags[t] =
              [l.unackedFrags[t] EXCEPT !.nGreaterSeqAcks = IF t \in Older(l, s) THEN @ + 1 ELSE @]
        /\ SameSetup(l, m)
    <3>1. Acknowledged(l, m, s)
      BY <1>1, AckDoes
    <3> QED
      BY <3>1 DEF Acknowledged, AckCounted
  <2> QED
    BY <2>1 DEF SameSetup
<1>6. \A t \in Keys(m) : t \in Keys(l) /\ m.unackedFrags[t] = c.unackedFrags[t]
  BY <1>2, <1>5
<1>7. lost = {t \in Older(l, s) : c.unackedFrags[t].nGreaterSeqAcks >= l.seqNumLossThreshold}
  BY <1>3, <1>4 DEF LostLpPackets, c
<1>8. Older(l, s) \subseteq Keys(l) \ {s}
  <2>1. Older(l, s) \subseteq Keys(l)
    BY DEF Older
  <2>2. Order(s) \in Int
    BY <1>1, OrdersAre
  <2>3. s \notin Older(l, s)
    BY <1>1, <2>2, OlderIs, SMTT(30)
  <2> QED
    BY <2>1, <2>3
<1>9. lost \subseteq Keys(m)
  BY <1>5, <1>7, <1>8
<1>10. ASSUME NEW t \in Keys(m) \ lost
       PROVE  \/ m.unackedFrags[t].nGreaterSeqAcks = 0
              \/ m.unackedFrags[t].nGreaterSeqAcks < m.seqNumLossThreshold
  <2>1. t \in Keys(l) /\ l.unackedFrags[t] \in UnackedFrags /\ l.seqNumLossThreshold \in Nat
    BY <1>1, <1>6, LinkFields DEF Links
  <2>2. m.unackedFrags[t] =
           [l.unackedFrags[t] EXCEPT !.nGreaterSeqAcks = IF t \in Older(l, s) THEN @ + 1 ELSE @]
    BY <1>5
  <2>3. CASE t \in Older(l, s)
    <3>1. ~(m.unackedFrags[t].nGreaterSeqAcks >= l.seqNumLossThreshold)
      BY <1>6, <1>7, <2>3
    <3>2. m.unackedFrags[t].nGreaterSeqAcks \in Nat
      BY <2>1, <2>2, SMTT(30) DEF UnackedFrags
    <3> QED
      BY <1>5, <2>1, <3>1, <3>2, SMTT(30)
  <2>4. CASE t \notin Older(l, s)
    <3>1. m.unackedFrags[t].nGreaterSeqAcks = l.unackedFrags[t].nGreaterSeqAcks
      BY <2>1, <2>2, <2>4 DEF UnackedFrags
    <3> QED
      BY <1>5, <2>1, <3>1 DEF NoneLost
  <2> QED
    BY <2>3, <2>4
<1> QED
  BY <1>9, <1>10
-----------------------------------------------------------------------------
(* Handlers in turn *)

\* A number that was heard of stays one
LEMMA HeardStays ==
    ASSUME NEW l \in Links, NEW m \in Links, Renamed(l, m), NEW s, NEW got, Heard(l, s, got)
    PROVE  Heard(m, s, got)
<1>1. Used(l) \in Int /\ Used(m) \in Int /\ Used(l) <= Used(m)
  BY OrdersAre DEF Renamed
<1>2. s \in Numbers /\ Order(s) \in Int /\ Order(s) < Used(l)
  BY OrderIs, SMTT(30) DEF Heard, Numbers
<1>3. s \in Keys(m) => s \in Keys(l) /\ m.unackedFrags[s].frag = l.unackedFrags[s].frag
  BY <1>1, <1>2, SMTT(30) DEF Renamed
<1> QED
  BY <1>1, <1>2, <1>3, SMTT(30) DEF Heard

\* A handler that leaves the link alone has moved nothing.
LEMMA NothingMoves ==
    ASSUME NEW l \in Links, NEW got
    PROVE  Moved(l, l, got) /\ Recounted(l, l)
<1>1. Used(l) \in Int
  BY OrdersAre
<1> QED
  BY <1>1, SMTT(30) DEF Moved, SameSetup, Renamed, Passed, Ended, Kept, LessWork, Recounted

\* Two movements of the window, one after the other, are one movement.
LEMMA MovesCompose ==
    ASSUME NEW l \in Links, NEW m \in Links, NEW k \in Links, NEW got, NEW also,
           Moved(l, m, got), Moved(m, k, also), also \subseteq got
    PROVE  Moved(l, k, got)
<1>1. Used(l) \in Int /\ Used(m) \in Int /\ Used(k) \in Int
  BY OrdersAre
<1>2. SameSetup(l, k)
  BY DEF Moved, SameSetup
<1>3. Renamed(l, k)
  <2>1. Renamed(l, m) /\ Renamed(m, k)
    BY DEF Moved
  <2>2. \A s \in Keys(k) : Order(s) \in Int
    BY OrdersAre
  <2> QED
    BY <1>1, <2>1, <2>2, SMTT(30) DEF Renamed
<1>4. Passed(l, k)
  <2>1. /\ AckSet(m) \subseteq AckSet(l) /\ AckSet(k) \subseteq AckSet(m)
        /\ \A pkt \in m.out : pkt \in l.out \/ Sent(m, AckSet(l), pkt)
        /\ \A pkt \in k.out : pkt \in m.out \/ Sent(k, AckSet(m), pkt)
    BY DEF Moved, Passed
  <2>2. ASSUME NEW pkt, Sent(m, AckSet(l), pkt) PROVE Sent(k, AckSet(l), pkt)
    <3>1. Renamed(m, k)
      BY DEF Moved
    <3>2. pkt.txSeq # Nil => Heard(k, pkt.txSeq, {pkt.frag})
      BY <2>2, <3>1, HeardStays DEF Sent
    <3> QED
      BY <2>2, <3>2 DEF Sent
  <2>3. ASSUME NEW pkt, Sent(k, AckSet(m), pkt) PROVE Sent(k, AckSet(l), pkt)
    BY <2>1, <2>3 DEF Sent
  <2> QED
    BY <2>1, <2>2, <2>3 DEF Passed
<1>5. Ended(l, k)
  BY DEF Moved, Ended
<1>6. Kept(l, k, got)
  <2>1. Kept(l, m, got) /\ Kept(m, k, also) /\ Ended(m, k)
    BY DEF Moved
  <2> SUFFICES ASSUME NEW f \in Frag, Tracks(l, f), f \notin got
               PROVE  Tracks(k, f) \/ k.outcome[f[1]] = "exhausted"
    BY DEF Kept
  <2>2. f \notin also /\ f[1] \in NetPkt
    BY FragIs
  <2>3. CASE Tracks(m, f)
    BY <2>1, <2>2, <2>3 DEF Kept
  <2>4. CASE m.outcome[f[1]] = "exhausted"
    BY <2>1, <2>2, <2>4 DEF Ended
  <2> QED
    BY <2>1, <2>3, <2>4 DEF Kept
<1>7. LessWork(l, k)
  BY DEF Moved, LessWork
<1> QED
  BY <1>2, <1>3, <1>4, <1>5, <1>6, <1>7 DEF Moved
=============================================================================
