------------------------ MODULE LpReliabilityProofs ------------------------
(***************************************************************************)
(* Proofs of the safety properties of LpReliability, for any number of     *)
(* network packets and fragments, any number of retransmissions and any    *)
(* range of sequence numbers that the transmissions do not exhaust.        *)
(***************************************************************************)
EXTENDS LpReliabilityLemmas

\* Leaves are for Zenon unless they name another prover.
USE ZenonT(30)
-----------------------------------------------------------------------------
(* The handlers *)

\* A loss, whichever branch onLpPacketLost takes
LEMMA LossKeeps ==
    ASSUME NEW n \in Node, NEW l, LinkInv(n, l), NEW s \in Keys(l),
           NEW m, m = onLpPacketLost(l, s), NEW R, R = RemovedByLoss(l, s)
    PROVE  /\ LinkInv(n, m) /\ Moved(l, m, {}) /\ Recounted(l, m)
           /\ s \in R /\ R \subseteq Keys(l)
           /\ Keys(m) \cap R = {} /\ Keys(l) \ R \subseteq Keys(m)
<1>1. l \in Links /\ WindowOK(l) /\ ListsOK(l)
  BY DEF LinkInv
<1>2. l.unackedFrags[s].retxCount \in 0..maxRetx /\ NetPktOf(l, s) \in NetPkt
  BY <1>1, LinkFields DEF UnackedFrags
<1>3. CASE l.unackedFrags[s].retxCount >= maxRetx
  <2>1. m = GiveUp(l, s) /\ R = l.netPkt[NetPktOf(l, s)] \cup {s}
    BY <1>3 DEF onLpPacketLost, RemovedByLoss
  <2>2. R = {t \in Keys(l) : NetPktOf(l, t) = NetPktOf(l, s)}
    BY <1>1, <1>2, <2>1 DEF ListsOK
  <2>3. /\ LinkInv(n, m) /\ Moved(l, m, {}) /\ Recounted(l, m)
        /\ Keys(m) = Keys(l) \ R
    BY <2>1, <2>2, GiveUpKeeps, SMTT(30)
  <2> QED
    BY <2>2, <2>3
<1>4. CASE ~(l.unackedFrags[s].retxCount >= maxRetx)
  <2>1. m = Retransmit(l, s) /\ R = {s}
    BY <1>4 DEF onLpPacketLost, RemovedByLoss
  <2>2. l.unackedFrags[s].retxCount < maxRetx
    BY <1>2, <1>4, ConstantTypes, SMTT(30)
  <2>3. /\ LinkInv(n, m) /\ Moved(l, m, {}) /\ Recounted(l, m)
        /\ s \notin Keys(m) /\ Keys(l) \ {s} \subseteq Keys(m)
    BY <2>1, <2>2, RetransmitKeeps
  <2> QED
    BY <2>1, <2>3
<1> QED
  BY <1>3, <1>4

\* The number at the distance d from first
LEMMA AtDistance ==
    ASSUME NEW first \in Numbers, NEW t \in Numbers, NEW d \in Numbers, (t - first) % SeqRange = d
    PROVE  t = (first + d) % SeqRange
<1> DEFINE x == t - first
           r == x % SeqRange
           y == first + d
           z == y % SeqRange
<1>1. SeqRange \in Nat \ {0}
  BY ConstantTypes
<1>2. x \in Int /\ y \in Int
  BY SMTT(30) DEF Numbers
<1>3. /\ r \in Numbers
      /\ x \in Numbers => r = x
      /\ x \in (-SeqRange)..(-1) => r = x + SeqRange
  BY <1>2, Remainder
<1>4. /\ z \in Numbers
      /\ y \in Numbers => z = y
      /\ y \in SeqRange..(2 * SeqRange - 1) => z = y - SeqRange
  <2> HIDE DEF y
  <2> QED
    BY <1>2, Remainder
<1>5. r = d
  OBVIOUS
<1> HIDE DEF r, z
<1>6. t = z
  BY <1>1, <1>3, <1>4, <1>5, SMTT(30) DEF Numbers
<1> QED
  BY <1>6 DEF z

\* One turn of the loop over lostLpPackets
LEMMA ResendOne ==
    ASSUME NEW n \in Node, NEW l \in Links, NEW lost \in SUBSET Numbers, NEW first \in Numbers,
           NEW d \in Numbers, NEW x, Resent(n, l, lost, first, d, x),
           NEW s, s = (first + d) % SeqRange,
           NEW y, y = (IF s \in lost THEN ResendOrFail(x, s) ELSE x)
    PROVE  Resent(n, l, lost, first, d + 1, y)
<1>1. ASSUME NEW t \in lost, (t - first) % SeqRange < d + 1
      PROVE  (t - first) % SeqRange < d \/ t = s
  <2>1. t \in Numbers /\ (t - first) % SeqRange \in Numbers
    BY Remainder, SMTT(30) DEF Numbers
  <2>2. (t - first) % SeqRange < d \/ (t - first) % SeqRange = d
    <3> DEFINE r == (t - first) % SeqRange
    <3>1. r \in Numbers /\ r < d + 1
      BY <1>1, <2>1
    <3> HIDE DEF r
    <3>2. r < d \/ r = d
      BY <3>1, SMTT(30) DEF Numbers
    <3> QED
      BY <3>2 DEF r
  <2> QED
    BY <2>1, <2>2, AtDistance
<1>2. CASE s \notin lost \/ s \in x.removed
  <2>1. y = x
    BY <1>2 DEF ResendOrFail
  <2> QED
    BY <1>1, <1>2, <2>1 DEF Resent
<1>3. CASE s \in lost /\ s \notin x.removed
  <2> DEFINE m == onLpPacketLost(x.l, s)
             R == RemovedByLoss(x.l, s)
  <2>1. y.l = m /\ y.removed = x.removed \cup R
    BY <1>3 DEF ResendOrFail
  <2>2. LinkInv(n, x.l) /\ s \in Keys(x.l) /\ x.l \in Links
    BY <1>3 DEF Resent, LinkInv
  <2>3. /\ LinkInv(n, m) /\ Moved(x.l, m, {}) /\ Recounted(x.l, m)
        /\ s \in R /\ R \subseteq Keys(x.l)
        /\ Keys(m) \cap R = {} /\ Keys(x.l) \ R \subseteq Keys(m)
    BY <2>2, LossKeeps, SMTT(30)
  <2> HIDE DEF m, R
  <2>4. m \in Links /\ Renamed(x.l, m)
    BY <2>3 DEF LinkInv, Moved
  <2>5. Moved(l, m, {})
    BY <2>2, <2>3, <2>4, MovesCompose DEF Resent
  <2>6. Recounted(l, m)
    BY <2>3 DEF Resent, Recounted
  <2>7. ASSUME NEW t \in x.removed \cup R
        PROVE  t \in Numbers /\ Order(t) < Used(m) /\ t \notin Keys(m)
    <3>1. Order(t) < Used(x.l)
      BY <2>2, <2>3, <2>7 DEF Resent, LinkInv, FragsOK
    <3>2. Used(x.l) \in Int /\ Used(m) \in Int /\ Used(x.l) <= Used(m)
      BY <2>2, <2>4, OrdersAre DEF Renamed
    <3>3. CASE t \in R
      <4>1. Order(t) \in Int
        BY <2>2, <2>3, <3>3, LinkFields, OrderIs, SMTT(30) DEF Numbers
      <4>2. t \in Numbers
        BY <2>2, <2>3, <3>3, LinkFields
      <4> QED
        BY <2>3, <3>1, <3>2, <3>3, <4>1, <4>2, SMTT(30)
    <3>4. CASE t \in x.removed
      <4>1. t \notin Keys(x.l)
        BY <3>4 DEF Resent
      <4>2. Order(t) \in Int
        BY <3>4, OrderIs, SMTT(30) DEF Resent, Numbers
      <4> QED
        BY <2>4, <3>1, <3>2, <3>4, <4>1, <4>2, SMTT(30) DEF Renamed, Resent
    <3> QED
      BY <2>7, <3>3, <3>4
  <2>8. lost \subseteq Keys(m) \cup (x.removed \cup R)
    BY <2>3 DEF Resent
  <2>9. ASSUME NEW t \in lost, (t - first) % SeqRange < d + 1
        PROVE  t \in x.removed \cup R
    BY <1>1, <2>3, <2>9 DEF Resent
  <2> QED
    BY <2>1, <2>3, <2>5, <2>6, <2>7, <2>8, <2>9 DEF Resent
<1> QED
  BY <1>2, <1>3

\* The recursive definition of Resends has a solution
LEMMA ResendsDef ==
    ASSUME NEW start, NEW lost, NEW first \in Numbers
    PROVE  LET turn == Resends(start, lost, first)
           IN  /\ turn[0] = start
               /\ \A d \in 0..(SeqRange - 1) :
                     turn[d + 1] = IF (first + d) % SeqRange \in lost
                                   THEN ResendOrFail(turn[d], (first + d) % SeqRange) ELSE turn[d]
<1> DEFINE Turn(a, d) == LET s == (first + d - 1) % SeqRange
                         IN  IF s \in lost THEN ResendOrFail(a, s) ELSE a
           Upto(f, j) == f = [d \in 0..j |-> IF d = 0 THEN start ELSE Turn(f[d - 1], d)]
           Good == {j \in Nat : \E f : Upto(f, j)}
<1>1. 0 \in Good
  <2> DEFINE f == [k \in 0..0 |-> start]
  <2>1. Upto(f, 0)
    BY SMTT(30)
  <2> QED
    BY <2>1
<1>2. ASSUME NEW j \in Nat, j \in Good PROVE j + 1 \in Good
  <2>1. PICK f : Upto(f, j)
    BY <1>2
  <2> HIDE DEF Turn
  <2> DEFINE g == [d \in 0..(j + 1) |-> IF d = 0 THEN start ELSE Turn(f[d - 1], d)]
  <2>2. \A d \in 1..(j + 1) : g[d - 1] = f[d - 1]
    BY <2>1, SMTT(30)
  <2>3. \A d \in 0..(j + 1) : (IF d = 0 THEN start ELSE Turn(f[d - 1], d))
                                = IF d = 0 THEN start ELSE Turn(g[d - 1], d)
    <3> HIDE DEF g
    <3> QED
      BY <2>2, SMTT(30)
  <2>4. Upto(g, j + 1)
    BY <2>3
  <2> HIDE DEF g, Upto
  <2> QED
    BY <2>4, SMTT(30)
<1>3. SeqRange \in Good
  <2> HIDE DEF Good
  <2>1. Nat \subseteq Good
    BY <1>1, <1>2, SetInduction
  <2> QED
    BY <2>1, ConstantTypes
<1>4. \E f : Upto(f, SeqRange)
  BY <1>3
<1>5. Upto(Resends(start, lost, first), SeqRange)
  BY <1>4 DEF Resends
<1>6. SeqRange \in Nat \ {0}
  BY ConstantTypes
<1> HIDE DEF Turn
<1>7. LET turn == Resends(start, lost, first)
      IN  turn[0] = start /\ \A d \in 0..(SeqRange - 1) : turn[d + 1] = Turn(turn[d], d + 1)
  BY <1>5, <1>6, SMTT(30)
<1>8. \A d \in 0..(SeqRange - 1) : first + (d + 1) - 1 = first + d
  BY <1>6, SMTT(30) DEF Numbers
<1>9. \A a : \A d \in 0..(SeqRange - 1) :
         Turn(a, d + 1) = IF (first + d) % SeqRange \in lost
                          THEN ResendOrFail(a, (first + d) % SeqRange) ELSE a
  BY <1>8 DEF Turn
<1> QED
  BY <1>7, <1>9

\* At its end every lost fragment is removed
LEMMA ResendAll ==
    ASSUME NEW n \in Node, NEW l, LinkInv(n, l), NEW lost, lost \subseteq Keys(l),
           NEW first \in Numbers,
           NEW m, m = Resends([l |-> l, removed |-> {}], lost, first)[SeqRange].l
    PROVE  /\ LinkInv(n, m) /\ Moved(l, m, {}) /\ Recounted(l, m)
           /\ lost \cap Keys(m) = {}
<1> DEFINE start == [l |-> l, removed |-> {}]
           turn == Resends(start, lost, first)
           Good == {d \in Nat : d <= SeqRange => Resent(n, l, lost, first, d, turn[d])}
<1>1. l \in Links /\ lost \in SUBSET Numbers /\ SeqRange \in Nat \ {0}
  BY LinkFields, ConstantTypes DEF LinkInv
<1> HIDE DEF start
<1>2. /\ turn[0] = start
      /\ \A d \in 0..(SeqRange - 1) :
            turn[d + 1] = IF (first + d) % SeqRange \in lost
                          THEN ResendOrFail(turn[d], (first + d) % SeqRange) ELSE turn[d]
  BY ResendsDef, SMTT(30)
<1> HIDE DEF turn
<1>3. 0 \in Good
  <2>1. start.l = l /\ start.removed = {}
    BY DEF start
  <2>2. Moved(l, l, {}) /\ Recounted(l, l)
    BY <1>1, NothingMoves
  <2>3. ASSUME NEW t \in lost PROVE ~((t - first) % SeqRange < 0)
    BY <1>1, Remainder, SMTT(30) DEF Numbers
  <2>4. Resent(n, l, lost, first, 0, start)
    BY <2>1, <2>2, <2>3 DEF Resent
  <2> QED
    BY <1>2, <2>4
<1>4. ASSUME NEW d \in Nat, d \in Good PROVE d + 1 \in Good
  <2> SUFFICES ASSUME d + 1 <= SeqRange PROVE Resent(n, l, lost, first, d + 1, turn[d + 1])
    BY SMTT(30)
  <2>1. d \in Numbers /\ d \in 0..(SeqRange - 1) /\ d <= SeqRange
    BY <1>1, SMTT(30) DEF Numbers
  <2>2. Resent(n, l, lost, first, d, turn[d])
    BY <1>4, <2>1
  <2> DEFINE s == (first + d) % SeqRange
  <2>3. turn[d + 1] = IF s \in lost THEN ResendOrFail(turn[d], s) ELSE turn[d]
    BY <1>2, <2>1
  <2> HIDE DEF s
  <2> QED
    BY <1>1, <2>1, <2>2, <2>3, ResendOne DEF s
<1>5. SeqRange \in Good
  <2> HIDE DEF Good
  <2>1. Nat \subseteq Good
    BY <1>3, <1>4, SetInduction
  <2> QED
    BY <1>1, <2>1
<1>6. Resent(n, l, lost, first, SeqRange, turn[SeqRange]) /\ m = turn[SeqRange].l
  BY <1>1, <1>5, SMTT(30) DEF turn, start
<1>7. \A t \in lost : (t - first) % SeqRange < SeqRange
  BY <1>1, Remainder, SMTT(30) DEF Numbers
<1> QED
  BY <1>6, <1>7 DEF Resent

\* An Ack and the losses that it reveals
LEMMA ProcessAckKeeps ==
    ASSUME NEW n \in Node, NEW l, LinkInv(n, l), NoneLost(l), NEW s, NEW got, Heard(l, s, got),
           NEW m, m = ProcessAck(l, s)
    PROVE  LinkInv(n, m) /\ Moved(l, m, got) /\ NoneLost(m)
<1>1. l \in Links /\ WindowOK(l)
  BY DEF LinkInv
<1>2. CASE s \notin Keys(l)
  <2>1. m = l
    BY <1>2 DEF ProcessAck
  <2> QED
    BY <1>1, <2>1, NothingMoves
<1>3. CASE s \in Keys(l)
  <2> DEFINE a == onLpPacketAcknowledged(Counted(l, s), s)
             lost == LostLpPackets(Counted(l, s), s)
             first == l.firstUnackedFrag
  <2>1. m = Resends([l |-> a, removed |-> {}], lost, first)[SeqRange].l
    BY <1>3 DEF ProcessAck
  <2>2. l.unackedFrags[s].frag \in got /\ first \in Numbers
    BY <1>1, <1>3, LinkFields DEF Heard, WindowOK
  <2>3. LinkInv(n, a) /\ Moved(l, a, got)
    BY <1>3, <2>2, AckKeeps
  <2>4. /\ lost \subseteq Keys(a)
        /\ \A t \in Keys(a) \ lost : \/ a.unackedFrags[t].nGreaterSeqAcks = 0
                                     \/ a.unackedFrags[t].nGreaterSeqAcks < a.seqNumLossThreshold
    BY <1>3, LostAre
  <2> HIDE DEF a, lost, first
  <2>5. LinkInv(n, m) /\ Moved(a, m, {}) /\ Recounted(a, m) /\ lost \cap Keys(m) = {}
    BY <2>1, <2>2, <2>3, <2>4, ResendAll
  <2>6. Moved(l, m, got)
    BY <1>1, <2>3, <2>5, MovesCompose DEF LinkInv
  <2>7. m.seqNumLossThreshold = a.seqNumLossThreshold
    BY <2>5 DEF Moved, SameSetup
  <2>8. NoneLost(m)
    BY <2>4, <2>5, <2>7 DEF NoneLost, Recounted
  <2> QED
    BY <2>5, <2>6, <2>8
<1> QED
  BY <1>2, <1>3

\* The recursive definition of ProcessAcks has a solution
LEMMA ProcessAcksDef ==
    ASSUME NEW l, NEW acks \in Seq(Numbers), NEW turn, turn = ProcessAcks(l, acks)
    PROVE  /\ turn[0] = l
           /\ \A k \in 1..Len(acks) : turn[k] = ProcessAck(turn[k - 1], acks[k])
<1> DEFINE Turn(a, k) == ProcessAck(a, acks[k])
           Upto(f, j) == f = [k \in 0..j |-> IF k = 0 THEN l ELSE Turn(f[k - 1], k)]
           Good == {j \in Nat : \E f : Upto(f, j)}
<1>1. 0 \in Good
  <2> DEFINE f == [k \in 0..0 |-> l]
  <2>1. Upto(f, 0)
    BY SMTT(30)
  <2> QED
    BY <2>1
<1>2. ASSUME NEW j \in Nat, j \in Good PROVE j + 1 \in Good
  <2>1. PICK f : Upto(f, j)
    BY <1>2
  <2> HIDE DEF Turn
  <2> DEFINE g == [k \in 0..(j + 1) |-> IF k = 0 THEN l ELSE Turn(f[k - 1], k)]
  <2>2. \A k \in 1..(j + 1) : g[k - 1] = f[k - 1]
    BY <2>1, SMTT(30)
  <2>3. \A k \in 0..(j + 1) : (IF k = 0 THEN l ELSE Turn(f[k - 1], k))
                                = IF k = 0 THEN l ELSE Turn(g[k - 1], k)
    <3> HIDE DEF g
    <3> QED
      BY <2>2, SMTT(30)
  <2>4. Upto(g, j + 1)
    BY <2>3
  <2> HIDE DEF g, Upto
  <2> QED
    BY <2>4, SMTT(30)
<1>3. Len(acks) \in Nat
  BY SMTT(30)
<1>4. Len(acks) \in Good
  <2> HIDE DEF Good
  <2>1. Nat \subseteq Good
    BY <1>1, <1>2, SetInduction
  <2> QED
    BY <1>3, <2>1
<1>5. \E f : Upto(f, Len(acks))
  BY <1>4
<1>6. Upto(turn, Len(acks))
  BY <1>5 DEF ProcessAcks
<1> HIDE DEF Turn
<1>7. turn[0] = l /\ \A k \in 1..Len(acks) : turn[k] = Turn(turn[k - 1], k)
  BY <1>3, <1>6, SMTT(30)
<1> QED
  BY <1>7 DEF Turn

\* The Acks of an LpPacket
LEMMA ProcessAcksKeeps ==
    ASSUME NEW n \in Node, NEW l, LinkInv(n, l), NoneLost(l), NEW acks \in Seq(Numbers),
           NEW got, \A k \in DOMAIN acks : Heard(l, acks[k], got),
           NEW m, m = ProcessAcks(l, acks)[Len(acks)]
    PROVE  LinkInv(n, m) /\ Moved(l, m, got) /\ NoneLost(m)
<1> DEFINE turn == ProcessAcks(l, acks)
           OK(x) == LinkInv(n, x) /\ Moved(l, x, got) /\ NoneLost(x)
           Good == {k \in Nat : k <= Len(acks) => OK(turn[k])}
<1>1. l \in Links /\ Len(acks) \in Nat /\ DOMAIN acks = 1..Len(acks)
  BY SMTT(30) DEF LinkInv
<1>2. turn[0] = l /\ \A k \in 1..Len(acks) : turn[k] = ProcessAck(turn[k - 1], acks[k])
  BY ProcessAcksDef, SMTT(30)
<1>3. m = turn[Len(acks)]
  OBVIOUS
<1> HIDE DEF turn
<1>4. 0 \in Good
  <2>1. OK(l)
    BY <1>1, NothingMoves
  <2> HIDE DEF OK
  <2> QED
    BY <1>2, <2>1
<1>5. ASSUME NEW k \in Nat, k \in Good PROVE k + 1 \in Good
  <2> SUFFICES ASSUME k + 1 <= Len(acks) PROVE OK(turn[k + 1])
    BY SMTT(30)
  <2> DEFINE x == turn[k]
             y == turn[k + 1]
             s == acks[k + 1]
  <2>1. k + 1 \in 1..Len(acks) /\ k <= Len(acks) /\ (k + 1) - 1 = k
    BY <1>1, SMTT(30)
  <2>2. OK(x)
    BY <1>5, <2>1
  <2>3. y = ProcessAck(x, s)
    BY <1>2, <2>1
  <2>4. Heard(l, s, got)
    BY <1>1, <2>1
  <2> HIDE DEF x, y, s
  <2>5. x \in Links /\ Renamed(l, x)
    BY <2>2 DEF LinkInv, Moved
  <2>6. Heard(x, s, got)
    BY <1>1, <2>4, <2>5, HeardStays
  <2>7. LinkInv(n, y) /\ Moved(x, y, got) /\ NoneLost(y)
    BY <2>2, <2>3, <2>6, ProcessAckKeeps
  <2>8. Moved(l, y, got)
    BY <1>1, <2>2, <2>5, <2>7, MovesCompose DEF LinkInv
  <2> QED
    BY <2>7, <2>8 DEF y
<1>6. Len(acks) \in Good
  <2> HIDE DEF Good
  <2>1. Nat \subseteq Good
    BY <1>4, <1>5, SetInduction
  <2> QED
    BY <1>1, <2>1
<1> QED
  BY <1>1, <1>3, <1>6, SMTT(30)

\* A change that leaves the tracked fragments alone keeps the invariant of the link.
LEMMA UntouchedKeeps ==
    ASSUME NEW n \in Node, NEW l, LinkInv(n, l), NEW m \in Links, Untouched(l, m)
    PROVE  /\ LinkInv(n, m)
           /\ Keys(m) = Keys(l) /\ m.unackedFrags = l.unackedFrags
           /\ Used(m) = Used(l)
           /\ Renamed(l, m)
           /\ LessToDo(l, m)
<1>1. /\ l \in Links /\ ~l.failed /\ FragsOK(n, l) /\ WindowOK(l) /\ ListsOK(l) /\ CountsOK(l)
      /\ Used(l) <= Cardinality(Spent(n, l))
  BY DEF LinkInv
<1>2. /\ m.unackedFrags = l.unackedFrags /\ m.firstUnackedFrag = l.firstUnackedFrag
      /\ m.lastTxSeqNo = l.lastTxSeqNo /\ m.rtoTimers = l.rtoTimers /\ m.netPkt = l.netPkt
      /\ m.acked = l.acked /\ m.failed = l.failed
      /\ \A p \in NetPkt : \/ m.outcome[p] = l.outcome[p]
                           \/ l.outcome[p] = "none" /\ m.outcome[p] = "untracked"
  BY DEF Untouched
<1>3. Keys(m) = Keys(l) /\ Used(m) = Used(l)
  BY <1>2 DEF Keys, Used
<1>4. Thinned(l, m)
  BY <1>1, <1>2, <1>3 DEF Thinned, FragsOK
<1>5. \A p \in NetPkt : m.outcome[p] = "none" => l.outcome[p] = "none"
  BY <1>2
<1>6. FragsOK(n, m) /\ Used(m) <= Cardinality(Spent(n, m)) /\ Renamed(l, m)
  BY <1>1, <1>4, <1>5, ThinnedKeeps
<1>7. WindowOK(m)
  BY <1>1, <1>2, <1>3 DEF WindowOK
<1>8. ListsOK(m)
  <2>1. \A s \in Keys(m) : NetPktOf(m, s) = NetPktOf(l, s)
    BY <1>2 DEF NetPktOf
  <2>2. \A p \in NetPkt : {s \in Keys(m) : NetPktOf(m, s) = p} = {s \in Keys(l) : NetPktOf(l, s) = p}
    BY <1>3, <2>1
  <2>3. \A p \in NetPkt : m.outcome[p] = "unacked" <=> l.outcome[p] = "unacked"
    BY <1>2
  <2> QED
    BY <1>1, <1>2, <1>3, <2>2, <2>3 DEF ListsOK
<1>9. CountsOK(m)
  <2>1. \A s : Later(m, s) = Later(l, s)
    BY <1>2 DEF Later
  <2> QED
    BY <1>1, <1>2, <1>3, <2>1 DEF CountsOK
<1>10. LessToDo(l, m)
  BY <1>2, <1>3 DEF LessToDo
<1> QED
  BY <1>1, <1>2, <1>3, <1>6, <1>7, <1>8, <1>9, <1>10 DEF LinkInv

\* The fragments of a network packet are the youngest, and none was spent
LEMMA HandleOutgoingKeeps ==
    ASSUME NEW n \in Node, NEW l, LinkInv(n, l), NoneLost(l), NEW p \in NetPkt, From[p] = n,
           l.outcome[p] = "none", NEW m, m = handleOutgoing(l, p)
    PROVE  /\ LinkInv(n, m)
           /\ NoneLost(m)
           /\ Renamed(l, m)
           /\ NowTracked(l, m, p)
<1> DEFINE k == FragCount[p]
           Num(i) == (l.lastTxSeqNo + i) % SeqRange
           new == {Num(i) : i \in 1..k}
           T == {<<<<p, i>>, 0>> : i \in 1..k}
<1>1. /\ l \in Links /\ ~l.failed /\ FragsOK(n, l) /\ WindowOK(l) /\ ListsOK(l) /\ CountsOK(l)
      /\ Used(l) <= Cardinality(Spent(n, l))
  BY DEF LinkInv
<1>2. k \in Nat \ {0} /\ Used(l) \in Nat
  BY <1>1, OrdersAre, ConstantTypes
<1>3. T \in SUBSET (MyFrags(n) \X (0..maxRetx)) /\ T \cap Spent(n, l) = {}
  <2>1. \A i \in 1..k : <<p, i>> \in MyFrags(n)
    BY IsFrag DEF MyFrags
  <2>2. \A x \in Spent(n, l) : x[1][1] # p
    BY DEF Spent
  <2> QED
    BY <2>1, <2>2, ConstantTypes, SMTT(30)
<1>4. Cardinality(T) = k
  <2> DEFINE g == [i \in 1..k |-> <<<<p, i>>, 0>>]
  <2>1. g \in Bijection(1..k, T)
    BY DEF Bijection, Injection, IsInjective, Surjection
  <2>2. ExistsBijection(1..k, T)
    BY <2>1 DEF ExistsBijection
  <2> HIDE DEF T
  <2> QED
    BY <1>2, <2>2, FS_CountingElements
<1>5. /\ Used(l) + k < SeqRange
      /\ \A a : (Spent(n, l) \cup T) \subseteq Spent(n, a) => Used(l) + k <= Cardinality(Spent(n, a))
  <2> HIDE DEF T
  <2>1. Used(l) \in Int
    BY <1>2, SMTT(30)
  <2>2. /\ Used(l) + Cardinality(T) < SeqRange
        /\ \A a : (Spent(n, l) \cup T) \subseteq Spent(n, a) =>
                     Used(l) + Cardinality(T) <= Cardinality(Spent(n, a))
    BY <1>1, <1>3, <2>1, SpendMore
  <2> QED
    BY <1>4, <2>2
<1>6. \A s \in Keys(l) : Order(s) < Used(l) /\ Order(s) \in Int /\ l.unackedFrags[s].frag \in MyFrags(n)
  BY <1>1, FragsAre
<1>7. /\ m \in Links
      /\ Keys(m) = Keys(l) \cup new
      /\ new \in SUBSET Numbers
      /\ \A s \in Keys(l) : m.unackedFrags[s] = l.unackedFrags[s]
      /\ \A i \in 1..k : /\ Num(i) \in Numbers
                         /\ Order(Num(i)) = Used(l) + i - 1
                         /\ m.unackedFrags[Num(i)] = UnackedFrag(<<p, i>>, 0)
      /\ WindowOK(m)
      /\ SameSetup(l, m)
      /\ Used(m) = Used(l) + k
      /\ m.rtoTimers = l.rtoTimers \cup new
      /\ m.netPkt = [l.netPkt EXCEPT ![p] = new]
      /\ m.outcome = [l.outcome EXCEPT ![p] = "unacked"]
      /\ m.acked = l.acked /\ m.ackQueue = l.ackQueue /\ m.out = l.out /\ m.failed = l.failed
  <2>1. m \in Links /\ NewlyTracked(l, m, p)
    BY <1>1, <1>5, <1>6, HandleOutgoingDoes
  <2> QED
    BY <2>1 DEF NewlyTracked
<1> HIDE DEF Num
<1>8. ASSUME NEW i \in 1..k
      PROVE  /\ m.unackedFrags[Num(i)].frag = <<p, i>> /\ m.unackedFrags[Num(i)].retxCount = 0
             /\ m.unackedFrags[Num(i)].nGreaterSeqAcks = 0
             /\ NetPktOf(m, Num(i)) = p
             /\ Order(Num(i)) >= Used(l) /\ Order(Num(i)) < Used(m) /\ Order(Num(i)) \in Int
  <2>1. m.unackedFrags[Num(i)] = UnackedFrag(<<p, i>>, 0) /\ Order(Num(i)) = Used(l) + i - 1
    BY <1>7
  <2>2. Used(m) = Used(l) + k
    BY <1>7
  <2> QED
    BY <1>2, <2>1, <2>2, SMTT(30) DEF UnackedFrag, NetPktOf
<1>9. \A s \in Keys(m) : s \in Keys(l) \/ \E i \in 1..k : s = Num(i)
  BY <1>7
<1>10. /\ m.outcome[p] = "unacked" /\ m.netPkt[p] = new
       /\ \A q \in NetPkt : q # p => m.outcome[q] = l.outcome[q] /\ m.netPkt[q] = l.netPkt[q]
  BY <1>1, <1>7, LinkFields
<1>11. \A s \in Keys(l) : NetPktOf(l, s) # p /\ NetPktOf(m, s) = NetPktOf(l, s)
  BY <1>1, <1>7 DEF ListsOK, NetPktOf
<1>12. new \cap Keys(l) = {} /\ new # {} /\ \A i \in 1..k : Num(i) \in new
  BY <1>2, <1>6, <1>8, SMTT(30)
<1>13. FragsOK(n, m)
  <2>1. \A s \in Keys(m) : Order(s) < Used(m) /\ m.unackedFrags[s].frag \in MyFrags(n)
    <3>1. \A i \in 1..k : <<p, i>> \in MyFrags(n)
      BY IsFrag DEF MyFrags
    <3>2. \A s \in Keys(l) : Order(s) < Used(m) /\ m.unackedFrags[s].frag \in MyFrags(n)
      BY <1>2, <1>6, <1>7, SMTT(30)
    <3>3. \A i \in 1..k : Order(Num(i)) < Used(m) /\ m.unackedFrags[Num(i)].frag \in MyFrags(n)
      BY <1>8, <3>1
    <3> QED
      BY <1>9, <3>2, <3>3
  <2>2. ASSUME NEW s \in Keys(m), NEW t \in Keys(m), m.unackedFrags[s].frag = m.unackedFrags[t].frag
        PROVE  s = t
    <3>1. NetPktOf(m, s) = NetPktOf(m, t)
      BY <2>2 DEF NetPktOf
    <3>2. CASE s \in Keys(l) /\ t \in Keys(l)
      BY <1>1, <1>7, <2>2, <3>2 DEF FragsOK
    <3>3. CASE s \notin Keys(l) /\ t \notin Keys(l)
      <4>1. PICK i \in 1..k : s = Num(i)
        BY <1>9, <3>3
      <4>2. PICK j \in 1..k : t = Num(j)
        BY <1>9, <3>3
      <4>3. <<p, i>> = <<p, j>>
        BY <1>8, <2>2, <4>1, <4>2
      <4> QED
        BY <4>1, <4>2, <4>3
    <3>4. CASE s \in Keys(l) /\ t \notin Keys(l)
      BY <1>8, <1>9, <1>11, <3>1, <3>4
    <3>5. CASE s \notin Keys(l) /\ t \in Keys(l)
      BY <1>8, <1>9, <1>11, <3>1, <3>5
    <3> QED
      BY <3>2, <3>3, <3>4, <3>5
  <2>3. \A s \in l.acked : Order(s) < Used(l) /\ Order(s) \in Int /\ s \notin Keys(l)
    BY <1>1, FragsAre
  <2>4. \A s \in m.acked : Order(s) < Used(m) /\ s \notin Keys(m)
    BY <1>2, <1>7, <1>8, <1>9, <2>3, SMTT(30)
  <2> QED
    BY <2>1, <2>2, <2>4 DEF FragsOK
<1>14. ListsOK(m)
  <2>1. m.rtoTimers = Keys(m)
    BY <1>1, <1>7 DEF ListsOK
  <2>2. \A i \in 1..k : NetPktOf(m, Num(i)) = p
    BY <1>8
  <2>3. ASSUME NEW q \in NetPkt
        PROVE  /\ m.netPkt[q] = {s \in Keys(m) : NetPktOf(m, s) = q}
               /\ m.outcome[q] = "unacked" <=> m.netPkt[q] # {}
    <3>1. CASE q = p
      <4>1. \A s \in Keys(m) : NetPktOf(m, s) = p <=> s \in new
        <5>1. Keys(m) = Keys(l) \cup new
          BY <1>7
        <5>2. \A s \in new : NetPktOf(m, s) = p
          BY <2>2
        <5> QED
          BY <1>11, <5>1, <5>2
      <4>2. new \subseteq Keys(m)
        BY <1>7
      <4> QED
        BY <1>10, <1>12, <3>1, <4>1, <4>2
    <3>2. CASE q # p
      <4>1. {s \in Keys(m) : NetPktOf(m, s) = q} = {s \in Keys(l) : NetPktOf(l, s) = q}
        BY <1>7, <1>9, <1>11, <2>2, <3>2
      <4> QED
        BY <1>1, <1>10, <3>2, <4>1 DEF ListsOK
    <3> QED
      BY <3>1, <3>2
  <2> QED
    BY <2>1, <2>3 DEF ListsOK
<1>15. CountsOK(m)
  <2>1. \A s : Later(m, s) = Later(l, s)
    BY <1>7 DEF Later
  <2>2. ASSUME NEW i \in 1..k PROVE Cardinality(Later(m, Num(i))) = 0
    <3>1. \A a \in l.acked : Order(a) < Used(l) /\ Order(a) \in Int
      BY <1>1, FragsAre
    <3>2. Later(m, Num(i)) = {}
      BY <1>2, <1>7, <1>8, <3>1, SMTT(30) DEF Later
    <3> QED
      BY <3>2, FS_EmptySet
  <2> QED
    BY <1>1, <1>7, <1>8, <1>9, <2>1, <2>2, SMTT(30) DEF CountsOK
<1>16. Used(m) <= Cardinality(Spent(n, m))
  <2>1. Spent(n, l) \subseteq Spent(n, m)
    <3> SUFFICES ASSUME NEW x \in Spent(n, l) PROVE x \in Spent(n, m)
      OBVIOUS
    <3>1. /\ x \in MyFrags(n) \X (0..maxRetx) /\ l.outcome[x[1][1]] # "none"
          /\ \A t \in Keys(l) : l.unackedFrags[t].frag = x[1] => x[2] <= l.unackedFrags[t].retxCount
      BY DEF Spent
    <3>2. x[1][1] # p /\ x[1][1] \in NetPkt
      BY <3>1, FragIs DEF MyFrags
    <3>3. m.outcome[x[1][1]] # "none"
      BY <1>10, <3>1, <3>2
    <3>4. \A i \in 1..k : m.unackedFrags[Num(i)].frag # x[1]
      <4>1. \A i \in 1..k : <<p, i>>[1] = p
        OBVIOUS
      <4> QED
        BY <1>8, <3>2, <4>1
    <3>5. \A t \in Keys(m) : m.unackedFrags[t].frag = x[1] => x[2] <= m.unackedFrags[t].retxCount
      BY <1>7, <1>9, <3>1, <3>4, SMTT(30)
    <3> QED
      BY <3>1, <3>3, <3>5 DEF Spent
  <2>2. T \subseteq Spent(n, m)
    <3> SUFFICES ASSUME NEW i \in 1..k PROVE <<<<p, i>>, 0>> \in Spent(n, m)
      OBVIOUS
    <3>1. <<<<p, i>>, 0>> \in MyFrags(n) \X (0..maxRetx)
      BY <1>3
    <3>2. \A t \in Keys(m) : m.unackedFrags[t].retxCount \in 0..maxRetx
      BY <1>7, LinkFields DEF UnackedFrags
    <3>3. \A t \in Keys(m) : 0 <= m.unackedFrags[t].retxCount
      BY <3>2, ConstantTypes, SMTT(30)
    <3> QED
      BY <1>10, <3>1, <3>3 DEF Spent
  <2>3. Used(m) = Used(l) + k
    BY <1>7
  <2> HIDE DEF T
  <2> QED
    BY <1>5, <2>1, <2>2, <2>3
<1>17. LinkInv(n, m)
  BY <1>1, <1>7, <1>13, <1>14, <1>15, <1>16 DEF LinkInv
<1>18. NoneLost(m)
  <2>1. m.seqNumLossThreshold = l.seqNumLossThreshold
    BY <1>7 DEF SameSetup
  <2> QED
    BY <1>7, <1>8, <1>9, <2>1, SMTT(30) DEF NoneLost
<1>19. Renamed(l, m)
  BY <1>2, <1>7, <1>8, <1>9, SMTT(30) DEF Renamed
<1>20. ASSUME NEW f \in Frag, Tracks(l, f) \/ f[1] = p PROVE Tracks(m, f)
  <2>1. CASE Tracks(l, f)
    BY <1>7, <2>1 DEF Tracks
  <2>2. CASE f[1] = p
    <3>1. f[2] \in 1..k /\ f = <<p, f[2]>>
      BY <2>2, FragIs
    <3>2. Num(f[2]) \in Keys(m) /\ m.unackedFrags[Num(f[2])].frag = f
      BY <1>7, <1>8, <1>12, <3>1
    <3> QED
      BY <3>2 DEF Tracks
  <2> QED
    BY <1>20, <2>1, <2>2
<1>21. \A i \in 1..k : Heard(m, Num(i), {<<p, i>>})
  BY <1>7, <1>8 DEF Heard
<1> QED
  BY <1>7, <1>17, <1>18, <1>19, <1>20, <1>21 DEF Num, NowTracked
-----------------------------------------------------------------------------
(* Steps of the link *)

\* The link has two ends, each the peer of the other.
LEMMA PeerIs ==
    ASSUME NEW n \in Node
    PROVE  /\ Peer(n) \in Node /\ Peer(n) # n /\ Peer(Peer(n)) = n
           /\ \A k \in Node : k = n \/ k = Peer(n)
<1>1. PICK a \in Node, b \in Node : a # b /\ Node = {a, b}
  BY TwoEnds
<1>2. ASSUME NEW k \in Node PROVE Peer(k) \in Node /\ Peer(k) # k
  <2>1. \E m \in Node : m # k
    BY <1>1
  <2> QED
    BY <2>1 DEF Peer
<1> QED
  BY <1>1, <1>2

\* A packet that was sent stays one when nothing but queue and options change
LEMMA SentStays ==
    ASSUME NEW l, NEW m, m.unackedFrags = l.unackedFrags, m.lastTxSeqNo = l.lastTxSeqNo,
           NEW queued, NEW pkt, Sent(l, queued, pkt)
    PROVE  Sent(m, queued, pkt)
<1>1. Keys(m) = Keys(l) /\ Used(m) = Used(l)
  BY DEF Keys, Used
<1> QED
  BY <1>1 DEF Sent, Heard

\* Between handlers the link is in a state that a handler may start from, with nothing waiting
\* to be sent.
LEMMA IdleHandled ==
    ASSUME ReliabilityInv, NEW n \in Node
    PROVE  Handled(n, link[n]) /\ link[n].out = {}
<1> DEFINE l == link[n]
<1>1. LinkInv(n, l) /\ Idle(l) /\ LinkNet(n) /\ l \in Links
  BY DEF ReliabilityInv, LinkInv
<1>2. Used(l) \in Int
  BY <1>1, OrdersAre
<1>3. Renamed(l, l) /\ LessToDo(l, l)
  BY <1>2, SMTT(30) DEF Renamed, LessToDo
<1> QED
  BY <1>1, <1>3 DEF Handled, Idle, LinkNet

\* A part of a handler that leaves the tracked fragments alone keeps what the handler has
\* established.
LEMMA HandledUntouched ==
    ASSUME ReliabilityInv, NEW n \in Node, NEW h, Handled(n, h), NEW m \in Links, Untouched(h, m),
           m.seqNumLossThreshold = h.seqNumLossThreshold,
           m.isIdleAckTimerRunning => m.isEnabled,
           \A pkt \in m.out : pkt \in h.out \/ Sent(m, AckSet(link[n]), pkt)
    PROVE  Handled(n, m)
<1> DEFINE l == link[n]
<1>1. LinkInv(n, l) /\ l \in Links /\ LinkInv(n, h) /\ h \in Links
  BY DEF ReliabilityInv, Handled, LinkInv
<1>2. /\ LinkInv(n, m)
      /\ Keys(m) = Keys(h) /\ m.unackedFrags = h.unackedFrags
      /\ Used(m) = Used(h)
  BY <1>1, UntouchedKeeps
<1>3. NoneLost(m)
  BY <1>2 DEF Handled, NoneLost
<1>4. Renamed(l, m)
  BY <1>2 DEF Handled, Renamed
<1>5. m.lastTxSeqNo = h.lastTxSeqNo
  BY DEF Untouched
<1>6. ASSUME NEW pkt \in m.out PROVE Sent(m, AckSet(l), pkt)
  BY <1>2, <1>5, SentStays DEF Handled
<1>7. \A p \in NetPkt : \/ m.outcome[p] = h.outcome[p]
                        \/ h.outcome[p] = "none" /\ m.outcome[p] = "untracked"
  BY DEF Untouched
<1>8. LessToDo(l, m)
  <2>1. Work(m) = Work(h)
    BY <1>2 DEF Work
  <2>2. LessToDo(l, h)
    BY DEF Handled
  <2>3. \A p \in NetPkt :
           l.outcome[p] \notin {"none", "unacked"} => m.outcome[p] = l.outcome[p]
    BY <1>7, <2>2 DEF LessToDo
  <2> QED
    BY <1>2, <1>7, <2>1, <2>2, <2>3 DEF LessToDo
<1>9. ASSUME NEW f \in MyFrags(n), Reported(m.outcome[f[1]])
      PROVE  f \in received[Peer(n)] \/ Tracks(m, f)
  <2>1. f[1] \in NetPkt
    BY FragIs DEF MyFrags
  <2>2. m.outcome[f[1]] = h.outcome[f[1]]
    BY <1>7, <1>9, <2>1 DEF Reported
  <2>3. f \in received[Peer(n)] \/ Tracks(h, f)
    BY <1>9, <2>2 DEF Handled
  <2> QED
    BY <1>2, <2>3 DEF Tracks
<1> QED
  BY <1>2, <1>3, <1>4, <1>6, <1>8, <1>9 DEF Handled

\* A handler that moves on from link[n], with what the peer has received
LEMMA MovedHandled ==
    ASSUME ReliabilityInv, NEW n \in Node, NEW m, LinkInv(n, m), NoneLost(m),
           Moved(link[n], m, received[Peer(n)])
    PROVE  Handled(n, m)
<1> DEFINE l == link[n]
<1>1. LinkInv(n, l) /\ Idle(l) /\ LinkNet(n) /\ l \in Links /\ l.out = {}
  BY DEF ReliabilityInv, LinkInv, Idle
<1>2. /\ SameSetup(l, m) /\ Renamed(l, m) /\ Passed(l, m) /\ Ended(l, m)
      /\ Kept(l, m, received[Peer(n)]) /\ LessWork(l, m)
  BY DEF Moved
<1>3. m.isIdleAckTimerRunning => m.isEnabled
  BY <1>1, <1>2 DEF SameSetup, Idle
<1>4. LessToDo(l, m)
  BY <1>2 DEF LessWork, Ended, LessToDo
<1>5. \A pkt \in m.out : Sent(m, AckSet(l), pkt)
  BY <1>1, <1>2 DEF Passed
<1>6. ASSUME NEW f \in MyFrags(n), Reported(m.outcome[f[1]])
      PROVE  f \in received[Peer(n)] \/ Tracks(m, f)
  <2>1. f[1] \in NetPkt /\ f \in Frag
    BY FragIs DEF MyFrags
  <2>2. Reported(l.outcome[f[1]])
    BY <1>2, <1>6, <2>1 DEF Ended, Reported
  <2>3. f \in received[Peer(n)] \/ Tracks(l, f)
    BY <1>1, <2>2 DEF LinkNet
  <2> QED
    BY <1>2, <1>6, <2>1, <2>3 DEF Kept, Reported
<1> QED
  BY <1>2, <1>3, <1>4, <1>5, <1>6 DEF Handled

\* What Step makes of it
LEMMA StepIs ==
    ASSUME ReliabilityInv, NEW n \in Node, NEW m, Handled(n, m),
           NEW underway \in SUBSET air, Step(n, m, underway),
           received' \in [Node -> SUBSET Frag], \A k \in Node : received[k] \subseteq received'[k],
           \A k \in DOMAIN m.ackQueue : \/ m.ackQueue[k] \in AckSet(link[n])
                                        \/ Heard(link[Peer(n)], m.ackQueue[k], received'[n])
    PROVE  EndStep(n)
<1> DEFINE l == link[n]
           new == [m EXCEPT !.out = {}]
<1>1. m \in Links
  BY DEF Handled, LinkInv
<1>2. new \in Links
  <2> DEFINE none == {}
  <2>1. none \in SUBSET Packets /\ new = [m EXCEPT !.out = none]
    OBVIOUS
  <2> HIDE DEF none
  <2> QED
    BY <1>1, <2>1 DEF Links
<1>3. Untouched(m, new) /\ SameSetup(m, new) /\ new.out = {} /\ new.ackQueue = m.ackQueue
      /\ new.outcome = m.outcome
  BY <1>1 DEF Links, Untouched, SameSetup
<1>4. /\ link' = [link EXCEPT ![n] = new]
      /\ \E kept \in SUBSET m.out : air' = underway \cup {[to |-> Peer(n), pkt |-> x] : x \in kept}
  BY DEF Step
<1> HIDE DEF new
<1>5. /\ new.seqNumLossThreshold = m.seqNumLossThreshold
      /\ new.isIdleAckTimerRunning => new.isEnabled
  BY <1>3 DEF SameSetup, Handled
<1>6. Handled(n, new)
  BY <1>2, <1>3, <1>5, HandledUntouched
<1>7. DOMAIN link = Node
  BY DEF ReliabilityInv
<1>8. link'[n] = new /\ DOMAIN link' = Node /\ \A k \in Node \ {n} : link'[k] = link[k]
  BY <1>4, <1>7
<1>9. ASSUME NEW a \in air'
      PROVE  \/ a \in air
             \/ /\ a \in [to : Node, pkt : Packets] /\ a.to = Peer(n)
                /\ Sent(new, AckSet(l), a.pkt)
  <2>1. CASE a \in underway
    BY <2>1
  <2>2. CASE a \notin underway
    <3>1. PICK x \in m.out : a = [to |-> Peer(n), pkt |-> x]
      BY <1>4, <2>2
    <3>2. x \in Packets /\ Peer(n) \in Node
      BY <1>1, PeerIs DEF Links
    <3>3. Sent(m, AckSet(l), x)
      BY DEF Handled
    <3>4. Sent(new, AckSet(l), x)
      BY <1>3, <3>3, SentStays DEF Untouched
    <3> QED
      BY <3>1, <3>2, <3>4
  <2> QED
    BY <2>1, <2>2
<1>10. LinkInv(n, new) /\ Idle(new) /\ Renamed(l, new) /\ LessToDo(l, new)
  BY <1>3, <1>6 DEF Handled, Idle
<1>11. \A f \in MyFrags(n) : Reported(new.outcome[f[1]]) => f \in received[Peer(n)] \/ Tracks(new, f)
  BY <1>6 DEF Handled
<1> QED
  BY <1>3, <1>8, <1>9, <1>10, <1>11 DEF EndStep

\* A step of one end keeps the invariant of both
LEMMA EndStepKeeps ==
    ASSUME ReliabilityInv, NEW n \in Node, EndStep(n)
    PROVE  ReliabilityInv'
<1> DEFINE l == link[n]
           new == link'[n]
           peer == Peer(n)
<1>1. /\ air \in SUBSET [to : Node, pkt : Packets] /\ received \in [Node -> SUBSET Frag]
      /\ \A k \in Node : LinkInv(k, link[k]) /\ Idle(link[k]) /\ LinkNet(k) /\ link[k] \in Links
  BY DEF ReliabilityInv, LinkInv
<1>2. /\ peer \in Node /\ peer # n /\ Peer(peer) = n
      /\ \A k \in Node : k = n \/ k = peer
  BY PeerIs
<1>3. link'[peer] = link[peer] /\ new \in Links
  BY <1>2 DEF EndStep, LinkInv
<1>4. \A k \in Node : received[k] \subseteq received'[k]
  BY DEF EndStep
<1>5. ASSUME NEW s, Heard(l, s, received[peer]) PROVE Heard(new, s, received'[peer])
  <2>1. Heard(new, s, received[peer])
    BY <1>1, <1>3, <1>5, HeardStays DEF EndStep
  <2> QED
    BY <1>2, <1>4, <2>1 DEF Heard
<1>6. ASSUME NEW s, Heard(link[peer], s, received[n]) PROVE Heard(link[peer], s, received'[n])
  BY <1>4, <1>6 DEF Heard
<1>7. \A s \in AckSet(l) : Heard(link[peer], s, received[n])
  BY <1>1, <1>2 DEF LinkNet, AckSet
<1>8. LinkNet(n)'
  <2>1. \A k \in DOMAIN link'[peer].ackQueue : Heard(new, link'[peer].ackQueue[k], received'[peer])
    <3>1. \A k \in DOMAIN link[peer].ackQueue : Heard(l, link[peer].ackQueue[k], received[peer])
      BY <1>1 DEF LinkNet
    <3> QED
      BY <1>3, <1>5, <3>1
  <2>2. ASSUME NEW m \in air', m.to = n, NEW k \in DOMAIN m.pkt.acks
        PROVE  Heard(new, m.pkt.acks[k], received'[peer])
    <3>1. m \in air
      BY <1>2, <2>2 DEF EndStep
    <3>2. Heard(l, m.pkt.acks[k], received[peer])
      BY <1>1, <2>2, <3>1 DEF LinkNet
    <3> QED
      BY <1>5, <3>2
  <2>3. ASSUME NEW m \in air', m.to = peer, m.pkt.txSeq # Nil
        PROVE  Heard(new, m.pkt.txSeq, {m.pkt.frag})
    <3>1. CASE m \in air
      <4>1. Heard(l, m.pkt.txSeq, {m.pkt.frag})
        BY <1>1, <2>3, <3>1 DEF LinkNet
      <4> QED
        BY <1>1, <1>3, <4>1, HeardStays DEF EndStep
    <3>2. CASE Sent(new, AckSet(l), m.pkt)
      BY <2>3, <3>2 DEF Sent
    <3> QED
      BY <3>1, <3>2 DEF EndStep
  <2>4. ASSUME NEW f \in MyFrags(n), Reported(new.outcome[f[1]])
        PROVE  f \in received'[peer] \/ Tracks(new, f)
    <3>1. f \in received[peer] \/ Tracks(new, f)
      BY <2>4 DEF EndStep
    <3> QED
      BY <1>2, <1>4, <3>1
  <2> QED
    BY <2>1, <2>2, <2>3, <2>4 DEF LinkNet
<1>9. LinkNet(peer)'
  <2>1. \A k \in DOMAIN new.ackQueue : Heard(link[peer], new.ackQueue[k], received'[n])
    BY <1>6, <1>7 DEF EndStep
  <2>2. ASSUME NEW m \in air', m.to = peer, NEW k \in DOMAIN m.pkt.acks
        PROVE  Heard(link[peer], m.pkt.acks[k], received'[n])
    <3>1. CASE m \in air
      <4>1. Heard(link[peer], m.pkt.acks[k], received[n])
        BY <1>1, <1>2, <2>2, <3>1 DEF LinkNet
      <4> QED
        BY <1>6, <4>1
    <3>2. CASE Sent(new, AckSet(l), m.pkt)
      BY <1>6, <1>7, <3>2 DEF Sent
    <3> QED
      BY <3>1, <3>2 DEF EndStep
  <2>3. ASSUME NEW m \in air', m.to = n, m.pkt.txSeq # Nil
        PROVE  Heard(link[peer], m.pkt.txSeq, {m.pkt.frag})
    <3>1. m \in air
      BY <1>2, <2>3 DEF EndStep
    <3> QED
      BY <1>1, <1>2, <2>3, <3>1 DEF LinkNet
  <2>4. ASSUME NEW f \in MyFrags(peer), Reported(link[peer].outcome[f[1]])
        PROVE  f \in received'[n] \/ Tracks(link[peer], f)
    <3>1. f \in received[n] \/ Tracks(link[peer], f)
      BY <1>1, <1>2, <2>4 DEF LinkNet
    <3> QED
      BY <1>4, <3>1
  <2> QED
    BY <1>2, <1>3, <2>1, <2>2, <2>3, <2>4 DEF LinkNet
<1>10. \A k \in Node : LinkInv(k, link'[k]) /\ Idle(link'[k])
  BY <1>1, <1>2, <1>3 DEF EndStep
<1>11. \A k \in Node : LinkNet(k)'
  BY <1>2, <1>8, <1>9
<1>12. air' \in SUBSET [to : Node, pkt : Packets]
  BY <1>1 DEF EndStep
<1> QED
  BY <1>10, <1>11, <1>12 DEF ReliabilityInv, EndStep

\* sendNetPacket with reliability on: the fragments are tracked, then sent
LEMMA SendTrackedHandled ==
    ASSUME ReliabilityInv, NEW p \in NetPkt, NEW n, n = From[p], link[n].outcome[p] = "none",
           NEW m, m = SendTracked(link[n], p)
    PROVE  Handled(n, m) /\ AckSet(m) \subseteq AckSet(link[n])
<1> DEFINE l == link[n]
           h == handleOutgoing(l, p)
           seq(i) == (l.lastTxSeqNo + i) % SeqRange
           pkts == [i \in 1..FragCount[p] |-> [frag |-> <<p, i>>, txSeq |-> seq(i)]]
<1>1. n \in Node
  BY ConstantTypes
<1>2. LinkInv(n, l) /\ Idle(l) /\ LinkNet(n) /\ l \in Links /\ l.out = {} /\ NoneLost(l)
  BY <1>1 DEF ReliabilityInv, LinkInv, Idle
<1>3. /\ LinkInv(n, h) /\ NoneLost(h) /\ Renamed(l, h)
      /\ h.ackQueue = l.ackQueue /\ h.out = l.out /\ SameSetup(l, h)
      /\ h.outcome = [l.outcome EXCEPT ![p] = "unacked"]
      /\ \A f \in Frag : Tracks(l, f) \/ f[1] = p => Tracks(h, f)
      /\ \A i \in 1..FragCount[p] : Heard(h, seq(i), {<<p, i>>})
  <2>1. LinkInv(n, h) /\ NoneLost(h) /\ Renamed(l, h) /\ NowTracked(l, h, p)
    BY <1>1, <1>2, HandleOutgoingKeeps
  <2> HIDE DEF h
  <2> QED
    BY <2>1 DEF NowTracked
<1>4. m = SendLpPackets(h, pkts)
  BY DEF SendTracked
<1> HIDE DEF h
<1>5. pkts \in Seq([frag : Frag, txSeq : Numbers \cup {Nil}])
  <2>1. \A i \in 1..FragCount[p] : seq(i) \in Numbers /\ <<p, i>> \in Frag
    BY <1>3, IsFrag DEF Heard
  <2> HIDE DEF seq
  <2>2. \A i \in 1..FragCount[p] : pkts[i] \in [frag : Frag, txSeq : Numbers \cup {Nil}]
    BY <2>1
  <2>3. FragCount[p] \in Nat
    BY ConstantTypes
  <2> HIDE DEF pkts
  <2> DEFINE T == [frag : Frag, txSeq : Numbers \cup {Nil}]
  <2>4. pkts \in [1..FragCount[p] -> T]
    BY <2>2 DEF pkts
  <2> HIDE DEF T
  <2>5. pkts \in Seq(T)
    BY <2>3, <2>4, SMTT(30)
  <2> QED
    BY <2>5 DEF T
<1>6. DOMAIN pkts = 1..FragCount[p]
      /\ \A i \in 1..FragCount[p] : pkts[i].frag = <<p, i>> /\ pkts[i].txSeq = seq(i)
  OBVIOUS
<1> HIDE DEF pkts, seq
<1>7. h \in Links
  BY <1>3 DEF LinkInv
<1>8. /\ m \in Links /\ OnlySends(h, m) /\ AckSet(m) \subseteq AckSet(h)
      /\ \A pkt \in m.out :
            \/ pkt \in h.out
            \/ /\ \E j \in DOMAIN pkts : pkt.frag = pkts[j].frag /\ pkt.txSeq = pkts[j].txSeq
               /\ \A k \in DOMAIN pkt.acks : pkt.acks[k] \in AckSet(h)
  BY <1>4, <1>5, <1>7, SendLpPacketsDoes
<1>9. AckSet(h) = AckSet(l)
  BY <1>3, SMTT(30) DEF AckSet
<1>10. l.outcome \in [NetPkt -> Outcome]
  BY <1>2, LinkFields
<1>11. h.outcome[p] = "unacked" /\ \A q \in NetPkt \ {p} : h.outcome[q] = l.outcome[q]
  BY <1>3, <1>10
<1>12. LessToDo(l, h)
  BY <1>11 DEF LessToDo
<1>13. \A f \in MyFrags(n) : Reported(h.outcome[f[1]]) => f \in received[Peer(n)] \/ Tracks(h, f)
  <2> SUFFICES ASSUME NEW f \in MyFrags(n), Reported(h.outcome[f[1]]), f[1] # p
               PROVE  f \in received[Peer(n)] \/ Tracks(h, f)
    BY <1>3 DEF MyFrags
  <2>1. f \in Frag /\ f[1] \in NetPkt
    BY FragIs DEF MyFrags
  <2>2. Reported(l.outcome[f[1]])
    BY <1>11, <2>1
  <2>3. f \in received[Peer(n)] \/ Tracks(l, f)
    BY <1>2, <2>2 DEF LinkNet
  <2> QED
    BY <1>3, <2>1, <2>3
<1>14. Handled(n, h)
  BY <1>2, <1>3, <1>12, <1>13 DEF Handled, Idle, SameSetup
<1>15. Untouched(h, m) /\ m.seqNumLossThreshold = h.seqNumLossThreshold
       /\ (m.isIdleAckTimerRunning => m.isEnabled)
  BY <1>2, <1>3, <1>8 DEF OnlySends, SameSetup, Untouched, Idle
<1>16. ASSUME NEW pkt \in m.out PROVE pkt \in h.out \/ Sent(m, AckSet(l), pkt)
  <2>1. CASE pkt \notin h.out
    <3>1. PICK j \in DOMAIN pkts : pkt.frag = pkts[j].frag /\ pkt.txSeq = pkts[j].txSeq
      BY <1>8, <2>1
    <3>2. j \in 1..FragCount[p] /\ pkt.frag = <<p, j>> /\ pkt.txSeq = seq(j)
      BY <1>6, <3>1
    <3>3. Heard(h, seq(j), {<<p, j>>})
      BY <1>3, <3>2
    <3>4. Heard(h, pkt.txSeq, {pkt.frag})
      BY <3>2, <3>3
    <3>5. Sent(h, AckSet(l), pkt)
      BY <1>8, <1>9, <2>1, <3>4 DEF Sent
    <3> QED
      BY <1>8, <3>5, SentStays DEF OnlySends
  <2> QED
    BY <2>1
<1>17. Handled(n, m)
  BY <1>1, <1>8, <1>14, <1>15, <1>16, HandledUntouched
<1> QED
  BY <1>8, <1>9, <1>17

\* sendNetPacket with reliability off
LEMMA SendUntrackedHandled ==
    ASSUME ReliabilityInv, NEW p \in NetPkt, NEW n, n = From[p], link[n].outcome[p] = "none",
           NEW m, m = SendUntracked(link[n], p)
    PROVE  Handled(n, m) /\ AckSet(m) \subseteq AckSet(link[n])
<1> DEFINE l == link[n]
           h == [l EXCEPT !.outcome[p] = "untracked"]
           pkts == [i \in 1..FragCount[p] |-> [frag |-> <<p, i>>, txSeq |-> Nil]]
<1>1. n \in Node
  BY ConstantTypes
<1>2. LinkInv(n, l) /\ Idle(l) /\ l \in Links
  BY <1>1 DEF ReliabilityInv, LinkInv
<1>3. m = SendLpPackets(h, pkts)
  BY DEF SendUntracked
<1>4. h \in Links
  <2> DEFINE outcome == [l.outcome EXCEPT ![p] = "untracked"]
  <2>1. outcome \in [NetPkt -> Outcome] /\ h = [l EXCEPT !.outcome = outcome]
    BY <1>2, LinkFields DEF Outcome
  <2> HIDE DEF outcome
  <2> QED
    BY <1>2, <2>1 DEF Links
<1>5. /\ h.out = l.out /\ h.ackQueue = l.ackQueue /\ SameSetup(l, h)
      /\ h.outcome = [l.outcome EXCEPT ![p] = "untracked"]
      /\ h.unackedFrags = l.unackedFrags /\ h.firstUnackedFrag = l.firstUnackedFrag
      /\ h.lastTxSeqNo = l.lastTxSeqNo /\ h.rtoTimers = l.rtoTimers /\ h.netPkt = l.netPkt
      /\ h.acked = l.acked /\ h.failed = l.failed
  BY <1>2 DEF Links, SameSetup
<1>6. l.outcome \in [NetPkt -> Outcome]
  BY <1>2, LinkFields
<1>7. Untouched(l, h)
  BY <1>5, <1>6, SMTT(30) DEF Untouched
<1>8. pkts \in Seq([frag : Frag, txSeq : Numbers \cup {Nil}])
  <2>1. \A i \in 1..FragCount[p] : pkts[i] \in [frag : Frag, txSeq : Numbers \cup {Nil}]
    BY IsFrag
  <2>2. FragCount[p] \in Nat
    BY ConstantTypes
  <2> DEFINE T == [frag : Frag, txSeq : Numbers \cup {Nil}]
  <2>3. pkts \in [1..FragCount[p] -> T]
    BY <2>1
  <2> HIDE DEF pkts, T
  <2>4. pkts \in Seq(T)
    BY <2>2, <2>3, SMTT(30)
  <2> QED
    BY <2>4 DEF T
<1>9. \A j \in DOMAIN pkts : pkts[j].txSeq = Nil
  OBVIOUS
<1> HIDE DEF pkts, h
<1>10. /\ m \in Links /\ OnlySends(h, m) /\ AckSet(m) \subseteq AckSet(h)
       /\ \A pkt \in m.out :
            \/ pkt \in h.out
            \/ /\ \E j \in DOMAIN pkts : pkt.frag = pkts[j].frag /\ pkt.txSeq = pkts[j].txSeq
               /\ \A k \in DOMAIN pkt.acks : pkt.acks[k] \in AckSet(h)
  BY <1>3, <1>4, <1>8, SendLpPacketsDoes
<1>11. AckSet(h) = AckSet(l)
  BY <1>5, SMTT(30) DEF AckSet
<1>12. Untouched(l, m)
  BY <1>7, <1>10 DEF OnlySends, Untouched
<1>13. m.seqNumLossThreshold = l.seqNumLossThreshold /\ (m.isIdleAckTimerRunning => m.isEnabled)
  BY <1>2, <1>5, <1>10 DEF OnlySends, SameSetup, Idle
<1>14. \A pkt \in m.out : pkt \in l.out \/ Sent(m, AckSet(l), pkt)
  BY <1>5, <1>9, <1>10, <1>11 DEF Sent
<1>15. Handled(n, l)
  BY <1>1, IdleHandled
<1>16. Handled(n, m)
  BY <1>1, <1>10, <1>12, <1>13, <1>14, <1>15, HandledUntouched
<1> QED
  BY <1>10, <1>11, <1>16

\* The idle Ack timer runs only while reliability is on, so its loop ends
LEMMA IdleAcksHandled ==
    ASSUME ReliabilityInv, NEW n \in Node, link[n].isIdleAckTimerRunning,
           NEW m, m = SendIdlePackets(link[n])
    PROVE  Handled(n, m) /\ m.ackQueue = <<>>
<1> DEFINE l == link[n]
           acks == {Chunk(l.ackQueue, j, IdleRoom) : j \in 1..Len(l.ackQueue)} \ {<<>>}
           sent == {[frag |-> NoFrag, txSeq |-> Nil, acks |-> a] : a \in acks}
           out == l.out \cup sent
<1>1. LinkInv(n, l) /\ Idle(l) /\ l \in Links
  BY DEF ReliabilityInv, LinkInv
<1>2. l.isEnabled
  BY <1>1 DEF Idle
<1>3. m = [l EXCEPT !.ackQueue = <<>>, !.out = out, !.isIdleAckTimerRunning = FALSE]
  BY <1>2 DEF SendIdlePackets
<1>4. l.ackQueue \in Seq(Numbers) /\ l.out \in SUBSET Packets
  BY <1>1 DEF Links
<1>5. ASSUME NEW a \in acks PROVE Within(a, l.ackQueue)
  <2>1. PICK j \in 1..Len(l.ackQueue) : a = Chunk(l.ackQueue, j, IdleRoom)
    OBVIOUS
  <2>2. j \in Nat \ {0} /\ IdleRoom \in Nat
    BY <1>4, AckFits, SMTT(30)
  <2> QED
    BY <1>4, <2>1, <2>2, ChunkIs
<1> HIDE DEF acks
<1>6. out \in SUBSET Packets
  <2>1. \A a \in acks : a \in Seq(Numbers)
    BY <1>5 DEF Within
  <2>2. sent \in SUBSET Packets
    BY <2>1, SMTT(30) DEF Packets
  <2> QED
    BY <1>4, <2>2
<1>7. \A pkt \in sent : Sent(m, AckSet(l), pkt)
  BY <1>5, SMTT(30) DEF Within, Sent, AckSet
<1>8. \A pkt \in out : pkt \in l.out \/ Sent(m, AckSet(l), pkt)
  BY <1>7
<1> HIDE DEF out
<1>9. m \in Links
  <2> DEFINE queue == <<>>
             off == FALSE
  <2>1. queue \in Seq(Numbers) /\ off \in BOOLEAN
        /\ m = [l EXCEPT !.ackQueue = queue, !.out = out, !.isIdleAckTimerRunning = off]
    BY <1>3, SMTT(30)
  <2> HIDE DEF queue, off
  <2> QED
    BY <1>1, <1>6, <2>1 DEF Links
<1>10. /\ Untouched(l, m) /\ m.seqNumLossThreshold = l.seqNumLossThreshold
       /\ m.out = out /\ m.ackQueue = <<>> /\ ~m.isIdleAckTimerRunning
  BY <1>1, <1>3 DEF Links, Untouched
<1>11. Handled(n, l)
  BY IdleHandled
<1>12. Handled(n, m)
  BY <1>8, <1>9, <1>10, <1>11, HandledUntouched
<1> QED
  BY <1>10, <1>12

\* The Acks of a packet are processed, then its own number is queued to be
\* acknowledged
LEMMA ReceiveHandled ==
    ASSUME ReliabilityInv, NEW n \in Node, NEW a \in air, a.to = n, link[n].isEnabled,
           NEW m, m = processIncomingPacket(link[n], a.pkt)
    PROVE  /\ Handled(n, m)
           /\ \A k \in DOMAIN m.ackQueue :
                 \/ m.ackQueue[k] \in AckSet(link[n])
                 \/ /\ m.ackQueue[k] = a.pkt.txSeq
                    /\ a.pkt.txSeq # Nil /\ a.pkt.frag # NoFrag
<1> DEFINE l == link[n]
           pkt == a.pkt
           h == ProcessAcks(l, pkt.acks)[Len(pkt.acks)]
<1>1. LinkInv(n, l) /\ Idle(l) /\ LinkNet(n) /\ l \in Links /\ NoneLost(l)
  BY DEF ReliabilityInv, LinkInv, Idle
<1>2. pkt \in Packets
  BY DEF ReliabilityInv
<1>3. pkt.acks \in Seq(Numbers) /\ (pkt.txSeq # Nil => pkt.txSeq \in Numbers)
  BY <1>2 DEF Packets
<1>4. \A k \in DOMAIN pkt.acks : Heard(l, pkt.acks[k], received[Peer(n)])
  BY <1>1 DEF LinkNet
<1>5. LinkInv(n, h) /\ Moved(l, h, received[Peer(n)]) /\ NoneLost(h)
  BY <1>1, <1>3, <1>4, ProcessAcksKeeps
<1>6. m = IF pkt.frag # NoFrag /\ pkt.txSeq # Nil
          THEN [h EXCEPT !.ackQueue = Append(h.ackQueue, pkt.txSeq), !.isIdleAckTimerRunning = TRUE]
          ELSE h
  BY DEF processIncomingPacket
<1> HIDE DEF h
<1>7. Handled(n, h)
  BY <1>5, MovedHandled
<1>8. AckSet(h) \subseteq AckSet(l) /\ h \in Links /\ h.isEnabled
  BY <1>5 DEF Moved, Passed, LinkInv, SameSetup
<1>9. CASE ~(pkt.frag # NoFrag /\ pkt.txSeq # Nil)
  BY <1>6, <1>7, <1>8, <1>9 DEF AckSet
<1>10. CASE pkt.frag # NoFrag /\ pkt.txSeq # Nil
  <2> DEFINE queue == Append(h.ackQueue, pkt.txSeq)
             on == TRUE
  <2>1. h.ackQueue \in Seq(Numbers) /\ pkt.txSeq \in Numbers
    BY <1>3, <1>8, <1>10 DEF Links
  <2>2. queue \in Seq(Numbers) /\ on \in BOOLEAN
    BY <2>1, SMTT(30)
  <2>3. \A k \in DOMAIN queue : queue[k] = pkt.txSeq \/ queue[k] \in AckSet(h)
    BY <2>1, SMTT(30) DEF AckSet
  <2>4. m = [h EXCEPT !.ackQueue = queue, !.isIdleAckTimerRunning = on]
    BY <1>6, <1>10
  <2> HIDE DEF queue, on
  <2>5. m \in Links
    BY <1>8, <2>2, <2>4 DEF Links
  <2>6. /\ Untouched(h, m) /\ m.seqNumLossThreshold = h.seqNumLossThreshold
        /\ m.out = h.out /\ m.ackQueue = queue /\ m.isEnabled = h.isEnabled
    BY <1>8, <2>4 DEF Links, Untouched
  <2>7. Handled(n, m)
    BY <1>7, <1>8, <2>5, <2>6, HandledUntouched
  <2> QED
    BY <1>8, <1>10, <2>3, <2>6, <2>7
<1> QED
  BY <1>9, <1>10

\* An RTO timer stands for a fragment that is tracked
LEMMA RtoHandled ==
    ASSUME ReliabilityInv, NEW n \in Node, NEW s \in link[n].rtoTimers,
           NEW m, m = onLpPacketLost(link[n], s)
    PROVE  Handled(n, m) /\ AckSet(m) \subseteq AckSet(link[n])
<1> DEFINE l == link[n]
<1>1. LinkInv(n, l) /\ NoneLost(l) /\ s \in Keys(l) /\ m = onLpPacketLost(l, s)
  BY DEF ReliabilityInv, LinkInv, Idle, ListsOK
<1> HIDE DEF l
<1>2. LinkInv(n, m) /\ Moved(l, m, {}) /\ Recounted(l, m)
  <2>1. PICK R : R = RemovedByLoss(l, s)
    OBVIOUS
  <2> QED
    BY <1>1, <2>1, LossKeeps, SMTT(30)
<1>3. Moved(l, m, received[Peer(n)])
  BY <1>2 DEF Moved, Kept
<1>4. NoneLost(m)
  <2>1. m.seqNumLossThreshold = l.seqNumLossThreshold
    BY <1>2 DEF Moved, SameSetup
  <2> QED
    BY <1>1, <1>2, <2>1 DEF NoneLost, Recounted
<1> QED
  BY <1>2, <1>3, <1>4, MovedHandled DEF l, Moved, Passed

\* setOptions stops the idle Ack timer when it switches reliability off
LEMMA SetOptionsIs ==
    ASSUME ReliabilityInv, NEW n \in Node, SetOptions(n)
    PROVE  EndStep(n)
<1> DEFINE l == link[n]
           on == ~l.isEnabled
           idle == l.isIdleAckTimerRunning /\ ~l.isEnabled
           new == [l EXCEPT !.isEnabled = on, !.isIdleAckTimerRunning = idle]
<1>1. LinkInv(n, l) /\ Idle(l) /\ l \in Links /\ DOMAIN link = Node
  BY DEF ReliabilityInv, LinkInv
<1>2. link' = [link EXCEPT ![n] = new] /\ air' = air /\ received' = received
  BY <1>1 DEF SetOptions
<1>3. on \in BOOLEAN /\ idle \in BOOLEAN /\ (idle => on)
  OBVIOUS
<1> HIDE DEF on, idle
<1>4. new \in Links
  BY <1>1, <1>3 DEF Links
<1>5. /\ Untouched(l, new) /\ new.seqNumLossThreshold = l.seqNumLossThreshold
      /\ new.out = l.out /\ new.ackQueue = l.ackQueue
      /\ new.isEnabled = on /\ new.isIdleAckTimerRunning = idle
  BY <1>1 DEF Links, Untouched
<1> HIDE DEF new
<1>6. Handled(n, l) /\ l.out = {}
  BY IdleHandled
<1>7. Handled(n, new)
  BY <1>3, <1>4, <1>5, <1>6, HandledUntouched
<1>8. link'[n] = new /\ DOMAIN link' = Node /\ \A k \in Node \ {n} : link'[k] = link[k]
  BY <1>1, <1>2
<1>9. LinkInv(n, new) /\ Idle(new) /\ Renamed(l, new) /\ LessToDo(l, new)
  BY <1>5, <1>6, <1>7 DEF Handled, Idle
<1>10. \A f \in MyFrags(n) : Reported(new.outcome[f[1]]) => f \in received[Peer(n)] \/ Tracks(new, f)
  BY <1>7 DEF Handled
<1>11. \A k \in DOMAIN new.ackQueue : new.ackQueue[k] \in AckSet(l)
  BY <1>5 DEF AckSet
<1>12. received' \in [Node -> SUBSET Frag] /\ \A k \in Node : received[k] \subseteq received'[k]
  BY <1>2 DEF ReliabilityInv
<1> QED
  BY <1>2, <1>8, <1>9, <1>10, <1>11, <1>12 DEF EndStep

\* Receiving a packet, with the Acks it carries and the losses they reveal, ends as every
\* handler must.
LEMMA ReceiveIs ==
    ASSUME ReliabilityInv, NEW n \in Node, DoReceivePacket(n)
    PROVE  EndStep(n)
<1>1. PICK a \in {b \in air : b.to = n} :
        /\ Step(n, IF link[n].isEnabled THEN processIncomingPacket(link[n], a.pkt) ELSE link[n],
                air \ {a})
        /\ received' = [received EXCEPT ![n] = @ \cup ({a.pkt.frag} \ {NoFrag})]
  BY DEF DoReceivePacket
<1> DEFINE l == link[n]
           m == IF l.isEnabled THEN processIncomingPacket(l, a.pkt) ELSE l
           rest == air \ {a}
<1>2. a \in air /\ a.to = n /\ a.pkt \in Packets /\ rest \in SUBSET air
  BY DEF ReliabilityInv
<1>3. received \in [Node -> SUBSET Frag] /\ {a.pkt.frag} \ {NoFrag} \subseteq Frag
  BY <1>2 DEF ReliabilityInv, Packets
<1>4. /\ received' \in [Node -> SUBSET Frag]
      /\ \A k \in Node : received[k] \subseteq received'[k]
      /\ {a.pkt.frag} \ {NoFrag} \subseteq received'[n]
  BY <1>1, <1>3
<1>5. Step(n, m, rest)
  BY <1>1
<1>6. /\ Handled(n, m)
      /\ \A k \in DOMAIN m.ackQueue :
            \/ m.ackQueue[k] \in AckSet(l)
            \/ m.ackQueue[k] = a.pkt.txSeq /\ a.pkt.txSeq # Nil /\ a.pkt.frag # NoFrag
  <2>1. CASE l.isEnabled
    BY <1>2, <2>1, ReceiveHandled, SMTT(30)
  <2>2. CASE ~l.isEnabled
    BY <2>2, IdleHandled DEF AckSet
  <2> QED
    BY <2>1, <2>2
<1> HIDE DEF m, rest
<1>7. ASSUME a.pkt.txSeq # Nil, a.pkt.frag # NoFrag
      PROVE  Heard(link[Peer(n)], a.pkt.txSeq, received'[n])
  <2>1. Peer(n) \in Node /\ Peer(Peer(n)) = n
    BY PeerIs
  <2>2. LinkNet(Peer(n))
    BY <2>1 DEF ReliabilityInv
  <2>3. Heard(link[Peer(n)], a.pkt.txSeq, {a.pkt.frag})
    BY <1>2, <1>7, <2>1, <2>2 DEF LinkNet
  <2>4. a.pkt.frag \in received'[n]
    BY <1>4, <1>7
  <2> QED
    BY <2>3, <2>4 DEF Heard
<1>8. \A k \in DOMAIN m.ackQueue : \/ m.ackQueue[k] \in AckSet(l)
                                   \/ Heard(link[Peer(n)], m.ackQueue[k], received'[n])
  BY <1>6, <1>7
<1> QED
  BY <1>2, <1>4, <1>5, <1>6, <1>8, StepIs

\* Every step is one of a single end
LEMMA NextIs ==
    ASSUME ReliabilityInv, [Next]_vars
    PROVE  UNCHANGED vars \/ \E n \in Node : EndStep(n)
<1>1. ASSUME NEW n \in Node, NEW m, Handled(n, m), AckSet(m) \subseteq AckSet(link[n]),
             Step(n, m, air), received' = received
      PROVE  EndStep(n)
  <2>1. received' \in [Node -> SUBSET Frag] /\ \A k \in Node : received[k] \subseteq received'[k]
    BY <1>1 DEF ReliabilityInv
  <2>2. \A k \in DOMAIN m.ackQueue : m.ackQueue[k] \in AckSet(link[n])
    BY <1>1 DEF AckSet
  <2> QED
    BY <1>1, <2>1, <2>2, StepIs
<1>2. ASSUME NEW p \in NetPkt, SendNetPacket(p) PROVE \E n \in Node : EndStep(n)
  <2> DEFINE n == From[p]
             t == SendTracked(link[n], p)
             u == SendUntracked(link[n], p)
  <2>1. n \in Node /\ link[n].outcome[p] = "none" /\ received' = received
        /\ (link[n].isEnabled => Step(n, t, air)) /\ (~link[n].isEnabled => Step(n, u, air))
    BY <1>2, ConstantTypes DEF SendNetPacket
  <2>2. CASE link[n].isEnabled
    <3>1. Handled(n, t) /\ AckSet(t) \subseteq AckSet(link[n])
      BY <2>1, SendTrackedHandled
    <3> QED
      BY <1>1, <2>1, <2>2, <3>1
  <2>3. CASE ~link[n].isEnabled
    <3>1. Handled(n, u) /\ AckSet(u) \subseteq AckSet(link[n])
      BY <2>1, SendUntrackedHandled
    <3> QED
      BY <1>1, <2>1, <2>3, <3>1
  <2> QED
    BY <2>2, <2>3
<1>3. ASSUME NEW n \in Node, RtoTimeout(n) PROVE EndStep(n)
  <2>1. PICK s \in link[n].rtoTimers : Step(n, onLpPacketLost(link[n], s), air) /\ received' = received
    BY <1>3 DEF RtoTimeout
  <2> DEFINE m == onLpPacketLost(link[n], s)
  <2>2. Handled(n, m) /\ AckSet(m) \subseteq AckSet(link[n])
    BY RtoHandled
  <2> HIDE DEF m
  <2> QED
    BY <1>1, <2>1, <2>2 DEF m
<1>4. ASSUME NEW n \in Node, IdleAckTimeout(n) PROVE EndStep(n)
  <2> DEFINE m == SendIdlePackets(link[n])
  <2>1. link[n].isIdleAckTimerRunning /\ Step(n, m, air) /\ received' = received
    BY <1>4 DEF IdleAckTimeout
  <2>2. Handled(n, m) /\ m.ackQueue = <<>>
    BY <2>1, IdleAcksHandled
  <2>3. AckSet(m) \subseteq AckSet(link[n])
    BY <2>2, SMTT(30) DEF AckSet
  <2> HIDE DEF m
  <2> QED
    BY <1>1, <2>1, <2>2, <2>3
<1>5. ASSUME Next PROVE \E n \in Node : EndStep(n)
  BY <1>2, <1>3, <1>4, <1>5, ReceiveIs, SetOptionsIs DEF Next
<1> QED
  BY <1>5

\* The invariant of the two ends holds before the first packet.
LEMMA InitialState == Init => ReliabilityInv
<1> SUFFICES ASSUME Init PROVE ReliabilityInv
  OBVIOUS
<1>1. PICK threshold \in Thresholds : link =
               [n \in Node |->
                 [isEnabled |-> TRUE, seqNumLossThreshold |-> threshold,
                  unackedFrags |-> <<>>, firstUnackedFrag |-> Nil,
                  lastTxSeqNo |-> LastTxSeqNo, rtoTimers |-> {},
                  netPkt |-> [p \in NetPkt |-> {}], didRetx |-> {},
                  outcome |-> [p \in NetPkt |-> "none"], ackQueue |-> <<>>,
                  isIdleAckTimerRunning |-> FALSE, acked |-> {},
                  out |-> {}, failed |-> FALSE]]
  BY DEF Init
<1>2. air = {} /\ received = [n \in Node |-> {}]
  BY DEF Init
<1>3. ASSUME NEW n \in Node PROVE LinkInv(n, link[n]) /\ Idle(link[n]) /\ LinkNet(n)
  <2> DEFINE l == link[n]
             frags == <<>>
             netPkt == [p \in NetPkt |-> {}]
             outcome == [p \in NetPkt |-> "none"]
             queue == <<>>
  <2>1. l = [isEnabled |-> TRUE, seqNumLossThreshold |-> threshold,
             unackedFrags |-> frags, firstUnackedFrag |-> Nil,
             lastTxSeqNo |-> LastTxSeqNo, rtoTimers |-> {},
             netPkt |-> netPkt, didRetx |-> {}, outcome |-> outcome, ackQueue |-> queue,
             isIdleAckTimerRunning |-> FALSE, acked |-> {}, out |-> {}, failed |-> FALSE]
    BY <1>1
  <2>2. frags \in FragMaps /\ DOMAIN frags = {}
    <3>1. {} \in SUBSET Numbers /\ frags \in [{} -> UnackedFrags] /\ DOMAIN frags = {}
      BY SMTT(30)
    <3> QED
      BY <3>1 DEF FragMaps
  <2>3. /\ netPkt \in [NetPkt -> SUBSET Numbers] /\ \A p \in NetPkt : netPkt[p] = {}
        /\ outcome \in [NetPkt -> Outcome] /\ \A p \in NetPkt : outcome[p] = "none"
        /\ queue \in Seq(Numbers) /\ DOMAIN queue = {}
        /\ LastTxSeqNo \in Numbers /\ threshold \in Nat
    BY ConstantTypes, SMTT(30) DEF Outcome, Numbers
  <2> HIDE DEF frags, netPkt, outcome, queue
  <2>4. l \in Links
    BY <2>1, <2>2, <2>3, SMTT(30) DEF Links
  <2>5. /\ Keys(l) = {} /\ l.firstUnackedFrag = Nil /\ l.lastTxSeqNo = LastTxSeqNo
        /\ l.rtoTimers = {} /\ l.netPkt = netPkt /\ l.outcome = outcome /\ l.ackQueue = queue
        /\ ~l.isIdleAckTimerRunning /\ l.acked = {} /\ l.out = {} /\ ~l.failed
    BY <2>1, <2>2, SMTT(30) DEF Keys
  <2>6. Used(l) = 0
    BY <2>3, <2>5, UsedIs, ConstantTypes, SMTT(30)
  <2>7. Cardinality(Spent(n, l)) = 0
    <3>1. Spent(n, l) = {}
      <4>1. \A f \in MyFrags(n) : l.outcome[f[1]] = "none"
        BY <2>3, <2>5, FragIs DEF MyFrags
      <4> QED
        BY <4>1 DEF Spent
    <3> QED
      BY <3>1, FS_EmptySet
  <2>8. LinkInv(n, l)
    BY <2>3, <2>4, <2>5, <2>6, <2>7, SMTT(30) DEF LinkInv, FragsOK, WindowOK, ListsOK, CountsOK
  <2>9. Idle(l)
    BY <2>5 DEF Idle, NoneLost
  <2>10. DOMAIN link[Peer(n)].ackQueue = {}
    BY <1>1, <2>3, PeerIs DEF queue
  <2>11. \A f \in MyFrags(n) : ~Reported(l.outcome[f[1]])
    BY <2>3, <2>5, FragIs DEF MyFrags, Reported
  <2>12. LinkNet(n)
    BY <1>2, <2>10, <2>11 DEF LinkNet
  <2> QED
    BY <2>8, <2>9, <2>12
<1> QED
  BY <1>1, <1>2, <1>3 DEF ReliabilityInv
-----------------------------------------------------------------------------
(* Theorems *)

\* The invariant of both ends and of what is under way between them: it holds
\* after every event that either LpReliability handles.
THEOREM ReliabilityInvariant == Spec => []ReliabilityInv
<1>1. ReliabilityInv /\ [Next]_vars => ReliabilityInv'
  <2> SUFFICES ASSUME ReliabilityInv, [Next]_vars PROVE ReliabilityInv'
    OBVIOUS
  <2>1. CASE UNCHANGED vars
    BY <2>1 DEF vars, ReliabilityInv, LinkNet
  <2>2. CASE \E n \in Node : EndStep(n)
    BY <2>2, EndStepKeeps
  <2> QED
    BY <2>1, <2>2, NextIs
<1> QED
  BY InitialState, <1>1, PTL DEF Spec

\* The state of both ends has its type, and onLpPacketLost retransmits no
\* fragment more than maxRetx times
THEOREM ReliabilityTypeCorrect == Spec => []ReliabilityTypeOK
<1>1. ReliabilityInv => ReliabilityTypeOK
  <2> SUFFICES ASSUME ReliabilityInv, NEW n \in Node
               PROVE  LET l == link[n]
                      IN  /\ l.lastTxSeqNo \in 0..SeqRange - 1
                          /\ Keys(l) \subseteq 0..SeqRange - 1
                          /\ l.firstUnackedFrag \in Keys(l) \cup {Nil}
                          /\ \A s \in Keys(l) : /\ l.unackedFrags[s].frag \in Frag
                                                /\ l.unackedFrags[s].retxCount \in 0..maxRetx
                          /\ l.outcome \in [NetPkt -> Outcome]
                          /\ l.out = {}
    BY DEF ReliabilityTypeOK
  <2> DEFINE l == link[n]
  <2>1. l \in Links /\ WindowOK(l) /\ l.out = {}
    BY DEF ReliabilityInv, LinkInv, Idle
  <2>2. \A s \in Keys(l) : l.unackedFrags[s].retxCount \in 0..maxRetx
    BY <2>1, LinkFields DEF UnackedFrags
  <2>3. l.firstUnackedFrag \in Keys(l) \cup {Nil}
    BY <2>1 DEF WindowOK
  <2> QED
    BY <2>1, <2>2, <2>3, LinkFields DEF Numbers
<1> QED
  BY ReliabilityInvariant, <1>1, PTL

\* No BOOST_ASSERT of LpReliability fails, no invalid iterator is used, and the
\* loop of the idle Ack timer ends, whatever the link loses or reorders
THEOREM IteratorsAreValid == Spec => []NoInvalidIterator
<1>1. ReliabilityInv => NoInvalidIterator
  BY DEF ReliabilityInv, LinkInv, NoInvalidIterator
<1> QED
  BY ReliabilityInvariant, <1>1, PTL

\* m_firstUnackedFrag is the oldest unacknowledged fragment, also when the
\* numbers have wrapped around
THEOREM WindowStartsAtOldest == Spec => []FirstIsOldest
<1>1. ReliabilityInv => FirstIsOldest
  <2> SUFFICES ASSUME ReliabilityInv, NEW n \in Node
               PROVE  LET l == link[n]
                          Age(s) == (l.lastTxSeqNo - s) % SeqRange
                      IN  IF Keys(l) = {} THEN l.firstUnackedFrag = Nil
                          ELSE /\ l.firstUnackedFrag \in Keys(l)
                               /\ \A s \in Keys(l) : Age(s) <= Age(l.firstUnackedFrag)
    BY DEF FirstIsOldest
  <2> DEFINE l == link[n]
             Age(s) == (l.lastTxSeqNo - s) % SeqRange
  <2>1. l \in Links /\ WindowOK(l) /\ FragsOK(n, l)
    BY DEF ReliabilityInv, LinkInv
  <2>2. /\ l.lastTxSeqNo \in Numbers /\ Keys(l) \in SUBSET Numbers /\ Used(l) \in Numbers
        /\ \A s \in Keys(l) : Order(s) < Used(l)
    BY <2>1, LinkFields DEF FragsOK
  <2>3. ASSUME NEW s \in Keys(l) PROVE Age(s) = Used(l) - 1 - Order(s)
    <3> DEFINE x == l.lastTxSeqNo - s
               r == x % SeqRange
    <3>1. x \in Int /\ s \in Numbers /\ Order(s) < Used(l)
      BY <2>2, SMTT(30) DEF Numbers
    <3>2. /\ x \in Numbers => r = x
          /\ x \in (-SeqRange)..(-1) => r = x + SeqRange
      BY <3>1, Remainder
    <3> HIDE DEF r
    <3>3. r = Used(l) - 1 - Order(s)
      BY <2>2, <3>1, <3>2, OrderIs, UsedIs, ConstantTypes, SMTT(30) DEF Numbers
    <3> QED
      BY <3>3 DEF r
  <2>4. \A s \in Keys(l) : Order(s) \in Int
    BY <2>2, OrderIs, SMTT(30) DEF Numbers
  <2> HIDE DEF Age
  <2>5. Keys(l) # {} => l.firstUnackedFrag \in Keys(l)
                        /\ \A s \in Keys(l) : Age(s) <= Age(l.firstUnackedFrag)
    BY <2>1, <2>2, <2>3, <2>4, SMTT(30) DEF WindowOK, Numbers
  <2> QED
    BY <2>1, <2>5 DEF WindowOK, Age
<1> QED
  BY ReliabilityInvariant, <1>1, PTL

\* The lists of the network packets and the RTO timers name exactly the
\* unacknowledged fragments
THEOREM ListsAndTimersAreExact == Spec => []ListsAndTimersExact
<1>1. ReliabilityInv => ListsAndTimersExact
  BY DEF ReliabilityInv, LinkInv, ListsOK, ListsAndTimersExact
<1> QED
  BY ReliabilityInvariant, <1>1, PTL

\* nGreaterSeqAcks is the number of acknowledged fragments that were sent later,
\* and findLostLpPackets leaves no fragment that has reached the threshold
THEOREM LaterAcksAreCounted == Spec => []CountsLaterAcks
<1>1. ReliabilityInv => CountsLaterAcks
  <2> SUFFICES ASSUME ReliabilityInv, NEW n \in Node, NEW s \in Keys(link[n])
               PROVE  /\ link[n].unackedFrags[s].nGreaterSeqAcks =
                            Cardinality({a \in link[n].acked : Order(a) > Order(s)})
                      /\ link[n].unackedFrags[s].nGreaterSeqAcks
                            \in 0..(link[n].seqNumLossThreshold - 1) \cup {0}
    BY DEF CountsLaterAcks
  <2> DEFINE l == link[n]
             c == l.unackedFrags[s].nGreaterSeqAcks
  <2>1. l \in Links /\ CountsOK(l) /\ NoneLost(l)
    BY DEF ReliabilityInv, LinkInv, Idle
  <2>2. c \in Nat /\ l.seqNumLossThreshold \in Nat
    BY <2>1, LinkFields DEF UnackedFrags, Links
  <2>3. c = Cardinality({a \in l.acked : Order(a) > Order(s)})
    BY <2>1 DEF CountsOK, Later
  <2>4. c = 0 \/ c < l.seqNumLossThreshold
    BY <2>1 DEF NoneLost
  <2> QED
    BY <2>2, <2>3, <2>4, SMTT(30)
<1> QED
  BY ReliabilityInvariant, <1>1, PTL

\* Every fragment of a network packet that counts as acknowledged has arrived
THEOREM AckedIsReceived == Spec => []AckedWasReceived
<1>1. ReliabilityInv => AckedWasReceived
  <2> SUFFICES ASSUME ReliabilityInv, NEW p \in NetPkt,
                      link[From[p]].outcome[p] \in {"acknowledged", "retransmitted"},
                      NEW f \in Frag, f[1] = p
               PROVE  f \in received[Peer(From[p])]
    BY DEF AckedWasReceived
  <2> DEFINE n == From[p]
             l == link[n]
  <2>1. n \in Node /\ f \in MyFrags(n)
    BY ConstantTypes DEF MyFrags
  <2>2. ListsOK(l) /\ LinkNet(n)
    BY <2>1 DEF ReliabilityInv, LinkInv
  <2>3. f \in received[Peer(n)] \/ Tracks(l, f)
    BY <2>1, <2>2 DEF LinkNet, Reported
  <2>4. ~Tracks(l, f)
    BY <2>2, SMTT(30) DEF ListsOK, Tracks, NetPktOf
  <2> QED
    BY <2>3, <2>4
<1> QED
  BY ReliabilityInvariant, <1>1, PTL

\* A step that touches the unacknowledged fragments without sending a network
\* packet leaves less to do, and the end of a network packet is final
THEOREM ThereIsLessToDo == Spec => AlwaysLessToDo
<1>1. ReliabilityInv /\ [Next]_vars => [\A n \in Node : LessToDo(link[n], link'[n])]_vars
  <2> SUFFICES ASSUME ReliabilityInv, [Next]_vars, ~UNCHANGED vars, NEW k \in Node
               PROVE  LessToDo(link[k], link'[k])
    OBVIOUS
  <2>1. PICK n \in Node : EndStep(n)
    BY NextIs
  <2>2. CASE k = n
    BY <2>1, <2>2 DEF EndStep
  <2>3. CASE k # n
    <3>1. link'[k] = link[k]
      BY <2>1, <2>3 DEF EndStep
    <3> QED
      BY <3>1 DEF LessToDo
  <2> QED
    BY <2>2, <2>3
<1> QED
  BY ReliabilityInvariant, <1>1, PTL DEF Spec, AlwaysLessToDo
=============================================================================
