------------------------------ MODULE ValLink ------------------------------
(***************************************************************************)
(* How a ValPacket crosses the air: ValLinkService cuts it into fragments  *)
(* that fit the MTU and numbers them (val-link-service.cpp,                *)
(* lp-fragmenter.cpp), the network device broadcasts each fragment         *)
(* (ndn-net-device-transport.cpp), and LpReassembler puts them together    *)
(* again at each receiver or gives up (lp-reassembler.cpp).                *)
(*                                                                         *)
(* Bytes are counted, not carried: a packet has the sizes of its header    *)
(* fields and of its NDN packet, and a fragment knows the packet it was    *)
(* cut from, so a reassembled block shows whose bytes it is made of.       *)
(***************************************************************************)
EXTENDS Integers

CONSTANTS
    Sender,         \* vehicles that transmit
    Receiver,       \* vehicles that hear them
    Msg,            \* ValPackets
    Size,           \* Size[m]: octets of the NDN packet
    HeaderSize,     \* HeaderSize[m]: octets of the ValHeader and the LP fields
    MTU,            \* of the network device
    nMaxFragments,  \* the options of LpFragmenter and of LpReassembler
    SeqMod,         \* lp::Sequence is an integer modulo SeqMod
    MaxSends        \* bound on the transmissions of a behaviour

\* Neither an NDN packet nor a ValHeader is empty
ASSUME SizeAssumption ==
    /\ Size \in [Msg -> Nat \ {0}]
    /\ HeaderSize \in [Msg -> Nat \ {0}]
\* BOOST_ASSERT(mtu == MTU_UNLIMITED || mtu > 0) in sendValPacket
ASSUME MtuAssumption == MTU \in Nat /\ MTU > 12
ASSUME FragmentsAssumption == nMaxFragments \in Nat /\ nMaxFragments > 0
ASSUME SeqAssumption == SeqMod \in Nat /\ SeqMod > 2

VARIABLES
    lastSeq,    \* lastSeq[s]: m_lastSeqNo
    overMtu,    \* nOutOverMtu > 0: a fragment was refused as over the MTU
    air,        \* fragments on their way, as <<receiver, fragment>>
    parts,      \* parts[r]: the fragments stored in m_partialPackets of r
    dropTimer,  \* dropTimer[r]: the keys whose partial packet has a live timer
    sent,       \* the packets given to doSendValPacket
    got,        \* got[r]: the blocks given to receiveValPacket
    lost,       \* history: <<r, m>> when a fragment of m was lost or given up
    nSent       \* how many packets were given to doSendValPacket

vars == <<lastSeq, overMtu, air, parts, dropTimer, sent, got, lost, nSent>>
-----------------------------------------------------------------------------
(* Sizes *)

Min2(a, b) == IF a <= b THEN a ELSE b

\* tlv::sizeOfVarNumber for TLV-LENGTHs, sizeOfNonNegativeInteger for values
VarNumber(n) ==
    IF n < 253 THEN 1 ELSE IF n < 65536 THEN 3 ELSE IF n < 65536 * 65536 THEN 5 ELSE 9
NonNegative(n) ==
    IF n < 256 THEN 1 ELSE IF n < 65536 THEN 2 ELSE IF n < 65536 * 65536 THEN 4 ELSE 8

\* A TLV block with a one-octet TLV-TYPE
Tlv(n) == 1 + VarNumber(n) + n

\* lp::Packet::wireEncode of a packet that only carries header and Fragment
PlainSize(m) == Tlv(HeaderSize[m] + Tlv(Size[m]))

MAX_SINGLE_FRAG_OVERHEAD == (1 + 9) + (1 + 1 + 8) + (1 + 9)
MAX_FRAG_OVERHEAD == (1 + 9) + (1 + 1 + 8) + (1 + 1 + 8) + (1 + 1 + 8) + (1 + 9)
CONGESTION_MARK_SIZE == 3 + 1 + 8

\* sendValPacket: room is kept for a congestion mark
mtu == MTU - CONGESTION_MARK_SIZE

\* LpFragmenter::fragmentPacket
FitsInOne(m) == MAX_SINGLE_FRAG_OVERHEAD + PlainSize(m) <= mtu
TooSmallMtu(m) == MAX_FRAG_OVERHEAD + HeaderSize[m] + 1 > mtu

\* Mutant: the other LP fields are not counted on the first fragment
FirstPayloadNoHeader(m) == Min2(Size[m], mtu - MAX_FRAG_OVERHEAD)

FirstPayload(m) == Min2(Size[m], mtu - HeaderSize[m] - MAX_FRAG_OVERHEAD)
PayloadSize == mtu - MAX_FRAG_OVERHEAD
RestSize(m) == Size[m] - FirstPayload(m)

FragCount == [m \in Msg |->
    IF FitsInOne(m) THEN 1
    ELSE 1 + RestSize(m) \div PayloadSize
           + (IF RestSize(m) % PayloadSize # 0 THEN 1 ELSE 0)]

\* The octets of the NDN packet in fragment i of m
FragBegin(m, i) == IF i = 0 THEN 0 ELSE FirstPayload(m) + (i - 1) * PayloadSize
FragEnd(m, i) == IF i = 0 THEN FirstPayload(m)
                 ELSE Min2(Size[m], FragBegin(m, i) + PayloadSize)

Fragmentable(m) ==
    FitsInOne(m) \/ (~TooSmallMtu(m) /\ FragCount[m] <= nMaxFragments)

\* The encoded size of fragment i of m with Sequence, FragIndex and FragCount,
\* and with the mark of checkCongestionLevel when marked
Octets(m, i, marked) ==
    IF FragCount[m] = 1
    THEN Tlv(HeaderSize[m] + Tlv(Size[m]) + (IF marked THEN 5 ELSE 0))
    ELSE Tlv(10 + Tlv(NonNegative(i)) + Tlv(NonNegative(FragCount[m]))
             + (IF i = 0 THEN HeaderSize[m] ELSE 0)
             + Tlv(FragEnd(m, i) - FragBegin(m, i))
             + (IF marked THEN 5 ELSE 0))
-----------------------------------------------------------------------------
(* Sequence numbers and keys *)

SeqNo == 0..(SeqMod - 1)

Plus(a, b) == IF a + b < SeqMod THEN a + b ELSE a + b - SeqMod
Minus(a, b) == IF a >= b THEN a - b ELSE a - b + SeqMod

\* m_lastSeqNo(-2): the first fragment is numbered SeqMod - 1
FIRST_LAST_SEQ == SeqMod - 2
Unsequenced == SeqMod

\* How many sequence numbers s has used
Used(s) == Minus(lastSeq[s], FIRST_LAST_SEQ)

Fragment == [msg : Msg, idx : Nat, count : Nat, seq : SeqNo \cup {Unsequenced},
             from : Sender]

\* receiveFromNetDevice builds the Packet without an endpoint: the address the
\* device reports (from) is not used
remoteEndpoint(f) == 0

\* Mutant: the message identifier is the sequence number itself
KeyWithoutIndex(f) == <<remoteEndpoint(f), f.seq>>

Key(f) == <<remoteEndpoint(f), Minus(f.seq, f.idx)>>

\* Mutant: every packet is numbered from the start
FragmentsRestarted(s, m) ==
    {[msg |-> m, idx |-> i, count |-> FragCount[m],
      seq |-> IF FragCount[m] = 1 THEN Unsequenced ELSE Plus(FIRST_LAST_SEQ, i + 1),
      from |-> s] : i \in 0..(FragCount[m] - 1)}

\* fragmentPacket and assignSequences; one fragment gets no sequence number
Fragments(s, m) ==
    {[msg |-> m, idx |-> i, count |-> FragCount[m],
      seq |-> IF FragCount[m] = 1 THEN Unsequenced ELSE Plus(lastSeq[s], i + 1),
      from |-> s] : i \in 0..(FragCount[m] - 1)}
-----------------------------------------------------------------------------
(* Reassembly *)

\* A block of the fragments F: the header fields of the first fragment, and
\* for each piece of the body the packet it comes from
Block(F) ==
    LET piece(i) == (CHOOSE f \in F : f.idx = i).msg
        first == CHOOSE f \in F : f.idx = 0
    IN [hdr |-> piece(0), body |-> [i \in 0..(first.count - 1) |-> piece(i)]]

Whole == [m \in Msg |-> [hdr |-> m, body |-> [i \in 0..(FragCount[m] - 1) |-> m]]]

\* Pieces of packets that differ in size do not parse (tlv::Error: DROP)
Decodes(b) == \A i, j \in DOMAIN b.body : Size[b.body[i]] = Size[b.body[j]]

\* receiveFragment: the checks before the fragment is looked at
Acceptable(f) ==
    /\ f.idx < f.count
    /\ f.count <= nMaxFragments
    /\ f.count = 1 \/ f.seq # Unsequenced

\* The partial packet f belongs to
Stored(r, f) == {g \in parts[r] : Key(g) = Key(f)}

\* "FragCount changed" and "fragment already received"
Refused(r, f) == \E g \in Stored(r, f) : g.count # f.count \/ g.idx = f.idx

\* nReceivedFragments = fragCount: with no index twice, every index is there
Completes(r, f) == {g.idx : g \in Stored(r, f) \cup {f}} = 0..(f.count - 1)

HandUp(r, b) ==
    IF Decodes(b)
    THEN /\ got' = [got EXCEPT ![r] = @ \cup {b}]
         /\ UNCHANGED lost
    ELSE /\ lost' = lost \cup {<<r, b.body[i]>> : i \in DOMAIN b.body}
         /\ UNCHANGED got

\* Mutant: the drop timer is set when the partial packet is created, as a
\* plain EventId that the next fragment cancels
StoreCancelsTimer(r, f) ==
    /\ parts' = [parts EXCEPT ![r] = @ \cup {f}]
    /\ dropTimer' = [dropTimer EXCEPT ![r] =
                        IF Stored(r, f) = {} THEN @ \cup {Key(f)} ELSE @ \ {Key(f)}]
    /\ UNCHANGED <<got, lost>>

\* The timer of an incomplete packet is set again at every new fragment;
\* assigning to the ScopedEventId cancels the one before
Store(r, f) ==
    /\ parts' = [parts EXCEPT ![r] = @ \cup {f}]
    /\ dropTimer' = [dropTimer EXCEPT ![r] = @ \cup {Key(f)}]
    /\ UNCHANGED <<got, lost>>

\* Erasing the PartialPacket destroys its ScopedEventId
Reassemble(r, f) ==
    /\ HandUp(r, Block(Stored(r, f) \cup {f}))
    /\ parts' = [parts EXCEPT ![r] = @ \ Stored(r, f)]
    /\ dropTimer' = [dropTimer EXCEPT ![r] = @ \ {Key(f)}]

\* LpReassembler::receiveFragment, called by doReceivePacket
ReceiveFragment(r, f) ==
    \/ /\ ~Acceptable(f)
       /\ UNCHANGED <<parts, dropTimer, got, lost>>
    \/ /\ Acceptable(f)
       /\ f.count = 1
       /\ HandUp(r, Block({f}))
       /\ UNCHANGED <<parts, dropTimer>>
    \/ /\ Acceptable(f)
       /\ f.count > 1
       /\ Refused(r, f)
       /\ UNCHANGED <<parts, dropTimer, got, lost>>
    \/ /\ Acceptable(f)
       /\ f.count > 1
       /\ ~Refused(r, f)
       /\ IF Completes(r, f) THEN Reassemble(r, f) ELSE Store(r, f)
-----------------------------------------------------------------------------
Init ==
    /\ lastSeq = [s \in Sender |-> FIRST_LAST_SEQ]
    /\ overMtu = FALSE
    /\ air = {}
    /\ parts = [r \in Receiver |-> {}]
    /\ dropTimer = [r \in Receiver |-> {}]
    /\ sent = {}
    /\ got = [r \in Receiver |-> {}]
    /\ lost = {}
    /\ nSent = 0

\* doSendValPacket, sendValPacket and sendLpPacket.  When marked, the send queue
\* is congested and checkCongestionLevel may mark any of the fragments.  The
\* bound on Used stands for a sequence number space that is not used up.
SendValPacket(s, m, marked) ==
    LET out == Fragments(s, m)
        fit == {f \in out : Octets(m, f.idx, marked) <= MTU}
    IN /\ nSent < MaxSends
       /\ Fragmentable(m)
       /\ Used(s) + FragCount[m] < SeqMod
       /\ lastSeq' = IF FragCount[m] = 1 THEN lastSeq
                     ELSE [lastSeq EXCEPT ![s] = Plus(@, FragCount[m])]
       /\ overMtu' = (overMtu \/ fit # out)
       /\ air' = air \cup (Receiver \X fit)
       /\ lost' = IF fit = out THEN lost ELSE lost \cup (Receiver \X {m})
       /\ sent' = sent \cup {m}
       /\ nSent' = nSent + 1
       /\ UNCHANGED <<parts, dropTimer, got>>

\* "fragmentation error": ++nFragmentationErrors, the packet is dropped
FragmentationError(m) ==
    /\ nSent < MaxSends
    /\ ~Fragmentable(m)
    /\ sent' = sent \cup {m}
    /\ nSent' = nSent + 1
    /\ lost' = lost \cup (Receiver \X {m})
    /\ UNCHANGED <<lastSeq, overMtu, air, parts, dropTimer, got>>

\* A fragment arrives; the device may deliver it again later when dup
Receive(r, f, dup) ==
    /\ <<r, f>> \in air
    /\ air' = IF dup THEN air ELSE air \ {<<r, f>>}
    /\ ReceiveFragment(r, f)
    /\ UNCHANGED <<lastSeq, overMtu, sent, nSent>>

\* A fragment is not heard
Lose(r, f) ==
    /\ <<r, f>> \in air
    /\ air' = air \ {<<r, f>>}
    /\ lost' = lost \cup {<<r, f.msg>>}
    /\ UNCHANGED <<lastSeq, overMtu, parts, dropTimer, sent, got, nSent>>

\* timeoutPartialPacket: no new fragment within reassemblyTimeout
Timeout(r, k) ==
    LET old == {f \in parts[r] : Key(f) = k}
    IN /\ k \in dropTimer[r]
       /\ parts' = [parts EXCEPT ![r] = @ \ old]
       /\ dropTimer' = [dropTimer EXCEPT ![r] = @ \ {k}]
       /\ lost' = lost \cup {<<r, f.msg>> : f \in old}
       /\ UNCHANGED <<lastSeq, overMtu, air, sent, got, nSent>>

Next ==
    \/ \E s \in Sender, m \in Msg, marked \in BOOLEAN : SendValPacket(s, m, marked)
    \/ \E m \in Msg : FragmentationError(m)
    \/ \E x \in air, dup \in BOOLEAN : Receive(x[1], x[2], dup)
    \/ \E x \in air : Lose(x[1], x[2])
    \/ \E r \in Receiver : \E k \in dropTimer[r] : Timeout(r, k)

Spec == Init /\ [][Next]_vars

\* A fragment on the air arrives or is lost after the propagation delay.  The
\* drop timers need no fairness: nothing waits for one.
Arrival(r) == \E x \in air : x[1] = r /\ Receive(r, x[2], FALSE)

Fairness == \A r \in Receiver : WF_vars(Arrival(r))

FairSpec == Spec /\ Fairness
-----------------------------------------------------------------------------
Blocks == {Whole[m] : m \in Msg}

Channel == INSTANCE ValChannel
    WITH Packet <- Blocks, sent <- {Whole[m] : m \in sent}

\* Every reachable value has the type the declarations give it; in particular
\* m_lastSeqNo stays within lp::Sequence when it wraps.
LinkTypeOK ==
    /\ lastSeq \in [Sender -> SeqNo]
    /\ overMtu \in BOOLEAN
    /\ air \subseteq Receiver \X Fragment
    /\ parts \in [Receiver -> SUBSET Fragment]
    /\ dropTimer \in [Receiver -> SUBSET ({0} \X SeqNo)]
    /\ sent \subseteq Msg
    /\ nSent \in Nat
    /\ lost \subseteq Receiver \X Msg

\* The link refines the channel: what is handed up is a packet that was sent,
\* header and body, whatever is lost, repeated or reordered on the air, when
\* numbers wrap around and when a partial packet times out under its rest.
ImplementsChannel == Channel!Spec

\* Every partial packet has a drop timer, and a timer a partial packet: no
\* early return of receiveFragment leaves fragments behind for ever, and no
\* timer fires on a key that was erased and used again.
PartialHasTimer ==
    \A r \in Receiver : dropTimer[r] = {Key(f) : f \in parts[r]}

\* No fragment exceeds the MTU, marked as congested or not, and the check in
\* sendLpPacket never drops a piece of a packet.
NeverOverMtu == ~overMtu

\* A packet is handed up at a receiver unless one of its fragments was lost or
\* given up there: duplicates, reordering and other packets do not keep
\* receiveFragment from completing it.  (What is sent, handed up or lost stays
\* so: again and again nothing that was sent is missing.)
DeliveredUnlessLost ==
    []<>(\A r \in Receiver, m \in sent : Whole[m] \in got[r] \/ <<r, m>> \in lost)
-----------------------------------------------------------------------------
(* What makes the refinement inductive: the fragments that are on the air or *)
(* stored, and the packets they were cut from.                               *)

Live == {x[2] : x \in air} \cup UNION {parts[r] : r \in Receiver}

\* The position of the packet of f among the sequence numbers of its sender
Ordinal(f) == Minus(Minus(f.seq, f.idx), Plus(FIRST_LAST_SEQ, 1))

CutFrom(f) ==
    /\ f.msg \in sent
    /\ Fragmentable(f.msg)
    /\ f.count = FragCount[f.msg]
    /\ f.idx < f.count
    /\ f.count < SeqMod
    /\ f.count = 1 \/ (f.seq \in SeqNo /\ Ordinal(f) + f.count <= Used(f.from))

LinkInv ==
    /\ LinkTypeOK
    /\ \A f \in Live : CutFrom(f)
    /\ \A f, g \in Live : f.count > 1 /\ g.count > 1 /\ Key(f) = Key(g) => f.msg = g.msg
    /\ \A r \in Receiver : \A f \in parts[r] : f.count > 1
    /\ got \in [Receiver -> SUBSET {Whole[m] : m \in sent}]
    /\ PartialHasTimer
    /\ NeverOverMtu
=============================================================================
