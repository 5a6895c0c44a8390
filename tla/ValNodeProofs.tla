---------------------------- MODULE ValNodeProofs ----------------------------
(***************************************************************************)
(* Proofs about one node, for every set of vehicles, positions, nonces,    *)
(* names, producers and consumers, every hop limit and every number of     *)
(* tries: the safety properties of ValPft, and what the handlers of        *)
(* ValNode do to the tables of NFD and of VAL.                             *)
(*                                                                         *)
(* No property of the PFT is inductive alone: that cancel() reaches the    *)
(* event of an entry needs m_timerId to name it (TimerOwned), that removal *)
(* by packet takes only the intended entry needs PftUnique, and that the   *)
(* callbacks find the state they expect needs both.  NodeInv is their      *)
(* conjunction for the object store o, table P and events T of one node;   *)
(* EntryInv is the part of it that concerns a single address.              *)
(*                                                                         *)
(* NodeOK is the invariant of one node's tables between two events: their  *)
(* types, and the agreements between them that the code relies on (IFNT    *)
(* with PIT, CS with FIB).  Each handler has a lemma that says what it     *)
(* does to a context; the last ones show that the arrival of a Data which  *)
(* starts in NodeOK ends in it and asks the PFT only for steps of ValPft.  *)
(* ValNetProofs goes on with Interests.                                    *)
(***************************************************************************)
EXTENDS ValNet, FiniteSetTheorems, TLAPS

\* Leaves are for Zenon unless they name another prover.
USE ZenonT(30)

(* The pending forwarding table *)

Unique(o, P) ==
    \A a, b \in P : SamePacket(o[a].pkt, o[b].pkt) => a = b

EntryInv(x, a, P, T) ==
    /\ a \in P => x \in Entry
    /\ \A k \in Kind : <<a, k>> \in T =>
         /\ a \in P
         /\ x.timerId = k
         /\ (k = "forward") <=> (x.state = WAITING_FORWARDING)
         /\ ~x.quiet
    /\ a \in P /\ (x.state = WAITING_FORWARDING \/ IsData(x.pkt) \/ ~x.quiet)
         => \E k \in Kind : <<a, k>> \in T
    /\ <<a, "forward">> \in T => x.sent = 0
    /\ <<a, "impAck">> \in T =>
         /\ x.sent + x.tries = 1 + MAX_IMPLICIT_ACK_TRIES
         /\ x.tries > 0

NodeInv(o, P, T) ==
    /\ o \in [EntryId -> Entry \cup {NoEntry}]
    /\ P \in SUBSET EntryId
    /\ T \in SUBSET (EntryId \X Kind)
    /\ Unique(o, P)
    /\ \A a \in EntryId : EntryInv(o[a], a, P, T)

IInv ==
    /\ TypeOK
    /\ \A n \in Node : NodeInv(obj[n], pft[n], timer[n])
-----------------------------------------------------------------------------
\* Collecting unreferenced objects changes no object that the table holds, so
\* it is enough to establish the invariant before collection.
LEMMA CollectKeeps ==
    ASSUME NEW o, NEW P, NEW T, NodeInv(o, P, T)
    PROVE  NodeInv(Collect(o, P, T), P, T)
<1> DEFINE c == Collect(o, P, T)
<1>1. c \in [EntryId -> Entry \cup {NoEntry}]
  BY DEF NodeInv, Collect
<1>2. \A a \in P : c[a] = o[a]
  BY DEF NodeInv, Collect
<1>3. Unique(c, P)
  BY <1>2 DEF NodeInv, Unique
<1>4. ASSUME NEW a \in EntryId PROVE EntryInv(c[a], a, P, T)
  <2>1. EntryInv(o[a], a, P, T)
    BY DEF NodeInv
  <2>2. CASE a \in P
    BY <1>2, <2>1, <2>2
  <2>3. CASE a \notin P
    BY <2>1, <2>3 DEF EntryInv, Kind
  <2>. QED
    BY <2>2, <2>3
<1>. QED
  BY <1>1, <1>3, <1>4 DEF NodeInv

\* A handler of node n that leaves n's part of the state in NodeInv preserves
\* the invariant of all nodes.
LEMMA InstallKeeps ==
    ASSUME IInv, NEW n \in Node, NEW o, NEW P, NEW T,
           Install(n, o, P, T), NodeInv(o, P, T)
    PROVE  IInv'
<1>1. NodeInv(Collect(o, P, T), P, T)
  BY CollectKeeps
<1>2. /\ obj'[n] = Collect(o, P, T)
      /\ pft'[n] = P
      /\ timer'[n] = T
  BY DEF Install, IInv, TypeOK
<1>3. \A m \in Node \ {n} :
        obj'[m] = obj[m] /\ pft'[m] = pft[m] /\ timer'[m] = timer[m]
  BY DEF Install, IInv, TypeOK
<1>4. \A m \in Node : NodeInv(obj'[m], pft'[m], timer'[m])
  BY <1>1, <1>2, <1>3 DEF IInv
<1>5. TypeOK'
  BY <1>1 DEF Install, IInv, TypeOK, NodeInv
<1>. QED
  BY <1>4, <1>5 DEF IInv

\* A handler that rewrites the entry at one address and touches neither the
\* table nor the events of the others has only that entry to answer for.
LEMMA UpdateKeeps ==
    ASSUME NEW o, NEW P, NEW T, NodeInv(o, P, T),
           NEW a \in EntryId, NEW y \in Entry,
           NEW P2 \in SUBSET EntryId, NEW T2 \in SUBSET (EntryId \X Kind),
           \A b \in EntryId \ {a} : b \in P2 <=> b \in P,
           \A b \in EntryId \ {a}, k \in Kind : <<b, k>> \in T2 <=> <<b, k>> \in T,
           a \in P2 => \A b \in P \ {a} : ~SamePacket(y.pkt, o[b].pkt),
           EntryInv(y, a, P2, T2)
    PROVE  NodeInv([o EXCEPT ![a] = y], P2, T2)
<1> DEFINE q == [o EXCEPT ![a] = y]
<1>1. /\ q \in [EntryId -> Entry \cup {NoEntry}]
      /\ q[a] = y
      /\ \A b \in EntryId \ {a} : q[b] = o[b]
  BY DEF NodeInv
<1>2. Unique(q, P2)
  BY <1>1 DEF NodeInv, Unique, SamePacket
<1>3. ASSUME NEW b \in EntryId PROVE EntryInv(q[b], b, P2, T2)
  <2>1. CASE b = a
    BY <1>1, <2>1
  <2>2. CASE b # a
    <3>1. EntryInv(o[b], b, P, T) /\ q[b] = o[b]
      BY <1>1, <2>2 DEF NodeInv
    <3>2. /\ b \in P2 <=> b \in P
          /\ \A k \in Kind : <<b, k>> \in T2 <=> <<b, k>> \in T
      BY <2>2
    <3>3. /\ <<b, "forward">> \in T2 <=> <<b, "forward">> \in T
          /\ <<b, "impAck">> \in T2 <=> <<b, "impAck">> \in T
      BY <3>2 DEF Kind
    <3>. QED
      BY <3>1, <3>2, <3>3 DEF EntryInv
  <2>. QED
    BY <2>1, <2>2
<1>. QED
  BY <1>1, <1>2, <1>3 DEF NodeInv

\* Cancelling and removing any set of entries of the table keeps the rest sound.
LEMMA CancelKeeps ==
    ASSUME NEW n \in Node, IInv, NEW S \in SUBSET pft[n]
    PROVE  NodeInv(obj[n], pft[n] \ S, Cancel(n, timer[n], S))
<1> DEFINE o == obj[n]
           P == pft[n]
           T == timer[n]
           T2 == Cancel(n, timer[n], S)
<1>1. NodeInv(o, P, T)
  BY DEF IInv
<1>2. T2 \in SUBSET (EntryId \X Kind) /\ P \ S \in SUBSET EntryId
  BY <1>1 DEF NodeInv, Cancel
<1>3. Unique(o, P \ S)
  BY <1>1 DEF NodeInv, Unique
<1>4. ASSUME NEW a \in EntryId PROVE EntryInv(o[a], a, P \ S, T2)
  <2>1. EntryInv(o[a], a, P, T)
    BY <1>1 DEF NodeInv
  <2>2. CASE a \in S
    <3>1. \A k \in Kind : <<a, k>> \notin T2
      BY <2>1, <2>2 DEF EntryInv, Cancel
    <3>. QED
      BY <2>2, <3>1 DEF EntryInv, Kind
  <2>3. CASE a \notin S
    <3>1. \A k \in Kind : <<a, k>> \in T2 <=> <<a, k>> \in T
      BY <2>3 DEF Cancel
    <3>2. /\ <<a, "forward">> \in T2 <=> <<a, "forward">> \in T
          /\ <<a, "impAck">> \in T2 <=> <<a, "impAck">> \in T
      BY <3>1 DEF Kind
    <3>. QED
      BY <2>1, <2>3, <3>1, <3>2 DEF EntryInv
  <2>. QED
    BY <2>2, <2>3
<1>. QED
  BY <1>1, <1>2, <1>3, <1>4 DEF NodeInv

\* Removal by packet (PFT::removeEntry) takes exactly the matched entry.
LEMMA MatchingIsSingle ==
    ASSUME NEW n \in Node, IInv, NEW a \in pft[n]
    PROVE  /\ Matching(n, obj[n][a].pkt) \in SUBSET {a}
           /\ a \in Matching(n, obj[n][a].pkt)
<1>1. NodeInv(obj[n], pft[n], timer[n])
  BY DEF IInv
<1>2. obj[n][a] \in Entry
  BY <1>1 DEF NodeInv, EntryInv
<1>3. obj[n][a].pkt \in ValPacket
  BY <1>2 DEF Entry
<1>4. obj[n][a].pkt.type \in {INTEREST_SET, DATA_SET}
  BY <1>3 DEF ValPacket, Interests, Datas
<1>5. SamePacket(obj[n][a].pkt, obj[n][a].pkt)
  BY <1>4 DEF SamePacket, IsData
<1>. QED
  BY <1>1, <1>5 DEF NodeInv, Unique, Matching

\* The same holds of removal by the heard packet that matched the entry.
LEMMA MatchingHeard ==
    ASSUME NEW n \in Node, IInv, NEW p, NEW a \in Matching(n, p)
    PROVE  Matching(n, p) = {a}
<1>1. NodeInv(obj[n], pft[n], timer[n])
  BY DEF IInv
<1>2. ASSUME NEW b \in Matching(n, p) PROVE b = a
  <2>1. a \in pft[n] /\ b \in pft[n]
    BY DEF Matching
  <2>2. SamePacket(obj[n][a].pkt, obj[n][b].pkt)
    BY DEF Matching, SamePacket
  <2>. QED
    BY <1>1, <2>1, <2>2 DEF NodeInv, Unique
<1>. QED
  BY <1>2
-----------------------------------------------------------------------------
\* The invariant of the Pending Forwarding Table holds while the tables are empty.
LEMMA InitIInv == Init => IInv
<1> SUFFICES ASSUME Init PROVE IInv
  OBVIOUS
<1>1. TypeOK
  BY DEF Init, TypeOK
<1>2. ASSUME NEW n \in Node PROVE NodeInv(obj[n], pft[n], timer[n])
  <2>1. /\ obj[n] = [a \in EntryId |-> NoEntry]
        /\ pft[n] = {}
        /\ timer[n] = {}
    BY DEF Init
  <2>. QED
    BY <2>1 DEF NodeInv, Unique, EntryInv
<1>. QED
  BY <1>1, <1>2 DEF IInv

\* Registering a packet to send keeps the invariant.
LEMMA RegisterOutgoingKeeps ==
    ASSUME IInv, NEW n \in Node, NEW p \in ValPacket, NEW S,
           RegisterOutgoing(n, p, S)
    PROVE  IInv'
<1> DEFINE gone == Satisfied(n, S)
           P == pft[n] \ gone
           T == Cancel(n, timer[n], gone)
<1>1. PICK a \in EntryId :
        /\ FirstFree(n, a)
        /\ Install(n, [obj[n] EXCEPT ![a] = NewEntry(p)],
                   P \cup {a}, T \cup {<<a, "forward">>})
  BY DEF RegisterOutgoing
<1>2. NodeInv(obj[n], P, T)
  BY CancelKeeps DEF Satisfied
<1>3. NewEntry(p) \in Entry
  BY TriesAssumption, SMTT(30) DEF NewEntry, Entry, WAITING_FORWARDING,
     WAITING_IMPLICIT_ACK, FORWARDING_TRIES, Kind
<1>4. a \notin P /\ \A k \in Kind : <<a, k>> \notin T
  BY <1>1 DEF FirstFree, Free, Cancel
<1>5. EntryInv(NewEntry(p), a, P \cup {a}, T \cup {<<a, "forward">>})
  BY <1>3, <1>4 DEF EntryInv, NewEntry, Kind
<1>6. \A b \in P : ~SamePacket(p, obj[n][b].pkt)
  BY DEF RegisterOutgoing, Matching, SamePacket
<1>7. NodeInv([obj[n] EXCEPT ![a] = NewEntry(p)], P \cup {a},
              T \cup {<<a, "forward">>})
  <2>1. P \cup {a} \in SUBSET EntryId
    BY <1>2 DEF NodeInv
  <2>2. T \cup {<<a, "forward">>} \in SUBSET (EntryId \X Kind)
    BY <1>2, SMTT(30) DEF NodeInv, Kind
  <2>3. NewEntry(p).pkt = p
    BY DEF NewEntry
  <2>. QED
    BY <1>2, <1>3, <1>5, <1>6, <2>1, <2>2, <2>3, UpdateKeeps, SMTT(30)
<1>. QED
  BY <1>1, <1>7, InstallKeeps

\* Cancelling the pending forwards of what was satisfied keeps the invariant.
LEMMA CancelSatisfiedKeeps ==
    ASSUME IInv, NEW n \in Node, NEW S, CancelSatisfied(n, S)
    PROVE  IInv'
<1>1. NodeInv(obj[n], pft[n] \ Satisfied(n, S),
              Cancel(n, timer[n], Satisfied(n, S)))
  BY CancelKeeps DEF Satisfied
<1>. QED
  BY <1>1, InstallKeeps DEF CancelSatisfied

\* Common part of forwarding cancellation and implicit ACK: the matched entry
\* loses its event and is silenced, and a Data entry leaves the table.
LEMMA SilenceKeeps ==
    ASSUME IInv, NEW n \in Node, NEW p, NEW a \in Matching(n, p),
           NEW y \in Entry,
           y.pkt = obj[n][a].pkt, y.state = WAITING_IMPLICIT_ACK, y.quiet,
           Install(n, [obj[n] EXCEPT ![a] = y],
                   IF IsData(obj[n][a].pkt) THEN pft[n] \ Matching(n, p) ELSE pft[n],
                   Cancel(n, timer[n], {a}))
    PROVE  IInv'
<1> DEFINE P2 == IF IsData(obj[n][a].pkt) THEN pft[n] \ Matching(n, p) ELSE pft[n]
           T2 == Cancel(n, timer[n], {a})
<1>1. NodeInv(obj[n], pft[n], timer[n])
  BY DEF IInv
<1>2. Matching(n, p) = {a}
  BY MatchingHeard
<1>3. a \in pft[n] /\ a \in EntryId
  BY <1>1 DEF Matching, NodeInv
<1>4. EntryInv(obj[n][a], a, pft[n], timer[n])
  BY <1>1, <1>3 DEF NodeInv
<1>5. \A k \in Kind : <<a, k>> \notin T2
  BY <1>4 DEF EntryInv, Cancel
<1>6. EntryInv(y, a, P2, T2)
  <2>1. IsData(y.pkt) => a \notin P2
    BY <1>2
  <2>2. y.state # WAITING_FORWARDING
    BY SMTT(30) DEF WAITING_FORWARDING, WAITING_IMPLICIT_ACK
  <2>. QED
    BY <1>5, <2>1, <2>2 DEF EntryInv, Kind
<1>7. /\ P2 \in SUBSET EntryId
      /\ T2 \in SUBSET (EntryId \X Kind)
  BY <1>1 DEF NodeInv, Cancel
<1>8. \A b \in EntryId \ {a} : b \in P2 <=> b \in pft[n]
  BY <1>2
<1>9. \A b \in EntryId \ {a}, k \in Kind :
        <<b, k>> \in T2 <=> <<b, k>> \in timer[n]
  BY DEF Cancel
<1>10. \A b \in pft[n] \ {a} : ~SamePacket(y.pkt, obj[n][b].pkt)
  BY <1>1, <1>3 DEF NodeInv, Unique
<1>11. NodeInv([obj[n] EXCEPT ![a] = y], P2, T2)
  BY <1>1, <1>3, <1>6, <1>7, <1>8, <1>9, <1>10, UpdateKeeps
<1>. QED
  BY <1>11, InstallKeeps

\* What the operations of pft::Entry do to an entry.
LEMMA WaitingImpAckType ==
    ASSUME NEW x \in Entry, x.state = WAITING_FORWARDING
    PROVE  /\ WaitingImpAck(x) \in Entry
           /\ WaitingImpAck(x).pkt = x.pkt
           /\ WaitingImpAck(x).state = WAITING_IMPLICIT_ACK
           /\ WaitingImpAck(x).tries = MAX_IMPLICIT_ACK_TRIES
           /\ WaitingImpAck(x).sent = x.sent
           /\ WaitingImpAck(x).quiet = x.quiet
<1>1. MAX_IMPLICIT_ACK_TRIES \in FORWARDING_TRIES..MAX_IMPLICIT_ACK_TRIES
  BY TriesAssumption, SMTT(30) DEF FORWARDING_TRIES
<1>. QED
  BY <1>1 DEF WaitingImpAck, Entry

\* An entry whose timer is cancelled is an entry, of the same packet and state.
LEMMA SilencedType ==
    ASSUME NEW x \in Entry
    PROVE  /\ Silenced(x) \in Entry
           /\ Silenced(x).pkt = x.pkt
           /\ Silenced(x).state = x.state
           /\ Silenced(x).quiet
  BY DEF Silenced, Entry

\* Cancelling a forward because another node's was overheard keeps the invariant.
LEMMA ForwardingCancelledKeeps ==
    ASSUME IInv, NEW n \in Node, NEW p, ForwardingCancelled(n, p)
    PROVE  IInv'
<1>1. PICK a \in Matching(n, p) :
        /\ obj[n][a].state = WAITING_FORWARDING
        /\ Install(n, [obj[n] EXCEPT ![a] = Silenced(WaitingImpAck(obj[n][a]))],
                   IF IsData(obj[n][a].pkt) THEN pft[n] \ Matching(n, p) ELSE pft[n],
                   Cancel(n, timer[n], {a}))
  BY DEF ForwardingCancelled
<1> DEFINE y == Silenced(WaitingImpAck(obj[n][a]))
<1>2. obj[n][a] \in Entry
  BY DEF IInv, NodeInv, EntryInv, Matching
<1>3. y \in Entry /\ y.pkt = obj[n][a].pkt /\ y.state = WAITING_IMPLICIT_ACK /\ y.quiet
  BY <1>1, <1>2, WaitingImpAckType, SilencedType
<1>. QED
  BY <1>1, <1>3, SilenceKeeps

\* An implicit acknowledgement overheard keeps the invariant.
LEMMA ImplicitAckKeeps ==
    ASSUME IInv, NEW n \in Node, NEW p, ImplicitAck(n, p)
    PROVE  IInv'
<1>1. PICK a \in Matching(n, p) :
        /\ obj[n][a].state = WAITING_IMPLICIT_ACK
        /\ Install(n, [obj[n] EXCEPT ![a] = Silenced(obj[n][a])],
                   IF IsData(obj[n][a].pkt) THEN pft[n] \ Matching(n, p) ELSE pft[n],
                   Cancel(n, timer[n], {a}))
  BY DEF ImplicitAck
<1>2. obj[n][a] \in Entry
  BY DEF IInv, NodeInv, EntryInv, Matching
<1>3. /\ Silenced(obj[n][a]) \in Entry
      /\ Silenced(obj[n][a]).pkt = obj[n][a].pkt
      /\ Silenced(obj[n][a]).state = WAITING_IMPLICIT_ACK
      /\ Silenced(obj[n][a]).quiet
  BY <1>1, <1>2, SilencedType
<1>. QED
  BY <1>1, <1>3, SilenceKeeps

\* Common part of the two callbacks: the event that ran is gone, the entry is
\* rewritten, and either a new implicit-ACK event is armed or the entry is
\* removed.
LEMMA FiredKeeps ==
    ASSUME IInv, NEW n \in Node, NEW a \in pft[n], NEW k \in Kind,
           <<a, k>> \in timer[n],
           NEW y \in Entry, NEW again \in BOOLEAN,
           y.pkt = obj[n][a].pkt, y.state = WAITING_IMPLICIT_ACK,
           y.timerId = "impAck", ~y.quiet,
           again => /\ y.tries > 0
                    /\ y.sent + y.tries = 1 + MAX_IMPLICIT_ACK_TRIES,
           Install(n, [obj[n] EXCEPT ![a] = y],
                   IF again THEN pft[n] ELSE pft[n] \ Matching(n, obj[n][a].pkt),
                   IF again THEN (timer[n] \ {<<a, k>>}) \cup {<<a, "impAck">>}
                            ELSE timer[n] \ {<<a, k>>})
    PROVE  IInv'
<1> DEFINE P2 == IF again THEN pft[n] ELSE pft[n] \ Matching(n, obj[n][a].pkt)
           T2 == IF again THEN (timer[n] \ {<<a, k>>}) \cup {<<a, "impAck">>}
                          ELSE timer[n] \ {<<a, k>>}
<1>1. NodeInv(obj[n], pft[n], timer[n]) /\ a \in EntryId
  BY DEF IInv, NodeInv
<1>2. Matching(n, obj[n][a].pkt) = {a}
  BY MatchingIsSingle, SMTT(30)
<1>3. EntryInv(obj[n][a], a, pft[n], timer[n])
  BY <1>1 DEF NodeInv
<1>4. \A j \in Kind : <<a, j>> \in timer[n] => j = k
  BY <1>3 DEF EntryInv
<1>5. <<a, "forward">> \notin T2 /\ (<<a, "impAck">> \in T2 <=> again)
  BY <1>4 DEF Kind
<1>6. EntryInv(y, a, P2, T2)
  <2>1. y.state # WAITING_FORWARDING
    BY SMTT(30) DEF WAITING_FORWARDING, WAITING_IMPLICIT_ACK
  <2>2. CASE again
    BY <1>5, <2>1, <2>2 DEF EntryInv, Kind
  <2>3. CASE ~again
    BY <1>2, <1>5, <2>3 DEF EntryInv, Kind
  <2>. QED
    BY <2>2, <2>3
<1>7. P2 \in SUBSET EntryId /\ T2 \in SUBSET (EntryId \X Kind)
  BY <1>1, SMTT(30) DEF NodeInv, Kind
<1>8. \A b \in EntryId \ {a} : b \in P2 <=> b \in pft[n]
  BY <1>2
<1>9. \A b \in EntryId \ {a}, j \in Kind :
        <<b, j>> \in T2 <=> <<b, j>> \in timer[n]
  OBVIOUS
<1>10. \A b \in pft[n] \ {a} : ~SamePacket(y.pkt, obj[n][b].pkt)
  BY <1>1 DEF NodeInv, Unique
<1>11. NodeInv([obj[n] EXCEPT ![a] = y], P2, T2)
  BY <1>1, <1>6, <1>7, <1>8, <1>9, <1>10, UpdateKeeps, SMTT(30)
<1>. QED
  BY <1>11, InstallKeeps

\* The forwarding timer, which sends the packet and arms the acknowledgement timer or drops the
\* entry, keeps the invariant.
LEMMA ForwardingTimerKeeps ==
    ASSUME IInv, NEW n \in Node, NEW a \in EntryId, ForwardingTimer(n, a)
    PROVE  IInv'
<1> DEFINE x == obj[n][a]
           z == Transmitted(x)
           y == SetTimer(WaitingImpAck(z), "impAck")
           last == IsData(x.pkt) /\ x.pkt.hopC <= 2
<1>1. NodeInv(obj[n], pft[n], timer[n])
  BY DEF IInv
<1>2. <<a, "forward">> \in timer[n] /\ EntryInv(x, a, pft[n], timer[n])
  BY <1>1 DEF ForwardingTimer, NodeInv
<1>3. /\ a \in pft[n]
      /\ x \in Entry
      /\ x.state = WAITING_FORWARDING
      /\ x.sent = 0
      /\ ~x.quiet
  BY <1>2 DEF EntryInv, Kind
<1>4. /\ z \in Entry
      /\ z.pkt = x.pkt
      /\ z.state = x.state
      /\ z.quiet = x.quiet
      /\ z.sent = 1
  BY <1>3, SMTT(30) DEF Transmitted, Entry
<1>5. WaitingImpAck(z) \in Entry
  BY <1>3, <1>4, WaitingImpAckType
<1>6. /\ y \in Entry
      /\ y.pkt = WaitingImpAck(z).pkt
      /\ y.state = WaitingImpAck(z).state
      /\ y.tries = WaitingImpAck(z).tries
      /\ y.sent = WaitingImpAck(z).sent
      /\ y.quiet = WaitingImpAck(z).quiet
      /\ y.timerId = "impAck"
  BY <1>5 DEF SetTimer, Entry, Kind
<1>7. /\ y.pkt = x.pkt
      /\ y.state = WAITING_IMPLICIT_ACK
      /\ y.sent = 1
      /\ y.tries = MAX_IMPLICIT_ACK_TRIES
      /\ ~y.quiet
  BY <1>3, <1>4, <1>6, WaitingImpAckType
<1>8. y.tries > 0 /\ y.sent + y.tries = 1 + MAX_IMPLICIT_ACK_TRIES
  BY <1>7, TriesAssumption, SMTT(30)
<1>9. Install(n, [obj[n] EXCEPT ![a] = y],
              IF ~last THEN pft[n] ELSE pft[n] \ Matching(n, x.pkt),
              IF ~last
                THEN (timer[n] \ {<<a, "forward">>}) \cup {<<a, "impAck">>}
                ELSE timer[n] \ {<<a, "forward">>})
  <2>1. Due(x, "forward")
    BY <1>3 DEF Due
  <2>. QED
    BY <2>1 DEF ForwardingTimer
<1>10. (~last) \in BOOLEAN /\ "forward" \in Kind
  BY DEF Kind
<1>. QED
  BY <1>2, <1>3, <1>6, <1>7, <1>8, <1>9, <1>10, FiredKeeps

\* The acknowledgement timer, which retransmits and then re-arms or gives up, keeps the
\* invariant.
LEMMA ImpAckTimerKeeps ==
    ASSUME IInv, NEW n \in Node, NEW a \in EntryId, ImpAckTimer(n, a)
    PROVE  IInv'
<1> DEFINE x == obj[n][a]
           z == Transmitted(x)
           y == OneLessTry(z)
           again == y.tries > 0
<1>1. NodeInv(obj[n], pft[n], timer[n])
  BY DEF IInv
<1>2. <<a, "impAck">> \in timer[n] /\ EntryInv(x, a, pft[n], timer[n])
  BY <1>1 DEF ImpAckTimer, NodeInv
<1>3. /\ a \in pft[n]
      /\ x \in Entry
      /\ x.state # WAITING_FORWARDING
      /\ x.timerId = "impAck"
      /\ x.sent + x.tries = 1 + MAX_IMPLICIT_ACK_TRIES
      /\ x.tries > 0
      /\ ~x.quiet
  BY <1>2 DEF EntryInv, Kind
<1>4. x.state = WAITING_IMPLICIT_ACK
  BY <1>3 DEF Entry
<1>5. /\ z \in Entry
      /\ z.pkt = x.pkt
      /\ z.state = x.state
      /\ z.tries = x.tries
      /\ z.timerId = x.timerId
      /\ z.quiet = x.quiet
      /\ z.sent = x.sent + 1
  BY <1>3, SMTT(30) DEF Transmitted, Entry
<1>6. /\ y \in Entry
      /\ y.pkt = x.pkt
      /\ y.state = x.state
      /\ y.timerId = x.timerId
      /\ y.quiet = x.quiet
      /\ y.tries = x.tries - 1
      /\ y.sent = x.sent + 1
  BY <1>3, <1>5, TriesAssumption, SMTT(30) DEF OneLessTry, Entry, FORWARDING_TRIES
<1>7. y.sent + y.tries = 1 + MAX_IMPLICIT_ACK_TRIES
  BY <1>3, <1>6, TriesAssumption, SMTT(30) DEF Entry, FORWARDING_TRIES
<1>8. Install(n, [obj[n] EXCEPT ![a] = y],
              IF again THEN pft[n] ELSE pft[n] \ Matching(n, x.pkt),
              IF again
                THEN (timer[n] \ {<<a, "impAck">>}) \cup {<<a, "impAck">>}
                ELSE timer[n] \ {<<a, "impAck">>})
  <2>1. Due(x, "impAck")
    BY <1>4 DEF Due
  <2>. QED
    BY <2>1 DEF ImpAckTimer
<1>9. again \in BOOLEAN /\ "impAck" \in Kind
  BY SMTT(30) DEF Kind
<1>. QED
  BY <1>2, <1>3, <1>4, <1>6, <1>7, <1>8, <1>9, FiredKeeps
-----------------------------------------------------------------------------
\* Every step of the table keeps the invariant.
LEMMA StepIInv == IInv /\ [Next]_vars => IInv'
<1> SUFFICES ASSUME IInv, [Next]_vars PROVE IInv'
  OBVIOUS
<1>1. CASE UNCHANGED vars
  BY <1>1 DEF vars, IInv, TypeOK
<1>2. ASSUME NEW n \in Node, NEW p \in ValPacket,
             \/ RegisterOutgoing(n, p, {})
             \/ IsData(p) /\ \E S \in SUBSET Nonce : RegisterOutgoing(n, p, S)
      PROVE  IInv'
  BY <1>2, RegisterOutgoingKeeps
<1>3. ASSUME NEW n \in Node, NEW S \in SUBSET Nonce, CancelSatisfied(n, S)
      PROVE  IInv'
  BY <1>3, CancelSatisfiedKeeps
<1>4. ASSUME NEW n \in Node, NEW p \in ValPacket, ForwardingCancelled(n, p)
      PROVE  IInv'
  BY <1>4, ForwardingCancelledKeeps
<1>5. ASSUME NEW n \in Node, NEW p \in ValPacket, ImplicitAck(n, p)
      PROVE  IInv'
  BY <1>5, ImplicitAckKeeps
<1>6. ASSUME NEW n \in Node, NEW a \in EntryId, ForwardingTimer(n, a)
      PROVE  IInv'
  BY <1>6, ForwardingTimerKeeps
<1>7. ASSUME NEW n \in Node, NEW a \in EntryId, ImpAckTimer(n, a)
      PROVE  IInv'
  BY <1>7, ImpAckTimerKeeps
<1>. QED
  BY <1>1, <1>2, <1>3, <1>4, <1>5, <1>6, <1>7 DEF Next

\* The strengthened invariant holds in every reachable state of the PFT.
THEOREM Inductive == Spec => []IInv
  BY InitIInv, StepIInv, PTL DEF Spec

\* The variables of ValPft keep their types: in particular no entry ever has
\* fewer than FORWARDING_TRIES or more than MAX_IMPLICIT_ACK_TRIES tries.
THEOREM TypeCorrect == Spec => []TypeOK
<1>1. IInv => TypeOK
  BY DEF IInv
<1>. QED
  BY Inductive, <1>1, PTL

\* findMatch, addEntry and removeEntry never face two candidates.
THEOREM Uniqueness == Spec => []PftUnique
<1>1. IInv => PftUnique
  BY DEF IInv, NodeInv, Unique, PftUnique
<1>. QED
  BY Inductive, <1>1, PTL

\* No scheduled callback outlives its entry's place in the table, and cancel()
\* on m_timerId always reaches the one live event.
THEOREM TimersOwned == Spec => []TimerOwned
<1>1. IInv => TimerOwned
  BY DEF IInv, NodeInv, EntryInv, TimerOwned
<1>. QED
  BY Inductive, <1>1, PTL

\* An entry without an event is an Interest that a heard packet has cancelled or
\* acknowledged; everything else in the table is sent again or given up in time.
THEOREM NeverStalls == Spec => []NothingStalls
<1>1. IInv => NothingStalls
  BY DEF IInv, NodeInv, EntryInv, NothingStalls, Armed
<1>. QED
  BY Inductive, <1>1, PTL

\* No registration puts its packet on the air more than 1 + MAX_IMPLICIT_ACK_TRIES
\* times.
THEOREM Budgeted == Spec => []TransmissionBudget
<1>1. ASSUME IInv, NEW n \in Node, NEW a \in EntryId
      PROVE  /\ <<a, "forward">> \in timer[n] => obj[n][a].sent = 0
             /\ <<a, "impAck">> \in timer[n] =>
                  /\ obj[n][a].sent + obj[n][a].tries = 1 + MAX_IMPLICIT_ACK_TRIES
                  /\ obj[n][a].tries > 0
  <2>1. EntryInv(obj[n][a], a, pft[n], timer[n])
    BY <1>1 DEF IInv, NodeInv
  <2>. QED
    BY <2>1 DEF EntryInv
<1>2. IInv => TransmissionBudget
  BY <1>1 DEF TransmissionBudget
<1>. QED
  BY Inductive, <1>2, PTL

\* A cancelled or acknowledged entry is never transmitted again.
THEOREM StaysQuiet == Spec => []QuietStaysQuiet
<1>1. IInv => QuietStaysQuiet
  BY DEF IInv, NodeInv, EntryInv, QuietStaysQuiet, Armed
<1>. QED
  BY Inductive, <1>1, PTL
-----------------------------------------------------------------------------
(* What the steps of ValPft do to the packets a node holds *)

\* The entries of the PFTs keep their packets, and forwarding timers start only
\* at node n, for packets of New.
PftMoves(n, New) ==
    \A m \in Node :
        /\ \A a \in pft'[m] : \/ a \in pft[m] /\ obj'[m][a].pkt = obj[m][a].pkt
                              \/ m = n /\ obj'[m][a].pkt \in New
        /\ \A a \in EntryId : <<a, "forward">> \in timer'[m] =>
               <<a, "forward">> \in timer[m] \/ (m = n /\ obj'[m][a].pkt \in New)

\* A step that installs tables in which only packets of New are new moves the node by New.
LEMMA InstallMoves ==
    ASSUME IInv, NEW n \in Node, NEW o \in [EntryId -> Entry \cup {NoEntry}],
           NEW P \in SUBSET EntryId, NEW T, Install(n, o, P, T), NEW New,
           \A a \in P : \/ a \in pft[n] /\ o[a].pkt = obj[n][a].pkt
                        \/ o[a].pkt \in New,
           \A a \in EntryId : <<a, "forward">> \in T =>
               <<a, "forward">> \in timer[n] \/ (a \in P /\ o[a].pkt \in New)
    PROVE  PftMoves(n, New)
<1>1. /\ pft \in [Node -> SUBSET EntryId]
      /\ timer \in [Node -> SUBSET (EntryId \X Kind)]
      /\ obj \in [Node -> [EntryId -> Entry \cup {NoEntry}]]
  BY DEF IInv, TypeOK
<1>2. /\ pft'[n] = P /\ timer'[n] = T /\ obj'[n] = Collect(o, P, T)
      /\ \A m \in Node \ {n} : pft'[m] = pft[m] /\ timer'[m] = timer[m] /\ obj'[m] = obj[m]
  BY <1>1 DEF Install
<1>3. \A a \in P : obj'[n][a] = o[a]
  BY <1>2 DEF Collect
<1> QED BY <1>2, <1>3, SMTT(30) DEF PftMoves

\* A step that changes nothing moves nothing.
LEMMA NothingMoves ==
    ASSUME NEW n \in Node, UNCHANGED vars, NEW New
    PROVE  PftMoves(n, New)
  BY DEF vars, PftMoves

\* What the invariant says of one node's table.
LEMMA NodeParts ==
    ASSUME IInv, NEW n \in Node
    PROVE  /\ obj[n] \in [EntryId -> Entry \cup {NoEntry}]
           /\ pft[n] \in SUBSET EntryId
           /\ timer[n] \in SUBSET (EntryId \X Kind)
           /\ \A a \in pft[n] : obj[n][a] \in Entry
           /\ \A a, b \in pft[n] : SamePacket(obj[n][a].pkt, obj[n][b].pkt) => a = b
           /\ \A a \in EntryId, k \in Kind : <<a, k>> \in timer[n] =>
                  a \in pft[n] /\ obj[n][a].timerId = k
<1>1. NodeInv(obj[n], pft[n], timer[n])
  BY DEF IInv
<1> QED BY <1>1 DEF NodeInv, EntryInv, Unique

\* Registering a packet adds that packet and no other.
LEMMA RegisterMoves ==
    ASSUME IInv, NEW n \in Node, NEW p \in ValPacket, NEW S, RegisterOutgoing(n, p, S)
    PROVE  PftMoves(n, {p})
<1> DEFINE gone == Satisfied(n, S)
<1>1. PICK a \in EntryId :
          Install(n, [obj[n] EXCEPT ![a] = NewEntry(p)], (pft[n] \ gone) \cup {a},
                  Cancel(n, timer[n], gone) \cup {<<a, "forward">>})
  BY DEF RegisterOutgoing
<1> DEFINE o == [obj[n] EXCEPT ![a] = NewEntry(p)]
           P == (pft[n] \ gone) \cup {a}
           T == Cancel(n, timer[n], gone) \cup {<<a, "forward">>}
<1>2. NewEntry(p) \in Entry /\ NewEntry(p).pkt = p
  BY TriesAssumption, SMTT(30) DEF NewEntry, Entry, WAITING_FORWARDING, FORWARDING_TRIES, Kind
<1>3. o \in [EntryId -> Entry \cup {NoEntry}] /\ P \in SUBSET EntryId
  BY <1>2, NodeParts
<1>4. \A b \in P : (b \in pft[n] /\ o[b].pkt = obj[n][b].pkt) \/ o[b].pkt \in {p}
  BY <1>2, NodeParts, SMTT(30)
<1>5. \A b \in EntryId : <<b, "forward">> \in T =>
          <<b, "forward">> \in timer[n] \/ (b \in P /\ o[b].pkt \in {p})
  BY <1>2, NodeParts DEF Cancel
<1>6. Install(n, o, P, T)
  BY <1>1
<1> HIDE DEF o, P, T
<1> QED BY <1>3, <1>4, <1>5, <1>6, InstallMoves

\* Cancelling pending forwards adds no packet.
LEMMA CancelMoves ==
    ASSUME IInv, NEW n \in Node, NEW S, CancelSatisfied(n, S)
    PROVE  PftMoves(n, {})
<1> DEFINE gone == Satisfied(n, S)
           o == obj[n]
           P == pft[n] \ gone
           T == Cancel(n, timer[n], gone)
<1>1. Install(n, o, P, T)
  BY DEF CancelSatisfied
<1>2. o \in [EntryId -> Entry \cup {NoEntry}] /\ P \in SUBSET EntryId
  BY NodeParts
<1>3. \A a \in EntryId : <<a, "forward">> \in T => <<a, "forward">> \in timer[n]
  BY DEF Cancel
<1>4. \A b \in P : b \in pft[n] /\ o[b].pkt = obj[n][b].pkt
  OBVIOUS
<1> HIDE DEF o, P, T
<1> QED BY <1>1, <1>2, <1>3, <1>4, InstallMoves, SMTT(30)

\* A step that changes one entry but not its packet, and starts no forwarding
\* timer.
LEMMA EntryMoves ==
    ASSUME IInv, NEW n \in Node, NEW a \in pft[n], NEW y \in Entry, y.pkt = obj[n][a].pkt,
           NEW P \in SUBSET pft[n], NEW T, \A b \in EntryId :
               <<b, "forward">> \in T => <<b, "forward">> \in timer[n],
           NEW o, o = obj[n] \/ o = [obj[n] EXCEPT ![a] = y], Install(n, o, P, T)
    PROVE  PftMoves(n, {})
<1>1. /\ obj[n] \in [EntryId -> Entry \cup {NoEntry}] /\ pft[n] \in SUBSET EntryId
      /\ a \in EntryId
  BY NodeParts
<1>2. o \in [EntryId -> Entry \cup {NoEntry}] /\ P \in SUBSET EntryId
  BY <1>1
<1>3. \A b \in P : b \in pft[n] /\ o[b].pkt = obj[n][b].pkt
  BY <1>1
<1> QED BY <1>2, <1>3, InstallMoves, SMTT(30)

\* What a node overhears adds no packet to its table.
LEMMA OverhearMoves ==
    ASSUME IInv, NEW n \in Node, NEW p, ForwardingCancelled(n, p) \/ ImplicitAck(n, p)
    PROVE  PftMoves(n, {})
<1>1. PICK a \in Matching(n, p), y \in Entry :
          /\ y.pkt = obj[n][a].pkt
          /\ Install(n, [obj[n] EXCEPT ![a] = y],
                     IF IsData(obj[n][a].pkt) THEN pft[n] \ Matching(n, p) ELSE pft[n],
                     Cancel(n, timer[n], {a}))
  <2>1. CASE ForwardingCancelled(n, p)
    <3>1. PICK a \in Matching(n, p) :
            /\ obj[n][a].state = WAITING_FORWARDING
            /\ Install(n, [obj[n] EXCEPT ![a] = Silenced(WaitingImpAck(obj[n][a]))],
                       IF IsData(obj[n][a].pkt) THEN pft[n] \ Matching(n, p) ELSE pft[n],
                       Cancel(n, timer[n], {a}))
      BY <2>1 DEF ForwardingCancelled
    <3>2. obj[n][a] \in Entry
      BY NodeParts DEF Matching
    <3>3. /\ Silenced(WaitingImpAck(obj[n][a])) \in Entry
          /\ Silenced(WaitingImpAck(obj[n][a])).pkt = obj[n][a].pkt
      BY <3>1, <3>2, WaitingImpAckType, SilencedType
    <3> QED BY <3>1, <3>3
  <2>2. CASE ImplicitAck(n, p)
    <3>1. PICK a \in Matching(n, p) :
            Install(n, [obj[n] EXCEPT ![a] = Silenced(obj[n][a])],
                    IF IsData(obj[n][a].pkt) THEN pft[n] \ Matching(n, p) ELSE pft[n],
                    Cancel(n, timer[n], {a}))
      BY <2>2 DEF ImplicitAck
    <3>2. obj[n][a] \in Entry
      BY NodeParts DEF Matching
    <3>3. Silenced(obj[n][a]) \in Entry /\ Silenced(obj[n][a]).pkt = obj[n][a].pkt
      BY <3>2, SilencedType
    <3> QED BY <3>1, <3>3
  <2> QED BY <2>1, <2>2
<1> DEFINE P == IF IsData(obj[n][a].pkt) THEN pft[n] \ Matching(n, p) ELSE pft[n]
           T == Cancel(n, timer[n], {a})
           o == [obj[n] EXCEPT ![a] = y]
<1>2. P \in SUBSET pft[n] /\ a \in pft[n]
  BY DEF Matching
<1>3. \A b \in EntryId : <<b, "forward">> \in T => <<b, "forward">> \in timer[n]
  BY DEF Cancel
<1>4. Install(n, o, P, T) /\ (o = obj[n] \/ o = [obj[n] EXCEPT ![a] = y])
  BY <1>1
<1> HIDE DEF P, T
<1> QED BY <1>1, <1>2, <1>3, <1>4, EntryMoves

\* A timer callback starts no forwarding timer, and ends its own.
LEMMA FireMoves ==
    ASSUME IInv, NEW n \in Node, NEW a \in EntryId, NEW k \in Kind,
           IF k = "forward" THEN ForwardingTimer(n, a) ELSE ImpAckTimer(n, a)
    PROVE  /\ PftMoves(n, {})
           /\ a \in pft[n]
           /\ <<a, "forward">> \notin timer'[n]
<1> DEFINE x == obj[n][a]
           z == Transmitted(x)
<1>1. /\ <<a, k>> \in timer[n]
      /\ EntryInv(x, a, pft[n], timer[n])
  BY DEF ForwardingTimer, ImpAckTimer, Kind, IInv, NodeInv
<1>2. /\ a \in pft[n] /\ x \in Entry
      /\ (k = "forward") <=> (x.state = WAITING_FORWARDING)
      /\ k # "forward" => <<a, "forward">> \notin timer[n]
  BY <1>1 DEF EntryInv, Kind
<1>3. z \in Entry /\ z.pkt = x.pkt /\ z.state = x.state
  BY <1>2, SMTT(30) DEF Transmitted, Entry
<1>4. PICK y \in Entry, P \in SUBSET pft[n],
           T \in SUBSET ((timer[n] \ {<<a, k>>}) \cup {<<a, "impAck">>}) :
          /\ y.pkt = x.pkt
          /\ Install(n, [obj[n] EXCEPT ![a] = y], P, T)
  <2>1. CASE k = "forward"
    <3> DEFINE y == SetTimer(WaitingImpAck(z), "impAck")
               last == IsData(x.pkt) /\ x.pkt.hopC <= 2
               P == IF last THEN pft[n] \ Matching(n, x.pkt) ELSE pft[n]
               rest == timer[n] \ {<<a, "forward">>}
               T == IF ~last THEN rest \cup {<<a, "impAck">>} ELSE rest
    <3>1. y \in Entry /\ y.pkt = x.pkt
      <4>1. WaitingImpAck(z) \in Entry /\ WaitingImpAck(z).pkt = x.pkt
        BY <1>2, <1>3, <2>1, WaitingImpAckType
      <4> QED BY <4>1 DEF SetTimer, Entry, Kind
    <3>2. Install(n, [obj[n] EXCEPT ![a] = y], P, T)
      <4>1. Due(x, "forward") /\ ForwardingTimer(n, a)
        BY <1>2, <2>1 DEF Due
      <4> QED BY <4>1 DEF ForwardingTimer
    <3>3. /\ P \in SUBSET pft[n]
          /\ T \in SUBSET ((timer[n] \ {<<a, k>>}) \cup {<<a, "impAck">>})
      BY <2>1
    <3> HIDE DEF y, P, T
    <3> QED BY <3>1, <3>2, <3>3
  <2>2. CASE k # "forward"
    <3> DEFINE y == OneLessTry(z)
               again == y.tries > 0
               P == IF ~again THEN pft[n] \ Matching(n, x.pkt) ELSE pft[n]
               rest == timer[n] \ {<<a, "impAck">>}
               T == IF again THEN rest \cup {<<a, "impAck">>} ELSE rest
    <3>1. y \in Entry /\ y.pkt = x.pkt
      BY <1>3, TriesAssumption, SMTT(30) DEF OneLessTry, Entry, FORWARDING_TRIES
    <3>2. Install(n, [obj[n] EXCEPT ![a] = y], P, T)
      <4>1. Due(x, "impAck") /\ ImpAckTimer(n, a)
        BY <1>2, <2>2 DEF Due, Entry
      <4> QED BY <4>1 DEF ImpAckTimer
    <3>3. /\ P \in SUBSET pft[n]
          /\ T \in SUBSET ((timer[n] \ {<<a, k>>}) \cup {<<a, "impAck">>})
      BY <2>2 DEF Kind
    <3> HIDE DEF y, P, T
    <3> QED BY <3>1, <3>2, <3>3
  <2> QED BY <2>1, <2>2
<1>5. \A b \in EntryId : <<b, "forward">> \in T => <<b, "forward">> \in timer[n]
  BY <1>4
<1>6. PftMoves(n, {})
  <2> DEFINE o == [obj[n] EXCEPT ![a] = y]
  <2>1. Install(n, o, P, T) /\ (o = obj[n] \/ o = [obj[n] EXCEPT ![a] = y])
    BY <1>4
  <2> HIDE DEF x
  <2> QED BY <1>2, <1>4, <1>5, <2>1, EntryMoves DEF x
<1>7. timer'[n] = T
  BY <1>4 DEF Install, IInv, TypeOK
<1>8. <<a, "forward">> \notin T
  BY <1>2, <1>4, <1>5
<1> QED BY <1>2, <1>6, <1>7, <1>8
-----------------------------------------------------------------------------
(* The tables *)

MyAreas == {MyArea(n) : n \in Node}
Positions == Range(Pos)

IfntEntries == [nonce : Nonce, hopC : 0..(MAXHOPS - 1),
                sa : MyAreas, da : Areas, phPos : Positions]

DfntEntries == [hopC : 0..MAXHOPS, sa : MyAreas, da : Areas, phPos : Positions]

PitEntries == [in : SUBSET ((MyAreas \cup {APP}) \X Nonce),
               out : SUBSET Records, nonces : SUBSET Nonce]

SentMarks == {0, CLEAN}
Marks == SentMarks \cup {CLEAN_DFNT}

Tables == [ifnt : [Nonce -> Seq(IfntEntries)],
           dfnt : [Signatures -> Seq(DfntEntries)],
           pit : [Name -> PitEntries],
           cs : [Name -> Marks \cup {NotCached}],
           fib : Seq(MyAreas),
           dnl : SUBSET Nonce]

Contexts == [t : Tables, send : SUBSET ValPacket, gone : SUBSET Nonce,
             app : SUBSET Name, fault : BOOLEAN]

\* A step that only asks for packets of P to be sent, and is undefined only
\* when bad holds.
Sends(c, r, P, bad) ==
    /\ r \in Contexts
    /\ r.t = c.t
    /\ r.gone = c.gone
    /\ r.app = c.app
    /\ r.send \subseteq c.send \cup P
    /\ r.fault => c.fault \/ bad

InterestsOf(i) == {p \in Interests : p.id = i}
DataFrom(sa) == {p \in Datas : p.hdr.sa = sa}
IfntByNonce(t) == \A i \in Nonce : \A k \in DOMAIN t.ifnt[i] : t.ifnt[i][k].nonce = i
SameRest(t, u) == t.pit = u.pit /\ t.cs = u.cs /\ t.fib = u.fib /\ t.dnl = u.dnl

Source(n, c, face, x, isProducer) ==
    IF isProducer THEN MyArea(n)
    ELSE IF c.t.dfnt[Sig[x]] # <<>> THEN Head(c.t.dfnt[Sig[x]]).sa ELSE face

\* reveiceData: of the tables only the DFNT entry of the Data goes, and the
\* oldest IFNT entry of each nonce in the list; what is sent is the Data.
DataTaken(n, c, r, face, x, mark, nonces, isProducer) ==
    /\ r \in Contexts
    /\ IfntByNonce(r.t)
    /\ SameRest(r.t, c.t)
    /\ r.t.dfnt = [c.t.dfnt EXCEPT ![Sig[x]] = Pop(@)]
    /\ \A i \in Nonce \ nonces : r.t.ifnt[i] = c.t.ifnt[i]
    /\ mark = CLEAN_DFNT => r.t.ifnt = c.t.ifnt /\ r.send = c.send /\ r.gone = c.gone
    /\ r.app = c.app
    /\ r.send \subseteq c.send \cup DataFrom(Source(n, c, face, x, isProducer))
    /\ r.gone \subseteq c.gone \cup nonces
    /\ r.fault => \/ c.fault
                  \/ /\ mark # CLEAN_DFNT
                     /\ mark = CLEAN => c.t.dfnt[Sig[x]] = <<>> \/ isProducer
                     /\ \A i \in nonces : c.t.ifnt[i] = <<>>

Cleared(t, u, x) == t.dfnt = [u.dfnt EXCEPT ![Sig[x]] = <<>>]

\* What holds throughout the loop that began in context c with nonce list S:
\* nothing but the IFNT entries of S and the DFNT entry of the Data has been
\* touched, and only Data are to be sent.
ServingIn(c, x, S, b) ==
    /\ b \in Contexts
    /\ IfntByNonce(b.t)
    /\ SameRest(b.t, c.t)
    /\ \A i \in Nonce \ S : b.t.ifnt[i] = c.t.ifnt[i]
    /\ b.t.dfnt = c.t.dfnt \/ Cleared(b.t, c.t, x)
    /\ b.send \subseteq Datas

Serving(c, x, S, a) ==
    /\ a \in [c : Contexts, nonces : SUBSET S, mark : SentMarks, served : BOOLEAN]
    /\ ServingIn(c, x, S, a.c)

\* NFD's PIT entry for x agrees with itself and with VAL's IFNT.
PitOK(t, x) ==
    /\ IsFiniteSet(t.pit[x].in)
    /\ \A r \in t.pit[x].in \cup t.pit[x].out : NameOf[r[2]] = x
    /\ \A i \in t.pit[x].nonces : NameOf[i] = x
    /\ \A r \in t.pit[x].in : r[2] \in t.pit[x].nonces
    /\ \A r \in t.pit[x].in : IsGeoFace(r[1]) => t.ifnt[r[2]] # <<>>

\* A producer answers at once and learns no route; a relay that has cached a
\* Data has learnt one.
RoutesOK(n, t) ==
    /\ n \in Producer => t.fib = <<>> /\ \A x \in Name : t.pit[x].in = {}
    /\ n \notin Producer => \A x \in Name : t.cs[x] # NotCached => t.fib # <<>>

NodeOK(n, t) ==
    /\ t \in Tables
    /\ IfntByNonce(t)
    /\ \A x \in Name : PitOK(t, x)
    /\ RoutesOK(n, t)
    /\ \A x \in Name : t.cs[x] # NotCached => t.pit[x].in = {}
    /\ \A g \in Signatures : t.dfnt[g] = <<>>

\* What an event may leave: sound tables, and Interests or Data to be sent but
\* nothing to cancel when it is Interests.
EventOK(n, c) ==
    /\ c \in Contexts
    /\ NodeOK(n, c.t)
    /\ \/ c.send \subseteq Interests /\ c.gone = {}
       \/ c.send \subseteq Datas

\* onIncomingData of a Data that the PIT asks for.
Solicited(c, r, x, face) ==
    /\ r \in Contexts
    /\ IfntByNonce(r.t)
    /\ r.t.pit = [c.t.pit EXCEPT ![x] = NoPit]
    /\ r.t.cs[x] # NotCached
    /\ \A y \in Name \ {x} : r.t.cs[y] = c.t.cs[y]
    /\ r.t.dnl = c.t.dnl
    /\ IF IsGeoFace(face)
       THEN r.t.fib # <<>> /\ Range(r.t.fib) = Range(c.t.fib) \cup {face}
       ELSE r.t.fib = c.t.fib
    /\ \A i \in Nonce \ c.t.pit[x].nonces : r.t.ifnt[i] = c.t.ifnt[i]
    /\ r.t.dfnt = c.t.dfnt \/ Cleared(r.t, c.t, x)
    /\ IsGeoFace(face) => Cleared(r.t, c.t, x)
    /\ r.send \subseteq Datas

\* Cs::insert: the name is cached, and nothing else changes.
Inserted(c, r, x) ==
    /\ r \in Contexts
    /\ r.t.ifnt = c.t.ifnt /\ r.t.dfnt = c.t.dfnt
    /\ r.t.pit = c.t.pit /\ r.t.fib = c.t.fib /\ r.t.dnl = c.t.dnl
    /\ r.t.cs[x] # NotCached
    /\ \A y \in Name \ {x} : r.t.cs[y] = c.t.cs[y]
    /\ r.send = c.send /\ r.gone = c.gone /\ r.app = c.app /\ r.fault = c.fault

\* onDataUnsolicited: the DFNT entry goes, a relay learns the route and caches.
Unsolicited(n, c, r, x, face) ==
    /\ r \in Contexts
    /\ r.t.ifnt = c.t.ifnt /\ r.t.pit = c.t.pit /\ r.t.dnl = c.t.dnl
    /\ r.t.dfnt = [c.t.dfnt EXCEPT ![Sig[x]] = Pop(@)]
    /\ r.send = c.send /\ r.gone = c.gone /\ r.app = c.app /\ r.fault = c.fault
    /\ \A y \in Name \ {x} : r.t.cs[y] = c.t.cs[y]
    /\ IF n \in Producer
       THEN r.t.cs = c.t.cs /\ r.t.fib = c.t.fib
       ELSE /\ r.t.cs[x] # NotCached
            /\ r.t.fib # <<>>
            /\ Range(r.t.fib) = Range(c.t.fib) \cup {face}

\* A context at the start of an event.
Fresh(c) == c.send = {} /\ c.gone = {} /\ ~c.fault

\* The PIT entry of an Interest that came in by face and leaves by out.
PendingEntry(e, face, i, out) ==
    [in |-> Record(e.in, face, i), out |-> Record(e.out, out, i), nonces |-> e.nonces \cup {i}]

\* The context c after insertOrUpdateInRecord and insertOrUpdateOutRecord.
Pended(c, s, face, i, out) ==
    /\ s \in Contexts
    /\ s.t.ifnt = c.t.ifnt /\ s.t.dfnt = c.t.dfnt
    /\ s.t.cs = c.t.cs /\ s.t.fib = c.t.fib /\ s.t.dnl = c.t.dnl
    /\ s.t.pit = [c.t.pit EXCEPT ![NameOf[i]] = PendingEntry(@, face, i, out)]
    /\ s.send = c.send /\ s.gone = c.gone /\ s.app = c.app /\ s.fault = c.fault

WithInRecord(c, face, i) ==
    [c EXCEPT !.t.pit[NameOf[i]].in = Record(@, face, i), !.t.pit[NameOf[i]].nonces = @ \cup {i}]

WithOutRecord(c, out, i) == [c EXCEPT !.t.pit[NameOf[i]].out = Record(@, out, i)]

\* The Interest is dropped as a loop, given to the application's cache, or
\* answered from the Content Store.
Answered(c, r) ==
    /\ r \in Contexts
    /\ IfntByNonce(r.t)
    /\ SameRest(r.t, c.t)
    /\ r.t.dfnt = c.t.dfnt
    /\ \A y \in Name : \A q \in c.t.pit[y].in : r.t.ifnt[q[2]] = c.t.ifnt[q[2]]
    /\ r.send \subseteq {p \in Datas : p.hdr.sa \in Range(c.t.fib)}
    /\ ~r.fault

\* detectDuplicateNonce, and the Dead Nonce List
Looping(t, i) ==
    i \in t.dnl \/ \E q \in t.pit[NameOf[i]].in \cup t.pit[NameOf[i]].out : q[2] = i

\* The Interest is new: it waits in the PIT while it is relayed, or while the
\* producer's application answers.
Relayed(n, c, r, face, i) ==
    /\ ~Looping(c.t, i)
    /\ c.t.cs[NameOf[i]] = NotCached
    /\ \E out \in Areas \cup {APP}, s \in Contexts :
        /\ Pended(c, s, face, i, out)
        /\ IF n \in Producer
           THEN r = OnIncomingData(n, s, APP, NameOf[i], 0, AnyOrder(Downstreams(s, NameOf[i])))
           ELSE Sends(s, r, InterestsOf(i), FALSE)

PendedOK(c, s, x) ==
    /\ s.t \in Tables /\ IfntByNonce(s.t)
    /\ \A y \in Name : PitOK(s.t, y)
    /\ \A y \in Name : s.t.cs[y] # NotCached => s.t.pit[y].in = {}
    /\ \A g \in Signatures : s.t.dfnt[g] = <<>>
    /\ s.t.pit[x].in # {}
    /\ \A y \in Name \ {x} : s.t.pit[y] = c.t.pit[y]
-----------------------------------------------------------------------------
(* Induction over the natural numbers, as statements about sets *)

\* Every set of natural numbers that is not empty has a least element.
LEMMA LeastElement ==
    ASSUME NEW T \in SUBSET Nat, T # {}
    PROVE  \E m \in T : \A k \in T : m <= k
<1> DEFINE R == {ss \in Nat \X Nat : ss[1] < ss[2]}
<1>1. IsWellFoundedOn(R, Nat)
  BY NatLessThanWellFounded DEF OpToRel
<1>2. PICK m \in T : \A k \in T : ~(<<k, m>> \in R)
  <2> HIDE DEF R
  <2> QED BY <1>1, WFMin
<1>3. ASSUME NEW k \in T PROVE m <= k
  <2>1. <<k, m>> \in Nat \X Nat /\ <<k, m>>[1] = k /\ <<k, m>>[2] = m
    OBVIOUS
  <2>2. ~(k < m)
    BY <1>2, <2>1
  <2> QED BY <2>2, SMTT(30)
<1> QED BY <1>3

\* Induction: a set that holds 0, and the successor of what it holds, holds
\* every natural number.
LEMMA SetInduction ==
    ASSUME NEW S, 0 \in S, \A k \in Nat : k \in S => k + 1 \in S
    PROVE  Nat \subseteq S
<1> SUFFICES ASSUME Nat \ S # {} PROVE FALSE
  OBVIOUS
<1>1. PICK m \in Nat \ S : \A k \in Nat \ S : m <= k
  BY LeastElement
<1>2. m # 0 /\ m - 1 \in Nat
  BY <1>1, SMTT(30)
<1>3. m - 1 \in S
  BY <1>1, <1>2, SMTT(30)
<1> QED BY <1>1, <1>2, <1>3, SMTT(30)
-----------------------------------------------------------------------------
(* Constants and packets *)

\* The constants that the code computes with.
LEMMA AreaFacts ==
    /\ \A n \in Node : MyArea(n) \in MyAreas
    /\ \A f \in MyAreas : f \in Nat /\ f # FLOOD_AREA /\ IsGeoFace(f) /\ f \in Areas
    /\ \A f \in Areas : f \in Nat /\ IsGeoFace(f)
    /\ FLOOD_AREA \in Areas
    /\ APP \notin Areas /\ NoTag \notin Areas /\ ~IsGeoFace(APP)
<1>1. ASSUME NEW n \in Node PROVE MyArea(n) \in Nat /\ MyArea(n) > 0
  <2> DEFINE s == Pos[n] \div AREA_SIZE
  <2>1. s \in Nat
    BY PosAssumption, SMTT(30) DEF AREA_SIZE
  <2>2. Min({s, 25}) \in {s, 25}
    <3>1. \E m \in {s, 25} : \A k \in {s, 25} : m <= k
      <4> HIDE DEF s
      <4> QED BY <2>1, SMTT(30)
    <3> QED BY <3>1 DEF Min
  <2>3. 0 \div AREA_SIZE = 0
    BY SMTT(30) DEF AREA_SIZE
  <2>4. MyArea(n) = 10 * (1 + Min({s, 25})) + (IF 0 > 5 THEN 5 ELSE 1 + 0)
    BY <2>3 DEF MyArea, AreaFromPosition
  <2> HIDE DEF s
  <2> QED BY <2>1, <2>2, <2>4, SMTT(30)
<1>2. \A f \in MyAreas : f \in Nat /\ f # FLOOD_AREA /\ IsGeoFace(f) /\ f \in Areas
  BY <1>1, SMTT(30) DEF MyAreas, Areas, FLOOD_AREA, IsGeoFace
<1>3. Areas = MyAreas \cup {FLOOD_AREA}
  BY DEF MyAreas, Areas
<1>4. \A f \in Areas : f \in Nat /\ IsGeoFace(f)
  BY <1>2, <1>3, SMTT(30) DEF FLOOD_AREA, IsGeoFace
<1>5. APP \notin Areas /\ NoTag \notin Areas /\ ~IsGeoFace(APP)
  BY <1>4, SMTT(30) DEF APP, NoTag, IsGeoFace
<1> QED BY <1>2, <1>3, <1>4, <1>5 DEF MyAreas

\* A header made by a node is a header.
LEMMA HeaderFacts ==
    ASSUME NEW sa \in MyAreas, NEW da \in Areas, NEW n \in Node, NEW mark \in SentMarks
    PROVE  [sa |-> sa, da |-> da, phPos |-> Pos[n], mark |-> mark] \in Header
<1>1. Pos[n] \in Range(Pos)
  BY PosAssumption DEF Range
<1> QED BY <1>1, HeaderAssumption DEF MyAreas, Areas, SentMarks

\* The fields of a header, one by one.
LEMMA HeaderFields ==
    ASSUME NEW h \in Header
    PROVE  h.sa \in MyAreas /\ h.da \in Areas /\ h.phPos \in Positions /\ h.mark \in SentMarks
  BY HeaderAssumption DEF MyAreas, Areas, Positions, SentMarks

\* Removing the first entry of a list that may be empty (removeEntry).
LEMMA PopFacts ==
    ASSUME NEW S, NEW q \in Seq(S)
    PROVE  /\ Pop(q) \in Seq(S)
           /\ \A k \in DOMAIN Pop(q) : k + 1 \in DOMAIN q /\ Pop(q)[k] = q[k + 1]
           /\ Len(q) <= 1 => Pop(q) = <<>>
<1>1. CASE q = <<>>
  BY <1>1, SMTT(30) DEF Pop
<1>2. CASE q # <<>>
  BY <1>2, SMTT(30) DEF Pop
<1> QED BY <1>1, <1>2
-----------------------------------------------------------------------------
(* What the handlers of VAL do to a context *)

\* A VAL packet carries an Interest or Data, never both.
LEMMA PacketKinds ==
    /\ \A p \in Interests : p \in ValPacket /\ ~IsData(p)
    /\ \A p \in Datas : p \in ValPacket /\ IsData(p)
    /\ \A p \in ValPacket : IF IsData(p) THEN p \in Datas ELSE p \in Interests
  BY DEF Interests, Datas, ValPacket, IsData, INTEREST_SET, DATA_SET

\* sendValPacket sends the packet it is given and faults nowhere.
LEMMA SendEffect ==
    ASSUME NEW c \in Contexts, NEW P, P \subseteq ValPacket, NEW p \in P
    PROVE  Sends(c, SendValPacket(c, p), P, FALSE)
<1>1. CASE c.send = {}
  BY <1>1 DEF SendValPacket, Sends, Contexts
<1>2. CASE c.send # {}
  BY <1>2 DEF SendValPacket, Sends, Contexts
<1> QED BY <1>1, <1>2

\* A context left alone has sent nothing.
LEMMA NothingSent ==
    ASSUME NEW c \in Contexts, NEW P
    PROVE  Sends(c, c, P, FALSE)
  BY DEF Sends

\* A fault sends nothing and is recorded.
LEMMA FaultyEffect ==
    ASSUME NEW c \in Contexts, NEW P
    PROVE  Sends(c, Faulty(c), P, TRUE)
  BY DEF Sends, Faulty, Contexts

\* reveiceInterest sends at most the Interest it is given, well formed.
LEMMA ReceiveInterestEffect ==
    ASSUME NEW n \in Node, NEW c \in Contexts, IfntByNonce(c.t),
           NEW face \in Areas, NEW i \in Nonce
    PROVE  Sends(c, ReceiveInterest(n, c, face, i), InterestsOf(i), FALSE)
<1>1. InterestsOf(i) \subseteq ValPacket
  BY DEF InterestsOf, ValPacket
<1>2. ASSUME NEW hopC \in 1..MAXHOPS, NEW sa \in MyAreas, NEW da \in Areas
      PROVE  Interest(i, hopC, sa, da, n) \in InterestsOf(i)
  <2>1. [sa |-> sa, da |-> da, phPos |-> Pos[n], mark |-> 0] \in Header
    BY HeaderFacts DEF SentMarks
  <2> QED BY <2>1 DEF Interest, InterestsOf, Interests
<1>3. ASSUME NEW e \in IfntEntries, e.nonce = i
      PROVE  Sends(c, AfterIfntHit(n, c, face, e), InterestsOf(i), FALSE)
  <2>1. CASE AfterIfntHit(n, c, face, e) = c
    BY <2>1, NothingSent
  <2>2. CASE AfterIfntHit(n, c, face, e) # c
    <3> DEFINE known == e.da # FLOOD_AREA /\ e.da # MyArea(n)
               da == IF known THEN e.da ELSE face
    <3>1. e.hopC \in 1..MAXHOPS /\ e.sa \in MyAreas /\ e.da \in Areas
      BY <2>2, HopByteAssumption, SMTT(30) DEF AfterIfntHit, IfntEntries
    <3>2. AfterIfntHit(n, c, face, e) = SendValPacket(c, Interest(i, e.hopC, e.sa, da, n))
      BY <1>3, <2>2 DEF AfterIfntHit
    <3>3. da \in Areas
      BY <3>1
    <3> HIDE DEF da
    <3>4. Interest(i, e.hopC, e.sa, da, n) \in InterestsOf(i)
      BY <1>2, <3>1, <3>3
    <3> QED BY <1>1, <3>2, <3>4, SendEffect
  <2> QED BY <2>1, <2>2
<1>4. Sends(c, AfterIfntMiss(n, c, face, i), InterestsOf(i), FALSE)
  <2>1. MAXHOPS \in 1..MAXHOPS /\ MyArea(n) \in MyAreas
    BY HopByteAssumption, AreaFacts, SMTT(30)
  <2>2. Interest(i, MAXHOPS, MyArea(n), face, n) \in InterestsOf(i)
    BY <1>2, <2>1
  <2> QED BY <1>1, <2>2, SendEffect DEF AfterIfntMiss
<1>5. CASE c.t.ifnt[i] # <<>>
  <2>1. c.t.ifnt[i] \in Seq(IfntEntries)
    BY DEF Contexts, Tables
  <2>2. 1 \in DOMAIN c.t.ifnt[i] /\ Head(c.t.ifnt[i]) = c.t.ifnt[i][1]
    BY <1>5, <2>1, SMTT(30)
  <2>3. Head(c.t.ifnt[i]) \in IfntEntries /\ Head(c.t.ifnt[i]).nonce = i
    BY <2>1, <2>2, SMTT(30) DEF IfntByNonce
  <2> QED BY <1>3, <1>5, <2>3 DEF ReceiveInterest
<1> QED BY <1>4, <1>5 DEF ReceiveInterest

\* doAfterDfntHit sends at most the Data, with the source area of the entry.
LEMMA AfterDfntHitEffect ==
    ASSUME NEW n \in Node, NEW c \in Contexts, NEW e \in DfntEntries, NEW entries,
           NEW x \in Name, NEW mark \in SentMarks
    PROVE  Sends(c, AfterDfntHit(n, c, e, entries, x, mark), DataFrom(e.sa), entries = {})
<1> DEFINE r == AfterDfntHit(n, c, e, entries, x, mark)
           p == Data(x, e.hopC, e.sa, e.da, mark, n)
<1>1. DataFrom(e.sa) \subseteq ValPacket
  BY DEF DataFrom, ValPacket
<1>2. e.hopC # 0 => p \in DataFrom(e.sa)
  <2>1. [sa |-> e.sa, da |-> e.da, phPos |-> Pos[n], mark |-> mark] \in Header
    BY HeaderFacts DEF DfntEntries
  <2>2. e.hopC \in 0..MAXHOPS
    BY DEF DfntEntries
  <2> QED BY <2>1, <2>2, HopByteAssumption, SMTT(30) DEF Data, DataFrom, Datas
<1>3. \/ r = c
      \/ entries = {} /\ r = Faulty(c)
      \/ e.hopC # 0 /\ r = SendValPacket(c, p)
  BY DEF AfterDfntHit
<1> SUFFICES Sends(c, r, DataFrom(e.sa), entries = {})
  OBVIOUS
<1> HIDE DEF r, p
<1>4. CASE r = c
  BY <1>4, NothingSent DEF Sends
<1>5. CASE entries = {} /\ r = Faulty(c)
  BY <1>5, FaultyEffect
<1>6. CASE e.hopC # 0 /\ r = SendValPacket(c, p)
  <2>1. Sends(c, r, DataFrom(e.sa), FALSE)
    BY <1>1, <1>2, <1>6, SendEffect
  <2> QED BY <2>1 DEF Sends
<1> QED BY <1>3, <1>4, <1>5, <1>6

\* getLongestJorney returns one of the entries.
LEMMA LongestJorneyIn ==
    ASSUME NEW entries, entries \subseteq IfntEntries, entries # {}
    PROVE  LongestJorney(entries) \in entries
<1> DEFINE H == {e.hopC : e \in entries}
<1>1. H \in SUBSET Nat /\ H # {}
  BY SMTT(30) DEF IfntEntries
<1>2. PICK h \in H : \A k \in H : h <= k
  BY <1>1, LeastElement
<1>3. PICK e \in entries : e.hopC = h
  BY <1>2
<1>4. \A f \in entries : e.hopC <= f.hopC
  BY <1>2, <1>3
<1> QED BY <1>4 DEF LongestJorney

\* doAfterDfntMiss sends at most the Data, from the producer's area or from the
\* area of the face.
LEMMA AfterDfntMissEffect ==
    ASSUME NEW n \in Node, NEW c \in Contexts, NEW face \in MyAreas,
           NEW entries, entries \subseteq IfntEntries, NEW x \in Name,
           NEW mark \in SentMarks, NEW isProducer \in BOOLEAN
    PROVE  Sends(c, AfterDfntMiss(n, c, face, x, mark, entries, isProducer),
                 DataFrom(IF isProducer THEN MyArea(n) ELSE face), entries = {})
<1> DEFINE sa == IF isProducer THEN MyArea(n) ELSE face
           e == LongestJorney(entries)
           p == Data(x, (MAXHOPS - e.hopC + 1) % 256, sa, e.sa, mark, n)
           r == AfterDfntMiss(n, c, face, x, mark, entries, isProducer)
<1>1. DataFrom(sa) \subseteq ValPacket
  BY DEF DataFrom, ValPacket
<1>2. sa \in MyAreas
  BY AreaFacts
<1>3. CASE entries = {}
  BY <1>3, FaultyEffect DEF AfterDfntMiss
<1>4. CASE entries # {}
  <2>1. r = SendValPacket(c, p)
    BY <1>4 DEF AfterDfntMiss
  <2>2. e \in IfntEntries
    BY <1>4, LongestJorneyIn
  <2> HIDE DEF e, sa, r
  <2>3. e.hopC \in 0..(MAXHOPS - 1) /\ e.sa \in Areas
    BY <2>2, AreaFacts DEF IfntEntries
  <2>4. (MAXHOPS - e.hopC + 1) % 256 \in 1..(MAXHOPS + 1)
    BY <2>3, HopByteAssumption, SMTT(30)
  <2>5. [sa |-> sa, da |-> e.sa, phPos |-> Pos[n], mark |-> mark] \in Header
    BY <1>2, <2>3, HeaderFacts
  <2>6. p \in DataFrom(sa)
    BY <2>4, <2>5 DEF Data, DataFrom, Datas
  <2>7. Sends(c, r, DataFrom(sa), FALSE)
    BY <1>1, <2>1, <2>6, SendEffect
  <2> QED BY <2>7 DEF Sends, sa, r
<1> QED BY <1>3, <1>4

\* receiveData does what DataTaken says: it pops the DFNT entry, consumes IFNT entries of the
\* nonces, and sends only the Data.
LEMMA ReceiveDataEffect ==
    ASSUME NEW n \in Node, NEW c \in Contexts, IfntByNonce(c.t),
           NEW face \in MyAreas, NEW x \in Name, NEW mark \in Marks,
           NEW nonces \in SUBSET Nonce, NEW isProducer \in BOOLEAN
    PROVE  DataTaken(n, c, ReceiveData(n, c, face, x, mark, nonces, isProducer),
                     face, x, mark, nonces, isProducer)
<1> DEFINE entries == {Head(c.t.ifnt[i]) : i \in {j \in nonces : c.t.ifnt[j] # <<>>}}
           heard == c.t.dfnt[Sig[x]]
           popped == [c EXCEPT !.t.dfnt[Sig[x]] = Pop(@)]
           cleaned == [popped EXCEPT !.t.ifnt =
                          [i \in Nonce |-> IF i \in nonces THEN Pop(@[i]) ELSE @[i]]]
           relayed == [cleaned EXCEPT !.gone = @ \cup nonces]
           source == Source(n, c, face, x, isProducer)
           r == ReceiveData(n, c, face, x, mark, nonces, isProducer)
<1>1. /\ Sig[x] \in Signatures
      /\ heard \in Seq(DfntEntries)
      /\ c.t \in Tables
  BY DEF Signatures, Contexts, Tables
<1>2. /\ popped \in Contexts
      /\ SameRest(popped.t, c.t)
      /\ popped.t.dfnt = [c.t.dfnt EXCEPT ![Sig[x]] = Pop(@)]
      /\ popped.t.ifnt = c.t.ifnt
      /\ popped.send = c.send /\ popped.gone = c.gone
      /\ popped.app = c.app /\ popped.fault = c.fault
  <2>1. Pop(heard) \in Seq(DfntEntries)
    BY <1>1, PopFacts
  <2> QED BY <1>1, <2>1 DEF Contexts, Tables, SameRest
<1> HIDE DEF popped
<1>3. /\ cleaned \in Contexts
      /\ SameRest(cleaned.t, c.t)
      /\ cleaned.t.dfnt = [c.t.dfnt EXCEPT ![Sig[x]] = Pop(@)]
      /\ cleaned.t.ifnt = [i \in Nonce |-> IF i \in nonces THEN Pop(c.t.ifnt[i])
                                                           ELSE c.t.ifnt[i]]
      /\ cleaned.send = c.send /\ cleaned.gone = c.gone
      /\ cleaned.app = c.app /\ cleaned.fault = c.fault
  <2> DEFINE ifnt == [i \in Nonce |-> IF i \in nonces THEN Pop(c.t.ifnt[i]) ELSE c.t.ifnt[i]]
  <2>1. \A i \in Nonce : c.t.ifnt[i] \in Seq(IfntEntries)
    BY <1>1 DEF Tables
  <2>2. \A i \in Nonce : Pop(c.t.ifnt[i]) \in Seq(IfntEntries)
    BY <2>1, PopFacts
  <2>3. ifnt \in [Nonce -> Seq(IfntEntries)]
    BY <2>1, <2>2
  <2>4. cleaned = [popped EXCEPT !.t.ifnt = ifnt]
    BY <1>2
  <2> HIDE DEF ifnt, cleaned
  <2>5. /\ cleaned \in Contexts
        /\ SameRest(cleaned.t, popped.t)
        /\ cleaned.t.dfnt = popped.t.dfnt
        /\ cleaned.t.ifnt = ifnt
        /\ cleaned.send = popped.send /\ cleaned.gone = popped.gone
        /\ cleaned.app = popped.app /\ cleaned.fault = popped.fault
    BY <1>2, <2>3, <2>4 DEF Contexts, Tables, SameRest
  <2> QED BY <1>2, <2>5 DEF SameRest, ifnt
<1>4. IfntByNonce(popped.t) /\ IfntByNonce(cleaned.t)
  <2>1. ASSUME NEW i \in Nonce, NEW k \in DOMAIN cleaned.t.ifnt[i]
        PROVE  cleaned.t.ifnt[i][k].nonce = i
    <3>1. c.t.ifnt[i] \in Seq(IfntEntries)
      BY <1>1 DEF Tables
    <3>2. CASE i \in nonces
      <4>1. cleaned.t.ifnt[i] = Pop(c.t.ifnt[i])
        BY <1>3, <3>2
      <4>2. k + 1 \in DOMAIN c.t.ifnt[i] /\ cleaned.t.ifnt[i][k] = c.t.ifnt[i][k + 1]
        BY <3>1, <4>1, PopFacts
      <4> QED BY <4>2 DEF IfntByNonce
    <3>3. CASE i \notin nonces
      <4>1. cleaned.t.ifnt[i] = c.t.ifnt[i]
        BY <1>3, <3>3
      <4> QED BY <4>1 DEF IfntByNonce
    <3> QED BY <3>2, <3>3
  <2> HIDE DEF popped, cleaned
  <2>2. IfntByNonce(cleaned.t)
    BY <2>1 DEF IfntByNonce
  <2>3. IfntByNonce(popped.t)
    BY <1>2, SMTT(30) DEF IfntByNonce, SameRest
  <2> QED BY <2>2, <2>3
<1> HIDE DEF cleaned
<1>5. /\ relayed \in Contexts
      /\ relayed.t = cleaned.t
      /\ relayed.gone = c.gone \cup nonces
      /\ relayed.send = c.send
      /\ relayed.app = c.app /\ relayed.fault = c.fault
  BY <1>3 DEF Contexts
<1> HIDE DEF relayed
<1>6. /\ entries \subseteq IfntEntries
      /\ entries = {} => \A i \in nonces : c.t.ifnt[i] = <<>>
  <2>1. \A i \in nonces : c.t.ifnt[i] \in Seq(IfntEntries)
    BY <1>1 DEF Tables
  <2>2. \A i \in nonces : c.t.ifnt[i] # <<>> => Head(c.t.ifnt[i]) \in IfntEntries
    BY <2>1, SMTT(30)
  <2>3. \A i \in nonces : c.t.ifnt[i] # <<>> => Head(c.t.ifnt[i]) \in entries
    OBVIOUS
  <2> QED BY <2>2, <2>3
<1> HIDE DEF entries
<1>7. \/ mark = CLEAN_DFNT /\ r = popped
      \/ /\ mark # CLEAN_DFNT /\ heard # <<>> /\ ~isProducer
         /\ mark = CLEAN
         /\ r = relayed
      \/ /\ mark # CLEAN_DFNT /\ heard # <<>> /\ ~isProducer
         /\ mark # CLEAN
         /\ r = AfterDfntHit(n, relayed, Head(heard), entries, x, mark)
      \/ /\ mark # CLEAN_DFNT /\ ~(heard # <<>> /\ ~isProducer)
         /\ r = AfterDfntMiss(n, cleaned, face, x, mark, entries, isProducer)
  BY DEF ReceiveData, popped, cleaned, relayed, entries
<1> SUFFICES DataTaken(n, c, r, face, x, mark, nonces, isProducer)
  OBVIOUS
<1> HIDE DEF r
<1>8. CASE mark = CLEAN_DFNT /\ r = popped
  BY <1>2, <1>4, <1>8 DEF DataTaken
<1>9. ASSUME mark # CLEAN_DFNT, r.t = cleaned.t, r \in Contexts,
             r.send \subseteq c.send \cup DataFrom(source),
             r.gone \subseteq c.gone \cup nonces, r.app = c.app,
             r.fault => c.fault \/ entries = {},
             mark = CLEAN /\ heard # <<>> /\ ~isProducer => r.fault = c.fault
      PROVE  DataTaken(n, c, r, face, x, mark, nonces, isProducer)
  <2>1. \A i \in Nonce \ nonces : r.t.ifnt[i] = c.t.ifnt[i]
    BY <1>3, <1>9
  <2> QED BY <1>3, <1>4, <1>6, <1>9, <2>1 DEF DataTaken
<1>10. CASE /\ mark # CLEAN_DFNT /\ heard # <<>> /\ ~isProducer
            /\ mark = CLEAN
            /\ r = relayed
  BY <1>5, <1>9, <1>10
<1>11. CASE /\ mark # CLEAN_DFNT /\ heard # <<>> /\ ~isProducer
            /\ mark # CLEAN
            /\ r = AfterDfntHit(n, relayed, Head(heard), entries, x, mark)
  <2>1. Head(heard) \in DfntEntries /\ source = Head(heard).sa /\ mark \in SentMarks
    BY <1>1, <1>11, SMTT(30) DEF Source, Marks
  <2>2. Sends(relayed, r, DataFrom(source), entries = {})
    BY <1>5, <1>11, <2>1, AfterDfntHitEffect
  <2> QED BY <1>5, <1>9, <1>11, <2>2 DEF Sends
<1>12. CASE /\ mark # CLEAN_DFNT /\ ~(heard # <<>> /\ ~isProducer)
            /\ r = AfterDfntMiss(n, cleaned, face, x, mark, entries, isProducer)
  <2>1. source = (IF isProducer THEN MyArea(n) ELSE face) /\ mark \in SentMarks
    BY <1>12 DEF Source, Marks
  <2>2. Sends(cleaned, r, DataFrom(source), entries = {})
    BY <1>3, <1>6, <1>12, <2>1, AfterDfntMissEffect
  <2> QED BY <1>3, <1>9, <1>12, <2>2 DEF Sends
<1> QED BY <1>7, <1>8, <1>10, <1>11, <1>12
-----------------------------------------------------------------------------
(* The loop of afterReceiveData over the pending downstreams *)

\* The recursive definition of Turns has a solution: each turn starts from what
\* the one before it left.
LEMMA TurnsDef ==
    ASSUME NEW n, NEW face, NEW x, NEW records, NEW start, NEW S, NEW order \in Seq(S)
    PROVE  LET turn == Turns(n, face, x, records, start, order)
           IN /\ turn[0] = start
              /\ \A k \in 1..Len(order) :
                     turn[k] = ServeDownstream(n, face, x, records, turn[k - 1], order[k])
<1> DEFINE Step(a, k) == ServeDownstream(n, face, x, records, a, order[k])
           Upto(f, j) == f = [k \in 0..j |-> IF k = 0 THEN start ELSE Step(f[k - 1], k)]
           Good == {j \in Nat : \E f : Upto(f, j)}
<1>1. 0 \in Good
  <2> DEFINE f == [k \in 0..0 |-> start]
  <2>1. Upto(f, 0)
    BY SMTT(30)
  <2> QED BY <2>1
<1>2. ASSUME NEW j \in Nat, j \in Good PROVE j + 1 \in Good
  <2>1. PICK f : Upto(f, j)
    BY <1>2
  <2> HIDE DEF Step
  <2> DEFINE g == [k \in 0..(j + 1) |-> IF k = 0 THEN start ELSE Step(f[k - 1], k)]
  <2>2. \A k \in 1..(j + 1) : g[k - 1] = f[k - 1]
    BY <2>1, SMTT(30)
  <2>3. \A k \in 0..(j + 1) : (IF k = 0 THEN start ELSE Step(f[k - 1], k))
                                = IF k = 0 THEN start ELSE Step(g[k - 1], k)
    <3> HIDE DEF g
    <3> QED BY <2>2, SMTT(30)
  <2>4. Upto(g, j + 1)
    BY <2>3
  <2> HIDE DEF g, Upto
  <2> QED BY <2>4, SMTT(30)
<1>3. Len(order) \in Good
  <2> HIDE DEF Good
  <2>1. Nat \subseteq Good
    BY <1>1, <1>2, SetInduction
  <2> QED BY <2>1, SMTT(30)
<1>4. \E f : Upto(f, Len(order))
  BY <1>3
<1>5. Upto(Turns(n, face, x, records, start, order), Len(order))
  BY <1>4 DEF Turns
<1>6. Len(order) \in Nat
  BY SMTT(30)
<1> HIDE DEF Step
<1>7. LET turn == Turns(n, face, x, records, start, order)
      IN /\ turn[0] = start
         /\ \A k \in 1..Len(order) : turn[k] = Step(turn[k - 1], k)
  BY <1>5, <1>6, SMTT(30)
<1> QED BY <1>7 DEF Step

\* receiveData within the loop over downstreams keeps the loop's invariant and clears the DFNT
\* entry.
LEMMA TakenWhileServing ==
    ASSUME NEW n \in Node, NEW c \in Contexts, NEW x \in Name, Len(c.t.dfnt[Sig[x]]) <= 1,
           NEW S \in SUBSET Nonce, NEW b, ServingIn(c, x, S, b),
           NEW face \in MyAreas, NEW mark \in SentMarks, NEW nonces \in SUBSET S,
           NEW isProducer \in BOOLEAN
    PROVE  LET r == ReceiveData(n, b, face, x, mark, nonces, isProducer)
           IN ServingIn(c, x, S, r) /\ Cleared(r.t, c.t, x)
<1> DEFINE r == ReceiveData(n, b, face, x, mark, nonces, isProducer)
<1>1. b \in Contexts /\ nonces \in SUBSET Nonce /\ IfntByNonce(b.t)
  BY DEF ServingIn
<1>2. mark \in Marks /\ mark # CLEAN_DFNT
  BY SMTT(30) DEF Marks, SentMarks, CLEAN, CLEAN_DFNT
<1>3. DataTaken(n, b, r, face, x, mark, nonces, isProducer)
  BY <1>1, <1>2, ReceiveDataEffect
<1> SUFFICES ServingIn(c, x, S, r) /\ Cleared(r.t, c.t, x)
  OBVIOUS
<1> HIDE DEF r
<1>4. Cleared(r.t, c.t, x)
  <2>1. r.t.dfnt = [b.t.dfnt EXCEPT ![Sig[x]] = Pop(@)]
    BY <1>3 DEF DataTaken
  <2>2. /\ Sig[x] \in Signatures
        /\ c.t.dfnt \in [Signatures -> Seq(DfntEntries)]
    BY DEF Signatures, Contexts, Tables
  <2>3. Pop(c.t.dfnt[Sig[x]]) = <<>> /\ Pop(<<>>) = <<>>
    BY <2>2, PopFacts DEF Pop
  <2>4. CASE b.t.dfnt = c.t.dfnt
    BY <2>1, <2>2, <2>3, <2>4 DEF Cleared
  <2>5. CASE Cleared(b.t, c.t, x)
    <3>1. b.t.dfnt = [c.t.dfnt EXCEPT ![Sig[x]] = <<>>] /\ b.t.dfnt[Sig[x]] = <<>>
      BY <2>2, <2>5 DEF Cleared
    <3>2. r.t.dfnt = [b.t.dfnt EXCEPT ![Sig[x]] = <<>>]
      BY <2>1, <2>3, <3>1
    <3> QED BY <2>2, <3>1, <3>2 DEF Cleared
  <2> QED BY <2>4, <2>5 DEF ServingIn
<1>5. r.send \subseteq Datas
  BY <1>3 DEF DataTaken, DataFrom, ServingIn
<1>6. \A i \in Nonce \ S : r.t.ifnt[i] = c.t.ifnt[i]
  BY <1>3 DEF DataTaken, ServingIn
<1> QED BY <1>3, <1>4, <1>5, <1>6 DEF DataTaken, SameRest, ServingIn

\* One round of the loop over downstreams keeps the loop's invariant.
LEMMA ServeEffect ==
    ASSUME NEW n \in Node, NEW c \in Contexts, NEW x \in Name, Len(c.t.dfnt[Sig[x]]) <= 1,
           NEW S \in SUBSET Nonce, NEW a, Serving(c, x, S, a),
           NEW face \in MyAreas \cup {APP}, NEW d \in MyAreas \cup {APP}, NEW records
    PROVE  LET b == ServeDownstream(n, face, x, records, a, d)
           IN /\ Serving(c, x, S, b)
              /\ Cleared(a.c.t, c.t, x) \/ (IsGeoFace(face) /\ ~a.served /\ ~a.c.fault)
                   => Cleared(b.c.t, c.t, x)
<1> DEFINE b == ServeDownstream(n, face, x, records, a, d)
           rest == a.nonces \ LastNonce(records, d)
           given == [a.c EXCEPT !.app = @ \cup {x}]
           relay == ReceiveData(n, a.c, d, x, a.mark, a.nonces, ~IsGeoFace(face))
           consume == ReceiveData(n, given, face, x, CLEAN, a.nonces, FALSE)
<1>1. /\ a \in [c : Contexts, nonces : SUBSET S, mark : SentMarks, served : BOOLEAN]
      /\ a.c \in Contexts /\ a.nonces \in SUBSET S /\ a.mark \in SentMarks
      /\ rest \in SUBSET S
      /\ CLEAN \in SentMarks
      /\ ServingIn(c, x, S, a.c)
  BY DEF Serving, SentMarks
<1>2. /\ given \in Contexts
      /\ given.t = a.c.t
      /\ given.send = a.c.send
  BY <1>1 DEF Contexts
<1>3. ServingIn(c, x, S, given)
  BY <1>1, <1>2 DEF ServingIn
<1>4. IsGeoFace(d) => ServingIn(c, x, S, relay) /\ Cleared(relay.t, c.t, x)
  <2>1. IsGeoFace(d) => d \in MyAreas
    BY AreaFacts
  <2>2. (~IsGeoFace(face)) \in BOOLEAN
    BY DEF IsGeoFace
  <2> QED BY <1>1, <2>1, <2>2, TakenWhileServing
<1>5. IsGeoFace(face) => ServingIn(c, x, S, consume) /\ Cleared(consume.t, c.t, x)
  <2>1. IsGeoFace(face) => face \in MyAreas
    BY AreaFacts
  <2> QED BY <1>1, <1>3, <2>1, TakenWhileServing
<1>6. \/ b = a /\ a.c.fault
      \/ b = [a EXCEPT !.c = relay, !.nonces = rest, !.served = TRUE] /\ IsGeoFace(d)
      \/ b = [a EXCEPT !.nonces = rest] /\ a.served
      \/ /\ b = [a EXCEPT !.c = consume, !.nonces = rest, !.mark = CLEAN]
         /\ IsGeoFace(face)
      \/ /\ b = [a EXCEPT !.c = given, !.nonces = rest, !.mark = a.mark]
         /\ ~IsGeoFace(face)
  BY DEF ServeDownstream
<1> SUFFICES /\ Serving(c, x, S, b)
             /\ Cleared(a.c.t, c.t, x) \/ (IsGeoFace(face) /\ ~a.served /\ ~a.c.fault)
                   => Cleared(b.c.t, c.t, x)
  OBVIOUS
<1> HIDE DEF b, rest, given, relay, consume
<1>7. CASE b = a /\ a.c.fault
  BY <1>7
<1>8. CASE b = [a EXCEPT !.c = relay, !.nonces = rest, !.served = TRUE] /\ IsGeoFace(d)
  <2>1. relay \in Contexts
    BY <1>4, <1>8 DEF ServingIn
  <2> QED BY <1>1, <1>4, <1>8, <2>1 DEF Serving
<1>9. CASE b = [a EXCEPT !.nonces = rest] /\ a.served
  BY <1>1, <1>9 DEF Serving
<1>10. CASE /\ b = [a EXCEPT !.c = consume, !.nonces = rest, !.mark = CLEAN]
            /\ IsGeoFace(face)
  <2>1. consume \in Contexts
    BY <1>5, <1>10 DEF ServingIn
  <2> QED BY <1>1, <1>5, <1>10, <2>1 DEF Serving
<1>11. CASE /\ b = [a EXCEPT !.c = given, !.nonces = rest, !.mark = a.mark]
            /\ ~IsGeoFace(face)
  BY <1>1, <1>2, <1>3, <1>11 DEF Serving, Cleared
<1> QED BY <1>6, <1>7, <1>8, <1>9, <1>10, <1>11

\* addOrUpdateNextHop adds the face to the FIB entry and does nothing else.
LEMMA AddNextHopEffect ==
    ASSUME NEW c \in Contexts, NEW face \in MyAreas
    PROVE  LET r == AddNextHop(c, face)
           IN /\ r \in Contexts
              /\ r.t.ifnt = c.t.ifnt /\ r.t.dfnt = c.t.dfnt
              /\ r.t.pit = c.t.pit /\ r.t.cs = c.t.cs /\ r.t.dnl = c.t.dnl
              /\ r.t.fib # <<>>
              /\ Range(r.t.fib) = Range(c.t.fib) \cup {face}
              /\ r.send = c.send /\ r.gone = c.gone /\ r.app = c.app /\ r.fault = c.fault
<1>1. c.t \in Tables /\ c.t.fib \in Seq(MyAreas)
  BY DEF Contexts, Tables
<1>2. CASE face \in Range(c.t.fib)
  BY <1>1, <1>2, SMTT(30) DEF AddNextHop, Range
<1>3. CASE face \notin Range(c.t.fib)
  <2> DEFINE fib == Append(c.t.fib, face)
             r == [c EXCEPT !.t.fib = fib]
  <2>1. fib \in Seq(MyAreas) /\ fib # <<>> /\ Range(fib) = Range(c.t.fib) \cup {face}
    <3>1. /\ fib \in Seq(MyAreas)
          /\ Len(fib) = Len(c.t.fib) + 1
          /\ \A k \in 1..Len(c.t.fib) : fib[k] = c.t.fib[k]
          /\ fib[Len(c.t.fib) + 1] = face
      BY <1>1, SMTT(30)
    <3> HIDE DEF fib
    <3>2. DOMAIN fib = 1..(Len(c.t.fib) + 1) /\ DOMAIN c.t.fib = 1..Len(c.t.fib)
          /\ Len(c.t.fib) \in Nat
      BY <1>1, <3>1, SMTT(30)
    <3>3. \A k \in DOMAIN fib : k \in DOMAIN c.t.fib \/ k = Len(c.t.fib) + 1
      BY <3>2, SMTT(30)
    <3>4. Range(fib) \subseteq Range(c.t.fib) \cup {face}
      BY <3>1, <3>2, <3>3 DEF Range
    <3>5. \A k \in DOMAIN c.t.fib : k \in DOMAIN fib /\ fib[k] = c.t.fib[k]
      BY <3>1, <3>2, SMTT(30)
    <3>6. Range(c.t.fib) \subseteq Range(fib)
      BY <3>5 DEF Range
    <3>7. Len(c.t.fib) + 1 \in DOMAIN fib
      BY <3>2, SMTT(30)
    <3>8. face \in Range(fib)
      BY <3>1, <3>7 DEF Range
    <3>9. fib # <<>>
      BY <3>1, <3>2, SMTT(30)
    <3> QED BY <3>1, <3>4, <3>6, <3>8, <3>9
  <2>2. AddNextHop(c, face) = r
    BY <1>3 DEF AddNextHop
  <2> HIDE DEF fib
  <2>3. /\ r \in Contexts
        /\ r.t.ifnt = c.t.ifnt /\ r.t.dfnt = c.t.dfnt
        /\ r.t.pit = c.t.pit /\ r.t.cs = c.t.cs /\ r.t.dnl = c.t.dnl
        /\ r.t.fib = fib
        /\ r.send = c.send /\ r.gone = c.gone /\ r.app = c.app /\ r.fault = c.fault
    BY <1>1, <2>1 DEF Contexts, Tables
  <2> HIDE DEF r
  <2> QED BY <2>1, <2>2, <2>3
<1> QED BY <1>2, <1>3

\* Cs::insert caches the Data under its name and does nothing else.
LEMMA CsInsertEffect ==
    ASSUME NEW c \in Contexts, NEW x \in Name, NEW mark \in Marks
    PROVE  Inserted(c, CsInsert(c, x, mark), x)
<1> DEFINE m == IF c.t.cs[x] = NotCached THEN mark ELSE c.t.cs[x]
<1>1. c.t \in Tables /\ c.t.cs \in [Name -> Marks \cup {NotCached}]
  BY DEF Contexts, Tables
<1>2. m \in Marks /\ m # NotCached
  BY <1>1, SMTT(30) DEF Marks, SentMarks, CLEAN, CLEAN_DFNT, NotCached
<1>3. CsInsert(c, x, mark) = [c EXCEPT !.t.cs[x] = m]
  BY DEF CsInsert
<1> DEFINE cs == [c.t.cs EXCEPT ![x] = m]
<1>4. /\ cs \in [Name -> Marks \cup {NotCached}]
      /\ cs[x] = m
      /\ \A y \in Name \ {x} : cs[y] = c.t.cs[y]
  <2> HIDE DEF m
  <2> QED BY <1>1, <1>2
<1> DEFINE r == [c EXCEPT !.t.cs = cs]
<1>5. CsInsert(c, x, mark) = r
  BY <1>3
<1> HIDE DEF m, cs
<1>6. /\ r \in Contexts
      /\ r.t.ifnt = c.t.ifnt /\ r.t.dfnt = c.t.dfnt
      /\ r.t.pit = c.t.pit /\ r.t.fib = c.t.fib /\ r.t.dnl = c.t.dnl
      /\ r.t.cs = cs
      /\ r.send = c.send /\ r.gone = c.gone /\ r.app = c.app /\ r.fault = c.fault
  BY <1>1, <1>4 DEF Contexts, Tables
<1> HIDE DEF r
<1>7. r.t.cs[x] # NotCached /\ \A y \in Name \ {x} : r.t.cs[y] = c.t.cs[y]
  BY <1>2, <1>4, <1>6
<1> QED BY <1>5, <1>6, <1>7 DEF Inserted

\* afterReceiveData of a Data with at least one pending downstream.
LEMMA AfterReceiveDataEffect ==
    ASSUME NEW n \in Node, NEW c \in Contexts, IfntByNonce(c.t), c.send = {}, ~c.fault,
           NEW x \in Name, Len(c.t.dfnt[Sig[x]]) <= 1, NEW face \in MyAreas \cup {APP},
           NEW mark \in SentMarks, NEW order \in Seq(MyAreas \cup {APP}), order # <<>>
    PROVE  LET r == AfterReceiveData(n, c, face, x, mark, order)
               s == IF IsGeoFace(face) THEN AddNextHop(c, face) ELSE c
           IN /\ ServingIn(s, x, c.t.pit[x].nonces, r)
              /\ IsGeoFace(face) => Cleared(r.t, s.t, x)
<1> DEFINE s == IF IsGeoFace(face) THEN AddNextHop(c, face) ELSE c
           S == c.t.pit[x].nonces
           start == [c |-> s, nonces |-> S, mark |-> mark, served |-> FALSE]
           turn == Turns(n, face, x, c.t.pit[x].in, start, order)
           N == Len(order)
<1>1. AfterReceiveData(n, c, face, x, mark, order) = turn[N].c
  BY DEF AfterReceiveData
<1>2. S \in SUBSET Nonce
  BY DEF Contexts, Tables, PitEntries
<1>3. /\ s \in Contexts
      /\ s.t.ifnt = c.t.ifnt /\ s.t.dfnt = c.t.dfnt
      /\ s.send = {} /\ ~s.fault
  <2>1. IsGeoFace(face) => face \in MyAreas
    BY AreaFacts
  <2> QED BY <2>1, AddNextHopEffect, SMTT(30)
<1> HIDE DEF s, S
<1>4. /\ Serving(s, x, S, start)
      /\ ~start.served /\ ~start.c.fault
  BY <1>2, <1>3 DEF Serving, ServingIn, IfntByNonce, SameRest
<1> HIDE DEF start
<1>5. /\ turn[0] = start
      /\ \A k \in 1..N :
             turn[k] = ServeDownstream(n, face, x, c.t.pit[x].in, turn[k - 1], order[k])
  BY TurnsDef, SMTT(30)
<1>6. N \in Nat /\ N > 0 /\ \A k \in 1..N : order[k] \in MyAreas \cup {APP}
  BY SMTT(30)
<1> HIDE DEF turn, N
<1> DEFINE Done(k) == /\ Serving(s, x, S, turn[k])
                      /\ k > 0 /\ IsGeoFace(face) => Cleared(turn[k].c.t, s.t, x)
           Good == {k \in Nat : k <= N => Done(k)}
<1>7. 0 \in Good
  <2>1. 0 \in Nat /\ ~(0 > 0)
    BY SMTT(30)
  <2> QED BY <1>4, <1>5, <2>1
<1>8. ASSUME NEW k \in Nat, k \in Good PROVE k + 1 \in Good
  <2> SUFFICES ASSUME k + 1 <= N PROVE Done(k + 1)
    BY SMTT(30)
  <2>1. Done(k) /\ k + 1 \in 1..N /\ (k + 1) - 1 = k
    BY <1>6, <1>8, SMTT(30)
  <2>2. turn[k + 1] = ServeDownstream(n, face, x, c.t.pit[x].in, turn[k], order[k + 1])
    BY <1>5, <2>1
  <2>3. /\ Serving(s, x, S, turn[k + 1])
        /\ Cleared(turn[k].c.t, s.t, x) \/ (IsGeoFace(face) /\ ~turn[k].served /\ ~turn[k].c.fault)
             => Cleared(turn[k + 1].c.t, s.t, x)
    <3>1. Len(s.t.dfnt[Sig[x]]) <= 1 /\ order[k + 1] \in MyAreas \cup {APP}
      BY <1>3, <1>6, <2>1
    <3>2. LET b == ServeDownstream(n, face, x, c.t.pit[x].in, turn[k], order[k + 1])
          IN /\ Serving(s, x, S, b)
             /\ Cleared(turn[k].c.t, s.t, x)
                  \/ (IsGeoFace(face) /\ ~turn[k].served /\ ~turn[k].c.fault)
                  => Cleared(b.c.t, s.t, x)
      BY <1>2, <1>3, <2>1, <3>1, ServeEffect
    <3> QED BY <2>2, <3>2
  <2>4. k = 0 => ~turn[k].served /\ ~turn[k].c.fault
    BY <1>4, <1>5
  <2>5. k = 0 \/ k > 0
    BY SMTT(30)
  <2> QED BY <2>1, <2>3, <2>4, <2>5
<1>9. Done(N)
  <2>1. Nat \subseteq Good
    <3> HIDE DEF Good
    <3> QED BY <1>7, <1>8, SetInduction
  <2> QED BY <1>6, <2>1, SMTT(30)
<1> QED BY <1>1, <1>6, <1>9 DEF Serving, s, S
-----------------------------------------------------------------------------
(* The invariant of a node's tables, and the events that keep it *)

\* onIncomingData of a Data that is pending clears its PIT entry, caches the Data and learns
\* the route it came from.
LEMMA SolicitedEffect ==
    ASSUME NEW n \in Node, NEW c \in Contexts, IfntByNonce(c.t), c.send = {}, ~c.fault,
           NEW x \in Name, Len(c.t.dfnt[Sig[x]]) <= 1, NEW face \in MyAreas \cup {APP},
           NEW mark \in SentMarks, NEW order \in Seq(MyAreas \cup {APP}), order # <<>>,
           c.t.pit[x].in # {}
    PROVE  Solicited(c, OnIncomingData(n, c, face, x, mark, order), x, face)
<1> DEFINE b == CsInsert(c, x, mark)
           s == IF IsGeoFace(face) THEN AddNextHop(b, face) ELSE b
           a == AfterReceiveData(n, b, face, x, mark, order)
           r == OnIncomingData(n, c, face, x, mark, order)
           S == c.t.pit[x].nonces
<1>1. r = [a EXCEPT !.t.pit[x] = NoPit]
  BY DEF OnIncomingData
<1>2. /\ b \in Contexts
      /\ b.t.ifnt = c.t.ifnt /\ b.t.dfnt = c.t.dfnt
      /\ b.t.pit = c.t.pit /\ b.t.fib = c.t.fib /\ b.t.dnl = c.t.dnl
      /\ b.t.cs[x] # NotCached
      /\ \A y \in Name \ {x} : b.t.cs[y] = c.t.cs[y]
      /\ b.send = c.send /\ b.fault = c.fault
  <2>1. mark \in Marks
    BY DEF Marks
  <2>2. Inserted(c, b, x)
    BY <2>1, CsInsertEffect
  <2> QED BY <2>2 DEF Inserted
<1> HIDE DEF b
<1>3. /\ s.t.ifnt = c.t.ifnt /\ s.t.dfnt = c.t.dfnt
      /\ s.t.pit = c.t.pit /\ s.t.cs = b.t.cs /\ s.t.dnl = c.t.dnl
      /\ IF IsGeoFace(face)
         THEN s.t.fib # <<>> /\ Range(s.t.fib) = Range(c.t.fib) \cup {face}
         ELSE s.t.fib = c.t.fib
  <2>1. IsGeoFace(face) => face \in MyAreas
    BY AreaFacts
  <2> QED BY <1>2, <2>1, AddNextHopEffect
<1>4. /\ ServingIn(s, x, S, a)
      /\ IsGeoFace(face) => Cleared(a.t, s.t, x)
  <2>1. IfntByNonce(b.t) /\ b.send = {} /\ ~b.fault /\ Len(b.t.dfnt[Sig[x]]) <= 1
    BY <1>2, SMTT(30) DEF IfntByNonce
  <2> QED BY <1>2, <2>1, AfterReceiveDataEffect
<1> SUFFICES Solicited(c, r, x, face)
  OBVIOUS
<1> HIDE DEF a, s, r
<1>5. /\ a \in Contexts /\ a.t \in Tables
      /\ a.t.pit = c.t.pit
  BY <1>3, <1>4 DEF ServingIn, SameRest, Contexts
<1>6. /\ r \in Contexts
      /\ r.t.ifnt = a.t.ifnt /\ r.t.dfnt = a.t.dfnt /\ r.t.cs = a.t.cs
      /\ r.t.fib = a.t.fib /\ r.t.dnl = a.t.dnl
      /\ r.t.pit = [c.t.pit EXCEPT ![x] = NoPit]
      /\ r.send = a.send
  <2> DEFINE pit == [c.t.pit EXCEPT ![x] = NoPit]
  <2>1. pit \in [Name -> PitEntries]
    <3>1. NoPit \in PitEntries
      BY DEF NoPit, PitEntries
    <3> QED BY <3>1 DEF Contexts, Tables
  <2>2. r = [a EXCEPT !.t.pit = pit]
    BY <1>1, <1>5
  <2> HIDE DEF pit
  <2>3. /\ r \in Contexts
        /\ r.t.ifnt = a.t.ifnt /\ r.t.dfnt = a.t.dfnt /\ r.t.cs = a.t.cs
        /\ r.t.fib = a.t.fib /\ r.t.dnl = a.t.dnl
        /\ r.t.pit = pit
        /\ r.send = a.send
    BY <1>5, <2>1, <2>2 DEF Contexts, Tables
  <2> QED BY <2>3 DEF pit
<1>7. IfntByNonce(r.t)
  <2>1. IfntByNonce(a.t)
    BY <1>4 DEF ServingIn
  <2>2. r.t.ifnt = a.t.ifnt
    BY <1>6
  <2> QED BY <2>1, <2>2 DEF IfntByNonce
<1>8. /\ r.t.dfnt = c.t.dfnt \/ Cleared(r.t, c.t, x)
      /\ IsGeoFace(face) => Cleared(r.t, c.t, x)
  BY <1>3, <1>4, <1>6 DEF ServingIn, Cleared
<1>9. \A i \in Nonce \ S : r.t.ifnt[i] = c.t.ifnt[i]
  BY <1>3, <1>4, <1>6 DEF ServingIn
<1>10. r.send \subseteq Datas
  BY <1>4, <1>6 DEF ServingIn
<1>11. r.t.cs = b.t.cs /\ r.t.fib = s.t.fib /\ r.t.dnl = c.t.dnl
  BY <1>3, <1>4, <1>6 DEF ServingIn, SameRest
<1> QED BY <1>2, <1>3, <1>6, <1>7, <1>8, <1>9, <1>10, <1>11 DEF Solicited

\* Its effect on the invariant: the pending Interest is gone, the Data is
\* cached, and the other names' entries are untouched.
LEMMA SolicitedKeeps ==
    ASSUME NEW n \in Node, NEW c \in Contexts, NEW x \in Name, NEW face, NEW r,
           Solicited(c, r, x, face),
           \A y \in Name : PitOK(c.t, y),
           \A y \in Name \ {x} : c.t.cs[y] # NotCached => c.t.pit[y].in = {},
           \A g \in Signatures \ {Sig[x]} : c.t.dfnt[g] = <<>>,
           IF n \in Producer
           THEN /\ ~IsGeoFace(face) /\ c.t.fib = <<>> /\ c.t.dfnt[Sig[x]] = <<>>
                /\ \A y \in Name \ {x} : c.t.pit[y].in = {}
           ELSE IsGeoFace(face)
    PROVE  EventOK(n, r)
<1>1. c.t.pit \in [Name -> PitEntries] /\ c.t.dfnt \in [Signatures -> Seq(DfntEntries)]
      /\ Sig[x] \in Signatures
  BY DEF Contexts, Tables, Signatures
<1>2. r.t \in Tables /\ r \in Contexts /\ IfntByNonce(r.t) /\ r.send \subseteq Datas
  BY DEF Solicited, Contexts
<1>3. r.t.pit[x] = NoPit /\ \A y \in Name \ {x} : r.t.pit[y] = c.t.pit[y]
  BY <1>1 DEF Solicited
<1>4. ASSUME NEW y \in Name PROVE PitOK(r.t, y)
  <2>1. CASE y = x
    <3>1. r.t.pit[y].in = {} /\ r.t.pit[y].out = {} /\ r.t.pit[y].nonces = {}
      BY <1>3, <2>1, SMTT(30) DEF NoPit
    <3>2. IsFiniteSet({})
      BY FS_EmptySet
    <3> QED BY <3>1, <3>2 DEF PitOK
  <2>2. CASE y # x
    <3>1. r.t.pit[y] = c.t.pit[y] /\ PitOK(c.t, y) /\ PitOK(c.t, x)
      BY <1>3, <2>2
    <3>2. ASSUME NEW q \in c.t.pit[y].in PROVE r.t.ifnt[q[2]] = c.t.ifnt[q[2]]
      <4>1. q[2] \in Nonce /\ NameOf[q[2]] = y
        BY <1>1, <3>1 DEF PitOK, PitEntries
      <4>2. q[2] \notin c.t.pit[x].nonces
        BY <2>2, <3>1, <4>1 DEF PitOK
      <4> QED BY <4>1, <4>2 DEF Solicited
    <3> QED BY <3>1, <3>2 DEF PitOK
  <2> QED BY <2>1, <2>2
<1>5. \A y \in Name : r.t.cs[y] # NotCached => r.t.pit[y].in = {}
  BY <1>3, SMTT(30) DEF Solicited, NoPit
<1>6. \A g \in Signatures : r.t.dfnt[g] = <<>>
  <2> DEFINE f == c.t.dfnt
  <2>1. f \in [Signatures -> Seq(DfntEntries)] /\ Sig[x] \in Signatures
    BY <1>1
  <2>2. r.t.dfnt = [f EXCEPT ![Sig[x]] = <<>>] \/ (r.t.dfnt = f /\ f[Sig[x]] = <<>>)
    BY DEF Solicited, Cleared
  <2>3. \A g \in Signatures \ {Sig[x]} : f[g] = <<>>
    OBVIOUS
  <2> HIDE DEF f
  <2> QED BY <2>1, <2>2, <2>3
<1>7. RoutesOK(n, r.t)
  <2>1. IF n \in Producer THEN r.t.fib = <<>> ELSE r.t.fib # <<>>
    BY DEF Solicited
  <2>2. n \in Producer => \A y \in Name : r.t.pit[y].in = {}
    <3>1. r.t.pit[x].in = {}
      BY <1>3, SMTT(30) DEF NoPit
    <3> QED BY <1>3, <3>1
  <2> QED BY <2>1, <2>2 DEF RoutesOK
<1> QED BY <1>2, <1>4, <1>5, <1>6, <1>7 DEF EventOK, NodeOK

\* The orders in which afterReceiveData may serve the downstreams.
LEMMA OrderFacts ==
    ASSUME NEW D, IsFiniteSet(D), D # {}
    PROVE  /\ AnyOrder(D) \in Seq(D) /\ AnyOrder(D) # <<>>
           /\ \A order \in Orders(D) : order \in Seq(D) /\ order # <<>>
<1> DEFINE N == Cardinality(D)
<1>1. N \in Nat /\ N > 0
  BY FS_CardinalityType, FS_EmptySet, SMTT(30)
<1>2. PICK f \in [1..N -> D] : IsInjective(f)
  <2>1. ExistsBijection(1..N, D)
    BY FS_CardinalityType
  <2> QED BY <2>1 DEF ExistsBijection, Bijection, Injection, IsInjective
<1>3. AnyOrder(D) \in [1..N -> D]
  BY <1>2 DEF AnyOrder, Orders, Injection
<1>4. Orders(D) \subseteq [1..N -> D]
  BY DEF Orders, Injection
<1> HIDE DEF N
<1>5. \A q \in [1..N -> D] : q \in Seq(D) /\ q # <<>>
  BY <1>1, SMTT(30)
<1> QED BY <1>3, <1>4, <1>5

\* The next hops of a node in NodeOK: the appFace alone at a producer; elsewhere
\* geoFaces, those learnt or else the floodFace.
LEMMA NextHopFacts ==
    ASSUME NEW n \in Node, NEW c \in Contexts, RoutesOK(n, c.t)
    PROVE  /\ HasAppFace(n, c) <=> n \in Producer
           /\ n \in Producer => GeoFaces(NextHops(n, c)) = {}
           /\ n \notin Producer => /\ GeoFaces(NextHops(n, c)) # {}
                                   /\ FirstGeoFace(NextHops(n, c)) \in Areas
           /\ n \notin Producer /\ c.t.fib # <<>> =>
                  FirstGeoFace(NextHops(n, c)) \in Range(c.t.fib)
<1>1. c.t.fib \in Seq(MyAreas)
  BY DEF Contexts, Tables
<1>2. CASE n \in Producer
  <2>1. NextHops(n, c) = <<APP>>
    BY <1>2 DEF NextHops, RoutesOK
  <2> QED BY <1>2, <2>1, AreaFacts, SMTT(30) DEF HasAppFace, GeoFaces, Range
<1>3. CASE n \notin Producer
  <2> DEFINE h == NextHops(n, c)
  <2>1. h = IF c.t.fib # <<>> THEN c.t.fib ELSE <<FLOOD_AREA>>
    BY <1>3 DEF NextHops
  <2>2. h \in Seq(Areas) /\ h # <<>>
    <3>1. \A f \in MyAreas : f \in Areas
      BY AreaFacts
    <3>2. CASE c.t.fib # <<>>
      <4>1. c.t.fib \in Seq(Areas)
        BY ONLY <1>1, <3>1, SMTT(30)
      <4> QED BY <2>1, <3>2, <4>1
    <3>3. CASE c.t.fib = <<>>
      BY <2>1, <3>3, AreaFacts, SMTT(30)
    <3> QED BY <3>2, <3>3
  <2> HIDE DEF h
  <2>3. GeoFaces(h) = DOMAIN h /\ 1 \in DOMAIN h /\ \A k \in DOMAIN h : h[k] \in Areas
    <3>1. \A k \in DOMAIN h : h[k] \in Areas
      BY <2>2, SMTT(30)
    <3>2. \A k \in DOMAIN h : IsGeoFace(h[k])
      BY <3>1, AreaFacts
    <3>3. 1 \in DOMAIN h
      BY <2>2, SMTT(30)
    <3> QED BY <3>1, <3>2, <3>3 DEF GeoFaces
  <2>4. Min(GeoFaces(h)) \in DOMAIN h
    <3>1. \A k \in DOMAIN h : 1 <= k
      BY <2>2, SMTT(30)
    <3> QED BY <2>3, <3>1 DEF Min
  <2>5. FirstGeoFace(h) \in Areas
    BY <2>3, <2>4 DEF FirstGeoFace
  <2>6. APP \notin Range(h)
    BY <2>3, AreaFacts DEF Range
  <2>7. c.t.fib # <<>> => FirstGeoFace(h) \in Range(c.t.fib)
    BY <2>1, <2>4 DEF FirstGeoFace, Range
  <2> QED BY <1>3, <2>3, <2>5, <2>6, <2>7 DEF HasAppFace, h
<1> QED BY <1>2, <1>3

\* onDataUnsolicited drops the DFNT entry, and a node that is no producer caches the Data and
\* learns the route.
LEMMA UnsolicitedEffect ==
    ASSUME NEW n \in Node, NEW c \in Contexts, IfntByNonce(c.t), RoutesOK(n, c.t),
           NEW face \in MyAreas, NEW x \in Name
    PROVE  Unsolicited(n, c, OnDataUnsolicited(n, c, face, x), x, face)
<1> DEFINE clean == ReceiveData(n, c, face, x, CLEAN_DFNT, {}, HasAppFace(n, c))
           r == OnDataUnsolicited(n, c, face, x)
<1>1. DataTaken(n, c, clean, face, x, CLEAN_DFNT, {}, HasAppFace(n, c))
  <2>1. CLEAN_DFNT \in Marks /\ {} \in SUBSET Nonce /\ HasAppFace(n, c) \in BOOLEAN
    BY SMTT(30) DEF Marks, HasAppFace
  <2> QED BY <2>1, ReceiveDataEffect
<1>2. /\ clean \in Contexts
      /\ clean.t.ifnt = c.t.ifnt /\ SameRest(clean.t, c.t)
      /\ clean.t.dfnt = [c.t.dfnt EXCEPT ![Sig[x]] = Pop(@)]
      /\ clean.send = c.send /\ clean.gone = c.gone /\ clean.app = c.app
      /\ clean.fault = c.fault
  <2>1. clean.fault => c.fault
    BY <1>1 DEF DataTaken
  <2>2. clean.fault = c.fault
    BY <2>1 DEF ReceiveData, Contexts
  <2> QED BY <1>1, <2>2 DEF DataTaken
<1>3. r = IF HasAppFace(n, c) THEN clean
          ELSE CsInsert(AddNextHop(clean, face), x, CLEAN_DFNT)
  BY DEF OnDataUnsolicited
<1> SUFFICES Unsolicited(n, c, r, x, face)
  OBVIOUS
<1> HIDE DEF clean, r
<1>4. CASE n \in Producer
  <2>1. r = clean
    BY <1>3, <1>4, NextHopFacts
  <2> QED BY <1>2, <1>4, <2>1 DEF Unsolicited, SameRest
<1>5. CASE n \notin Producer
  <2> DEFINE b == AddNextHop(clean, face)
  <2>1. r = CsInsert(b, x, CLEAN_DFNT)
    BY <1>3, <1>5, NextHopFacts
  <2>2. /\ b \in Contexts
        /\ b.t.ifnt = clean.t.ifnt /\ b.t.dfnt = clean.t.dfnt
        /\ b.t.pit = clean.t.pit /\ b.t.cs = clean.t.cs /\ b.t.dnl = clean.t.dnl
        /\ b.t.fib # <<>>
        /\ Range(b.t.fib) = Range(clean.t.fib) \cup {face}
        /\ b.send = clean.send /\ b.gone = clean.gone /\ b.app = clean.app
        /\ b.fault = clean.fault
    BY <1>2, AddNextHopEffect
  <2> HIDE DEF b
  <2>3. /\ r \in Contexts
        /\ r.t.ifnt = b.t.ifnt /\ r.t.dfnt = b.t.dfnt
        /\ r.t.pit = b.t.pit /\ r.t.fib = b.t.fib /\ r.t.dnl = b.t.dnl
        /\ r.t.cs[x] # NotCached
        /\ \A y \in Name \ {x} : r.t.cs[y] = b.t.cs[y]
        /\ r.send = b.send /\ r.gone = b.gone /\ r.app = b.app /\ r.fault = b.fault
    <3>1. CLEAN_DFNT \in Marks
      BY DEF Marks
    <3>2. Inserted(b, r, x)
      BY <2>1, <2>2, <3>1, CsInsertEffect
    <3> QED BY <3>2 DEF Inserted
  <2>4. r.t.ifnt = c.t.ifnt /\ r.t.pit = c.t.pit /\ r.t.dnl = c.t.dnl
    BY <1>2, <2>2, <2>3 DEF SameRest
  <2>5. r.t.dfnt = [c.t.dfnt EXCEPT ![Sig[x]] = Pop(@)]
    BY <1>2, <2>2, <2>3
  <2>6. r.send = c.send /\ r.gone = c.gone /\ r.app = c.app /\ r.fault = c.fault
    BY <1>2, <2>2, <2>3
  <2>7. r.t.cs[x] # NotCached /\ \A y \in Name \ {x} : r.t.cs[y] = c.t.cs[y]
    <3>1. b.t.cs = c.t.cs
      BY <1>2, <2>2 DEF SameRest
    <3> QED BY <2>3, <3>1
  <2>8. r.t.fib # <<>> /\ Range(r.t.fib) = Range(c.t.fib) \cup {face}
    BY <1>2, <2>2, <2>3 DEF SameRest
  <2> QED BY <1>5, <2>3, <2>4, <2>5, <2>6, <2>7, <2>8 DEF Unsolicited
<1> QED BY <1>4, <1>5

\* The context in which an event starts has sent nothing and has no fault.
LEMMA ContextFacts ==
    ASSUME NEW t \in Tables
    PROVE  Context(t) \in Contexts /\ Fresh(Context(t)) /\ Context(t).t = t
  BY DEF Context, Contexts, Fresh

\* The downstreams of a PIT entry are finitely many.
LEMMA DownstreamFacts ==
    ASSUME NEW records, IsFiniteSet(records), records # {}, NEW F, NEW N,
           records \subseteq F \X N
    PROVE  LET D == {r[1] : r \in records}
           IN IsFiniteSet(D) /\ D # {} /\ D \subseteq F
<1> DEFINE D == {r[1] : r \in records}
           f == [r \in records |-> r[1]]
<1>1. f \in Surjection(records, D)
  BY DEF Surjection
<1>2. IsFiniteSet(D)
  BY <1>1, FS_Surjection
<1> QED BY <1>2

\* processDataFromNetwork: the DFNT entry of a Data that has just arrived.
LEMMA DfntAddEffect ==
    ASSUME NEW n \in Node, NEW t, NodeOK(n, t), NEW p \in Datas
    PROVE  LET c == DfntAdd(Context(t), Sig[p.id], DfntEntry(p))
           IN /\ c \in Contexts /\ Fresh(c)
              /\ c.t.ifnt = t.ifnt /\ SameRest(c.t, t)
              /\ c.t.dfnt[Sig[p.id]] = <<DfntEntry(p)>>
              /\ DfntEntry(p) \in DfntEntries
              /\ \A g \in Signatures \ {Sig[p.id]} : c.t.dfnt[g] = <<>>
<1> DEFINE e == DfntEntry(p)
           g == Sig[p.id]
           c == DfntAdd(Context(t), g, e)
<1>1. p.id \in Name /\ p.hopC \in 1..(MAXHOPS + 1) /\ p.hdr \in Header
  BY DEF Datas
<1>2. e \in DfntEntries
  <2>1. (p.hopC - 1) % 256 \in 0..MAXHOPS
    BY <1>1, HopByteAssumption, SMTT(30)
  <2> QED BY <1>1, <2>1, HeaderFields DEF DfntEntry, DfntEntries
<1>3. t \in Tables /\ g \in Signatures /\ t.dfnt \in [Signatures -> Seq(DfntEntries)]
      /\ t.dfnt[g] = <<>>
  BY <1>1 DEF NodeOK, Tables, Signatures
<1> HIDE DEF e
<1> DEFINE dfnt == [t.dfnt EXCEPT ![g] = <<e>>]
<1>4. /\ dfnt \in [Signatures -> Seq(DfntEntries)]
      /\ dfnt[g] = <<e>>
      /\ \A h \in Signatures \ {g} : dfnt[h] = <<>>
  BY <1>2, <1>3, SMTT(30) DEF NodeOK
<1>5. <<e>> \o t.dfnt[g] = <<e>>
  BY <1>2, <1>3, SMTT(30)
<1> DEFINE b == Context(t)
<1>6. b \in Contexts /\ Fresh(b) /\ b.t = t
  BY <1>3, ContextFacts
<1> HIDE DEF b, g
<1>7. c = [b EXCEPT !.t.dfnt = dfnt]
  <2>1. c = [b EXCEPT !.t.dfnt[g] = <<e>> \o @]
    BY DEF DfntAdd, b
  <2> HIDE DEF c
  <2> QED BY <1>5, <1>6, <2>1
<1> HIDE DEF dfnt, c
<1>8. /\ c \in Contexts /\ Fresh(c)
      /\ c.t.ifnt = t.ifnt /\ SameRest(c.t, t)
      /\ c.t.dfnt = dfnt
  BY <1>3, <1>4, <1>6, <1>7 DEF Contexts, Tables, Fresh, SameRest
<1> QED BY <1>2, <1>4, <1>8 DEF c, e, g, b

\* What the invariant says of the PIT, the routes and the IFNT survives a change
\* of the DFNT alone.
LEMMA SameTables ==
    ASSUME NEW n, NEW t, NEW u, u.ifnt = t.ifnt, SameRest(u, t)
    PROVE  /\ IfntByNonce(t) => IfntByNonce(u)
           /\ RoutesOK(n, t) => RoutesOK(n, u)
           /\ (\A y \in Name : PitOK(t, y)) => \A y \in Name : PitOK(u, y)
<1>1. u.pit = t.pit /\ u.cs = t.cs /\ u.fib = t.fib
  BY DEF SameRest
<1>2. IfntByNonce(t) => IfntByNonce(u)
  BY DEF IfntByNonce
<1>3. RoutesOK(n, t) => RoutesOK(n, u)
  BY <1>1 DEF RoutesOK
<1>4. (\A y \in Name : PitOK(t, y)) => \A y \in Name : PitOK(u, y)
  BY <1>1 DEF PitOK
<1> QED BY <1>2, <1>3, <1>4

\* A queue of one element: its head, and what is left.
LEMMA PopOfOne ==
    ASSUME NEW d
    PROVE  Len(<<d>>) <= 1 /\ <<d>> # <<>> /\ Head(<<d>>) = d /\ Pop(<<d>>) = <<>>
BY SMTT(30) DEF Pop

\* A Data from the network leaves sound tables, in whatever order the
\* downstreams are served.
LEMMA DataEvent ==
    ASSUME NEW n \in Node, NEW t, NodeOK(n, t), NEW p \in Datas,
           NEW order \in Orders(Downstreams(Context(t), p.id))
    PROVE  EventOK(n, ProcessDataFromNetwork(n, Context(t), p, order))
<1> DEFINE x == p.id
           c == DfntAdd(Context(t), Sig[x], DfntEntry(p))
           face == p.hdr.sa
           r == ProcessDataFromNetwork(n, Context(t), p, order)
<1>1. x \in Name /\ face \in MyAreas /\ p.hdr.mark \in SentMarks /\ IsGeoFace(face)
  BY HeaderFields, AreaFacts DEF Datas
<1>2. r = OnIncomingData(n, c, face, x, p.hdr.mark, order)
  BY DEF ProcessDataFromNetwork
<1>3. /\ c \in Contexts /\ Fresh(c)
      /\ c.t.ifnt = t.ifnt /\ SameRest(c.t, t)
      /\ c.t.dfnt[Sig[x]] = <<DfntEntry(p)>>
      /\ \A g \in Signatures \ {Sig[x]} : c.t.dfnt[g] = <<>>
  BY DfntAddEffect
<1> HIDE DEF c
<1>4. IfntByNonce(c.t) /\ RoutesOK(n, c.t) /\ \A y \in Name : PitOK(c.t, y)
  <2>1. IfntByNonce(t) /\ RoutesOK(n, t) /\ \A y \in Name : PitOK(t, y)
    BY DEF NodeOK
  <2> QED BY <1>3, <2>1, SameTables
<1>5. Len(c.t.dfnt[Sig[x]]) <= 1 /\ Pop(c.t.dfnt[Sig[x]]) = <<>>
  BY <1>3, PopOfOne
<1> SUFFICES EventOK(n, r)
  OBVIOUS
<1> HIDE DEF r, face
<1>6. CASE c.t.pit[x].in = {}
  <2>1. Unsolicited(n, c, r, x, face)
    <3>1. r = OnDataUnsolicited(n, c, face, x)
      BY <1>2, <1>6 DEF OnIncomingData
    <3> QED BY <1>1, <1>3, <1>4, <3>1, UnsolicitedEffect
  <2>2. r \in Contexts /\ r.t \in Tables /\ IfntByNonce(r.t)
    <3>1. r \in Contexts /\ r.t \in Tables /\ r.t.ifnt = c.t.ifnt
      BY <2>1 DEF Unsolicited, Contexts
    <3> QED BY <1>4, <3>1 DEF IfntByNonce
  <2>3. \A y \in Name : PitOK(r.t, y)
    BY <1>4, <2>1 DEF Unsolicited, PitOK
  <2>4. RoutesOK(n, r.t)
    BY <1>4, <2>1 DEF Unsolicited, RoutesOK
  <2>5. \A y \in Name : r.t.cs[y] # NotCached => r.t.pit[y].in = {}
    <3>1. r.t.pit = c.t.pit /\ \A y \in Name \ {x} : r.t.cs[y] = c.t.cs[y]
      BY <2>1 DEF Unsolicited
    <3>2. \A y \in Name : c.t.cs[y] # NotCached => c.t.pit[y].in = {}
      BY <1>3 DEF NodeOK, SameRest
    <3> QED BY <1>6, <3>1, <3>2
  <2>6. \A g \in Signatures : r.t.dfnt[g] = <<>>
    <3> DEFINE f == c.t.dfnt
    <3>1. f \in [Signatures -> Seq(DfntEntries)]
      BY <1>3 DEF Contexts, Tables
    <3>2. r.t.dfnt = [f EXCEPT ![Sig[x]] = <<>>]
      BY <1>5, <2>1 DEF Unsolicited
    <3>3. \A g \in Signatures \ {Sig[x]} : f[g] = <<>>
      BY <1>3
    <3> HIDE DEF f
    <3> QED BY <3>1, <3>2, <3>3
  <2>7. r.send \subseteq Datas
    BY <1>3, <2>1 DEF Unsolicited, Fresh
  <2> QED BY <2>2, <2>3, <2>4, <2>5, <2>6, <2>7 DEF EventOK, NodeOK
<1>7. CASE c.t.pit[x].in # {}
  <2> DEFINE D == Downstreams(Context(t), x)
  <2>1. D = {q[1] : q \in c.t.pit[x].in} /\ IsFiniteSet(c.t.pit[x].in)
        /\ c.t.pit[x].in \subseteq (MyAreas \cup {APP}) \X Nonce
    BY <1>1, <1>3, <1>4 DEF Downstreams, Context, SameRest, PitOK, Contexts, Tables, PitEntries
  <2>2. IsFiniteSet(D) /\ D # {} /\ D \subseteq MyAreas \cup {APP}
    BY <1>7, <2>1, DownstreamFacts
  <2> HIDE DEF D
  <2>3. order \in Seq(MyAreas \cup {APP}) /\ order # <<>>
    <3>1. order \in Seq(D) /\ order # <<>>
      BY <2>2, OrderFacts DEF D
    <3> QED BY <2>2, <3>1, SMTT(30)
  <2>4. Solicited(c, r, x, face)
    BY <1>1, <1>2, <1>3, <1>4, <1>5, <1>7, <2>3, SolicitedEffect DEF Fresh
  <2>5. n \notin Producer
    BY <1>1, <1>4, <1>7 DEF RoutesOK
  <2>6. \A y \in Name \ {x} : c.t.cs[y] # NotCached => c.t.pit[y].in = {}
    BY <1>3 DEF NodeOK, SameRest
  <2> QED BY <1>1, <1>3, <1>4, <2>4, <2>5, <2>6, SolicitedKeeps
<1> QED BY <1>6, <1>7
=============================================================================
