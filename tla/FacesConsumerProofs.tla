------------------------ MODULE FacesConsumerProofs ------------------------
(***************************************************************************)
(* Proofs about the two ends of a node's forwarder: the safety properties  *)
(* of NdnConsumer for every number of sequence numbers, every initial      *)
(* window and both settings of InitialWindowOnTimeout, and those of        *)
(* ValFaces for every set of areas and every number of faces.              *)
(*                                                                         *)
(* NeverStalls of the consumer is not inductive.  It follows from two      *)
(* facts that are, together with BooksAgree: the counter of Interests in   *)
(* flight never exceeds the number of those that wait for a timeout, and   *)
(* when no SendPacket event is scheduled it is the counter that closes the *)
(* window.                                                                 *)
(*                                                                         *)
(* The properties of the faces are inductive together with what makes an   *)
(* id unique: every id in a table is at most m_lastFaceId, so the id of a  *)
(* new face is in none of them.  TableInv says so of the face table F, its *)
(* last id l and the Face to Area table s, and Grows is what making        *)
(* geoFaces does to a face table.                                          *)
(***************************************************************************)
EXTENDS NdnConsumer, ValFaces, TLAPS

\* Leaves are for Zenon unless they name another prover.
USE ZenonT(30)

(* Facts about sequences *)

Distinct(q) == \A j, k \in DOMAIN q : q[j] = q[k] => j = k

\* What RemoveAt of SequencesExt returns
Dropping(q, k) == SubSeq(q, 1, k - 1) \o SubSeq(q, k + 1, Len(q))

\* A sequence is one over the set of its elements' type.
LEMMA SeqOfElements ==
    ASSUME NEW S, NEW T, NEW q \in Seq(T), \A k \in DOMAIN q : q[k] \in S
    PROVE  q \in Seq(S)
    BY SMTT(30)

\* RemoveAt takes out one element and keeps the others in their order.
LEMMA RemoveAtFacts ==
    ASSUME NEW S, NEW q \in Seq(S), NEW k \in DOMAIN q
    PROVE  /\ Dropping(q, k) \in Seq(S)
           /\ Len(Dropping(q, k)) = Len(q) - 1
           /\ DOMAIN Dropping(q, k) = 1..(Len(q) - 1)
           /\ \A j \in 1..(Len(q) - 1) :
                  Dropping(q, k)[j] = IF j < k THEN q[j] ELSE q[j + 1]
<1>1. DOMAIN q = 1..Len(q) /\ Len(q) \in Nat /\ k \in Nat /\ 1 <= k /\ k <= Len(q)
  BY SMTT(30)
<1> DEFINE a == SubSeq(q, 1, k - 1)
           b == SubSeq(q, k + 1, Len(q))
<1>2. a \in Seq(S) /\ Len(a) = k - 1 /\ \A j \in 1..(k - 1) : a[j] = q[j]
  <2>1. \A i \in 1..(k - 1) : q[i] \in S
    BY <1>1, SMTT(30)
  <2>2. /\ a \in Seq(S)
        /\ Len(a) = IF 1 <= k - 1 THEN (k - 1) - 1 + 1 ELSE 0
        /\ \A i \in 1..((k - 1) - 1 + 1) : a[i] = q[1 + i - 1]
    BY <1>1, <2>1, SMTT(30)
  <2> HIDE DEF a
  <2> QED BY <1>1, <2>2, SMTT(30)
<1>3. b \in Seq(S) /\ Len(b) = Len(q) - k /\ \A j \in 1..(Len(q) - k) : b[j] = q[k + j]
  <2>1. \A i \in (k + 1)..Len(q) : q[i] \in S
    BY <1>1, SMTT(30)
  <2>7. k + 1 \in Int /\ Len(q) \in Int
    BY <1>1, SMTT(30)
  <2>2. /\ b \in Seq(S)
        /\ Len(b) = IF k + 1 <= Len(q) THEN Len(q) - (k + 1) + 1 ELSE 0
        /\ \A i \in 1..(Len(q) - (k + 1) + 1) : b[i] = q[(k + 1) + i - 1]
    BY <2>1, <2>7, SMTT(30)
  <2> HIDE DEF b
  <2>3. \A j \in 1..(Len(q) - k) : (k + 1) + j - 1 = k + j
    BY <1>1, SMTT(30)
  <2>4. Len(q) - (k + 1) + 1 = Len(q) - k
    BY <1>1, SMTT(30)
  <2>5. \A j \in 1..(Len(q) - k) : b[j] = q[k + j]
    BY <2>2, <2>3, <2>4
  <2>6. Len(b) = Len(q) - k
    BY <1>1, <2>2, <2>4, SMTT(30)
  <2> QED BY <2>2, <2>5, <2>6
<1> HIDE DEF a, b
<1>6. /\ a \o b \in Seq(S)
      /\ Len(a \o b) = Len(a) + Len(b)
      /\ \A i \in 1..(Len(a) + Len(b)) :
             (a \o b)[i] = IF i <= Len(a) THEN a[i] ELSE b[i - Len(a)]
  BY <1>2, <1>3, SMTT(30)
<1> DEFINE c == a \o b
<1> HIDE DEF c
<1>7. /\ Len(a) + Len(b) = Len(q) - 1 /\ Len(q) - 1 \in Nat
      /\ Len(a) = k - 1 /\ Len(q) \in Nat /\ k \in Nat /\ 1 <= k /\ k <= Len(q)
  BY <1>1, <1>2, <1>3, SMTT(30)
<1>4. c \in Seq(S) /\ Len(c) = Len(q) - 1 /\ DOMAIN c = 1..(Len(q) - 1)
  BY <1>6, <1>7, SMTT(30) DEF c
<1>8. \A i \in 1..(Len(q) - 1) : c[i] = IF i <= k - 1 THEN a[i] ELSE b[i - (k - 1)]
  BY <1>6, <1>7 DEF c
<1>5. \A j \in 1..(Len(q) - 1) : c[j] = IF j < k THEN q[j] ELSE q[j + 1]
  <2> TAKE j \in 1..(Len(q) - 1)
  <2>1. CASE j < k
    <3>1. j <= k - 1 /\ j \in 1..(k - 1)
      BY <1>1, <2>1, SMTT(30)
    <3> QED BY <1>2, <1>8, <2>1, <3>1
  <2>2. CASE ~(j < k)
    <3>1. /\ ~(j <= k - 1)
          /\ j - (k - 1) \in 1..(Len(q) - k) /\ k + (j - (k - 1)) = j + 1
      BY <1>1, <2>2, SMTT(30)
    <3>2. c[j] = b[j - (k - 1)]
      BY <1>8, <3>1
    <3>3. b[j - (k - 1)] = q[k + (j - (k - 1))]
      BY <1>3, <3>1
    <3> QED BY <2>2, <3>1, <3>2, <3>3
  <2> QED BY <2>1, <2>2
<1> QED BY <1>4, <1>5 DEF Dropping, a, b, c

\* Removing the k-th of a sequence of distinct elements removes that element.
LEMMA RemoveDistinct ==
    ASSUME NEW S, NEW q \in Seq(S), NEW k \in DOMAIN q, Distinct(q)
    PROVE  /\ Dropping(q, k) \in Seq(S)
           /\ Distinct(Dropping(q, k))
           /\ Len(Dropping(q, k)) = Len(q) - 1
           /\ Range(Dropping(q, k)) = Range(q) \ {q[k]}
<1> DEFINE r == Dropping(q, k)
<1>1. DOMAIN q = 1..Len(q) /\ Len(q) \in Nat /\ k \in Nat /\ 1 <= k /\ k <= Len(q)
  BY SMTT(30)
<1>2. /\ r \in Seq(S) /\ Len(r) = Len(q) - 1 /\ DOMAIN r = 1..(Len(q) - 1)
      /\ \A j \in 1..(Len(q) - 1) : r[j] = IF j < k THEN q[j] ELSE q[j + 1]
  BY RemoveAtFacts
<1> HIDE DEF r
<1> DEFINE Src(j) == IF j < k THEN j ELSE j + 1
<1>4. \A j \in DOMAIN r : Src(j) \in DOMAIN q /\ Src(j) # k /\ r[j] = q[Src(j)]
  BY <1>1, <1>2, SMTT(30)
<1>5. \A i, j \in DOMAIN r : Src(i) = Src(j) => i = j
  BY <1>1, <1>2, SMTT(30)
<1>6. ASSUME NEW h \in DOMAIN q, h # k PROVE \E j \in DOMAIN r : Src(j) = h
  <2>1. CASE h < k
    <3>1. h \in DOMAIN r /\ Src(h) = h
      BY <1>1, <1>2, <2>1, SMTT(30)
    <3> QED BY <3>1
  <2>2. CASE h > k
    <3>1. h - 1 \in DOMAIN r /\ Src(h - 1) = h
      BY <1>1, <1>2, <2>2, SMTT(30)
    <3> QED BY <3>1
  <2> QED BY <1>1, <1>6, <2>1, <2>2, SMTT(30)
<1> HIDE DEF Src
<1>7. Distinct(r)
  BY <1>4, <1>5 DEF Distinct
<1>8. Range(r) = Range(q) \ {q[k]}
  BY <1>4, <1>6, SMTT(30) DEF Range, Distinct
<1> QED BY <1>2, <1>7, <1>8 DEF r

\* Appending a new element keeps the elements distinct.
LEMMA AppendDistinct ==
    ASSUME NEW S, NEW q \in Seq(S), NEW e \in S, Distinct(q), e \notin Range(q)
    PROVE  /\ Append(q, e) \in Seq(S)
           /\ Distinct(Append(q, e))
           /\ Len(Append(q, e)) = Len(q) + 1
           /\ Range(Append(q, e)) = Range(q) \cup {e}
<1> DEFINE r == Append(q, e)
<1>1. DOMAIN q = 1..Len(q) /\ Len(q) \in Nat
  BY SMTT(30)
<1>2. /\ r \in Seq(S) /\ Len(r) = Len(q) + 1 /\ DOMAIN r = 1..(Len(q) + 1)
      /\ \A j \in DOMAIN q : r[j] = q[j]
      /\ r[Len(q) + 1] = e
  BY SMTT(30)
<1> HIDE DEF r
<1>3. /\ \A j \in DOMAIN r : j \in DOMAIN q \/ j = Len(q) + 1
      /\ \A j \in DOMAIN q : j \in DOMAIN r
      /\ Len(q) + 1 \in DOMAIN r
  BY <1>1, <1>2, SMTT(30)
<1>4. \A j \in DOMAIN q : q[j] # e
  BY DEF Range
<1>5. Distinct(r)
  BY <1>2, <1>3, <1>4 DEF Distinct
<1>6. Range(r) = Range(q) \cup {e}
  BY <1>2, <1>3 DEF Range
<1> QED BY <1>2, <1>5, <1>6 DEF r

\* Cutting a sequence of distinct elements after the k-th one splits its
\* elements.
LEMMA SplitDistinct ==
    ASSUME NEW S, NEW q \in Seq(S), NEW k \in 1..Len(q), Distinct(q)
    PROVE  /\ SubSeq(q, k + 1, Len(q)) \in Seq(S)
           /\ Distinct(SubSeq(q, k + 1, Len(q)))
           /\ Len(SubSeq(q, k + 1, Len(q))) = Len(q) - k
           /\ Range(SubSeq(q, 1, k)) \cap Range(SubSeq(q, k + 1, Len(q))) = {}
           /\ Range(SubSeq(q, 1, k)) \cup Range(SubSeq(q, k + 1, Len(q))) = Range(q)
<1> DEFINE a == SubSeq(q, 1, k)
           b == SubSeq(q, k + 1, Len(q))
<1>1. DOMAIN q = 1..Len(q) /\ Len(q) \in Nat /\ k \in Nat /\ 1 <= k /\ k <= Len(q)
  BY SMTT(30)
<1>2. a \in Seq(S) /\ DOMAIN a = 1..k /\ \A j \in 1..k : a[j] = q[j]
  <2>1. /\ a \in Seq(S) /\ Len(a) = (IF 1 <= k THEN k - 1 + 1 ELSE 0)
        /\ \A i \in 1..(k - 1 + 1) : a[i] = q[1 + i - 1]
    <3>1. \A i \in 1..k : q[i] \in S
      BY <1>1, SMTT(30)
    <3> QED BY <1>1, <3>1, SMTT(30)
  <2> HIDE DEF a
  <2>2. k - 1 + 1 = k /\ \A i \in 1..k : 1 + i - 1 = i
    BY <1>1, SMTT(30)
  <2>3. Len(a) = k
    BY <1>1, <2>1, <2>2
  <2> QED BY <2>1, <2>2, <2>3, SMTT(30)
<1>3. /\ b \in Seq(S) /\ Len(b) = Len(q) - k /\ DOMAIN b = 1..(Len(q) - k)
      /\ \A j \in 1..(Len(q) - k) : b[j] = q[k + j]
  <2>1. \A i \in (k + 1)..Len(q) : q[i] \in S
    BY <1>1, SMTT(30)
  <2>2. k + 1 \in Int /\ Len(q) \in Int
    BY <1>1, SMTT(30)
  <2>3. /\ b \in Seq(S)
        /\ Len(b) = IF k + 1 <= Len(q) THEN Len(q) - (k + 1) + 1 ELSE 0
        /\ \A i \in 1..(Len(q) - (k + 1) + 1) : b[i] = q[(k + 1) + i - 1]
    BY <2>1, <2>2, SMTT(30)
  <2> HIDE DEF b
  <2>4. Len(q) - (k + 1) + 1 = Len(q) - k
    BY <1>1, SMTT(30)
  <2>7. \A j \in 1..(Len(q) - k) : (k + 1) + j - 1 = k + j
    BY <1>1, SMTT(30)
  <2>8. Len(b) = IF k + 1 <= Len(q) THEN Len(q) - (k + 1) + 1 ELSE 0
    BY <2>3
  <2>5. Len(b) = Len(q) - k
    <3>1. CASE k + 1 <= Len(q)
      BY <2>4, <2>8, <3>1
    <3>2. CASE k = Len(q)
      BY <1>1, <2>8, <3>2, SMTT(30)
    <3>3. \A i, n \in Nat : i <= n => i + 1 <= n \/ i = n
      BY SMTT(30)
    <3>4. k + 1 <= Len(q) \/ k = Len(q)
      BY <1>1, <3>3
    <3> QED BY <3>1, <3>2, <3>4
  <2>6. \A j \in 1..(Len(q) - k) : b[j] = q[k + j]
    BY <2>3, <2>4, <2>7
  <2> QED BY <2>3, <2>5, <2>6, SMTT(30)
<1> HIDE DEF a, b
<1>4. \A j \in DOMAIN b : k + j \in DOMAIN q /\ k + j > k
  BY <1>1, <1>3, SMTT(30)
<1>5. \A j \in DOMAIN a : j \in DOMAIN q /\ j <= k
  BY <1>1, <1>2, SMTT(30)
<1>6. \A h \in DOMAIN q : h \in DOMAIN a \/ (h - k \in DOMAIN b /\ k + (h - k) = h)
  BY <1>1, <1>2, <1>3, SMTT(30)
<1>7. Distinct(b)
  <2> SUFFICES ASSUME NEW i \in DOMAIN b, NEW j \in DOMAIN b, b[i] = b[j] PROVE i = j
    BY DEF Distinct
  <2>1. k + i = k + j
    BY <1>3, <1>4 DEF Distinct
  <2> QED BY <1>1, <1>3, <2>1, SMTT(30)
<1>8. Range(a) \cap Range(b) = {}
  <2> SUFFICES ASSUME NEW i \in DOMAIN a, NEW j \in DOMAIN b, a[i] = b[j] PROVE FALSE
    BY DEF Range
  <2>1. i = k + j
    BY <1>2, <1>3, <1>4, <1>5 DEF Distinct
  <2> QED BY <1>1, <1>2, <1>3, <2>1, SMTT(30)
<1>9. Range(a) \cup Range(b) = Range(q)
  <2>1. ASSUME NEW h \in DOMAIN q PROVE q[h] \in Range(a) \/ q[h] \in Range(b)
    <3>1. CASE h \in DOMAIN a
      BY <1>2, <3>1 DEF Range
    <3>2. CASE h - k \in DOMAIN b /\ k + (h - k) = h
      <4>1. b[h - k] = q[h]
        BY <1>3, <3>2
      <4> QED BY <3>2, <4>1 DEF Range
    <3> QED BY <1>6, <3>1, <3>2
  <2>2. Range(a) \subseteq Range(q) /\ Range(b) \subseteq Range(q)
    BY <1>2, <1>3, <1>4, <1>5 DEF Range
  <2>3. Range(q) \subseteq Range(a) \cup Range(b)
    BY <2>1 DEF Range
  <2> QED BY <2>2, <2>3
<1> QED BY <1>3, <1>7, <1>8, <1>9 DEF a, b
-----------------------------------------------------------------------------

(* The consumer *)

Left == m_retxSeqs # {} \/ m_seq < m_seqMax

Armed == m_active /\ ~m_sendEvent /\ Left => 0 < m_window /\ m_window <= m_inFlight

ConsumerInv ==
    /\ ConsumerTypeOK
    /\ BooksAgree
    /\ KarnsRule
    /\ m_inFlight <= Len(m_seqTimeouts)
    /\ Armed

\* What the assumptions on the consumer's constants say, as one fact to cite.
LEMMA ConsumerConstants ==
    /\ m_seqMax \in Nat /\ m_initialWindow \in Nat /\ MaxArriving \in Nat
    /\ WINDOW_CAP \in Nat /\ m_initialWindow <= WINDOW_CAP
    /\ Wanted \subseteq Nat /\ \A s \in Wanted : s < m_seqMax
    BY ConsumerAssumption, SMTT(30) DEF WINDOW_CAP, Wanted

\* The consumer's invariant holds before the application starts.
LEMMA ConsumerInvInit == Init => ConsumerInv
<1> SUFFICES ASSUME Init PROVE ConsumerInv
  OBVIOUS
<1>1. ConsumerTypeOK
  <2>1. /\ m_seqRetxCounts \in [DOMAIN m_seqRetxCounts -> {1, MANY}]
        /\ m_history \in [DOMAIN m_history -> BOOLEAN]
    BY DEF Init
  <2>2. /\ m_seq \in 0..m_seqMax /\ m_window \in 0..WINDOW_CAP /\ m_inFlight \in Nat
    BY ConsumerConstants, SMTT(30) DEF Init
  <2>3. /\ m_seqTimeouts = <<>> /\ arriving = <<>>
        /\ {m_startEvent, m_active, m_sendEvent} \subseteq BOOLEAN
        /\ m_retxSeqs = {} /\ m_seqFullDelay = {} /\ pending = {}
    BY DEF Init
  <2>4. <<>> \in Seq(Wanted)
    BY SMTT(30)
  <2> QED BY <2>1, <2>2, <2>3, <2>4 DEF ConsumerTypeOK
<1>2. BooksAgree /\ KarnsRule
  BY SMTT(30) DEF Init, BooksAgree, KarnsRule, Range
<1>3. m_inFlight <= Len(m_seqTimeouts) /\ Armed
  BY SMTT(30) DEF Init, Armed
<1> QED BY <1>1, <1>2, <1>3 DEF ConsumerInv

\* The invariant implies NeverStalls: an idle consumer with work left waits for a timeout.
LEMMA InvImpliesNeverStalls == ConsumerInv => NeverStalls
<1> SUFFICES ASSUME ConsumerInv, m_active, ~m_sendEvent, Left PROVE
       m_seqTimeouts # <<>> /\ m_inFlight <= Len(m_seqTimeouts)
  BY DEF NeverStalls, Left
<1>1. m_window \in Nat /\ m_inFlight \in Nat /\ m_seqTimeouts \in Seq(Wanted)
  BY ConsumerConstants, SMTT(30) DEF ConsumerInv, ConsumerTypeOK
<1>2. 0 < Len(m_seqTimeouts) /\ m_inFlight <= Len(m_seqTimeouts)
  BY <1>1, SMTT(30) DEF ConsumerInv, Armed
<1> QED BY <1>1, <1>2, SMTT(30)

\* StartApplication, which schedules the first packet, keeps the invariant.
LEMMA StartKeepsInv == ConsumerInv /\ StartApplication => ConsumerInv'
<1> SUFFICES ASSUME ConsumerInv, StartApplication PROVE ConsumerInv'
  OBVIOUS
<1>1. UNCHANGED <<m_seq, books, m_window, m_inFlight, pending, arriving>>
  BY DEF StartApplication
<1>2. ConsumerTypeOK'
  BY <1>1 DEF ConsumerInv, ConsumerTypeOK, StartApplication, ScheduleNextPacket, books
<1>3. BooksAgree' /\ KarnsRule' /\ m_inFlight' <= Len(m_seqTimeouts')
  BY <1>1 DEF ConsumerInv, BooksAgree, KarnsRule, books
<1>4. Armed'
  <2>1. m_window \in Nat /\ m_inFlight \in Nat
    BY ConsumerConstants, SMTT(30) DEF ConsumerInv, ConsumerTypeOK
  <2>2. ~m_sendEvent' => m_window # 0 /\ ~(m_inFlight < m_window)
    BY DEF StartApplication, ScheduleNextPacket
  <2>3. ~m_sendEvent' => 0 < m_window /\ m_window <= m_inFlight
    BY <2>1, <2>2, SMTT(30)
  <2> QED BY <1>1, <2>3 DEF Armed
<1> QED BY <1>2, <1>3, <1>4 DEF ConsumerInv

\* StopApplication, which cancels the send event and drops what is pending, keeps the
\* invariant.
LEMMA StopKeepsInv == ConsumerInv /\ StopApplication => ConsumerInv'
<1> SUFFICES ASSUME ConsumerInv, StopApplication PROVE ConsumerInv'
  OBVIOUS
<1>1. UNCHANGED <<m_seq, books, m_window, m_inFlight, arriving>>
  BY DEF StopApplication
<1>2. ConsumerTypeOK'
  BY <1>1 DEF ConsumerInv, ConsumerTypeOK, StopApplication, books
<1>3. BooksAgree' /\ KarnsRule' /\ m_inFlight' <= Len(m_seqTimeouts')
  BY <1>1 DEF ConsumerInv, BooksAgree, KarnsRule, books
<1> QED BY <1>2, <1>3 DEF ConsumerInv, Armed, StopApplication

\* An Interest answered or lost by the network keeps the invariant.
LEMMA NetKeepsInv ==
    ASSUME ConsumerInv, NEW s \in Wanted, Answer(s) \/ Lose(s)
    PROVE  ConsumerInv'
<1>1. UNCHANGED <<app, m_seq, books, m_window, m_inFlight, m_sendEvent>>
  BY DEF Answer, Lose
<1>2. pending' \subseteq Wanted /\ arriving' \in Seq(Wanted)
  <2>1. pending' \subseteq pending /\ (arriving' = arriving \/ arriving' = Append(arriving, s))
    BY DEF Answer, Lose
  <2>2. pending \subseteq Wanted /\ arriving \in Seq(Wanted)
    BY DEF ConsumerInv, ConsumerTypeOK
  <2>3. Append(arriving, s) \in Seq(Wanted)
    BY <2>2, SMTT(30)
  <2> QED BY <2>1, <2>2, <2>3
<1>3. ConsumerTypeOK'
  BY <1>1, <1>2 DEF ConsumerInv, ConsumerTypeOK, books, app
<1>4. BooksAgree' /\ KarnsRule' /\ m_inFlight' <= Len(m_seqTimeouts')
  BY <1>1 DEF ConsumerInv, BooksAgree, KarnsRule, books
<1>5. Armed'
  BY <1>1 DEF ConsumerInv, Armed, Left, books, app
<1> QED BY <1>3, <1>4, <1>5 DEF ConsumerInv

\* What CheckRetxTimeout finds due leaves the queue of timeouts
LEMMA TimeoutKeepsInv ==
    ASSUME ConsumerInv, NEW k \in 1..Len(m_seqTimeouts), CheckRetxTimeout(k)
    PROVE  ConsumerInv'
<1> DEFINE due == Range(SubSeq(m_seqTimeouts, 1, k))
<1>1. m_seqTimeouts \in Seq(Wanted) /\ Distinct(m_seqTimeouts)
  BY DEF ConsumerInv, ConsumerTypeOK, BooksAgree, Distinct
<1>2. /\ m_seqTimeouts' \in Seq(Wanted)
      /\ Distinct(m_seqTimeouts')
      /\ Len(m_seqTimeouts') = Len(m_seqTimeouts) - k
      /\ due \cap Range(m_seqTimeouts') = {}
      /\ due \cup Range(m_seqTimeouts') = Range(m_seqTimeouts)
  BY <1>1, SplitDistinct DEF CheckRetxTimeout
<1>3. /\ m_retxSeqs' = m_retxSeqs \cup due
      /\ m_history' = Marked(due) /\ m_inFlight' = NoLongerInFlight(k)
      /\ m_sendEvent' = ScheduleNextPacket(m_sendEvent, m_window', m_inFlight')
      /\ UNCHANGED <<app, m_seq, m_seqFullDelay, m_seqRetxCounts, pending, arriving>>
  BY DEF CheckRetxTimeout
<1> HIDE DEF due
<1>4. due \subseteq m_seqFullDelay /\ due \subseteq Wanted /\ DOMAIN m_history = m_seqFullDelay
  BY <1>2 DEF ConsumerInv, BooksAgree, ConsumerTypeOK
<1>5. m_inFlight' \in Nat /\ m_inFlight' <= Len(m_seqTimeouts')
  <2>1. /\ m_inFlight \in Nat /\ Len(m_seqTimeouts) \in Nat /\ k \in Nat
        /\ m_inFlight <= Len(m_seqTimeouts) /\ k <= Len(m_seqTimeouts)
    BY <1>1, SMTT(30) DEF ConsumerInv, ConsumerTypeOK
  <2>2. m_inFlight' = IF m_inFlight < k THEN 0 ELSE m_inFlight - k
    BY <1>3 DEF NoLongerInFlight, Decremented
  <2> QED BY <1>2, <2>1, <2>2, SMTT(30)
<1>6. m_window' \in 0..WINDOW_CAP
  BY ConsumerConstants, SMTT(30) DEF CheckRetxTimeout, ConsumerInv, ConsumerTypeOK
<1>7. m_history' \in [m_seqFullDelay -> BOOLEAN]
  BY <1>3, <1>4 DEF Marked, ConsumerInv, ConsumerTypeOK
<1>8. ConsumerTypeOK'
  BY <1>2, <1>3, <1>4, <1>5, <1>6, <1>7
     DEF ConsumerInv, ConsumerTypeOK, ScheduleNextPacket, app
<1>9. BooksAgree'
  BY <1>2, <1>3, <1>7 DEF ConsumerInv, BooksAgree, Distinct
<1>10. KarnsRule'
  <2> SUFFICES ASSUME NEW s \in DOMAIN m_history', ~m_history'[s]
               PROVE  m_seqRetxCounts'[s] = 1 /\ s \in Range(m_seqTimeouts')
    BY DEF KarnsRule
  <2>1. s \in DOMAIN m_history /\ s \notin due /\ ~m_history[s]
    BY <1>3, <1>4 DEF Marked
  <2> QED BY <1>2, <1>3, <2>1 DEF ConsumerInv, KarnsRule
<1>11. Armed'
  <2>1. ~m_sendEvent' => m_window' # 0 /\ ~(m_inFlight' < m_window')
    BY <1>3 DEF ScheduleNextPacket
  <2>2. m_window' \in Nat
    BY <1>6, ConsumerConstants, SMTT(30)
  <2>3. ~m_sendEvent' => 0 < m_window' /\ m_window' <= m_inFlight'
    BY <1>5, <2>1, <2>2, SMTT(30)
  <2> QED BY <2>3 DEF Armed
<1> QED BY <1>5, <1>8, <1>9, <1>10, <1>11 DEF ConsumerInv

\* Erasing a number from a sequence without repetitions removes that number and nothing else.
LEMMA EraseSeqFacts ==
    ASSUME NEW S, NEW q \in Seq(S), NEW s, Distinct(q)
    PROVE  /\ EraseSeq(q, s) \in Seq(S)
           /\ Distinct(EraseSeq(q, s))
           /\ Len(EraseSeq(q, s)) = IF s \in Range(q) THEN Len(q) - 1 ELSE Len(q)
           /\ Range(EraseSeq(q, s)) = Range(q) \ {s}
<1>1. CASE s \notin Range(q)
  BY <1>1 DEF EraseSeq
<1>2. CASE s \in Range(q)
  <2> DEFINE k == CHOOSE k \in DOMAIN q : q[k] = s
  <2>1. k \in DOMAIN q /\ q[k] = s
    BY <1>2 DEF Range
  <2>2. EraseSeq(q, s) = Dropping(q, k)
    BY <1>2 DEF EraseSeq, RemoveAt, Dropping
  <2> HIDE DEF k
  <2> QED BY <1>2, <2>1, <2>2, RemoveDistinct, SMTT(30)
<1> QED BY <1>1, <1>2

\* OnData, which frees the number and schedules the next packet, keeps the invariant.
LEMMA OnDataKeepsInv == ConsumerInv /\ OnData => ConsumerInv'
<1> SUFFICES ASSUME ConsumerInv, OnData PROVE ConsumerInv'
  OBVIOUS
<1> DEFINE s == Head(arriving)
<1>1. m_seqTimeouts \in Seq(Wanted) /\ Distinct(m_seqTimeouts)
  BY DEF ConsumerInv, ConsumerTypeOK, BooksAgree, Distinct
<1>2. /\ ConsumerOnData(s) /\ WindowOnData(s)
      /\ m_sendEvent' = ScheduleNextPacket(m_sendEvent, m_window', m_inFlight')
      /\ UNCHANGED <<app, m_seq, pending>>
  BY DEF OnData
<1>3. arriving' \in Seq(Wanted)
  BY SMTT(30) DEF OnData, ConsumerInv, ConsumerTypeOK
<1> HIDE DEF s
<1>4. /\ m_seqTimeouts' \in Seq(Wanted)
      /\ Distinct(m_seqTimeouts')
      /\ Len(m_seqTimeouts') \in {Len(m_seqTimeouts), Len(m_seqTimeouts) - 1}
      /\ m_active => Range(m_seqTimeouts') = Range(m_seqTimeouts) \ {s}
      /\ ~m_active => m_seqTimeouts' = m_seqTimeouts
  BY <1>1, <1>2, EraseSeqFacts, SMTT(30) DEF ConsumerOnData, books
<1>5. /\ m_window' \in 0..WINDOW_CAP
      /\ m_inFlight' \in Nat /\ m_inFlight' <= Len(m_seqTimeouts')
  <2>1. /\ m_window \in Nat /\ m_window <= WINDOW_CAP /\ m_inFlight \in Nat
        /\ Len(m_seqTimeouts) \in Nat /\ Len(m_seqTimeouts') \in Nat
        /\ m_inFlight <= Len(m_seqTimeouts)
    BY <1>1, <1>4, ConsumerConstants, SMTT(30) DEF ConsumerInv, ConsumerTypeOK
  <2>2. /\ m_window' = IF m_window + 1 < WINDOW_CAP THEN m_window + 1 ELSE WINDOW_CAP
        /\ m_inFlight' = IF m_inFlight < 1 THEN 0 ELSE m_inFlight - 1
    BY <1>2 DEF WindowOnData, Smaller, Decremented
  <2>3. m_window' \in 0..WINDOW_CAP
    BY <2>1, <2>2, ConsumerConstants, SMTT(30)
  <2>4. m_inFlight' \in Nat /\ m_inFlight' <= Len(m_seqTimeouts')
    BY <1>4, <2>1, <2>2, SMTT(30)
  <2> QED BY <2>3, <2>4
<1>6. Armed'
  <2>1. ~m_sendEvent' => m_window' # 0 /\ ~(m_inFlight' < m_window')
    BY <1>2 DEF ScheduleNextPacket
  <2>2. m_window' \in Nat
    BY <1>5, ConsumerConstants, SMTT(30)
  <2>3. ~m_sendEvent' => 0 < m_window' /\ m_window' <= m_inFlight'
    BY <1>5, <2>1, <2>2, SMTT(30)
  <2> QED BY <2>3 DEF Armed
<1>7. CASE ~m_active
  <2>1. UNCHANGED books
    BY <1>2, <1>7 DEF ConsumerOnData
  <2>2. ConsumerTypeOK'
    BY <1>2, <1>3, <1>5, <2>1
       DEF ConsumerInv, ConsumerTypeOK, ScheduleNextPacket, books, app
  <2>3. BooksAgree' /\ KarnsRule'
    BY <1>2, <2>1 DEF ConsumerInv, BooksAgree, KarnsRule, books
  <2> QED BY <1>5, <1>6, <2>2, <2>3 DEF ConsumerInv
<1>8. CASE m_active
  <2>1. /\ m_seqRetxCounts' = [x \in DOMAIN m_seqRetxCounts \ {s} |-> m_seqRetxCounts[x]]
        /\ m_history' = [x \in DOMAIN m_history \ {s} |-> m_history[x]]
        /\ m_seqFullDelay' = m_seqFullDelay \ {s}
        /\ m_retxSeqs' = m_retxSeqs \ {s}
        /\ Range(m_seqTimeouts') = Range(m_seqTimeouts) \ {s}
    BY <1>2, <1>4, <1>8 DEF ConsumerOnData, Erased
  <2>2. /\ m_seqRetxCounts' \in [DOMAIN m_seqRetxCounts' -> {1, MANY}]
        /\ m_history' \in [DOMAIN m_history' -> BOOLEAN]
    BY <2>1 DEF ConsumerInv, ConsumerTypeOK
  <2>3. ConsumerTypeOK'
    BY <1>2, <1>3, <1>4, <1>5, <2>1, <2>2
       DEF ConsumerInv, ConsumerTypeOK, ScheduleNextPacket, app
  <2>4. BooksAgree'
    BY <1>2, <1>4, <2>1 DEF ConsumerInv, BooksAgree, Distinct
  <2>5. KarnsRule'
    <3> SUFFICES ASSUME NEW r \in DOMAIN m_history', ~m_history'[r]
                 PROVE  m_seqRetxCounts'[r] = 1 /\ r \in Range(m_seqTimeouts')
      BY DEF KarnsRule
    <3>1. r # s /\ r \in DOMAIN m_history /\ ~m_history[r] /\ r \in DOMAIN m_seqRetxCounts
      BY <2>1 DEF ConsumerInv, BooksAgree
    <3> QED BY <2>1, <3>1 DEF ConsumerInv, KarnsRule
  <2> QED BY <1>5, <1>6, <2>3, <2>4, <2>5 DEF ConsumerInv
<1> QED BY <1>7, <1>8

\* Setting one key of a map keeps its values in their type.
LEMMA SetTyped ==
    ASSUME NEW A, NEW f, f \in [DOMAIN f -> A], NEW s, NEW v \in A
    PROVE  Set(f, s, v) \in [DOMAIN Set(f, s, v) -> A]
    BY DEF Set

\* What is sent was neither waiting for a timeout nor, if new, ever asked for
LEMMA SendKeepsInv == ConsumerInv /\ SendPacket => ConsumerInv'
<1> SUFFICES ASSUME ConsumerInv, SendPacket PROVE ConsumerInv'
  OBVIOUS
<1>1. CASE /\ ~m_active \/ (m_retxSeqs = {} /\ m_seq >= m_seqMax)
           /\ m_sendEvent' = FALSE
           /\ UNCHANGED <<m_seq, books, m_inFlight, pending>>
  <2>1. UNCHANGED <<app, m_seq, books, m_window, m_inFlight, pending, arriving>>
    BY <1>1 DEF SendPacket
  <2>2. ConsumerTypeOK'
    BY <1>1, <2>1 DEF ConsumerInv, ConsumerTypeOK, books, app
  <2>3. BooksAgree' /\ KarnsRule' /\ m_inFlight' <= Len(m_seqTimeouts')
    BY <2>1 DEF ConsumerInv, BooksAgree, KarnsRule, books
  <2>4. Armed'
    <3>1. ~(m_active' /\ Left')
      <4>1. m_seq \in Nat /\ m_seqMax \in Nat
        BY ConsumerConstants, SMTT(30) DEF ConsumerInv, ConsumerTypeOK
      <4> QED BY <1>1, <2>1, <4>1, SMTT(30) DEF Left, books, app
    <3> QED BY <3>1 DEF Armed
  <2> QED BY <2>2, <2>3, <2>4 DEF ConsumerInv
<1>2. ASSUME NEW s \in Wanted,
             \/ s \in m_retxSeqs /\ (\A r \in m_retxSeqs : s <= r) /\ m_seq' = m_seq
             \/ m_retxSeqs = {} /\ s = m_seq /\ m_seq' = m_seq + 1,
             m_retxSeqs' = m_retxSeqs \ {s}, WillSendOutInterest(s),
             pending' = pending \cup {s},
             m_sendEvent' = ScheduleNextPacket(FALSE, m_window, m_inFlight + 1),
             UNCHANGED <<app, m_window, arriving>>
      PROVE  ConsumerInv'
  <2>1. m_seqTimeouts \in Seq(Wanted) /\ Distinct(m_seqTimeouts)
    BY DEF ConsumerInv, ConsumerTypeOK, BooksAgree, Distinct
  <2>2. s \notin Range(m_seqTimeouts)
    <3>1. m_seq \in Nat /\ \A r \in m_seqFullDelay : r < m_seq /\ r \in Nat
      BY ConsumerConstants, SMTT(30) DEF ConsumerInv, ConsumerTypeOK, BooksAgree
    <3>2. s = m_seq => s \notin m_seqFullDelay
      BY <3>1, SMTT(30)
    <3> QED BY <1>2, <3>2 DEF ConsumerInv, BooksAgree
  <2>3. /\ m_seqTimeouts' \in Seq(Wanted)
        /\ Distinct(m_seqTimeouts')
        /\ Len(m_seqTimeouts') = Len(m_seqTimeouts) + 1
        /\ Range(m_seqTimeouts') = Range(m_seqTimeouts) \cup {s}
    BY <1>2, <2>1, <2>2, AppendDistinct, SMTT(30) DEF WillSendOutInterest
  <2>4. /\ m_seq' \in 0..m_seqMax /\ m_seq <= m_seq' /\ s < m_seq' /\ m_seq \in Nat
    <3>1. m_seq \in Nat /\ m_seq <= m_seqMax /\ s \in Nat /\ s < m_seqMax
      BY ConsumerConstants, SMTT(30) DEF ConsumerInv, ConsumerTypeOK
    <3>2. CASE s = m_seq /\ m_seq' = m_seq + 1
      BY <3>1, <3>2, ConsumerConstants, SMTT(30)
    <3>3. CASE s \in m_retxSeqs /\ m_seq' = m_seq
      <4>1. s < m_seq
        BY <3>3 DEF ConsumerInv, BooksAgree
      <4> QED BY <3>1, <3>3, <4>1, ConsumerConstants, SMTT(30)
    <3> QED BY <1>2, <3>2, <3>3
  <2>5. m_inFlight' \in Nat /\ m_inFlight' = m_inFlight + 1 /\ m_inFlight' <= Len(m_seqTimeouts')
    <3>1. m_inFlight \in Nat /\ m_inFlight <= Len(m_seqTimeouts) /\ Len(m_seqTimeouts) \in Nat
      BY <2>1, SMTT(30) DEF ConsumerInv, ConsumerTypeOK
    <3>2. m_inFlight' = m_inFlight + 1
      BY <1>2 DEF WillSendOutInterest
    <3> QED BY <2>3, <3>1, <3>2, SMTT(30)
  <2>6. /\ m_seqFullDelay' = m_seqFullDelay \cup {s}
        /\ m_seqRetxCounts' = [x \in DOMAIN m_seqRetxCounts \cup {s} |->
               IF x = s THEN IF s \in DOMAIN m_seqRetxCounts THEN MANY ELSE 1
               ELSE m_seqRetxCounts[x]]
        /\ m_history' = [x \in DOMAIN m_history \cup {s} |->
               IF x = s THEN s \in DOMAIN m_history ELSE m_history[x]]
    BY <1>2 DEF WillSendOutInterest, SentSeq, Set
  <2>7. /\ m_seqRetxCounts' \in [DOMAIN m_seqRetxCounts' -> {1, MANY}]
        /\ m_history' \in [DOMAIN m_history' -> BOOLEAN]
    <3>1. /\ m_seqRetxCounts \in [DOMAIN m_seqRetxCounts -> {1, MANY}]
          /\ m_history \in [DOMAIN m_history -> BOOLEAN]
      BY DEF ConsumerInv, ConsumerTypeOK
    <3>2. /\ (IF s \in DOMAIN m_seqRetxCounts THEN MANY ELSE 1) \in {1, MANY}
          /\ (s \in DOMAIN m_history) \in BOOLEAN
      BY SMTT(30)
    <3> QED BY <1>2, <3>1, <3>2, SetTyped DEF WillSendOutInterest, SentSeq
  <2>8. ConsumerTypeOK'
    BY <1>2, <2>3, <2>4, <2>5, <2>6, <2>7
       DEF ConsumerInv, ConsumerTypeOK, ScheduleNextPacket, app
  <2>9. BooksAgree'
    <3>1. \A r \in m_seqFullDelay' : r < m_seq'
      <4>1. \A r \in m_seqFullDelay : r < m_seq /\ r \in Nat
        BY ConsumerConstants DEF ConsumerInv, BooksAgree, ConsumerTypeOK
      <4>2. m_seq' \in Nat
        BY <2>4, ConsumerConstants, SMTT(30)
      <4> QED BY <2>4, <2>6, <4>1, <4>2, SMTT(30)
    <3> QED BY <1>2, <2>2, <2>3, <2>6, <3>1 DEF ConsumerInv, BooksAgree, Distinct
  <2>10. KarnsRule'
    <3> SUFFICES ASSUME NEW r \in DOMAIN m_history', ~m_history'[r]
                 PROVE  m_seqRetxCounts'[r] = 1 /\ r \in Range(m_seqTimeouts')
      BY DEF KarnsRule
    <3>1. CASE r = s
      <4>1. s \notin DOMAIN m_history
        BY <2>6, <3>1
      <4>2. s \notin DOMAIN m_seqRetxCounts
        BY <4>1 DEF ConsumerInv, BooksAgree
      <4> QED BY <2>3, <2>6, <3>1, <4>2
    <3>2. CASE r # s
      <4>1. r \in DOMAIN m_history /\ ~m_history[r] /\ r \in DOMAIN m_seqRetxCounts
        BY <2>6, <3>2 DEF ConsumerInv, BooksAgree
      <4> QED BY <2>3, <2>6, <3>2, <4>1 DEF ConsumerInv, KarnsRule
    <3> QED BY <3>1, <3>2
  <2>11. Armed'
    <3>1. m_window' = m_window /\ m_window \in Nat
      BY <1>2, ConsumerConstants, SMTT(30) DEF ConsumerInv, ConsumerTypeOK
    <3>2. ~m_sendEvent' => m_window # 0 /\ ~(m_inFlight' < m_window)
      BY <1>2, <2>5 DEF ScheduleNextPacket
    <3>3. ~m_sendEvent' => 0 < m_window /\ m_window <= m_inFlight'
      BY <2>5, <3>1, <3>2, SMTT(30)
    <3> QED BY <3>1, <3>3 DEF Armed
  <2> QED BY <2>5, <2>8, <2>9, <2>10, <2>11 DEF ConsumerInv
<1> QED BY <1>1, <1>2 DEF SendPacket

\* Every step of the consumer keeps its invariant.
LEMMA ConsumerInvStep == ConsumerInv /\ [Next]_vars => ConsumerInv'
<1> SUFFICES ASSUME ConsumerInv, [Next]_vars PROVE ConsumerInv'
  OBVIOUS
<1>1. CASE UNCHANGED vars
  BY <1>1 DEF vars, app, books, ConsumerInv, ConsumerTypeOK, BooksAgree, KarnsRule, Armed, Left
<1>2. CASE Next
  BY <1>2, StartKeepsInv, StopKeepsInv, SendKeepsInv, OnDataKeepsInv, TimeoutKeepsInv,
     NetKeepsInv DEF Next
<1> QED BY <1>1, <1>2

\* The consumer's invariant holds in every reachable state.
LEMMA ConsumerInvariant == Spec => []ConsumerInv
  BY ConsumerInvInit, ConsumerInvStep, PTL DEF Spec

\* The state keeps its type; m_inFlight, an unsigned counter that OnData and
\* OnTimeout both decrement, never wraps below zero.
THEOREM ConsumerTypeCorrect == Spec => []ConsumerTypeOK
<1>1. ConsumerInv => ConsumerTypeOK
  BY DEF ConsumerInv
<1> QED BY <1>1, ConsumerInvariant, PTL

\* Late and duplicate Data, losses and timeouts never close the window of
\* ConsumerWindow for good, for every window and number of Interests.
THEOREM ConsumerNeverStalls == Spec => []NeverStalls
  BY ConsumerInvariant, InvImpliesNeverStalls, PTL

\* The containers of Consumer agree after every SendPacket, OnData and OnTimeout.
THEOREM ConsumerBooks == Spec => []BooksAgree
<1>1. ConsumerInv => BooksAgree
  BY DEF ConsumerInv
<1> QED BY <1>1, ConsumerInvariant, PTL

\* The RTT estimator never takes a sample from what was sent twice.
THEOREM ConsumerKarn == Spec => []KarnsRule
<1>1. ConsumerInv => KarnsRule
  BY DEF ConsumerInv
<1> QED BY <1>1, ConsumerInvariant, PTL
-----------------------------------------------------------------------------
(* The faces *)

EntryType == [face : Nat, area : Area]

TableInv(F, l, s) ==
    /\ l \in Nat /\ FloodFace <= l
    /\ \A i \in DOMAIN F : i \in Nat /\ FloodFace <= i /\ i <= l
    /\ \A i \in DOMAIN F : F[i] \in {NET, APP, GEO}
    /\ s \in Seq(EntryType)
    /\ \A k \in DOMAIN s : FloodFace <= s[k].face /\ s[k].face <= l
    /\ \A k \in DOMAIN s : s[k].face \in DOMAIN F => F[s[k].face] = GEO
    /\ \A j, k \in DOMAIN s : j # k => s[j].face # s[k].face /\ s[j].area # s[k].area

Grows(F, G) ==
    /\ \A i \in DOMAIN F : i \in DOMAIN G /\ G[i] = F[i]
    /\ \A i \in DOMAIN G : i \in DOMAIN F \/ G[i] = GEO

\* The parts of the invariant that concern the other tables
ListInv(F, list) ==
    /\ list \in Seq(Nat)
    /\ \A k \in DOMAIN list : list[k] \in DOMAIN F /\ F[list[k]] = NET
    /\ \A i \in DOMAIN F : F[i] = NET => \E k \in DOMAIN list : list[k] = i
    /\ \A j, k \in DOMAIN list : j < k => list[j] < list[k]

Refers(F, refs) == \A i \in refs : i \in DOMAIN F /\ F[i] \in {APP, GEO}

Old(l, ids) == \A i \in ids : i \in Nat /\ FloodFace <= i /\ i <= l

FacesInv ==
    /\ TableInv(faces, m_lastFaceId, f2a)
    /\ m_lastFaceId <= FACEID_RESERVED_MAX + MaxFaces
    /\ ListInv(faces, m_networkFaces)
    /\ Refers(faces, fib) /\ Refers(faces, pit)
    /\ Old(m_lastFaceId, dfnt) /\ Old(m_lastFaceId, timers)
    /\ fault \in BOOLEAN

\* What the assumptions on the face table's constants say, as one fact to cite.
LEMMA FaceConstants == FloodFace \in Nat /\ FloodFace = FACEID_RESERVED_MAX + 1
                   /\ FACEID_RESERVED_MAX \in Nat /\ MaxFaces \in Nat /\ MaxFaces > 0
    BY MaxFacesAssumption, SMTT(30) DEF FloodFace, FACEID_RESERVED_MAX

\* The three kinds of face are different.
LEMMA Kinds == NET # APP /\ NET # GEO /\ APP # GEO
    BY DEF NET, APP, GEO

\* What the properties say follows from the invariant
LEMMA InvImplies ==
    FacesInv => FacesTypeOK /\ NetworkListExact /\ NoDanglingReference /\ AreaKeepsItsFace
<1> SUFFICES ASSUME FacesInv
             PROVE FacesTypeOK /\ NetworkListExact /\ NoDanglingReference /\ AreaKeepsItsFace
  OBVIOUS
<1>1. \A i \in Nat : FloodFace <= i /\ i <= m_lastFaceId => i \in FaceId
  BY FaceConstants, SMTT(30) DEF FacesInv, TableInv, FaceId
<1>2. m_networkFaces \in Seq(FaceId)
  <2>1. \A k \in DOMAIN m_networkFaces : m_networkFaces[k] \in FaceId
    BY <1>1 DEF FacesInv, ListInv, TableInv
  <2> QED BY <2>1, SeqOfElements DEF FacesInv, ListInv
<1>3. f2a \in Seq([face : FaceId, area : Area])
  <2>1. \A k \in DOMAIN f2a : f2a[k] \in [face : FaceId, area : Area]
    <3> TAKE k \in DOMAIN f2a
    <3>1. f2a[k] \in EntryType
      BY SMTT(30) DEF FacesInv, TableInv
    <3>2. f2a[k].face \in Nat
      BY <3>1 DEF EntryType
    <3>3. f2a[k].face \in FaceId
      BY <1>1, <3>2 DEF FacesInv, TableInv
    <3> QED BY <3>1, <3>3 DEF EntryType
  <2> QED BY <2>1, SeqOfElements DEF FacesInv, TableInv
<1>4. FacesTypeOK
  <2>1. fib \subseteq FaceId /\ pit \subseteq FaceId
    BY <1>1 DEF FacesInv, TableInv, Refers
  <2>2. dfnt \subseteq FaceId /\ timers \subseteq FaceId
    BY <1>1 DEF FacesInv, Old
  <2>3. m_lastFaceId \in FaceId /\ DOMAIN faces \subseteq FaceId
    BY <1>1, FaceConstants, SMTT(30) DEF FacesInv, TableInv
  <2> QED BY <1>2, <1>3, <2>1, <2>2, <2>3 DEF FacesInv, TableInv, FacesTypeOK
<1>5. NetworkListExact
  BY DEF FacesInv, ListInv, NetworkListExact, Of, Range
<1>6. NoDanglingReference
  BY DEF FacesInv, Refers, NoDanglingReference, Of
<1>7. AreaKeepsItsFace
  BY DEF FacesInv, TableInv, AreaKeepsItsFace
<1> QED BY <1>4, <1>5, <1>6, <1>7

\* The invariant of the face table holds before any face is added.
LEMMA FacesInvInit == FacesInit => FacesInv
<1> SUFFICES ASSUME FacesInit PROVE FacesInv
  OBVIOUS
<1>1. TableInv(faces, m_lastFaceId, f2a)
  <2>1. [face |-> FloodFace, area |-> FLOOD_AREA] \in EntryType
    BY FaceConstants, AreaAssumption DEF EntryType
  <2>2. f2a \in Seq(EntryType) /\ DOMAIN f2a = {1} /\ f2a[1].face = FloodFace
    BY <2>1, SMTT(30) DEF FacesInit
  <2> QED BY <2>2, FaceConstants, SMTT(30) DEF FacesInit, TableInv
<1>2. ListInv(faces, m_networkFaces)
  <2>1. m_networkFaces \in Seq(Nat) /\ DOMAIN m_networkFaces = {}
    BY SMTT(30) DEF FacesInit
  <2> QED BY <2>1, Kinds DEF FacesInit, ListInv
<1>3. m_lastFaceId <= FACEID_RESERVED_MAX + MaxFaces
  BY FaceConstants, SMTT(30) DEF FacesInit
<1> QED BY <1>1, <1>2, <1>3 DEF FacesInit, FacesInv, Refers, Old
-----------------------------------------------------------------------------
(* Adding a face *)

\* FaceTable::add, which takes the next identifier, keeps the table well formed.
LEMMA AddKeepsTable ==
    ASSUME NEW F, NEW l, NEW s, NEW kind \in {NET, APP, GEO}, TableInv(F, l, s)
    PROVE  TableInv(Added(F, l + 1, kind), l + 1, s)
<1> DEFINE G == Added(F, l + 1, kind)
<1>1. /\ DOMAIN G = DOMAIN F \cup {l + 1}
      /\ G[l + 1] = kind
      /\ l + 1 \notin DOMAIN F
      /\ \A i \in DOMAIN F : G[i] = F[i]
  BY SMTT(30) DEF TableInv, Added
<1>2. \A k \in DOMAIN s : s[k].face \in Nat
  <2>1. \A k \in DOMAIN s : s[k] \in EntryType
    BY SMTT(30) DEF TableInv
  <2> QED BY <2>1 DEF EntryType
<1> HIDE DEF G
<1>3. \A i \in DOMAIN G : i \in Nat /\ FloodFace <= i /\ i <= l + 1
  BY <1>1, FaceConstants, SMTT(30) DEF TableInv
<1>4. \A k \in DOMAIN s : /\ FloodFace <= s[k].face /\ s[k].face <= l + 1
                          /\ s[k].face # l + 1
  BY <1>2, FaceConstants, SMTT(30) DEF TableInv
<1> QED BY <1>1, <1>3, <1>4, FaceConstants DEF TableInv, G

\* Making the geo face of an area keeps the table well formed, keeps every older face, and
\* gives the area a face.
LEMMA MakeKeepsTable ==
    ASSUME NEW F, NEW l, NEW s, NEW area \in Area, TableInv(F, l, s)
    PROVE  LET t == [faces |-> F, last |-> l, f2a |-> s]
               u == MakeGeoFace(t, area)
           IN /\ TableInv(u.faces, u.last, u.f2a)
              /\ u = [faces |-> u.faces, last |-> u.last, f2a |-> u.f2a]
              /\ Grows(F, u.faces)
              /\ l <= u.last
              /\ HasArea(u, area)
              /\ \A b \in Area : HasArea(t, b) => HasArea(u, b)
<1> DEFINE t == [faces |-> F, last |-> l, f2a |-> s]
           u == MakeGeoFace(t, area)
<1>1. CASE HasArea(t, area)
  <2>1. u = t
    BY <1>1 DEF MakeGeoFace
  <2> QED BY <1>1, <2>1, SMTT(30) DEF Grows, TableInv
<1>2. CASE ~HasArea(t, area)
  <2> DEFINE e == [face |-> l + 1, area |-> area]
             G == Added(F, l + 1, GEO)
             q == Append(s, e)
  <2>1. u = [faces |-> G, last |-> l + 1, f2a |-> q]
    BY <1>2 DEF MakeGeoFace, NextFaceId
  <2>2. TableInv(G, l + 1, s)
    BY AddKeepsTable
  <2>9. e \in EntryType /\ e.face = l + 1 /\ e.area = area
    BY SMTT(30) DEF TableInv, EntryType
  <2> HIDE DEF e
  <2>3. /\ q \in Seq(EntryType)
        /\ DOMAIN q = DOMAIN s \cup {Len(s) + 1}
        /\ \A k \in DOMAIN s : q[k] = s[k]
        /\ q[Len(s) + 1] = e
        /\ Len(s) + 1 \notin DOMAIN s
    BY <2>9, SMTT(30) DEF TableInv
  <2>4. G[l + 1] = GEO
    BY DEF Added
  <2>5. \A k \in DOMAIN s : s[k].face # l + 1 /\ s[k].area # area
    <3>1. \A k \in DOMAIN s : s[k] \in EntryType
      BY SMTT(30) DEF TableInv
    <3>2. \A k \in DOMAIN s : s[k].face \in Nat
      BY <3>1 DEF EntryType
    <3> QED BY <1>2, <3>2, SMTT(30) DEF HasArea, TableInv
  <2>6. TableInv(G, l + 1, q)
    BY <2>2, <2>3, <2>4, <2>5, <2>9, FaceConstants, SMTT(30) DEF TableInv
  <2>7. Grows(F, G)
    BY SMTT(30) DEF Grows, Added, TableInv
  <2>8. HasArea(u, area) /\ \A b \in Area : HasArea(t, b) => HasArea(u, b)
    BY <2>1, <2>3, <2>9, SMTT(30) DEF HasArea
  <2> HIDE DEF G, q
  <2> QED BY <2>1, <2>6, <2>7, <2>8, SMTT(30) DEF TableInv
<1> QED BY <1>1, <1>2

\* Lists and references into a face table stay good when faces are only added to it.
LEMMA GrowsKeeps ==
    ASSUME NEW F, NEW G, Grows(F, G), NEW list, NEW refs
    PROVE  /\ ListInv(F, list) => ListInv(G, list)
           /\ Refers(F, refs) => Refers(G, refs)
<1>1. ListInv(F, list) => ListInv(G, list)
  BY Kinds DEF Grows, ListInv
<1>2. Refers(F, refs) => Refers(G, refs)
  BY DEF Grows, Refers
<1> QED BY <1>1, <1>2

\* The geo faces made for the two areas of a packet leave a well-formed, larger table that has
\* a face for both.
LEMMA MadeFacts ==
    ASSUME FacesInv, NEW sa \in Area, NEW da \in Area
    PROVE  LET t == Made(sa, da)
           IN /\ TableInv(t.faces, t.last, t.f2a)
              /\ Grows(faces, t.faces)
              /\ m_lastFaceId <= t.last
              /\ HasArea(t, sa) /\ HasArea(t, da)
<1> DEFINE r == [faces |-> faces, last |-> m_lastFaceId, f2a |-> f2a]
           u == MakeGeoFace(r, sa)
           t == MakeGeoFace(u, da)
<1>1. /\ TableInv(u.faces, u.last, u.f2a)
      /\ u = [faces |-> u.faces, last |-> u.last, f2a |-> u.f2a]
      /\ Grows(faces, u.faces)
      /\ m_lastFaceId <= u.last
      /\ HasArea(u, sa)
  BY MakeKeepsTable, SMTT(30) DEF FacesInv
<1> HIDE DEF u
<1> DEFINE v == [faces |-> u.faces, last |-> u.last, f2a |-> u.f2a]
           w == MakeGeoFace(v, da)
<1>2. /\ TableInv(w.faces, w.last, w.f2a)
      /\ Grows(u.faces, w.faces)
      /\ u.last <= w.last
      /\ HasArea(w, da)
      /\ \A b \in Area : HasArea(v, b) => HasArea(w, b)
  BY <1>1, MakeKeepsTable
<1>3. w = t
  BY <1>1
<1> HIDE DEF w, t
<1>4. Grows(faces, t.faces)
  BY <1>1, <1>2, <1>3 DEF Grows
<1>5. m_lastFaceId <= t.last
  <2>1. m_lastFaceId \in Nat /\ u.last \in Nat /\ w.last \in Nat
    BY <1>1, <1>2 DEF FacesInv, TableInv
  <2> QED BY <1>1, <1>2, <1>3, <2>1, SMTT(30)
<1>6. HasArea(t, sa)
  BY <1>1, <1>2, <1>3
<1>7. Made(sa, da) = t
  BY DEF Made, t, u
<1> QED BY <1>2, <1>3, <1>4, <1>5, <1>6, <1>7

\* An area has one entry, so the first one with it is the one
LEMMA FaceOfAreaIsGeo ==
    ASSUME NEW t, TableInv(t.faces, t.last, t.f2a), NEW area, HasArea(t, area)
    PROVE  FaceOfArea(t, area) \in DOMAIN t.faces => t.faces[FaceOfArea(t, area)] = GEO
<1> DEFINE First(k) == /\ t.f2a[k].area = area
                       /\ \A j \in 1..(k - 1) : t.f2a[j].area # area
<1>1. PICK k \in DOMAIN t.f2a : t.f2a[k].area = area
  BY DEF HasArea
<1>2. DOMAIN t.f2a = 1..Len(t.f2a) /\ Len(t.f2a) \in Nat
  BY SMTT(30) DEF TableInv
<1>3. \A j \in 1..(k - 1) : j \in DOMAIN t.f2a /\ j # k
  BY <1>2, SMTT(30)
<1>4. First(k)
  BY <1>1, <1>3 DEF TableInv
<1>5. First(CHOOSE i \in DOMAIN t.f2a : First(i)) /\ (CHOOSE i \in DOMAIN t.f2a : First(i)) \in DOMAIN t.f2a
  BY <1>4
<1>6. FaceOfArea(t, area) = t.f2a[CHOOSE i \in DOMAIN t.f2a : First(i)].face
  BY DEF FaceOfArea
<1> HIDE DEF First
<1> QED BY <1>5, <1>6 DEF TableInv
-----------------------------------------------------------------------------
(* The steps *)

\* Adding a network face, and the listeners' reaction to it, keeps the invariant.
LEMMA AddNetKeepsInv == FacesInv /\ AddNetFace => FacesInv'
<1> SUFFICES ASSUME FacesInv, AddNetFace PROVE FacesInv'
  OBVIOUS
<1> DEFINE id == m_lastFaceId + 1
<1>1. /\ faces' = Added(faces, id, NET) /\ m_lastFaceId' = id
      /\ m_networkFaces' = Append(m_networkFaces, id)
  BY DEF AddNetFace, NextFaceId
<1>2. TableInv(faces', m_lastFaceId', f2a')
  BY <1>1, AddKeepsTable DEF FacesInv, AddNetFace
<1>3. m_lastFaceId' <= FACEID_RESERVED_MAX + MaxFaces
  BY <1>1, FaceConstants, SMTT(30) DEF AddNetFace, Bounded, FacesInv, TableInv
<1>4. id \notin DOMAIN faces /\ \A i \in DOMAIN faces : i < id
  BY SMTT(30) DEF FacesInv, TableInv
<1>5. DOMAIN faces' = DOMAIN faces \cup {id} /\ faces'[id] = NET
      /\ \A i \in DOMAIN faces : faces'[i] = faces[i]
  BY <1>1, <1>4 DEF Added
<1>6. /\ m_networkFaces' \in Seq(Nat)
      /\ DOMAIN m_networkFaces' = DOMAIN m_networkFaces \cup {Len(m_networkFaces) + 1}
      /\ \A k \in DOMAIN m_networkFaces : m_networkFaces'[k] = m_networkFaces[k]
      /\ m_networkFaces'[Len(m_networkFaces) + 1] = id
      /\ \A k \in DOMAIN m_networkFaces : k \in Nat /\ k < Len(m_networkFaces) + 1
      /\ Len(m_networkFaces) \in Nat
  <2>1. m_networkFaces \in Seq(Nat) /\ id \in Nat
    BY SMTT(30) DEF FacesInv, ListInv, TableInv
  <2> HIDE DEF id
  <2> QED BY <1>1, <2>1, SMTT(30)
<1> HIDE DEF id
<1>7. ListInv(faces', m_networkFaces')
  <2>1. \A k \in DOMAIN m_networkFaces' : m_networkFaces'[k] \in DOMAIN faces'
                                          /\ faces'[m_networkFaces'[k]] = NET
    BY <1>5, <1>6 DEF FacesInv, ListInv
  <2>2. \A i \in DOMAIN faces' : faces'[i] = NET =>
            \E k \in DOMAIN m_networkFaces' : m_networkFaces'[k] = i
    BY <1>5, <1>6 DEF FacesInv, ListInv
  <2>3. ASSUME NEW j \in DOMAIN m_networkFaces', NEW k \in DOMAIN m_networkFaces', j < k
        PROVE  m_networkFaces'[j] < m_networkFaces'[k]
    <3>1. j \in DOMAIN m_networkFaces
      BY <1>6, <2>3, SMTT(30)
    <3>2. m_networkFaces[j] < id
      BY <1>4, <3>1 DEF FacesInv, ListInv
    <3> QED BY <1>6, <2>3, <3>1, <3>2 DEF FacesInv, ListInv
  <2> QED BY <1>6, <2>1, <2>2, <2>3 DEF ListInv
<1>8. Refers(faces', fib') /\ Refers(faces', pit')
  BY <1>5 DEF FacesInv, Refers, AddNetFace
<1>9. Old(m_lastFaceId', dfnt') /\ Old(m_lastFaceId', timers')
  BY <1>1, SMTT(30) DEF FacesInv, Old, AddNetFace, TableInv, id
<1> QED BY <1>2, <1>3, <1>7, <1>8, <1>9 DEF FacesInv, AddNetFace

\* Adding an application face keeps the invariant.
LEMMA AddAppKeepsInv == FacesInv /\ AddAppFace => FacesInv'
<1> SUFFICES ASSUME FacesInv, AddAppFace PROVE FacesInv'
  OBVIOUS
<1> DEFINE id == m_lastFaceId + 1
<1>1. faces' = Added(faces, id, APP) /\ m_lastFaceId' = id
  BY DEF AddAppFace, NextFaceId
<1>2. TableInv(faces', m_lastFaceId', f2a')
  BY <1>1, AddKeepsTable DEF FacesInv, AddAppFace
<1>3. m_lastFaceId' <= FACEID_RESERVED_MAX + MaxFaces
  BY <1>1, FaceConstants, SMTT(30) DEF AddAppFace, Bounded, FacesInv, TableInv
<1>4. id \notin DOMAIN faces
  BY SMTT(30) DEF FacesInv, TableInv
<1>5. DOMAIN faces' = DOMAIN faces \cup {id} /\ faces'[id] = APP
      /\ \A i \in DOMAIN faces : faces'[i] = faces[i]
  BY <1>1, <1>4 DEF Added
<1>9. Old(m_lastFaceId', dfnt') /\ Old(m_lastFaceId', timers')
  BY <1>1, SMTT(30) DEF FacesInv, Old, AddAppFace, TableInv
<1> HIDE DEF id
<1>7. ListInv(faces', m_networkFaces')
  BY <1>5, Kinds DEF FacesInv, ListInv, AddAppFace
<1>8. Refers(faces', fib') /\ Refers(faces', pit')
  <2>1. fib' \subseteq fib \cup {id} /\ pit' = pit
    BY <1>1 DEF AddAppFace, NextFaceId, id
  <2> QED BY <1>5, <2>1 DEF FacesInv, Refers
<1> QED BY <1>2, <1>3, <1>7, <1>8, <1>9 DEF FacesInv, AddAppFace

\* Closing a face, and everything that listens for its removal, keeps the invariant.
LEMMA CloseKeepsInv ==
    ASSUME FacesInv, NEW id \in DOMAIN faces, Close(id)
    PROVE  FacesInv'
<1>1. DOMAIN faces' = DOMAIN faces \ {id} /\ \A i \in DOMAIN faces' : faces'[i] = faces[i]
  BY DEF Close
<1>2. TableInv(faces', m_lastFaceId', f2a')
  BY <1>1, SMTT(30) DEF FacesInv, TableInv, Close
<1>3. ListInv(faces', m_networkFaces') /\ Refers(faces', fib') /\ Refers(faces', pit')
  <2>1. CASE faces[id] # NET
    <3>1. fib' = fib \ {id} /\ pit' = pit \ {id} /\ m_networkFaces' = m_networkFaces
      BY <2>1 DEF Close, NextHopsWithout, RecordsWithout
    <3>2. ListInv(faces', m_networkFaces')
      BY <1>1, <2>1, <3>1 DEF FacesInv, ListInv
    <3> QED BY <1>1, <3>1, <3>2 DEF FacesInv, Refers
  <2>2. CASE faces[id] = NET
    <3> DEFINE q == m_networkFaces
               First(k) == q[k] = id /\ \A j \in 1..(k - 1) : q[j] # id
               k == CHOOSE i \in DOMAIN q : First(i)
    <3>1. fib' = fib /\ pit' = pit /\ m_networkFaces' = RemoveFromNetworkFaceList(id)
      BY <2>2 DEF Close
    <3>2. PICK i \in DOMAIN q : q[i] = id
      BY <2>2 DEF FacesInv, ListInv
    <3>3. q \in Seq(Nat) /\ DOMAIN q = 1..Len(q) /\ Len(q) \in Nat /\ id \in Nat
          /\ \A j \in DOMAIN q : q[j] \in Nat
      BY SMTT(30) DEF FacesInv, ListInv, TableInv
    <3>16. \A a, b \in DOMAIN q : a < b => q[a] < q[b]
      BY DEF FacesInv, ListInv
    <3>4. \A j \in 1..(i - 1) : q[j] # id
      <4> TAKE j \in 1..(i - 1)
      <4>1. j \in DOMAIN q /\ j < i
        BY <3>2, <3>3, SMTT(30)
      <4>2. q[j] < q[i]
        BY <3>2, <3>16, <4>1
      <4> QED BY <3>2, <3>3, <4>1, <4>2, SMTT(30)
    <3>5. k \in DOMAIN q /\ q[k] = id
      BY <3>2, <3>4
    <3>14. k \in Nat /\ 1 <= k /\ k <= Len(q)
      BY <3>3, <3>5, SMTT(30)
    <3>6. m_networkFaces' = Dropping(q, k)
      BY <3>1, <3>2 DEF RemoveFromNetworkFaceList, Range, RemoveAt, Dropping
    <3> HIDE DEF k, First
    <3>7. /\ m_networkFaces' \in Seq(Nat)
          /\ DOMAIN m_networkFaces' = 1..(Len(q) - 1)
          /\ \A j \in 1..(Len(q) - 1) :
                 m_networkFaces'[j] = IF j < k THEN q[j] ELSE q[j + 1]
      BY <3>3, <3>5, <3>6, RemoveAtFacts
    <3>15. DOMAIN q = 1..Len(q) /\ Len(q) \in Nat /\ DOMAIN m_networkFaces' = 1..(Len(q) - 1)
      BY <3>3, <3>7
    <3>8. \A j \in DOMAIN q : j # k => q[j] # id
      BY <3>3, <3>5, SMTT(30) DEF FacesInv, ListInv
    <3>9. \A j \in DOMAIN m_networkFaces' :
              m_networkFaces'[j] \in DOMAIN faces' /\ faces'[m_networkFaces'[j]] = NET
      <4> TAKE j \in DOMAIN m_networkFaces'
      <4>1. PICK h \in DOMAIN q : h # k /\ m_networkFaces'[j] = q[h]
        <5>1. CASE j < k
          <6>1. j \in DOMAIN q /\ j # k /\ j \in 1..(Len(q) - 1)
            BY <3>14, <3>15, <5>1, SMTT(30)
          <6> QED BY <3>7, <5>1, <6>1
        <5>2. CASE ~(j < k)
          <6>1. j + 1 \in DOMAIN q /\ j + 1 # k
            BY <3>14, <3>15, <5>2, SMTT(30)
          <6> QED BY <3>7, <5>2, <6>1
        <5> QED BY <5>1, <5>2
      <4>2. q[h] # id
        BY <3>8, <4>1
      <4> QED BY <1>1, <4>1, <4>2 DEF FacesInv, ListInv
    <3>10. ASSUME NEW f \in DOMAIN faces', faces'[f] = NET
           PROVE  \E j \in DOMAIN m_networkFaces' : m_networkFaces'[j] = f
      <4>1. PICK h \in DOMAIN q : q[h] = f
        BY <1>1, <3>10 DEF FacesInv, ListInv
      <4>2. h # k
        BY <1>1, <3>5, <4>1
      <4>3. CASE h < k
        <5>1. h \in 1..(Len(q) - 1)
          BY <3>3, <3>5, <4>3, SMTT(30)
        <5> QED BY <3>7, <4>1, <4>3, <5>1
      <4>4. CASE h > k
        <5>1. h - 1 \in 1..(Len(q) - 1) /\ ~(h - 1 < k) /\ (h - 1) + 1 = h
          BY <3>3, <3>5, <4>4, SMTT(30)
        <5> QED BY <3>7, <4>1, <5>1
      <4> QED BY <3>3, <3>5, <4>2, <4>3, <4>4, SMTT(30)
    <3>11. ASSUME NEW j \in DOMAIN m_networkFaces', NEW h \in DOMAIN m_networkFaces', j < h
           PROVE  m_networkFaces'[j] < m_networkFaces'[h]
      <4> DEFINE Src(x) == IF x < k THEN x ELSE x + 1
      <4>1. Src(j) \in DOMAIN q /\ Src(h) \in DOMAIN q /\ Src(j) < Src(h)
        BY <3>11, <3>14, <3>15, SMTT(30)
      <4>2. m_networkFaces'[j] = q[Src(j)] /\ m_networkFaces'[h] = q[Src(h)]
        BY <3>7
      <4> HIDE DEF Src
      <4> QED BY <4>1, <4>2 DEF FacesInv, ListInv
    <3>12. ListInv(faces', m_networkFaces')
      BY <3>7, <3>9, <3>10, <3>11 DEF ListInv
    <3>13. Refers(faces', fib') /\ Refers(faces', pit')
      BY <1>1, <2>2, <3>1, Kinds DEF FacesInv, Refers
    <3> QED BY <3>12, <3>13
  <2> QED BY <2>1, <2>2
<1> QED BY <1>2, <1>3 DEF FacesInv, Close

\* A step that leaves the faces alone, keeps or clears references, and
\* schedules packets on ids that were given
LEMMA PacketKeepsInv ==
    ASSUME FacesInv, UNCHANGED <<faces, m_lastFaceId, m_networkFaces, f2a, dfnt>>,
           Refers(faces, fib'), Refers(faces, pit'),
           Old(m_lastFaceId, timers'), fault' \in BOOLEAN
    PROVE  FacesInv'
    BY DEF FacesInv

\* Sending on the first network face schedules timers only for identifiers already given out.
LEMMA SendOnFirstFacts ==
    ASSUME FacesInv, SendOnFirst
    PROVE  Old(m_lastFaceId, timers') /\ fault' \in BOOLEAN
<1>1. CASE m_networkFaces = <<>>
  BY <1>1 DEF SendOnFirst, FacesInv
<1>2. CASE m_networkFaces # <<>>
  <2>1. 1 \in DOMAIN m_networkFaces /\ Head(m_networkFaces) = m_networkFaces[1]
    BY <1>2, SMTT(30) DEF FacesInv, ListInv
  <2>2. Head(m_networkFaces) \in DOMAIN faces
    BY <2>1 DEF FacesInv, ListInv
  <2> QED BY <1>2, <2>2 DEF SendOnFirst, FacesInv, TableInv, Old
<1> QED BY <1>1, <1>2

\* An Interest of a local application keeps the invariant.
LEMMA AppInterestKeepsInv ==
    ASSUME FacesInv, NEW a \in Of(APP), AppInterest(a)
    PROVE  FacesInv'
<1>1. a \in DOMAIN faces /\ faces[a] = APP
  BY DEF Of
<1>2. Refers(faces, fib') /\ Refers(faces, pit')
  BY <1>1 DEF AppInterest, FacesInv, Refers
<1>3. Old(m_lastFaceId, timers') /\ fault' \in BOOLEAN
  <2>1. CASE SendOnFirst
    BY <2>1, SendOnFirstFacts
  <2>2. CASE UNCHANGED <<timers, fault>>
    BY <2>2 DEF FacesInv
  <2> QED BY <2>1, <2>2 DEF AppInterest
<1> QED BY <1>2, <1>3, PacketKeepsInv DEF AppInterest

\* A producer's Data that comes later keeps the invariant.
LEMMA AppDataKeepsInv == FacesInv /\ AppData => FacesInv'
<1> SUFFICES ASSUME FacesInv, AppData PROVE FacesInv'
  OBVIOUS
<1>1. Refers(faces, fib') /\ Refers(faces, pit')
  BY DEF AppData, FacesInv, Refers
<1>2. Old(m_lastFaceId, timers') /\ fault' \in BOOLEAN
  <2>1. CASE SendOnFirst
    BY <2>1, SendOnFirstFacts
  <2>2. CASE UNCHANGED <<timers, fault>>
    BY <2>2 DEF FacesInv
  <2> QED BY <2>1, <2>2 DEF AppData
<1> QED BY <1>1, <1>2, PacketKeepsInv DEF AppData

\* The expiry of the pending entry keeps the invariant.
LEMMA ExpireKeepsInv == FacesInv /\ Expire => FacesInv'
    BY DEF FacesInv, Expire, Refers

\* A timer callback, whether or not its face still exists, keeps the invariant.
LEMMA TimerKeepsInv ==
    ASSUME FacesInv, NEW id \in timers, TimerCallback(id)
    PROVE  FacesInv'
    BY DEF FacesInv, TimerCallback, Old

\* What a packet from the network does to the faces, whatever NFD does with it
LEMMA TakeMadeFacts ==
    ASSUME FacesInv, NEW sa \in Area, NEW da \in Area, TakeMade(Made(sa, da))
    PROVE  /\ TableInv(faces', m_lastFaceId', f2a')
           /\ m_lastFaceId' <= FACEID_RESERVED_MAX + MaxFaces
           /\ Grows(faces, faces')
           /\ Refers(faces', fib) /\ Refers(faces', pit)
           /\ ListInv(faces', m_networkFaces)
           /\ \A ids : Old(m_lastFaceId, ids) => Old(m_lastFaceId', ids)
           /\ \A area \in {sa, da} :
                  FaceOfArea(Made(sa, da), area) \in DOMAIN faces' =>
                      faces'[FaceOfArea(Made(sa, da), area)] = GEO
<1> DEFINE t == Made(sa, da)
<1>1. /\ faces' = t.faces /\ m_lastFaceId' = t.last /\ f2a' = t.f2a
      /\ t.last <= FACEID_RESERVED_MAX + MaxFaces
  BY DEF TakeMade
<1>2. /\ TableInv(t.faces, t.last, t.f2a) /\ Grows(faces, t.faces)
      /\ m_lastFaceId <= t.last /\ HasArea(t, sa) /\ HasArea(t, da)
  BY MadeFacts
<1> HIDE DEF t
<1>3. Refers(faces', fib) /\ Refers(faces', pit) /\ ListInv(faces', m_networkFaces)
  BY <1>1, <1>2, GrowsKeeps DEF FacesInv
<1>4. ASSUME NEW ids, Old(m_lastFaceId, ids) PROVE Old(m_lastFaceId', ids)
  <2>1. m_lastFaceId \in Nat /\ t.last \in Nat
    BY <1>2 DEF FacesInv, TableInv
  <2> QED BY <1>1, <1>2, <1>4, <2>1, SMTT(30) DEF Old
<1>5. \A area \in {sa, da} : FaceOfArea(t, area) \in DOMAIN t.faces =>
                                 t.faces[FaceOfArea(t, area)] = GEO
  BY <1>2, FaceOfAreaIsGeo
<1> QED BY <1>1, <1>2, <1>3, <1>4, <1>5 DEF t

\* Data received on a network face keeps the invariant.
LEMMA ReceiveDataKeepsInv ==
    ASSUME FacesInv, NEW f \in Of(NET), NEW sa \in Area, NEW da \in Area,
           ReceiveData(f, sa, da)
    PROVE  FacesInv'
<1> DEFINE t == Made(sa, da)
           sf == FaceOfArea(t, sa)
<1>1. /\ TableInv(faces', m_lastFaceId', f2a')
      /\ m_lastFaceId' <= FACEID_RESERVED_MAX + MaxFaces
      /\ Refers(faces', fib) /\ Refers(faces', pit)
      /\ ListInv(faces', m_networkFaces)
      /\ \A ids : Old(m_lastFaceId, ids) => Old(m_lastFaceId', ids)
      /\ sf \in DOMAIN faces' => faces'[sf] = GEO
  BY TakeMadeFacts DEF ReceiveData
<1>2. t.faces = faces' /\ m_networkFaces' = m_networkFaces /\ fault' = fault
  BY DEF ReceiveData, TakeMade
<1>3. Refers(faces', fib') /\ Refers(faces', pit')
  <2>1. pit' \subseteq pit /\ fib' \subseteq fib \cup (IF sf \in DOMAIN faces' THEN {sf} ELSE {})
    BY <1>2 DEF ReceiveData
  <2> HIDE DEF sf
  <2> QED BY <1>1, <2>1 DEF Refers
<1>4. Old(m_lastFaceId', dfnt') /\ Old(m_lastFaceId', timers')
  <2>1. dfnt' \subseteq dfnt \cup {f} /\ timers' \subseteq timers \cup {f}
    BY DEF ReceiveData
  <2>2. Old(m_lastFaceId, dfnt \cup {f}) /\ Old(m_lastFaceId, timers \cup {f})
    BY DEF FacesInv, Old, Of, TableInv
  <2>3. Old(m_lastFaceId', dfnt \cup {f}) /\ Old(m_lastFaceId', timers \cup {f})
    BY <1>1, <2>2
  <2> QED BY <2>1, <2>3 DEF Old
<1> QED BY <1>1, <1>2, <1>3, <1>4 DEF FacesInv

\* An Interest received on a network face keeps the invariant.
LEMMA ReceiveInterestKeepsInv ==
    ASSUME FacesInv, NEW f \in Of(NET), NEW sa \in Area, NEW da \in Area,
           ReceiveInterest(f, sa, da)
    PROVE  FacesInv'
<1> DEFINE t == Made(sa, da)
           sf == FaceOfArea(t, sa)
           tag == IF da = FLOOD_AREA THEN {} ELSE {FaceOfArea(t, da)}
<1>1. /\ TableInv(faces', m_lastFaceId', f2a')
      /\ m_lastFaceId' <= FACEID_RESERVED_MAX + MaxFaces
      /\ Refers(faces', fib) /\ Refers(faces', pit)
      /\ ListInv(faces', m_networkFaces)
      /\ \A ids : Old(m_lastFaceId, ids) => Old(m_lastFaceId', ids)
      /\ sf \in DOMAIN faces' => faces'[sf] = GEO
      /\ \A g \in tag : g \in DOMAIN faces' => faces'[g] = GEO
  BY TakeMadeFacts DEF ReceiveInterest
<1>2. /\ t.faces = faces' /\ m_networkFaces' = m_networkFaces
      /\ \/ UNCHANGED <<fib, pit, dfnt, timers, fault>>
         \/ sf \in DOMAIN faces' /\ AnswerFromCache(faces')
         \/ sf \in DOMAIN faces' /\ AnswerFromApp(faces')
         \/ sf \in DOMAIN faces' /\ Pend(faces', f, sf, tag)
  BY DEF ReceiveInterest, TakeMade
<1> HIDE DEF sf, tag, t
<1>3. /\ Refers(faces', fib') /\ Refers(faces', pit')
      /\ Old(m_lastFaceId, dfnt') /\ Old(m_lastFaceId, timers') /\ fault' \in BOOLEAN
  <2>1. CASE UNCHANGED <<fib, pit, dfnt, timers, fault>>
    BY <1>1, <2>1 DEF FacesInv
  <2>2. CASE AnswerFromCache(faces')
    <3>1. fib' = fib /\ pit' = pit
      BY <2>2 DEF AnswerFromCache
    <3>2. Old(m_lastFaceId, dfnt') /\ Old(m_lastFaceId, timers') /\ fault' \in BOOLEAN
      <4>1. CASE SendOnFirst /\ UNCHANGED dfnt
        BY <4>1, SendOnFirstFacts DEF FacesInv
      <4>2. CASE UNCHANGED <<dfnt, timers, fault>>
        BY <4>2 DEF FacesInv
      <4>3. CASE \E e \in dfnt : /\ timers' = timers \cup {e}
                                 /\ dfnt' \in {dfnt, dfnt \ {e}}
                                 /\ UNCHANGED fault
        BY <4>3 DEF FacesInv, Old
      <4> QED BY <2>2, <4>1, <4>2, <4>3 DEF AnswerFromCache
    <3> QED BY <1>1, <3>1, <3>2
  <2>3. CASE AnswerFromApp(faces')
    <3>1. Refers(faces', fib') /\ Refers(faces', pit')
      BY <1>1, <2>3 DEF AnswerFromApp, Refers
    <3>2. Old(m_lastFaceId, timers') /\ fault' \in BOOLEAN
      BY <2>3, SendOnFirstFacts DEF AnswerFromApp
    <3> QED BY <2>3, <3>1, <3>2 DEF AnswerFromApp, FacesInv
  <2>4. CASE sf \in DOMAIN faces' /\ Pend(faces', f, sf, tag)
    <3>1. /\ pit' \subseteq pit \cup {sf} \cup fib \cup (tag \cap DOMAIN faces')
          /\ fib' \subseteq fib \cup (tag \cap DOMAIN faces')
          /\ timers' \subseteq timers \cup {f}
          /\ dfnt' = dfnt /\ fault' = fault
      BY <2>4 DEF Pend, Hops
    <3>2. Refers(faces', fib') /\ Refers(faces', pit')
      BY <1>1, <2>4, <3>1 DEF Refers
    <3>3. Old(m_lastFaceId, timers \cup {f})
      BY DEF FacesInv, Old, Of, TableInv
    <3> QED BY <3>1, <3>2, <3>3 DEF FacesInv, Old
  <2> QED BY <1>2, <2>1, <2>2, <2>3, <2>4
<1> QED BY <1>1, <1>2, <1>3 DEF FacesInv

\* Every step of the face table and its listeners keeps the invariant.
LEMMA FacesInvStep == FacesInv /\ [FacesNext]_facesVars => FacesInv'
<1> SUFFICES ASSUME FacesInv, [FacesNext]_facesVars PROVE FacesInv'
  OBVIOUS
<1>1. CASE UNCHANGED facesVars
  BY <1>1 DEF facesVars, FacesInv
<1>2. CASE FacesNext
  BY <1>2, AddNetKeepsInv, AddAppKeepsInv, CloseKeepsInv, ReceiveInterestKeepsInv,
     ReceiveDataKeepsInv, AppInterestKeepsInv, AppDataKeepsInv, ExpireKeepsInv,
     TimerKeepsInv DEF FacesNext
<1> QED BY <1>1, <1>2

\* The invariant of the face table holds in every reachable state.
LEMMA FacesInvariant == FacesSpec => []FacesInv
  BY FacesInvInit, FacesInvStep, PTL DEF FacesSpec

\* The ids in ValForwarder's and NFD's tables are ids the face table gave, for
\* every sequence of added, closed and used faces.
THEOREM FacesTypeCorrect == FacesSpec => []FacesTypeOK
  BY FacesInvariant, InvImplies, PTL

\* ValForwarder's list of network faces (addToNetworkFaceList,
\* removeFromNetworkFaceList) always agrees with the face table.
THEOREM NetworkListCorrect == FacesSpec => []NetworkListExact
  BY FacesInvariant, InvImplies, PTL

\* NFD holds no reference to a face that was removed, nor to a network face,
\* although cleanupOnFaceRemoval runs only for the other kinds.
THEOREM ReferencesLive == FacesSpec => []NoDanglingReference
  BY FacesInvariant, InvImplies, PTL

\* The id stored for an area in the F2A never comes to mean the face of
\* something else, also after management has destroyed the area's geoFace.
THEOREM AreasKeepFaces == FacesSpec => []AreaKeepsItsFace
  BY FacesInvariant, InvImplies, PTL
=============================================================================
