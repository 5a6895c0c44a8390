---------------------------- MODULE ValNetProofs ----------------------------
(***************************************************************************)
(* Proofs about the network of ValNet, whatever the medium loses, and      *)
(* before them what the handlers of ValNode do with an Interest.           *)
(*                                                                         *)
(* NetInv, the tables of every node in NodeOK and every PFT in its         *)
(* invariant IInv, is inductive, and every step of the network is one of   *)
(* ValPft or none.                                                         *)
(***************************************************************************)
EXTENDS ValNodeProofs

\* Leaves are for Zenon unless they name another prover.
USE ZenonT(30)

\* The tables of every node are sound, every PFT is (IInv), and
\* only well-formed packets are on the air.
NetInv ==
    /\ IInv
    /\ tab \in [Node -> Tables]
    /\ \A n \in Node : NodeOK(n, tab[n])
    /\ air \subseteq Node \X ValPacket
    /\ asked \subseteq Node \X Nonce
    /\ got \in [Node -> SUBSET Name]
    /\ sent \subseteq Node \X ValPacket
    /\ crashed \subseteq Node
-----------------------------------------------------------------------------
(* Interests *)

\* Adding an in- or out-record replaces the record of that face and leaves the others.
LEMMA RecordFacts ==
    ASSUME NEW F, NEW records, records \subseteq F \X Nonce, NEW face \in F, NEW i \in Nonce
    PROVE  /\ Record(records, face, i) \subseteq F \X Nonce
           /\ <<face, i>> \in Record(records, face, i)
           /\ \A r \in Record(records, face, i) : r = <<face, i>> \/ r \in records
           /\ IsFiniteSet(records) => IsFiniteSet(Record(records, face, i))
<1> DEFINE kept == {r \in records : r[1] # face}
<1>1. Record(records, face, i) = kept \cup {<<face, i>>}
  BY DEF Record
<1>2. IsFiniteSet(records) => IsFiniteSet(kept \cup {<<face, i>>})
  <2>1. kept \subseteq records
    OBVIOUS
  <2> HIDE DEF kept
  <2> QED BY <2>1, FS_Subset, FS_AddElement
<1> QED BY <1>1, <1>2, SMTT(30)

\* Recording an Interest changes the pending entry of its name and nothing else.
LEMMA PendEffect ==
    ASSUME NEW c \in Contexts, NEW face \in MyAreas \cup {APP}, NEW i \in Nonce,
           NEW out \in Areas \cup {APP}
    PROVE  LET s == WithOutRecord(WithInRecord(c, face, i), out, i)
           IN /\ Pended(c, s, face, i, out)
              /\ Downstreams(WithInRecord(c, face, i), NameOf[i]) = Downstreams(s, NameOf[i])
<1> DEFINE x == NameOf[i]
           e == c.t.pit[x]
           pending == [c EXCEPT !.t.pit[x].in = Record(@, face, i),
                                !.t.pit[x].nonces = @ \cup {i}]
           left == [pending EXCEPT !.t.pit[x].out = Record(@, out, i)]
           new == PendingEntry(e, face, i, out)
           pit == [c.t.pit EXCEPT ![x] = new]
<1>1. x \in Name /\ c.t.pit \in [Name -> PitEntries] /\ e \in PitEntries /\ c.t \in Tables
  BY NameOfAssumption DEF Contexts, Tables
<1>2. new \in PitEntries
  <2>1. /\ e.in \subseteq (MyAreas \cup {APP}) \X Nonce
        /\ e.out \subseteq (Areas \cup {APP}) \X Nonce
        /\ e.nonces \subseteq Nonce
    BY <1>1 DEF PitEntries, Records
  <2> HIDE DEF e
  <2> DEFINE F == MyAreas \cup {APP}
             G == Areas \cup {APP}
  <2>2. Record(e.in, face, i) \subseteq F \X Nonce
    <3>1. e.in \subseteq F \X Nonce /\ face \in F
      BY <2>1
    <3> HIDE DEF F
    <3> QED BY <3>1, RecordFacts
  <2>3. Record(e.out, out, i) \subseteq G \X Nonce
    <3>1. e.out \subseteq G \X Nonce /\ out \in G
      BY <2>1
    <3> HIDE DEF G
    <3> QED BY <3>1, RecordFacts
  <2> QED BY <2>1, <2>2, <2>3 DEF PendingEntry, PitEntries, Records
<1>3. left = [c EXCEPT !.t.pit = pit] /\ pending.t.pit[x].in = left.t.pit[x].in
  <2> DEFINE new1 == [in |-> Record(e.in, face, i), out |-> e.out, nonces |-> e.nonces \cup {i}]
             pit1 == [c.t.pit EXCEPT ![x] = new1]
  <2>1. pending = [c EXCEPT !.t.pit = pit1]
    <3> DEFINE in == Record(e.in, face, i)
               nonces == e.nonces \cup {i}
               e1 == [in |-> in, out |-> e.out, nonces |-> e.nonces]
               pit0 == [c.t.pit EXCEPT ![x] = e1]
               c1 == [c EXCEPT !.t.pit = pit0]
    <3>1. pending = [c EXCEPT !.t.pit[x].in = in, !.t.pit[x].nonces = nonces]
      OBVIOUS
    <3>2. new1 = [in |-> in, out |-> e.out, nonces |-> nonces]
      OBVIOUS
    <3> HIDE DEF in, nonces, pending, new1
    <3>3. [c EXCEPT !.t.pit[x].in = in] = c1
      <4>1. [e EXCEPT !.in = in] = e1
        <5> HIDE DEF e
        <5> QED BY <1>1, SMTT(30) DEF PitEntries
      <4>2. [c EXCEPT !.t.pit[x].in = in] =
                [c EXCEPT !.t.pit = [c.t.pit EXCEPT ![x] = [e EXCEPT !.in = in]]]
        BY <1>1 DEF Contexts, Tables, PitEntries
      <4> HIDE DEF e1
      <4> QED BY <4>1, <4>2
    <3>4. pending = [c1 EXCEPT !.t.pit[x].nonces = nonces]
      <4> HIDE DEF c1
      <4> QED BY <3>1, <3>3
    <3>5. [c1 EXCEPT !.t.pit[x].nonces = nonces] = [c1 EXCEPT !.t.pit = pit1]
      <4>1. c1.t.pit = pit0
        <5> HIDE DEF pit0
        <5> QED BY <1>1 DEF Contexts, Tables
      <4>2. pit0[x] = e1 /\ [pit0 EXCEPT ![x] = new1] = pit1
        <5> HIDE DEF e1
        <5> QED BY <1>1
      <4>3. [e1 EXCEPT !.nonces = nonces] = new1
        BY <3>2, SMTT(30)
      <4> HIDE DEF c1, pit0, pit1, e1, x
      <4>4. [c1 EXCEPT !.t.pit[x].nonces = nonces] =
                [c1 EXCEPT !.t.pit =
                    [c1.t.pit EXCEPT ![x] = [c1.t.pit[x] EXCEPT !.nonces = nonces]]]
        OBVIOUS
      <4> QED BY <4>1, <4>2, <4>3, <4>4
    <3>6. [c1 EXCEPT !.t.pit = pit1] = [c EXCEPT !.t.pit = pit1]
      <4> HIDE DEF pit1, x, e1
      <4> QED BY <1>1 DEF Contexts, Tables
    <3> HIDE DEF c1, pit1
    <3> QED BY <3>4, <3>5, <3>6
  <2> HIDE DEF pending
  <2>2. left = [pending EXCEPT !.t.pit = [pit1 EXCEPT ![x] =
                    [new1 EXCEPT !.out = Record(@, out, i)]]]
    <3>1. pending \in [t : {pending.t}, send : {c.send}, gone : {c.gone}, app : {c.app},
                       fault : {c.fault}]
          /\ pending.t.pit = pit1 /\ pit1[x] = new1
      BY <1>1, <2>1 DEF Contexts, Tables
    <3> HIDE DEF new1, pit1, x
    <3> QED BY <3>1
  <2>3. [new1 EXCEPT !.out = Record(@, out, i)] = new
    BY SMTT(30) DEF PendingEntry
  <2>4. [pit1 EXCEPT ![x] = new] = pit /\ pit1[x] = new1 /\ pit[x] = new
    <3> HIDE DEF new, new1, x, e
    <3> QED BY <1>1
  <2> HIDE DEF pit, pit1, left
  <2>5. pending.t.pit = pit1 /\ c.t \in Tables
    BY <1>1, <2>1 DEF Contexts, Tables
  <2>6. left = [pending EXCEPT !.t.pit = pit]
    BY <2>2, <2>3, <2>4
  <2>7. left = [c EXCEPT !.t.pit = pit] /\ left.t.pit = pit
    <3> HIDE DEF x
    <3> QED BY <1>1, <2>1, <2>6 DEF Contexts, Tables
  <2>8. new1.in = new.in
    BY DEF PendingEntry
  <2> QED BY <2>4, <2>5, <2>7, <2>8
<1> SUFFICES Pended(c, left, face, i, out) /\ Downstreams(pending, x) = Downstreams(left, x)
  BY DEF WithInRecord, WithOutRecord
<1>4. Downstreams(pending, x) = Downstreams(left, x)
  <2> HIDE DEF pending, left, x
  <2> QED BY <1>3 DEF Downstreams
<1> HIDE DEF pending, left
<1>5. pit \in [Name -> PitEntries]
  <2> HIDE DEF new
  <2> QED BY <1>1, <1>2
<1>6. Pended(c, left, face, i, out)
  <2>1. pit = [c.t.pit EXCEPT ![NameOf[i]] = PendingEntry(@, face, i, out)]
    BY <1>1
  <2> HIDE DEF pit
  <2> QED BY <1>1, <1>3, <1>5, <2>1 DEF Pended, Contexts, Tables
<1> QED BY <1>4, <1>6

\* An Interest that is dropped, as a loop is, counts as answered without effect.
LEMMA UntouchedAnswered ==
    ASSUME NEW c \in Contexts, Fresh(c), IfntByNonce(c.t), NEW r \in Contexts,
           r.t = c.t, r.send = c.send, r.fault = c.fault
    PROVE  Answered(c, r)
  BY DEF Answered, Fresh, SameRest

\* onContentStoreHit answers by the first geoFace that leads to the producer.
LEMMA HitEffect ==
    ASSUME NEW n \in Node, NEW c \in Contexts, Fresh(c), NodeOK(n, c.t),
           NEW face, NEW i \in Nonce, c.t.cs[NameOf[i]] # NotCached,
           IsGeoFace(face) => c.t.ifnt[i] # <<>>
    PROVE  Answered(c, OnContentStoreHit(n, c, face, i))
<1> DEFINE x == NameOf[i]
           h == NextHops(n, c)
           r == OnContentStoreHit(n, c, face, i)
           d == ReceiveData(n, c, FirstGeoFace(h), x, c.t.cs[x], {i}, FALSE)
           given == [c EXCEPT !.app = @ \cup {x}]
<1>1. x \in Name /\ c.t.cs[x] \in Marks /\ IfntByNonce(c.t) /\ RoutesOK(n, c.t)
  BY NameOfAssumption DEF Contexts, Tables, NodeOK
<1>2. given \in Contexts /\ given.t = c.t /\ given.send = c.send /\ given.fault = c.fault
  BY <1>1 DEF Contexts
<1>3. \/ r = given
      \/ r = d /\ IsGeoFace(face) /\ GeoFaces(h) # {}
      \/ r = c
  BY DEF OnContentStoreHit
<1> SUFFICES Answered(c, r)
  OBVIOUS
<1> HIDE DEF r, given, x, h, d
<1>4. CASE r = given \/ r = c
  BY <1>1, <1>2, <1>4, UntouchedAnswered
<1>5. CASE r = d /\ IsGeoFace(face) /\ GeoFaces(h) # {}
  <2>1. n \notin Producer /\ c.t.fib # <<>>
    BY <1>1, <1>5, NextHopFacts DEF RoutesOK, h, x
  <2>2. FirstGeoFace(h) \in Range(c.t.fib) /\ FirstGeoFace(h) \in MyAreas
    <3>1. FirstGeoFace(h) \in Range(c.t.fib)
      BY <1>1, <2>1, NextHopFacts DEF h
    <3>2. Range(c.t.fib) \subseteq MyAreas
      BY SMTT(30) DEF Contexts, Tables, Range
    <3> QED BY <3>1, <3>2
  <2>3. DataTaken(n, c, d, FirstGeoFace(h), x, c.t.cs[x], {i}, FALSE)
    <3>1. {i} \in SUBSET Nonce /\ FALSE \in BOOLEAN
      OBVIOUS
    <3> QED BY <1>1, <2>2, <3>1, ReceiveDataEffect DEF d
  <2>4. Sig[x] \in Signatures /\ c.t.dfnt[Sig[x]] = <<>>
    BY <1>1 DEF Signatures, NodeOK
  <2>5. r.t.dfnt = c.t.dfnt
    <3>1. r.t.dfnt = [c.t.dfnt EXCEPT ![Sig[x]] = Pop(@)]
      BY <1>5, <2>3 DEF DataTaken
    <3>2. Pop(c.t.dfnt[Sig[x]]) = c.t.dfnt[Sig[x]]
      BY <2>4 DEF Pop
    <3> QED BY <2>4, <3>1, <3>2 DEF Contexts, Tables
  <2>6. ASSUME NEW y \in Name, NEW q \in c.t.pit[y].in
        PROVE  r.t.ifnt[q[2]] = c.t.ifnt[q[2]]
    <3>1. NameOf[q[2]] = y /\ q[2] \in Nonce
      BY DEF NodeOK, PitOK, Contexts, Tables, PitEntries
    <3>2. q[2] # i
      BY <1>1, <3>1 DEF NodeOK, x
    <3> QED BY <1>5, <2>3, <3>1, <3>2 DEF DataTaken
  <2>7. Source(n, c, FirstGeoFace(h), x, FALSE) = FirstGeoFace(h)
    BY <2>4 DEF Source
  <2>8. r.send \subseteq {p \in Datas : p.hdr.sa \in Range(c.t.fib)}
    BY <1>5, <2>2, <2>3, <2>7 DEF DataTaken, DataFrom, Fresh
  <2>9. ~r.fault
    BY <1>5, <2>3 DEF DataTaken, Fresh
  <2> QED BY <1>5, <2>3, <2>5, <2>6, <2>8, <2>9 DEF DataTaken, Answered
<1> QED BY <1>3, <1>4, <1>5

\* onContentStoreMiss records the Interest in the PIT, then relays it or lets the producer's
\* application answer.
LEMMA MissEffect ==
    ASSUME NEW n \in Node, NEW c \in Contexts, NodeOK(n, c.t),
           NEW face \in MyAreas \cup {APP}, NEW i \in Nonce, NEW tag \in Areas \cup {NoTag},
           ~Looping(c.t, i), c.t.cs[NameOf[i]] = NotCached
    PROVE  Relayed(n, c, OnContentStoreMiss(n, c, face, i, tag), face, i)
<1> DEFINE x == NameOf[i]
           h == NextHops(n, c)
           pending == WithInRecord(c, face, i)
           out == CASE HasAppFace(n, c) -> APP
                    [] ~HasAppFace(n, c) /\ tag # NoTag -> tag
                    [] OTHER -> FirstGeoFace(h)
           s == WithOutRecord(pending, out, i)
           r == OnContentStoreMiss(n, c, face, i, tag)
<1>1. RoutesOK(n, c.t) /\ IfntByNonce(c.t)
  BY DEF NodeOK
<1>2. IF n \in Producer THEN out = APP ELSE out \in Areas
  BY <1>1, NextHopFacts
<1>3. IsGeoFace(out) <=> n \notin Producer
  BY <1>2, AreaFacts
<1>4. r = IF IsGeoFace(out) THEN ReceiveInterest(n, s, out, i)
          ELSE OnIncomingData(n, s, APP, x, 0, AnyOrder(Downstreams(pending, x)))
  BY DEF OnContentStoreMiss, OnOutgoingInterest, WithInRecord, WithOutRecord
<1> HIDE DEF out, r
<1>5. Pended(c, s, face, i, out) /\ Downstreams(pending, x) = Downstreams(s, x)
  <2>1. out \in Areas \cup {APP}
    BY <1>2
  <2> QED BY <2>1, PendEffect
<1> HIDE DEF s, pending
<1>6. s \in Contexts /\ IfntByNonce(s.t)
  <2>1. s \in Contexts /\ s.t.ifnt = c.t.ifnt
    BY <1>5 DEF Pended
  <2> QED BY <1>1, <2>1 DEF IfntByNonce
<1>7. IF n \in Producer
      THEN r = OnIncomingData(n, s, APP, x, 0, AnyOrder(Downstreams(s, x)))
      ELSE Sends(s, r, InterestsOf(i), FALSE)
  BY <1>2, <1>3, <1>4, <1>5, <1>6, ReceiveInterestEffect
<1>8. out \in Areas \cup {APP}
  BY <1>2
<1> QED BY <1>5, <1>6, <1>7, <1>8 DEF Relayed, r

\* An incoming Interest is either answered or dropped on the spot, or recorded in the PIT as
\* new.
LEMMA InterestOutcome ==
    ASSUME NEW n \in Node, NEW c \in Contexts, Fresh(c), NodeOK(n, c.t),
           NEW face \in MyAreas \cup {APP}, NEW i \in Nonce, NEW tag \in Areas \cup {NoTag},
           IsGeoFace(face) => c.t.ifnt[i] # <<>>
    PROVE  LET r == OnIncomingInterest(n, c, face, i, tag)
           IN Answered(c, r) \/ Relayed(n, c, r, face, i)
<1> DEFINE r == OnIncomingInterest(n, c, face, i, tag)
<1>1. \/ r = c
      \/ c.t.cs[NameOf[i]] # NotCached /\ r = OnContentStoreHit(n, c, face, i)
      \/ /\ ~Looping(c.t, i)
         /\ c.t.pit[NameOf[i]].in # {} \/ c.t.cs[NameOf[i]] = NotCached
         /\ r = OnContentStoreMiss(n, c, face, i, tag)
  BY DEF OnIncomingInterest, Looping
<1> HIDE DEF r
<1>2. CASE r = c
  BY <1>2, UntouchedAnswered DEF NodeOK, r
<1>3. CASE c.t.cs[NameOf[i]] # NotCached /\ r = OnContentStoreHit(n, c, face, i)
  BY <1>3, HitEffect DEF r
<1>4. CASE /\ ~Looping(c.t, i)
           /\ c.t.pit[NameOf[i]].in # {} \/ c.t.cs[NameOf[i]] = NotCached
           /\ r = OnContentStoreMiss(n, c, face, i, tag)
  <2>1. c.t.cs[NameOf[i]] = NotCached
    BY <1>4, NameOfAssumption DEF NodeOK
  <2>2. Relayed(n, c, OnContentStoreMiss(n, c, face, i, tag), face, i)
    BY <1>4, <2>1, MissEffect
  <2>3. Relayed(n, c, r, face, i)
    BY <1>4, <2>2
  <2> QED BY <2>3 DEF r
<1> QED BY <1>1, <1>2, <1>3, <1>4

\* An Interest answered on the spot leaves the node in order.
LEMMA AnsweredKeeps ==
    ASSUME NEW n \in Node, NEW c \in Contexts, NodeOK(n, c.t), NEW r, Answered(c, r)
    PROVE  EventOK(n, r)
<1>1. r \in Contexts /\ r.t \in Tables /\ IfntByNonce(r.t) /\ r.send \subseteq Datas
  BY DEF Answered, Contexts
<1>2. ASSUME NEW y \in Name PROVE PitOK(r.t, y)
  <2>1. PitOK(c.t, y) /\ r.t.pit = c.t.pit
    BY DEF Answered, SameRest, NodeOK
  <2>2. \A q \in c.t.pit[y].in : r.t.ifnt[q[2]] = c.t.ifnt[q[2]]
    BY DEF Answered
  <2> QED BY <2>1, <2>2 DEF PitOK
<1>3. RoutesOK(n, r.t) /\ \A y \in Name : r.t.cs[y] # NotCached => r.t.pit[y].in = {}
  BY DEF Answered, SameRest, NodeOK, RoutesOK
<1>4. \A g \in Signatures : r.t.dfnt[g] = <<>>
  BY DEF Answered, NodeOK
<1> QED BY <1>1, <1>2, <1>3, <1>4 DEF EventOK, NodeOK

\* The record of a new Interest leaves the pending entry of its name in order.
LEMMA PendedKeeps ==
    ASSUME NEW n \in Node, NEW c \in Contexts, NodeOK(n, c.t),
           NEW face \in MyAreas \cup {APP}, NEW i \in Nonce, NEW out \in Areas \cup {APP},
           IsGeoFace(face) => c.t.ifnt[i] # <<>>,
           c.t.cs[NameOf[i]] = NotCached, NEW s, Pended(c, s, face, i, out)
    PROVE  PendedOK(c, s, NameOf[i])
<1> DEFINE x == NameOf[i]
           e == c.t.pit[x]
<1>1. x \in Name /\ c.t.pit \in [Name -> PitEntries] /\ e \in PitEntries
  BY NameOfAssumption DEF Contexts, Tables
<1>2. s \in Contexts /\ s.t \in Tables /\ IfntByNonce(s.t)
  <2>1. s \in Contexts /\ s.t \in Tables /\ s.t.ifnt = c.t.ifnt
    BY DEF Pended, Contexts
  <2>2. IfntByNonce(c.t)
    BY DEF NodeOK
  <2> QED BY <2>1, <2>2 DEF IfntByNonce
<1>3. /\ s.t.pit[x] = PendingEntry(e, face, i, out)
      /\ \A y \in Name \ {x} : s.t.pit[y] = c.t.pit[y]
  BY <1>1 DEF Pended
<1>4. /\ s.t.pit[x].in = Record(e.in, face, i)
      /\ s.t.pit[x].out = Record(e.out, out, i)
      /\ s.t.pit[x].nonces = e.nonces \cup {i}
  <2> DEFINE z == s.t.pit[x]
  <2>1. z = PendingEntry(e, face, i, out)
    BY <1>3
  <2> HIDE DEF z, e, x
  <2>2. /\ z.in = Record(e.in, face, i) /\ z.out = Record(e.out, out, i)
        /\ z.nonces = e.nonces \cup {i}
    BY <2>1 DEF PendingEntry
  <2> QED BY <2>2 DEF z
<1> DEFINE F == MyAreas \cup {APP}
           G == Areas \cup {APP}
<1>5. e.in \subseteq F \X Nonce /\ e.out \subseteq G \X Nonce /\ face \in F /\ out \in G
  BY <1>1 DEF PitEntries, Records
<1> HIDE DEF F, G
<1>6. /\ <<face, i>> \in s.t.pit[x].in
      /\ \A q \in s.t.pit[x].in : q = <<face, i>> \/ q \in e.in
      /\ \A q \in s.t.pit[x].out : q = <<out, i>> \/ q \in e.out
      /\ IsFiniteSet(e.in) => IsFiniteSet(s.t.pit[x].in)
  <2> HIDE DEF e, x
  <2> DEFINE in == e.in
             gone == e.out
  <2>1. in \subseteq F \X Nonce /\ gone \subseteq G \X Nonce
    BY <1>5
  <2> HIDE DEF in, gone
  <2>2. /\ <<face, i>> \in Record(in, face, i)
        /\ \A q \in Record(in, face, i) : q = <<face, i>> \/ q \in in
        /\ IsFiniteSet(in) => IsFiniteSet(Record(in, face, i))
    BY <1>5, <2>1, RecordFacts
  <2>3. \A q \in Record(gone, out, i) : q = <<out, i>> \/ q \in gone
    BY <1>5, <2>1, RecordFacts
  <2> QED BY <1>4, <2>2, <2>3 DEF in, gone
<1>7. PitOK(s.t, x)
  <2>1. /\ IsFiniteSet(e.in)
        /\ \A q \in e.in \cup e.out : NameOf[q[2]] = x
        /\ \A j \in e.nonces : NameOf[j] = x
        /\ \A q \in e.in : q[2] \in e.nonces
        /\ \A q \in e.in : IsGeoFace(q[1]) => c.t.ifnt[q[2]] # <<>>
    BY <1>1 DEF NodeOK, PitOK
  <2>2. NameOf[i] = x /\ s.t.ifnt = c.t.ifnt
    BY DEF Pended
  <2> HIDE DEF e, x
  <2>3. ASSUME NEW q \in s.t.pit[x].in
        PROVE  /\ IsGeoFace(q[1]) => s.t.ifnt[q[2]] # <<>>
               /\ NameOf[q[2]] = x /\ q[2] \in s.t.pit[x].nonces
    <3>1. CASE q \in e.in
      BY <1>4, <2>1, <2>2, <3>1
    <3>2. CASE q = <<face, i>>
      <4>1. q[1] = face /\ q[2] = i
        BY ONLY <3>2
      <4> QED BY <1>4, <2>2, <4>1
    <3> QED BY <1>6, <3>1, <3>2
  <2>4. ASSUME NEW q \in s.t.pit[x].out PROVE NameOf[q[2]] = x
    <3>1. CASE q \in e.out
      BY <2>1, <3>1
    <3>2. CASE q = <<out, i>>
      <4>1. q[2] = i
        BY ONLY <3>2
      <4> QED BY <2>2, <4>1
    <3> QED BY <1>6, <3>1, <3>2
  <2>5. IsFiniteSet(s.t.pit[x].in) /\ \A j \in s.t.pit[x].nonces : NameOf[j] = x
    BY <1>4, <1>6, <2>1, <2>2
  <2> QED BY <2>3, <2>4, <2>5 DEF PitOK
<1>8. ASSUME NEW y \in Name PROVE PitOK(s.t, y)
  <2>1. CASE y # x
    <3>1. s.t.pit[y] = c.t.pit[y] /\ s.t.ifnt = c.t.ifnt /\ PitOK(c.t, y)
      BY <1>3, <2>1 DEF NodeOK, Pended
    <3> QED BY <3>1 DEF PitOK
  <2> QED BY <1>7, <2>1
<1>9. \A y \in Name : s.t.cs[y] # NotCached => s.t.pit[y].in = {}
  BY <1>3 DEF Pended, NodeOK
<1>10. \A g \in Signatures : s.t.dfnt[g] = <<>>
  BY DEF Pended, NodeOK
<1> QED BY <1>2, <1>3, <1>6, <1>8, <1>9, <1>10 DEF PendedOK

\* The orders of the downstreams of a pending Interest.
LEMMA ServingOrder ==
    ASSUME NEW t \in Tables, NEW x \in Name, PitOK(t, x), t.pit[x].in # {}
    PROVE  LET D == {q[1] : q \in t.pit[x].in}
           IN /\ IsFiniteSet(D) /\ D # {} /\ D \subseteq MyAreas \cup {APP}
              /\ AnyOrder(D) \in Seq(MyAreas \cup {APP}) /\ AnyOrder(D) # <<>>
              /\ \A order \in Orders(D) : order \in Seq(MyAreas \cup {APP}) /\ order # <<>>
<1> DEFINE D == {q[1] : q \in t.pit[x].in}
           F == MyAreas \cup {APP}
<1>1. IsFiniteSet(t.pit[x].in) /\ t.pit[x].in \subseteq F \X Nonce
  BY DEF PitOK, Tables, PitEntries
<1> HIDE DEF F
<1>2. IsFiniteSet(D) /\ D # {} /\ D \subseteq F
  BY <1>1, DownstreamFacts
<1> SUFFICES /\ IsFiniteSet(D) /\ D # {} /\ D \subseteq F
             /\ AnyOrder(D) \in Seq(F) /\ AnyOrder(D) # <<>>
             /\ \A order \in Orders(D) : order \in Seq(F) /\ order # <<>>
  BY DEF F
<1> HIDE DEF D
<1>3. \A q \in Seq(D) : q \in Seq(F)
  BY <1>2, SMTT(30)
<1> QED BY <1>2, <1>3, OrderFacts

\* A new Interest, relayed or answered by the producer, leaves the node in order.
LEMMA RelayedKeeps ==
    ASSUME NEW n \in Node, NEW c \in Contexts, Fresh(c), NodeOK(n, c.t),
           NEW face \in MyAreas \cup {APP}, NEW i \in Nonce,
           IsGeoFace(face) => c.t.ifnt[i] # <<>>, NEW r, Relayed(n, c, r, face, i)
    PROVE  EventOK(n, r)
<1> DEFINE x == NameOf[i]
<1>1. PICK out \in Areas \cup {APP}, s \in Contexts :
        /\ Pended(c, s, face, i, out)
        /\ IF n \in Producer
           THEN r = OnIncomingData(n, s, APP, x, 0, AnyOrder(Downstreams(s, x)))
           ELSE Sends(s, r, InterestsOf(i), FALSE)
  BY DEF Relayed
<1>2. /\ s.t \in Tables /\ IfntByNonce(s.t)
      /\ \A y \in Name : PitOK(s.t, y)
      /\ \A y \in Name : s.t.cs[y] # NotCached => s.t.pit[y].in = {}
      /\ \A g \in Signatures : s.t.dfnt[g] = <<>>
      /\ s.t.pit[x].in # {}
      /\ \A y \in Name \ {x} : s.t.pit[y] = c.t.pit[y]
  <2>1. PendedOK(c, s, NameOf[i])
    BY <1>1, PendedKeeps DEF Relayed
  <2> QED BY <2>1 DEF PendedOK
<1>3. x \in Name /\ s.t.fib = c.t.fib /\ s.t.cs = c.t.cs /\ Fresh(s)
  BY <1>1, NameOfAssumption DEF Pended, Fresh
<1>4. CASE n \in Producer
  <2> DEFINE order == AnyOrder(Downstreams(s, x))
  <2>1. order \in Seq(MyAreas \cup {APP}) /\ order # <<>>
    BY <1>2, <1>3, ServingOrder DEF Downstreams
  <2>2. Sig[x] \in Signatures /\ s.t.dfnt[Sig[x]] = <<>> /\ 0 \in SentMarks
    BY <1>2, <1>3 DEF Signatures, SentMarks
  <2> HIDE DEF order, x
  <2>3. Solicited(s, r, x, APP)
    <3>1. Len(s.t.dfnt[Sig[x]]) <= 1 /\ s.send = {} /\ ~s.fault /\ APP \in MyAreas \cup {APP}
      BY <1>3, <2>2, SMTT(30) DEF Fresh
    <3>2. r = OnIncomingData(n, s, APP, x, 0, order)
      BY <1>1, <1>4 DEF order
    <3> QED BY <1>2, <1>3, <2>1, <2>2, <3>1, <3>2, SolicitedEffect
  <2>4. /\ ~IsGeoFace(APP) /\ s.t.fib = <<>>
        /\ \A y \in Name \ {x} : s.t.pit[y].in = {}
    BY <1>2, <1>3, <1>4, AreaFacts DEF NodeOK, RoutesOK
  <2> QED BY <1>2, <1>3, <1>4, <2>2, <2>3, <2>4, SolicitedKeeps
<1>5. CASE n \notin Producer
  <2>1. Sends(s, r, InterestsOf(i), FALSE)
    BY <1>1, <1>5
  <2>2. r \in Contexts /\ r.t = s.t /\ r.gone = {} /\ r.send \subseteq Interests
    BY <1>3, <2>1 DEF Sends, Fresh, InterestsOf
  <2>3. RoutesOK(n, s.t)
    BY <1>3, <1>5 DEF RoutesOK, NodeOK
  <2> QED BY <1>2, <2>2, <2>3 DEF EventOK, NodeOK
<1> QED BY <1>4, <1>5

\* onIncomingInterest leaves sound tables and asks for one kind of packet.
LEMMA InterestEvent ==
    ASSUME NEW n \in Node, NEW c \in Contexts, Fresh(c), NodeOK(n, c.t),
           NEW face \in MyAreas \cup {APP}, NEW i \in Nonce, NEW tag \in Areas \cup {NoTag},
           IsGeoFace(face) => c.t.ifnt[i] # <<>>
    PROVE  EventOK(n, OnIncomingInterest(n, c, face, i, tag))
<1> DEFINE r == OnIncomingInterest(n, c, face, i, tag)
<1>1. Answered(c, r) \/ Relayed(n, c, r, face, i)
  BY InterestOutcome
<1> HIDE DEF r
<1>2. EventOK(n, r)
  BY <1>1, AnsweredKeeps, RelayedKeeps
<1> QED BY <1>2 DEF r

\* processInterestFromNetwork: the IFNT entry of an Interest that has arrived.
LEMMA IfntAddEffect ==
    ASSUME NEW n \in Node, NEW t, NodeOK(n, t), NEW p \in Interests
    PROVE  LET c == IfntAdd(Context(t), IfntEntry(p))
           IN /\ c \in Contexts /\ Fresh(c)
              /\ NodeOK(n, c.t) /\ SameRest(c.t, t)
              /\ c.t.ifnt[p.id] # <<>>
<1> DEFINE e == IfntEntry(p)
           i == p.id
           b == Context(t)
           c == IfntAdd(b, e)
           ifnt == [t.ifnt EXCEPT ![i] = Append(t.ifnt[i], e)]
<1>1. i \in Nonce /\ p.hopC \in 1..MAXHOPS /\ p.hdr \in Header
  BY DEF Interests
<1>2. e \in IfntEntries /\ e.nonce = i
  <2>1. (p.hopC - 1) % 256 \in 0..(MAXHOPS - 1)
    BY <1>1, HopByteAssumption, SMTT(30)
  <2> QED BY <1>1, <2>1, HeaderFields DEF IfntEntry, IfntEntries
<1>3. t \in Tables /\ t.ifnt \in [Nonce -> Seq(IfntEntries)] /\ IfntByNonce(t)
  BY DEF NodeOK, Tables
<1>4. b \in Contexts /\ Fresh(b) /\ b.t = t
  BY <1>3, ContextFacts
<1> HIDE DEF b, e, i
<1>5. c = [b EXCEPT !.t.ifnt = ifnt]
  BY <1>2, <1>4 DEF IfntAdd
<1> DEFINE q == t.ifnt[i]
<1>6. q \in Seq(IfntEntries) /\ \A k \in DOMAIN q : q[k].nonce = i
  BY <1>1, <1>3 DEF IfntByNonce
<1>7. /\ Append(q, e) \in Seq(IfntEntries) /\ Append(q, e) # <<>>
      /\ \A k \in DOMAIN Append(q, e) : Append(q, e)[k].nonce = i
  <2> HIDE DEF q
  <2>1. /\ Append(q, e) \in Seq(IfntEntries)
        /\ Len(Append(q, e)) = Len(q) + 1
        /\ \A k \in 1..Len(q) : Append(q, e)[k] = q[k]
        /\ Append(q, e)[Len(q) + 1] = e
    BY <1>2, <1>6, SMTT(30)
  <2> DEFINE u == Append(q, e)
  <2> HIDE DEF u
  <2>2. DOMAIN u = 1..(Len(q) + 1) /\ DOMAIN q = 1..Len(q) /\ Len(q) \in Nat
    BY <1>6, <2>1, SMTT(30) DEF u
  <2>3. \A k \in DOMAIN u : k \in DOMAIN q \/ k = Len(q) + 1
    BY <2>2, SMTT(30)
  <2>4. \A k \in DOMAIN u : u[k].nonce = i
    BY <1>2, <1>6, <2>1, <2>2, <2>3 DEF u
  <2>5. u # <<>>
    BY <2>2, SMTT(30)
  <2> QED BY <2>1, <2>4, <2>5 DEF u
<1> DEFINE w == Append(q, e)
<1> HIDE DEF w
<1>8. /\ ifnt \in [Nonce -> Seq(IfntEntries)]
      /\ ifnt[i] # <<>>
      /\ \A j \in Nonce : t.ifnt[j] # <<>> => ifnt[j] # <<>>
      /\ \A j \in Nonce : \A k \in DOMAIN ifnt[j] : ifnt[j][k].nonce = j
  <2>1. ifnt = [t.ifnt EXCEPT ![i] = w]
    BY DEF w
  <2>2. ifnt[i] = w /\ \A j \in Nonce \ {i} : ifnt[j] = t.ifnt[j]
    <3> HIDE DEF ifnt
    <3> QED BY <1>1, <1>3, <2>1
  <2>3. ifnt \in [Nonce -> Seq(IfntEntries)]
    <3>1. w \in Seq(IfntEntries)
      BY <1>7 DEF w
    <3> HIDE DEF ifnt
    <3> QED BY <1>1, <1>3, <2>1, <3>1
  <2> HIDE DEF ifnt
  <2>4. w # <<>> /\ \A k \in DOMAIN w : w[k].nonce = i
    BY <1>7 DEF w
  <2> QED BY <1>3, <2>2, <2>3, <2>4 DEF IfntByNonce
<1> HIDE DEF ifnt, c
<1>9. /\ c \in Contexts /\ Fresh(c) /\ c.t \in Tables
      /\ c.t.ifnt = ifnt /\ c.t.dfnt = t.dfnt /\ SameRest(c.t, t)
  BY <1>3, <1>4, <1>5, <1>8 DEF Contexts, Tables, Fresh, SameRest
<1>10. ASSUME NEW y \in Name PROVE PitOK(c.t, y)
  <2>1. PitOK(t, y) /\ c.t.pit = t.pit /\ t.pit[y] \in PitEntries
    BY <1>3, <1>9 DEF NodeOK, SameRest, Tables
  <2>2. \A r \in t.pit[y].in : r[2] \in Nonce
    BY <2>1 DEF PitEntries
  <2> QED BY <1>8, <1>9, <2>1, <2>2 DEF PitOK
<1>11. NodeOK(n, c.t)
  <2>1. RoutesOK(n, c.t)
    BY <1>9 DEF NodeOK, RoutesOK, SameRest
  <2>2. \A y \in Name : c.t.cs[y] # NotCached => c.t.pit[y].in = {}
    BY <1>9 DEF NodeOK, SameRest
  <2>3. \A g \in Signatures : c.t.dfnt[g] = <<>>
    BY <1>9 DEF NodeOK
  <2>4. IfntByNonce(c.t)
    BY <1>8, <1>9 DEF IfntByNonce
  <2> QED BY <1>9, <1>10, <2>1, <2>2, <2>3, <2>4 DEF NodeOK
<1> QED BY <1>8, <1>9, <1>11 DEF c, b, e, i

\* An Interest from the network: dropped when its entry is in the IFNT already,
\* else given to NFD with its entry recorded.
LEMMA NetworkInterest ==
    ASSUME NEW n \in Node, NEW t, NodeOK(n, t), NEW p \in Interests
    PROVE  LET r == ProcessInterestFromNetwork(n, Context(t), p)
               c == IfntAdd(Context(t), IfntEntry(p))
           IN /\ EventOK(n, r)
              /\ \/ r = Context(t)
                 \/ Answered(c, r) \/ Relayed(n, c, r, p.hdr.sa, p.id)
<1> DEFINE c == IfntAdd(Context(t), IfntEntry(p))
           i == p.id
           face == p.hdr.sa
           tag == IF p.hdr.da # FLOOD_AREA THEN p.hdr.da ELSE NoTag
           r == ProcessInterestFromNetwork(n, Context(t), p)
<1>1. i \in Nonce /\ face \in MyAreas \cup {APP} /\ tag \in Areas \cup {NoTag}
  BY HeaderFields DEF Interests
<1>2. c \in Contexts /\ Fresh(c) /\ NodeOK(n, c.t) /\ c.t.ifnt[i] # <<>>
  BY IfntAddEffect
<1>3. r = Context(t) \/ r = OnIncomingInterest(n, c, face, i, tag)
  BY DEF ProcessInterestFromNetwork
<1>4. EventOK(n, Context(t))
  BY ContextFacts DEF EventOK, NodeOK, Fresh
<1> SUFFICES /\ EventOK(n, r)
             /\ r = Context(t) \/ Answered(c, r) \/ Relayed(n, c, r, face, i)
  OBVIOUS
<1> HIDE DEF r, c, face, i, tag
<1>5. CASE r = OnIncomingInterest(n, c, face, i, tag)
  <2>1. EventOK(n, OnIncomingInterest(n, c, face, i, tag))
    BY <1>1, <1>2, InterestEvent
  <2>2. LET d == OnIncomingInterest(n, c, face, i, tag)
        IN Answered(c, d) \/ Relayed(n, c, d, face, i)
    BY <1>1, <1>2, InterestOutcome
  <2> QED BY <1>5, <2>1, <2>2
<1> QED BY <1>3, <1>4, <1>5
-----------------------------------------------------------------------------
(* The network *)

\* An event of a node hands the PFT a step of ValPft, and leaves the node's
\* tables as the event's context says.
LEMMA OutgoingIsPftStep ==
    ASSUME NEW n \in Node, NEW c, EventOK(n, c), Outgoing(n, c)
    PROVE  [Next]_vars
<1>1. c \in Contexts /\ c.gone \in SUBSET Nonce /\ c.send \subseteq ValPacket
  BY DEF EventOK, Contexts
<1>2. ASSUME NEW p \in c.send, RegisterOutgoing(n, p, c.gone)
      PROVE  Next
  <2>1. p \in ValPacket
    BY <1>1
  <2>2. CASE c.send \subseteq Interests /\ c.gone = {}
    <3>1. RegisterOutgoing(n, p, {})
      BY <1>2, <2>2
    <3> QED BY <2>1, <3>1 DEF Next
  <2>3. CASE c.send \subseteq Datas
    <3>1. IsData(p)
      BY <2>3, PacketKinds
    <3> QED BY <1>1, <1>2, <2>1, <3>1 DEF Next
  <2> QED BY <2>2, <2>3 DEF EventOK
<1>3. ASSUME CancelSatisfied(n, c.gone) PROVE Next
  BY <1>1, <1>3 DEF Next
<1> QED BY <1>2, <1>3 DEF Outgoing, Accepted

\* Writing back the context of an event that is in order is a step of the forwarding table and
\* keeps the tables.
LEMMA CompletesKeeps ==
    ASSUME NetInv, NEW n \in Node, NEW c, EventOK(n, c), Completes(n, c)
    PROVE  /\ [Next]_vars
           /\ tab' \in [Node -> Tables]
           /\ \A m \in Node : NodeOK(m, tab'[m])
           /\ got' \in [Node -> SUBSET Name]
           /\ crashed' \subseteq Node
<1>1. c \in Contexts /\ c.t \in Tables /\ c.app \subseteq Name /\ NodeOK(n, c.t)
  BY DEF EventOK, Contexts
<1>2. [Next]_vars
  BY OutgoingIsPftStep DEF Completes
<1>3. tab' \in [Node -> Tables] /\ tab'[n] = c.t /\ \A m \in Node \ {n} : tab'[m] = tab[m]
  BY <1>1 DEF NetInv, Completes
<1>4. got' \in [Node -> SUBSET Name] /\ crashed' \subseteq Node
  BY <1>1 DEF NetInv, Completes
<1> QED BY <1>1, <1>2, <1>3, <1>4 DEF NetInv

\* A live event belongs to an entry object, whose packet is well formed.
LEMMA LiveEntry ==
    ASSUME IInv, NEW n \in Node, NEW a \in EntryId, NEW k \in Kind, <<a, k>> \in timer[n]
    PROVE  a \in pft[n] /\ obj[n][a] \in Entry /\ obj[n][a].pkt \in ValPacket
<1>1. EntryInv(obj[n][a], a, pft[n], timer[n])
  BY DEF IInv, NodeInv
<1> QED BY <1>1 DEF EntryInv, Entry

\* onInterestFinalize leaves sound tables.
LEMMA FinalizeKeeps ==
    ASSUME NEW n \in Node, NEW t, NodeOK(n, t), NEW x \in Name
    PROVE  LET u == OnInterestFinalize(t, x)
           IN /\ NodeOK(n, u)
              /\ u.ifnt = t.ifnt /\ u.dfnt = t.dfnt /\ u.cs = t.cs /\ u.fib = t.fib
              /\ u.pit = [t.pit EXCEPT ![x] = NoPit]
              /\ u.dnl = t.dnl \cup {r[2] : r \in t.pit[x].out}
<1> DEFINE u == OnInterestFinalize(t, x)
           dnl == t.dnl \cup {r[2] : r \in t.pit[x].out}
           pit == [t.pit EXCEPT ![x] = NoPit]
           t1 == [t EXCEPT !.dnl = dnl]
<1>1. t \in Tables /\ t.pit \in [Name -> PitEntries] /\ t.pit[x] \in PitEntries
  BY DEF NodeOK, Tables
<1>2. NoPit \in PitEntries
  BY DEF NoPit, PitEntries
<1>3. /\ pit \in [Name -> PitEntries]
      /\ pit[x] = NoPit /\ \A y \in Name \ {x} : pit[y] = t.pit[y]
  BY <1>1, <1>2
<1>4. dnl \subseteq Nonce
  BY <1>1, SMTT(30) DEF Tables, PitEntries, Records
<1>5. u = [t1 EXCEPT !.pit[x] = NoPit]
  BY DEF OnInterestFinalize
<1> HIDE DEF dnl, u
<1>6. /\ t1 \in Tables /\ t1.pit = t.pit /\ t1.ifnt = t.ifnt /\ t1.dfnt = t.dfnt
      /\ t1.cs = t.cs /\ t1.fib = t.fib /\ t1.dnl = dnl
  BY <1>1, <1>4 DEF Tables
<1> HIDE DEF t1
<1>7. u = [t1 EXCEPT !.pit = pit]
  BY <1>5, <1>6
<1> HIDE DEF pit
<1>8. /\ u \in Tables /\ u.pit = pit /\ u.ifnt = t.ifnt /\ u.dfnt = t.dfnt
      /\ u.cs = t.cs /\ u.fib = t.fib /\ u.dnl = dnl
  BY <1>3, <1>6, <1>7 DEF Tables
<1>9. u.pit[x].in = {} /\ u.pit[x].out = {} /\ u.pit[x].nonces = {}
  BY <1>3, <1>8, SMTT(30) DEF NoPit
<1>10. ASSUME NEW y \in Name PROVE PitOK(u, y)
  <2>1. CASE y = x
    BY <1>9, <2>1, FS_EmptySet DEF PitOK
  <2>2. CASE y # x
    <3>1. u.pit[y] = t.pit[y] /\ PitOK(t, y)
      BY <1>3, <1>8, <2>2 DEF NodeOK
    <3> QED BY <1>8, <3>1 DEF PitOK
  <2> QED BY <2>1, <2>2
<1>11. \A y \in Name : t.pit[y].in = {} => u.pit[y].in = {}
  BY <1>3, <1>8, <1>9
<1>12. NodeOK(n, u)
  BY <1>8, <1>10, <1>11, SMTT(30) DEF NodeOK, IfntByNonce, RoutesOK
<1> QED BY <1>8, <1>12 DEF u, dnl, pit

\* The event of an application's Interest, and the events of an arrival.
LEMMA ExpressEvent ==
    ASSUME NetInv, NEW n \in Node, NEW i \in Nonce
    PROVE  EventOK(n, OnIncomingInterest(n, Context(tab[n]), APP, i, NoTag))
<1> DEFINE c == Context(tab[n])
<1>1. NodeOK(n, tab[n]) /\ tab[n] \in Tables
  BY DEF NetInv
<1>2. c \in Contexts /\ Fresh(c) /\ c.t = tab[n]
  BY <1>1, ContextFacts
<1> HIDE DEF c
<1>3. EventOK(n, OnIncomingInterest(n, c, APP, i, NoTag))
  <2>1. ~IsGeoFace(APP) /\ APP \in MyAreas \cup {APP} /\ NoTag \in Areas \cup {NoTag}
    BY AreaFacts
  <2>2. NodeOK(n, c.t)
    BY <1>1, <1>2
  <2> QED BY <1>2, <2>1, <2>2, InterestEvent
<1> QED BY <1>3 DEF c

\* Receiving any packet of the network is an event that is in order.
LEMMA ReceiveEvent ==
    ASSUME NetInv, NEW n \in Node, NEW p \in ValPacket, NEW c \in Outcomes(n, p)
    PROVE  EventOK(n, c)
<1>1. NodeOK(n, tab[n])
  BY DEF NetInv
<1>2. CASE IsData(p)
  <2>1. p \in Datas
    BY <1>2, PacketKinds
  <2>2. PICK order \in Orders(Downstreams(Context(tab[n]), p.id)) :
            c = ProcessDataFromNetwork(n, Context(tab[n]), p, order)
    BY <1>2 DEF Outcomes
  <2>3. EventOK(n, ProcessDataFromNetwork(n, Context(tab[n]), p, order))
    BY <1>1, <2>1, DataEvent
  <2> QED BY <2>2, <2>3
<1>3. CASE ~IsData(p)
  <2>1. p \in Interests
    BY <1>3, PacketKinds
  <2>2. c = ProcessInterestFromNetwork(n, Context(tab[n]), p)
    BY <1>3 DEF Outcomes
  <2>3. EventOK(n, ProcessInterestFromNetwork(n, Context(tab[n]), p))
    BY <1>1, <2>1, NetworkInterest
  <2> QED BY <2>2, <2>3
<1> QED BY <1>2, <1>3

\* The network's initial states are initial states of the forwarding table and satisfy the
\* invariant.
LEMMA InitNetInv == NetInit => Init /\ NetInv
<1> SUFFICES ASSUME NetInit PROVE Init /\ NetInv
  OBVIOUS
<1> DEFINE e == EmptyTables
<1>1. Init /\ IInv
  BY InitIInv DEF NetInit
<1>2. /\ e.ifnt = [i \in Nonce |-> <<>>]
      /\ e.dfnt = [g \in Signatures |-> <<>>]
      /\ e.pit = [x \in Name |-> NoPit]
      /\ e.cs = [x \in Name |-> NotCached]
      /\ e.fib = <<>> /\ e.dnl = {}
  BY DEF EmptyTables
<1>3. e \in Tables
  <2>1. NoPit \in PitEntries
    BY DEF NoPit, PitEntries
  <2> QED BY <2>1, SMTT(30) DEF EmptyTables, Tables
<1>4. ASSUME NEW x \in Name PROVE PitOK(e, x)
  <2>1. e.pit[x].in = {} /\ e.pit[x].out = {} /\ e.pit[x].nonces = {}
    BY <1>2, SMTT(30) DEF NoPit
  <2> HIDE DEF e
  <2> QED BY <2>1, FS_EmptySet DEF PitOK
<1>5. ASSUME NEW n \in Node PROVE NodeOK(n, e)
  <2>1. \A x \in Name : e.cs[x] = NotCached /\ e.pit[x].in = {}
    BY <1>2, SMTT(30) DEF NoPit
  <2>2. IfntByNonce(e) /\ \A g \in Signatures : e.dfnt[g] = <<>>
    <3> HIDE DEF e
    <3> QED BY <1>2, SMTT(30) DEF IfntByNonce
  <2> HIDE DEF e
  <2> QED BY <1>2, <1>3, <1>4, <2>1, <2>2 DEF NodeOK, RoutesOK
<1>6. tab \in [Node -> Tables] /\ \A n \in Node : NodeOK(n, tab[n])
  <2>1. tab = [n \in Node |-> e]
    BY DEF NetInit
  <2> HIDE DEF e
  <2> QED BY <1>3, <1>5, <2>1
<1> QED BY <1>1, <1>6 DEF NetInv, NetInit

\* Every step of the network keeps NetInv, and is a step of ValPft or leaves the
\* PFTs alone.
LEMMA StepNetInv == NetInv /\ [NetNext]_netVars => NetInv' /\ [Next]_vars
<1> SUFFICES ASSUME NetInv, [NetNext]_netVars PROVE NetInv' /\ [Next]_vars
  OBVIOUS
<1> DEFINE TablesKept ==
        /\ tab' \in [Node -> Tables]
        /\ \A n \in Node : NodeOK(n, tab'[n])
        /\ got' \in [Node -> SUBSET Name]
        /\ crashed' \subseteq Node
<1>0. [Next]_vars => IInv'
  BY StepIInv DEF NetInv
<1>1. CASE UNCHANGED netVars
  BY <1>0, <1>1 DEF netVars, tables, vars, NetInv
<1>2. ASSUME NEW n \in Consumer, NEW i \in Nonce, Express(n, i)
      PROVE  NetInv' /\ [Next]_vars
  <2>1. n \in Node
    BY ConsumerAssumption
  <2> DEFINE c == OnIncomingInterest(n, Context(tab[n]), APP, i, NoTag)
  <2>2. EventOK(n, c) /\ Completes(n, c)
    BY <1>2, <2>1, ExpressEvent DEF Express
  <2> HIDE DEF c
  <2>3. [Next]_vars /\ TablesKept
    BY <2>1, <2>2, CompletesKeeps
  <2> QED BY <1>0, <1>2, <2>1, <2>3, SMTT(30) DEF NetInv, Express
<1>3. ASSUME NEW n \in Node, NEW d \in air, Receive(n, d[2])
      PROVE  NetInv' /\ [Next]_vars
  <2>1. d[2] \in ValPacket
    BY DEF NetInv
  <2>2. PICK c \in Outcomes(n, d[2]) : Completes(n, c)
    BY <1>3 DEF Receive
  <2>3. EventOK(n, c)
    BY <2>1, <2>2, ReceiveEvent
  <2>4. [Next]_vars /\ TablesKept
    BY <2>2, <2>3, CompletesKeeps
  <2> QED BY <1>0, <1>3, <2>4 DEF NetInv, Receive, Arrives
<1>4. ASSUME NEW n \in Node, NEW d \in air, Overhear(n, d[2])
      PROVE  NetInv' /\ [Next]_vars
  <2>1. d[2] \in ValPacket
    BY DEF NetInv
  <2>2. [Next]_vars
    BY <1>4, <2>1 DEF Overhear, HopMismatch, Next
  <2> QED BY <1>0, <1>4, <2>2 DEF NetInv, Overhear, Arrives, tables
<1>5. ASSUME NEW n \in Node, NEW a \in EntryId, Fire(n, a)
      PROVE  NetInv' /\ [Next]_vars
  <2>1. PICK k \in Kind :
            /\ IF k = "forward" THEN ForwardingTimer(n, a) ELSE ImpAckTimer(n, a)
            /\ IF Due(obj[n][a], k) THEN Broadcast(n, obj[n][a].pkt)
               ELSE UNCHANGED <<air, sent>>
    BY <1>5 DEF Fire
  <2>2. [Next]_vars
    BY <2>1 DEF Next
  <2>3. <<a, k>> \in timer[n]
    BY <2>1 DEF ForwardingTimer, ImpAckTimer, Kind
  <2>4. obj[n][a].pkt \in ValPacket
    BY <2>3, LiveEntry DEF NetInv
  <2>5. air' \subseteq Node \X ValPacket /\ sent' \subseteq Node \X ValPacket
    BY <2>1, <2>4, SMTT(30) DEF Broadcast, InRange, NetInv
  <2> QED BY <1>0, <1>5, <2>2, <2>5 DEF NetInv, Fire, tables
<1>6. ASSUME NEW n \in Node, NEW x \in Name, Expire(n, x)
      PROVE  NetInv' /\ [Next]_vars
  <2> DEFINE u == OnInterestFinalize(tab[n], x)
  <2>1. NodeOK(n, u) /\ tab' = [tab EXCEPT ![n] = u]
    BY <1>6, FinalizeKeeps DEF Expire, NetInv
  <2> HIDE DEF u
  <2>2. tab' \in [Node -> Tables] /\ \A m \in Node : NodeOK(m, tab'[m])
    BY <2>1 DEF NetInv, NodeOK
  <2> QED BY <1>0, <1>6, <2>2 DEF NetInv, Expire
<1> QED BY <1>1, <1>2, <1>3, <1>4, <1>5, <1>6 DEF NetNext, Ask, Pending

\* NetInv holds in every reachable state of the network.
THEOREM NetInductive == NetSpec => []NetInv
  BY InitNetInv, StepNetInv, PTL DEF NetSpec

\* Whatever the strategy and NFD do, the packets registered and cancelled by
\* registerOutgoingValPacket, reveiceData and the timers make each node's PFT
\* behave as ValPft says.
THEOREM PftImplemented == NetSpec => ImplementsPft
<1>1. NetInv /\ [NetNext]_netVars => [UNCHANGED vars \/ Next]_vars
  BY StepNetInv
<1>2. NetInit => Init
  BY InitNetInv
<1> QED BY <1>1, <1>2, NetInductive, PTL DEF NetSpec, ImplementsPft

\* So what is proved of the PFT alone holds in the network: one
\* entry for a packet, no callback for a removed entry, nothing left without a
\* timer, bounded transmissions, silence after an implicit ACK.
THEOREM PftCorrectInNet ==
    NetSpec => [](PftUnique /\ TimerOwned /\ NothingStalls /\ TransmissionBudget
                  /\ QuietStaysQuiet)
<1>1. [UNCHANGED vars \/ Next]_vars => [Next]_vars
  OBVIOUS
<1> QED BY <1>1, PftImplemented, Uniqueness, TimersOwned, NeverStalls, Budgeted, StaysQuiet,
           PTL DEF ImplementsPft, Spec

\* The packets on the air and the tables keep their types; no uint8_t hop count
\* wraps around when a table entry takes a hop off or a producer adds one.
THEOREM NetTypeCorrect == NetSpec => []NetTypeOK
<1>1. NetInv => NetTypeOK
  <2> SUFFICES ASSUME NetInv PROVE NetTypeOK
    OBVIOUS
  <2>1. ASSUME NEW n \in Node, NEW i \in Nonce, NEW e \in Range(tab[n].ifnt[i])
        PROVE  e.nonce = i /\ e.hopC < MAXHOPS
    <3>1. tab[n] \in Tables /\ IfntByNonce(tab[n])
      BY DEF NetInv, NodeOK
    <3>2. tab[n].ifnt[i] \in Seq(IfntEntries)
      BY <3>1 DEF Tables
    <3>3. PICK k \in DOMAIN tab[n].ifnt[i] : e = tab[n].ifnt[i][k]
      BY DEF Range
    <3>4. e \in IfntEntries
      BY <3>2, <3>3, SMTT(30)
    <3>5. e.hopC \in 0..(MAXHOPS - 1)
      BY <3>4 DEF IfntEntries
    <3> QED BY <3>1, <3>3, <3>5, HopByteAssumption, SMTT(30) DEF IfntByNonce
  <2>2. ASSUME NEW n \in Node, NEW x \in Name
        PROVE  /\ tab[n].pit[x].in \subseteq Records
               /\ tab[n].pit[x].out \subseteq Records
               /\ tab[n].pit[x].nonces \subseteq Nonce
               /\ tab[n].cs[x] \in {NotCached, 0, CLEAN, CLEAN_DFNT}
    <3>1. tab[n] \in Tables
      BY DEF NetInv
    <3>2. tab[n].pit[x] \in PitEntries /\ tab[n].cs[x] \in Marks \cup {NotCached}
      BY <3>1 DEF Tables
    <3>3. MyAreas \subseteq Areas
      BY AreaFacts
    <3> QED BY <3>2, <3>3 DEF PitEntries, Records, Marks, SentMarks
  <2>3. \A n \in Node : tab[n].dnl \subseteq Nonce
    BY DEF NetInv, Tables
  <2> QED BY <2>1, <2>2, <2>3 DEF NetInv, NetTypeOK
<1> QED BY <1>1, NetInductive, PTL

\* processDataFromNetwork's DFNT entry is removed in the event that made it,
\* whichever way NFD takes with the Data and however many downstreams wait.
THEOREM DfntIsTransient == NetSpec => []DfntTransient
<1>1. NetInv => DfntTransient
  BY DEF NetInv, NodeOK, DfntTransient
<1> QED BY <1>1, NetInductive, PTL

\* Every geoFace in NFD's PIT has its Interest in VAL's IFNT, although reveiceData
\* removes IFNT entries by nonce lists that NFD computes.
THEOREM ReturnPathIsKnown == NetSpec => []ReturnPathKnown
<1>1. NetInv => ReturnPathKnown
  BY DEF NetInv, NodeOK, PitOK, ReturnPathKnown
<1> QED BY <1>1, NetInductive, PTL
=============================================================================
