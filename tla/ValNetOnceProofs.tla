-------------------------- MODULE ValNetOnceProofs --------------------------
(***************************************************************************)
(* Proofs about the network of ValNet, whatever the medium loses, when     *)
(* each name is asked for by one Interest: then a PIT entry never has two  *)
(* downstreams, and the loop over them, which goes wrong with two, runs    *)
(* once.  NetOnce is the invariant, inductive together with NetInv.        *)
(***************************************************************************)
EXTENDS ValNetProofs

\* Leaves are for Zenon unless they name another prover.
USE ZenonT(30)

\* One consumer asks for each name, and once.  Without this a PIT entry may
\* have several downstreams, and afterReceiveData calls VAL a second time for a
\* Data whose DFNT and IFNT entries the first call has removed.
EachNameOnce == \A i, j \in Nonce : NameOf[i] = NameOf[j] => i = j
ProducerAreas == {MyArea(m) : m \in Producer}

\* One downstream for each pending Interest, and routes to producers only.
OnceOK(t) ==
    /\ \A x \in Name : \A q, s \in t.pit[x].in : q = s
    /\ Range(t.fib) \subseteq ProducerAreas

\* What makes onIncomingInterest refuse to forward Interest i, now or later.
Registered(t, i) ==
    \/ i \in t.dnl
    \/ \E q \in t.pit[NameOf[i]].out : q[2] = i
    \/ t.cs[NameOf[i]] # NotCached

\* What an event may do to the tables t: end in context r, with every Interest
\* that was registered still registered.
EventOnce(t, r) ==
    /\ OnceOK(r.t)
    /\ ~r.fault
    /\ \A i \in Nonce : Registered(t, i) => Registered(r.t, i)
    /\ \A p \in r.send :
        IF IsData(p) THEN p.hdr.sa \in ProducerAreas
        ELSE ~Registered(t, p.id) /\ Registered(r.t, p.id)

ServedOnce(n, c, r, x, face) ==
    /\ ~r.fault
    /\ \A p \in r.send : p.hdr.sa = IF IsGeoFace(face) THEN Head(c.t.dfnt[Sig[x]]).sa
                                    ELSE MyArea(n)

\* A packet that node n holds or has sent: Data come from a producer's area, and
\* Interests are registered.
Carried(n, p) ==
    IF IsData(p) THEN p.hdr.sa \in ProducerAreas ELSE Registered(tab[n], p.id)

NetOnce ==
    /\ \A n \in Node : OnceOK(tab[n])
    /\ \A d \in air : IsData(d[2]) => d[2].hdr.sa \in ProducerAreas
    /\ \A n \in Node : \A a \in pft[n] : Carried(n, obj[n][a].pkt)
    /\ \A s \in sent : Carried(s[1], s[2])
    /\ crashed = {}
    /\ ForwardedOnce
-----------------------------------------------------------------------------
\* With one downstream there is one order to serve it in.
LEMMA OnlyOrder ==
    ASSUME NEW d
    PROVE  /\ AnyOrder({d}) \in Seq({d}) /\ Len(AnyOrder({d})) = 1
           /\ \A order \in Orders({d}) : order \in Seq({d}) /\ Len(order) = 1
<1>1. Cardinality({d}) = 1 /\ IsFiniteSet({d})
  BY FS_Singleton
<1>2. [k \in 1..1 |-> d] \in [1..1 -> {d}] /\ IsInjective([k \in 1..1 |-> d])
  BY SMTT(30) DEF IsInjective
<1>3. AnyOrder({d}) \in [1..1 -> {d}]
  BY <1>1, <1>2 DEF AnyOrder, Orders, Injection
<1>4. Orders({d}) \subseteq [1..1 -> {d}]
  BY <1>1 DEF Orders, Injection
<1>5. ASSUME NEW N \in Nat, NEW q \in [1..N -> {d}]
      PROVE  q \in Seq({d}) /\ Len(q) = N
  BY SMTT(30)
<1> QED BY <1>3, <1>4, <1>5

\* With one downstream there is one order to serve it in.
LEMMA OnlyOrderIn ==
    ASSUME NEW F, NEW d \in F, NEW q \in Seq({d}), Len(q) = 1
    PROVE  q \in Seq(F) /\ q # <<>>
<1>1. \A k \in DOMAIN q : q[k] \in F
  BY SMTT(30)
<1>2. q \in Seq(F)
  BY <1>1, SMTT(30)
<1>3. q # <<>>
  <2>1. Len(<<>>) = 0
    OBVIOUS
  <2> QED BY <2>1, SMTT(30)
<1> QED BY <1>2, <1>3

\* afterReceiveData with one downstream: the IFNT or the DFNT has what VAL needs,
\* and the Data that is sent bears the source area it came with, or the
\* producer's own.
LEMMA SolicitedOnce ==
    ASSUME NEW n \in Node, NEW c \in Contexts, IfntByNonce(c.t), c.send = {}, ~c.fault,
           NEW x \in Name, NEW face \in MyAreas \cup {APP}, NEW mark \in SentMarks,
           NEW d \in MyAreas \cup {APP}, NEW i \in Nonce, c.t.pit[x].in = {<<d, i>>},
           PitOK(c.t, x), NEW order \in Seq({d}), Len(order) = 1,
           IsGeoFace(face) => c.t.dfnt[Sig[x]] # <<>>
    PROVE  ServedOnce(n, c, OnIncomingData(n, c, face, x, mark, order), x, face)
<1> DEFINE b == CsInsert(c, x, mark)
           s == IF IsGeoFace(face) THEN AddNextHop(b, face) ELSE b
           S == c.t.pit[x].nonces
           start == [c |-> s, nonces |-> S, mark |-> mark, served |-> FALSE]
           a == ServeDownstream(n, face, x, c.t.pit[x].in, start, d)
           r == OnIncomingData(n, c, face, x, mark, order)
           source == IF IsGeoFace(face) THEN Head(c.t.dfnt[Sig[x]]).sa ELSE MyArea(n)
<1>1. /\ b \in Contexts
      /\ b.t.ifnt = c.t.ifnt /\ b.t.dfnt = c.t.dfnt /\ b.t.pit = c.t.pit
      /\ b.send = c.send /\ b.fault = c.fault
  <2>1. mark \in Marks
    BY DEF Marks
  <2>2. Inserted(c, b, x)
    BY <2>1, CsInsertEffect
  <2> QED BY <2>2 DEF Inserted
<1>2. r = [AfterReceiveData(n, b, face, x, mark, order) EXCEPT !.t.pit[x] = NoPit]
  BY DEF OnIncomingData
<1>3. AfterReceiveData(n, b, face, x, mark, order)
          = Turns(n, face, x, b.t.pit[x].in,
                  [c |-> s, nonces |-> b.t.pit[x].nonces, mark |-> mark, served |-> FALSE],
                  order)[Len(order)].c
  BY DEF AfterReceiveData
<1> HIDE DEF b, r
<1>4. /\ s \in Contexts
      /\ s.t.ifnt = c.t.ifnt /\ s.t.dfnt = c.t.dfnt
      /\ s.send = {} /\ ~s.fault
  <2>1. IsGeoFace(face) => face \in MyAreas
    BY AreaFacts
  <2> QED BY <1>1, <2>1, AddNextHopEffect
<1> HIDE DEF s
<1>5. AfterReceiveData(n, b, face, x, mark, order) = a.c
  <2> DEFINE turn == Turns(n, face, x, c.t.pit[x].in, start, order)
  <2>1. AfterReceiveData(n, b, face, x, mark, order) = turn[Len(order)].c
    BY <1>1, <1>3
  <2>2. /\ turn[0] = start
        /\ \A k \in 1..Len(order) :
               turn[k] = ServeDownstream(n, face, x, c.t.pit[x].in, turn[k - 1], order[k])
    <3> HIDE DEF start
    <3> HIDE DEF turn
    <3>1. order \in Seq({d})
      OBVIOUS
    <3> QED BY <3>1, TurnsDef, SMTT(30) DEF turn
  <2>3. order[1] = d /\ 1 \in 1..Len(order) /\ 1 - 1 = 0
    BY SMTT(30)
  <2> HIDE DEF turn, start
  <2>4. turn[1] = ServeDownstream(n, face, x, c.t.pit[x].in, turn[1 - 1], order[1])
    BY <2>2, <2>3
  <2>5. turn[1] = ServeDownstream(n, face, x, c.t.pit[x].in, start, d)
    BY <2>2, <2>3, <2>4
  <2> QED BY <2>1, <2>5
<1> DEFINE given == [s EXCEPT !.app = @ \cup {x}]
           relay == ReceiveData(n, s, d, x, mark, S, ~IsGeoFace(face))
           consume == ReceiveData(n, given, face, x, CLEAN, S, FALSE)
<1>6. \/ IsGeoFace(d) /\ a.c = relay
      \/ ~IsGeoFace(d) /\ IsGeoFace(face) /\ a.c = consume
      \/ ~IsGeoFace(d) /\ ~IsGeoFace(face) /\ a.c = given
  BY <1>4 DEF ServeDownstream
<1>7. /\ S \in SUBSET Nonce /\ i \in S
      /\ IsGeoFace(d) => c.t.ifnt[i] # <<>>
      /\ IfntByNonce(s.t)
  <2>1. S \in SUBSET Nonce
    BY DEF Contexts, Tables, PitEntries
  <2>2. i \in S /\ (IsGeoFace(d) => c.t.ifnt[i] # <<>>)
    BY SMTT(30) DEF PitOK
  <2> QED BY <1>4, <2>1, <2>2 DEF IfntByNonce
<1>8. /\ given \in Contexts /\ given.t = s.t /\ given.send = s.send
      /\ given.fault = s.fault
  BY <1>4 DEF Contexts
<1> HIDE DEF a, given, S
<1>9. ~a.c.fault /\ \A p \in a.c.send : p.hdr.sa = source
  <2>1. CASE IsGeoFace(d) /\ a.c = relay
    <3>1. d \in MyAreas /\ mark \in Marks /\ (~IsGeoFace(face)) \in BOOLEAN
      BY <2>1, AreaFacts DEF Marks, IsGeoFace
    <3>2. DataTaken(n, s, relay, d, x, mark, S, ~IsGeoFace(face))
      BY <1>4, <1>7, <3>1, ReceiveDataEffect
    <3>3. Source(n, s, d, x, ~IsGeoFace(face)) = source
      BY <1>4 DEF Source
    <3> HIDE DEF relay, source
    <3>4. ~relay.fault
      BY <1>4, <1>7, <2>1, <3>2 DEF DataTaken
    <3>5. relay.send \subseteq DataFrom(source)
      BY <1>4, <3>2, <3>3 DEF DataTaken
    <3> QED BY <2>1, <3>4, <3>5 DEF DataFrom
  <2>2. CASE ~IsGeoFace(d) /\ IsGeoFace(face) /\ a.c = consume
    <3>1. face \in MyAreas /\ CLEAN \in Marks /\ FALSE \in BOOLEAN /\ IfntByNonce(given.t)
      BY <1>7, <1>8, <2>2, AreaFacts DEF Marks, SentMarks
    <3>2. DataTaken(n, given, consume, face, x, CLEAN, S, FALSE)
      BY <1>7, <1>8, <3>1, ReceiveDataEffect
    <3>3. given.t.dfnt[Sig[x]] = c.t.dfnt[Sig[x]] /\ c.t.dfnt[Sig[x]] # <<>>
      BY <1>4, <1>8, <2>2
    <3>4. Source(n, given, face, x, FALSE) = source
      BY <2>2, <3>3 DEF Source
    <3> HIDE DEF consume, source
    <3>5. ~consume.fault
      BY <1>4, <1>8, <3>2, <3>3 DEF DataTaken
    <3>6. consume.send \subseteq DataFrom(source)
      BY <1>4, <1>8, <3>2, <3>4 DEF DataTaken
    <3> QED BY <2>2, <3>5, <3>6 DEF DataFrom
  <2>3. CASE ~IsGeoFace(d) /\ ~IsGeoFace(face) /\ a.c = given
    BY <1>4, <1>8, <2>3
  <2> QED BY <1>6, <2>1, <2>2, <2>3
<1>10. r.fault = a.c.fault /\ r.send = a.c.send
  <2> DEFINE v == a.c
  <2>1. r = [v EXCEPT !.t.pit[x] = NoPit]
    BY <1>2, <1>5
  <2> HIDE DEF v
  <2>2. r.fault = v.fault /\ r.send = v.send
    BY <2>1, SMTT(30)
  <2> QED BY <2>2 DEF v
<1> HIDE DEF source
<1>11. ~r.fault /\ \A p \in r.send : p.hdr.sa = source
  BY <1>9, <1>10
<1> QED BY <1>11 DEF source, r, ServedOnce

\* A satisfied Interest stays registered: its Data is in the Content Store.
LEMMA SolicitedKeepsOnce ==
    ASSUME NEW c \in Contexts, NEW x \in Name, NEW face, NEW r, Solicited(c, r, x, face),
           \A y \in Name \ {x} : \A q, s \in c.t.pit[y].in : q = s,
           Range(c.t.fib) \subseteq ProducerAreas, IsGeoFace(face) => face \in ProducerAreas
    PROVE  /\ OnceOK(r.t)
           /\ \A i \in Nonce : Registered(c.t, i) => Registered(r.t, i)
<1>1. c.t.pit \in [Name -> PitEntries] /\ \A i \in Nonce : NameOf[i] \in Name
  BY NameOfAssumption DEF Contexts, Tables
<1>2. r.t.pit[x] = NoPit /\ \A y \in Name \ {x} : r.t.pit[y] = c.t.pit[y]
  BY <1>1 DEF Solicited
<1>3. Range(r.t.fib) \subseteq ProducerAreas
  BY DEF Solicited
<1>4. \A y \in Name : \A q, s \in r.t.pit[y].in : q = s
  BY <1>2, SMTT(30) DEF NoPit
<1>5. ASSUME NEW i \in Nonce, Registered(c.t, i) PROVE Registered(r.t, i)
  <2>1. CASE NameOf[i] = x
    BY <2>1 DEF Registered, Solicited
  <2>2. CASE NameOf[i] # x
    <3>1. /\ r.t.pit[NameOf[i]] = c.t.pit[NameOf[i]]
          /\ r.t.cs[NameOf[i]] = c.t.cs[NameOf[i]]
          /\ r.t.dnl = c.t.dnl
      BY <1>1, <1>2, <2>2 DEF Solicited
    <3> QED BY <1>5, <3>1 DEF Registered
  <2> QED BY <2>1, <2>2
<1> QED BY <1>3, <1>4, <1>5 DEF OnceOK

\* The single in-record of a pending Interest.
LEMMA SingleRecord ==
    ASSUME NEW t \in Tables, NEW x \in Name, t.pit[x].in # {},
           \A q, s \in t.pit[x].in : q = s
    PROVE  \E d \in MyAreas \cup {APP}, i \in Nonce :
               /\ t.pit[x].in = {<<d, i>>}
               /\ {q[1] : q \in t.pit[x].in} = {d}
<1>1. t.pit[x].in \subseteq (MyAreas \cup {APP}) \X Nonce
  BY DEF Tables, PitEntries
<1>2. PICK q \in t.pit[x].in : TRUE
  OBVIOUS
<1>3. q[1] \in MyAreas \cup {APP} /\ q[2] \in Nonce /\ q = <<q[1], q[2]>>
  BY <1>1, SMTT(30)
<1>4. t.pit[x].in = {<<q[1], q[2]>>}
  BY <1>2, <1>3
<1>5. {u[1] : u \in t.pit[x].in} = {q[1]}
  BY <1>4
<1> QED BY <1>3, <1>4, <1>5

\* Data from the network keeps one downstream for each pending name and routes to producers
\* only, and causes no fault.
LEMMA DataOnce ==
    ASSUME NEW n \in Node, NEW t, NodeOK(n, t), OnceOK(t),
           NEW p \in Datas, p.hdr.sa \in ProducerAreas,
           NEW order \in Orders(Downstreams(Context(t), p.id))
    PROVE  EventOnce(t, ProcessDataFromNetwork(n, Context(t), p, order))
<1> DEFINE x == p.id
           c == DfntAdd(Context(t), Sig[x], DfntEntry(p))
           face == p.hdr.sa
           r == ProcessDataFromNetwork(n, Context(t), p, order)
<1>1. x \in Name /\ face \in MyAreas /\ p.hdr.mark \in SentMarks /\ IsGeoFace(face)
  BY HeaderFields, AreaFacts DEF Datas
<1>2. r = OnIncomingData(n, c, face, x, p.hdr.mark, order)
  BY DEF ProcessDataFromNetwork
<1>3. /\ c \in Contexts /\ Fresh(c) /\ c.t \in Tables
      /\ c.t.ifnt = t.ifnt /\ SameRest(c.t, t)
      /\ c.t.dfnt[Sig[x]] = <<DfntEntry(p)>>
  BY DfntAddEffect DEF Contexts
<1>4. DfntEntry(p).sa = face
  BY DEF DfntEntry
<1> HIDE DEF c
<1>5. IfntByNonce(c.t) /\ RoutesOK(n, c.t) /\ \A y \in Name : PitOK(c.t, y)
  <2>1. IfntByNonce(t) /\ RoutesOK(n, t) /\ \A y \in Name : PitOK(t, y)
    BY DEF NodeOK
  <2> QED BY <1>3, <2>1, SameTables
<1>6. Len(c.t.dfnt[Sig[x]]) <= 1 /\ c.t.dfnt[Sig[x]] # <<>>
      /\ Head(c.t.dfnt[Sig[x]]).sa = face
  BY <1>3, <1>4, PopOfOne
<1>7. /\ \A y \in Name : \A q, s \in c.t.pit[y].in : q = s
      /\ Range(c.t.fib) \subseteq ProducerAreas
      /\ \A i \in Nonce : Registered(t, i) => Registered(c.t, i)
  BY <1>3 DEF OnceOK, SameRest, Registered
<1> SUFFICES EventOnce(t, r)
  OBVIOUS
<1> HIDE DEF r
<1>8. CASE c.t.pit[x].in = {}
  <2>1. Unsolicited(n, c, r, x, face)
    <3>1. r = OnDataUnsolicited(n, c, face, x)
      BY <1>2, <1>8 DEF OnIncomingData
    <3> QED BY <1>1, <1>3, <1>5, <3>1, UnsolicitedEffect
  <2>2. r.send = {} /\ ~r.fault
    BY <1>3, <2>1 DEF Unsolicited, Fresh
  <2>3. OnceOK(r.t)
    BY <1>7, <2>1, SMTT(30) DEF Unsolicited, OnceOK
  <2>4. \A i \in Nonce : Registered(c.t, i) => Registered(r.t, i)
    BY <2>1, NameOfAssumption DEF Unsolicited, Registered
  <2> QED BY <1>7, <2>2, <2>3, <2>4 DEF EventOnce
<1>9. CASE c.t.pit[x].in # {}
  <2>1. PICK d \in MyAreas \cup {APP}, i \in Nonce :
            c.t.pit[x].in = {<<d, i>>} /\ {q[1] : q \in c.t.pit[x].in} = {d}
    BY <1>1, <1>3, <1>7, <1>9, SingleRecord
  <2>2. order \in Seq({d}) /\ Len(order) = 1
    <3>1. Downstreams(Context(t), x) = {d}
      BY <1>3, <2>1 DEF Downstreams, Context, SameRest
    <3> QED BY <3>1, OnlyOrder
  <2> HIDE DEF x, face
  <2>3. order \in Seq(MyAreas \cup {APP}) /\ order # <<>>
    <3> DEFINE F == MyAreas \cup {APP}
    <3>1. d \in F
      BY <2>1
    <3> HIDE DEF F
    <3>2. order \in Seq(F) /\ order # <<>>
      BY <2>2, <3>1, OnlyOrderIn
    <3> QED BY <3>2 DEF F
  <2>4. Solicited(c, r, x, face)
    BY <1>1, <1>2, <1>3, <1>5, <1>6, <1>9, <2>3, SolicitedEffect DEF Fresh
  <2>5. ~r.fault /\ \A q \in r.send : q.hdr.sa = face
    <3>1. c.send = {} /\ ~c.fault /\ face \in MyAreas \cup {APP} /\ PitOK(c.t, x)
          /\ c.t.pit[x].in = {<<d, i>>}
      BY <1>1, <1>3, <1>5, <2>1 DEF Fresh
    <3>2. ServedOnce(n, c, OnIncomingData(n, c, face, x, p.hdr.mark, order), x, face)
      BY <1>1, <1>3, <1>5, <1>6, <2>1, <2>2, <3>1, SolicitedOnce
    <3> QED BY <1>1, <1>2, <1>6, <3>2 DEF ServedOnce
  <2>6. face \in ProducerAreas
    BY DEF face
  <2>7. OnceOK(r.t) /\ \A j \in Nonce : Registered(c.t, j) => Registered(r.t, j)
    BY <1>1, <1>3, <1>7, <2>4, <2>6, SolicitedKeepsOnce
  <2>8. \A q \in r.send : IsData(q)
    BY <2>4, PacketKinds DEF Solicited
  <2> QED BY <1>7, <2>5, <2>6, <2>7, <2>8 DEF EventOnce
<1> QED BY <1>8, <1>9

\* So does an Interest answered on the spot.
LEMMA AnsweredOnce ==
    ASSUME NEW c \in Contexts, OnceOK(c.t), NEW r, Answered(c, r)
    PROVE  EventOnce(c.t, r)
<1>1. OnceOK(r.t) /\ ~r.fault /\ \A i \in Nonce : Registered(c.t, i) => Registered(r.t, i)
  BY DEF Answered, SameRest, OnceOK, Registered
<1>2. \A p \in r.send : IsData(p) /\ p.hdr.sa \in ProducerAreas
  BY PacketKinds DEF Answered, OnceOK
<1> QED BY <1>1, <1>2 DEF EventOnce

\* So does a new Interest, when each name is asked for once.
LEMMA RelayedOnce ==
    ASSUME EachNameOnce, NEW n \in Node, NEW c \in Contexts, Fresh(c), NodeOK(n, c.t),
           OnceOK(c.t), NEW face \in MyAreas \cup {APP}, NEW i \in Nonce,
           IsGeoFace(face) => c.t.ifnt[i] # <<>>, NEW r, Relayed(n, c, r, face, i)
    PROVE  EventOnce(c.t, r)
<1> DEFINE x == NameOf[i]
<1>1. PICK out \in Areas \cup {APP}, s \in Contexts :
        /\ Pended(c, s, face, i, out)
        /\ IF n \in Producer
           THEN r = OnIncomingData(n, s, APP, x, 0, AnyOrder(Downstreams(s, x)))
           ELSE Sends(s, r, InterestsOf(i), FALSE)
  BY DEF Relayed
<1>2. /\ s.t \in Tables /\ IfntByNonce(s.t)
      /\ \A y \in Name : PitOK(s.t, y)
      /\ \A y \in Name : s.t.cs[y] # NotCached => s.t.pit[y].in = {}
      /\ \A g \in Signatures : s.t.dfnt[g] = <<>>
      /\ s.t.pit[x].in # {}
      /\ \A y \in Name \ {x} : s.t.pit[y] = c.t.pit[y]
  <2>1. PendedOK(c, s, NameOf[i])
    BY <1>1, PendedKeeps DEF Relayed
  <2> QED BY <2>1 DEF PendedOK
<1>3. /\ x \in Name /\ s.t.fib = c.t.fib /\ s.t.cs = c.t.cs /\ s.t.dnl = c.t.dnl /\ Fresh(s)
      /\ \A j \in Nonce : NameOf[j] \in Name
  BY <1>1, NameOfAssumption DEF Pended, Fresh
<1>4. ~Looping(c.t, i) /\ c.t.cs[x] = NotCached
  BY DEF Relayed
<1>5. ~Registered(c.t, i)
  BY <1>4 DEF Looping, Registered
<1>6. c.t.pit[x].in = {} /\ \A q \in c.t.pit[x].out : FALSE
  <2>1. ASSUME NEW q \in c.t.pit[x].in \cup c.t.pit[x].out PROVE FALSE
    <3>1. NameOf[q[2]] = x /\ c.t.pit[x] \in PitEntries
      BY <1>3 DEF NodeOK, PitOK, Tables
    <3>2. q[2] \in Nonce
      <4> DEFINE e == c.t.pit[x]
      <4>1. e.in \subseteq (MyAreas \cup {APP}) \X Nonce /\ e.out \subseteq (Areas \cup {APP}) \X Nonce
        BY <3>1 DEF PitEntries, Records
      <4> HIDE DEF e
      <4>2. q \in e.in \cup e.out
        BY DEF e
      <4> QED BY <4>1, <4>2
    <3>3. q[2] = i
      BY <3>1, <3>2 DEF EachNameOnce
    <3> QED BY <1>4, <3>3 DEF Looping
  <2> QED BY <2>1
<1>7. s.t.pit[x].in = {<<face, i>>} /\ <<out, i>> \in s.t.pit[x].out
  <2>1. s.t.pit[x] = PendingEntry(c.t.pit[x], face, i, out)
    BY <1>1, <1>3 DEF Pended, NodeOK, Tables
  <2> DEFINE z == s.t.pit[x]
             e == c.t.pit[x]
  <2>2. z = PendingEntry(e, face, i, out) /\ e.in = {}
    BY <1>6, <2>1
  <2> HIDE DEF z, e
  <2>3. z.in = {<<face, i>>} /\ <<out, i>> \in z.out
    BY <2>2 DEF PendingEntry, Record
  <2> QED BY <2>3 DEF z
<1>8. Registered(s.t, i) /\ \A j \in Nonce : Registered(c.t, j) => Registered(s.t, j)
  <2>1. Registered(s.t, i)
    BY <1>7 DEF Registered
  <2>2. ASSUME NEW j \in Nonce, Registered(c.t, j) PROVE Registered(s.t, j)
    <3>1. CASE NameOf[j] = x
      BY <2>1, <3>1 DEF EachNameOnce
    <3>2. CASE NameOf[j] # x
      BY <1>2, <1>3, <2>2, <3>2 DEF Registered
    <3> QED BY <3>1, <3>2
  <2> QED BY <2>1, <2>2
<1>9. /\ \A y \in Name : \A q, v \in s.t.pit[y].in : q = v
      /\ Range(s.t.fib) \subseteq ProducerAreas
  BY <1>2, <1>3, <1>7, SMTT(30) DEF OnceOK
<1>10. CASE n \in Producer
  <2> DEFINE order == AnyOrder(Downstreams(s, x))
  <2>1. order \in Seq({face}) /\ Len(order) = 1
    <3>1. Downstreams(s, x) = {face}
      BY <1>7, SMTT(30) DEF Downstreams
    <3> QED BY <3>1, OnlyOrder
  <2>2. order \in Seq(MyAreas \cup {APP}) /\ order # <<>>
    <3> HIDE DEF order
    <3> DEFINE F == MyAreas \cup {APP}
    <3>1. face \in F
      OBVIOUS
    <3> HIDE DEF F
    <3>2. order \in Seq(F) /\ order # <<>>
      BY <2>1, <3>1, OnlyOrderIn
    <3> QED BY <3>2 DEF F
  <2>3. r = OnIncomingData(n, s, APP, x, 0, order)
    BY <1>1, <1>10
  <2>4. /\ Sig[x] \in Signatures /\ s.t.dfnt[Sig[x]] = <<>> /\ 0 \in SentMarks
        /\ APP \in MyAreas \cup {APP} /\ ~IsGeoFace(APP)
        /\ s.send = {} /\ ~s.fault /\ PitOK(s.t, x)
    BY <1>2, <1>3, AreaFacts DEF Signatures, SentMarks, Fresh
  <2> HIDE DEF order, x
  <2>5. Solicited(s, r, x, APP)
    <3>1. Len(s.t.dfnt[Sig[x]]) <= 1
      BY <2>4, SMTT(30)
    <3> QED BY <1>2, <1>3, <2>2, <2>3, <2>4, <3>1, SolicitedEffect
  <2>6. ServedOnce(n, s, r, x, APP)
    BY <1>2, <1>3, <1>7, <2>1, <2>3, <2>4, SolicitedOnce
  <2>7. OnceOK(r.t) /\ \A j \in Nonce : Registered(s.t, j) => Registered(r.t, j)
    BY <1>3, <1>9, <2>4, <2>5, SolicitedKeepsOnce
  <2>8. \A p \in r.send : IsData(p) /\ p.hdr.sa \in ProducerAreas
    BY <1>10, <2>4, <2>5, <2>6, PacketKinds DEF Solicited, ServedOnce, ProducerAreas
  <2> QED BY <1>8, <2>6, <2>7, <2>8 DEF EventOnce, ServedOnce
<1>11. CASE n \notin Producer
  <2>1. Sends(s, r, InterestsOf(i), FALSE)
    BY <1>1, <1>11
  <2>2. r.t = s.t /\ ~r.fault /\ \A p \in r.send : p \in Interests /\ p.id = i
    BY <1>3, <2>1 DEF Sends, Fresh, InterestsOf
  <2>3. OnceOK(r.t)
    BY <1>9, <2>2 DEF OnceOK
  <2>4. \A p \in r.send : ~IsData(p) /\ ~Registered(c.t, p.id) /\ Registered(r.t, p.id)
    BY <1>5, <1>8, <2>2, PacketKinds
  <2> QED BY <1>8, <2>2, <2>3, <2>4 DEF EventOnce
<1> QED BY <1>10, <1>11

\* An event that starts from the tables t with an IFNT entry more.
LEMMA OutcomeOnce ==
    ASSUME EachNameOnce, NEW n \in Node, NEW t, OnceOK(t),
           NEW c \in Contexts, Fresh(c), NodeOK(n, c.t), SameRest(c.t, t),
           NEW face \in MyAreas \cup {APP}, NEW i \in Nonce,
           IsGeoFace(face) => c.t.ifnt[i] # <<>>,
           NEW r, Answered(c, r) \/ Relayed(n, c, r, face, i)
    PROVE  EventOnce(t, r)
<1>1. OnceOK(c.t)
  BY DEF OnceOK, SameRest
<1>2. EventOnce(c.t, r)
  BY <1>1, AnsweredOnce, RelayedOnce
<1>3. \A j : Registered(t, j) <=> Registered(c.t, j)
  BY DEF Registered, SameRest
<1> QED BY <1>2, <1>3 DEF EventOnce
-----------------------------------------------------------------------------
\* A step that sends nothing.
LEMMA SilentStep ==
    ASSUME NetInv, NetInv', NetOnce, NEW n \in Node, NEW New \in SUBSET ValPacket,
           PftMoves(n, New),
           \A m \in Node : OnceOK(tab'[m]),
           \A m \in Node, i \in Nonce : Registered(tab[m], i) => Registered(tab'[m], i),
           \A p \in New : IF IsData(p) THEN p.hdr.sa \in ProducerAreas
                          ELSE ~Registered(tab[n], p.id) /\ Registered(tab'[n], p.id),
           air' \subseteq air, sent' = sent, crashed' = {}
    PROVE  NetOnce'
<1>1. ASSUME NEW m \in Node, NEW p \in ValPacket, Carried(m, p)
      PROVE  Carried(m, p)'
  <2>1. ~IsData(p) => p.id \in Nonce
    BY PacketKinds DEF Interests
  <2> QED BY <1>1, <2>1 DEF Carried
<1>2. \A m \in Node : \A a \in pft[m] : obj[m][a].pkt \in ValPacket
  BY NodeParts DEF NetInv, Entry
<1>3. ASSUME NEW m \in Node, NEW a \in pft'[m]
      PROVE  Carried(m, obj[m][a].pkt)'
  <2>1. CASE a \in pft[m] /\ obj'[m][a].pkt = obj[m][a].pkt
    <3>1. Carried(m, obj[m][a].pkt) /\ obj[m][a].pkt \in ValPacket
      BY <1>2, <2>1 DEF NetOnce
    <3> DEFINE p == obj[m][a].pkt
    <3>2. p \in ValPacket /\ Carried(m, p) /\ obj'[m][a].pkt = p
      BY <2>1, <3>1
    <3>3. IF IsData(p) THEN p.hdr.sa \in ProducerAreas ELSE Registered(tab'[m], p.id)
      <4>1. ~IsData(p) => p.id \in Nonce
        BY <3>2, PacketKinds DEF Interests
      <4> HIDE DEF p
      <4> QED BY <3>2, <4>1 DEF Carried
    <3> QED BY <3>2, <3>3 DEF Carried
  <2>2. CASE m = n /\ obj'[m][a].pkt \in New
    BY <2>2 DEF Carried
  <2> QED BY <2>1, <2>2 DEF PftMoves
<1>4. ASSUME NEW s \in sent PROVE Carried(s[1], s[2])'
  <2>1. s[1] \in Node /\ s[2] \in ValPacket
    BY DEF NetInv
  <2>2. ~IsData(s[2]) => s[2].id \in Nonce
    BY <2>1, PacketKinds DEF Interests
  <2>3. Carried(s[1], s[2])
    BY DEF NetOnce
  <2> QED BY <2>1, <2>2, <2>3 DEF Carried
<1>5. ForwardedOnce'
  <2> SUFFICES ASSUME NEW m \in Node, NEW a \in EntryId, <<a, "forward">> \in timer'[m],
                      NEW s \in sent, s[1] = m
               PROVE  IsData(s[2]) \/ ~SamePacket(s[2], obj'[m][a].pkt)
    BY DEF ForwardedOnce
  <2>1. a \in pft'[m]
    BY DEF NetInv, IInv, NodeInv, EntryInv, Kind
  <2>2. CASE m = n /\ obj'[m][a].pkt \in New
    <3> DEFINE p == obj'[m][a].pkt
    <3>1. IsData(p) \/ ~Registered(tab[n], p.id)
      BY <2>2
    <3>2. IsData(s[2]) \/ Registered(tab[n], s[2].id)
      BY <2>2 DEF NetOnce, Carried
    <3> QED BY <3>1, <3>2 DEF SamePacket
  <2>3. CASE ~(m = n /\ obj'[m][a].pkt \in New)
    <3>1. <<a, "forward">> \in timer[m] /\ obj'[m][a].pkt = obj[m][a].pkt
      BY <2>1, <2>3 DEF PftMoves
    <3>2. IsData(s[2]) \/ ~SamePacket(s[2], obj[m][a].pkt)
      BY <3>1 DEF NetOnce, ForwardedOnce
    <3> QED BY <3>1, <3>2
  <2> QED BY <2>2, <2>3
<1>6. \A d \in air' : IsData(d[2]) => d[2].hdr.sa \in ProducerAreas
  BY DEF NetOnce
<1> QED BY <1>3, <1>4, <1>5, <1>6 DEF NetOnce

\* An event of node n that ends in context c.
LEMMA EventKeepsOnce ==
    ASSUME NetInv, NetInv', NetOnce, NEW n \in Node, NEW c, EventOK(n, c),
           EventOnce(tab[n], c), Completes(n, c), air' \subseteq air, sent' = sent
    PROVE  NetOnce'
<1>1. tab' = [tab EXCEPT ![n] = c.t] /\ tab'[n] = c.t
  BY DEF Completes, NetInv
<1>2. c.send \in SUBSET ValPacket
  BY PacketKinds DEF EventOK
<1>3. PftMoves(n, c.send)
  <2>1. ASSUME NEW p \in c.send, RegisterOutgoing(n, p, c.gone)
        PROVE  PftMoves(n, c.send)
    <3>1. PftMoves(n, {p})
      BY <1>2, <2>1, RegisterMoves DEF NetInv
    <3> QED BY <3>1 DEF PftMoves
  <2>2. ASSUME CancelSatisfied(n, c.gone) PROVE PftMoves(n, c.send)
    <3>1. PftMoves(n, {})
      BY <2>2, CancelMoves DEF NetInv
    <3> QED BY <3>1 DEF PftMoves
  <2>3. ASSUME UNCHANGED vars PROVE PftMoves(n, c.send)
    BY <2>3, NothingMoves
  <2> QED BY <2>1, <2>2, <2>3 DEF Completes, Outgoing, Accepted
<1>4. \A m \in Node : OnceOK(tab'[m])
  BY <1>1 DEF EventOnce, NetOnce, NetInv
<1>5. \A m \in Node, i \in Nonce : Registered(tab[m], i) => Registered(tab'[m], i)
  <2> TAKE m \in Node, i \in Nonce
  <2>1. CASE m = n
    BY <1>1, <2>1 DEF EventOnce
  <2>2. CASE m # n
    <3>1. tab'[m] = tab[m]
      BY <1>1, <2>2 DEF NetInv
    <3> QED BY <3>1
  <2> QED BY <2>1, <2>2
<1>6. \A p \in c.send : IF IsData(p) THEN p.hdr.sa \in ProducerAreas
                        ELSE ~Registered(tab[n], p.id) /\ Registered(tab'[n], p.id)
  BY <1>1 DEF EventOnce
<1>7. crashed' = {}
  BY DEF Completes, EventOnce, NetOnce
<1> QED BY <1>2, <1>3, <1>4, <1>5, <1>6, <1>7, SilentStep

\* A consumer's Interest.
LEMMA ExpressOnce ==
    ASSUME EachNameOnce, NetInv, NetOnce, NEW n \in Node, NEW i \in Nonce
    PROVE  EventOnce(tab[n], OnIncomingInterest(n, Context(tab[n]), APP, i, NoTag))
<1> DEFINE t == tab[n]
           c == Context(t)
           r == OnIncomingInterest(n, c, APP, i, NoTag)
<1>1. NodeOK(n, t) /\ OnceOK(t) /\ t \in Tables
  BY DEF NetInv, NetOnce
<1>2. c \in Contexts /\ Fresh(c) /\ c.t = t
  BY <1>1, ContextFacts
<1>3. SameRest(c.t, t) /\ NodeOK(n, c.t)
  BY <1>1, <1>2 DEF SameRest
<1>4. ~IsGeoFace(APP)
  BY AreaFacts
<1> HIDE DEF t, c
<1>5. Answered(c, r) \/ Relayed(n, c, r, APP, i)
  BY <1>2, <1>3, <1>4, InterestOutcome
<1> HIDE DEF r
<1>6. EventOnce(t, r)
  BY <1>1, <1>2, <1>3, <1>4, <1>5, OutcomeOnce
<1> QED BY <1>6 DEF t, c, r

\* A packet that onReceivedValPacket hands to NFD.
LEMMA ReceiveOnce ==
    ASSUME EachNameOnce, NetInv, NetOnce, NEW n \in Node, NEW d \in air,
           NEW c \in Outcomes(n, d[2])
    PROVE  EventOnce(tab[n], c)
<1> DEFINE t == tab[n]
           p == d[2]
<1>1. NodeOK(n, t) /\ OnceOK(t) /\ t \in Tables /\ p \in ValPacket
  BY DEF NetInv, NetOnce
<1>2. CASE IsData(p)
  <2>1. p \in Datas /\ p.hdr.sa \in ProducerAreas
    BY <1>1, <1>2, PacketKinds DEF NetOnce
  <2>2. PICK order \in Orders(Downstreams(Context(t), p.id)) :
            c = ProcessDataFromNetwork(n, Context(t), p, order)
    BY <1>2 DEF Outcomes
  <2> HIDE DEF t, p
  <2>3. EventOnce(t, ProcessDataFromNetwork(n, Context(t), p, order))
    BY <1>1, <2>1, DataOnce
  <2> QED BY <2>2, <2>3 DEF t
<1>3. CASE ~IsData(p)
  <2> DEFINE b == IfntAdd(Context(t), IfntEntry(p))
  <2>1. p \in Interests
    BY <1>1, <1>3, PacketKinds
  <2>2. c = ProcessInterestFromNetwork(n, Context(t), p)
    BY <1>3 DEF Outcomes
  <2> HIDE DEF t, p
  <2>3. c = Context(t) \/ Answered(b, c) \/ Relayed(n, b, c, p.hdr.sa, p.id)
    BY <1>1, <2>1, <2>2, NetworkInterest
  <2>4. /\ b \in Contexts /\ Fresh(b)
        /\ NodeOK(n, b.t) /\ SameRest(b.t, t)
        /\ b.t.ifnt[p.id] # <<>>
    BY <1>1, <2>1, IfntAddEffect
  <2> HIDE DEF b
  <2>5. p.hdr.sa \in MyAreas \cup {APP} /\ p.id \in Nonce
    BY <2>1, HeaderFields DEF Interests
  <2>6. EventOnce(t, Context(t))
    <3>1. Fresh(Context(t)) /\ Context(t).t = t
      BY <1>1, ContextFacts
    <3> QED BY <1>1, <3>1 DEF EventOnce, Fresh
  <2>7. Answered(b, c) \/ Relayed(n, b, c, p.hdr.sa, p.id) => EventOnce(t, c)
    BY <1>1, <2>4, <2>5, OutcomeOnce
  <2> QED BY <2>3, <2>6, <2>7 DEF t
<1> QED BY <1>2, <1>3

\* A timer callback.
LEMMA FireOnce ==
    ASSUME NetInv, NetInv', NetOnce, NEW n \in Node, NEW a \in EntryId, Fire(n, a)
    PROVE  NetOnce'
<1>1. PICK k \in Kind :
          /\ IF k = "forward" THEN ForwardingTimer(n, a) ELSE ImpAckTimer(n, a)
          /\ IF Due(obj[n][a], k) THEN Broadcast(n, obj[n][a].pkt)
             ELSE UNCHANGED <<air, sent>>
  BY DEF Fire
<1>2. tab' = tab /\ crashed' = crashed
  BY DEF Fire, tables
<1>3. /\ PftMoves(n, {})
      /\ a \in pft[n]
      /\ <<a, "forward">> \notin timer'[n]
  BY <1>1, FireMoves DEF NetInv
<1> DEFINE p == obj[n][a].pkt
<1>4. Carried(n, p)
  BY <1>3 DEF NetOnce
<1>5. sent' \subseteq sent \cup {<<n, p>>}
  BY <1>1 DEF Broadcast
<1>6. \A d \in air' : d \in air \/ d[2] = p
  BY <1>1, SMTT(30) DEF Broadcast
<1>7. \A m \in Node : \A b \in pft'[m] : b \in pft[m] /\ obj'[m][b].pkt = obj[m][b].pkt
  BY <1>3 DEF PftMoves
<1>8. ForwardedOnce'
  <2> SUFFICES ASSUME NEW m \in Node, NEW b \in EntryId, <<b, "forward">> \in timer'[m],
                      NEW s \in sent', s[1] = m
               PROVE  IsData(s[2]) \/ ~SamePacket(s[2], obj'[m][b].pkt)
    BY DEF ForwardedOnce
  <2>1. b \in pft'[m]
    BY DEF NetInv, IInv, NodeInv, EntryInv, Kind
  <2>2. /\ b \in pft[m] /\ obj'[m][b].pkt = obj[m][b].pkt
        /\ <<b, "forward">> \in timer[m]
    BY <1>3, <1>7, <2>1 DEF PftMoves
  <2>3. CASE s \in sent
    <3>1. IsData(s[2]) \/ ~SamePacket(s[2], obj[m][b].pkt)
      BY <2>2, <2>3 DEF NetOnce, ForwardedOnce
    <3> QED BY <2>2, <3>1
  <2>4. CASE s = <<n, p>>
    <3>1. m = n /\ b # a
      BY <1>3, <2>4
    <3>2. ~SamePacket(obj[n][a].pkt, obj[n][b].pkt)
      BY <1>3, <2>2, <3>1, NodeParts DEF NetInv
    <3> QED BY <2>2, <2>4, <3>1, <3>2
  <2> QED BY <1>5, <2>3, <2>4
<1>9. \A m \in Node : \A b \in pft'[m] : Carried(m, obj[m][b].pkt)'
  BY <1>2, <1>7 DEF Carried, NetOnce
<1>10. \A s \in sent' : Carried(s[1], s[2])'
  <2> TAKE s \in sent'
  <2>1. Carried(s[1], s[2])
    BY <1>4, <1>5, SMTT(30) DEF NetOnce
  <2> QED BY <1>2, <2>1 DEF Carried
<1>11. \A d \in air' : IsData(d[2]) => d[2].hdr.sa \in ProducerAreas
  BY <1>4, <1>6 DEF Carried, NetOnce
<1> QED BY <1>2, <1>8, <1>9, <1>10, <1>11 DEF NetOnce

\* The expiry of a pending Interest: what was forwarded enters the dead nonce list.
LEMMA ExpireOnce ==
    ASSUME NetInv, NetInv', NetOnce, NEW n \in Node, NEW x \in Name, Expire(n, x)
    PROVE  NetOnce'
<1> DEFINE t == tab[n]
           u == OnInterestFinalize(t, x)
<1>1. tab' = [tab EXCEPT ![n] = u] /\ NodeOK(n, t) /\ t \in Tables /\ OnceOK(t)
  BY DEF Expire, NetInv, NetOnce
<1>2. /\ u.cs = t.cs /\ u.fib = t.fib
      /\ u.pit = [t.pit EXCEPT ![x] = NoPit]
      /\ u.dnl = t.dnl \cup {r[2] : r \in t.pit[x].out}
  BY <1>1, FinalizeKeeps, SMTT(30)
<1>3. tab'[n] = u
  BY <1>1 DEF NetInv
<1>4. /\ u.pit[x] = NoPit
      /\ \A y \in Name \ {x} : u.pit[y] = t.pit[y]
  BY <1>1, <1>2 DEF Tables
<1> HIDE DEF t, u
<1>5. OnceOK(u)
  BY <1>1, <1>2, <1>4, SMTT(30) DEF OnceOK, NoPit
<1>6. ASSUME NEW i \in Nonce, Registered(t, i) PROVE Registered(u, i)
  <2>1. NameOf[i] \in Name
    BY NameOfAssumption
  <2>2. CASE NameOf[i] = x
    BY <1>2, <1>6, <2>2 DEF Registered
  <2>3. CASE NameOf[i] # x
    BY <1>2, <1>4, <1>6, <2>1, <2>3 DEF Registered
  <2> QED BY <2>2, <2>3
<1>7. \A m \in Node : tab'[m] = IF m = n THEN u ELSE tab[m]
  BY <1>1 DEF NetInv
<1>8. \A m \in Node : OnceOK(tab'[m])
  BY <1>5, <1>7 DEF NetOnce
<1>9. \A m \in Node, i \in Nonce : Registered(tab[m], i) => Registered(tab'[m], i)
  BY <1>6, <1>7 DEF t
<1>10. air' \subseteq air /\ sent' = sent /\ crashed' = {} /\ UNCHANGED vars
  BY DEF Expire, NetOnce
<1>11. PftMoves(n, {})
  BY <1>10, NothingMoves
<1>12. {} \in SUBSET ValPacket /\ \A p \in {} : FALSE
  OBVIOUS
<1> QED BY <1>8, <1>9, <1>10, <1>11, <1>12, SilentStep

\* The invariant NetOnce holds at first, when every table is empty.
LEMMA InitNetOnce == NetInit => NetOnce
<1> SUFFICES ASSUME NetInit PROVE NetOnce
  OBVIOUS
<1>1. /\ EmptyTables.pit = [x \in Name |-> NoPit]
      /\ EmptyTables.fib = <<>>
  BY DEF EmptyTables
<1>2. OnceOK(EmptyTables)
  BY <1>1, SMTT(30) DEF OnceOK, NoPit, Range
<1>3. \A n \in Node : OnceOK(tab[n])
  BY <1>2 DEF NetInit
<1>4. \A n \in Node : pft[n] = {}
  BY DEF NetInit, Init
<1> QED BY <1>3, <1>4 DEF NetInit, NetOnce, ForwardedOnce

\* The invariant, with what NetInv says of the tables, is inductive.
LEMMA StepNetOnce ==
    ASSUME EachNameOnce
    PROVE  NetInv /\ NetInv' /\ NetOnce /\ [NetNext]_netVars => NetOnce'
<1> SUFFICES ASSUME NetInv, NetInv', NetOnce, [NetNext]_netVars PROVE NetOnce'
  OBVIOUS
<1>1. CASE UNCHANGED netVars
  BY <1>1 DEF netVars, tables, vars, NetOnce, Carried, ForwardedOnce
<1>2. ASSUME NEW n \in Consumer, NEW i \in Nonce, Express(n, i) PROVE NetOnce'
  <2>1. n \in Node
    BY ConsumerAssumption
  <2> DEFINE c == OnIncomingInterest(n, Context(tab[n]), APP, i, NoTag)
  <2>2. EventOK(n, c) /\ EventOnce(tab[n], c)
    BY <2>1, ExpressEvent, ExpressOnce
  <2>3. Completes(n, c) /\ air' = air /\ sent' = sent
    BY <1>2 DEF Express
  <2> HIDE DEF c
  <2> QED BY <2>1, <2>2, <2>3, EventKeepsOnce
<1>3. ASSUME NEW n \in Node, NEW d \in air, Receive(n, d[2]) PROVE NetOnce'
  <2>1. d[2] \in ValPacket
    BY DEF NetInv
  <2>2. PICK c \in Outcomes(n, d[2]) : Completes(n, c)
    BY <1>3 DEF Receive
  <2>3. EventOK(n, c) /\ EventOnce(tab[n], c)
    BY <2>1, <2>2, ReceiveEvent, ReceiveOnce
  <2>4. air' \subseteq air /\ sent' = sent
    BY <1>3 DEF Receive, Arrives
  <2> QED BY <2>2, <2>3, <2>4, EventKeepsOnce
<1>4. ASSUME NEW n \in Node, NEW d \in air, Overhear(n, d[2]) PROVE NetOnce'
  <2>1. PftMoves(n, {})
    <3>1. CASE ForwardingCancelled(n, d[2]) \/ ImplicitAck(n, d[2])
      BY <3>1, OverhearMoves DEF NetInv
    <3>2. CASE HopMismatch(n, d[2])
      BY <3>2, NothingMoves DEF HopMismatch
    <3> QED BY <1>4, <3>1, <3>2 DEF Overhear
  <2>2. air' \subseteq air /\ sent' = sent /\ tab' = tab /\ crashed' = {}
    BY <1>4 DEF Overhear, Arrives, tables, NetOnce
  <2>3. \A m \in Node : OnceOK(tab'[m])
    BY <2>2 DEF NetOnce
  <2>4. {} \in SUBSET ValPacket /\ \A p \in {} : FALSE
    OBVIOUS
  <2> QED BY <2>1, <2>2, <2>3, <2>4, SilentStep
<1>5. ASSUME NEW n \in Node, NEW a \in EntryId, Fire(n, a) PROVE NetOnce'
  BY <1>5, FireOnce
<1>6. ASSUME NEW n \in Node, NEW x \in Name, Expire(n, x) PROVE NetOnce'
  BY <1>6, ExpireOnce
<1> QED BY <1>1, <1>2, <1>3, <1>4, <1>5, <1>6 DEF NetNext, Ask, Pending

\* NetOnce holds in every reachable state when each name is asked for once.
THEOREM NetOnceInductive ==
    ASSUME EachNameOnce
    PROVE  NetSpec => []NetOnce
  BY InitNetOnce, StepNetOnce, NetInductive, PTL DEF NetSpec

\* When each name is asked for once, getLongestJorney and the mean distance are
\* never asked for over no entry, in a network of any size and shape: the
\* doAfterDfntHit and doAfterDfntMiss of a Data find the IFNT entries they need.
THEOREM NeverUndefined ==
    ASSUME EachNameOnce
    PROVE  NetSpec => []AlwaysDefined
<1>1. NetOnce => AlwaysDefined
  BY DEF NetOnce, AlwaysDefined
<1> QED BY <1>1, NetOnceInductive, PTL

\* When each name is asked for once, addNextHop puts only the areas of producers
\* in a FIB: a relayed Data keeps its source area, and the floodFace is no route.
THEOREM RoutesAreToProducers ==
    ASSUME EachNameOnce
    PROVE  NetSpec => []RoutesLeadToProducers
<1>1. NetOnce => RoutesLeadToProducers
  BY DEF NetOnce, OnceOK, ProducerAreas, RoutesLeadToProducers
<1> QED BY <1>1, NetOnceInductive, PTL

\* When each name is asked for once, no node registers in its PFT an Interest it
\* has already transmitted: the PIT's out-records, the dead nonce list that
\* takes them over when the entry expires, or the Content Store refuse it.
THEOREM ForwardsOnce ==
    ASSUME EachNameOnce
    PROVE  NetSpec => []ForwardedOnce
<1>1. NetOnce => ForwardedOnce
  BY DEF NetOnce
<1> QED BY <1>1, NetOnceInductive, PTL
=============================================================================
