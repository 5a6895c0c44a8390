--------------------------- MODULE ValLinkProofs ---------------------------
(***************************************************************************)
(* Proofs about what happens on the air.  ValContention: the best placed   *)
(* relay forwards, for any number of relays, at any distances within reach *)
(* and whatever the random delays.  ValLink: its sizes, for every MTU and  *)
(* every packet, and that one sender's link implements ValChannel.         *)
(***************************************************************************)
EXTENDS ValContention, ValLink, TLAPS

-----------------------------------------------------------------------------
(* Contention *)

\* A quotient and its remainder
LEMMA DivMod ==
    \A a, m \in Nat : m > 0 =>
        /\ a \div m \in Nat /\ a % m \in Nat
        /\ m * (a \div m) <= a
        /\ a < m * (a \div m) + m
        /\ a % m = a - m * (a \div m)
  <1> SUFFICES ASSUME NEW a \in Nat, NEW m \in Nat, m > 0
               PROVE  /\ a \div m \in Nat /\ a % m \in Nat
                      /\ m * (a \div m) <= a
                      /\ a < m * (a \div m) + m
                      /\ a % m = a - m * (a \div m)
    OBVIOUS
  <1>1. a = m * (a \div m) + (a % m) /\ 0 <= (a % m) /\ (a % m) < m
    OBVIOUS
  <1>2. a \div m \in Int /\ a % m \in Int
    OBVIOUS
  <1>3. a \div m >= 0
    OBVIOUS
  <1> QED BY SMT, <1>1, <1>2, <1>3

\* Share is the truncated quotient dist * time_gap * NANO / max_dist
LEMMA ShareBounds ==
    ASSUME NEW d \in Nat, NEW gap \in Nat, NEW m \in Nat, m > 0
    PROVE  /\ Share(d, gap, m) \in Nat
           /\ m * Share(d, gap, m) <= d * gap * NANO
           /\ d * gap * NANO < m * Share(d, gap, m) + m
  <1> DEFINE a == d * gap
             q == a \div m
             r == a % m
             t == (r * NANO) \div m
  <1>1. a \in Nat /\ NANO \in Nat
    BY SMT DEF NANO
  <1>2. q \in Nat /\ r \in Nat /\ r = a - m * q
    BY SMT, <1>1, DivMod
  <1> HIDE DEF a, q, r
  <1>3. r * NANO \in Nat
    BY SMT, <1>2, <1>1
  <1>4. t \in Nat /\ m * t <= r * NANO /\ r * NANO < m * t + m
    BY SMT, <1>3, DivMod
  <1>5. Share(d, gap, m) = q * NANO + t
    BY SMT DEF Share, a, q, r
  <1> HIDE DEF t
  <1>6. m * (q * NANO + t) = (m * q) * NANO + m * t
    BY SMT, <1>2, <1>4, <1>1
  <1>7. a * NANO = (m * q) * NANO + r * NANO
    <2>1. a = m * q + r
      BY SMT, <1>1, <1>2
    <2>2. m * q \in Nat
      BY SMT, <1>2
    <2> QED BY SMT, <2>1, <2>2, <1>1, <1>2 DEF NANO
  <1>8. (m * q) * NANO \in Nat /\ m * t \in Nat
    BY SMT, <1>1, <1>2, <1>4
  <1> QED BY SMT, <1>1, <1>2, <1>3, <1>4, <1>5, <1>6, <1>7, <1>8 DEF a, NANO

\* The random delays differ by less than RandomSpan
RandomSpan == 30000

\* One metre more adds more than the random delays can differ, as long as the
\* 30 ms are spread over at most nine hops of 110 metres
LEMMA ShareStep ==
    ASSUME NEW near \in Nat, NEW far \in Nat, near < far,
           NEW m \in Nat, m > 0, m <= 990
    PROVE  Share(near, 30, m) + RandomSpan <= Share(far, 30, m)
  <1> DEFINE s == Share(near, 30, m)
             t == Share(far, 30, m)
  <1>1. s \in Nat /\ m * s <= near * 30 * NANO
    BY SMT, ShareBounds
  <1>2. t \in Nat /\ far * 30 * NANO < m * t + m
    BY SMT, ShareBounds
  <1> HIDE DEF s, t
  <1>3. near * 30 * NANO + 30 * NANO <= far * 30 * NANO
    BY SMT DEF NANO
  <1>4. m * s + 30 * NANO < m * t + m
    <2>1. m * s \in Nat /\ m * t \in Nat
      BY SMT, <1>1, <1>2
    <2>2. near * 30 * NANO \in Nat /\ far * 30 * NANO \in Nat
      BY SMT DEF NANO
    <2>3. 30 * NANO \in Nat
      BY SMT DEF NANO
    <2> QED BY SMT, <1>1, <1>2, <1>3, <2>1, <2>2, <2>3
  <1>5. ASSUME t < s + 30000 PROVE FALSE
    <2>1. t <= s + 29999
      BY SMT, <1>5, <1>1, <1>2
    <2>2. m * t <= m * (s + 29999)
      BY SMT, <2>1, <1>1, <1>2
    <2>3. m * (s + 29999) = m * s + m * 29999
      BY SMT, <1>1
    <2>4. m * 29999 + m < 30 * NANO /\ 30 * NANO \in Nat /\ m * 29999 \in Nat
      BY SMT DEF NANO
    <2>5. m * s \in Nat /\ m * t \in Nat
      BY SMT, <1>1, <1>2
    <2> QED BY SMT, <1>4, <2>2, <2>3, <2>4, <2>5
  <1> QED BY SMT, <1>1, <1>2, <1>5 DEF s, t, RandomSpan
-----------------------------------------------------------------------------
\* Relays are within the reach the delays are scaled for, and the hop count is
\* at most MAXHOPS, 9 in the code
Scaled == WithinReach /\ \A h \in Hops : h <= 9

\* The packet and the places of the relays
PlacesOK ==
    /\ purpose \in {"area", "explore", "data"}
    /\ hopC \in Nat /\ hopC > 0 /\ hopC <= 9
    /\ dist \in [Relay -> Nat]
    /\ purpose # "data" =>
           \A r \in Relay : dist[r] <= MaxDist(hopC, purpose = "area")

\* A timer that is set has been set to its duration and a random delay
DueOK ==
    /\ due \in [Relay -> Int]
    /\ \A r \in Relay : due[r] # NotSet => \E d \in Delays : due[r] = Duration(r) + d

\* Who has forwarded had the earliest timer of all
EarliestForwards ==
    forwarder # NoOne =>
        forwarder \in Relay /\ \A s \in Relay : due[s] # NotSet /\ due[forwarder] <= due[s]

ContentionInv == PlacesOK /\ DueOK /\ EarliestForwards

\* The metres over which the 30 ms are spread
Scale == IF purpose = "area" THEN hopC * 110 ELSE 110

\* The distance that delays are scaled by is positive and no smaller than a relay's distance,
\* except for Data.
LEMMA ScaleBounds ==
    ASSUME PlacesOK
    PROVE  /\ Scale \in Nat /\ Scale > 0 /\ Scale <= 990
           /\ purpose # "data" => \A x \in Relay : dist[x] <= Scale
  <1>1. hopC \in Nat /\ hopC > 0 /\ hopC <= 9
    BY DEF PlacesOK
  <1>2. Scale \in Nat /\ Scale > 0 /\ Scale <= 990
    BY <1>1 DEF Scale
  <1>3. purpose # "data" => Scale = MaxDist(hopC, purpose = "area")
    <2>1. CASE purpose = "area"
      BY <2>1 DEF Scale, MaxDist, SIGNAL_RANGE
    <2>2. CASE purpose # "area"
      BY <2>2 DEF Scale, MaxDist, SIGNAL_RANGE
    <2> QED BY <2>1, <2>2
  <1> QED BY <1>2, <1>3 DEF PlacesOK

\* What Duration computes within reach: a minimum, and a share of 30 ms that
\* grows with the distance or, for an exploration, shrinks with it
LEMMA DurationIs ==
    ASSUME PlacesOK, NEW x \in Relay
    PROVE  /\ Share(dist[x], 30, Scale) \in Nat
           /\ purpose = "area" => Duration(x) = 32 * NANO + Share(dist[x], 30, Scale)
           /\ purpose = "data" => Duration(x) = Share(dist[x], 30, Scale)
           /\ purpose = "explore" =>
                /\ Share(dist[x], 30, Scale) <= 30 * NANO
                /\ Duration(x) = 62 * NANO - Share(dist[x], 30, Scale)
  <1>1. dist[x] \in Nat
    BY DEF PlacesOK
  <1>2. /\ Share(dist[x], 30, Scale) \in Nat
        /\ Scale * Share(dist[x], 30, Scale) <= dist[x] * 30 * NANO
    <2>1. Scale \in Nat /\ Scale > 0
      BY ScaleBounds
    <2> QED BY <1>1, <2>1, ShareBounds
  <1>3. TimeGap(FALSE) = 30 /\ TimeGap(TRUE) = 30
    BY DEF TimeGap, MaxWait, MinWait, MAX_INTEREST_WAIT, MIN_INTEREST_WAIT,
           MAX_DATA_WAIT, MIN_DATA_WAIT
  <1>4. MinWait(FALSE) * NANO = 32 * NANO /\ MinWait(TRUE) * NANO = 0
    BY SMT DEF MinWait, MIN_INTEREST_WAIT, MIN_DATA_WAIT, NANO
  <1>5. ASSUME purpose = "area" PROVE Duration(x) = 32 * NANO + Share(dist[x], 30, Scale)
    <2>1. MaxDist(hopC, TRUE) = Scale
      BY <1>5 DEF MaxDist, SIGNAL_RANGE, Scale
    <2>2. ~(dist[x] > MaxDist(hopC, TRUE))
      <3>1. Scale \in Nat /\ dist[x] <= Scale
        BY <1>5, ScaleBounds
      <3>2. ~(dist[x] > Scale)
        BY <1>1, <3>1
      <3> QED BY <2>1, <3>2, Zenon
    <2>3. Duration(x) = FwdTimer(dist[x], hopC, TRUE, FALSE)
      BY <1>5 DEF Duration
    <2> QED BY <1>3, <1>4, <2>1, <2>2, <2>3, Zenon DEF FwdTimer
  <1>6. ASSUME purpose = "data" PROVE Duration(x) = Share(dist[x], 30, Scale)
    <2>1. MaxDist(0, FALSE) = Scale
      BY <1>6 DEF MaxDist, SIGNAL_RANGE, Scale
    <2>2. Duration(x) = FwdTimer(dist[x], 0, FALSE, TRUE)
      BY <1>6 DEF Duration
    <2>3. Duration(x) = 0 + Share(dist[x], 30, Scale)
      BY <1>3, <1>4, <2>1, <2>2, Zenon DEF FwdTimer
    <2> QED BY <1>2, <2>3
  <1>7. ASSUME purpose = "explore"
        PROVE  /\ Share(dist[x], 30, Scale) <= 30 * NANO
               /\ Duration(x) = 62 * NANO - Share(dist[x], 30, Scale)
    <2>1. Scale = 110 /\ dist[x] <= 110
      BY <1>7, ScaleBounds DEF Scale
    <2>2. Share(dist[x], 30, Scale) <= 30 * NANO
      BY SMT, <1>1, <1>2, <2>1 DEF NANO
    <2>3. MIN_INTEREST_WAIT * NANO = 32 * NANO /\ TimeGap(FALSE) * NANO = 30 * NANO
      BY <1>3, Zenon DEF MIN_INTEREST_WAIT
    <2>4. Duration(x) = InvertedFwdTimer(dist[x])
      BY <1>7 DEF Duration
    <2>5. Duration(x) = 32 * NANO + (30 * NANO - Share(dist[x], 30, Scale))
      BY <1>1, <1>3, <2>1, <2>3, <2>4, Zenon DEF InvertedFwdTimer, SIGNAL_RANGE
    <2>6. NANO \in Nat
      BY SMT DEF NANO
    <2> QED BY SMT, <1>2, <2>2, <2>5, <2>6
  <1> QED BY <1>2, <1>5, <1>6, <1>7

\* The delay a relay waits is a natural number, never negative.
LEMMA DurationNat ==
    ASSUME PlacesOK, NEW x \in Relay
    PROVE  Duration(x) \in Nat
  <1>1. 32 * NANO \in Nat /\ 30 * NANO \in Nat /\ 62 * NANO \in Nat /\ 30 * NANO <= 62 * NANO
    BY SMT DEF NANO
  <1>2. Share(dist[x], 30, Scale) \in Nat
    BY DurationIs
  <1>3. CASE purpose = "area"
    <2>1. Duration(x) = 32 * NANO + Share(dist[x], 30, Scale)
      BY <1>3, DurationIs
    <2> QED BY <1>1, <1>2, <2>1
  <1>4. CASE purpose = "data"
    BY <1>2, <1>4, DurationIs
  <1>5. CASE purpose = "explore"
    <2>1. /\ Share(dist[x], 30, Scale) <= 30 * NANO
          /\ Duration(x) = 62 * NANO - Share(dist[x], 30, Scale)
      BY <1>5, DurationIs
    <2> QED BY <1>1, <1>2, <2>1
  <1> QED BY <1>3, <1>4, <1>5 DEF PlacesOK

\* The better placed of two relays waits less, by more than the random delays
LEMMA BetterWaitsLess ==
    ASSUME PlacesOK, NEW r \in Relay, NEW s \in Relay, Better(s, r)
    PROVE  Duration(s) + RandomSpan <= Duration(r)
  <1>1. dist[r] \in Nat /\ dist[s] \in Nat
    BY DEF PlacesOK
  <1>2. \A near, far \in Nat : near < far =>
            Share(near, 30, Scale) + RandomSpan <= Share(far, 30, Scale)
    BY ScaleBounds, ShareStep
  <1>3. Share(dist[r], 30, Scale) \in Nat /\ Share(dist[s], 30, Scale) \in Nat
    BY DurationIs
  <1>4. 32 * NANO \in Nat /\ 62 * NANO \in Nat /\ RandomSpan \in Nat
    BY SMT DEF NANO, RandomSpan
  <1>5. CASE purpose # "explore"
    <2>1. Share(dist[s], 30, Scale) + RandomSpan <= Share(dist[r], 30, Scale)
      BY <1>1, <1>2, <1>5 DEF Better
    <2>2. CASE purpose = "area"
      <3>1. Duration(s) = 32 * NANO + Share(dist[s], 30, Scale)
        BY <2>2, DurationIs
      <3>2. Duration(r) = 32 * NANO + Share(dist[r], 30, Scale)
        BY <2>2, DurationIs
      <3> QED BY <2>1, <3>1, <3>2, <1>3, <1>4
    <2>3. CASE purpose = "data"
      <3>1. Duration(s) = Share(dist[s], 30, Scale)
        BY <2>3, DurationIs
      <3>2. Duration(r) = Share(dist[r], 30, Scale)
        BY <2>3, DurationIs
      <3> QED BY <2>1, <3>1, <3>2
    <2> QED BY <1>5, <2>2, <2>3 DEF PlacesOK
  <1>6. CASE purpose = "explore"
    <2>1. Share(dist[r], 30, Scale) + RandomSpan <= Share(dist[s], 30, Scale)
      BY <1>1, <1>2, <1>6 DEF Better
    <2>2. Duration(s) = 62 * NANO - Share(dist[s], 30, Scale)
      BY <1>6, DurationIs
    <2>3. Duration(r) = 62 * NANO - Share(dist[r], 30, Scale)
      BY <1>6, DurationIs
    <2> QED BY <2>1, <2>2, <2>3, <1>3, <1>4
  <1> QED BY <1>5, <1>6

\* The invariant of the contention holds at first and every step keeps it.
LEMMA ContentionInductive ==
    ASSUME Scaled
    PROVE  /\ ContentionInit => ContentionInv
           /\ ContentionInv /\ [ContentionNext]_contentionVars => ContentionInv'
  <1>1. ContentionInit => ContentionInv
    <2> SUFFICES ASSUME ContentionInit PROVE ContentionInv
      OBVIOUS
    <2>1. PlacesOK
      <3>1. purpose \in {"area", "explore", "data"}
        BY PurposeAssumption DEF ContentionInit
      <3>2. hopC \in Nat /\ hopC # 0 /\ hopC <= 9
        BY PlacesAssumption DEF ContentionInit, Scaled
      <3>3. hopC > 0
        BY <3>2
      <3>4. dist \in [Relay -> Nat]
        BY PlacesAssumption, Zenon DEF ContentionInit
      <3>5. purpose # "data" => \A r \in Relay : dist[r] <= MaxDist(hopC, purpose = "area")
        BY DEF ContentionInit, Scaled
      <3> QED BY <3>1, <3>2, <3>3, <3>4, <3>5 DEF PlacesOK
    <2>2. DueOK
      BY DEF ContentionInit, DueOK, NotSet
    <2> QED BY <2>1, <2>2 DEF ContentionInv, EarliestForwards, ContentionInit
  <1>2. ASSUME ContentionInv, [ContentionNext]_contentionVars PROVE ContentionInv'
    <2>1. UNCHANGED <<purpose, hopC, dist>>
      BY <1>2 DEF ContentionNext, Register, Forward, contentionVars
    <2>2. PlacesOK' /\ \A r \in Relay : Duration(r)' = Duration(r)
      BY <1>2, <2>1 DEF ContentionInv, PlacesOK, Duration
    <2>3. ASSUME NEW r \in Relay, Register(r) PROVE DueOK' /\ EarliestForwards'
      <3>1. PICK delay \in Delays : due' = [due EXCEPT ![r] = Duration(r) + delay]
        BY <2>3, Zenon DEF Register
      <3>2. Duration(r) + delay \in Int
        BY <1>2, DurationNat, DelaysAssumption DEF ContentionInv
      <3>3. DueOK'
        BY <1>2, <2>2, <3>1, <3>2 DEF ContentionInv, DueOK
      <3>4. forwarder = NoOne
        BY <1>2, <2>3 DEF ContentionInv, EarliestForwards, Register
      <3>5. EarliestForwards'
        BY <2>3, <3>4 DEF EarliestForwards, Register
      <3> QED BY <3>3, <3>5
    <2>4. ASSUME NEW r \in Relay, Forward(r) PROVE DueOK' /\ EarliestForwards'
      <3>1. DueOK'
        BY <1>2, <2>2, <2>4 DEF ContentionInv, DueOK, Forward
      <3>2. EarliestForwards'
        BY <2>4 DEF EarliestForwards, Forward
      <3> QED BY <3>1, <3>2
    <2>5. CASE UNCHANGED contentionVars
      BY <1>2, <2>2, <2>5 DEF ContentionInv, DueOK, EarliestForwards, contentionVars
    <2> QED BY <1>2, <2>2, <2>3, <2>4, <2>5 DEF ContentionInv, ContentionNext
  <1> QED BY <1>1, <1>2

\* The best placed relay forwards: an Interest on its way to an area and a Data
\* the closest one, an exploring Interest the farthest one (calcFwdTimer and
\* calcInvertedFwdTimer).  For any relays, distances within reach, hop counts up
\* to 9 and random delays.
THEOREM BestPlaced ==
    ASSUME Scaled
    PROVE  ContentionSpec => []BestPlacedForwards
  <1>1. ContentionInv => BestPlacedForwards
    <2> SUFFICES ASSUME ContentionInv, forwarder # NoOne,
                        NEW s \in Relay, Better(s, forwarder)
                 PROVE  FALSE
      BY DEF BestPlacedForwards
    <2>1. /\ forwarder \in Relay /\ due[s] # NotSet /\ due[forwarder] # NotSet
          /\ due[forwarder] <= due[s]
      BY DEF ContentionInv, EarliestForwards
    <2>2. PICK d \in Delays : due[s] = Duration(s) + d
      BY <2>1 DEF ContentionInv, DueOK
    <2>3. PICK e \in Delays : due[forwarder] = Duration(forwarder) + e
      BY <2>1 DEF ContentionInv, DueOK
    <2>4. /\ d \in Nat /\ e \in Nat /\ d < 40000 /\ e >= 10000
      BY SMT, DelaysAssumption DEF MIN_DELAY, MAX_DELAY, DELAY_IN_NANOS
    <2>5. Duration(s) \in Nat /\ Duration(forwarder) \in Nat
      BY <2>1, DurationNat DEF ContentionInv
    <2>6. Duration(s) + 30000 <= Duration(forwarder)
      BY SMT, <2>1, BetterWaitsLess DEF ContentionInv, RandomSpan
    <2> QED BY <2>1, <2>2, <2>3, <2>4, <2>5, <2>6
  <1> QED BY <1>1, ContentionInductive, PTL DEF ContentionSpec
-----------------------------------------------------------------------------
(* Sizes *)

\* What the assumptions on sizes and on the MTU say of one message.
LEMMA SizeFacts ==
    ASSUME NEW m \in Msg
    PROVE  /\ Size[m] \in Nat /\ Size[m] > 0
           /\ HeaderSize[m] \in Nat /\ HeaderSize[m] > 0
           /\ mtu \in Nat /\ mtu > 0 /\ MTU = mtu + 12
    BY SizeAssumption, MtuAssumption DEF mtu, CONGESTION_MARK_SIZE

\* A TLV block adds two to ten octets to its value.
LEMMA TlvBounds ==
    ASSUME NEW n \in Nat
    PROVE  /\ Tlv(n) \in Nat
           /\ Tlv(n) >= n + 2
           /\ Tlv(n) <= n + 10
    BY DEF Tlv, VarNumber

\* Quotient and remainder, as linear facts.
LEMMA DivFacts ==
    ASSUME NEW a \in Nat, NEW b \in Nat, b > 0
    PROVE  /\ a \div b \in Nat
           /\ a % b \in Nat /\ a % b < b
           /\ a % b = a - b * (a \div b)
<1>1. a \div b \in Nat
  OBVIOUS
<1>2. a % b \in Nat /\ a % b < b
  OBVIOUS
<1>3. a % b = a - b * (a \div b)
  OBVIOUS
<1> QED
  BY <1>1, <1>2, <1>3

\* When a packet is cut, the first fragment and the others have room for at
\* least one octet (the check "MTU too small for first fragment").
LEMMA PayloadFacts ==
    ASSUME NEW m \in Msg, ~TooSmallMtu(m)
    PROVE  /\ PayloadSize \in Nat /\ PayloadSize > HeaderSize[m]
           /\ PayloadSize + MAX_FRAG_OVERHEAD = mtu
           /\ FirstPayload(m) \in Nat /\ FirstPayload(m) > 0
           /\ FirstPayload(m) + HeaderSize[m] + MAX_FRAG_OVERHEAD <= mtu
           /\ RestSize(m) \in Nat /\ RestSize(m) + FirstPayload(m) = Size[m]
    BY SizeFacts DEF TooSmallMtu, PayloadSize, FirstPayload, Min2, RestSize,
                     MAX_FRAG_OVERHEAD

\* The number of pieces after the first: enough for the rest of the packet and
\* no piece is empty.
LEMMA RestPieces ==
    ASSUME NEW m \in Msg, ~TooSmallMtu(m), ~FitsInOne(m)
    PROVE  /\ FragCount[m] \in Nat /\ FragCount[m] > 1
           /\ (FragCount[m] - 2) * PayloadSize < RestSize(m)
           /\ RestSize(m) <= (FragCount[m] - 1) * PayloadSize
<1> DEFINE q == RestSize(m) \div PayloadSize
           t == RestSize(m) % PayloadSize
           p == PayloadSize
<1>1. /\ p \in Nat /\ p > 0
      /\ RestSize(m) \in Nat
  BY PayloadFacts, SizeFacts
<1>2. /\ q \in Nat
      /\ t \in Nat /\ t < p
      /\ t = RestSize(m) - p * q
  BY <1>1, DivFacts
<1>3. FragCount[m] = 1 + q + (IF t # 0 THEN 1 ELSE 0)
  BY DEF FragCount
<1>4. RestSize(m) > 0
  <2> SUFFICES ASSUME RestSize(m) = 0
               PROVE  FALSE
    BY <1>1
  <2>1. Size[m] + HeaderSize[m] + 50 <= mtu
    BY PayloadFacts, SizeFacts DEF MAX_FRAG_OVERHEAD
  <2>2. PlainSize(m) <= Size[m] + HeaderSize[m] + 20
    BY SizeFacts, TlvBounds DEF PlainSize
  <2>3. PlainSize(m) \in Nat
    BY SizeFacts, TlvBounds DEF PlainSize
  <2> QED
    BY <2>1, <2>2, <2>3, SizeFacts DEF FitsInOne, MAX_SINGLE_FRAG_OVERHEAD
<1> HIDE DEF q, t, p
<1>5. CASE t = 0
  <2>1. q > 0
    BY <1>1, <1>2, <1>4, <1>5
  <2>2. FragCount[m] = q + 1
    BY <1>2, <1>3, <1>5
  <2>3. (q - 1) * p = RestSize(m) - p /\ q * p = RestSize(m)
    BY <1>1, <1>2, <1>5
  <2> QED
    BY <1>1, <1>2, <2>1, <2>2, <2>3 DEF p
<1>6. CASE t # 0
  <2>1. FragCount[m] = q + 2
    BY <1>2, <1>3, <1>6
  <2>2. q * p = RestSize(m) - t /\ (q + 1) * p = RestSize(m) - t + p
    BY <1>1, <1>2
  <2> QED
    BY <1>1, <1>2, <1>6, <2>1, <2>2 DEF p
<1> QED
  BY <1>5, <1>6

\* BOOST_ASSERTs of sendValPacket (val-link-service.cpp:131-132): the fragmenter
\* returns a single fragment only on its fast path, without FragIndex.
THEOREM SingleIsNotFragmented ==
    ASSUME NEW m \in Msg, Fragmentable(m)
    PROVE  FragCount[m] = 1 <=> FitsInOne(m)
<1>1. FitsInOne(m) => FragCount[m] = 1
  BY DEF FragCount
<1>2. ~FitsInOne(m) => FragCount[m] # 1
  BY RestPieces DEF Fragmentable
<1> QED
  BY <1>1, <1>2

\* Fragment i of a packet that is cut starts where fragment i - 1 ends, is not
\* empty, and fits: the loop of fragmentPacket (lp-fragmenter.cpp:129-139).
LEMMA FragmentBounds ==
    ASSUME NEW m \in Msg, ~TooSmallMtu(m), ~FitsInOne(m),
           NEW i \in Nat, i < FragCount[m]
    PROVE  /\ FragBegin(m, i) \in Nat
           /\ FragEnd(m, i) \in Nat
           /\ FragBegin(m, i) < FragEnd(m, i)
           /\ FragEnd(m, i) <= Size[m]
           /\ i + 1 < FragCount[m] => FragBegin(m, i + 1) = FragEnd(m, i)
           /\ i + 1 = FragCount[m] => FragEnd(m, i) = Size[m]
           /\ FragEnd(m, i) - FragBegin(m, i) + MAX_FRAG_OVERHEAD
                + (IF i = 0 THEN HeaderSize[m] ELSE 0) <= mtu
<1> DEFINE p == PayloadSize
           n == FragCount[m]
           f == FirstPayload(m)
           rest == RestSize(m)
<1>1. /\ p \in Nat /\ p > 0 /\ p + 50 = mtu
      /\ f \in Nat /\ f > 0 /\ f + HeaderSize[m] + 50 <= mtu
      /\ rest \in Nat /\ rest + f = Size[m]
      /\ Size[m] \in Nat /\ HeaderSize[m] \in Nat
  BY PayloadFacts, SizeFacts DEF MAX_FRAG_OVERHEAD
<1>2. /\ n \in Nat /\ n > 1
      /\ (n - 2) * p < rest
      /\ rest <= (n - 1) * p
  BY RestPieces
<1> HIDE DEF p, n, f, rest
<1>3. CASE i = 0
  <2>1. FragBegin(m, i) = 0 /\ FragEnd(m, i) = f
    BY <1>3 DEF FragBegin, FragEnd, f
  <2>2. FragBegin(m, i + 1) = f
    <3>1. FragBegin(m, i + 1) = f + (i + 1 - 1) * p
      BY <1>3 DEF FragBegin, f, p
    <3>2. (i + 1 - 1) * p = 0
      BY <1>1, <1>3
    <3> QED
      BY <3>1, <3>2, <1>1
  <2> QED
    BY <1>1, <1>2, <1>3, <2>1, <2>2 DEF MAX_FRAG_OVERHEAD, n
<1>4. CASE i # 0
  <2> DEFINE k == i - 1
  <2>1. k \in Nat /\ i = k + 1
    BY <1>4
  <2>2. k * p \in Nat /\ (k + 1) * p = k * p + p
    BY <1>1, <2>1
  <2>3. /\ FragBegin(m, i) = f + k * p
        /\ FragEnd(m, i) = Min2(Size[m], f + k * p + p)
    BY <1>4 DEF FragBegin, FragEnd, f, p
  <2>4. FragBegin(m, i + 1) = f + (k + 1) * p
    BY <2>1 DEF FragBegin, f, p
  <2>5. k * p < rest
    <3>1. k <= n - 2
      BY <1>2, <2>1 DEF n
    <3>2. k * p <= (n - 2) * p
      BY <1>1, <1>2, <2>1, <3>1
    <3> QED
      BY <1>1, <1>2, <2>2, <3>2
  <2>6. i + 1 < n => (k + 1) * p < rest
    <3> SUFFICES ASSUME i + 1 < n
                 PROVE  (k + 1) * p < rest
      OBVIOUS
    <3>1. k + 1 <= n - 2
      BY <1>2, <2>1
    <3>2. (k + 1) * p <= (n - 2) * p
      BY <1>1, <1>2, <2>1, <3>1
    <3> QED
      BY <1>1, <1>2, <2>2, <3>2
  <2>7. i + 1 = n => rest <= k * p + p
    <3> SUFFICES ASSUME i + 1 = n
                 PROVE  rest <= k * p + p
      OBVIOUS
    <3>1. n - 1 = k + 1
      BY <1>2, <2>1
    <3> QED
      BY <1>2, <2>2, <3>1
  <2> DEFINE kp == k * p
  <2>8. /\ kp \in Nat /\ kp < rest
        /\ FragBegin(m, i) = f + kp
        /\ FragEnd(m, i) = Min2(Size[m], f + kp + p)
        /\ FragBegin(m, i + 1) = f + kp + p
        /\ i + 1 < n => kp + p < rest
        /\ i + 1 = n => rest <= kp + p
    BY <1>1, <2>2, <2>3, <2>4, <2>5, <2>6, <2>7
  <2> HIDE DEF kp
  <2>9. /\ FragBegin(m, i) < FragEnd(m, i)
        /\ FragEnd(m, i) <= Size[m]
        /\ FragBegin(m, i) \in Nat /\ FragEnd(m, i) \in Nat
        /\ FragEnd(m, i) - FragBegin(m, i) <= p
    BY <1>1, <2>8 DEF Min2
  <2>10. /\ i + 1 < n => FragBegin(m, i + 1) = FragEnd(m, i)
         /\ i + 1 = n => FragEnd(m, i) = Size[m]
    BY <1>1, <2>8 DEF Min2
  <2> QED
    BY <1>1, <1>4, <2>9, <2>10 DEF MAX_FRAG_OVERHEAD, n
<1> QED
  BY <1>3, <1>4

\* The fragments of a packet are its octets in order, without gap or overlap,
\* and none is empty: fragIndex = fragCount after the loop of fragmentPacket.
THEOREM FragmentsCoverPacket ==
    ASSUME NEW m \in Msg, Fragmentable(m), ~FitsInOne(m)
    PROVE  /\ FragBegin(m, 0) = 0
           /\ \A i \in 0..(FragCount[m] - 2) : FragEnd(m, i) = FragBegin(m, i + 1)
           /\ FragEnd(m, FragCount[m] - 1) = Size[m]
           /\ \A i \in 0..(FragCount[m] - 1) : FragBegin(m, i) < FragEnd(m, i)
<1>1. ~TooSmallMtu(m)
  BY DEF Fragmentable
<1>2. FragCount[m] \in Nat /\ FragCount[m] > 1
  BY <1>1, RestPieces
<1>3. FragBegin(m, 0) = 0
  BY DEF FragBegin
<1>4. \A i \in 0..(FragCount[m] - 2) : FragEnd(m, i) = FragBegin(m, i + 1)
  BY <1>1, <1>2, FragmentBounds
<1>5. FragEnd(m, FragCount[m] - 1) = Size[m]
  BY <1>1, <1>2, FragmentBounds
<1>6. \A i \in 0..(FragCount[m] - 1) : FragBegin(m, i) < FragEnd(m, i)
  BY <1>1, <1>2, FragmentBounds
<1> QED
  BY <1>3, <1>4, <1>5, <1>6

\* Whatever the MTU, a fragment with its sequence number, its index and count
\* and a congestion mark fits in it (the BOOST_ASSERT at lp-fragmenter.cpp:134
\* and the check in ValLinkService::sendLpPacket).
LEMMA OctetsFit ==
    ASSUME NEW m \in Msg, Fragmentable(m), NEW i \in 0..(FragCount[m] - 1),
           NEW marked \in BOOLEAN
    PROVE  Octets(m, i, marked) <= MTU
<1>1. CASE FitsInOne(m)
  <2>1. FragCount[m] = 1
    BY <1>1, SingleIsNotFragmented
  <2> DEFINE x == HeaderSize[m] + Tlv(Size[m])
             y == IF marked THEN 5 ELSE 0
  <2>2. x \in Nat /\ y \in Nat /\ y <= 5
    BY SizeFacts, TlvBounds
  <2>3. Tlv(x + y) <= x + y + 10 /\ Tlv(x) >= x + 2
    BY <2>2, TlvBounds
  <2>4. Octets(m, i, marked) = Tlv(x + y)
    BY <2>1 DEF Octets
  <2>5. 30 + Tlv(x) <= mtu
    BY <1>1 DEF FitsInOne, PlainSize, MAX_SINGLE_FRAG_OVERHEAD
  <2> HIDE DEF x, y
  <2>6. Tlv(x) \in Nat /\ Tlv(x + y) \in Nat
    BY <2>2, TlvBounds
  <2> QED
    BY <2>2, <2>3, <2>4, <2>5, <2>6, SizeFacts
<1>2. CASE ~FitsInOne(m)
  <2>1. ~TooSmallMtu(m)
    BY <1>2 DEF Fragmentable
  <2>2. FragCount[m] \in Nat /\ FragCount[m] > 1 /\ i \in Nat /\ i < FragCount[m]
    BY <1>2, <2>1, RestPieces
  <2> DEFINE d == FragEnd(m, i) - FragBegin(m, i)
             h == IF i = 0 THEN HeaderSize[m] ELSE 0
             y == IF marked THEN 5 ELSE 0
             z == 10 + Tlv(NonNegative(i)) + Tlv(NonNegative(FragCount[m]))
                    + h + Tlv(d) + y
  <2>3. d \in Nat /\ h \in Nat /\ y \in Nat /\ y <= 5 /\ d + 50 + h <= mtu
    BY <1>2, <2>1, <2>2, FragmentBounds, SizeFacts DEF MAX_FRAG_OVERHEAD
  <2>4. /\ Tlv(NonNegative(i)) \in Nat /\ Tlv(NonNegative(i)) <= 10
        /\ Tlv(NonNegative(FragCount[m])) \in Nat /\ Tlv(NonNegative(FragCount[m])) <= 10
    BY DEF Tlv, VarNumber, NonNegative
  <2>5. Octets(m, i, marked) = Tlv(z)
    BY <2>2 DEF Octets
  <2> HIDE DEF d, h, y
  <2>6. Tlv(d) \in Nat /\ Tlv(d) <= d + 10
    BY <2>3, TlvBounds
  <2>7. z \in Nat /\ z <= d + h + 45
    BY <2>3, <2>4, <2>6
  <2> HIDE DEF z
  <2>8. Tlv(z) \in Nat /\ Tlv(z) <= z + 10
    BY <2>7, TlvBounds
  <2> QED
    BY <2>3, <2>5, <2>7, <2>8, SizeFacts
<1> QED
  BY <1>1, <1>2

\* A message that the fragmenter accepts is cut in at least one and at most nMaxFragments
\* pieces.
LEMMA FragCountFacts ==
    ASSUME NEW m \in Msg, Fragmentable(m)
    PROVE  /\ FragCount[m] \in Nat
           /\ FragCount[m] > 0
           /\ FragCount[m] <= nMaxFragments
<1>1. CASE FitsInOne(m)
  BY <1>1, SingleIsNotFragmented, FragmentsAssumption
<1>2. CASE ~FitsInOne(m)
  BY <1>2, RestPieces DEF Fragmentable
<1> QED
  BY <1>1, <1>2
-----------------------------------------------------------------------------
(* Sequence numbers *)

\* The fragments of a packet have consecutive numbers, so each leads back to
\* the first one, also when the numbers wrap between them.
LEMMA Numbering ==
    ASSUME NEW last \in SeqNo, NEW c \in Nat, c > 0,
           Minus(last, FIRST_LAST_SEQ) + c < SeqMod
    PROVE  /\ \A i \in 0..(c - 1) : /\ Plus(last, i + 1) \in SeqNo
                                   /\ Minus(Plus(last, i + 1), i) = Plus(last, 1)
           /\ Minus(Plus(last, 1), Plus(FIRST_LAST_SEQ, 1)) = Minus(last, FIRST_LAST_SEQ)
           /\ Plus(last, c) \in SeqNo
           /\ Minus(Plus(last, c), FIRST_LAST_SEQ) = Minus(last, FIRST_LAST_SEQ) + c
    BY SeqAssumption DEF SeqNo, Plus, Minus, FIRST_LAST_SEQ
-----------------------------------------------------------------------------
(* Reassembly *)

\* Fragments of one packet, all of them, make that packet, and it parses.
LEMMA BlockOfAll ==
    ASSUME NEW m \in Msg, NEW F,
           FragCount[m] \in Nat, FragCount[m] > 0,
           \A f \in F : f.msg = m /\ f.count = FragCount[m],
           \A i \in 0..(FragCount[m] - 1) : \E f \in F : f.idx = i
    PROVE  Block(F) = Whole[m] /\ Decodes(Whole[m])
<1> DEFINE pick(i) == CHOOSE f \in F : f.idx = i
<1>1. \A i \in 0..(FragCount[m] - 1) : pick(i) \in F
  OBVIOUS
<1>2. \A i \in 0..(FragCount[m] - 1) : pick(i).msg = m /\ pick(i).count = FragCount[m]
  BY <1>1
<1>3. 0 \in 0..(FragCount[m] - 1)
  OBVIOUS
<1>4. Block(F) = [hdr |-> pick(0).msg,
                  body |-> [i \in 0..(pick(0).count - 1) |-> pick(i).msg]]
  BY DEF Block
<1> HIDE DEF pick
<1>5. pick(0).msg = m /\ pick(0).count = FragCount[m]
  BY <1>2, <1>3
<1>6. [i \in 0..(FragCount[m] - 1) |-> pick(i).msg] = [i \in 0..(FragCount[m] - 1) |-> m]
  BY <1>2
<1>7. Whole[m] = [hdr |-> m, body |-> [i \in 0..(FragCount[m] - 1) |-> m]]
  BY DEF Whole
<1>8. Block(F) = Whole[m]
  BY <1>4, <1>5, <1>6, <1>7, Zenon
<1>9. Decodes(Whole[m])
  BY <1>7 DEF Decodes
<1> QED
  BY <1>8, <1>9

\* What receiveFragment completes at a receiver is one packet.
LEMMA CompletedIsWhole ==
    ASSUME LinkInv, NEW r \in Receiver, NEW f \in Live, f.count > 1,
           ~Refused(r, f), Completes(r, f)
    PROVE  /\ Block(Stored(r, f) \cup {f}) = Whole[f.msg]
           /\ Decodes(Whole[f.msg])
<1> DEFINE F == Stored(r, f) \cup {f}
           m == f.msg
<1>1. m \in Msg /\ m \in sent /\ Fragmentable(m) /\ f.count = FragCount[m]
  BY DEF LinkInv, CutFrom, LinkTypeOK
<1>2. FragCount[m] \in Nat /\ FragCount[m] > 0
  BY <1>1, FragCountFacts
<1>3. \A g \in F : g.msg = m /\ g.count = FragCount[m]
  <2> SUFFICES ASSUME NEW g \in Stored(r, f)
               PROVE  g.msg = m /\ g.count = FragCount[m]
    BY <1>1
  <2>1. g \in parts[r] /\ Key(g) = Key(f)
    BY DEF Stored
  <2>2. g \in Live /\ g.count > 1
    BY <2>1 DEF Live, LinkInv
  <2>3. g.msg = m
    BY <2>1, <2>2 DEF LinkInv
  <2>4. g.count = f.count
    BY DEF Refused
  <2> QED
    BY <1>1, <2>3, <2>4
<1>4. \A i \in 0..(FragCount[m] - 1) : \E g \in F : g.idx = i
  BY <1>1 DEF Completes
<1> HIDE DEF F, m
<1>5. Block(F) = Whole[m] /\ Decodes(Whole[m])
  BY <1>1, <1>2, <1>3, <1>4, BlockOfAll
<1> QED
  BY <1>5 DEF F, m

\* A packet that fits in one frame is handed up as it is.
LEMMA SingleIsWhole ==
    ASSUME LinkInv, NEW f \in Live, f.count = 1
    PROVE  Block({f}) = Whole[f.msg] /\ Decodes(Whole[f.msg])
<1>1. f.msg \in Msg /\ FragCount[f.msg] = 1 /\ f.idx \in Nat /\ f.idx < 1
  <2>1. CutFrom(f) /\ f \in Fragment
    BY Zenon DEF LinkInv, LinkTypeOK, Live
  <2> QED
    BY <2>1 DEF CutFrom, LinkInv, LinkTypeOK, Fragment
<1>2. f.idx = 0
  BY <1>1
<1> DEFINE F == {f}
<1>3. \A g \in F : g.msg = f.msg /\ g.count = FragCount[f.msg]
  BY <1>1
<1>4. \A i \in 0..(FragCount[f.msg] - 1) : \E g \in F : g.idx = i
  BY <1>1, <1>2
<1>5. FragCount[f.msg] \in Nat /\ FragCount[f.msg] > 0
  BY <1>1
<1> HIDE DEF F
<1>6. Block(F) = Whole[f.msg] /\ Decodes(Whole[f.msg])
  BY <1>1, <1>3, <1>4, <1>5, BlockOfAll, ZenonT(30)
<1> QED
  BY <1>6 DEF F

-----------------------------------------------------------------------------
(* The inductive invariant *)

\* The invariant of the link holds before the first packet.
LEMMA LinkInvInit == Init => LinkInv
<1> SUFFICES ASSUME Init
             PROVE  LinkInv
  OBVIOUS
<1>1. LinkTypeOK
  <2>1. FIRST_LAST_SEQ \in SeqNo
    BY SeqAssumption DEF SeqNo, FIRST_LAST_SEQ
  <2> QED
    BY <2>1, Zenon DEF Init, LinkTypeOK
<1>2. Live = {}
  BY DEF Init, Live
<1>3. PartialHasTimer
  BY DEF Init, PartialHasTimer
<1> QED
  BY <1>1, <1>2, <1>3, ZenonT(30) DEF LinkInv, Init, NeverOverMtu

\* A step that sends nothing and keeps only live fragments keeps what is known
\* of them.
LEMMA LiveShrinks ==
    ASSUME LinkInv, Live' \subseteq Live, UNCHANGED <<lastSeq, sent>>
    PROVE  /\ \A f \in Live' : CutFrom(f)'
           /\ \A f, g \in Live' :
                f.count > 1 /\ g.count > 1 /\ Key(f) = Key(g) => f.msg = g.msg
    BY DEF LinkInv, CutFrom, Used

\* A fragment on the air or in a reassembler is typed, field by field.
LEMMA LiveTyped ==
    ASSUME LinkTypeOK, NEW f \in Live
    PROVE  /\ f \in Fragment
           /\ f.msg \in Msg /\ f.idx \in Nat /\ f.count \in Nat /\ f.from \in Sender
<1>1. f \in Fragment
  BY Zenon DEF LinkTypeOK, Live
<1> QED
  BY <1>1 DEF Fragment

\* Storing a fragment in its partial packet, or completing the packet, keeps the invariant.
LEMMA StoreKeepsInv ==
    ASSUME LinkInv, NEW r \in Receiver, NEW f, <<r, f>> \in air, f.count > 1,
           Store(r, f), air' \subseteq air,
           UNCHANGED <<lastSeq, overMtu, sent, nSent>>
    PROVE  LinkInv'
<1>1. f \in Live /\ f \in Fragment /\ CutFrom(f)
  BY LiveTyped, SMTT(30) DEF Live, LinkInv
<1>2. Key(f) \in {0} \X SeqNo
  BY <1>1, LiveTyped, SeqAssumption
  DEF Key, remoteEndpoint, Minus, SeqNo, CutFrom, Fragment, LinkInv
<1>3. /\ parts \in [Receiver -> SUBSET Fragment]
      /\ dropTimer \in [Receiver -> SUBSET ({0} \X SeqNo)]
      /\ parts' = [parts EXCEPT ![r] = @ \cup {f}]
      /\ dropTimer' = [dropTimer EXCEPT ![r] = @ \cup {Key(f)}]
      /\ UNCHANGED <<lastSeq, overMtu, sent, nSent, got, lost>>
  BY Zenon DEF LinkInv, LinkTypeOK, Store
<1>4. LinkTypeOK'
  BY <1>1, <1>2, <1>3 DEF LinkInv, LinkTypeOK
<1>5. Live' \subseteq Live
  BY <1>1, <1>3 DEF Live
<1>6. PartialHasTimer'
  BY <1>3, SMTT(30) DEF PartialHasTimer, LinkInv, Key, remoteEndpoint
<1>7. \A q \in Receiver : \A g \in parts'[q] : g.count > 1
  BY <1>3 DEF LinkInv
<1>8. got' \in [Receiver -> SUBSET {Whole[m] : m \in sent'}] /\ NeverOverMtu'
  BY <1>3, SMTT(30) DEF LinkInv, NeverOverMtu
<1> QED
  BY <1>3, <1>4, <1>5, <1>6, <1>7, <1>8, LiveShrinks, Zenon DEF LinkInv

\* A packet handed up whole, and the fragments it was made of erased.
LEMMA HandUpKeepsInv ==
    ASSUME LinkInv, NEW r \in Receiver, NEW f \in Live, NEW k, NEW P,
           P = {g \in parts[r] : Key(g) = k},
           HandUp(r, Whole[f.msg]), Decodes(Whole[f.msg]),
           parts' = [parts EXCEPT ![r] = @ \ P],
           dropTimer' = [dropTimer EXCEPT ![r] = @ \ {k}],
           air' \subseteq air,
           UNCHANGED <<lastSeq, overMtu, sent, nSent>>
    PROVE  LinkInv'
<1>1. f.msg \in sent
  BY Zenon DEF LinkInv, CutFrom
<1>2. /\ parts \in [Receiver -> SUBSET Fragment]
      /\ dropTimer \in [Receiver -> SUBSET ({0} \X SeqNo)]
      /\ got \in [Receiver -> SUBSET {Whole[m] : m \in sent}]
  BY DEF LinkInv, LinkTypeOK
<1>3. got' = [got EXCEPT ![r] = @ \cup {Whole[f.msg]}] /\ lost' = lost
  BY Zenon DEF HandUp
<1>4. LinkTypeOK'
  BY <1>2, <1>3, Zenon DEF LinkInv, LinkTypeOK
<1>5. Live' \subseteq Live
  BY <1>2, SMTT(30) DEF Live
<1>6. PartialHasTimer'
  BY <1>2 DEF PartialHasTimer, LinkInv, Key, remoteEndpoint
<1>7. \A q \in Receiver : \A g \in parts'[q] : g.count > 1
  BY <1>2, Zenon DEF LinkInv
<1>8. got' \in [Receiver -> SUBSET {Whole[m] : m \in sent'}] /\ NeverOverMtu'
  BY <1>1, <1>2, <1>3 DEF LinkInv, NeverOverMtu
<1> QED
  BY <1>4, <1>5, <1>6, <1>7, <1>8, LiveShrinks, Zenon DEF LinkInv

\* Receiving a fragment, duplicated or not, keeps the invariant.
LEMMA ReceiveKeepsInv ==
    ASSUME LinkInv, NEW r \in Receiver, NEW f, NEW dup \in BOOLEAN,
           Receive(r, f, dup)
    PROVE  LinkInv'
<1>1. /\ <<r, f>> \in air /\ air' \subseteq air
      /\ UNCHANGED <<lastSeq, overMtu, sent, nSent>>
      /\ ReceiveFragment(r, f)
  BY DEF Receive
<1>2. f \in Live
  BY <1>1, SMTT(30) DEF Live
<1>3. CASE UNCHANGED <<parts, dropTimer, got, lost>>
  <2>1. Live' \subseteq Live
    BY <1>1, <1>3, Zenon DEF Live
  <2>2. LinkTypeOK'
    BY <1>1, <1>3, Zenon DEF LinkInv, LinkTypeOK
  <2> QED
    BY <1>1, <1>3, <2>1, <2>2, LiveShrinks DEF LinkInv, PartialHasTimer, NeverOverMtu
<1>4. CASE f.count = 1 /\ HandUp(r, Block({f})) /\ UNCHANGED <<parts, dropTimer>>
  <2>1. Block({f}) = Whole[f.msg] /\ Decodes(Whole[f.msg]) /\ f.msg \in sent
    BY <1>2, <1>4, SingleIsWhole, Zenon DEF LinkInv, CutFrom
  <2>2. /\ got' = [got EXCEPT ![r] = @ \cup {Whole[f.msg]}] /\ lost' = lost
        /\ got \in [Receiver -> SUBSET {Whole[m] : m \in sent}]
    BY <1>4, <2>1, Zenon DEF HandUp, LinkInv
  <2>3. Live' \subseteq Live
    BY <1>1, <1>4 DEF Live
  <2>4. LinkTypeOK'
    BY <1>1, <1>4, <2>2 DEF LinkInv, LinkTypeOK
  <2>5. got' \in [Receiver -> SUBSET {Whole[m] : m \in sent'}]
    BY <1>1, <2>1, <2>2, Zenon
  <2> QED
    BY <1>1, <1>4, <2>3, <2>4, <2>5, LiveShrinks, Zenon DEF LinkInv, PartialHasTimer, NeverOverMtu
<1>5. CASE f.count > 1 /\ ~Refused(r, f) /\ Completes(r, f) /\ Reassemble(r, f)
  <2>1. Block(Stored(r, f) \cup {f}) = Whole[f.msg] /\ Decodes(Whole[f.msg])
    BY <1>2, <1>5, CompletedIsWhole
  <2> DEFINE k == Key(f)
             P == Stored(r, f)
  <2>2. /\ HandUp(r, Whole[f.msg])
        /\ parts' = [parts EXCEPT ![r] = @ \ P]
        /\ dropTimer' = [dropTimer EXCEPT ![r] = @ \ {k}]
        /\ P = {g \in parts[r] : Key(g) = k}
    BY <1>5, <2>1, ZenonT(30) DEF Reassemble, Stored
  <2> HIDE DEF k, P
  <2> QED
    BY <1>1, <1>2, <2>1, <2>2, HandUpKeepsInv, ZenonT(30)
<1>6. CASE f.count > 1 /\ Store(r, f)
  BY <1>1, <1>6, StoreKeepsInv, ZenonT(30)
<1> QED
  BY <1>1, <1>3, <1>4, <1>5, <1>6 DEF ReceiveFragment

\* Losing a fragment keeps the invariant.
LEMMA LoseKeepsInv ==
    ASSUME LinkInv, NEW r \in Receiver, NEW f, Lose(r, f)
    PROVE  LinkInv'
<1>1. f \in Live /\ f.msg \in Msg
  BY LiveTyped DEF Lose, Live, LinkInv
<1>2. Live' \subseteq Live
  BY DEF Lose, Live
<1>3. LinkTypeOK'
  BY <1>1, SMTT(30) DEF LinkInv, LinkTypeOK, Lose
<1> QED
  BY <1>2, <1>3, LiveShrinks, ZenonT(30) DEF LinkInv, PartialHasTimer, NeverOverMtu, Lose

\* Dropping a partial packet on a timeout keeps the invariant.
LEMMA TimeoutKeepsInv ==
    ASSUME LinkInv, NEW r \in Receiver, NEW k, Timeout(r, k)
    PROVE  LinkInv'
<1> DEFINE P == {f \in parts[r] : Key(f) = k}
<1>1. /\ parts \in [Receiver -> SUBSET Fragment]
      /\ dropTimer \in [Receiver -> SUBSET ({0} \X SeqNo)]
      /\ parts' = [parts EXCEPT ![r] = @ \ P]
      /\ dropTimer' = [dropTimer EXCEPT ![r] = @ \ {k}]
      /\ lost' = lost \cup {<<r, f.msg>> : f \in P}
      /\ UNCHANGED <<lastSeq, overMtu, air, sent, got, nSent>>
  BY DEF Timeout, LinkInv, LinkTypeOK
<1>2. Live' \subseteq Live
  BY <1>1, SMTT(30) DEF Live
<1>3. \A f \in P : f.msg \in Msg
  BY <1>1, SMTT(30) DEF Fragment
<1>4. LinkTypeOK'
  BY <1>1, <1>3, SMTT(30) DEF LinkInv, LinkTypeOK
<1>5. PartialHasTimer'
  BY <1>1, SMTT(30) DEF PartialHasTimer, LinkInv, Key, remoteEndpoint
<1>6. \A q \in Receiver : \A g \in parts'[q] : g.count > 1
  BY <1>1, Zenon DEF LinkInv
<1> QED
  BY <1>1, <1>2, <1>4, <1>5, <1>6, LiveShrinks, Zenon DEF LinkInv, NeverOverMtu

\* Refusing a message with too many fragments keeps the invariant.
LEMMA ErrorKeepsInv ==
    ASSUME LinkInv, NEW m \in Msg, FragmentationError(m)
    PROVE  LinkInv'
<1>1. Live' = Live
  BY Zenon DEF FragmentationError, Live
<1>2. LinkTypeOK'
  BY SMTT(30) DEF LinkInv, LinkTypeOK, FragmentationError
<1>3. \A f \in Live : CutFrom(f)'
  BY DEF LinkInv, CutFrom, FragmentationError, Used
<1>4. got' \in [Receiver -> SUBSET {Whole[x] : x \in sent'}]
  BY DEF LinkInv, FragmentationError
<1> QED
  BY <1>1, <1>2, <1>3, <1>4 DEF LinkInv, PartialHasTimer, NeverOverMtu, FragmentationError

\* One vehicle in range: what the reassembler's keys need, since the transport
\* does not tell them which neighbour a fragment comes from.
OneSender == \A s, t \in Sender : s = t

\* What sendValPacket puts on the air is cut from its message, under the next sequence number
\* of its sender.
LEMMA NewFragments ==
    ASSUME LinkInv, NEW s \in Sender, NEW m \in Msg, NEW marked \in BOOLEAN,
           SendValPacket(s, m, marked), NEW f \in Fragments(s, m)
    PROVE  /\ f \in Fragment
           /\ CutFrom(f)'
           /\ f.msg = m /\ f.from = s
           /\ f.count > 1 => Ordinal(f) = Used(s)
<1> DEFINE c == FragCount[m]
           last == lastSeq[s]
<1>1. /\ c \in Nat /\ c > 0
      /\ last \in SeqNo
      /\ Used(s) = Minus(last, FIRST_LAST_SEQ)
      /\ Minus(last, FIRST_LAST_SEQ) + c < SeqMod
  BY FragCountFacts, Zenon DEF SendValPacket, LinkInv, LinkTypeOK, Used
<1>2. PICK i \in 0..(c - 1) :
        f = [msg |-> m, idx |-> i, count |-> c,
             seq |-> IF c = 1 THEN Unsequenced ELSE Plus(last, i + 1), from |-> s]
  BY DEF Fragments
<1>3. f.msg = m /\ f.idx = i /\ f.count = c /\ f.from = s
  BY <1>2
<1> HIDE DEF c, last
<1>4. /\ Plus(last, i + 1) \in SeqNo
      /\ Minus(Plus(last, i + 1), i) = Plus(last, 1)
      /\ Minus(Plus(last, 1), Plus(FIRST_LAST_SEQ, 1)) = Minus(last, FIRST_LAST_SEQ)
      /\ Minus(Plus(last, c), FIRST_LAST_SEQ) = Minus(last, FIRST_LAST_SEQ) + c
  BY <1>1, <1>2, Numbering
<1>5. f \in Fragment
  <2>1. f.seq \in SeqNo \cup {Unsequenced}
    BY <1>2, <1>4
  <2>2. i \in Nat
    BY <1>1, <1>2
  <2> QED
    BY <1>1, <1>2, <2>1, <2>2, Zenon DEF Fragment
<1>6. c > 1 => f.seq = Plus(last, i + 1)
  BY <1>1, <1>2, SMTT(30)
<1>7. c > 1 => Ordinal(f) = Used(s)
  BY <1>1, <1>3, <1>4, <1>6 DEF Ordinal
<1>8. m \in sent' /\ Fragmentable(m)
  BY Zenon DEF SendValPacket
<1>9. c > 1 => Used(s)' = Used(s) + c
  <2> SUFFICES ASSUME c > 1
               PROVE  Used(s)' = Used(s) + c
    OBVIOUS
  <2>1. lastSeq' = [lastSeq EXCEPT ![s] = Plus(@, c)]
    BY <1>1, SMTT(30) DEF SendValPacket, c
  <2>2. lastSeq'[s] = Plus(last, c)
    BY <2>1, Zenon DEF LinkInv, LinkTypeOK, last
  <2> QED
    BY <1>1, <1>4, <2>2 DEF Used
<1>10. Minus(last, FIRST_LAST_SEQ) \in Nat
  BY <1>1, SeqAssumption DEF Minus, SeqNo, FIRST_LAST_SEQ
<1>11. c < SeqMod /\ i < c
  BY <1>1, <1>2, <1>10, SeqAssumption
<1>12. c = 1 \/ (f.seq \in SeqNo /\ Ordinal(f) + c <= Used(s)')
  BY <1>1, <1>4, <1>6, <1>7, <1>9, <1>10, SMTT(30)
<1>13. CutFrom(f)'
  BY <1>3, <1>8, <1>11, <1>12, Zenon DEF CutFrom, c, Ordinal
<1> QED
  BY <1>3, <1>5, <1>7, <1>13, Zenon DEF c

\* Numbers only grow, so the packets of earlier fragments keep their place.
LEMMA OldFragments ==
    ASSUME LinkInv, NEW s \in Sender, NEW m \in Msg, NEW marked \in BOOLEAN,
           SendValPacket(s, m, marked), NEW f \in Live
    PROVE  CutFrom(f)'
<1>1. CutFrom(f) /\ f.from \in Sender /\ f.count \in Nat
  BY LiveTyped DEF LinkInv
<1>2. sent \subseteq sent'
  BY DEF SendValPacket
<1>3. Used(f.from)' >= Used(f.from)
  <2> DEFINE c == FragCount[m]
  <2>1. /\ c \in Nat /\ c > 0
        /\ lastSeq \in [Sender -> SeqNo]
        /\ Minus(lastSeq[s], FIRST_LAST_SEQ) + c < SeqMod
    BY FragCountFacts DEF SendValPacket, LinkInv, LinkTypeOK, Used
  <2>2. lastSeq' = IF c = 1 THEN lastSeq ELSE [lastSeq EXCEPT ![s] = Plus(@, c)]
    BY DEF SendValPacket
  <2> HIDE DEF c
  <2>3. Minus(Plus(lastSeq[s], c), FIRST_LAST_SEQ) = Minus(lastSeq[s], FIRST_LAST_SEQ) + c
    BY <2>1, Numbering
  <2>4. \A x \in SeqNo : Minus(x, FIRST_LAST_SEQ) \in Int
    BY SeqAssumption DEF Minus, SeqNo, FIRST_LAST_SEQ
  <2>5. CASE lastSeq'[f.from] = lastSeq[f.from]
    BY <1>1, <2>1, <2>4, <2>5 DEF Used
  <2>6. CASE f.from = s /\ lastSeq'[s] = Plus(lastSeq[s], c)
    BY <1>1, <2>1, <2>3, <2>4, <2>6 DEF Used
  <2> QED
    BY <1>1, <2>1, <2>2, <2>5, <2>6, ZenonT(30)
<1>4. \A x \in SeqNo : Minus(x, FIRST_LAST_SEQ) \in Int
  BY SeqAssumption DEF Minus, SeqNo, FIRST_LAST_SEQ
<1>5. f.count = 1 \/ (f.seq \in SeqNo /\ Ordinal(f) + f.count <= Used(f.from)')
  <2> SUFFICES ASSUME f.count # 1
               PROVE  f.seq \in SeqNo /\ Ordinal(f) + f.count <= Used(f.from)'
    OBVIOUS
  <2>1. f.seq \in SeqNo /\ Ordinal(f) + f.count <= Used(f.from)
    BY <1>1 DEF CutFrom
  <2>2. f.idx \in Nat
    BY LiveTyped DEF LinkInv
  <2>3. Ordinal(f) \in Int
    BY <2>1, <2>2, SeqAssumption DEF Ordinal, Minus, Plus, SeqNo, FIRST_LAST_SEQ
  <2>4. lastSeq' \in [Sender -> SeqNo] /\ lastSeq \in [Sender -> SeqNo]
    <3>1. FragCount[m] \in Nat /\ FragCount[m] > 0
      BY FragCountFacts, ZenonT(30) DEF SendValPacket
    <3>2. lastSeq \in [Sender -> SeqNo] /\ Minus(lastSeq[s], FIRST_LAST_SEQ) + FragCount[m] < SeqMod
      BY ZenonT(30) DEF SendValPacket, LinkInv, LinkTypeOK, Used
    <3>3. Plus(lastSeq[s], FragCount[m]) \in SeqNo
      BY <3>1, <3>2, Numbering
    <3> QED
      BY <3>2, <3>3 DEF SendValPacket
  <2>5. Used(f.from) \in Int /\ Used(f.from)' \in Int
    BY <1>1, <1>4, <2>4, Zenon DEF Used
  <2> QED
    BY <1>1, <1>3, <2>1, <2>3, <2>5
<1> QED
  BY <1>1, <1>2, <1>5 DEF CutFrom, Ordinal

\* Sending a message keeps the invariant.
LEMMA SendKeepsInv ==
    ASSUME OneSender, LinkInv, NEW s \in Sender, NEW m \in Msg,
           NEW marked \in BOOLEAN, SendValPacket(s, m, marked)
    PROVE  LinkInv'
<1> DEFINE N == Fragments(s, m)
<1>1. Fragmentable(m) /\ FragCount[m] \in Nat /\ FragCount[m] > 0
  BY FragCountFacts, Zenon DEF SendValPacket
<1>2. \A f \in N : Octets(m, f.idx, marked) <= MTU
  BY <1>1, OctetsFit, SMTT(30) DEF Fragments
<1>3. /\ air' = air \cup (Receiver \X N)
      /\ overMtu' = overMtu
      /\ lost' = lost
  BY <1>2 DEF SendValPacket, LinkInv, LinkTypeOK
<1>4. /\ sent' = sent \cup {m} /\ nSent' = nSent + 1
      /\ UNCHANGED <<parts, dropTimer, got>>
  BY DEF SendValPacket
<1>5. \A f \in N : /\ f \in Fragment /\ CutFrom(f)'
                   /\ f.msg = m /\ f.from = s
                   /\ f.count > 1 => Ordinal(f) = Used(s)
  BY NewFragments
<1>6. \A f \in Live : CutFrom(f)'
  BY OldFragments
<1>7. Live' \subseteq Live \cup N
  BY <1>3, <1>4, ZenonT(30) DEF Live
<1> HIDE DEF N
<1>8. LinkTypeOK'
  <2>1. lastSeq' \in [Sender -> SeqNo]
    <3>1. lastSeq \in [Sender -> SeqNo] /\ Minus(lastSeq[s], FIRST_LAST_SEQ) + FragCount[m] < SeqMod
      BY DEF SendValPacket, LinkInv, LinkTypeOK, Used
    <3>2. Plus(lastSeq[s], FragCount[m]) \in SeqNo
      BY <1>1, <3>1, Numbering, Zenon
    <3> QED
      BY <3>1, <3>2, Zenon DEF SendValPacket
  <2>2. nSent' \in Nat
    BY <1>4, SMTT(30) DEF LinkInv, LinkTypeOK
  <2>3. air' \subseteq Receiver \X Fragment
    BY <1>3, <1>5 DEF LinkInv, LinkTypeOK
  <2> QED
    BY <1>3, <1>4, <2>1, <2>2, <2>3, Zenon DEF LinkInv, LinkTypeOK
<1>9. ASSUME NEW f \in Live, NEW g \in N, f.count > 1, g.count > 1, Key(f) = Key(g)
      PROVE  FALSE
  <2>1. f.from = s /\ f.count \in Nat /\ CutFrom(f) /\ f.idx \in Nat
    BY LiveTyped, Zenon DEF LinkInv, OneSender
  <2>2. f.seq \in SeqNo /\ Ordinal(f) + f.count <= Used(s)
    BY <1>9, <2>1, SMTT(30) DEF CutFrom
  <2>3. Ordinal(f) = Ordinal(g)
    BY <1>9 DEF Key, remoteEndpoint, Ordinal
  <2>4. Ordinal(g) = Used(s)
    BY <1>5, <1>9
  <2>5. Ordinal(f) \in Int
    BY <2>1, <2>2, SeqAssumption, SMTT(30) DEF Ordinal, Minus, Plus, SeqNo, FIRST_LAST_SEQ
  <2> QED
    BY <1>9, <2>1, <2>2, <2>3, <2>4, <2>5, SMTT(30)
<1>10. \A f, g \in Live' :
         f.count > 1 /\ g.count > 1 /\ Key(f) = Key(g) => f.msg = g.msg
  BY <1>5, <1>7, <1>9, Zenon DEF LinkInv
<1>11. got' \in [Receiver -> SUBSET {Whole[x] : x \in sent'}]
  BY <1>4, ZenonT(30) DEF LinkInv
<1> QED
  BY <1>3, <1>4, <1>5, <1>6, <1>7, <1>8, <1>10, <1>11, Zenon
  DEF LinkInv, PartialHasTimer, NeverOverMtu

\* Every step of the link keeps the invariant.
LEMMA LinkInvStep ==
    ASSUME OneSender, LinkInv, [Next]_vars
    PROVE  LinkInv'
<1>1. ASSUME NEW s \in Sender, NEW m \in Msg, NEW marked \in BOOLEAN,
             SendValPacket(s, m, marked)
      PROVE  LinkInv'
  BY <1>1, SendKeepsInv
<1>2. ASSUME NEW m \in Msg, FragmentationError(m)
      PROVE  LinkInv'
  BY <1>2, ErrorKeepsInv
<1>3. ASSUME NEW x \in air, NEW dup \in BOOLEAN, Receive(x[1], x[2], dup)
      PROVE  LinkInv'
  <2>1. x[1] \in Receiver
    BY DEF LinkInv, LinkTypeOK
  <2> QED
    BY <1>3, <2>1, ReceiveKeepsInv
<1>4. ASSUME NEW x \in air, Lose(x[1], x[2])
      PROVE  LinkInv'
  <2>1. x[1] \in Receiver
    BY DEF LinkInv, LinkTypeOK
  <2> QED
    BY <1>4, <2>1, LoseKeepsInv
<1>5. ASSUME NEW r \in Receiver, NEW k \in dropTimer[r], Timeout(r, k)
      PROVE  LinkInv'
  BY <1>5, TimeoutKeepsInv, Zenon
<1>6. CASE UNCHANGED vars
  <2>1. Live' = Live /\ LinkTypeOK'
    BY <1>6 DEF vars, Live, LinkInv, LinkTypeOK
  <2> QED
    BY <1>6, <2>1, LiveShrinks, ZenonT(30) DEF vars, LinkInv, PartialHasTimer, NeverOverMtu
<1> QED
  BY <1>1, <1>2, <1>3, <1>4, <1>5, <1>6, ZenonT(30) DEF Next

\* The invariant of the link holds in every reachable state.
LEMMA LinkInvariant ==
    ASSUME OneSender
    PROVE  Spec => []LinkInv
<1>1. LinkInv /\ [Next]_vars => LinkInv'
  BY LinkInvStep
<1> QED
  BY LinkInvInit, <1>1, PTL DEF Spec
-----------------------------------------------------------------------------
(* The theorems *)

\* With one vehicle in range the link keeps its types; sequence numbers wrap
\* within lp::Sequence.
THEOREM LinkTypeCorrect ==
    ASSUME OneSender
    PROVE  Spec => []LinkTypeOK
<1>1. LinkInv => LinkTypeOK
  BY DEF LinkInv
<1> QED
  BY LinkInvariant, <1>1, PTL

\* With one vehicle in range, whatever is lost, repeated, reordered or timed
\* out, LpReassembler hands up packets that were sent and nothing else.
THEOREM LinkImplementsChannel ==
    ASSUME OneSender
    PROVE  Spec => ImplementsChannel
<1> DEFINE wire == {Whole[m] : m \in sent}
<1>1. Init => Channel!Init
  BY Zenon DEF Init, Channel!Init
<1>2. ASSUME LinkInv, LinkInv', [Next]_vars
      PROVE  [Channel!Next]_<<wire, got>>
  <2>1. ASSUME NEW m \in Msg, sent' = sent \cup {m}, UNCHANGED got
        PROVE  Channel!Next
    <3>1. wire' = wire \cup {Whole[m]} /\ Whole[m] \in Blocks
      BY <2>1 DEF Blocks
    <3>2. Channel!Send(Whole[m])
      BY <2>1, <3>1 DEF Channel!Send
    <3> QED
      BY <3>1, <3>2 DEF Channel!Next
  <2>2. ASSUME NEW r \in Receiver, NEW f \in Live, HandUp(r, Whole[f.msg]),
               Decodes(Whole[f.msg]), UNCHANGED sent
        PROVE  Channel!Next
    <3>1. f.msg \in sent /\ f.msg \in Msg
      BY <1>2, LiveTyped DEF LinkInv, CutFrom
    <3>2. got' = [got EXCEPT ![r] = @ \cup {Whole[f.msg]}]
      BY <2>2, Zenon DEF HandUp
    <3>3. Whole[f.msg] \in wire /\ Whole[f.msg] \in Blocks /\ wire' = wire
      BY <2>2, <3>1 DEF Blocks
    <3>4. Channel!HandUp(r, Whole[f.msg])
      BY <3>2, <3>3 DEF Channel!HandUp
    <3> QED
      BY <3>3, <3>4 DEF Channel!Next
  <2>3. ASSUME NEW x \in air, NEW dup \in BOOLEAN, Receive(x[1], x[2], dup)
        PROVE  Channel!Next \/ UNCHANGED <<sent, got>>
    <3> DEFINE r == x[1]
               f == x[2]
    <3>1. /\ r \in Receiver /\ f \in Live
          /\ UNCHANGED sent /\ ReceiveFragment(r, f)
      BY <1>2, <2>3, Zenon DEF LinkInv, LinkTypeOK, Live, Receive
    <3> HIDE DEF r, f
    <3>2. CASE f.count = 1 /\ HandUp(r, Block({f}))
      BY <1>2, <2>2, <3>1, <3>2, SingleIsWhole, Zenon
    <3>3. CASE f.count > 1 /\ ~Refused(r, f) /\ Completes(r, f) /\ Reassemble(r, f)
      BY <1>2, <2>2, <3>1, <3>3, CompletedIsWhole, Zenon DEF Reassemble
    <3>4. CASE UNCHANGED got
      BY <3>1, <3>4
    <3> QED
      BY <3>1, <3>2, <3>3, <3>4, Zenon DEF ReceiveFragment, Store
  <2>4. CASE \E x \in air, dup \in BOOLEAN : Receive(x[1], x[2], dup)
    BY <2>3, <2>4, Zenon
  <2>5. CASE \E s \in Sender, m \in Msg, marked \in BOOLEAN : SendValPacket(s, m, marked)
    BY <2>1, <2>5, ZenonT(30) DEF SendValPacket
  <2>6. CASE \E m \in Msg : FragmentationError(m)
    BY <2>1, <2>6, ZenonT(30) DEF FragmentationError
  <2>7. CASE \/ \E x \in air : Lose(x[1], x[2])
             \/ \E r \in Receiver : \E k \in dropTimer[r] : Timeout(r, k)
             \/ UNCHANGED vars
    BY <2>7, Zenon DEF Lose, Timeout, vars
  <2> QED
    BY <1>2, <2>4, <2>5, <2>6, <2>7, Zenon DEF Next
<1> QED
  BY LinkInvariant, <1>1, <1>2, PTL DEF Spec, ImplementsChannel, Channel!Spec

\* For any number of vehicles, MTU and packet sizes no fragment is refused as
\* over the MTU.
THEOREM WithinMtu == Spec => []NeverOverMtu
<1>1. Init => NeverOverMtu
  BY DEF Init, NeverOverMtu
<1>2. ASSUME NeverOverMtu, [Next]_vars
      PROVE  NeverOverMtu'
  <2>1. ASSUME NEW s \in Sender, NEW m \in Msg, NEW marked \in BOOLEAN,
               SendValPacket(s, m, marked)
        PROVE  NeverOverMtu'
    <3>1. \A f \in Fragments(s, m) : Octets(m, f.idx, marked) <= MTU
      <4>1. Fragmentable(m)
        BY <2>1 DEF SendValPacket
      <4>2. ASSUME NEW f \in Fragments(s, m)
            PROVE  f.idx \in 0..(FragCount[m] - 1)
        <5>1. PICK i \in 0..(FragCount[m] - 1) :
                f = [msg |-> m, idx |-> i, count |-> FragCount[m],
                     seq |-> IF FragCount[m] = 1 THEN Unsequenced
                             ELSE Plus(lastSeq[s], i + 1),
                     from |-> s]
          BY Zenon DEF Fragments
        <5>2. f.idx = i
          BY <5>1
        <5> QED
          BY <5>2
      <4> QED
        BY <4>1, <4>2, OctetsFit
    <3>2. {f \in Fragments(s, m) : Octets(m, f.idx, marked) <= MTU} = Fragments(s, m)
      BY <3>1
    <3> QED
      BY <1>2, <2>1, <3>2, Zenon DEF SendValPacket, NeverOverMtu
  <2> QED
    BY <1>2, <2>1, Zenon
    DEF Next, vars, NeverOverMtu, FragmentationError, Receive, Lose, Timeout
<1> QED
  BY <1>1, <1>2, PTL DEF Spec

\* For any number of vehicles a partial packet has its drop timer and a drop
\* timer its partial packet.
THEOREM TimersOfPartials == Spec => []PartialHasTimer
<1> DEFINE Typed == /\ parts = [r \in Receiver |-> parts[r]]
                    /\ dropTimer = [r \in Receiver |-> dropTimer[r]]
                    /\ \A x \in air : x[1] \in Receiver
           I == Typed /\ PartialHasTimer
<1>1. Init => I
  BY DEF Init, PartialHasTimer
<1>2. ASSUME I, [Next]_vars
      PROVE  I'
  <2>1. ASSUME NEW r \in Receiver, NEW f, Store(r, f), air' \subseteq air
        PROVE  I'
    <3>1. /\ parts' = [parts EXCEPT ![r] = @ \cup {f}]
          /\ dropTimer' = [dropTimer EXCEPT ![r] = @ \cup {Key(f)}]
      BY <2>1 DEF Store
    <3>2. \A q \in Receiver : dropTimer'[q] = {Key(g) : g \in parts'[q]}
      BY <1>2, <3>1 DEF PartialHasTimer, Key, remoteEndpoint
    <3> QED
      BY <1>2, <2>1, <3>1, <3>2, Zenon DEF PartialHasTimer
  <2>2. ASSUME NEW r \in Receiver, NEW k, air' \subseteq air,
               parts' = [parts EXCEPT ![r] = @ \ {g \in parts[r] : Key(g) = k}],
               dropTimer' = [dropTimer EXCEPT ![r] = @ \ {k}]
        PROVE  I'
    BY <1>2, <2>2, Zenon DEF PartialHasTimer, Key, remoteEndpoint
  <2>3. ASSUME UNCHANGED <<parts, dropTimer>>, \A x \in air' : x[1] \in Receiver
        PROVE  I'
    BY <1>2, <2>3 DEF PartialHasTimer
  <2>4. ASSUME NEW x \in air, NEW dup \in BOOLEAN, Receive(x[1], x[2], dup)
        PROVE  I'
    <3>1. x[1] \in Receiver /\ air' \subseteq air /\ ReceiveFragment(x[1], x[2])
      BY <1>2, <2>4 DEF Receive
    <3>2. CASE Reassemble(x[1], x[2])
      BY <2>2, <3>1, <3>2, Zenon DEF Reassemble, Stored
    <3>3. CASE Store(x[1], x[2])
      BY <2>1, <3>1, <3>3
    <3>4. CASE UNCHANGED <<parts, dropTimer>>
      BY <1>2, <2>3, <3>1, <3>4
    <3> QED
      BY <3>1, <3>2, <3>3, <3>4 DEF ReceiveFragment
  <2>5. ASSUME NEW r \in Receiver, NEW k \in dropTimer[r], Timeout(r, k)
        PROVE  I'
    BY <2>2, <2>5, Zenon DEF Timeout
  <2>6. CASE \/ \E s \in Sender, m \in Msg, marked \in BOOLEAN : SendValPacket(s, m, marked)
             \/ \E m \in Msg : FragmentationError(m)
             \/ \E x \in air : Lose(x[1], x[2])
             \/ UNCHANGED vars
    <3>1. UNCHANGED <<parts, dropTimer>> /\ \A x \in air' : x[1] \in Receiver
      BY <1>2, <2>6, Zenon DEF SendValPacket, FragmentationError, Lose, vars
    <3> QED
      BY <2>3, <3>1
  <2> QED
    BY <1>2, <2>4, <2>5, <2>6 DEF Next
<1> QED
  BY <1>1, <1>2, PTL DEF Spec
=============================================================================
