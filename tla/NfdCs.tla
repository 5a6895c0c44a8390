------------------------------- MODULE NfdCs -------------------------------
(***************************************************************************)
(* NFD's Content Store (NFD/daemon/table/cs.cpp) with its two replacement  *)
(* policies, lru (the default) and priority_fifo.                          *)
(*                                                                         *)
(* An entry is the full name of a Data packet: a sequence of components    *)
(* (numbers, in canonical order) of which the last is the implicit digest. *)
(* Time passes in two ways: the timer of an entry fires when its           *)
(* freshness period ends, and after that instant the entry is stale.       *)
(***************************************************************************)
EXTENDS Integers, Sequences, FiniteSets, Functions

CONSTANTS
    Universe,  \* the full names, in canonical order
    Interest,  \* lookups: [name, rightmost, canBePrefix, mustBeFresh]
    MaxLimit   \* bound: limits that management sets

Entry == Range(Universe)
Prefix == {i.name : i \in Interest}

VARIABLES
    table,        \* m_table
    unsolicited,  \* entries with m_isUnsolicited
    stale,        \* entries whose m_staleTime has passed
    policy,       \* "lru" or "priority_fifo"
    queues,       \* the queues of the policy (lru uses one)
    events,       \* entries whose moveStale event is scheduled
    limit,
    shouldAdmit,
    shouldServe

vars == <<table, unsolicited, stale, policy, queues, events, limit, shouldAdmit, shouldServe>>

QueueTypes == {"unsolicited", "stale", "fifo", "lru"}
NoQueues == [t \in QueueTypes |-> <<>>]

Init ==
    /\ table = {} /\ unsolicited = {} /\ stale = {}
    /\ policy = "lru" /\ queues = NoQueues /\ events = {}
    /\ limit = MaxLimit
    /\ shouldAdmit = TRUE /\ shouldServe = TRUE

\* The elements of the sequence s that are in S, in their order
Only(s, S) ==
    LET kept[k \in 0..Len(s)] ==
            IF k = 0 THEN <<>>
            ELSE IF s[k] \in S THEN Append(kept[k - 1], s[k]) ELSE kept[k - 1]
    IN kept[Len(s)]

\* Queues q when the entries of S have left
Without(q, S) == [t \in QueueTypes |-> Only(q[t], Entry \ S)]
-----------------------------------------------------------------------------
(* The policies *)

\* Mutant: fresh Data goes before stale Data
FifoBeforeStale(q) == q["unsolicited"] \o q["fifo"] \o q["stale"] \o q["lru"]

\* The order in which evictOne (or the lru queue) gives up entries, of queues q
EvictionOrder(q) == q["unsolicited"] \o q["stale"] \o q["fifo"] \o q["lru"]

\* Mutant: room is made only when the limit is exceeded by more than one
OneTooMany(q, size, max) ==
    Range(SubSeq(EvictionOrder(q), 1, IF size > max THEN size - max - 1 ELSE 0))

\* evictEntries: what has to go until the size is within the limit
Evicted(q, size, max) ==
    Range(SubSeq(EvictionOrder(q), 1, IF size > max THEN size - max ELSE 0))

\* Entry::updateStaleTime: the entry is fresh again, also with a freshness period
\* of zero, as isStale compares with <
UpdateStaleTime(e) == stale \ {e}

\* The queue of attachQueue and insertToQueue, for an entry just (re)inserted
QueueFor(e, isUnsolicited) ==
    CASE policy = "lru" -> "lru"
      [] policy # "lru" /\ isUnsolicited -> "unsolicited"
      [] policy # "lru" /\ ~isUnsolicited /\ e \in UpdateStaleTime(e) -> "stale"
      [] OTHER -> "fifo"

\* Mutant: a refreshed entry stays where it is
RefreshedInPlace(e, isUnsolicited) ==
    IF e \in table THEN queues
    ELSE [queues EXCEPT ![QueueFor(e, isUnsolicited)] = Append(@, e)]

\* attachQueue, after detachQueue if the entry was there; or insertToQueue
Attached(e, isUnsolicited) ==
    [Without(queues, {e}) EXCEPT ![QueueFor(e, isUnsolicited)] = Append(@, e)]

\* Mutant: the timer of an entry that leaves its queue goes on
TimersKept(gone) == events

\* detachQueue cancels the timers of the entries that leave
Cancelled(gone) == events \ gone
-----------------------------------------------------------------------------
(* Operations of Cs *)

\* Cs::insert, with afterRefresh or afterInsert
Insert(e, isUnsolicited) ==
    LET refreshed == e \in table
        u == IF refreshed THEN e \in unsolicited /\ isUnsolicited ELSE isUnsolicited
        q == Attached(e, u)
        gone == IF refreshed THEN {} ELSE Evicted(q, Cardinality(table) + 1, limit)
        timed == IF QueueFor(e, u) = "fifo" THEN Cancelled({e}) \cup {e} ELSE Cancelled({e})
    IN /\ shouldAdmit /\ limit # 0
       /\ table' = (table \cup {e}) \ gone
       /\ unsolicited' = (IF u THEN unsolicited \cup {e} ELSE unsolicited \ {e}) \ gone
       /\ stale' = UpdateStaleTime(e) \ gone
       /\ queues' = Without(q, gone)
       /\ events' = timed \ gone
       /\ UNCHANGED <<policy, limit, shouldAdmit, shouldServe>>

\* Mutant: the flag of an entry outlives it
FlagKept(gone) ==
    /\ table' = table \ gone
    /\ unsolicited' = unsolicited
    /\ stale' = stale \ gone
    /\ queues' = Without(queues, gone)
    /\ events' = Cancelled(gone)

\* What erase, setLimit and the policies take out of the store
TakeOut(gone) ==
    /\ table' = table \ gone
    /\ unsolicited' = unsolicited \ gone
    /\ stale' = stale \ gone
    /\ queues' = Without(queues, gone)
    /\ events' = Cancelled(gone)

\* Canonical order of names
Less(a, b) ==
    \E k \in DOMAIN b :
        /\ k <= Len(a) + 1
        /\ \A j \in 1..(k - 1) : a[j] = b[j]
        /\ k = Len(a) + 1 \/ a[k] < b[k]

\* Full names, listed in canonical order
ASSUME UniverseAssumption ==
    /\ Universe \in Seq(Seq(Nat) \ {<<>>})
    /\ \A j, k \in DOMAIN Universe : j < k => Less(Universe[j], Universe[k])
ASSUME InterestAssumption == \A i \in Interest : i.name \in Seq(Nat)
ASSUME LimitAssumption == MaxLimit \in Nat

\* An implicit digest comes before every other component (its TLV type, 1, is the
\* smallest), and the names of Interests end in no digest.
ASSUME DigestAssumption ==
    \A e \in Entry :
        /\ \A x \in Entry : \A k \in 1..(Len(x) - 1) : e[Len(e)] < x[k]
        /\ \A i \in Interest : \A k \in DOMAIN i.name : e[Len(e)] < i.name[k]

\* The table as the iterators see it: 1 is begin(), Len + 1 is end()
Sorted == Only(Universe, table)

\* m_table.lower_bound
LowerBound(t, name) == 1 + Cardinality({k \in DOMAIN t : Less(t[k], name)})
Successor(name) == [name EXCEPT ![Len(name)] = @ + 1]

FirstOf(t, prefix) == LowerBound(t, prefix)
EndOf(t, prefix) ==
    IF prefix = <<>> THEN Len(t) + 1 ELSE LowerBound(t, Successor(prefix))

\* Cs::erase of at most n entries
Erase(prefix, n) ==
    LET t == Sorted
        first == FirstOf(t, prefix)
        last == EndOf(t, prefix)
    IN /\ TakeOut({t[k] : k \in {j \in DOMAIN t : first <= j /\ j < last /\ j < first + n}})
       /\ UNCHANGED <<policy, limit, shouldAdmit, shouldServe>>

\* Policy::setLimit
SetLimit(max) ==
    /\ limit' = max
    /\ TakeOut(Evicted(queues, Cardinality(table), max))
    /\ UNCHANGED <<policy, shouldAdmit, shouldServe>>

\* Cs::setPolicy, with its precondition
SetPolicy(p) ==
    /\ table = {}
    /\ policy' = p
    /\ queues' = NoQueues /\ events' = {}
    /\ UNCHANGED <<table, unsolicited, stale, limit, shouldAdmit, shouldServe>>

EnableAdmit(b) ==
    /\ shouldAdmit' = b
    /\ UNCHANGED <<table, unsolicited, stale, policy, queues, events, limit, shouldServe>>

EnableServe(b) ==
    /\ shouldServe' = b
    /\ UNCHANGED <<table, unsolicited, stale, policy, queues, events, limit, shouldAdmit>>
-----------------------------------------------------------------------------
(* Lookup.  The table is the sorted sequence t; an index is an iterator. *)

\* Entry::canSatisfy and Interest::matchesData, without further selectors
CanSatisfy(e, i) ==
    /\ Len(i.name) < Len(e) /\ SubSeq(e, 1, Len(i.name)) = i.name
    /\ ~i.canBePrefix => Len(e) <= Len(i.name) + 1
    /\ i.mustBeFresh => e \notin stale

Matches(t, i, left, right) == {k \in left..(right - 1) : CanSatisfy(t[k], i)}

FindLeftmost(t, i, left, right) ==
    LET m == Matches(t, i, left, right)
    IN IF m = {} THEN right ELSE CHOOSE k \in m : \A j \in m : k <= j

FindRightmostAmongExact(t, i, left, right) ==
    LET m == Matches(t, i, left, right)
    IN IF m = {} THEN right ELSE CHOOSE k \in m : \A j \in m : j <= k

\* Mutant: the rightmost match of all
RightmostOfAll(t, i, first, last) == FindRightmostAmongExact(t, i, first, last)

\* One turn of the loop for each name one component longer than the Interest's
FindRightmost(t, i, first, last) ==
    LET loop[right \in first..last] ==
            IF right = first THEN last
            ELSE LET prev == t[right - 1]
                     left == LowerBound(t, SubSeq(prev, 1, Len(i.name) + 1))
                     exact == FindRightmostAmongExact(t, i, first, right)
                     match == FindLeftmost(t, i, left, right)
                 IN CASE Len(prev) - 1 = Len(i.name) -> IF exact = right THEN last ELSE exact
                      [] Len(prev) - 1 # Len(i.name) /\ match # right -> match
                      [] OTHER -> loop[left]
    IN loop[last]

\* Cs::find: the entry found, as a set of at most one
Found(i) ==
    LET t == Sorted
        first == FirstOf(t, i.name)
        last == EndOf(t, i.name)
        match == IF i.rightmost THEN FindRightmost(t, i, first, last)
                 ELSE FindLeftmost(t, i, first, last)
    IN IF match = last THEN {} ELSE {t[match]}

\* Cs::find of an Interest that is hit, with beforeUse
Find(i) ==
    /\ shouldServe /\ limit # 0
    /\ \E e \in Found(i) :
         queues' = IF policy = "lru" THEN [Without(queues, {e}) EXCEPT !["lru"] = Append(@, e)]
                   ELSE queues
    /\ UNCHANGED <<table, unsolicited, stale, policy, events, limit, shouldAdmit, shouldServe>>
-----------------------------------------------------------------------------
(* Time *)

\* The event that attachQueue scheduled
MoveToStaleQueue(e) ==
    /\ e \in events
    /\ events' = events \ {e}
    /\ queues' = [Without(queues, {e}) EXCEPT !["stale"] = Append(@, e)]
    /\ UNCHANGED <<table, unsolicited, stale, policy, limit, shouldAdmit, shouldServe>>

\* The freshness period of an entry is over; an event that is due then has run
BecomeStale(e) ==
    /\ e \in table \ (stale \cup events)
    /\ stale' = stale \cup {e}
    /\ UNCHANGED <<table, unsolicited, policy, queues, events, limit, shouldAdmit, shouldServe>>

Next ==
    \/ \E e \in Entry, u \in BOOLEAN : Insert(e, u)
    \/ \E p \in Prefix, n \in {1, Cardinality(Entry)} : Erase(p, n)
    \/ \E max \in 0..MaxLimit : SetLimit(max)
    \/ \E p \in {"lru", "priority_fifo"} : SetPolicy(p)
    \/ \E b \in BOOLEAN : EnableAdmit(b) \/ EnableServe(b)
    \/ \E i \in Interest : Find(i)
    \/ \E e \in Entry : MoveToStaleQueue(e)
    \/ \E e \in Entry : BecomeStale(e)

Spec == Init /\ [][Next]_vars
-----------------------------------------------------------------------------
(* Properties *)

\* The state of the Content Store has its type; only entries of the table carry
\* the flags and events that setPolicyImpl's beforeEvict handler cleans up
CsTypeOK ==
    /\ table \subseteq Entry /\ unsolicited \subseteq table /\ stale \subseteq table
    /\ policy \in {"lru", "priority_fifo"}
    /\ DOMAIN queues = QueueTypes /\ \A t \in QueueTypes : Range(queues[t]) \subseteq Entry
    /\ limit \in 0..MaxLimit
    /\ shouldAdmit \in BOOLEAN /\ shouldServe \in BOOLEAN

\* The queues hold each entry of the table exactly once, in the queue that
\* belongs to its state, and no iterator of an entry that is gone.  The STALE
\* queue may hold an entry at the instant its freshness ends.
QueuesHoldTable ==
    LET order == EvictionOrder(queues)
        In(e, t) == e \in Range(queues[t])
    IN /\ Range(order) = table
       /\ Len(order) = Cardinality(table)
       /\ \A e \in table :
              IF policy = "lru" THEN In(e, "lru")
              ELSE /\ In(e, "unsolicited") <=> e \in unsolicited
                   /\ In(e, "fifo") => e \notin stale

\* moveToStaleQueue finds its entry in the FIFO queue ("entryInfo->queueType ==
\* QUEUE_FIFO"): an event is scheduled for exactly the entries of that queue.
TimersOfFifo == events = Range(queues["fifo"])

\* The store never holds more than its limit, also when management lowers it.
WithinLimit == Cardinality(table) <= limit

Leftmost(S) == {e \in S : \A x \in S \ {e} : Less(e, x)}
Rightmost(S) == {e \in S : \A x \in S \ {e} : Less(x, e)}

\* What an Interest should find: among the matches, those whose name goes on
\* with the rightmost component and of these the leftmost; the name of the
\* Interest itself comes before all longer ones, and there the rightmost digest
\* counts.
BestMatch(i) ==
    LET m == {e \in table : CanSatisfy(e, i)}
        longer == {e \in m : Len(e) > Len(i.name) + 1}
        last == {e \in longer : \A x \in longer : x[Len(i.name) + 1] <= e[Len(i.name) + 1]}
    IN IF ~i.rightmost THEN Leftmost(m)
       ELSE IF longer # {} THEN Leftmost(last) ELSE Rightmost(m)

\* The searches with iterators find the best match for every Interest.
FindIsBest == \A i \in Interest : Found(i) = BestMatch(i)

\* priority_fifo gives up solicited Data that is still fresh only when no other
\* Data is left.  (Cs::erase, which is told what to take out, neither adds an
\* entry nor changes the limit.)
FreshGoesLast ==
    [][policy = "priority_fifo" /\ (limit' # limit \/ ~(table' \subseteq table)) =>
           \/ table \ table' \subseteq unsolicited \cup stale \cup Range(queues["stale"])
           \/ unsolicited' \cup stale' = {}]_vars
=============================================================================
