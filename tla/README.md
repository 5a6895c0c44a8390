# A TLA+ model of VAL

VAL, the Vehicular Adaptation Layer, puts a second forwarding plane under NFD in
ndnSIM: packets carry a source area, a destination area, the position of the
previous hop and a hop count, and vehicles decide from distances who forwards
and when. These modules model VAL (`src/model/val`), the parts of NFD it hooks
into or rests on (`src/NFD/daemon`: pipelines, face table, link layer, Content
Store) and the window consumer (`src/apps`), check them with TLC on small
instances, and prove with TLAPS what holds of all of them in general.

## The system

| Part | State | Operations |
|---|---|---|
| PFT (`table/val-pft*`) | packets waiting to be forwarded or acknowledged, one timer each | add, find, remove; change of state, one try less |
| ValForwarder (`fw/val-forwarder.cpp`) | PFT, IFNT, DFNT, F2A, list of network faces | reception, pre-processing, four hand-overs between network and NFD, registration, two timer callbacks |
| IFNT, DFNT | Interests and Data that came from the network, with one hop taken off | add, find, remove by nonce or signature |
| F2A, geoFaces | one virtual face per area, the floodFace for "anywhere" | find or create |
| ValDistancesStrategy | none but the vehicle's position | four decisions, distances, areas, delays |
| ValHeader, ValPacket | a packet | encode, decode, compare |
| ValLinkService, LpFragmenter, LpReassembler | sequence numbers, partial packets and their timers | send, fragment, receive, reassemble, time out |
| Face table | faces by identifier; what refers to them | add, remove, signals, clean-up |
| NFD with VAL's hooks | PIT (with VAL's nonce list), FIB, CS, Dead Nonce List | Interest and Data pipelines, BroadcastStrategy |
| Content Store | table, eviction queues, stale timers, limit | insert, refresh, find, erase, evict |
| GenericLinkService, LpReliability | unacknowledged fragments, timers, queued Acks | send, acknowledge, declare lost, retransmit, give up |
| Consumer, Producer | sequence numbers, window, retransmission timers | ask, ask again, answer |

An Interest goes Consumer -> NFD -> geoFace -> VAL -> PFT -> radio; at the next
vehicle radio -> PFT (is it a copy of what waits here?) -> IFNT -> geoFace of the
source area -> NFD -> and so on. Data comes back the same way through the DFNT.
NFD and VAL call each other synchronously. NFD gives VAL two commands by way of
the Data's congestion mark: 500, "clean", and 501, "clean DFNT".

What makes it hard: a broadcast reaches several relays that all schedule it and
listen to each other; copies are lost or late for some of them; a heard copy
means different things in different states of a PFT entry; entries are shared by
the table and by scheduled closures; one pending Interest is spread over PIT,
IFNT and PFT, which are cleaned by different events; numbers are `uint8_t`,
milliseconds and nanoseconds.

## The modules

**`ValPft`** is the core: the PFT of each node with its timers. `obj` holds the
`pft::Entry` objects by address, `pft` the addresses in the table, `timer` the
live events of the scheduler. They are separate because an entry is held by
`shared_ptr` from the table and from closures, so an event might outlive its
entry's place in the table. Actions: `RegisterOutgoing` (with the removal of the
Interests that a relayed Data satisfies), `CancelSatisfied`, `ForwardingCancelled`
and `ImplicitAck` (the two halves of `preProcessingValPacket`), `ForwardingTimer`
and `ImpAckTimer` (the callbacks). Its environment is arbitrary: any packet may
be registered or heard at any time. `sent` and `quiet` in an entry are history.

**`ValDistances`** has the constants, geometry and delays of the strategy, with
its truncations and its units.

**`ValNode`** has what one node does with a packet: VAL's handlers and NFD's, as
operators from a context (the tables, and what the event does outside them) to
the context after it. Because the code calls through synchronously, one
reception is one composition of these operators, with the trailing calls in it.

**`ValNet`** composes nodes over a broadcast medium. Each step is one event of a
node: `Express` (the application asks), `Overhear` (a reception that the PFT
recognises), `Receive` (one that goes on to NFD), `Fire` (a timer with its
transmission), `Expire` (a pending Interest). What a step does to the PFT is a
step of `ValPft`; `ImplementsPft` states it.

**`ValContention`** is the race between relays that heard the same packet, in
nanoseconds.

**`ValLink`** is the way of a ValPacket over the air: `SendValPacket` (cut into
fragments that fit, with room for a congestion mark, and numbered),
`FragmentationError`, `Receive` (all of `receiveFragment` and the hand-up),
`Lose`, `Timeout`. Octets are counted as the code counts them, not carried; a
fragment knows the packet it was cut from, so a block shows whose bytes it is
made of. **`ValChannel`** is what the layers above take it for: a broadcast that
may lose a packet and never makes one up. `ImplementsChannel` is the refinement,
with a packet sent mapped to the block that carries all of it. `ValNet`'s medium
is such a channel.

**`ValFaces`** has the faces of one node and everything that refers to one: the
face table, VAL's list of network faces, F2A, NFD's next hops and records, the
DFNT entries left behind and the timers of the PFT. Interfaces and applications
come and go, any face may be destroyed, headers from new areas make geoFaces. A
packet is here the faces it touches; what depends on the contents of tables is a
choice.

**`NdnConsumer`** is `ConsumerWindow` over `Consumer` with the history of its RTT
estimator. Time is the order of `m_seqTimeouts`; the network below the face
answers Interests or loses them, late or not.

**`NfdCs`** is the Content Store with both policies. Entries are names whose last
component is a digest; the searches walk a sorted sequence by index as the code
walks a sorted set by iterator, and `BestMatch` says what they should find.

**`LpReliability`** is link-layer reliability at both ends of a link. Each
function of the class is an operator of the same name from the state of an end to
the next one; using an iterator that is not valid sets a flag. VAL's own faces do
not use it; point-to-point faces of the same simulator do.

The theorems are in modules of their own: **`ValNodeProofs`** (the PFT, and what the
handlers of `ValNode` do to a node's tables when a Data arrives), **`ValNetProofs`**,
which extends it (Interests, and the network), and **`ValNetOnceProofs`**, which
extends that (the network when each name is asked for once); **`ValLinkProofs`** (with
the theorem about `ValContention`); **`FacesConsumerProofs`** (`NdnConsumer` and
`ValFaces`); **`NfdCsProofs`**; **`LpReliabilityLemmas`** (what the single steps of the
handlers of `LpReliability` do) and **`LpReliabilityProofs`** (the handlers, the steps
and the theorems).
The **`MC...`** modules give constants their values for TLC.

Definitions named "Mutant" in their comment are plausible errors in the
definition that follows; none is used by a specification. Each property is known
to fail when one of them takes the place of its original (`PROJECT.json`).

### Abstractions

- A nonce and a name are model values or small numbers. All names are under one
  prefix, so a FIB is one list of next hops.
- In `ValNode` a geoFace is identified with its area; `AreaKeepsItsFace` of
  `ValFaces` is why it may be.
- Events the code schedules with delay 0 (the end of a satisfied PIT entry, the
  application's answer) belong to the event that schedules them.
- The in-records of a PIT entry expire together. The nonce list is a set. The
  order of downstreams, an order of pointers, is any order.
- In `ValNode` the Content Store evicts nothing and the Dead Nonce List forgets
  nothing.
- Copies on the air are a set. Vehicles are on a line (y = 0) and do not move
  during an exchange. The range of the radio is SIGNAL_RANGE.
- The order of timers is free in `ValNet`; what their durations make of it is
  the subject of `ValContention`. With `Prompt`, copies arrive before any timer
  fires and exchanges end before Interests expire.
- In `ValLink` the send queue may be congested at any time, and any fragment
  marked; blocks put together from packets of different size do not decode.
- In `LpReliability` a timer may fire whenever it is scheduled (no RTT estimate),
  and loss is decided when a packet is sent.
- In `NdnConsumer` windows above what can be in flight are alike (`WINDOW_CAP`),
  and so are more than two transmissions (`MANY`).

## The runs

Bounds: the number of nodes, nonces and names, the addresses `EntryId` (as many
as packets can wait at once at a node), `MAXHOPS`, the tries.

| Run | Instance | Result |
|---|---|---|
| `pft` | one node, two Interests, two Data with one signature, 3 tries, hop counts up to 3 | one entry per packet, timers owned, budget kept, nothing stalls, at rest in the end, 15 169 states |
| `net` | consumer, relay, producer; one Interest; loss, any delay, any expiry; 3 hops, 1 try | tables agree, nothing undefined, no Interest forwarded twice, `ValPft` implemented, 3 647 states |
| `net_delivery` | consumer, two relays side by side, producer; two names, no loss, prompt, 9 hops | each Interest is answered, one relay forwards, 224 925 states |
| `contention` | two relays, hop counts 1 to 8, distances at both ends and neighbouring metres, extreme random delays | the best placed forwards, 35 417 states |
| `link` | one sender and receiver, MTU 1500, packets of one, two (twice), three and too many fragments; two sendings, numbers modulo 6; loss, duplicates, any order, timeouts | the link implements `ValChannel`, timers and sizes are right, a packet comes up unless a piece is lost, 36 820 states |
| `faces` | two areas besides "0", five faces in all | lists and references are exact, 209 805 states |
| `consumer` | three packets, initial window 2, two Data under way | containers agree, never stuck, all answered, 17 123 states |
| `cs` | five names of one to three components, limits up to 3, both policies, 24 kinds of lookup | queues, timers and table agree, the best match is found, 32 972 states |
| `reliability` | three network packets (one of two fragments) of which two are sent, one retransmission, thresholds 1 and 2, numbers modulo 9, one end switched off once | seven properties, 1 017 340 states |

Nodes' PFTs do not interact within `ValPft`, so one node is enough there; two
packets of each kind are what uniqueness and shared signatures need. Three
vehicles are the least with a relay; three hops are the least with which an
Interest could come back and be forwarded again. Two relays are the least that
contend. Contention depends on two relays at a time.

In `link`, two packets of the same layout are the least that could be mixed up, and
the first sequence number is the last before the wraparound, as in the code. Five
faces are the floodFace, an interface, an application and two areas, or an
interface removed and another added. In `cs`, the names are an exact name with two
digests, children and a grandchild, which are the cases of `findRightmost`. In
`reliability`, the numbers wrap around within a run, two fragments of one packet
can be declared lost by one Ack, and a fragment can be retransmitted and given up;
switching an end off and on again is not reached (see below).

Deadlock is checked in `pft` and in `cs`. In the others the workload is
finite (sendings, faces, packets) and a simulation ends when nothing is scheduled;
in `faces` it also ends with a null pointer.

Fairness. `FairSpec` of `pft` has weak fairness of each timer callback: the
simulator runs scheduled events until none is left. `NetFairSpec` says the same of
the pending events of the whole network, as a formula TLC evaluates quickly: either
the network is `Idle` again and again, or a step other than an application's
Interest is taken again and again. (`Idle` is exactly where no such step is
enabled; TLC checked this equivalence on the instances of `net` and `net_delivery`.) In `link`, what is on the
air arrives or is lost; drop timers need no fairness. In `consumer`, scheduled
events run and what is outstanding becomes due; and the network is fair-lossy: an
Interest that is sent again and again is answered at some time (strong fairness of
`Answer`), which no retransmission scheme can do without. No fairness is assumed of
applications or, in `pft`, of neighbours. In `reliability` there is no fairness;
`AlwaysLessToDo` is the variant from which termination follows once timers run.

### Where the code and its comments disagree

Three runs expect a violation; `PROJECT.json` quotes the lines.

| Run | What happens |
|---|---|
| `net_consumers` | A node that consumes and relays one name asks for the longest journey of an empty list. |
| `link_senders` | The transport reports no endpoint and all vehicles number alike: fragments of two senders are put together. |
| `faces_removed` | An interface is removed while a packet waits for it; the timer callback dereferences a null pointer. |

The following are known from reading the code and were reproduced with earlier
instances of these modules. No run is kept for them.

- An Interest that was cancelled or acknowledged stays in the PFT until a Data
  satisfies it, if ever (`val-forwarder.cpp:118`, "or removing???"). `NothingStalls`
  says that no other entry is left without a timer.
- A cache hit at a producer sends nothing: its FIB entry has no geoFace
  (`broadcast-strategy.cpp:97`).
- A Data cached when overheard carries command 501 and never leaves the cache
  (`forwarder.cpp:468`): it answers nobody. `NetTypeOK` says that 501 is never on the
  air.
- With the shipped Producer's constant signature different Data are taken for
  copies of one (`val-pft.cpp:53`, `ndn-producer.cpp:121`).
- Beyond hopC * 110 m from the area a relay waits the minimum
  (`val-distances-strategy.cpp:286`), and beyond 110 m from the previous hop one
  waits 32 000 s (`:331`). `BestPlacedForwards` is therefore stated within reach.
- With no network interface the strategy dereferences `begin()` of an empty list
  (`val-strategy.hpp:122`); `ValFaces` ends such a behaviour with `fault`.

The following were met while modelling and never had a run.

- `ConsumerWindow`'s "InFlight: Current number of outstanding interests"
  (`ndn-consumer-window.cpp:79`) is too small after late Data; `NeverStalls` shows
  that this does not stop the consumer.
- Acks queued when reliability is switched off and on again wait for the next
  packet.

## The proofs

For every value of the constants that the named assumptions allow. TLC evaluates
the assumptions in the runs. Type invariants that are proved here are not checked
again by the runs; those of `ValNet`, `NfdCs` and `LpReliability` are, because they
say more than a type.

**`ValNodeProofs`**, of `ValPft`: `TypeCorrect`, `Uniqueness`, `TimersOwned`, `NeverStalls`,
`Budgeted`, `StaysQuiet` (type correctness and the invariants of `pft`), for all nodes,
nonces, names, signatures, headers, addresses, `MAXHOPS` and positive numbers of
tries. Assumptions: `EntryIdAssumption` (addresses are numbers), `HopAssumption`,
`TriesAssumption`. Two Data may share a signature. The invariants
are not inductive one by one. That a packet never stalls needs that cancelling an entry reaches its event,
hence that the entry's `timerId` names it. That removing "the entries matching p"
removes only the entry at hand needs uniqueness, and so does that no live event is
left for what is removed. The budget needs that a live implicit-ACK event is that
of an entry whose tries were set when it left WAITING_FORWARDING. The conjunction,
with the fact that what the table holds is an object, is preserved by each action.

**`ValNetProofs`** and **`ValNetOnceProofs`**: for networks of any number of nodes at any places, any
consumers, producers, nonces and names.

- `PftImplemented`: what the pipelines do to the PFTs implements `ValPft`. Hence
  `PftCorrectInNet`: what is proved of a PFT in an arbitrary environment holds of
  every PFT in the network.
- `NetTypeCorrect`, `DfntIsTransient`, `ReturnPathIsKnown` (`NetTypeOK`,
  `DfntTransient`, `ReturnPathKnown`), without further hypothesis.
- `NeverUndefined`, `RoutesAreToProducers`, `ForwardsOnce` (`AlwaysDefined`,
  `RoutesLeadToProducers`, `ForwardedOnce`) under the hypothesis `EachNameOnce`, that
  two nonces never ask for one name. The instances of `net` and `net_delivery` satisfy
  it. The run `net_consumers` does not, and `AlwaysDefined` fails there.

Assumptions: those of `ValPft`, positions on the road are numbers, `NameOf` gives each
nonce a name, and `HopByteAssumption`, `MAXHOPS` from 1 to 254, as the sum of a hop
count and 1 has to fit a `uint8_t`.

The invariant `NetInv` says `NodeOK` of each node between two events: each IFNT entry
is under its own nonce; each in-record for a geoFace has its nonce in the entry's
nonce list and its Interest in the IFNT; a producer has learnt no route and nothing
is pending there; a relay that has cached a Data has learnt a route; what is cached
is not pending; the DFNT is empty. `ReturnPathKnown` is not inductive
without the nonce lists, because `reveiceData` removes IFNT entries by them. Each
handler has a lemma that says what it makes of a context; an event's lemma composes
them as the event composes the handlers, and the loop of `afterReceiveData` is an
induction over its turns. That a node's step is a step of `ValPft` follows from what
an event may leave in its context (`EventOK`): Interests to be sent and nothing to
cancel, or Data with the nonces of the Interests it satisfies.

`NetOnce` adds what holds when each name has one nonce: a pending Interest has one
downstream, FIBs and Data on the air name areas of producers, and a node that holds
or has transmitted an Interest has something that makes it refuse the Interest from
then on (an out-record, a dead nonce or a cached Data). The last is what
`ForwardedOnce` needs: the three replace each other as the Interest is forwarded,
expires or is satisfied, and no event removes the last of them.

**`NfdCsProofs`**: `CsTypeCorrect`, `QueuesAreExact`, `TimersAreOfFifo`,
`StaysWithinLimit`, `FindsBest`, `EvictsInPriority` (all that `cs` checks), for every
sequence of names, every set of Interests and every bound on the limit. Assumptions:
`Universe` lists non-empty names in canonical order; `DigestAssumption`, an implicit
digest sorts before every other component, as its TLV type is the smallest, and the
names of Interests have no digest; the limit is a number.

The invariant `CsInv` says of the queues together that each is a sequence of distinct
entries, that they are disjoint and that together they are the table, and of each
queue whose entries it holds (`Placed`). Every operation first moves an entry between
queues or takes a set of entries out, and both keep `Placed`. `WithinLimit` counts:
the order of eviction lists each entry once, so its first n elements are n entries.

That lookup is right does not depend on the history: `FoundIsBest` says it of every
table. `lower_bound` splits the sorted table into names below and not below a given
one, so the names with a prefix are a contiguous range between the prefix and its
successor. `findRightmost` visits the groups of the range from the right, and an
induction over its iterator says that what it returns is the best of what lies left
of it; that the exact name's entries come first in the range needs
`DigestAssumption`.

**`ValLinkProofs`**: `WithinMtu` and `TimersOfPartials` for any number of senders;
`FragmentsCoverPacket` (fragments are not empty, follow each other without a gap
and end with the packet); `LinkTypeCorrect` and `LinkImplementsChannel` for one
sender in range, which is their hypothesis `OneSender`. The run `link_senders` shows
that it is needed. Assumptions: packets and ValHeaders are not empty, an MTU larger than a
congestion mark, at least three sequence numbers. The sizes of TLV numbers are those
of ndn-cxx (`tlv.hpp`), all cases included, so packets may have any size. The
inductive invariant `LinkInv` says of every fragment on the air or stored which
part of which packet it is, that its number lies among those its sender has used,
and that two such fragments under one key are of one packet; the last needs the
numbers not to be used up within a behaviour, which is a guard of the model and
stands for 2^64 of them.

**`FacesConsumerProofs`**, of `ValFaces`: `FacesTypeCorrect`, `NetworkListCorrect`, `ReferencesLive`,
`AreasKeepFaces` (type correctness and the invariants of `faces`), for all areas and
numbers of faces. The invariant adds that every identifier in any table is at most
`m_lastFaceId`, so that a new face's is in none of them.

**`FacesConsumerProofs`**, of `NdnConsumer`: `ConsumerTypeCorrect`, `ConsumerBooks`, `ConsumerKarn`,
`ConsumerNeverStalls` for all numbers of packets, windows and both settings of
`InitialWindowOnTimeout`. That the consumer never stalls is not inductive: it follows from the agreement of the
books, from `m_inFlight` never exceeding the number of Interests that wait for a
timeout, and from the fact that with no event scheduled it is the counter that
keeps the window closed.

**`ValLinkProofs`**, of `ValContention`: `BestPlaced`, `BestPlacedForwards` for any relays,
distances, delays and hop counts up to 9, within reach (hypothesis `Scaled`). The
argument is arithmetic: 30 ms over at most 990 m make a metre worth more than the
30 microseconds by which random delays differ, truncation included. With ten hops
it would not hold.

**`LpReliabilityProofs`**: `ReliabilityTypeCorrect`, `IteratorsAreValid`,
`WindowStartsAtOldest`, `ListsAndTimersAreExact`, `LaterAcksAreCounted`,
`AckedIsReceived` and the action property `ThereIsLessToDo` (all that `reliability`
checks), for all network packets and fragment counts, every maxRetx, every set of
thresholds, every room for Acks, any bound on the packets under way and any number
of times that an end is switched off and on. Assumptions: the link has two ends; an
Ack fits in an IDLE packet (`AckFits`; otherwise the idle timer's loop would not
end); and `RunIsShort`, the network packets and retransmissions together need fewer
numbers than there are. The last stands for 2^64 of them: with fewer, an Ack could
still be under way when its number is given to another fragment.

The invariant `ReliabilityInv` has three parts.

- `LinkInv`, of one end, throughout a handler: lists, timers and map name the same
  fragments; each fragment is tracked under one number; the start of the window is
  the oldest in the order of assignment; a fragment's counter is the number of
  acknowledged ones after it; and the numbers used so far are at most the
  transmissions that are spent. The last makes `RunIsShort`, a statement about
  constants, say that a new number is never one of those in use, without which
  neither the order nor the map would survive a wraparound.
- `Idle`, between two events: nothing is left to send, no counter has reached the
  threshold, and the idle Ack timer runs only while reliability is on.
- `LinkNet`, of both ends: an Ack that is queued or under way names a number that has
  been used and, if it still stands for a fragment, one that has arrived; a fragment
  under way has the number under which it is tracked, or one that is tracked no
  more; every fragment of a packet that is not given up has arrived or is tracked.
  `AckedWasReceived` is its last part when nothing is tracked.

One Ack makes `processIncomingPacket` loop over the fragments it shows to be lost,
and losing one of them may remove others that the loop has still to visit. The
induction over this loop (`Resent`) says that every lost fragment is still tracked
or in `removedLpPackets`, that those the loop has passed are in that set, and that
nothing in it is tracked under its old number: this is why the code's test against
the set is enough. `Moved` is what any part of a handler may do to an end; it
composes, so that the steps of both loops need no more than one lemma each.

Only model-checked: liveness (`EventuallyAtRest`, `Delivered`,
`DeliveredUnlessLost`, `AllAnswered`), which needs fairness and is out of the
prover's reach; and `OneRelayForwards`, which is about copies that arrive before any
timer fires (`Prompt`) and is not claimed for every placement of the vehicles.

The theorems of the library about induction have an operator as parameter and
cannot be used. `SetInduction`, `LeastElement` and `GreatestElement` state induction
for a set of numbers; a function that is defined by recursion in a `LET` is first
shown to exist, by induction over how far it is defined, and then has its defining
equation (`TurnsDef`, `OnlyDef`, `LoopDef`, `ResendsDef`, `ProcessAcksDef`).

tlapm translates each obligation for the SMT solver under a limit of its own, and the
time it takes over any obligation grows with the square of what is in scope. The
largest modules therefore give their leaves to Zenon (`USE ZenonT(30)` at their head)
unless a leaf names the SMT solver, and the proofs of large components are in several
modules.

## Not modelled

- TLV encoding beyond its sizes, and the reference name RN that nothing reads.
- When `checkCongestionLevel` marks, which depends on the occupancy of ns-3's
  queues. (A mark of its own would overwrite VAL's command 500 or 501.)
- The congestion control of `ConsumerPcon` and the RTO estimators: floating point.
- Movement during an exchange, and area maps in two dimensions.
- Nacks on VAL's path: none reaches a geoFace. Dead-nonce ageing. Lookups of Interests
  that end in a digest.
- An end of a reliable link that is switched off and on again more than `MaxSwitches`
  times.
- `NetDeviceTransport` after its face is closed: it stays registered with the device.
- Face identifiers above 32 bits (`makeGeoFaceFromValHeader` returns `uint32_t`).
- The rest of NFD, ndn-cxx and ndnSIM (management, RIB, other strategies, security,
  sockets, tracers, topology readers), which VAL neither changes nor calls. It is
  most of the repository's lines.

`PROJECT.json` lists each part with its status, and the hazards no property covers.
