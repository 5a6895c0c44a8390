------------------------------- MODULE ValFaces -------------------------------
(***************************************************************************)
(* The faces of one node: NFD's face table (NFD/daemon/fw/face-table.cpp), *)
(* the list of network faces and the Face to Area table of ValForwarder,   *)
(* and the references that other parts keep to a face: the records and     *)
(* next hops of NFD, the DFNT, and the timers of the PFT.                  *)
(*                                                                         *)
(* Faces come and go: interfaces and applications are added, an            *)
(* application stops, the face manager destroys any face (destroyFace),    *)
(* and ValForwarder adds a geoFace for each new area it hears of.          *)
(*                                                                         *)
(* A packet is here only the faces it touches.  What ValNode decides from  *)
(* the contents of the tables (is the Data cached, does the strategy       *)
(* relay) is a choice.                                                     *)
(***************************************************************************)
EXTENDS Integers, Sequences, SequencesExt

CONSTANTS
    Area,       \* areas a header may name
    FLOOD_AREA, \* "0", the area of the floodFace
    MaxFaces    \* bound: how many faces are ever added

ASSUME AreaAssumption == FLOOD_AREA \in Area
ASSUME MaxFacesAssumption == MaxFaces \in Nat \ {0}

VARIABLES
    faces,          \* m_faces: from the ids in the table to the kind of face
    m_lastFaceId,
    m_networkFaces,
    f2a,            \* m_f2a: sequence of [face, area]
    fib,            \* the faces of NFD's next hops
    pit,            \* the faces of NFD's in- and out-records
    dfnt,           \* the network faces named by DFNT entries left behind
    timers,         \* the outgoing faces of the packets that wait in the PFT
    fault           \* a null pointer or the end of a list was dereferenced

facesVars == <<faces, m_lastFaceId, m_networkFaces, f2a, fib, pit, dfnt, timers, fault>>

NET == "net"
APP == "app"
GEO == "geo"

FACEID_RESERVED_MAX == 255

Of(kind) == {i \in DOMAIN faces : faces[i] = kind}

FloodFace == FACEID_RESERVED_MAX + 1

\* The constructor of ValForwarder
FacesInit ==
    /\ faces = [i \in {FloodFace} |-> GEO]
    /\ m_lastFaceId = FloodFace
    /\ m_networkFaces = <<>>
    /\ f2a = <<[face |-> FloodFace, area |-> FLOOD_AREA]>>
    /\ fib = {FloodFace}
    /\ pit = {}
    /\ dfnt = {}
    /\ timers = {}
    /\ fault = FALSE

\* FaceTable::addImpl
Added(table, id, kind) ==
    [i \in DOMAIN table \cup {id} |-> IF i = id THEN kind ELSE table[i]]

\* Mutant: an id that is free again is given to the next face
LowestFreeId(table, lastId) ==
    CHOOSE i \in FloodFace..(lastId + 1) :
        i \notin DOMAIN table /\ \A j \in FloodFace..(i - 1) : j \in DOMAIN table

\* FaceTable::add
NextFaceId(table, lastId) == lastId + 1

Bounded(lastId) == lastId < FACEID_RESERVED_MAX + MaxFaces
-----------------------------------------------------------------------------
(* Adding faces *)

\* addImpl of a VAL network face; afterValFaceAdd tells ValForwarder
AddNetFace ==
    LET id == NextFaceId(faces, m_lastFaceId)
    IN /\ Bounded(m_lastFaceId)
       /\ faces' = Added(faces, id, NET)
       /\ m_lastFaceId' = id
       /\ m_networkFaces' = Append(m_networkFaces, id)
       /\ UNCHANGED <<f2a, fib, pit, dfnt, timers, fault>>

\* App::StartApplication; a producer also registers its prefix
AddAppFace ==
    LET id == NextFaceId(faces, m_lastFaceId)
    IN /\ Bounded(m_lastFaceId)
       /\ faces' = Added(faces, id, APP)
       /\ m_lastFaceId' = id
       /\ fib' \in {fib, fib \cup {id}}
       /\ UNCHANGED <<m_networkFaces, f2a, pit, dfnt, timers, fault>>

\* F2A::findByGeoArea
HasArea(t, area) == \E k \in DOMAIN t.f2a : t.f2a[k].area = area
FaceOfArea(t, area) ==
    t.f2a[CHOOSE k \in DOMAIN t.f2a :
              t.f2a[k].area = area /\ \A j \in 1..(k - 1) : t.f2a[j].area # area].face

\* One half of makeGeoFaceFromValHeader: the geoFace of an area, made if needed
MakeGeoFace(t, area) ==
    LET id == NextFaceId(t.faces, t.last)
    IN IF HasArea(t, area) THEN t
       ELSE [faces |-> Added(t.faces, id, GEO), last |-> id,
             f2a |-> Append(t.f2a, [face |-> id, area |-> area])]

\* makeGeoFaceFromValHeader
Made(sa, da) ==
    MakeGeoFace(MakeGeoFace([faces |-> faces, last |-> m_lastFaceId, f2a |-> f2a], sa), da)

TakeMade(t) ==
    /\ t.last <= FACEID_RESERVED_MAX + MaxFaces
    /\ faces' = t.faces
    /\ m_lastFaceId' = t.last
    /\ f2a' = t.f2a
-----------------------------------------------------------------------------
(* Removing faces *)

\* Mutant: the list of network faces is left to the next rebuild
ForgetNothing(id) == m_networkFaces

\* removeFromNetworkFaceList: the first occurrence goes
RemoveFromNetworkFaceList(id) ==
    IF id \notin Range(m_networkFaces) THEN m_networkFaces
    ELSE RemoveAt(m_networkFaces,
                  CHOOSE k \in DOMAIN m_networkFaces :
                      /\ m_networkFaces[k] = id
                      /\ \A j \in 1..(k - 1) : m_networkFaces[j] # id)

\* Mutant: only the next hops of the removed face are cleaned up
KeepRecords(id) == pit

\* nfd::cleanupOnFaceRemoval: removeNextHopByFace and deleteInOutRecords for
\* every entry of the name tree
NextHopsWithout(id) == fib \ {id}
RecordsWithout(id) == pit \ {id}

\* Face::close and FaceTable::remove: one of the two signals, then the erasure
Close(id) ==
    /\ IF faces[id] = NET
       THEN /\ m_networkFaces' = RemoveFromNetworkFaceList(id)
            /\ UNCHANGED <<fib, pit>>
       ELSE /\ fib' = NextHopsWithout(id)
            /\ pit' = RecordsWithout(id)
            /\ UNCHANGED m_networkFaces
    /\ faces' = [i \in DOMAIN faces \ {id} |-> faces[i]]
    /\ UNCHANGED <<m_lastFaceId, f2a, dfnt, timers, fault>>
-----------------------------------------------------------------------------
(* Packets *)

\* getValNetFaceId and registerOutgoingValPacket
SendOnFirst ==
    IF m_networkFaces = <<>> THEN fault' = TRUE /\ UNCHANGED timers
    ELSE timers' = timers \cup {Head(m_networkFaces)} /\ UNCHANGED fault

\* The next hops of a kind, in a face table
Hops(table, kind) == {g \in fib : table[g] = kind}

\* onContentStoreHit for a geoFace: the Data leaves by a geoFace among the next
\* hops, and VAL finds a DFNT entry left behind or takes it for its own
AnswerFromCache(table) ==
    /\ \/ Hops(table, GEO) = {} /\ UNCHANGED <<dfnt, timers, fault>>
       \/ Hops(table, GEO) # {} /\ SendOnFirst /\ UNCHANGED dfnt
       \/ \E e \in dfnt :
              /\ Hops(table, GEO) # {}
              /\ timers' = timers \cup {e}
              /\ dfnt' \in {dfnt, dfnt \ {e}}
              /\ UNCHANGED fault
    /\ UNCHANGED <<fib, pit>>

\* The producer's application answers a geoFace's Interest at once
AnswerFromApp(table) ==
    /\ Hops(table, APP) # {}
    /\ pit' = {}
    /\ SendOnFirst
    /\ UNCHANGED <<fib, dfnt>>

\* onContentStoreMiss of an Interest of the geoFace sf received on f: it stays
\* with the application that could answer it, or goes to the geoFace of its tag
\* or else of the FIB, where the strategy relays it on f or does not.  If the
\* tagged face is gone, or there is no next hop, only the in-record is left.
Pend(table, f, sf, tag) ==
    LET app == Hops(table, APP)
        out == CASE app # {} /\ tag \cap DOMAIN table = tag -> app
                 [] app = {} /\ tag # {} -> tag \cap DOMAIN table
                 [] app = {} /\ tag = {} -> Hops(table, GEO)
                 [] OTHER -> {}
    IN /\ \/ out = {} /\ pit' = pit \cup {sf}
          \/ \E g \in out : pit' = pit \cup {sf, g}
       /\ fib' = IF fib = {} THEN tag \cap DOMAIN table ELSE fib
       /\ timers' \in {timers, IF out # {} /\ app = {} THEN timers \cup {f} ELSE timers}
       /\ UNCHANGED <<dfnt, fault>>

\* processInterestFromNetwork.  The Interest is handed to NFD by the geoFace of
\* its source, or dropped if that is gone; NFD drops a loop.
ReceiveInterest(f, sa, da) ==
    LET t == Made(sa, da)
        sf == FaceOfArea(t, sa)
        tag == IF da = FLOOD_AREA THEN {} ELSE {FaceOfArea(t, da)}
    IN /\ TakeMade(t)
       /\ \/ UNCHANGED <<fib, pit, dfnt, timers, fault>>
          \/ /\ sf \in DOMAIN t.faces
             /\ \/ AnswerFromCache(t.faces)
                \/ AnswerFromApp(t.faces)
                \/ Pend(t.faces, f, sf, tag)
       /\ UNCHANGED m_networkFaces

\* processDataFromNetwork.  NFD learns the source's geoFace as a next hop
\* (unless it did not ask and the node produces the Data), and the Data
\* satisfies what is pending.  If the geoFace is gone the DFNT entry stays.
ReceiveData(f, sa, da) ==
    LET t == Made(sa, da)
        sf == FaceOfArea(t, sa)
    IN /\ TakeMade(t)
       /\ IF sf \notin DOMAIN t.faces
          THEN dfnt' = dfnt \cup {f} /\ UNCHANGED <<fib, pit, timers>>
          ELSE /\ fib' = IF pit = {} /\ Hops(t.faces, APP) # {} THEN fib
                         ELSE fib \cup {sf}
               /\ pit' = {}
               /\ timers' \in {timers, timers \cup {f}}
               /\ UNCHANGED dfnt
       /\ UNCHANGED <<m_networkFaces, fault>>

\* An application's Interest: answered within the node, refused for want of a
\* next hop, or sent through a geoFace (IFNT miss)
AppInterest(a) ==
    /\ \/ UNCHANGED <<pit, timers, fault>>
       \/ pit' = pit \cup {a} /\ fib = {} /\ UNCHANGED <<timers, fault>>
       \/ \E g \in fib :
              /\ pit' = pit \cup {a, g}
              /\ IF faces[g] = GEO THEN SendOnFirst ELSE UNCHANGED <<timers, fault>>
    /\ UNCHANGED <<faces, m_lastFaceId, m_networkFaces, f2a, fib, dfnt>>

\* A producer's Data that comes later: VAL gets it if a geoFace asked
AppData ==
    /\ pit \cap Of(APP) # {}
    /\ pit' = {}
    /\ \/ UNCHANGED <<timers, fault>>
       \/ pit \cap Of(GEO) # {} /\ SendOnFirst
    /\ UNCHANGED <<faces, m_lastFaceId, m_networkFaces, f2a, fib, dfnt>>

\* onInterestFinalize
Expire ==
    /\ pit # {}
    /\ pit' = {}
    /\ UNCHANGED <<faces, m_lastFaceId, m_networkFaces, f2a, fib, dfnt, timers, fault>>

\* forwardingTimerCallback and impAckTimerCallback: the face is looked up by its
\* id and asked for its kind; the packet waits again or leaves the table
TimerCallback(id) ==
    /\ IF id \notin DOMAIN faces THEN fault' = TRUE /\ UNCHANGED timers
       ELSE timers' \in {timers, timers \ {id}} /\ UNCHANGED fault
    /\ UNCHANGED <<faces, m_lastFaceId, m_networkFaces, f2a, fib, pit, dfnt>>

FacesNext ==
    /\ ~fault
    /\ \/ AddNetFace
       \/ AddAppFace
       \/ \E id \in DOMAIN faces : Close(id)
       \/ \E f \in Of(NET), sa \in Area, da \in Area : ReceiveInterest(f, sa, da)
       \/ \E f \in Of(NET), sa \in Area, da \in Area : ReceiveData(f, sa, da)
       \/ \E a \in Of(APP) : AppInterest(a)
       \/ AppData
       \/ Expire
       \/ \E id \in timers : TimerCallback(id)

FacesSpec == FacesInit /\ [][FacesNext]_facesVars
-----------------------------------------------------------------------------
(* Properties *)

FaceId == FloodFace..(FACEID_RESERVED_MAX + MaxFaces)

\* The tables hold ids that the face table gives.
FacesTypeOK ==
    /\ m_lastFaceId \in FaceId
    /\ DOMAIN faces \subseteq FaceId
    /\ \A i \in DOMAIN faces : faces[i] \in {NET, APP, GEO}
    /\ m_networkFaces \in Seq(FaceId)
    /\ f2a \in Seq([face : FaceId, area : Area])
    /\ fib \subseteq FaceId /\ pit \subseteq FaceId
    /\ dfnt \subseteq FaceId /\ timers \subseteq FaceId
    /\ fault \in BOOLEAN

\* The list of network faces that ValForwarder keeps from the two signals of
\* the face table is the list of the network faces in the table, in the order
\* of their ids, through every sequence of additions and removals: what
\* getValNetFaceId returns is the oldest interface that is still there.
NetworkListExact ==
    /\ Range(m_networkFaces) = Of(NET)
    /\ \A j, k \in DOMAIN m_networkFaces : j < k => m_networkFaces[j] < m_networkFaces[k]

\* NFD's next hops and records are references to faces in the table and never
\* to a network face, for which the face table does not call NFD's clean-up.
NoDanglingReference == fib \cup pit \subseteq Of(APP) \cup Of(GEO)

\* The entry of an area outlives its geoFace (nothing removes it), but the id
\* in it never comes to mean another face: a packet from the area is handed up
\* by its own geoFace or not at all, and no two areas share a geoFace.
AreaKeepsItsFace ==
    /\ \A k \in DOMAIN f2a : f2a[k].face \in DOMAIN faces => faces[f2a[k].face] = GEO
    /\ \A j, k \in DOMAIN f2a :
           j # k => f2a[j].face # f2a[k].face /\ f2a[j].area # f2a[k].area

\* "NOT ValNetFace: this should never happen!!": a packet that waits in the PFT
\* waits for a network face of the table.  Its timer looks the face up and calls
\* it without a test (forwardingTimerCallback, impAckTimerCallback).
TimerHasFace == timers \subseteq Of(NET)
=============================================================================
