----------------------------- MODULE NdnConsumer -----------------------------
(***************************************************************************)
(* A window-based consumer application (apps/ndn-consumer.cpp and          *)
(* apps/ndn-consumer-window.cpp) with the history of its RTT estimator.    *)
(*                                                                         *)
(* Time is only an order: m_seqTimeouts is the sequence of the outstanding *)
(* sequence numbers by the time they were sent, and CheckRetxTimeout finds *)
(* that some of the oldest are due.  What lies below the application's     *)
(* face is a set of Interests that may be answered or lost, and the queue  *)
(* of OnData events of AppLinkService::doSendData.                         *)
(***************************************************************************)
EXTENDS Integers, Sequences, SequencesExt

CONSTANTS
    m_seqMax,                    \* sequence numbers 0..m_seqMax - 1 are wanted
    m_initialWindow,
    m_setInitialWindowOnTimeout,
    MaxArriving                  \* bound: OnData events scheduled at a time

ASSUME ConsumerAssumption ==
    /\ m_seqMax \in Nat /\ m_initialWindow \in Nat /\ MaxArriving \in Nat
    /\ m_setInitialWindowOnTimeout \in BOOLEAN

VARIABLES
    m_startEvent,    \* is StartApplication still to come?
    m_active,
    m_seq,           \* the next sequence number
    m_retxSeqs,      \* to be sent again
    m_seqTimeouts,   \* sent and not yet due, the oldest first
    m_seqFullDelay,  \* asked for (m_seqLastDelay has the same ones)
    m_seqRetxCounts, \* how often each was sent: once or MANY times
    m_history,       \* RttHistory: from a sequence number to its retx flag
    m_window,
    m_inFlight,
    m_sendEvent,     \* is a SendPacket event scheduled?
    pending,         \* Interests of the application in the network
    arriving         \* scheduled OnData events

books == <<m_retxSeqs, m_seqTimeouts, m_seqFullDelay, m_seqRetxCounts, m_history>>
app == <<m_startEvent, m_active>>
vars == <<app, m_seq, books, m_window, m_inFlight, m_sendEvent, pending, arriving>>

Wanted == 0..(m_seqMax - 1)

\* No more than m_seqMax Interests are ever in flight: windows above are alike
WINDOW_CAP == m_seqMax + m_initialWindow + 1
MANY == 2

Smaller(a, b) == IF a < b THEN a ELSE b
Decremented(n, k) == IF n < k THEN 0 ELSE n - k

Init ==
    /\ m_startEvent = TRUE
    /\ m_active = FALSE
    /\ m_seq = 0
    /\ m_retxSeqs = {}
    /\ m_seqTimeouts = <<>>
    /\ m_seqFullDelay = {}
    /\ m_seqRetxCounts = [s \in {} |-> MANY]
    /\ m_history = [s \in {} |-> FALSE]
    /\ m_window = m_initialWindow
    /\ m_inFlight = 0
    /\ m_sendEvent = FALSE
    /\ pending = {}
    /\ arriving = <<>>

\* ConsumerWindow::ScheduleNextPacket: the event after it, from the one before
ScheduleNextPacket(event, window, inFlight) ==
    event \/ window = 0 \/ inFlight < window

Set(f, s, v) == [x \in DOMAIN f \cup {s} |-> IF x = s THEN v ELSE f[x]]
Erased(f, s) == [x \in DOMAIN f \ {s} |-> f[x]]
EraseSeq(q, s) ==
    IF s \in Range(q) THEN RemoveAt(q, CHOOSE k \in DOMAIN q : q[k] = s) ELSE q

\* RttMeanDeviation::SentSeq: a sequence number that is there already is marked
SentSeq(history, s) == Set(history, s, s \in DOMAIN history)
-----------------------------------------------------------------------------
StartApplication ==
    /\ m_startEvent
    /\ m_startEvent' = FALSE
    /\ m_active' = TRUE
    /\ m_sendEvent' = ScheduleNextPacket(m_sendEvent, m_window, m_inFlight)
    /\ UNCHANGED <<m_seq, books, m_window, m_inFlight, pending, arriving>>

\* Consumer and App: the face is closed; the timer of CheckRetxTimeout and the
\* scheduled OnData events stay
StopApplication ==
    /\ m_active
    /\ m_active' = FALSE
    /\ m_sendEvent' = FALSE
    /\ pending' = {}
    /\ UNCHANGED <<m_startEvent, m_seq, books, m_window, m_inFlight, arriving>>

\* WillSendOutInterest of both classes
WillSendOutInterest(s) ==
    /\ m_inFlight' = m_inFlight + 1
    /\ m_seqTimeouts' = IF s \in Range(m_seqTimeouts) THEN m_seqTimeouts
                        ELSE Append(m_seqTimeouts, s)
    /\ m_seqFullDelay' = m_seqFullDelay \cup {s}
    /\ m_seqRetxCounts' = Set(m_seqRetxCounts, s,
                              IF s \in DOMAIN m_seqRetxCounts THEN MANY ELSE 1)
    /\ m_history' = SentSeq(m_history, s)

\* Consumer::SendPacket: the smallest to be sent again, or else a new one
SendPacket ==
    /\ m_sendEvent
    /\ \/ /\ ~m_active \/ (m_retxSeqs = {} /\ m_seq >= m_seqMax)
          /\ m_sendEvent' = FALSE
          /\ UNCHANGED <<m_seq, books, m_inFlight, pending>>
       \/ /\ m_active
          /\ \E s \in Wanted :
               /\ \/ /\ s \in m_retxSeqs /\ \A r \in m_retxSeqs : s <= r
                     /\ m_seq' = m_seq
                  \/ /\ m_retxSeqs = {} /\ s = m_seq
                     /\ m_seq' = m_seq + 1
               /\ m_retxSeqs' = m_retxSeqs \ {s}
               /\ WillSendOutInterest(s)
               /\ pending' = pending \cup {s}
          /\ m_sendEvent' = ScheduleNextPacket(FALSE, m_window, m_inFlight + 1)
    /\ UNCHANGED <<app, m_window, arriving>>

\* Mutant: Data for a sequence number that waits to be sent again is ignored
LateDataIgnored(s) ==
    IF ~m_active \/ s \in m_retxSeqs THEN UNCHANGED books
    ELSE /\ m_seqRetxCounts' = Erased(m_seqRetxCounts, s)
         /\ m_seqFullDelay' = m_seqFullDelay \ {s}
         /\ m_seqTimeouts' = EraseSeq(m_seqTimeouts, s)
         /\ m_retxSeqs' = m_retxSeqs
         /\ m_history' = Erased(m_history, s)

\* Mutant: a sequence number that waits to be sent again is still sent again
RetxKept(s) ==
    IF ~m_active THEN UNCHANGED books
    ELSE /\ m_seqRetxCounts' = Erased(m_seqRetxCounts, s)
         /\ m_seqFullDelay' = m_seqFullDelay \ {s}
         /\ m_seqTimeouts' = EraseSeq(m_seqTimeouts, s)
         /\ m_retxSeqs' = m_retxSeqs
         /\ m_history' = Erased(m_history, s)

\* Consumer::OnData, with RttMeanDeviation::AckSeq
ConsumerOnData(s) ==
    IF ~m_active THEN UNCHANGED books
    ELSE /\ m_seqRetxCounts' = Erased(m_seqRetxCounts, s)
         /\ m_seqFullDelay' = m_seqFullDelay \ {s}
         /\ m_seqTimeouts' = EraseSeq(m_seqTimeouts, s)
         /\ m_retxSeqs' = m_retxSeqs \ {s}
         /\ m_history' = Erased(m_history, s)

\* The window and the counter in ConsumerWindow::OnData
WindowOnData(s) ==
    /\ m_window' = Smaller(m_window + 1, WINDOW_CAP)
    /\ m_inFlight' = Decremented(m_inFlight, 1)

\* ConsumerWindow::OnData
OnData ==
    /\ arriving # <<>>
    /\ ConsumerOnData(Head(arriving))
    /\ WindowOnData(Head(arriving))
    /\ m_sendEvent' = ScheduleNextPacket(m_sendEvent, m_window', m_inFlight')
    /\ arriving' = Tail(arriving)
    /\ UNCHANGED <<app, m_seq, pending>>

\* Mutant: a retransmission is taken for the first transmission
NotMarked(due) == m_history

\* SentSeq in Consumer::OnTimeout disables the sample
Marked(due) ==
    [s \in DOMAIN m_history \cup due |->
        s \in DOMAIN m_history /\ (s \in due \/ m_history[s])]

\* Mutant: what timed out still counts as in flight
StillInFlight(k) == m_inFlight

\* The counter in ConsumerWindow::OnTimeout, for k calls
NoLongerInFlight(k) == Decremented(m_inFlight, k)

\* CheckRetxTimeout finds the k oldest due and calls OnTimeout for each
CheckRetxTimeout(k) ==
    LET due == Range(SubSeq(m_seqTimeouts, 1, k))
    IN /\ m_seqTimeouts' = SubSeq(m_seqTimeouts, k + 1, Len(m_seqTimeouts))
       /\ m_inFlight' = NoLongerInFlight(k)
       /\ m_window' = IF m_setInitialWindowOnTimeout THEN m_initialWindow ELSE m_window
       /\ m_history' = Marked(due)
       /\ m_retxSeqs' = m_retxSeqs \cup due
       /\ m_sendEvent' = ScheduleNextPacket(m_sendEvent, m_window', m_inFlight')
       /\ UNCHANGED <<app, m_seq, m_seqFullDelay, m_seqRetxCounts, pending,
                      arriving>>
-----------------------------------------------------------------------------
(* The network below the face *)

\* Data for a pending Interest: doSendData schedules OnData
Answer(s) ==
    /\ s \in pending /\ Len(arriving) < MaxArriving
    /\ pending' = pending \ {s}
    /\ arriving' = Append(arriving, s)
    /\ UNCHANGED <<app, m_seq, books, m_window, m_inFlight, m_sendEvent>>

\* The Interest expires unanswered, or is answered with a Nack, which
\* Consumer::OnNack only logs
Lose(s) ==
    /\ s \in pending
    /\ pending' = pending \ {s}
    /\ UNCHANGED <<app, m_seq, books, m_window, m_inFlight, m_sendEvent,
                   arriving>>

Next ==
    \/ StartApplication
    \/ StopApplication
    \/ SendPacket
    \/ OnData
    \/ \E k \in 1..Len(m_seqTimeouts) : CheckRetxTimeout(k)
    \/ \E s \in Wanted : Answer(s)
    \/ \E s \in Wanted : Lose(s)

Spec == Init /\ [][Next]_vars

\* The simulator runs every scheduled event.  CheckRetxTimeout is always
\* scheduled and the timeout is at most m_maxRto, so what is outstanding becomes
\* due.  The network answers an Interest that is sent again and again.
Fairness ==
    /\ WF_vars(StartApplication)
    /\ WF_vars(SendPacket)
    /\ WF_vars(OnData)
    /\ WF_vars(\E k \in 1..Len(m_seqTimeouts) : CheckRetxTimeout(k))
    /\ \A s \in Wanted : SF_vars(Answer(s))

FairSpec == Spec /\ Fairness
-----------------------------------------------------------------------------
(* Properties *)

\* The types; the counter of a 32-bit unsigned type never wraps below zero.
ConsumerTypeOK ==
    /\ {m_startEvent, m_active, m_sendEvent} \subseteq BOOLEAN
    /\ m_seq \in 0..m_seqMax
    /\ m_retxSeqs \subseteq Wanted /\ m_seqFullDelay \subseteq Wanted
    /\ m_seqTimeouts \in Seq(Wanted)
    /\ m_seqRetxCounts \in [DOMAIN m_seqRetxCounts -> {1, MANY}]
    /\ m_history \in [DOMAIN m_history -> BOOLEAN]
    /\ m_window \in 0..WINDOW_CAP /\ m_inFlight \in Nat
    /\ pending \subseteq Wanted /\ arriving \in Seq(Wanted)

\* The containers that SendPacket, OnData and OnTimeout each update in part
\* agree: a sequence number that is asked for either waits for its timeout,
\* once, or waits to be sent again, and nothing else is remembered.
BooksAgree ==
    /\ \A j, k \in DOMAIN m_seqTimeouts : m_seqTimeouts[j] = m_seqTimeouts[k] => j = k
    /\ Range(m_seqTimeouts) \cap m_retxSeqs = {}
    /\ Range(m_seqTimeouts) \cup m_retxSeqs = m_seqFullDelay
    /\ DOMAIN m_seqRetxCounts = m_seqFullDelay
    /\ DOMAIN m_history = m_seqFullDelay
    /\ \A s \in m_seqFullDelay : s < m_seq

\* Karn's rule: AckSeq takes a sample only for a sequence number that was sent
\* once and has not timed out, whatever late Data arrives.
KarnsRule ==
    \A s \in DOMAIN m_history :
        ~m_history[s] => m_seqRetxCounts[s] = 1 /\ s \in Range(m_seqTimeouts)

\* A consumer that has something left to ask for has a SendPacket event
\* scheduled or an outstanding Interest whose timeout will schedule one: the
\* window never closes for good, although late and duplicate Data decrement
\* the counter of Interests in flight more often than it was incremented.
NeverStalls ==
    m_active /\ ~m_sendEvent /\ (m_retxSeqs # {} \/ m_seq < m_seqMax) =>
        m_seqTimeouts # <<>> /\ m_inFlight <= Len(m_seqTimeouts)

\* Every sequence number is asked for and answered, unless the application is
\* stopped, although Interests and Data are lost.
AllAnswered ==
    <>[](\/ ~m_startEvent /\ ~m_active
         \/ m_seq = m_seqMax /\ m_seqFullDelay = {})
=============================================================================
