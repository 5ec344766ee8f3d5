-------------------------- MODULE DnsFailoverProofs --------------------------
(***************************************************************************)
(* Proofs about DnsFailover, for every set of requests and faults and      *)
(* every bound.                                                            *)
(***************************************************************************)
EXTENDS DnsFailover, TLAPS

\* A watch that is opened again finds what was reported, unless there is news.
UpToDate ==
    /\ reported <= position
    /\ reported > 0 => log[position] = log[reported]

\* What waits in the queue was reported, and is newer than what was handled.
Placed ==
    /\ seen <= reported
    /\ \A i \in 1..Len(queue) : queue[i].kind = "state" =>
          seen < queue[i].n /\ queue[i].n <= reported

\* ... in the order of the log, and each version once.
Ordered == \A i, j \in 1..Len(queue) :
    i < j /\ queue[i].kind = "state" /\ queue[j].kind = "state" => queue[i].n < queue[j].n

\* What the handler works on, or waits for the peer with, is a request.
AtRequest ==
    /\ doing \in {"asking", "agreed"} => current > 0 /\ log[current].transition \in Transitions
    /\ asked > 0 => log[asked].transition \in Transitions
-----------------------------------------------------------------------------
(* The log *)

\* The states that the table names are stable states.
LEMMA EndsAreStates ==
  ASSUME site \in Sites, NEW t \in Transitions, NEW last \in Lasts,
         NEW end \in Ends(t, last)
  PROVE  end \in Lasts
<1>1. Reached(t) \in StableStates
  BY DEF Transitions, StableStates, Reached
<1>2. Work(site, t) = "standby" => Partial(t) \in StableStates
  <2>1. CASE site = ActiveSite
    BY <2>1 DEF Transitions, StableStates, Partial, Work
  <2>2. CASE site # ActiveSite
    BY <2>2 DEF Transitions, StableStates, Partial, Work
  <2> QED BY <2>1, <2>2
<1> QED BY <1>1, <1>2 DEF Ends, Lasts

\* A write leaves the log as it was and adds at most the content written.
LEMMA WriteAppends ==
  ASSUME LogTypes, NEW c \in Contents, Write(c)
  PROVE  /\ LogTypes' /\ Current' = c /\ Len(log') \in {Len(log), Len(log) + 1}
         /\ \A n \in 1..Len(log) : log'[n] = log[n]
<1> USE DEF LogTypes
<1>1. CASE c = Current
  BY <1>1 DEF Write, Current
<1>2. CASE c # Current
  <2>1. log' = Append(log, c)
    BY <1>2 DEF Write
  <2> QED BY <2>1 DEF Current
<1> QED BY <1>1, <1>2

\* The log is extended or left as it is.
Extends ==
    /\ LogTypes' /\ Len(log') >= Len(log)
    /\ \A n \in 1..Len(log) : log'[n] = log[n]

\* A request typed as one is written.
LEMMA RequestExtends ==
  ASSUME LogTypes, NEW t \in Asks, Request(t)
  PROVE  Extends /\ Current'.last = Current.last
<1>1. Current \in Contents
  BY DEF LogTypes, Current
<1> DEFINE c == [Current EXCEPT !.transition = t]
<1>2. c \in Contents /\ c.last = Current.last
  BY <1>1 DEF Contents
<1>3. Write(c)
  BY DEF Request
<1> HIDE DEF c
<1>4. LogTypes' /\ Current' = c /\ Len(log') >= Len(log)
  BY <1>2, <1>3, WriteAppends DEF LogTypes
<1> QED BY <1>2, <1>3, <1>4, WriteAppends DEF Extends

\* ... and so is a state.
LEMMA SaveExtends ==
  ASSUME LogTypes, NEW last \in Lasts, Save(last)
  PROVE  Extends
<1> DEFINE c == [last |-> last, transition |-> "", at |-> Len(log) + 1]
<1>1. c \in Contents
  <2>1. "" \in Asks /\ Len(log) + 1 \in Nat
    BY DEF Asks, LogTypes
  <2> QED BY <2>1 DEF Contents
<1>2. Write(c)
  BY DEF Save
<1> HIDE DEF c
<1> QED BY <1>1, <1>2, WriteAppends DEF Extends, LogTypes

\* Every step extends the log or leaves it.
LEMMA LogExtends ==
  ASSUME TypeOK, AtRequest, [Next]_vars
  PROVE  Extends
<1>0. LogTypes /\ ObserverTypes /\ HandlerTypes
  BY DEF TypeOK
<1>1. CASE UNCHANGED log
  BY <1>0, <1>1 DEF Extends, LogTypes
<1>2. ASSUME NEW t \in Requests, Ask(t) PROVE Extends
  <2>1. t \in Asks
    BY FailoverAssumption DEF Asks
  <2> QED BY <1>0, <1>2, <2>1, RequestExtends DEF Ask
<1>3. CASE RequestFailover
  <2>1. "golddr-primary" \in Asks
    BY DEF Asks, Transitions
  <2> QED BY <1>0, <1>3, <2>1, RequestExtends DEF RequestFailover
<1>4. CASE TakeNote
  <2>1. CASE Write([Current EXCEPT !.last = "independent", !.at = Len(log) + 1])
    <3>1. Current \in Contents
      BY <1>0 DEF LogTypes, Current
    <3> DEFINE c == [Current EXCEPT !.last = "independent", !.at = Len(log) + 1]
    <3>2. "independent" \in Lasts /\ Len(log) + 1 \in Nat
      BY <1>0 DEF Lasts, StableStates, LogTypes
    <3>3. c \in Contents
      BY <3>1, <3>2 DEF Contents
    <3>4. Write(c)
      BY <2>1
    <3> HIDE DEF c
    <3> QED BY <1>0, <3>3, <3>4, WriteAppends DEF Extends, LogTypes
  <2>2. CASE UNCHANGED log
    BY <2>2, <1>1
  <2>3. CASE Request("")
    <3>1. "" \in Asks
      BY DEF Asks
    <3> QED BY <1>0, <2>3, <3>1, RequestExtends
  <2> QED BY <1>4, <2>1, <2>2, <2>3 DEF TakeNote
<1>5. CASE FinishRequest
  <2>1. log[current].transition \in Transitions /\ current \in 1..Len(log)
    BY <1>0, <1>5 DEF AtRequest, FinishRequest, HandlerTypes, Positions
  <2>2. log[current].last \in Lasts
    <3>1. log[current] \in Contents
      BY <1>0, <2>1 DEF LogTypes
    <3> QED BY <3>1 DEF Contents
  <2>3. PICK end \in Ends(log[current].transition, log[current].last) : Save(end)
    BY <1>5 DEF FinishRequest
  <2>4. end \in Lasts
    BY <1>0, <2>1, <2>2, EndsAreStates DEF ObserverTypes
  <2> QED BY <1>0, <2>3, <2>4, SaveExtends
<1>6. CASE RebuildEnds
  <2>1. PICK t \in {"active-passive", "gold-standby"} : Save(Reached(t))
    BY <1>6 DEF RebuildEnds
  <2>2. Reached(t) \in Lasts
    BY DEF Reached, StableStates, Lasts
  <2> QED BY <1>0, <2>1, <2>2, SaveExtends
<1>7. \/ UNCHANGED log \/ RequestFailover \/ TakeNote \/ FinishRequest \/ RebuildEnds
      \/ \E t \in Requests : Ask(t)
  BY DEF Next, Observe, Handle, vars, Lookup, WatchReports, WatchOpens, Deliver, HearDns,
         DecideFailover, DnsRaises, TakeRequest, RequestRaises, TakeConsent,
         DnsChanges, LookupDies, WatchCloses, Restart
<1> QED BY <1>1, <1>2, <1>3, <1>4, <1>5, <1>6, <1>7
-----------------------------------------------------------------------------
(* The queue *)

\* What a step does to the queue and the marks of the log on either side.
QueueSteps == position' \in Int /\
    \/ UNCHANGED <<queue, seen, reported>> /\ position' >= position
    \/ /\ queue # <<>> /\ queue' = Tail(queue) /\ UNCHANGED <<position, reported>>
       /\ \/ UNCHANGED seen
          \/ Head(queue).kind = "state" /\ seen' = Head(queue).n
    \/ queue' = <<>> /\ seen' = 0 /\ reported' = 0 /\ UNCHANGED position
    \/ /\ queue' = Append(queue, [kind |-> "dns", answer |-> dns])
       /\ UNCHANGED <<seen, position, reported>>
    \/ /\ queue' = Append(queue, [kind |-> "state", n |-> position'])
       /\ reported' = position' /\ position' > reported /\ UNCHANGED seen

\* The watch is given its present content again or a newer one, and reports only
\* a newer one.
LEMMA DeliversNewer ==
  ASSUME LogTypes, ObserverTypes, UpToDate, NEW n \in {position + 1, Len(log)},
         position <= n, n <= Len(log), Deliver(n)
  PROVE  QueueSteps /\ UpToDate'
<1>1. /\ position \in Int /\ reported \in Int /\ 0 <= reported /\ reported <= position
      /\ n \in Int /\ n > 0
  BY DEF LogTypes, ObserverTypes, Positions, UpToDate
<1>2. position' = n /\ UNCHANGED <<log, seen>>
  BY DEF Deliver
<1>3. CASE IsNews(n)
  <2>1. reported' = n /\ queue' = Append(queue, [kind |-> "state", n |-> n])
    BY <1>3 DEF Deliver
  <2>2. n > reported
    <3>1. CASE reported = 0
      BY <1>1, <3>1
    <3>2. CASE reported > 0
      <4>1. log[n] # log[reported] /\ log[position] = log[reported]
        BY <1>1, <1>3, <3>2 DEF IsNews, UpToDate
      <4> QED BY <1>1, <4>1
    <3> QED BY <1>1, <3>1, <3>2
  <2> QED BY <1>1, <1>2, <2>1, <2>2 DEF QueueSteps, UpToDate
<1>4. CASE ~IsNews(n)
  <2>1. UNCHANGED <<reported, queue>> /\ reported # 0 /\ log[n] = log[reported]
    BY <1>4 DEF Deliver, IsNews
  <2> QED BY <1>1, <1>2, <2>1 DEF QueueSteps, UpToDate
<1> QED BY <1>3, <1>4

\* Every step does one of these, and the watch stays up to date.
LEMMA NextQueue ==
  ASSUME TypeOK, UpToDate, Extends, [Next]_vars
  PROVE  QueueSteps /\ UpToDate'
<1>0. LogTypes /\ ObserverTypes
  BY DEF TypeOK
<1>1. /\ position \in 0..Len(log) /\ reported \in 0..Len(log)
      /\ Len(log) \in Nat /\ Len(log) > 0 /\ reported <= position
  BY <1>0 DEF LogTypes, ObserverTypes, Positions, UpToDate
<1>2. CASE WatchReports
  <2>1. position + 1 <= Len(log) /\ Deliver(position + 1)
    BY <1>1, <1>2 DEF WatchReports
  <2> QED BY <1>0, <1>1, <2>1, DeliversNewer
<1>3. CASE WatchOpens
  <2>1. Deliver(Len(log))
    BY <1>3 DEF WatchOpens
  <2> QED BY <1>0, <1>1, <2>1, DeliversNewer
<1>4. CASE Restart
  BY <1>1, <1>4 DEF Restart, QueueSteps, UpToDate
<1>5. CASE UNCHANGED <<position, reported>>
  <2>0. position' = position /\ reported' = reported /\ position' \in Int
    BY <1>1, <1>5
  <2>1. UpToDate'
    BY <1>1, <1>5 DEF UpToDate, Extends
  <2>2. CASE Lookup
    BY <2>0, <2>1, <2>2 DEF Lookup, QueueSteps
  <2>3. CASE HearDns \/ DecideFailover
    BY <2>0, <2>1, <2>3 DEF HearDns, DecideFailover, Hears, QueueSteps
  <2>4. CASE DnsRaises
    BY <2>0, <2>1, <2>4 DEF DnsRaises, Hears, QueueSteps
  <2>5. CASE TakeNote \/ TakeRequest
    BY <2>0, <2>1, <2>5 DEF TakeNote, TakeRequest, Sees, Hears, QueueSteps
  <2>6. CASE UNCHANGED <<queue, seen>>
    BY <2>0, <2>1, <2>6 DEF QueueSteps
  <2>7. \/ Lookup \/ HearDns \/ DecideFailover \/ DnsRaises \/ TakeNote \/ TakeRequest
        \/ WatchReports \/ WatchOpens \/ Restart \/ UNCHANGED <<queue, seen>>
    BY DEF Next, Observe, Handle, vars, handling, RequestFailover, FinishRequest,
       RequestRaises, TakeConsent, RebuildEnds, Ask, DnsChanges, LookupDies, WatchCloses
  <2> QED BY <1>2, <1>3, <1>4, <2>1, <2>2, <2>3, <2>4, <2>5, <2>6, <2>7
<1>6. WatchReports \/ WatchOpens \/ Restart \/ UNCHANGED <<position, reported>>
  BY DEF Next, Observe, Handle, vars, handling, observers, Lookup, HearDns, DecideFailover,
     DnsRaises, RequestFailover, TakeNote, TakeRequest, FinishRequest, RequestRaises,
     TakeConsent, RebuildEnds, Ask, DnsChanges, LookupDies, WatchCloses
<1> QED BY <1>2, <1>3, <1>4, <1>5, <1>6

\* A step keeps the queue in the order of the log.
LEMMA PlacedKept ==
  ASSUME TypeOK, Placed, Ordered, QueueSteps
  PROVE  Placed' /\ Ordered'
<1>0. queue \in Seq(Events) /\ seen \in Nat /\ position \in Int /\ reported \in Nat
  BY DEF TypeOK, LogTypes, HandlerTypes, ObserverTypes, Positions
<1>1. \A i \in 1..Len(queue) : queue[i].kind = "state" => queue[i].n \in Int
  BY <1>0 DEF Events
<1> USE DEF Placed, Ordered
<1>2. CASE UNCHANGED <<queue, seen, reported>>
  BY <1>0, <1>1, <1>2
<1>3. CASE /\ queue # <<>> /\ queue' = Tail(queue) /\ UNCHANGED <<position, reported>>
           /\ \/ UNCHANGED seen
              \/ Head(queue).kind = "state" /\ seen' = Head(queue).n
  BY <1>0, <1>1, <1>3
<1>4. CASE queue' = <<>> /\ seen' = 0 /\ reported' = 0
  BY <1>0, <1>4
<1>5. CASE /\ queue' = Append(queue, [kind |-> "dns", answer |-> dns])
           /\ UNCHANGED <<seen, position, reported>>
  BY <1>0, <1>1, <1>5
<1>6. CASE /\ queue' = Append(queue, [kind |-> "state", n |-> position'])
           /\ reported' = position' /\ position' > reported /\ UNCHANGED seen
           /\ position' \in Int
  BY <1>0, <1>1, <1>6
<1> QED BY <1>2, <1>3, <1>4, <1>5, <1>6 DEF QueueSteps

\* A version of the log that is taken from the queue is one that was reported,
\* and newer than what was handled.
LEMMA TakenIsNewer ==
  ASSUME TypeOK, Placed, queue # <<>>, Head(queue).kind = "state"
  PROVE  Head(queue).n \in 1..Len(log) /\ Head(queue).n > seen
<1>1. /\ queue \in Seq(Events) /\ seen \in Nat /\ reported \in Nat
      /\ Len(log) \in Nat /\ reported <= Len(log)
  BY DEF TypeOK, LogTypes, HandlerTypes, ObserverTypes, Positions
<1>2. 1 \in 1..Len(queue) /\ Head(queue) = queue[1] /\ queue[1] \in Events
  BY <1>1
<1>3. queue[1].n \in Nat
  BY <1>2 DEF Events
<1> QED BY <1>1, <1>2, <1>3 DEF Placed
-----------------------------------------------------------------------------
(* Types *)

\* A step keeps the types of the observers' variables.
LEMMA ObserverTypesKept ==
  ASSUME TypeOK, Extends, [Next]_vars
  PROVE  ObserverTypes'
<1>a. ObserverTypes /\ LogTypes
  BY DEF TypeOK
<1>b. /\ position \in 0..Len(log) /\ reported \in 0..Len(log) /\ Len(log) > 0
      /\ Len(log) \in Nat /\ Len(log') \in Nat /\ Len(log') >= Len(log)
  BY <1>a DEF ObserverTypes, LogTypes, Extends, Positions
<1>1. CASE Lookup
  BY <1>a, <1>b, <1>1 DEF Lookup, ObserverTypes, Positions
<1>2. CASE WatchReports
  BY <1>a, <1>b, <1>2 DEF WatchReports, Deliver, ObserverTypes, Positions
<1>3. CASE WatchOpens
  BY <1>a, <1>b, <1>3 DEF WatchOpens, Deliver, ObserverTypes, Positions
<1>4. CASE HearDns
  BY <1>a, <1>b, <1>4 DEF HearDns, Hears, observers, ObserverTypes, Positions
<1>5. CASE DecideFailover
  BY <1>a, <1>b, <1>5 DEF DecideFailover, Hears, observers, ObserverTypes, Positions
<1>6. CASE DnsRaises
  BY <1>a, <1>b, <1>6 DEF DnsRaises, Hears, observers, ObserverTypes, Positions
<1>7. CASE RequestFailover
  BY <1>a, <1>b, <1>7 DEF RequestFailover, observers, ObserverTypes, Positions
<1>8. CASE TakeNote
  <2>1. UNCHANGED <<site, dns, observers>>
    BY <1>8 DEF TakeNote
  <2> QED BY <1>a, <1>b, <2>1 DEF observers, ObserverTypes, Positions
<1>9. CASE TakeRequest
  BY <1>a, <1>b, <1>9 DEF TakeRequest, Sees, Hears, observers, ObserverTypes, Positions
<1>10. CASE FinishRequest
  BY <1>a, <1>b, <1>10 DEF FinishRequest, observers, ObserverTypes, Positions
<1>11. CASE RequestRaises
  BY <1>a, <1>b, <1>11 DEF RequestRaises, observers, ObserverTypes, Positions
<1>12. CASE TakeConsent
  BY <1>a, <1>b, <1>12 DEF TakeConsent, observers, ObserverTypes, Positions
<1>13. CASE RebuildEnds
  BY <1>a, <1>b, <1>13 DEF RebuildEnds, observers, handling, ObserverTypes, Positions
<1>14. ASSUME NEW t \in Requests, Ask(t) PROVE ObserverTypes'
  BY <1>a, <1>b, <1>14 DEF Ask, observers, handling, ObserverTypes, Positions
<1>15. CASE DnsChanges
  BY <1>a, <1>b, <1>15 DEF DnsChanges, observers, handling, ObserverTypes, Positions
<1>16. CASE LookupDies
  BY <1>a, <1>b, <1>16 DEF LookupDies, handling, ObserverTypes, Positions
<1>17. CASE WatchCloses
  BY <1>a, <1>b, <1>17 DEF WatchCloses, handling, ObserverTypes, Positions
<1>18. CASE Restart
  <2>1. /\ UNCHANGED <<site, dns, log, position>> /\ reported' = 0
        /\ heard' = None /\ looking' = TRUE /\ watching' = FALSE
    BY <1>18 DEF Restart
  <2>2. heard' \in Answers \cup {None} /\ looking' \in BOOLEAN /\ watching' \in BOOLEAN
    BY <2>1, Zenon
  <2> QED BY <1>a, <1>b, <2>1, <2>2 DEF ObserverTypes, Positions
<1>19. CASE UNCHANGED vars
  BY <1>a, <1>b, <1>19 DEF vars, observers, handling, ObserverTypes, Positions
<1> QED BY <1>1, <1>2, <1>3, <1>4, <1>5, <1>6, <1>7, <1>8, <1>9, <1>10, <1>11, <1>12,
           <1>13, <1>14, <1>15, <1>16, <1>17, <1>18, <1>19 DEF Next, Observe, Handle

\* A step keeps the types of the histories.
LEMMA HistoryTypesKept ==
  ASSUME HistoryTypes, [Next]_vars
  PROVE  HistoryTypes'
<1>0. changes' \in 0..MaxChanges
  <2>1. MaxChanges \in Nat
    BY FailoverAssumption
  <2>2. UNCHANGED changes \/ Change
    BY DEF Next, Observe, Handle, vars, Lookup, WatchReports, WatchOpens, Deliver, HearDns,
       DecideFailover, DnsRaises, RequestFailover, TakeNote, TakeRequest, FinishRequest,
       RequestRaises, TakeConsent, RebuildEnds, Ask, DnsChanges, LookupDies, WatchCloses, Restart
  <2> QED BY <2>1, <2>2 DEF HistoryTypes, Change
<1>1. owed' \in BOOLEAN
  <2> USE DEF HistoryTypes
  <2>1. CASE WatchOpens
    BY <2>1, Zenon DEF WatchOpens
  <2>2. CASE RequestFailover
    BY <2>2, Zenon DEF RequestFailover
  <2>3. CASE FinishRequest
    BY <2>3, Zenon DEF FinishRequest
  <2>4. CASE Lookup \/ DecideFailover \/ DnsRaises \/ RequestRaises \/ RebuildEnds \/ Restart
    BY <2>4 DEF Lookup, DecideFailover, DnsRaises, RequestRaises, RebuildEnds, Restart
  <2>5. CASE UNCHANGED owed
    BY <2>5
  <2> QED BY <2>1, <2>2, <2>3, <2>4, <2>5 DEF Next, Observe, Handle, vars, WatchReports,
             HearDns, TakeNote, TakeRequest, TakeConsent, Ask, DnsChanges, LookupDies, WatchCloses
<1> QED BY <1>0, <1>1 DEF HistoryTypes

\* A step keeps the types of the handler's variables.
LEMMA HandlerTypesKept ==
  ASSUME TypeOK, Placed, QueueSteps, Extends, [Next]_vars
  PROVE  HandlerTypes'
<1>a. HandlerTypes /\ LogTypes /\ ObserverTypes
  BY DEF TypeOK
<1>1. queue' \in Seq(Events)
  <2>1. [kind |-> "dns", answer |-> dns] \in Events
    BY <1>a DEF ObserverTypes, Events
  <2>2. position' > reported => [kind |-> "state", n |-> position'] \in Events
    <3> SUFFICES ASSUME position' > reported PROVE position' \in Nat
      BY DEF Events
    <3> QED BY <1>a DEF QueueSteps, ObserverTypes, LogTypes, Positions
  <2>3. queue \in Seq(Events)
    BY <1>a DEF HandlerTypes
  <2>4. CASE queue # <<>> /\ queue' = Tail(queue)
    BY <2>3, <2>4
  <2>5. CASE queue' = <<>>
    BY <2>5
  <2>6. CASE queue' = Append(queue, [kind |-> "dns", answer |-> dns])
    BY <2>1, <2>3, <2>6
  <2>7. CASE position' > reported /\ queue' = Append(queue, [kind |-> "state", n |-> position'])
    BY <2>2, <2>3, <2>7
  <2> QED BY <2>3, <2>4, <2>5, <2>6, <2>7 DEF QueueSteps
<1>2. /\ current \in 0..Len(log) /\ asked \in 0..Len(log) /\ seen \in 0..Len(log)
      /\ Len(log) \in Nat /\ Len(log') \in Nat /\ Len(log') >= Len(log)
      /\ doing \in {"idle", "patching", "asking", "agreed"}
  BY <1>a DEF HandlerTypes, LogTypes, Extends, Positions
<1>3. seen' \in 0..Len(log) /\ (queue # <<>> /\ Head(queue).kind = "state" => Head(queue).n \in 0..Len(log))
  <2>1. queue # <<>> /\ Head(queue).kind = "state" => Head(queue).n \in 0..Len(log)
    BY <1>2, TakenIsNewer
  <2> QED BY <1>2, <2>1 DEF QueueSteps
<1>4. doing' \in {"idle", "patching", "asking", "agreed"}
  BY <1>2 DEF Next, Observe, Handle, vars, handling, Lookup, WatchReports, WatchOpens, Deliver,
     HearDns, DecideFailover, DnsRaises, RequestFailover, TakeNote, TakeRequest,
     FinishRequest, RequestRaises, TakeConsent, RebuildEnds, Ask, DnsChanges, LookupDies,
     WatchCloses, Restart
<1>5. current' \in 0..Len(log) /\ asked' \in 0..Len(log)
  <2>1. CASE TakeRequest
    BY <1>2, <1>3, <2>1 DEF TakeRequest, Sees, Hears
  <2>2. CASE FinishRequest \/ RequestRaises \/ TakeConsent \/ Restart
    BY <1>2, <2>2 DEF FinishRequest, RequestRaises, TakeConsent, Restart
  <2>3. CASE UNCHANGED <<current, asked>>
    BY <1>2, <2>3
  <2> QED BY <2>1, <2>2, <2>3 DEF Next, Observe, Handle, vars, handling, Lookup, WatchReports,
             WatchOpens, Deliver, HearDns, DecideFailover, DnsRaises, RequestFailover, TakeNote,
             RebuildEnds, Ask, DnsChanges, LookupDies, WatchCloses
<1> QED BY <1>1, <1>2, <1>3, <1>4, <1>5 DEF HandlerTypes, Positions

\* What is taken from the queue, or brought back by the peer, is a request.
LEMMA AtRequestKept ==
  ASSUME TypeOK, Placed, AtRequest, Extends, [Next]_vars
  PROVE  AtRequest'
<1>a. HandlerTypes /\ LogTypes /\ ObserverTypes
  BY DEF TypeOK
<1>1. CASE TakeRequest
  <2>3. Head(queue).n \in 1..Len(log)
    BY <1>1, TakenIsNewer DEF TakeRequest, Sees, Hears
  <2>4. Snapshot.transition \in Asks
    <3>1. Snapshot \in Contents
      BY <1>a, <2>3 DEF Snapshot, LogTypes
    <3> QED BY <3>1 DEF Contents
  <2>5. Snapshot.transition \in Transitions
    BY <1>1, <2>4, Zenon DEF TakeRequest, Asks
  <2>6. current' = Head(queue).n /\ UNCHANGED <<log, asked>>
    BY <1>1 DEF TakeRequest, Sees
  <2> QED BY <2>3, <2>5, <2>6 DEF AtRequest, Snapshot
<1>2. CASE TakeConsent
  BY <1>2 DEF TakeConsent, AtRequest
<1>3. CASE FinishRequest
  <2>1. current \in 1..Len(log) /\ asked \in 0..Len(log)
    BY <1>3, <1>a DEF FinishRequest, AtRequest, HandlerTypes, Positions
  <2>2. doing' = "idle" /\ (asked' = asked \/ asked' = current)
    BY <1>3 DEF FinishRequest
  <2>3. log[current].transition \in Transitions
    BY <1>3 DEF FinishRequest, AtRequest
  <2> QED BY <2>1, <2>2, <2>3 DEF AtRequest, Extends
<1>4. CASE RequestRaises \/ Restart
  BY <1>4 DEF RequestRaises, Restart, AtRequest
<1>5. CASE UNCHANGED <<current, asked>> /\ (doing' = doing \/ doing' \in {"idle", "patching"})
  <2>1. current \in 0..Len(log) /\ asked \in 0..Len(log)
    BY <1>a DEF HandlerTypes, Positions
  <2> QED BY <1>5, <2>1 DEF AtRequest, Extends
<1>6. \/ TakeRequest \/ TakeConsent \/ FinishRequest \/ RequestRaises \/ Restart
      \/ UNCHANGED <<current, asked>> /\ (doing' = doing \/ doing' \in {"idle", "patching"})
  BY DEF Next, Observe, Handle, vars, handling, Lookup, WatchReports, WatchOpens, Deliver,
     HearDns, DecideFailover, DnsRaises, RequestFailover, TakeNote, RebuildEnds, Ask,
     DnsChanges, LookupDies, WatchCloses
<1> QED BY <1>1, <1>2, <1>3, <1>4, <1>5, <1>6

\* The invariant that all of the rest follows from.
Inv == TypeOK /\ UpToDate /\ Placed /\ Ordered /\ AtRequest

\* It holds at the start ...
LEMMA InitInv == Init => Inv
<1> SUFFICES ASSUME Init PROVE Inv
  OBVIOUS
<1>1. /\ site \in Sites /\ dns = "active" /\ heard = None /\ position = 0 /\ reported = 0
      /\ looking = TRUE /\ watching = FALSE
  BY DEF Init
<1>2. queue = <<>> /\ doing = "idle" /\ current = 0 /\ asked = 0 /\ seen = 0
  BY DEF Init
<1>3. owed = FALSE /\ changes = 0 /\ MaxChanges \in Nat
  BY FailoverAssumption DEF Init
<1>4. LogTypes
  <2>1. \E c \in Contents : log = <<c>>
    <3>1. "active-passive" \in Lasts /\ "" \in Lasts /\ "" \in Asks
      BY DEF Lasts, StableStates, Asks
    <3>2. \A last \in Lasts : [last |-> last, transition |-> "", at |-> 1] \in Contents
      BY <3>1 DEF Contents
    <3> QED BY <3>1, <3>2, Zenon DEF Init
  <2>2. PICK c \in Contents : log = <<c>>
    BY <2>1
  <2>3. log \in Seq(Contents) /\ Len(log) = 1
    BY <2>2
  <2> QED BY <2>3 DEF LogTypes
<1>5. ObserverTypes
  <2>1. dns \in Answers /\ heard \in Answers \cup {None}
    BY <1>1 DEF Answers
  <2>2. position \in Positions /\ reported \in Positions
    BY <1>1, <1>4 DEF LogTypes, Positions
  <2> QED BY <1>1, <2>1, <2>2, Zenon DEF ObserverTypes
<1>6. HandlerTypes
  BY <1>2, <1>4 DEF HandlerTypes, LogTypes, Positions
<1>7. HistoryTypes
  <2>1. changes \in 0..MaxChanges
    BY <1>3
  <2> QED BY <1>3, <2>1, Zenon DEF HistoryTypes
<1>8. UpToDate /\ Placed /\ Ordered /\ AtRequest
  BY <1>1, <1>2 DEF UpToDate, Placed, Ordered, AtRequest
<1> QED BY <1>4, <1>5, <1>6, <1>7, <1>8 DEF Inv, TypeOK

\* ... and is kept by every step.
LEMMA InvKept ==
  ASSUME Inv, [Next]_vars
  PROVE  Inv'
<1>1. TypeOK /\ UpToDate /\ Placed /\ Ordered /\ AtRequest
  BY DEF Inv
<1>2. Extends
  BY <1>1, LogExtends
<1>3. LogTypes'
  BY <1>2 DEF Extends
<1>a. QueueSteps /\ UpToDate'
  BY <1>1, <1>2, NextQueue
<1>4. ObserverTypes' /\ HandlerTypes' /\ AtRequest'
  BY <1>1, <1>2, <1>a, ObserverTypesKept, HandlerTypesKept, AtRequestKept
<1>5. HistoryTypes'
  BY <1>1, HistoryTypesKept DEF TypeOK
<1>6. Placed' /\ Ordered'
  BY <1>1, <1>a, PlacedKept
<1> QED BY <1>3, <1>a, <1>4, <1>5, <1>6 DEF Inv, TypeOK
-----------------------------------------------------------------------------
(* Theorems *)

\* It always holds.
THEOREM InvHolds == Spec => []Inv
  BY InitInv, InvKept, PTL DEF Spec

\* Every variable keeps its type.
THEOREM TypeCorrect == Spec => []TypeOK
<1>1. Inv => TypeOK
  BY DEF Inv
<1> QED BY <1>1, InvHolds, PTL

\* A pod begins a request once for its watch, newer than all the watch has brought
\* it, and once for the peer's consent, however often watches break, versions are
\* skipped and the pod is replaced.
THEOREM RequestsTakenOnce == Spec => TakenOnce
<1> DEFINE Once == current' \notin {0, current} =>
                      current' > seen \/ (current' = asked /\ asked' = 0)
<1>1. Inv /\ [Next]_vars => Once
  <2> SUFFICES ASSUME Inv, [Next]_vars, current' \notin {0, current}
               PROVE  current' > seen \/ (current' = asked /\ asked' = 0)
    OBVIOUS
  <2>1. CASE TakeRequest
    <3>1. queue # <<>> /\ Head(queue).kind = "state" /\ current' = Head(queue).n
      BY <2>1 DEF TakeRequest, Sees, Hears
    <3> QED BY <3>1, TakenIsNewer DEF Inv
  <2>2. CASE TakeConsent
    BY <2>2 DEF TakeConsent
  <2>3. TakeRequest \/ TakeConsent \/ current' \in {0, current}
    BY DEF Next, Observe, Handle, vars, handling, Lookup, WatchReports, WatchOpens, Deliver,
       HearDns, DecideFailover, DnsRaises, RequestFailover, TakeNote, FinishRequest,
       RequestRaises, RebuildEnds, Ask, DnsChanges, LookupDies, WatchCloses, Restart
  <2> QED BY <2>1, <2>2, <2>3
<1>2. Inv /\ [Next]_vars => [Once]_vars
  BY <1>1
<1> QED BY <1>2, InvHolds, PTL DEF Spec, TakenOnce

\* A failover is requested only while the state it was decided on is recorded:
\* only the handler records states, and it does nothing else in between.
THEOREM DecisionHolds == Spec => []DecisionStillTrue
<1>1. Init => DecisionStillTrue
  BY DEF Init, DecisionStillTrue
<1>2. Inv /\ DecisionStillTrue /\ [Next]_vars => DecisionStillTrue'
  <2> SUFFICES ASSUME Inv, DecisionStillTrue, [Next]_vars, doing' = "patching"
               PROVE  Current'.last = "active-passive"
    BY DEF DecisionStillTrue
  <2>1. CASE DecideFailover
    BY <2>1 DEF DecideFailover, FailsOver, Current
  <2>2. ASSUME NEW t \in Requests, Ask(t) PROVE Current'.last = "active-passive"
    <3>1. t \in Asks /\ LogTypes
      BY FailoverAssumption DEF Asks, Inv, TypeOK
    <3>2. doing = "patching" /\ Request(t)
      BY <2>2 DEF Ask, handling
    <3> QED BY <3>1, <3>2, RequestExtends DEF DecisionStillTrue
  <2>3. CASE doing = "patching" /\ UNCHANGED log
    BY <2>3 DEF DecisionStillTrue, Current
  <2>4. \/ DecideFailover \/ (\E t \in Requests : Ask(t))
        \/ doing = "patching" /\ UNCHANGED log
    BY DEF Next, Observe, Handle, vars, handling, Lookup, WatchReports, WatchOpens, Deliver,
       HearDns, Hears, DnsRaises, RequestFailover, TakeNote, Sees, TakeRequest, FinishRequest,
       RequestRaises, TakeConsent, RebuildEnds, DnsChanges, LookupDies, WatchCloses, Restart
  <2> QED BY <2>1, <2>2, <2>3, <2>4
<1> QED BY <1>1, <1>2, InvHolds, PTL DEF Spec
=============================================================================
