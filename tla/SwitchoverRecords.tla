------------------------- MODULE SwitchoverRecords -------------------------
(***************************************************************************)
(* Proofs about Switchover: a consent still holds when it is used, a site  *)
(* at rest is what its ConfigMap records, and one of the sites serves the  *)
(* traffic.  When no message is delivered twice, a request is always in    *)
(* one place only (TokenInv): asked for at one site, or a single message.  *)
(* So nothing happens between a question and the use of its answer, the    *)
(* snapshot a handler writes back is still recorded, and an order reaches  *)
(* a passive site that can carry it out.                                   *)
(***************************************************************************)
EXTENDS SwitchoverProofs

LEMMA BothSites ==
    /\ ActiveSite \in Sites /\ PassiveSite \in Sites /\ ActiveSite # PassiveSite
    /\ Other(ActiveSite) = PassiveSite /\ Other(PassiveSite) = ActiveSite
    /\ \A s \in Sites : s = ActiveSite \/ s = PassiveSite
    /\ \A s, r \in Sites : Other(s) \in Sites /\ Other(s) # s /\ (r = s \/ r = Other(s))
BY DEF Sites, ActiveSite, PassiveSite, Other

\* The last state of a ConfigMap nobody has used, and the transition of one that
\* asks for nothing.
Nothing == ""

LEMMA SettledParts ==
    ASSUME NEW state, NEW v, v = [last |-> state, transition |-> ""]
    PROVE  v.last = state /\ v.transition = Nothing
BY DEF Nothing

LEMMA SnapshotParts ==
    /\ \A x \in Snapshots : /\ x.last \in StableStates \cup {Nothing}
                            /\ x.transition \in Transitions \cup {Nothing}
    /\ Nothing \notin Transitions /\ Nothing \notin StableStates
<1>1. \A x \in Snapshots : /\ x.last \in StableStates \cup {Nothing}
                           /\ x.transition \in Transitions \cup {Nothing}
  BY DEF Snapshots, Nothing
<1>2. Nothing \notin Transitions /\ Nothing \notin StableStates
  BY DEF Nothing, Transitions, StableStates
<1> QED  BY <1>1, <1>2
-----------------------------------------------------------------------------
(* A request is in one place only *)

\* The messages under way, and the sites that are asked for nothing.
NoMail == \A s \in Sites : inbox[s] = <<>> /\ outbox[s] = <<>>
OnlyMail(s, m) ==
    /\ inbox[s] = <<>> /\ outbox[Other(s)] = <<>>
    /\ \/ outbox[s] = <<m>> /\ inbox[Other(s)] = <<>>
       \/ outbox[s] = <<>> /\ inbox[Other(s)] = <<m>>
Idle(s) == \A t \in Asked(s) : t = Nothing

OneMessage == NoMail \/ \E s \in Sites : \E m \in Messages : OnlyMail(s, m)
OnePlace == /\ ~Idle(ActiveSite) => NoMail /\ Idle(PassiveSite) /\ triggers[ActiveSite] = {}
            /\ ~Idle(PassiveSite) => NoMail
TriggersLast == triggers[PassiveSite] # {} => InFlight = {}

\* It is the last snapshot of the watch, ...
NoneAsks(q) == \A i \in 1 .. Len(q) : q[i].transition = Nothing
LastAsks(q) == \A i \in 1 .. Len(q) : q[i].transition # Nothing => i = Len(q)
AsksLast == \A s \in Sites : LastAsks(watch[s])

\* ... and none from before the ConfigMap was adopted comes between.
Fresh == \A s \in Sites : cm[s].last = Nothing =>
            /\ \A snap \in Range(watch[s]) : snap.last = Nothing
            /\ "call" \notin Faults => watch[s] # <<>>
Adopted == InFlight # {} => \A s \in Sites : \A snap \in Range(watch[s]) :
                               snap.last = Nothing => snap.transition # Nothing

TokenInv == OneMessage /\ OnePlace /\ TriggersLast /\ AsksLast /\ Fresh /\ Adopted

\* No message is delivered twice.
Once == "duplicate" \notin Faults

LEMMA QueueAsks ==
    ASSUME NEW q \in Seq(Snapshots)
    PROVE  /\ NoneAsks(q) <=> \A snap \in Range(q) : snap.transition = Nothing
           /\ NoneAsks(q) => LastAsks(q)
           /\ \A x \in Snapshots : NoneAsks(q) => LastAsks(Append(q, x))
           /\ q # <<>> /\ LastAsks(q) =>
                /\ LastAsks(Tail(q))
                /\ Head(q).transition # Nothing => Tail(q) = <<>>
<1>1. Len(q) \in Nat /\ Range(q) = {q[i] : i \in 1 .. Len(q)}
  BY RangeEquality, LenProperties
<1>2. ASSUME NEW x \in Snapshots, NoneAsks(q)
      PROVE  LastAsks(Append(q, x))
  <2>1. Len(Append(q, x)) = Len(q) + 1 /\ \A i \in 1 .. Len(q) : Append(q, x)[i] = q[i]
    BY AppendProperties
  <2> QED  BY <1>1, <1>2, <2>1 DEF NoneAsks, LastAsks
<1>3. ASSUME q # <<>>, LastAsks(q)
      PROVE  /\ LastAsks(Tail(q))
             /\ Head(q).transition # Nothing => Tail(q) = <<>>
  <2> DEFINE r == Tail(q)
  <2>1. /\ Head(q) = q[1] /\ r \in Seq(Snapshots) /\ Len(r) = Len(q) - 1
        /\ \A i \in 1 .. Len(r) : r[i] = q[i + 1]
    BY <1>3, HeadTailProperties
  <2> HIDE DEF r
  <2>2. Len(q) # 0 /\ (Len(r) = 0 => r = <<>>) /\ Len(r) \in Nat
    BY <1>3, <2>1, EmptySeq, LenProperties
  <2>3. LastAsks(r) /\ (Head(q).transition # Nothing => r = <<>>)
    BY <1>1, <1>3, <2>1, <2>2 DEF LastAsks
  <2> QED  BY <2>3 DEF r
<1> QED  BY <1>1, <1>2, <1>3 DEF NoneAsks, LastAsks

LEMMA ShortQueues ==
    LastAsks(<<>>) /\ NoneAsks(<<>>) /\ \A x \in Snapshots : LastAsks(<<x>>)
BY DEF LastAsks, NoneAsks

\* The last snapshot of a watch is the ConfigMap.
LEMMA LastOfWatch ==
    ASSUME TypeOK, Latest, NEW s \in Sites, watch[s] # <<>>
    PROVE  cm[s] \in Range(watch[s])
<1>1. watch[s] \in Seq(Snapshots) /\ watch[s][Len(watch[s])] = cm[s]
  BY DEF TypeOK, Latest
<1>2. Len(watch[s]) \in 1 .. Len(watch[s])
  <2>1. Len(watch[s]) \in Nat /\ Len(watch[s]) # 0
    BY <1>1, EmptySeq, LenProperties
  <2> QED  BY <2>1
<1> QED  BY <1>1, <1>2, RangeEquality

\* Where a site is asked, its watch shows it.
LEMMA IdleWatch ==
    ASSUME Coordinated, WipeInv, NEW s \in Sites
    PROVE  /\ Idle(s) <=> NoneAsks(watch[s])
           /\ watch[s] = <<>> => Idle(s)
<1>1. watch[s] \in Seq(Snapshots)
  BY DEF WipeInv, TypeOK
<1>2. NoneAsks(watch[s]) <=> \A snap \in Range(watch[s]) : snap.transition = Nothing
  BY <1>1, QueueAsks
<1>3. Idle(s) <=> /\ \A snap \in Range(watch[s]) : snap.transition = Nothing
                  /\ "restart" \in Faults => cm[s].transition = Nothing
  BY DEF Idle, Asked
<1>4. "restart" \in Faults /\ watch[s] = <<>> => cm[s].transition = Nothing
  BY Zenon DEF Coordinated, WipeInv, Answered, Nothing
<1> QED  BY <1>2, <1>3, <1>4, LastOfWatch, ShortQueues DEF WipeInv

\* A request that is nowhere is not in flight.
LEMMA NothingInFlight ==
    ASSUME Idle(ActiveSite), Idle(PassiveSite), NoMail
    PROVE  InFlight = {} /\ ToPassive = {} /\ ToActive = {}
<1>1. ToPassive = {} /\ ToActive = {}
  BY BothSites, QueueEmpty DEF NoMail, ToPassive, ToActive
<1> QED  BY <1>1, SnapshotParts DEF InFlight, Idle

LEMMA NothingInFlightNext ==
    ASSUME Idle(ActiveSite)', Idle(PassiveSite)', NoMail'
    PROVE  InFlight' = {}
<1>1. ToPassive' = {} /\ ToActive' = {}
  BY BothSites, QueueEmpty DEF NoMail, ToPassive, ToActive
<1> QED  BY <1>1, SnapshotParts DEF InFlight, Idle

\* An order or a fired trigger adds a snapshot to the watch.
Ordering(r) == /\ TakeOrder(r) /\ r = PassiveSite /\ inbox[r] # <<>>
               /\ cm'[r].last = cm[r].last /\ cm'[r].transition \in Transitions
Firing(r) == /\ HearPatroni(r) /\ triggers[r] # {} /\ triggers'[r] = {}
             /\ cm'[r].transition = Nothing /\ cm'[r].last \in triggers[r]

LEMMA WatchStep ==
    ASSUME TypeOK, Channels, [Next]_vars, NEW r \in Sites,
           ~\E s \in Sites : (\E t \in Transitions : OperatorAsks(s, t)) \/ DnsFailover(s)
    PROVE  \/ cm'[r] = cm[r] /\ watch'[r] = watch[r]
           \/ Restart(r) /\ cm'[r] = cm[r] /\ watch'[r] = <<cm[r]>>
           \/ \E e \in StateEvents(r) : /\ Consume(r, e) /\ HandleEvent(r, e)
                                        /\ Writes(r, e) \/ WritesNothing(r, e)
           \/ watch'[r] = Append(watch[r], cm'[r]) /\ (Ordering(r) \/ Firing(r))
<1>1. ASSUME NEW s \in Sites, HandleState(s)
      PROVE  \/ cm'[r] = cm[r] /\ watch'[r] = watch[r]
             \/ \E e \in StateEvents(r) : /\ Consume(r, e) /\ HandleEvent(r, e)
                                          /\ Writes(r, e) \/ WritesNothing(r, e)
  <2>1. PICK e \in StateEvents(s) : Consume(s, e) /\ HandleEvent(s, e)
    BY <1>1, Handling
  <2> QED  BY <2>1, Recording
<1>2. ASSUME NEW s \in Sites, TakeOrder(s)
      PROVE  \/ cm'[r] = cm[r] /\ watch'[r] = watch[r]
             \/ watch'[r] = Append(watch[r], cm'[r]) /\ Ordering(r)
  <2> DEFINE data == [cm[s] EXCEPT !.transition = Head(inbox[s]).state]
  <2>1. /\ data \in Snapshots /\ watch[s] \in Seq(Snapshots) /\ cm[s] \in Snapshots
        /\ Head(inbox[s]).state \in Transitions /\ Head(inbox[s]).event = "transition_to"
        /\ Head(inbox[s]) \in Range(inbox[s]) /\ inbox[s] # <<>>
    BY <1>2, OrderTypes DEF TakeOrder, FromPeer, TypeOK
  <2>2. data.last = cm[s].last /\ data.transition \in Transitions
    BY <2>1 DEF Snapshots
  <2>3. Write(s, watch[s], data, FALSE)
    BY <1>2 DEF TakeOrder
  <2>4. s = PassiveSite
    BY <2>1, BothSites DEF Channels, ToActive, Answer
  <2> HIDE DEF data
  <2>5. Patched(s, watch[s], data)
    BY <2>1, <2>3, PatchEffect
  <2> QED  BY <1>2, <2>1, <2>2, <2>4, <2>5 DEF Patched, Ordering
<1>3. ASSUME NEW s \in Sites, HearPatroni(s), ~UNCHANGED <<cm, watch>>
      PROVE  \/ cm'[r] = cm[r] /\ watch'[r] = watch[r]
             \/ watch'[r] = Append(watch[r], cm'[r]) /\ Firing(r)
  <2>1. PICK u \in triggers[s] : SaveState(s, watch[s], u) /\ triggers' = Set(triggers, s, {})
    BY <1>3 DEF HearPatroni
  <2> DEFINE data == [last |-> u, transition |-> ""]
  <2>2. data \in Snapshots /\ data.last = u /\ watch[s] \in Seq(Snapshots)
    BY SettledSnapshot DEF TypeOK
  <2>3. Write(s, watch[s], data, TRUE)
    BY <2>1 DEF SaveState
  <2>4. data.transition = Nothing
    BY DEF Nothing
  <2>5. triggers'[s] = {}
    BY <2>1 DEF Set, TypeOK
  <2> HIDE DEF data
  <2>6. Patched(s, watch[s], data)
    BY <2>2, <2>3, PatchEffect
  <2> QED  BY <1>3, <2>2, <2>4, <2>5, <2>6 DEF Patched, Firing
<1>4. ASSUME NEW s \in Sites, Restart(s)
      PROVE  \/ cm'[r] = cm[r] /\ watch'[r] = watch[r]
             \/ Restart(r) /\ cm'[r] = cm[r] /\ watch'[r] = <<cm[r]>>
  BY <1>4 DEF Restart, Set, TypeOK
<1>5. CASE UNCHANGED <<cm, watch>>
  BY <1>5
<1> QED  BY <1>1, <1>2, <1>3, <1>4, <1>5 DEF Next, Confirm, Poll, Rebuilt, Deliver, Drop,
           PeerChanges, vars

LEMMA AskedTypes ==
    ASSUME TypeOK, NEW s \in Sites
    PROVE  /\ \A t \in Asked(s) : t = Nothing \/ t \in InFlight
           /\ ~Idle(s) => InFlight # {}
<1>1. \A snap \in Range(watch[s]) : snap.transition \in Transitions \cup {Nothing}
  <2>1. watch[s] \in Seq(Snapshots)
    BY DEF TypeOK
  <2>2. \A i \in 1 .. Len(watch[s]) : watch[s][i] \in Snapshots
    BY <2>1, ElementOfSeq
  <2> QED  BY <2>1, <2>2, RangeEquality, SnapshotParts
<1>2. cm[s].transition \in Transitions \cup {Nothing}
  BY SnapshotParts DEF TypeOK
<1> QED  BY <1>1, <1>2, BothSites DEF Asked, InFlight, Idle

\* The event of a handler, as the request it may be about.
LEMMA EventAsks ==
    ASSUME WipeInv, TokenInv, NEW s \in Sites, NEW e \in StateEvents(s)
    PROVE  /\ e.snap.transition \in Transitions \cup {Nothing}
           /\ Asks(e) => /\ e.snap.transition \in Transitions /\ e.snap.last # Nothing
                         /\ e.snap.transition # e.snap.last
           /\ e.peer_ok => /\ s = ActiveSite /\ Asks(e) /\ ~NoMail
                           /\ inbox[s] = <<[event |-> "yes_happy_to_proceed", item |-> e.snap]>>
                           /\ inbox[PassiveSite] = <<>> /\ \A r \in Sites : outbox[r] = <<>>
                           /\ Idle(ActiveSite) /\ Idle(PassiveSite)
           /\ ~e.peer_ok /\ e.snap.transition # Nothing => ~Idle(s) /\ e.watch = <<>>
           /\ LastAsks(e.watch)
<1> USE DEF WipeInv
<1>1. Asks(e) => /\ e.snap.transition \in Transitions /\ e.snap.last # Nothing
                 /\ e.snap.transition # e.snap.last
  BY StartingWork, Zenon DEF Asks, Nothing
<1>2. ASSUME e.peer_ok
      PROVE  /\ s = ActiveSite /\ Asks(e) /\ ~NoMail
             /\ inbox[s] = <<[event |-> "yes_happy_to_proceed", item |-> e.snap]>>
             /\ inbox[PassiveSite] = <<>> /\ \A r \in Sites : outbox[r] = <<>>
             /\ Idle(ActiveSite) /\ Idle(PassiveSite)
  <2>1. /\ inbox[s] # <<>> /\ e.snap = Head(inbox[s]).item /\ s = ActiveSite
        /\ Head(inbox[s]).event = "yes_happy_to_proceed" /\ Consentable(e.snap)
    BY <1>2, EventTypes, EventSource
  <2>2. ~NoMail /\ Idle(ActiveSite) /\ Idle(PassiveSite)
    BY <2>1, BothSites DEF NoMail, TokenInv, OnePlace
  <2>3. PICK m \in Messages : /\ inbox[s] = <<m>> /\ inbox[PassiveSite] = <<>>
                              /\ \A r \in Sites : outbox[r] = <<>>
    BY <2>1, <2>2, BothSites DEF TokenInv, OneMessage, OnlyMail
  <2>4. m.event = "yes_happy_to_proceed" /\ m.item = e.snap
    BY <2>1, <2>3
  <2>5. m = [event |-> "yes_happy_to_proceed", item |-> e.snap]
    BY <2>4 DEF Messages
  <2>6. Asks(e)
    BY <2>1, Zenon DEF Consentable, Asks, NeedsConsent
  <2> QED  BY <2>1, <2>2, <2>3, <2>5, <2>6
<1>3. /\ e.watch = watch[s] \/ (~e.peer_ok /\ watch[s] # <<>> /\ e.snap = Head(watch[s]) /\ e.watch = Tail(watch[s]))
      /\ watch[s] \in Seq(Snapshots) /\ LastAsks(watch[s])
      /\ ~e.peer_ok => e.watch = Tail(watch[s]) /\ watch[s] # <<>> /\ e.snap = Head(watch[s])
  BY EventTypes DEF TypeOK, TokenInv, AsksLast
<1>4. ~e.peer_ok /\ e.snap.transition # Nothing => ~Idle(s) /\ e.watch = <<>>
  <2>1. ~e.peer_ok => e.snap.transition \in Asked(s)
    BY EventSource DEF Asked
  <2> QED  BY <1>3, <2>1, QueueAsks DEF Idle
<1>5. LastAsks(e.watch)
  BY <1>3, QueueAsks
<1>6. e.snap.transition \in Transitions \cup {Nothing}
  BY EventTypes, SnapshotParts
<1> QED  BY <1>1, <1>2, <1>4, <1>5, <1>6

\* A handler writes no ConfigMap that was never used.
LEMMA StateWritten ==
    ASSUME TypeOK, NEW s \in Sites, NEW e \in StateEvents(s), Writes(s, e),
           cm[s].last = Nothing => e.snap.last = Nothing \/ Asks(e)
    PROVE  cm'[s].last # Nothing
<1>1. \/ cm'[s].last = cm[s].last /\ ~Asks(e) /\ e.snap.last # Nothing
      \/ cm'[s].last = e.snap.last /\ Asks(e)
      \/ cm'[s].last = "independent"
      \/ Asks(e) /\ cm'[s].last = Reached(e.snap.transition)
      \/ /\ Asks(e) /\ Work(s, e.snap.transition) = "standby"
         /\ cm'[s].last \in {e.snap.transition, Partial(e.snap.transition)}
      \/ Asks(e) /\ cm'[s].last = e.snap.transition
  BY Zenon DEF Writes, LastRecorded, Starting, Nothing
<1>2. Asks(e) => e.snap.last # Nothing
  BY Zenon DEF Asks, Nothing
<1>3. Asks(e) => e.snap.transition \in Transitions
  BY StartingWork
<1>4. Asks(e) => /\ Reached(e.snap.transition) \in StableStates
                 /\ Work(s, e.snap.transition) = "standby" => Partial(e.snap.transition) \in StableStates
  BY <1>3, Recordings, StartingWork DEF NeedsConsent
<1>5. "independent" \in StableStates
  BY DEF StableStates
<1> QED  BY <1>1, <1>2, <1>3, <1>4, <1>5, SnapshotParts

\* What a handler leaves in its watch: no state before the adoption, no request
\* behind another snapshot, and no request when it has handled one.
LEMMA HandledWatch ==
    ASSUME Coordinated, WipeInv, TokenInv, NEW s \in Sites, NEW e \in StateEvents(s),
           Consume(s, e), HandleEvent(s, e)
    PROVE  /\ Writes(s, e) => cm'[s].last # Nothing
           /\ LastAsks(watch'[s])
           /\ Asks(e) => Idle(s)'
<1> USE DEF WipeInv
<1>r. /\ cm' \in [Sites -> Snapshots] /\ watch' \in [Sites -> Seq(Snapshots)]
      /\ Writes(s, e) \/ WritesNothing(s, e)
  BY Recording
<1>e. e.watch \in Seq(Snapshots) /\ e.snap \in Snapshots
  BY EventTypes
<1>1. ASSUME Writes(s, e)
      PROVE  cm'[s].last # Nothing
  <2>1. cm[s].last = Nothing => e.snap.last = Nothing \/ Asks(e)
    BY EventAsks, EventSource DEF TokenInv, Fresh
  <2> QED  BY <1>1, <2>1, StateWritten
<1>2. ASSUME Writes(s, e)
      PROVE  NoneAsks(e.watch)
  <2>1. CASE e.peer_ok
    <3>1. e.watch = watch[s] /\ Idle(s)
      BY <2>1, EventAsks, EventTypes
    <3> QED  BY <3>1, IdleWatch
  <2>2. CASE ~e.peer_ok /\ e.snap.transition # Nothing
    BY <2>2, EventAsks, ShortQueues
  <2>3. CASE ~e.peer_ok /\ e.snap.transition = Nothing
    <3>1. e.snap.last = Nothing
      <4>1. ~Asks(e) /\ \A work : ~Starting(s, e, work)
        BY <2>3, EventAsks, SnapshotParts DEF Starting
      <4> QED  BY <1>1, <1>2, <2>3, <4>1, Zenon DEF Writes, LastRecorded, Nothing
    <3>2. e.snap \in Range(watch[s])
      BY <2>3, EventSource
    <3>3. InFlight = {}
      BY <2>3, <3>1, <3>2 DEF TokenInv, Adopted
    <3>4. NoneAsks(watch[s])
      BY <3>3, AskedTypes, IdleWatch
    <3>5. \A snap \in Range(e.watch) : snap.transition = Nothing
      <4>1. watch[s] \in Seq(Snapshots)
        BY DEF TypeOK
      <4>2. \A snap \in Range(watch[s]) : snap.transition = Nothing
        BY <3>4, <4>1, QueueAsks
      <4>3. Range(e.watch) \subseteq Range(watch[s])
        BY EventTypes
      <4> QED  BY <4>2, <4>3
    <3> QED  BY <1>e, <3>5, QueueAsks
  <2> QED  BY <2>1, <2>2, <2>3
<1>3. LastAsks(watch'[s])
  <2>1. CASE Writes(s, e)
    <3>1. \A x \in Snapshots : LastAsks(Append(e.watch, x))
      BY <1>e, <1>2, <2>1, QueueAsks
    <3>2. watch'[s] = Append(e.watch, cm'[s]) /\ cm'[s] \in Snapshots
      BY <1>r, <2>1 DEF Writes
    <3> QED  BY <3>1, <3>2
  <2>2. CASE WritesNothing(s, e)
    BY <2>2, EventAsks DEF WritesNothing
  <2> QED  BY <1>r, <2>1, <2>2
<1>4. ASSUME Asks(e)
      PROVE  Idle(s)'
  <2>1. NoneAsks(e.watch)
    <3>1. CASE e.peer_ok
      <4>1. Idle(s) /\ e.watch = watch[s]
        BY <3>1, EventAsks, EventTypes
      <4> QED  BY <4>1, IdleWatch
    <3>2. CASE ~e.peer_ok
      <4>1. e.watch = <<>>
        BY <1>4, <3>2, EventAsks, SnapshotParts
      <4> QED  BY <4>1, ShortQueues
    <3> QED  BY <3>1, <3>2
  <2>2. \A snap \in Range(e.watch) : snap.transition = Nothing
    BY <1>e, <2>1, QueueAsks
  <2>3. CASE Writes(s, e)
    <3>1. cm'[s].transition = Nothing
      BY <1>4, <2>3, Zenon DEF Writes, Asks, Nothing
    <3> QED  BY <2>2, <2>3, <3>1 DEF Writes, Idle, Asked
  <2>4. CASE WritesNothing(s, e)
    <3>1. cm'[s] = cm[s] /\ watch'[s] = e.watch
      BY <2>4 DEF WritesNothing
    <3>2. ASSUME "restart" \in Faults
          PROVE  cm[s].transition = Nothing
      <4>1. "call" \notin Faults
        BY <3>2 DEF Coordinated
      <4>2. CASE e.peer_ok
        <5>1. NoneAsks(watch[s]) /\ watch[s] \in Seq(Snapshots)
          BY <4>2, EventAsks, IdleWatch DEF TypeOK
        <5>2. watch[s] # <<>> => cm[s].transition = Nothing
          BY <5>1, LastOfWatch, QueueAsks
        <5>3. watch[s] = <<>> => cm[s].transition = Nothing
          BY <4>1, Zenon DEF Answered, Nothing
        <5> QED  BY <5>2, <5>3
      <4>3. CASE ~e.peer_ok
        <5>1. Answered'
          BY LatestHandled
        <5>2. watch'[s] = <<>>
          BY <1>4, <3>1, <4>3, EventAsks, SnapshotParts
        <5> QED  BY <3>1, <4>1, <5>1, <5>2, Zenon DEF Answered, Nothing
      <4> QED  BY <4>2, <4>3
    <3> QED  BY <2>2, <3>1, <3>2 DEF Idle, Asked
  <2> QED  BY <1>r, <2>3, <2>4
<1> QED  BY <1>1, <1>3, <1>4

LEMMA OneAppended ==
    ASSUME NEW S, NEW x \in S
    PROVE  Append(<<>>, x) = <<x>> /\ Head(<<x>>) = x /\ Tail(<<x>>) = <<>> /\ <<x>> # <<>>
OBVIOUS

LEMMA OneCopy ==
    ASSUME NEW S, NEW x \in S
    PROVE  <<>> \o [i \in 1 .. 1 |-> Head(<<x>>)] = <<x>>
<1> DEFINE c == [i \in 1 .. 1 |-> x]
<1>1. c \in Seq(S) /\ Len(c) = 1 /\ c[1] = x
  <2>1. c \in [1 .. 1 -> S]
    OBVIOUS
  <2> QED  BY <2>1, SeqDef, LenProperties
<1>2. c = <<x>>
  BY <1>1
<1>3. <<>> \o c = c
  BY <1>1, ConcatEmptySeq
<1> QED  BY <1>2, <1>3

\* A handler sends one message, when there is no other.
LEMMA HandledMail ==
    ASSUME Coordinated, WipeInv, TokenInv, NEW s \in Sites, NEW e \in StateEvents(s),
           Consume(s, e), HandleEvent(s, e)
    PROVE  /\ s = ActiveSite /\ Asks(e) => /\ NoMail' \/ \E m \in Messages : OnlyMail(s, m)'
                                        /\ \A r \in Sites : inbox'[r] = <<>> /\ outbox[r] = <<>>
           /\ s = PassiveSite \/ ~Asks(e) => inbox' = inbox /\ outbox' = outbox
<1> USE DEF WipeInv
<1>t. /\ inbox \in [Sites -> Seq(Messages)] /\ outbox \in [Sites -> Seq(Messages)]
      /\ outbox' \in [Sites -> Seq(Messages)]
      /\ inbox' \in [Sites -> Seq(Messages)]
      /\ inbox'[s] = e.inbox /\ \A r \in Sites \ {s} : inbox'[r] = inbox[r]
      /\ \A r \in Sites \ {s} : outbox'[r] = outbox[r]
      /\ outbox'[s] = outbox[s] \/ Sends(s, e)
  BY Sending, EventTypes DEF Consume, Set, TypeOK
<1>1. ASSUME s = ActiveSite, Asks(e)
      PROVE  /\ NoMail' \/ \E m \in Messages : OnlyMail(s, m)'
             /\ \A r \in Sites : inbox'[r] = <<>> /\ outbox[r] = <<>>
  <2>1. \A r \in Sites : inbox'[r] = <<>> /\ outbox[r] = <<>>
    <3>1. CASE e.peer_ok
      <4>1. inbox[s] = <<[event |-> "yes_happy_to_proceed", item |-> e.snap]>>
            /\ e.inbox = Tail(inbox[s])
            /\ inbox[PassiveSite] = <<>> /\ \A r \in Sites : outbox[r] = <<>>
        BY <3>1, EventAsks, EventTypes
      <4>2. e.inbox = <<>>
        BY <4>1
      <4> QED  BY <1>t, <1>1, <4>1, <4>2, BothSites
    <3>2. CASE ~e.peer_ok
      <4>1. NoMail /\ e.inbox = inbox[s]
        <5>1. e.snap.transition # Nothing
          BY <1>1, EventAsks, SnapshotParts
        <5>2. ~Idle(ActiveSite) /\ e.inbox = inbox[s]
          BY <1>1, <3>2, <5>1, EventAsks, EventTypes
        <5> QED  BY <5>2 DEF TokenInv, OnePlace
      <4> QED  BY <1>t, <4>1 DEF NoMail
    <3> QED  BY <3>1, <3>2
  <2>2. CASE outbox'[s] = outbox[s]
    BY <1>t, <2>1, <2>2 DEF NoMail
  <2>3. CASE Sends(s, e)
    <3>1. PICK m \in Messages : outbox'[s] = Append(outbox[s], m)
      BY <2>3 DEF Sends
    <3>2. outbox'[s] = <<m>>
      BY <2>1, <3>1, OneAppended
    <3> QED  BY <1>t, <1>1, <2>1, <3>2, BothSites DEF OnlyMail
  <2> QED  BY <1>t, <2>1, <2>2, <2>3
<1>2. ASSUME s = PassiveSite \/ ~Asks(e)
      PROVE  inbox' = inbox /\ outbox' = outbox
  <2>1. ~e.peer_ok /\ e.inbox = inbox[s]
    BY <1>2, EventAsks, EventTypes, BothSites
  <2>2. ~Sends(s, e)
    BY <1>2, BothSites DEF Sends
  <2> QED  BY <1>t, <2>1, <2>2
<1> QED  BY <1>1, <1>2

LEMMA MailStep ==
    ASSUME Coordinated, Once, WipeInv, TokenInv, [Next]_vars
    PROVE  /\ OneMessage'
           /\ NoMail => \/ NoMail'
                        \/ \E e \in StateEvents(ActiveSite) :
                              Consume(ActiveSite, e) /\ HandleEvent(ActiveSite, e) /\ Asks(e)
<1> USE DEF WipeInv
<1> DEFINE Asking == \E e \in StateEvents(ActiveSite) :
                        Consume(ActiveSite, e) /\ HandleEvent(ActiveSite, e) /\ Asks(e)
<1>t. inbox \in [Sites -> Seq(Messages)] /\ outbox \in [Sites -> Seq(Messages)]
  BY DEF TypeOK
<1>o. NoMail \/ \E r \in Sites : \E m \in Messages : OnlyMail(r, m)
  BY DEF TokenInv, OneMessage
<1>1. ASSUME NEW s \in Sites, HandleState(s), ~UNCHANGED <<inbox, outbox>>
      PROVE  OneMessage' /\ Asking
  <2>1. PICK e \in StateEvents(s) : Consume(s, e) /\ HandleEvent(s, e)
    BY <1>1, Handling
  <2>2. s = ActiveSite /\ Asks(e)
    BY <1>1, <2>1, HandledMail, BothSites
  <2> QED  BY <2>1, <2>2, HandledMail DEF OneMessage
<1>2. ASSUME NEW s \in Sites, TakeOrder(s) \/ Confirm(s)
      PROVE  OneMessage' /\ ~NoMail
  <2>1. PICK m \in Messages : OnlyMail(Other(s), m) /\ inbox[s] = <<m>> /\ outbox[s] = <<>>
    BY <1>2, <1>o, BothSites DEF TakeOrder, Confirm, FromPeer, NoMail, OnlyMail
  <2>2. /\ \A r \in Sites : inbox'[r] = <<>>
        /\ \A r \in Sites : outbox[r] = <<>>
        /\ Head(inbox[s]) = m
    <3>1. inbox' = Set(inbox, s, <<>>) /\ Head(inbox[s]) = m
      BY <1>2, <2>1, OneAppended DEF TakeOrder, Confirm
    <3>2. inbox[Other(s)] = <<>> /\ outbox[Other(s)] = <<>>
      BY <2>1, BothSites DEF OnlyMail
    <3> QED  BY <1>t, <2>1, <3>1, <3>2, BothSites DEF Set
  <2>3. CASE outbox' = outbox
    BY <2>1, <2>2, <2>3 DEF OneMessage, NoMail
  <2>4. CASE /\ m.event = "confirm_happy_to_proceed"
             /\ Forward(s, [event |-> "yes_happy_to_proceed", item |-> m.item])
    <3> DEFINE answer == [event |-> "yes_happy_to_proceed", item |-> m.item]
    <3>1. answer \in Messages
      BY <2>4 DEF Messages
    <3>2. Forward(s, answer)
      BY <2>4
    <3> HIDE DEF answer
    <3>3. /\ \A r \in Sites \ {s} : outbox'[r] = outbox[r]
          /\ outbox'[s] = <<answer>>
      BY <2>2, <3>1, <3>2, ForwardEffect, OneAppended
    <3>4. OnlyMail(s, answer)'
      BY <2>2, <3>3, BothSites DEF OnlyMail
    <3> QED  BY <2>1, <3>1, <3>4 DEF OneMessage, NoMail
  <2> QED  BY <1>2, <2>1, <2>2, <2>3, <2>4 DEF TakeOrder, Confirm, FromPeer
<1>3. ASSUME NEW s \in Sites, Deliver(s)
      PROVE  OneMessage' /\ ~NoMail
  <2>1. PICK m \in Messages : OnlyMail(s, m) /\ outbox[s] = <<m>> /\ inbox[Other(s)] = <<>>
    BY <1>3, <1>o, BothSites DEF Deliver, NoMail, OnlyMail
  <2>2. inbox' = Received(s, 1) /\ outbox' = Set(outbox, s, <<>>)
    BY <1>3, <2>1, OneAppended DEF Deliver, Copies, Once
  <2>3. inbox[Other(s)] \o [i \in 1 .. 1 |-> Head(outbox[s])] = <<m>>
    BY <2>1, OneCopy
  <2>4. /\ inbox'[Other(s)] = <<m>> /\ outbox'[s] = <<>>
        /\ inbox'[s] = inbox[s] /\ outbox'[Other(s)] = outbox[Other(s)]
    <3>1. inbox' = Set(inbox, Other(s), <<m>>)
      BY <2>2, <2>3 DEF Received
    <3> QED  BY <1>t, <2>2, <3>1, BothSites DEF Set
  <2>5. OnlyMail(s, m)'
    BY <2>1, <2>4 DEF OnlyMail
  <2> QED  BY <1>3, <2>1, <2>5 DEF OneMessage, NoMail, Deliver
<1>4. ASSUME NEW s \in Sites, Drop(s) \/ Restart(s)
      PROVE  OneMessage' /\ (NoMail => NoMail')
  <2>1. /\ inbox'[s] \in {inbox[s], <<>>}
        /\ outbox'[s] = <<>> \/ (outbox[s] # <<>> /\ outbox'[s] = Tail(outbox[s]))
        /\ \A r \in Sites \ {s} : inbox'[r] = inbox[r] /\ outbox'[r] = outbox[r]
    BY <1>4, <1>t DEF Drop, Restart, Set
  <2>2. outbox'[s] = <<>>
    <3>1. ASSUME outbox[s] # <<>>
          PROVE  Tail(outbox[s]) = <<>>
      <4>1. PICK m \in Messages : outbox[s] = <<m>>
        BY <1>o, <3>1, BothSites DEF NoMail, OnlyMail
      <4> QED  BY <4>1
    <3> QED  BY <2>1, <3>1
  <2>3. CASE NoMail
    BY <2>1, <2>2, <2>3 DEF NoMail, OneMessage
  <2>4. ASSUME NEW r \in Sites, NEW m \in Messages, OnlyMail(r, m)
        PROVE  NoMail' \/ OnlyMail(r, m)'
    BY <2>1, <2>2, <2>4, BothSites DEF OnlyMail, NoMail
  <2> QED  BY <1>o, <2>3, <2>4 DEF OneMessage, NoMail
<1>5. CASE UNCHANGED <<inbox, outbox>>
  BY <1>5, <1>o DEF OneMessage, NoMail, OnlyMail
<1> QED  BY <1>1, <1>2, <1>3, <1>4, <1>5 DEF Next, Poll, HearPatroni, Rebuilt,
           PeerChanges, OperatorAsks, DnsFailover, vars

\* Without operators a site is asked for something only by an order.
LEMMA IdleStep ==
    ASSUME WipeInv, [Next]_vars, NEW r \in Sites, Idle(r), ~Idle(r)',
           ~\E s \in Sites : (\E t \in Transitions : OperatorAsks(s, t)) \/ DnsFailover(s)
    PROVE  TakeOrder(r) /\ r = PassiveSite /\ inbox[r] # <<>>
<1>1. PICK t \in Asked(r)' : t # Nothing
  BY DEF Idle
<1>2. t # "" /\ t \notin Asked(r)
  BY <1>1, Zenon DEF Idle, Nothing
<1>3. TakeOrder(r) /\ r = PassiveSite
  BY <1>2, AskedStep DEF WipeInv
<1> QED  BY <1>3 DEF TakeOrder, FromPeer

LEMMA WatchesStep ==
    ASSUME Coordinated, WipeInv, TokenInv, [Next]_vars,
           ~\E s \in Sites : (\E t \in Transitions : OperatorAsks(s, t)) \/ DnsFailover(s)
    PROVE  AsksLast' /\ Fresh' /\ Adopted'
<1> USE DEF WipeInv
<1>t. /\ cm \in [Sites -> Snapshots] /\ watch \in [Sites -> Seq(Snapshots)]
      /\ cm' \in [Sites -> Snapshots] /\ watch' \in [Sites -> Seq(Snapshots)]
  BY TypeStep DEF TypeOK
<1> SUFFICES ASSUME NEW r \in Sites
             PROVE  /\ LastAsks(watch'[r])
                    /\ cm'[r].last = Nothing =>
                          /\ \A snap \in Range(watch'[r]) : snap.last = Nothing
                          /\ "call" \notin Faults => watch'[r] # <<>>
                    /\ InFlight' # {} => \A snap \in Range(watch'[r]) :
                          snap.last = Nothing => snap.transition # Nothing
  BY DEF AsksLast, Fresh, Adopted
<1>o. /\ LastAsks(watch[r])
      /\ cm[r].last = Nothing =>
            /\ \A snap \in Range(watch[r]) : snap.last = Nothing
            /\ "call" \notin Faults => watch[r] # <<>>
      /\ InFlight' # {} => \A snap \in Range(watch[r]) :
            snap.last = Nothing => snap.transition # Nothing
  BY NoNewDemand DEF TokenInv, AsksLast, Fresh, Adopted
<1>1. CASE cm'[r] = cm[r] /\ watch'[r] = watch[r]
  BY <1>o, <1>1
<1>2. CASE Restart(r) /\ cm'[r] = cm[r] /\ watch'[r] = <<cm[r]>>
  <2>1. LastAsks(watch'[r]) /\ Range(watch'[r]) = {cm[r]} /\ watch'[r] # <<>>
    BY <1>t, <1>2, ShortQueues, QueueOfOne
  <2>2. "call" \notin Faults
    BY <1>2 DEF Restart, Coordinated
  <2>3. cm[r].last = Nothing => cm[r] \in Range(watch[r])
    BY <1>o, <2>2, LastOfWatch
  <2> QED  BY <1>o, <1>2, <2>1, <2>3
<1>3. ASSUME NEW e \in StateEvents(r), Consume(r, e), HandleEvent(r, e),
             Writes(r, e) \/ WritesNothing(r, e)
      PROVE  /\ LastAsks(watch'[r])
             /\ cm'[r].last = Nothing =>
                   /\ \A snap \in Range(watch'[r]) : snap.last = Nothing
                   /\ "call" \notin Faults => watch'[r] # <<>>
             /\ InFlight' # {} => \A snap \in Range(watch'[r]) :
                   snap.last = Nothing => snap.transition # Nothing
  <2>1. LastAsks(watch'[r]) /\ (Writes(r, e) => cm'[r].last # Nothing)
    BY <1>3, HandledWatch
  <2>2. Range(e.watch) \subseteq Range(watch[r])
    BY EventTypes
  <2>3. CASE Writes(r, e)
    BY <1>o, <2>1, <2>2, <2>3 DEF Writes
  <2>4. CASE WritesNothing(r, e)
    <3>1. cm'[r] = cm[r] /\ watch'[r] = e.watch
      BY <2>4 DEF WritesNothing
    <3>2. ASSUME cm[r].last = Nothing, "call" \notin Faults
          PROVE  e.watch # <<>>
      <4>1. e.snap.last # Nothing
        BY <2>4, <3>2, Zenon DEF WritesNothing, Nothing
      <4>2. e.peer_ok
        BY <1>o, <3>2, <4>1, EventSource
      <4>3. e.watch = watch[r]
        BY <4>2, EventTypes
      <4> QED  BY <1>o, <3>2, <4>3
    <3> QED  BY <1>o, <2>1, <2>2, <3>1, <3>2
  <2> QED  BY <1>3, <2>3, <2>4
<1>4. CASE watch'[r] = Append(watch[r], cm'[r]) /\ (Ordering(r) \/ Firing(r))
  <2>1. Range(watch'[r]) = Range(watch[r]) \cup {cm'[r]} /\ watch'[r] # <<>>
    BY <1>t, <1>4, QueueAppended
  <2>2. Idle(r)
    <3>1. CASE Ordering(r)
      BY <3>1, BothSites DEF Ordering, TokenInv, OnePlace, NoMail
    <3>2. CASE Firing(r) /\ r = ActiveSite
      BY <3>2 DEF Firing, TokenInv, OnePlace
    <3>3. CASE Firing(r) /\ r = PassiveSite
      BY <3>3, AskedTypes DEF Firing, TokenInv, TriggersLast
    <3> QED  BY <1>4, <3>1, <3>2, <3>3, BothSites
  <2>3. NoneAsks(watch[r])
    BY <2>2, IdleWatch
  <2>4. LastAsks(watch'[r])
    BY <1>t, <1>4, <2>3, QueueAsks
  <2>5. \/ cm'[r].last = cm[r].last /\ cm'[r].transition # Nothing
        \/ cm'[r].last # Nothing
    <3>1. triggers[r] \subseteq StableStates
      BY DEF TypeOK
    <3> QED  BY <1>4, <3>1, SnapshotParts DEF Ordering, Firing
  <2> QED  BY <1>o, <2>1, <2>4, <2>5
<1> QED  BY <1>1, <1>2, <1>3, <1>4, WatchStep

LEMMA PlaceStep ==
    ASSUME Coordinated, Once, WipeInv, TokenInv, [Next]_vars,
           ~\E s \in Sites : (\E t \in Transitions : OperatorAsks(s, t)) \/ DnsFailover(s)
    PROVE  OnePlace' /\ TriggersLast'
<1> USE DEF WipeInv
<1>1. InFlight' \subseteq InFlight
  BY NoNewDemand
<1>m. ASSUME NoMail, ~NoMail'
      PROVE  Idle(ActiveSite)' /\ ~Idle(ActiveSite)
  <2>1. PICK e \in StateEvents(ActiveSite) :
               Consume(ActiveSite, e) /\ HandleEvent(ActiveSite, e) /\ Asks(e)
    BY <1>m, MailStep
  <2> QED  BY <1>m, <2>1, HandledWatch, EventAsks, BothSites, SnapshotParts
<1>a. ~Idle(ActiveSite)' => ~Idle(ActiveSite)
  BY IdleStep, BothSites
<1>t. ASSUME NEW r \in Sites
      PROVE  \/ triggers'[r] \subseteq triggers[r]
             \/ \E e \in StateEvents(r) : Consume(r, e) /\ HandleEvent(r, e) /\ Asks(e)
  <2>1. ASSUME NEW s \in Sites, HandleState(s)
        PROVE  \/ triggers'[r] \subseteq triggers[r]
               \/ \E e \in StateEvents(r) : Consume(r, e) /\ HandleEvent(r, e) /\ Asks(e)
    <3>1. PICK e \in StateEvents(s) : Consume(s, e) /\ HandleEvent(s, e)
      BY <2>1, Handling
    <3>2. triggers'[r] = triggers[r] \/ (r = s /\ Asks(e))
      BY <3>1, Working DEF Starting
    <3> QED  BY <3>1, <3>2
  <2>2. ASSUME NEW s \in Sites, HearPatroni(s) \/ Restart(s)
        PROVE  triggers'[r] \subseteq triggers[r]
    BY <2>2 DEF HearPatroni, Restart, Set, TypeOK
  <2>3. CASE triggers' = triggers
    BY <2>3
  <2> QED  BY <2>1, <2>2, <2>3 DEF Next, TakeOrder, Confirm, Poll, Rebuilt, Deliver, Drop,
             PeerChanges, vars, databases
<1>2. ASSUME ~Idle(ActiveSite)'
      PROVE  NoMail' /\ Idle(PassiveSite)' /\ triggers'[ActiveSite] = {}
  <2>1. /\ NoMail /\ Idle(PassiveSite) /\ triggers[ActiveSite] = {} /\ NoMail'
    BY <1>2, <1>a, <1>m DEF TokenInv, OnePlace
  <2>2. Idle(PassiveSite)'
    BY <2>1, IdleStep, BothSites DEF NoMail
  <2>3. triggers'[ActiveSite] = {}
    BY <1>2, <1>t, <2>1, HandledWatch, BothSites
  <2> QED  BY <2>1, <2>2, <2>3
<1>3. ASSUME ~Idle(PassiveSite)'
      PROVE  NoMail'
  <2>1. CASE ~Idle(PassiveSite)
    <3>1. NoMail /\ Idle(ActiveSite)
      BY <2>1 DEF TokenInv, OnePlace
    <3> QED  BY <1>m, <3>1
  <2>2. CASE Idle(PassiveSite)
    <3>1. TakeOrder(PassiveSite) /\ inbox[PassiveSite] # <<>>
      BY <1>3, <2>2, IdleStep, BothSites
    <3>2. PICK m \in Messages : /\ inbox[PassiveSite] = <<m>> /\ inbox[ActiveSite] = <<>>
                                /\ \A r \in Sites : outbox[r] = <<>>
      BY <3>1, BothSites DEF TokenInv, OneMessage, OnlyMail, NoMail
    <3>3. inbox' = Set(inbox, PassiveSite, <<>>) /\ outbox' = outbox
      BY <3>1, <3>2, OneAppended DEF TakeOrder
    <3> QED  BY <3>2, <3>3, BothSites DEF NoMail, Set, TypeOK
  <2> QED  BY <2>1, <2>2
<1>4. ASSUME triggers'[PassiveSite] # {}
      PROVE  InFlight' = {}
  <2>1. CASE triggers'[PassiveSite] \subseteq triggers[PassiveSite]
    BY <1>1, <1>4, <2>1 DEF TokenInv, TriggersLast
  <2>2. ASSUME NEW e \in StateEvents(PassiveSite), Consume(PassiveSite, e),
               HandleEvent(PassiveSite, e), Asks(e)
        PROVE  InFlight' = {}
    <3>1. ~e.peer_ok /\ ~Idle(PassiveSite) /\ Idle(PassiveSite)'
      <4>1. e.snap.transition # Nothing
        BY <2>2, EventAsks, BothSites, SnapshotParts
      <4>2. ~e.peer_ok /\ ~Idle(PassiveSite)
        BY <2>2, <4>1, EventAsks, BothSites
      <4>3. Idle(PassiveSite)'
        BY <2>2, HandledWatch, BothSites
      <4> QED  BY <4>2, <4>3
    <3>2. Idle(ActiveSite) /\ NoMail
      BY <3>1 DEF TokenInv, OnePlace
    <3>3. Idle(ActiveSite)' /\ NoMail'
      BY <1>a, <1>m, <3>2
    <3> QED  BY <3>1, <3>3, NothingInFlightNext
  <2> QED  BY <1>t, <2>1, <2>2, BothSites
<1> QED  BY <1>2, <1>3, <1>4 DEF OnePlace, TriggersLast

\* Operators ask when nothing moves.
LEMMA QuietRequest ==
    ASSUME Coordinated, WipeInv, NEW s \in Sites, NEW t \in Transitions, OperatorAsks(s, t)
    PROVE  /\ NoMail /\ NoMail' /\ (\A r \in Sites : Idle(r) /\ triggers[r] = {})
           /\ UNCHANGED <<view, inbox, outbox, peer, databases, traffic>>
           /\ \A r \in Sites : Quiet(r)
           /\ \A r \in Sites \ {s} : cm'[r] = cm[r] /\ watch'[r] = watch[r] /\ Idle(r)'
           /\ \/ cm'[s] = cm[s] /\ watch'[s] = <<>> /\ Idle(s)'
              \/ /\ watch'[s] = <<cm'[s]>> /\ cm'[s].last = cm[s].last /\ cm'[s].transition = t
                 /\ cm'[s] \in Snapshots
<1> USE DEF WipeInv
<1>q. \A r \in Sites : Quiet(r)
  BY DEF Coordinated, OperatorAsks
<1>u. UNCHANGED <<view, inbox, outbox, peer, databases, traffic>>
  BY DEF OperatorAsks
<1>1. NoMail /\ NoMail' /\ \A r \in Sites : triggers[r] = {} /\ watch[r] = <<>>
  BY <1>q, <1>u DEF Quiet, NoMail
<1>2. \A r \in Sites : Idle(r)
  BY <1>1, IdleWatch
<1> DEFINE data == [cm[s] EXCEPT !.transition = t]
<1>3. /\ data \in Snapshots /\ data.transition = t /\ data.last = cm[s].last
      /\ watch[s] \in Seq(Snapshots)
  BY DEF TypeOK, Snapshots
<1>4. Patch(s, watch[s], data, FALSE)
  BY DEF OperatorAsks
<1> HIDE DEF data
<1>5. Patched(s, watch[s], data)
  BY <1>3, <1>4, PatchEffect
<1>6. Append(<<>>, data) = <<data>>
  BY <1>3, OneAppended
<1>7. \A r \in Sites : cm'[r] = cm[r] /\ watch'[r] = watch[r] => Idle(r)'
  <2>1. \A r \in Sites : cm'[r] = cm[r] /\ watch'[r] = watch[r] => Asked(r)' = Asked(r)
    BY DEF Asked
  <2> QED  BY <1>2, <2>1 DEF Idle
<1> QED  BY <1>q, <1>u, <1>1, <1>2, <1>3, <1>5, <1>6, <1>7 DEF Patched

LEMMA TokenInvInit == Coordinated /\ Init => TokenInv
<1> SUFFICES ASSUME Coordinated, Init PROVE TokenInv
  OBVIOUS
<1>1. WipeInv
  BY WipeInvInit
<1>2. NoMail /\ \A s \in Sites : triggers[s] = {} /\ watch[s] = <<cm[s]>> /\ cm[s] \in Snapshots
  BY <1>1 DEF Init, NoMail, WipeInv, TypeOK
<1>3. \A s \in Sites : cm[s].transition = Nothing
  <2>1. PICK last : cm = [s \in Sites |-> [last |-> last, transition |-> ""]]
    BY DEF Init
  <2> QED  BY <2>1 DEF Nothing
<1>4. \A s \in Sites : Range(watch[s]) = {cm[s]} /\ watch[s] # <<>>
  <2>1. \A x \in Snapshots : Range(<<x>>) = {x} /\ <<x>> # <<>>
    BY QueueOfOne
  <2> QED  BY <1>2, <2>1
<1>5. \A s \in Sites : Idle(s)
  BY <1>3, <1>4 DEF Idle, Asked
<1>6. InFlight = {}
  BY <1>2, <1>5, NothingInFlight, BothSites
<1>7. OneMessage /\ OnePlace /\ TriggersLast
  BY <1>2, <1>5, <1>6, BothSites DEF OneMessage, OnePlace, TriggersLast
<1>8. AsksLast
  BY <1>2, ShortQueues DEF AsksLast
<1>9. Fresh /\ Adopted
  BY <1>4, <1>6 DEF Fresh, Adopted
<1> QED  BY <1>7, <1>8, <1>9 DEF TokenInv

LEMMA TokenInvStep ==
    ASSUME Coordinated, Once, WipeInv, TokenInv, [Next]_vars
    PROVE  TokenInv'
<1>1. CASE \E s \in Sites : (\E t \in Transitions : OperatorAsks(s, t)) \/ DnsFailover(s)
  <2>1. PICK s \in Sites, t \in Transitions : OperatorAsks(s, t)
    BY <1>1 DEF Coordinated, DnsFailover
  <2>q. /\ NoMail' /\ \A r \in Sites : triggers'[r] = {}
        /\ \A r \in Sites : watch[r] = <<>>
        /\ \A r \in Sites \ {s} : cm'[r] = cm[r] /\ watch'[r] = watch[r] /\ Idle(r)'
        /\ \/ cm'[s] = cm[s] /\ watch'[s] = <<>> /\ Idle(s)'
           \/ /\ watch'[s] = <<cm'[s]>> /\ cm'[s].last = cm[s].last /\ cm'[s].transition = t
              /\ cm'[s] \in Snapshots
    BY <2>1, QuietRequest DEF databases, Quiet
  <2>3. OneMessage' /\ OnePlace' /\ TriggersLast'
    <3>1. ~Idle(ActiveSite)' => Idle(PassiveSite)'
      BY <2>q, BothSites
    <3> QED  BY <2>q, <3>1, BothSites DEF OneMessage, OnePlace, TriggersLast
  <2>4. Fresh'
    <3>1. watch'[s] = <<cm'[s]>> /\ cm'[s] \in Snapshots => Range(watch'[s]) = {cm'[s]} /\ watch'[s] # <<>>
      BY QueueOfOne
    <3>2. \A r \in Sites : cm'[r] = cm[r] /\ watch'[r] = watch[r] => 
             (cm'[r].last = Nothing => /\ \A snap \in Range(watch'[r]) : snap.last = Nothing
                                       /\ "call" \notin Faults => watch'[r] # <<>>)
      BY DEF TokenInv, Fresh
    <3>3. \/ watch[s] = watch'[s] /\ cm'[s] = cm[s]
          \/ (Range(watch'[s]) = {cm'[s]} /\ watch'[s] # <<>>)
      BY <2>q, <3>1
    <3> QED  BY <2>q, <3>2, <3>3 DEF Fresh
  <2>5. AsksLast' /\ Adopted'
    <3>1. \A r \in Sites : \/ watch'[r] = <<>>
                          \/ /\ watch'[r] = <<cm'[r]>> /\ Range(watch'[r]) = {cm'[r]}
                             /\ cm'[r] \in Snapshots /\ cm'[r].transition # Nothing
      <4>1. \A x \in Snapshots : Range(<<x>>) = {x}
        BY QueueOfOne
      <4> QED  BY <2>q, <4>1, SnapshotParts
    <3> QED  BY <3>1, ShortQueues, QueueEmpty DEF AsksLast, Adopted
  <2> QED  BY <2>3, <2>4, <2>5 DEF TokenInv
<1>2. CASE ~\E s \in Sites : (\E t \in Transitions : OperatorAsks(s, t)) \/ DnsFailover(s)
  BY <1>2, MailStep, PlaceStep, WatchesStep DEF TokenInv
<1> QED  BY <1>1, <1>2
-----------------------------------------------------------------------------
(* A consent stays true *)

\* While a request for a consent is under way the passive site is what it was, ...
AsItWas == \A t \in NeedsConsent \cap InFlight :
              Idle(PassiveSite) /\ RequiredState(t) \in Recorded => Recorded = {RequiredState(t)}

\* ... and when it has consented, that is the state it confirmed.
ConsentHolds == \A m \in ToActive : /\ cm[PassiveSite].last = RequiredState(m.item.transition)
                                   /\ cm[PassiveSite].transition = Nothing

LEMMA RequiredStates ==
    ASSUME NEW t \in NeedsConsent
    PROVE  /\ RequiredState(t) \in {"gold-standby", "golddr-primary"}
           /\ t \in {"active-passive", "gold-standby"}
           /\ RequiredState(t) # Nothing /\ RequiredState(t) \in StableStates
BY DEF RequiredState, NeedsConsent, Nothing, StableStates

\* A consent is one message, and no site is asked for anything then.
LEMMA ConsentAlone ==
    ASSUME WipeInv, TokenInv, NEW m \in ToActive
    PROVE  /\ Idle(ActiveSite) /\ Idle(PassiveSite) /\ ~NoMail
           /\ inbox[PassiveSite] = <<>> /\ outbox[ActiveSite] = <<>>
           /\ m.item.transition \in NeedsConsent \cap InFlight /\ Answer(m)
<1>1. Answer(m)
  BY DEF WipeInv, Channels
<1>2. m.item.transition \in NeedsConsent \cap InFlight
  <2>1. m.item.transition \in NeedsConsent /\ Demand(m) = m.item.transition
    BY <1>1 DEF Answer, Consentable, Demand
  <2>2. NeedsConsent \subseteq Transitions
    BY DEF NeedsConsent, Transitions
  <2> QED  BY <2>1, <2>2 DEF InFlight
<1>3. inbox[ActiveSite] # <<>> \/ outbox[PassiveSite] # <<>>
  BY QueueEmpty DEF ToActive
<1>4. ~NoMail /\ Idle(ActiveSite) /\ Idle(PassiveSite)
  BY <1>3, BothSites DEF NoMail, TokenInv, OnePlace
<1>5. inbox[PassiveSite] = <<>> /\ outbox[ActiveSite] = <<>>
  BY <1>3, <1>4, BothSites DEF TokenInv, OneMessage, OnlyMail
<1> QED  BY <1>1, <1>2, <1>4, <1>5

\* A request that has been handled leaves nothing in flight.
LEMMA IdleStays ==
    ASSUME Coordinated, Once, WipeInv, TokenInv, [Next]_vars, ~Idle(PassiveSite), Idle(PassiveSite)',
           ~\E s \in Sites : (\E t \in Transitions : OperatorAsks(s, t)) \/ DnsFailover(s)
    PROVE  InFlight' = {}
<1>1. NoMail /\ Idle(ActiveSite)
  BY DEF TokenInv, OnePlace
<1>2. Idle(ActiveSite)'
  BY <1>1, IdleStep, BothSites
<1>3. NoMail'
  <2>1. ASSUME NEW e \in StateEvents(ActiveSite), Asks(e)
        PROVE  FALSE
    BY <1>1, <2>1, EventAsks, BothSites, SnapshotParts
  <2> QED  BY <1>1, <2>1, MailStep
<1> QED  BY <1>2, <1>3, NothingInFlightNext

LEMMA AsItWasStep ==
    ASSUME Coordinated, Once, WipeInv, TokenInv, AsItWas, [Next]_vars
    PROVE  AsItWas'
<1>1. CASE \E s \in Sites : (\E t \in Transitions : OperatorAsks(s, t)) \/ DnsFailover(s)
  <2>1. PICK s \in Sites, t \in Transitions : OperatorAsks(s, t)
    BY <1>1 DEF Coordinated, DnsFailover
  <2>2. Recorded' = {cm[PassiveSite].last}
    BY <2>1, NewDemand
  <2> QED  BY <2>2 DEF AsItWas
<1>2. CASE ~\E s \in Sites : (\E t \in Transitions : OperatorAsks(s, t)) \/ DnsFailover(s)
  <2> SUFFICES ASSUME NEW t \in NeedsConsent \cap InFlight', Idle(PassiveSite)',
                      RequiredState(t) \in Recorded'
               PROVE  Recorded' = {RequiredState(t)}
    BY DEF AsItWas
  <2> DEFINE q == RequiredState(t)
  <2>1. t \in InFlight /\ InFlight = {t} /\ triggers[PassiveSite] = {}
    BY <1>2, NoNewDemand DEF WipeInv, OneRequest, TokenInv, TriggersLast
  <2>2. Idle(PassiveSite)
    BY <1>2, IdleStays
  <2>3. ASSUME NEW x \in Recorded'
        PROVE  x \in Recorded \/ (x = "independent" /\ Nothing \in Recorded)
    <3>1. /\ {"golddr-primary", "golddr-maintenance"} \cap InFlight = {}
          /\ "active-passive" \notin Asked(PassiveSite) /\ "gold-standby" \notin Asked(PassiveSite)
      <4>1. "active-passive" # Nothing /\ "gold-standby" # Nothing
        BY DEF Nothing
      <4> QED  BY <2>1, <2>2, <4>1, RequiredStates DEF Idle
    <3>2. \/ x \in Recorded
          \/ x = "independent" /\ "" \in Recorded
          \/ x \in {"golddr-primary", "golddr-maintenance"} \cap InFlight
          \/ "active-passive" \in InFlight \cap Asked(PassiveSite)
          \/ x \in {"gold-standby"} \cap InFlight \cap Asked(PassiveSite)
          \/ x \in triggers[PassiveSite]
      BY <1>2, <2>3, RecordStep
    <3> QED  BY <2>1, <3>1, <3>2, Zenon DEF Nothing
  <2>4. Recorded = {q}
    BY <2>1, <2>2, <2>3, RequiredStates DEF AsItWas
  <2> QED  BY <2>3, <2>4, RequiredStates
<1> QED  BY <1>1, <1>2

LEMMA ConsentHoldsStep ==
    ASSUME Coordinated, Once, WipeInv, TokenInv, AsItWas, ConsentHolds, [Next]_vars
    PROVE  ConsentHolds'
<1> DEFINE P == PassiveSite
<1>1. CASE \E s \in Sites : (\E t \in Transitions : OperatorAsks(s, t)) \/ DnsFailover(s)
  <2>1. PICK s \in Sites, t \in Transitions : OperatorAsks(s, t)
    BY <1>1 DEF Coordinated, DnsFailover
  <2> QED  BY <2>1, NewDemand DEF ConsentHolds
<1>2. CASE ~\E s \in Sites : (\E t \in Transitions : OperatorAsks(s, t)) \/ DnsFailover(s)
  <2> SUFFICES ASSUME NEW m \in ToActive'
               PROVE  /\ cm'[P].last = RequiredState(m.item.transition)
                      /\ cm'[P].transition = Nothing
    BY DEF ConsentHolds
  <2> DEFINE t == m.item.transition
  <2>1. CASE m \in ToActive
    <3>1. /\ cm[P].last = RequiredState(t) /\ cm[P].transition = Nothing
          /\ Idle(P) /\ inbox[P] = <<>> /\ t \in NeedsConsent \cap InFlight
      BY <2>1, ConsentAlone DEF ConsentHolds
    <3>2. Recorded = {RequiredState(t)}
      BY <3>1 DEF AsItWas, Recorded
    <3>3. triggers[P] = {}
      BY <3>1 DEF TokenInv, TriggersLast
    <3>4. ASSUME NEW e \in StateEvents(P), Consume(P, e), Writes(P, e)
          PROVE  FALSE
      <4>1. ~e.peer_ok /\ e.snap \in Range(watch[P])
        BY EventAsks, EventSource, BothSites DEF WipeInv
      <4>2. e.snap.transition = Nothing
        BY <3>1, <4>1, EventAsks, BothSites
      <4>3. e.snap.last # Nothing
        BY <3>1, <3>2, <4>1, RequiredStates DEF Recorded
      <4>4. \A work : ~Starting(P, e, work)
        BY <4>2, EventAsks, BothSites, SnapshotParts DEF Starting
      <4>5. ~Asks(e)
        BY <4>2, EventAsks, BothSites, SnapshotParts
      <4> QED  BY <3>4, <4>2, <4>3, <4>4, <4>5, Zenon DEF Writes, LastRecorded, Nothing
    <3>5. TypeOK /\ Channels
      BY DEF WipeInv
    <3> QED  BY <1>2, <3>1, <3>3, <3>4, <3>5, WatchStep, BothSites DEF WritesNothing, Ordering, Firing
  <2>2. CASE m \notin ToActive
    <3>1. /\ Answer(m) /\ Demand(m) \in InFlight
          /\ Confirm(P) /\ inbox[P] # <<>> /\ Happy(P, RequiredState(t))
      BY <2>2, MailToActive DEF WipeInv
    <3>2. t \in NeedsConsent \cap InFlight
      BY <3>1 DEF Answer, Consentable, Demand
    <3>3. /\ view[P].last = RequiredState(t) /\ view[P].transition = Nothing
          /\ view[P] # None
      <4>1. view[P] = [last |-> RequiredState(t), transition |-> ""]
        BY <3>1 DEF Happy
      <4>2. view[P] \in Snapshots
        BY <3>2, <4>1, RequiredStates, SettledSnapshot
      <4>3. view[P].last = RequiredState(t) /\ view[P].transition = Nothing
        BY <4>1, SettledParts
      <4> QED  BY <4>2, <4>3, NoneDistinct
    <3>4. Idle(P)
      BY <3>1, BothSites DEF NoMail, TokenInv, OnePlace
    <3>5. cm[P].last = RequiredState(t)
      BY <3>2, <3>3, <3>4 DEF AsItWas, Recorded
    <3>6. cm[P].transition = Nothing
      <4>1. CASE watch[P] = <<>>
        BY <3>3, <4>1 DEF WipeInv, Handled
      <4>2. CASE watch[P] # <<>>
        <5>1. cm[P] \in Range(watch[P])
          BY <4>2, LastOfWatch, BothSites DEF WipeInv
        <5> QED  BY <3>4, <5>1 DEF Idle, Asked
      <4> QED  BY <4>1, <4>2
    <3>7. cm' = cm
      BY <3>1 DEF Confirm
    <3> QED  BY <3>5, <3>6, <3>7
  <2> QED  BY <2>1, <2>2
<1> QED  BY <1>1, <1>2

LEMMA ConsentInit ==
    ASSUME Coordinated, Init
    PROVE  WipeInv /\ TokenInv /\ AsItWas /\ ConsentHolds
<1>1. WipeInv /\ TokenInv
  BY WipeInvInit, TokenInvInit
<1>2. InFlight = {} /\ ToActive = {}
  <2>1. NoMail
    BY DEF Init, NoMail
  <2>2. \A s \in Sites : cm[s].transition = Nothing
    <3>1. PICK last : cm = [s \in Sites |-> [last |-> last, transition |-> ""]]
      BY DEF Init
    <3> QED  BY <3>1 DEF Nothing
  <2>3. \A s \in Sites : Range(watch[s]) = {cm[s]}
    <3>1. \A x \in Snapshots : Range(<<x>>) = {x} /\ <<x>> # <<>>
      BY QueueOfOne
    <3> QED  BY <1>1, <3>1 DEF Init, WipeInv, TypeOK
  <2>4. \A s \in Sites : Idle(s)
    BY <2>2, <2>3 DEF Idle, Asked
  <2> QED  BY <2>1, <2>4, NothingInFlight, BothSites
<1> QED  BY <1>1, <1>2 DEF AsItWas, ConsentHolds

\* The active site is wiped only while the passive one is recorded as the primary
\* site and asked for nothing: what it confirmed is still true when the consent
\* is used, however late the messages and the ConfigMap events are.
THEOREM ConsentsStayTrue ==
    ASSUME Coordinated, Once
    PROVE  Spec => ConsentStillTrue
<1> DEFINE Inv == WipeInv /\ TokenInv /\ AsItWas /\ ConsentHolds
<1>1. Init => Inv
  BY ConsentInit
<1>2. Inv /\ [Next]_vars => Inv'
  BY WipeInvStep, TokenInvStep, AsItWasStep, ConsentHoldsStep
<1>3. Inv /\ [Next]_vars =>
        [db[ActiveSite] # "rebuilding" /\ db'[ActiveSite] = "rebuilding"
         => cm[PassiveSite] = [last |-> "golddr-primary", transition |-> ""]]_vars
  <2> SUFFICES ASSUME Inv, [Next]_vars,
                      db[ActiveSite] # "rebuilding", db'[ActiveSite] = "rebuilding"
               PROVE  cm[PassiveSite] = [last |-> "golddr-primary", transition |-> ""]
    OBVIOUS
  <2>1. PICK m \in ToActive : m.item.transition = "gold-standby"
    BY DatabaseStep, BothSites DEF MayWipe
  <2>2. /\ cm[PassiveSite].last = "golddr-primary" /\ cm[PassiveSite].transition = Nothing
        /\ cm[PassiveSite] \in Snapshots
    BY <2>1, BothSites DEF ConsentHolds, RequiredState, WipeInv, TypeOK
  <2> QED  BY <2>2 DEF Snapshots, Nothing
<1> QED  BY <1>1, <1>2, <1>3, PTL DEF Spec, ConsentStillTrue
-----------------------------------------------------------------------------
(* The sites are what their ConfigMaps record *)

NoCalls == "call" \notin Faults

\* The transition in which a site becomes a standby, and the databases of one.
StandbyFor(s) == IF s = ActiveSite THEN "gold-standby" ELSE "active-passive"
Replica(s) == db[s] \in {"standby", "rebuilding"}

\* What a site wrote back before it asked for a consent is still recorded when the
\* consent arrives, ...
Current == \A m \in ToPassive \cup ToActive :
              m.event # "transition_to" => m.item.last = cm[ActiveSite].last

\* ... a site that is to become a standby believes that it is one only if it is, ...
Honest == \A s \in Sites : StandbyFor(s) \in InFlight =>
             ("standby_leader" \in {patroni[s], polled[s]} => Replica(s))

\* ... and one that is being rebuilt needs nothing but the report of its Patroni.
Unfinished == \A s \in Sites : triggers[s] # {} =>
    /\ triggers[s] = {StandbyFor(s)} /\ Replica(s) /\ InFlight \subseteq {StandbyFor(s)}
    /\ mode[s] = IF s = ActiveSite THEN "recovery" ELSE "normal"
    /\ s = PassiveSite => health[s]
    /\ s = ActiveSite => \A m \in ToPassive \cup ToActive : m.event = "transition_to"

\* The site is what its ConfigMap records, or on the way there.
Matches(s) ==
    /\ Leads(s) => db[s] = "leader"
    /\ Replicates(s) => Replica(s)
    /\ cm[s].last = "active-passive" => mode[s] = "normal" /\ health[s]
    /\ cm[s].last \in {"golddr-primary", "gold-standby"} =>
         mode[s] = "recovery" /\ (s = PassiveSite => health[s])
    /\ s = PassiveSite /\ cm[s].last = "golddr-maintenance" => mode[s] = "maintenance"

MatchInv == Current /\ Honest /\ Unfinished /\ \A s \in Sites : Matches(s)

\* A request is handled on the state that is recorded.
LEMMA SnapshotRecorded ==
    ASSUME WipeInv, TokenInv, Current, NEW s \in Sites, NEW e \in StateEvents(s)
    PROVE  /\ ~e.peer_ok /\ e.snap.transition # Nothing => e.snap = cm[s]
           /\ Asks(e) => e.snap.last = cm[s].last
<1> USE DEF WipeInv
<1>1. ASSUME e.peer_ok
      PROVE  e.snap.last = cm[s].last
  <2>1. PICK m \in ToActive : m.item = e.snap
    BY <1>1, EventSource
  <2>2. m.event # "transition_to"
    BY DEF Channels, Answer
  <2>3. s = ActiveSite
    BY <1>1, EventSource
  <2> QED  BY <2>1, <2>2, <2>3 DEF Current
<1>2. ASSUME ~e.peer_ok, e.snap.transition # Nothing
      PROVE  e.snap = cm[s]
  <2>1. e.snap = Head(watch[s]) /\ Tail(watch[s]) = <<>> /\ watch[s] # <<>>
    BY <1>2, EventAsks, EventTypes
  <2>2. watch[s] \in Seq(Snapshots) /\ watch[s][Len(watch[s])] = cm[s]
    BY <2>1 DEF TypeOK, Latest
  <2> QED  BY <2>1, <2>2, QueueTaken
<1> QED  BY <1>1, <1>2, EventAsks, SnapshotParts

\* What a handler's last call records, when no call raises.
LEMMA SavedState ==
    ASSUME NoCalls, TypeOK, NEW s \in Sites, NEW queue \in Seq(Snapshots),
           NEW state \in StableStates \cup {Nothing}, SaveState(s, queue, state)
    PROVE  cm'[s].last = state /\ \A r \in Sites \ {s} : cm'[r] = cm[r]
<1> DEFINE data == [last |-> state, transition |-> ""]
<1>1. data \in Snapshots
  BY DEF Nothing, Snapshots
<1>2. data.last = state
  OBVIOUS
<1>3. Write(s, queue, data, TRUE)
  BY Zenon DEF SaveState
<1> HIDE DEF data
<1>4. Patched(s, queue, data)
  BY <1>1, <1>3, PatchEffect
<1> QED  BY <1>2, <1>4 DEF Patched, NoCalls

\* What a handler makes of its site when no call raises.
Untouched == UNCHANGED <<db, triggers, mode, health>>
Reacts(s, e) ==
    LET t == e.snap.transition IN
    \/ /\ Untouched
       /\ \A work \in {"primary", "detach", "standby", "down", "note"} : ~Starting(s, e, work)
       /\ \/ cm'[s].last = cm[s].last
          \/ cm'[s].last = e.snap.last /\ Asks(e)
          \/ cm'[s].last = "independent" /\ ~Asks(e) /\ e.snap.last = Nothing
    \/ /\ Starting(s, e, "standby") /\ SetTraffic(s, "standby") /\ ForwardsOrder(s, t)
       /\ \/ /\ patroni[s] = "standby_leader" /\ UNCHANGED <<db, triggers>>
             /\ cm'[s].last = t
          \/ /\ db'[s] = "rebuilding" /\ triggers'[s] = {t}
             /\ cm'[s].last = Partial(t)
    \/ /\ Starting(s, e, "down") /\ SetTraffic(s, "down") /\ UNCHANGED <<db, triggers>>
       /\ cm'[s].last = t /\ ForwardsOrder(s, t)
    \/ /\ Starting(s, e, "note") /\ Untouched
       /\ cm'[s].last = t
Commits(s, e) ==
    \E work \in {"primary", "detach"} :
       /\ Starting(s, e, work) /\ SetTraffic(s, work) /\ triggers' = triggers
       /\ cm'[s].last = Reached(e.snap.transition) /\ ForwardsOrder(s, e.snap.transition)
SiteHandled(s, e) == Reacts(s, e) \/ (Commits(s, e) /\ db'[s] = "leader")

\* A Patroni that is being rebuilt may not answer.
Unanswered(s, e) ==
    /\ Starting(s, e, "primary") \/ Starting(s, e, "detach")
    /\ db[s] = "rebuilding" /\ UNCHANGED <<cm, outbox, db, triggers>>

LEMMA HandlerOutcome ==
    ASSUME NoCalls, TypeOK, NEW s \in Sites, NEW e \in StateEvents(s), HandleEvent(s, e)
    PROVE  /\ Reacts(s, e) \/ (Commits(s, e) /\ DeployPrimary(s)) \/ Unanswered(s, e)
           /\ \A r \in Sites \ {s} : /\ cm'[r] = cm[r] /\ db'[r] = db[r] /\ triggers'[r] = triggers[r]
                                     /\ mode'[r] = mode[r] /\ health'[r] = health[r]
<1>t. /\ e.snap.last \in StableStates \cup {Nothing}
      /\ Asks(e) => Reached(e.snap.transition) \in StableStates
      /\ \A work : Starting(s, e, work) => Asks(e)
      /\ \A work \in {"down", "note", "standby"} : Starting(s, e, work) => e.snap.transition \in StableStates
      /\ Starting(s, e, "standby") => Partial(e.snap.transition) \in StableStates
  <2>1. e.snap.last \in StableStates \cup {Nothing}
    BY EventTypes, SnapshotParts
  <2>2. Asks(e) => e.snap.transition \in Transitions
    BY StartingWork
  <2>3. \A x \in Transitions : Reached(x) \in StableStates
    BY DEF Reached, Transitions, StableStates
  <2>4. \A x \in {"active-passive", "gold-standby"} : Partial(x) \in StableStates
    BY DEF Partial, StableStates
  <2> QED  BY <2>1, <2>2, <2>3, <2>4, StartingWork DEF Starting
<1>r. \A r \in Sites \ {s} : cm'[r] = cm[r]
  BY Recording
<1>u. ASSUME Untouched
      PROVE  \A r \in Sites : db'[r] = db[r] /\ triggers'[r] = triggers[r]
                             /\ mode'[r] = mode[r] /\ health'[r] = health[r]
  BY <1>u DEF Untouched
<1>s. ASSUME NEW work, SetTraffic(s, work)
      PROVE  \A r \in Sites \ {s} : mode'[r] = mode[r] /\ health'[r] = health[r]
  BY <1>s DEF SetTraffic, Set, TypeOK
<1>d. \A r \in Sites \ {s} : db'[r] = db[r] /\ triggers'[r] = triggers[r]
  BY Working
<1>1. CASE AdoptFresh(s, e)
  <2> DEFINE data == [cm[s] EXCEPT !.last = "independent"]
  <2>1. data \in Snapshots /\ data.last = "independent"
    BY Recordings DEF TypeOK, Snapshots
  <2>2. Write(s, e.watch, data, TRUE) /\ Untouched
    BY <1>1 DEF AdoptFresh, Untouched, traffic
  <2>3. e.snap.last = Nothing /\ ~Asks(e)
    BY <1>1, Zenon DEF AdoptFresh, Nothing, Asks
  <2> HIDE DEF data
  <2>4. Patched(s, e.watch, data)
    BY <2>1, <2>2, EventTypes, PatchEffect
  <2>5. cm'[s].last = "independent"
    BY <2>1, <2>4 DEF Patched, NoCalls
  <2>6. Reacts(s, e)
    BY <1>t, <2>2, <2>3, <2>5, Zenon DEF Reacts
  <2> QED  BY <1>r, <1>u, <2>2, <2>6
<1>2. CASE NothingToDo(s, e)
  <2> DEFINE data(t) == [cm[s] EXCEPT !.transition = t]
  <2>1. \A t : data(t).last = cm[s].last
    <3>1. cm[s] \in Snapshots
      BY DEF TypeOK
    <3> QED  BY <3>1 DEF Snapshots
  <2>2. \/ cm' = cm
        \/ data("") \in Snapshots /\ Write(s, e.watch, data(""), FALSE)
    BY <1>2, Recordings, Zenon DEF NothingToDo
  <2>3. Untouched /\ ~Asks(e)
    BY <1>2, Zenon DEF NothingToDo, Untouched, traffic
  <2> HIDE DEF data
  <2>4. ASSUME NEW t, data(t) \in Snapshots, Write(s, e.watch, data(t), FALSE)
        PROVE  cm'[s].last = cm[s].last
    <3>1. Patched(s, e.watch, data(t))
      BY <2>4, EventTypes, PatchEffect
    <3> QED  BY <2>1, <3>1 DEF Patched, NoCalls
  <2>5. cm'[s].last = cm[s].last
    BY <2>2, <2>4, Zenon
  <2>6. Reacts(s, e)
    BY <1>t, <2>3, <2>5, Zenon DEF Reacts
  <2> QED  BY <1>r, <1>u, <2>3, <2>6
<1>3. CASE Abort(s, e) \/ AskConsent(s, e)
  <2>1. Asks(e) /\ SaveState(s, e.watch, e.snap.last) /\ Untouched
    BY <1>3 DEF Abort, AskConsent, Untouched, traffic
  <2>2. cm'[s].last = e.snap.last
    BY <1>t, <2>1, EventTypes, SavedState
  <2>3. \A work \in {"primary", "detach", "standby", "down", "note"} : ~Starting(s, e, work)
    BY <1>3 DEF Abort, AskConsent, Starting
  <2>4. Reacts(s, e)
    BY <2>1, <2>2, <2>3 DEF Reacts
  <2> QED  BY <1>r, <1>u, <2>1, <2>4
<1>4. CASE BecomePrimary(s, e)
  <2>1. PICK work \in {"primary", "detach"} :
               /\ Starting(s, e, work) /\ SetTraffic(s, work) /\ triggers' = triggers
               /\ \/ /\ DeployPrimary(s) /\ SaveState(s, e.watch, Reached(e.snap.transition))
                     /\ ForwardsOrder(s, e.snap.transition)
                  \/ db[s] = "rebuilding" /\ UNCHANGED <<cm, outbox, db>>
    BY <1>4 DEF BecomePrimary
  <2>2. CASE /\ DeployPrimary(s) /\ SaveState(s, e.watch, Reached(e.snap.transition))
             /\ ForwardsOrder(s, e.snap.transition)
    <3>1. cm'[s].last = Reached(e.snap.transition)
      BY <1>t, <2>1, <2>2, EventTypes, SavedState
    <3> QED  BY <1>d, <1>r, <1>s, <2>1, <2>2, <3>1 DEF Commits
  <2>3. CASE db[s] = "rebuilding" /\ UNCHANGED <<cm, outbox, db>>
    BY <1>d, <1>r, <1>s, <2>1, <2>3 DEF Unanswered
  <2> QED  BY <2>1, <2>2, <2>3
<1>5. CASE BecomeStandby(s, e)
  <2>1. /\ Starting(s, e, "standby") /\ SetTraffic(s, "standby")
        /\ ForwardsOrder(s, e.snap.transition)
        /\ \/ /\ patroni[s] = "standby_leader" /\ UNCHANGED <<db, triggers>>
              /\ SaveState(s, e.watch, e.snap.transition)
           \/ /\ db' = Set(db, s, "rebuilding") /\ triggers' = Set(triggers, s, {e.snap.transition})
              /\ SaveState(s, e.watch, Partial(e.snap.transition))
    BY <1>5 DEF BecomeStandby
  <2>2. Reacts(s, e)
    <3>1. CASE SaveState(s, e.watch, e.snap.transition) /\ patroni[s] = "standby_leader"
               /\ UNCHANGED <<db, triggers>>
      <4>1. cm'[s].last = e.snap.transition
        BY <1>t, <2>1, <3>1, EventTypes, SavedState
      <4> QED  BY <2>1, <3>1, <4>1 DEF Reacts
    <3>2. CASE /\ db' = Set(db, s, "rebuilding") /\ triggers' = Set(triggers, s, {e.snap.transition})
               /\ SaveState(s, e.watch, Partial(e.snap.transition))
      <4>1. cm'[s].last = Partial(e.snap.transition)
        BY <1>t, <2>1, <3>2, EventTypes, SavedState
      <4>2. db'[s] = "rebuilding" /\ triggers'[s] = {e.snap.transition}
        BY <3>2 DEF Set, TypeOK
      <4> QED  BY <2>1, <4>1, <4>2 DEF Reacts
    <3> QED  BY <2>1, <3>1, <3>2
  <2> QED  BY <1>d, <1>r, <1>s, <2>1, <2>2
<1>6. CASE TakeDown(s, e) \/ NoteState(s, e)
  <2>1. /\ SaveState(s, e.watch, e.snap.transition) /\ UNCHANGED <<db, triggers>>
        /\ \/ /\ Starting(s, e, "down") /\ SetTraffic(s, "down")
              /\ ForwardsOrder(s, e.snap.transition)
           \/ Starting(s, e, "note") /\ Untouched
    BY <1>6 DEF TakeDown, NoteState, Untouched, traffic
  <2>2. cm'[s].last = e.snap.transition
    BY <1>t, <2>1, EventTypes, SavedState
  <2>3. Reacts(s, e)
    BY <2>1, <2>2 DEF Reacts
  <2> QED  BY <1>d, <1>r, <1>s, <1>u, <2>1, <2>3
<1> QED  BY <1>1, <1>2, <1>3, <1>4, <1>5, <1>6 DEF HandleEvent, TransitionRaises, NoCalls

LEMMA HandledSite ==
    ASSUME NoCalls, WipeInv, NEW s \in Sites, NEW e \in StateEvents(s), HandleEvent(s, e)
    PROVE  /\ SiteHandled(s, e)
           /\ \A r \in Sites \ {s} : /\ cm'[r] = cm[r] /\ db'[r] = db[r] /\ triggers'[r] = triggers[r]
                                     /\ mode'[r] = mode[r] /\ health'[r] = health[r]
<1>1. TypeOK
  BY DEF WipeInv
<1>2. Commits(s, e) /\ DeployPrimary(s) => db'[s] = "leader"
  BY Promotion DEF Commits
<1>3. ~Unanswered(s, e)
  BY Promotion DEF Unanswered
<1> QED  BY <1>1, <1>2, <1>3, HandlerOutcome DEF SiteHandled

\* What happens to a site: its handler, a trigger that fires, or nothing of note.
Fires(s) == /\ HearPatroni(s) /\ TriggersFire(s)
            /\ triggers[s] # {} /\ triggers'[s] = {} /\ cm'[s].last \in triggers[s]
            /\ db'[s] = db[s] /\ mode'[s] = mode[s] /\ health'[s] = health[s]
Keeps(s) == /\ cm'[s].last = cm[s].last
            /\ triggers'[s] = triggers[s] \/ ("restart" \in Faults /\ triggers'[s] = {})
            /\ db'[s] = db[s] \/ (db[s] = "rebuilding" /\ db'[s] = "standby")
            /\ mode'[s] = mode[s] /\ health'[s] = health[s]

LEMMA SiteStep ==
    ASSUME NoCalls, TypeOK, [Next]_vars, NEW s \in Sites
    PROVE  \/ \E e \in StateEvents(s) : Consume(s, e) /\ HandleEvent(s, e)
           \/ Fires(s)
           \/ Keeps(s)
<1>1. ASSUME NEW r \in Sites, HandleState(r), r # s
      PROVE  Keeps(s)
  <2>1. PICK e \in StateEvents(r) : HandleEvent(r, e)
    BY <1>1, Handling
  <2> QED  BY <1>1, <2>1, HandlerOutcome DEF Keeps
<1>2. CASE HearPatroni(s)
  <2>1. UNCHANGED <<db, mode, health>>
    BY <1>2 DEF HearPatroni, traffic
  <2>2. CASE UNCHANGED <<cm, triggers>>
    BY <2>1, <2>2 DEF Keeps
  <2>3. CASE /\ TriggersFire(s) /\ triggers' = Set(triggers, s, {})
             /\ \E t \in triggers[s] : SaveState(s, watch[s], t)
    <3>1. PICK t \in triggers[s] : SaveState(s, watch[s], t)
      BY <2>3
    <3>2. t \in StableStates \cup {Nothing} /\ watch[s] \in Seq(Snapshots)
      BY DEF TypeOK
    <3>3. cm'[s].last = t
      BY <3>1, <3>2, SavedState
    <3> QED  BY <1>2, <2>1, <2>3, <3>3 DEF Fires, Set, TypeOK
  <2> QED  BY <1>2, <2>2, <2>3 DEF HearPatroni, NoCalls
<1>3. ASSUME NEW r \in Sites, HearPatroni(r), r # s
      PROVE  Keeps(s)
  <2>1. cm'[s] = cm[s]
    <3>1. CASE cm' = cm
      BY <3>1
    <3>2. ASSUME NEW t \in triggers[r], SaveState(r, watch[r], t)
          PROVE  cm'[s] = cm[s]
      BY <1>3, <3>2, SavedState DEF TypeOK
    <3> QED  BY <1>3, <3>1, <3>2 DEF HearPatroni
  <2> QED  BY <1>3, <2>1 DEF HearPatroni, traffic, Keeps, Set, TypeOK
<1>4. ASSUME NEW r \in Sites, TakeOrder(r)
      PROVE  Keeps(s)
  <2>1. UNCHANGED <<databases, traffic>>
    BY <1>4 DEF TakeOrder
  <2> DEFINE data == [cm[r] EXCEPT !.transition = Head(inbox[r]).state]
  <2>2. /\ data \in Snapshots /\ data.last = cm[r].last
        /\ Write(r, watch[r], data, FALSE) /\ watch[r] \in Seq(Snapshots)
    BY <1>4, OrderTypes DEF TakeOrder, FromPeer, TypeOK, Snapshots
  <2> HIDE DEF data
  <2>3. Patched(r, watch[r], data)
    BY <2>2, PatchEffect
  <2>4. cm'[s].last = cm[s].last
    BY <2>2, <2>3 DEF Patched, NoCalls
  <2> QED  BY <2>1, <2>4 DEF Keeps, databases, traffic
<1>5. ASSUME NEW r \in Sites, (\E t \in Transitions : OperatorAsks(r, t)) \/ DnsFailover(r)
      PROVE  Keeps(s)
  <2>1. PICK t \in Transitions : Patch(r, watch[r], [cm[r] EXCEPT !.transition = t], FALSE)
    BY <1>5 DEF OperatorAsks, DnsFailover, Transitions
  <2> DEFINE data == [cm[r] EXCEPT !.transition = t]
  <2>2. data \in Snapshots /\ data.last = cm[r].last /\ watch[r] \in Seq(Snapshots)
    BY RequestWritten DEF TypeOK
  <2>3. Patch(r, watch[r], data, FALSE) /\ UNCHANGED <<databases, traffic>>
    BY <1>5, <2>1 DEF OperatorAsks, DnsFailover
  <2> HIDE DEF data
  <2>4. Patched(r, watch[r], data)
    BY <2>2, <2>3, PatchEffect
  <2>5. cm'[s].last = cm[s].last
    BY <2>2, <2>4 DEF Patched
  <2> QED  BY <2>3, <2>5 DEF Keeps, databases, traffic
<1>6. ASSUME NEW r \in Sites, Rebuilt(r) \/ Restart(r)
      PROVE  Keeps(s)
  BY <1>6 DEF Rebuilt, Restart, Keeps, Set, TypeOK, traffic
<1>7. CASE UNCHANGED <<cm, triggers, db, mode, health>>
  BY <1>7 DEF Keeps
<1>8. ASSUME NEW r \in Sites, Poll(r) \/ Confirm(r) \/ Deliver(r) \/ Drop(r) \/ PeerChanges(r)
      PROVE  UNCHANGED <<cm, triggers, db, mode, health>>
  BY <1>8 DEF Poll, Confirm, Deliver, Drop, PeerChanges, databases, traffic
<1>9. UNCHANGED vars => UNCHANGED <<cm, triggers, db, mode, health>>
  BY DEF vars, databases, traffic
<1> QED  BY <1>1, <1>2, <1>3, <1>4, <1>5, <1>6, <1>7, <1>8, <1>9, Handling DEF Next

\* What a handler starts was not refused on the state that is recorded.
LEMMA StartedFrom ==
    ASSUME WipeInv, TokenInv, Current, NEW s \in Sites, NEW e \in StateEvents(s),
           NEW work, Starting(s, e, work)
    PROVE  /\ ~Refused(e.snap.transition, cm[s].last) /\ Work(s, e.snap.transition) = work
           /\ e.snap.transition \in Transitions \cap InFlight
<1>1. Asks(e) /\ ~Aborts(s, e) /\ Work(s, e.snap.transition) = work
  BY DEF Starting
<1>2. e.snap.last = cm[s].last
  BY <1>1, SnapshotRecorded
<1> QED  BY <1>1, <1>2, StartingWork, EventSource DEF Aborts, WipeInv

LEMMA StandbyParts ==
    ASSUME WipeInv, TokenInv, MatchInv, NEW s \in Sites, NEW e \in StateEvents(s),
           Starting(s, e, "standby"), SetTraffic(s, "standby")
    PROVE  /\ e.snap.transition = StandbyFor(s) /\ e.snap.transition \in InFlight
           /\ mode'[s] = IF s = ActiveSite THEN "recovery" ELSE "normal"
           /\ s = PassiveSite => health'[s]
<1> DEFINE t == e.snap.transition
<1>1. Work(s, t) = "standby" /\ t \in Transitions \cap InFlight /\ ~Refused(t, cm[s].last)
  BY StartedFrom DEF MatchInv
<1>2. t = StandbyFor(s)
  BY <1>1, BothSites DEF Work, Transitions, StandbyFor
<1>3. s = ActiveSite => mode[s] = "recovery"
  BY <1>1, <1>2 DEF Refused, StandbyFor, MatchInv, Matches
<1>4. mode'[s] = ModeFor(s, "standby") /\ health'[s] = HealthFor(s, "standby")
  BY DEF SetTraffic, Set, WipeInv, TypeOK
<1> QED  BY <1>1, <1>2, <1>3, <1>4, BothSites DEF ModeFor, HealthFor

LEMMA MatchesStep ==
    ASSUME Coordinated, NoCalls, WipeInv, TokenInv, MatchInv, [Next]_vars, NEW s \in Sites
    PROVE  Matches(s)'
<1> USE DEF WipeInv, MatchInv
<1>1. CASE Keeps(s)
  <2>1. (Replica(s) => Replica(s)') /\ (db[s] = "leader" => db'[s] = "leader")
    BY <1>1 DEF Keeps, Replica
  <2>2. Matches(s)
    OBVIOUS
  <2> QED  BY <1>1, <2>1, <2>2 DEF Keeps, Matches, Leads, Replicates
<1>2. CASE Fires(s)
  <2>1. /\ cm'[s].last = StandbyFor(s) /\ Replica(s)'
        /\ mode'[s] = IF s = ActiveSite THEN "recovery" ELSE "normal"
        /\ s = PassiveSite => health'[s]
    BY <1>2 DEF Fires, Unfinished, Replica
  <2> QED  BY <2>1, BothSites DEF StandbyFor, Matches, Leads, Replicates
<1>3. ASSUME NEW e \in StateEvents(s), Consume(s, e), HandleEvent(s, e)
      PROVE  Matches(s)'
  <2> DEFINE t == e.snap.transition
  <2>h. SiteHandled(s, e)
    BY <1>3, HandledSite
  <2>t. \A work : SetTraffic(s, work) => mode'[s] = ModeFor(s, work) /\ health'[s] = HealthFor(s, work)
    BY DEF SetTraffic, Set, TypeOK
  <2>1. CASE Untouched /\ cm'[s].last = cm[s].last
    <3>1. Keeps(s)
      BY <2>1 DEF Keeps, Untouched
    <3> QED  BY <1>1, <3>1
  <2>2. CASE cm'[s].last = "independent"
    BY <2>2 DEF Matches, Leads, Replicates
  <2>3. ASSUME NEW work \in {"primary", "detach"}, Starting(s, e, work), SetTraffic(s, work),
               db'[s] = "leader", cm'[s].last = Reached(t)
        PROVE  Matches(s)'
    <3>1. Work(s, t) = work /\ t \in Transitions
      BY <2>3, StartedFrom
    <3>2. CASE s = ActiveSite
      <4>1. work = "primary" /\ cm'[s].last = "active-passive"
        BY <2>3, <3>1, <3>2 DEF Work, Transitions, Reached
      <4> QED  BY <2>3, <2>t, <3>2, <4>1, BothSites DEF Matches, Leads, Replicates, ModeFor, HealthFor
    <3>3. CASE s = PassiveSite
      <4>1. \/ work = "primary" /\ cm'[s].last = "golddr-primary"
            \/ work = "detach" /\ cm'[s].last = "golddr-maintenance"
        BY <2>3, <3>1, <3>3, BothSites DEF Work, Transitions, Reached
      <4> QED  BY <2>3, <2>t, <3>3, <4>1, BothSites DEF Matches, Leads, Replicates, ModeFor, HealthFor
    <3> QED  BY <3>2, <3>3, BothSites
  <2>4. Starting(s, e, "standby") /\ SetTraffic(s, "standby") =>
           /\ t = StandbyFor(s) /\ t \in InFlight
           /\ mode'[s] = IF s = ActiveSite THEN "recovery" ELSE "normal"
           /\ s = PassiveSite => health'[s]
    BY StandbyParts
  <2>5. ASSUME Starting(s, e, "standby"), SetTraffic(s, "standby"), cm'[s].last = t,
               patroni[s] = "standby_leader", UNCHANGED db
        PROVE  Matches(s)'
    <3>1. Replica(s)'
      BY <2>4, <2>5 DEF Honest, Replica
    <3> QED  BY <2>4, <2>5, <3>1, BothSites DEF StandbyFor, Matches, Leads, Replicates
  <2>6. ASSUME Starting(s, e, "standby"), SetTraffic(s, "standby"), cm'[s].last = Partial(t)
        PROVE  Matches(s)'
    <3>1. cm'[s].last \in {"active-passive-partial", "gold-standby-partial"}
      BY <2>4, <2>6 DEF StandbyFor, Partial
    <3> QED  BY <3>1 DEF Matches, Leads, Replicates
  <2>7. ASSUME Starting(s, e, "down"), SetTraffic(s, "down"), cm'[s].last = t
        PROVE  Matches(s)'
    <3>1. s = ActiveSite /\ t = "golddr-primary"
      BY <2>7, StartedFrom, BothSites DEF Work, Transitions
    <3> QED  BY <2>7, <2>t, <3>1, BothSites DEF Matches, Leads, Replicates, ModeFor
  <2>8. ASSUME Starting(s, e, "note"), Untouched, cm'[s].last = t
        PROVE  Matches(s)'
    <3>1. Work(s, t) = "note" /\ t \in Transitions /\ ~Refused(t, cm[s].last)
      BY <2>8, StartedFrom
    <3>2. CASE s = ActiveSite
      <4>1. t = "golddr-maintenance"
        BY <3>1, <3>2 DEF Work, Transitions
      <4> QED  BY <2>8, <3>2, <4>1, BothSites DEF Matches, Leads, Replicates
    <3>3. CASE s = PassiveSite
      <4>1. t = "gold-standby" /\ cm[s].last = "golddr-primary"
        BY <3>1, <3>3, BothSites DEF Work, Transitions, Refused
      <4>2. db[s] = "leader" /\ mode[s] = "recovery" /\ health[s]
        BY <3>3, <4>1 DEF Matches, Leads
      <4> QED  BY <2>8, <3>3, <4>1, <4>2, BothSites DEF Matches, Leads, Replicates, Untouched
    <3> QED  BY <3>2, <3>3, BothSites
  <2> QED  BY <1>3, <2>h, <2>1, <2>2, <2>3, <2>5, <2>6, <2>7, <2>8, SnapshotRecorded DEF SiteHandled, Reacts, Commits
<1> QED  BY <1>1, <1>2, <1>3, SiteStep

Requested == \E s \in Sites : (\E t \in Transitions : OperatorAsks(s, t)) \/ DnsFailover(s)

\* A handler that acts on a request leaves one message: its order, or its question.
LEMMA MailHandled ==
    ASSUME Coordinated, WipeInv, TokenInv, NEW e \in StateEvents(ActiveSite),
           Consume(ActiveSite, e), HandleEvent(ActiveSite, e), Asks(e),
           NEW m \in ToPassive' \cup ToActive'
    PROVE  m.event = "transition_to" \/ (AskConsent(ActiveSite, e) /\ m.item = e.snap)
<1>1. \A r \in Sites : inbox'[r] = <<>> /\ outbox[r] = <<>>
  BY HandledMail, BothSites
<1>2. /\ \A r \in Sites \ {ActiveSite} : outbox'[r] = outbox[r]
      /\ outbox'[ActiveSite] = outbox[ActiveSite] \/ Sends(ActiveSite, e)
  BY Sending, BothSites DEF WipeInv
<1>3. m \in Range(outbox'[ActiveSite])
  BY <1>1, <1>2, QueueEmpty, BothSites DEF ToPassive, ToActive
<1>4. Sends(ActiveSite, e) /\ m \notin Range(outbox[ActiveSite])
  BY <1>1, <1>2, <1>3, QueueEmpty, BothSites
<1> QED  BY <1>3, <1>4 DEF Sends

\* Where the messages that are no orders come from.
LEMMA NewMail ==
    ASSUME Coordinated, WipeInv, TokenInv, [Next]_vars, NEW m \in ToPassive' \cup ToActive',
           m.event # "transition_to"
    PROVE  \/ m \in ToPassive \cup ToActive
           \/ \E e \in StateEvents(ActiveSite) : AskConsent(ActiveSite, e) /\ m.item = e.snap
           \/ cm' = cm /\ \E q \in ToPassive : q.event # "transition_to" /\ q.item = m.item
<1>1. CASE m \in ToPassive' /\ m \notin ToPassive
  BY <1>1, MailToPassive DEF WipeInv
<1>2. CASE m \in ToActive' /\ m \notin ToActive
  BY <1>2, MailToActive DEF Confirm, WipeInv
<1> QED  BY <1>1, <1>2

LEMMA Asker ==
    ASSUME WipeInv, TokenInv, NEW e \in StateEvents(ActiveSite), AskConsent(ActiveSite, e)
    PROVE  /\ ~e.peer_ok /\ ~Idle(ActiveSite) /\ NoMail /\ triggers[ActiveSite] = {}
           /\ e.snap.last \in StableStates \cup {Nothing}
           /\ SaveState(ActiveSite, e.watch, e.snap.last)
           /\ \A work : ~Starting(ActiveSite, e, work)
<1>1. /\ Asks(e) /\ MustConfirm(ActiveSite, e) /\ SaveState(ActiveSite, e.watch, e.snap.last)
  BY DEF AskConsent
<1>2. ~e.peer_ok /\ ~Idle(ActiveSite)
  BY <1>1, EventAsks, BothSites, SnapshotParts DEF MustConfirm
<1>3. NoMail /\ triggers[ActiveSite] = {}
  BY <1>2 DEF TokenInv, OnePlace
<1>4. e.snap.last \in StableStates \cup {Nothing}
  BY EventTypes, SnapshotParts, BothSites DEF WipeInv
<1> QED  BY <1>1, <1>2, <1>3, <1>4 DEF Starting

LEMMA CurrentStep ==
    ASSUME Coordinated, NoCalls, Once, WipeInv, TokenInv, MatchInv, [Next]_vars
    PROVE  Current'
<1> USE DEF WipeInv, MatchInv
<1> SUFFICES ASSUME NEW m \in ToPassive' \cup ToActive', m.event # "transition_to"
             PROVE  m.item.last = cm'[ActiveSite].last
  BY DEF Current
<1>1. ~Requested
  <2>1. ASSUME NEW s \in Sites, NEW t \in Transitions, OperatorAsks(s, t)
        PROVE  FALSE
    BY <2>1, NewDemand
  <2> QED  BY <2>1 DEF Requested, Coordinated, DnsFailover
<1>2. CASE m \in ToPassive \cup ToActive
  <2>1. m.item.last = cm[ActiveSite].last
    BY <1>2 DEF Current
  <2>2. ~NoMail /\ Idle(ActiveSite) /\ InFlight # {}
    <3>1. ~NoMail
      BY <1>2, BothSites, QueueEmpty DEF NoMail, ToPassive, ToActive
    <3>2. Demand(m) \in Transitions
      BY <1>2 DEF Channels, Outgoing, Answer, Consentable, Demand, NeedsConsent, Transitions
    <3> QED  BY <1>2, <3>1, <3>2, BothSites DEF TokenInv, OnePlace, InFlight
  <2>3. ~Fires(ActiveSite)
    BY <1>2, BothSites DEF Fires, Unfinished
  <2>4. ASSUME NEW e \in StateEvents(ActiveSite), Consume(ActiveSite, e), HandleEvent(ActiveSite, e)
        PROVE  cm'[ActiveSite].last = cm[ActiveSite].last
    <3>1. CASE Asks(e)
      <4>1. AskConsent(ActiveSite, e)
        BY <2>4, <3>1, MailHandled
      <4> QED  BY <2>2, <4>1, Asker
    <3>2. CASE ~Asks(e)
      <4>1. ~e.peer_ok /\ e.snap \in Range(watch[ActiveSite])
        BY <3>2, EventAsks, EventSource, BothSites
      <4>2. e.snap.last # Nothing
        BY <2>2, <4>1, EventAsks, BothSites DEF TokenInv, Adopted
      <4>3. SiteHandled(ActiveSite, e)
        BY <2>4, HandledSite, BothSites
      <4> QED  BY <3>2, <4>2, <4>3 DEF SiteHandled, Reacts, Commits, Starting
    <3> QED  BY <3>1, <3>2
  <2> QED  BY <2>1, <2>3, <2>4, SiteStep, BothSites DEF Keeps
<1>3. ASSUME NEW e \in StateEvents(ActiveSite), AskConsent(ActiveSite, e), m.item = e.snap
      PROVE  m.item.last = cm'[ActiveSite].last
  BY <1>3, Asker, SavedState, EventTypes, BothSites
<1>4. ASSUME cm' = cm, NEW q \in ToPassive, q.event # "transition_to", q.item = m.item
      PROVE  m.item.last = cm'[ActiveSite].last
  BY <1>4 DEF Current
<1> QED  BY <1>2, <1>3, <1>4, NewMail

LEMMA HonestStep ==
    ASSUME Coordinated, NoCalls, WipeInv, TokenInv, MatchInv, [Next]_vars
    PROVE  Honest'
<1> USE DEF WipeInv, MatchInv
<1> SUFFICES ASSUME NEW s \in Sites, StandbyFor(s) \in InFlight',
                    "standby_leader" \in {patroni'[s], polled'[s]}
             PROVE  Replica(s)'
  BY DEF Honest
<1>1. CASE Requested
  <2>1. PICK r \in Sites, t \in Transitions : OperatorAsks(r, t)
    BY <1>1 DEF Requested, Coordinated, DnsFailover
  <2>2. /\ db'[s] = db[s] /\ patroni'[s] = patroni[s] /\ polled'[s] = polled[s]
        /\ polled[s] = None /\ patroni[s] = Shown(db[s])
    BY <2>1, QuietRequest DEF databases, Quiet
  <2>3. None # "standby_leader"
    BY NoneDistinct DEF Appearances
  <2>4. db[s] = "standby"
    BY <2>2, <2>3 DEF Shown, TypeOK, Databases
  <2> QED  BY <2>2, <2>4 DEF Replica
<1>2. CASE ~Requested
  <2>1. StandbyFor(s) \in InFlight
    BY <1>2, NoNewDemand DEF Requested
  <2>2. Replica(s)
    <3>1. /\ patroni'[s] \in {patroni[s], polled[s], "unknown"}
          /\ polled'[s] \in {polled[s], None} \/ polled'[s] = Shown(db[s])
      BY PatroniStep
    <3>2. None # "standby_leader"
      BY NoneDistinct DEF Appearances
    <3>3. Shown(db[s]) = "standby_leader" => db[s] = "standby"
      BY DEF Shown, TypeOK, Databases
    <3> QED  BY <2>1, <3>1, <3>2, <3>3 DEF Honest, Replica
  <2>3. ASSUME NEW e \in StateEvents(s), Consume(s, e), HandleEvent(s, e)
        PROVE  Replica(s)'
    <3>1. ASSUME NEW work \in {"primary", "detach"}, Starting(s, e, work)
          PROVE  FALSE
      <4>1. e.snap.transition = StandbyFor(s) /\ Work(s, e.snap.transition) = work
        BY <2>1, <3>1, StartedFrom DEF OneRequest
      <4> QED  BY <4>1, BothSites DEF StandbyFor, Work
    <3> QED  BY <2>2, <2>3, <3>1, HandledSite DEF SiteHandled, Reacts, Commits, Untouched, Replica
  <2> QED  BY <2>2, <2>3, SiteStep DEF Fires, Keeps, Replica
<1> QED  BY <1>1, <1>2

LEMMA UnfinishedStep ==
    ASSUME Coordinated, NoCalls, WipeInv, TokenInv, MatchInv, [Next]_vars
    PROVE  Unfinished'
<1> USE DEF WipeInv, MatchInv
<1> SUFFICES ASSUME NEW s \in Sites, triggers'[s] # {}
             PROVE  /\ triggers'[s] = {StandbyFor(s)} /\ Replica(s)' /\ InFlight' \subseteq {StandbyFor(s)}
                    /\ mode'[s] = IF s = ActiveSite THEN "recovery" ELSE "normal"
                    /\ s = PassiveSite => health'[s]
                    /\ s = ActiveSite => \A m \in ToPassive' \cup ToActive' : m.event = "transition_to"
  BY DEF Unfinished
<1>1. ~Requested /\ InFlight' \subseteq InFlight
  <2>1. ASSUME NEW r \in Sites, NEW t \in Transitions, OperatorAsks(r, t)
        PROVE  FALSE
    <3>1. triggers'[s] = triggers[s] /\ triggers[s] = {}
      BY <2>1, QuietRequest DEF databases
    <3> QED  BY <3>1
  <2>2. ~Requested
    BY <2>1 DEF Requested, Coordinated, DnsFailover
  <2> QED  BY <2>2, NoNewDemand DEF Requested
<1>2. ASSUME triggers'[s] = triggers[s], Replica(s) => Replica(s)',
             \/ mode'[s] = mode[s] /\ health'[s] = health[s]
             \/ /\ mode'[s] = IF s = ActiveSite THEN "recovery" ELSE "normal"
                /\ s = PassiveSite => health'[s]
      PROVE  /\ triggers'[s] = {StandbyFor(s)} /\ Replica(s)' /\ InFlight' \subseteq {StandbyFor(s)}
             /\ mode'[s] = IF s = ActiveSite THEN "recovery" ELSE "normal"
             /\ s = PassiveSite => health'[s]
             /\ s = ActiveSite => \A m \in ToPassive' \cup ToActive' : m.event = "transition_to"
  <2>1. ASSUME s = ActiveSite, NEW m \in ToPassive' \cup ToActive', m.event # "transition_to"
        PROVE  FALSE
    BY <1>2, <2>1, NewMail, Asker DEF Unfinished
  <2> QED  BY <1>1, <1>2, <2>1 DEF Unfinished
<1>3. ASSUME NEW e \in StateEvents(s), Consume(s, e), HandleEvent(s, e),
             Starting(s, e, "standby"), SetTraffic(s, "standby"),
             db'[s] = "rebuilding", triggers'[s] = {e.snap.transition}
      PROVE  /\ triggers'[s] = {StandbyFor(s)} /\ Replica(s)' /\ InFlight' \subseteq {StandbyFor(s)}
             /\ mode'[s] = IF s = ActiveSite THEN "recovery" ELSE "normal"
             /\ s = PassiveSite => health'[s]
             /\ s = ActiveSite => \A m \in ToPassive' \cup ToActive' : m.event = "transition_to"
  <2>1. /\ e.snap.transition = StandbyFor(s) /\ e.snap.transition \in InFlight
        /\ mode'[s] = IF s = ActiveSite THEN "recovery" ELSE "normal"
        /\ s = PassiveSite => health'[s]
    BY <1>3, StandbyParts
  <2>2. s = ActiveSite => \A m \in ToPassive' \cup ToActive' : m.event = "transition_to"
    BY <1>3, MailHandled, Asker DEF Starting
  <2> QED  BY <1>1, <1>3, <2>1, <2>2 DEF OneRequest, Replica
<1>4. ASSUME NEW e \in StateEvents(s), NEW work \in {"primary", "detach", "down", "note"},
             Starting(s, e, work), triggers'[s] = triggers[s]
      PROVE  FALSE
  <2>1. e.snap.transition = StandbyFor(s) /\ Work(s, e.snap.transition) = work
    BY <1>4, StartedFrom DEF Unfinished
  <2> QED  BY <2>1, BothSites DEF StandbyFor, Work
<1>5. CASE Keeps(s)
  BY <1>2, <1>5 DEF Keeps, Replica
<1>6. ASSUME NEW e \in StateEvents(s), Consume(s, e), HandleEvent(s, e),
             ~\E work \in {"primary", "detach", "down", "note"} : Starting(s, e, work) /\ triggers'[s] = triggers[s]
      PROVE  \/ Untouched
             \/ /\ Starting(s, e, "standby") /\ SetTraffic(s, "standby")
                /\ \/ UNCHANGED <<db, triggers>>
                   \/ db'[s] = "rebuilding" /\ triggers'[s] = {e.snap.transition}
  BY <1>6, HandledSite DEF SiteHandled, Reacts, Commits
<1>7. ASSUME NEW e \in StateEvents(s), Consume(s, e), HandleEvent(s, e)
      PROVE  /\ triggers'[s] = {StandbyFor(s)} /\ Replica(s)' /\ InFlight' \subseteq {StandbyFor(s)}
             /\ mode'[s] = IF s = ActiveSite THEN "recovery" ELSE "normal"
             /\ s = PassiveSite => health'[s]
             /\ s = ActiveSite => \A m \in ToPassive' \cup ToActive' : m.event = "transition_to"
  <2>1. CASE Untouched
    BY <1>2, <2>1 DEF Untouched, Replica
  <2>2. CASE Starting(s, e, "standby") /\ SetTraffic(s, "standby") /\ UNCHANGED <<db, triggers>>
    BY <1>2, <2>2, StandbyParts DEF Replica
  <2>3. CASE /\ Starting(s, e, "standby") /\ SetTraffic(s, "standby")
             /\ db'[s] = "rebuilding" /\ triggers'[s] = {e.snap.transition}
    BY <1>3, <1>7, <2>3
  <2> QED  BY <1>4, <1>6, <1>7, <2>1, <2>2, <2>3
<1> QED  BY <1>5, <1>7, SiteStep DEF Fires

LEMMA MatchInvInit ==
    ASSUME Init
    PROVE  MatchInv
<1>1. PICK start \in Starts :
        LET last == IF start = "fresh" THEN "" ELSE "active-passive" IN
        /\ cm = [s \in Sites |-> [last |-> last, transition |-> ""]]
        /\ db = [s \in Sites |-> IF start = "serving" /\ s = PassiveSite
                                 THEN "standby" ELSE "leader"]
  BY Zenon DEF Init
<1>2. /\ start \in {"fresh", "serving"}
      /\ \A s \in Sites : /\ triggers[s] = {} /\ mode[s] = "normal" /\ health[s]
                          /\ patroni[s] = "unknown" /\ polled[s] = None
                          /\ inbox[s] = <<>> /\ outbox[s] = <<>>
  BY SwitchoverAssumption DEF Init
<1>3. Current /\ Honest /\ Unfinished
  <2>1. None # "standby_leader"
    BY NoneDistinct DEF Appearances
  <2> QED  BY <1>2, <2>1, QueueEmpty, BothSites DEF Current, Honest, Unfinished, ToPassive, ToActive
<1>4. ASSUME NEW s \in Sites
      PROVE  Matches(s)
  <2> DEFINE last == IF start = "fresh" THEN Nothing ELSE "active-passive"
  <2>1. cm[s].last = last
    BY <1>1, Zenon DEF Nothing
  <2>2. \/ last = Nothing
        \/ last = "active-passive" /\ db[s] = IF s = PassiveSite THEN "standby" ELSE "leader"
    BY <1>1, <1>2
  <2>3. Nothing \notin StableStates
    BY SnapshotParts
  <2> QED  BY <1>2, <2>1, <2>2, <2>3, BothSites DEF Matches, Leads, Replicates, Replica, StableStates
<1> QED  BY <1>3, <1>4 DEF MatchInv

LEMMA MatchInvStep ==
    ASSUME Coordinated, NoCalls, Once, WipeInv, TokenInv, MatchInv, [Next]_vars
    PROVE  MatchInv'
BY CurrentStep, HonestStep, UnfinishedStep, MatchesStep DEF MatchInv

\* When nothing is under way each site is what its ConfigMap records, whatever
\* requests were handled before, in whatever order the messages and the events of
\* the ConfigMaps and of Patroni arrived, and whichever were lost with a pod.
THEOREM RecordsMatch ==
    ASSUME Coordinated, Once, NoCalls
    PROVE  Spec => []RecordsMatchSites
<1> DEFINE Inv == WipeInv /\ TokenInv /\ MatchInv
<1>1. Init => Inv
  BY WipeInvInit, TokenInvInit, MatchInvInit
<1>2. Inv /\ [Next]_vars => Inv'
  BY WipeInvStep, TokenInvStep, MatchInvStep
<1>3. Inv => RecordsMatchSites
  <2> SUFFICES ASSUME Inv, Settled, NEW s \in Sites
               PROVE  Matches(s) /\ (Replica(s) => db[s] = "standby")
    BY DEF RecordsMatchSites, Matches
  <2> QED  BY DEF Settled, Quiet, Replica, MatchInv
<1> QED  BY <1>1, <1>2, <1>3, PTL DEF Spec
-----------------------------------------------------------------------------
(* Some site serves the traffic *)

\* No message is lost, no pod replaced, no call raises; the connection may break.
NoLoss == Faults \subseteq {"peer"}

Serves(s) == health[s] /\ db[s] = "leader"

\* The order to take over is on its way to the passive site.
TakingOver == "golddr-primary" \in Ordered

\* The passive site is a standby, or about to become one.
Follows == \/ cm[PassiveSite].last = "active-passive"
           \/ triggers[PassiveSite] # {}
           \/ "active-passive" \in Ordered

ServedInv == /\ Serves(ActiveSite) \/ TakingOver \/ Serves(PassiveSite)
             /\ Follows => Serves(ActiveSite) \/ TakingOver

\* The passive site has the traffic and keeps it.
Holds == Serves(PassiveSite) /\ ~Follows

CoreInv == WipeInv /\ TokenInv /\ AsItWas /\ ConsentHolds /\ MatchInv

LEMMA CoreStep ==
    ASSUME Coordinated, NoCalls, Once, CoreInv, [Next]_vars
    PROVE  CoreInv'
BY WipeInvStep, TokenInvStep, AsItWasStep, ConsentHoldsStep, MatchInvStep DEF CoreInv

LEMMA OrderedTypes ==
    ASSUME WipeInv, TokenInv, NEW t \in Ordered, t # Nothing
    PROVE  t \in InFlight /\ triggers[PassiveSite] = {}
<1>1. t \in InFlight
  <2>1. CASE t \in Asked(PassiveSite)
    BY <2>1, AskedTypes, BothSites DEF WipeInv
  <2>2. CASE \E m \in ToPassive : m.event = "transition_to" /\ m.state = t
    <3>1. PICK m \in ToPassive : m.event = "transition_to" /\ m.state = t
      BY <2>2
    <3>2. m \in Messages
      <4>1. inbox[PassiveSite] \in Seq(Messages) /\ outbox[ActiveSite] \in Seq(Messages)
        BY BothSites DEF WipeInv, TypeOK
      <4> QED  BY <4>1, RangeEquality, ElementOfSeq DEF ToPassive
    <3>3. Demand(m) = t /\ t \in Transitions
      BY <3>1, <3>2 DEF Demand, Messages
    <3> QED  BY <3>1, <3>3 DEF InFlight
  <2> QED  BY <2>1, <2>2 DEF Ordered
<1> QED  BY <1>1 DEF TokenInv, TriggersLast

\* An order stays until the passive site's handler acts on it.
LEMMA OrderKept ==
    ASSUME Coordinated, NoLoss, WipeInv, TokenInv, [Next]_vars, ~Requested,
           NEW t \in Ordered, t # Nothing, t \notin Ordered'
    PROVE  \E e \in StateEvents(PassiveSite) :
              /\ Consume(PassiveSite, e) /\ HandleEvent(PassiveSite, e)
              /\ ~e.peer_ok /\ e.snap.transition = t
<1> DEFINE P == PassiveSite
<1>n. NoCalls /\ Once /\ "restart" \notin Faults /\ "drop" \notin Faults
  BY DEF NoLoss, NoCalls, Once
<1>a. Asked(P) = {snap.transition : snap \in Range(watch[P])}
      /\ Asked(P)' = {snap.transition : snap \in Range(watch'[P])}
  BY <1>n DEF Asked
<1>t. watch[P] \in Seq(Snapshots) /\ watch'[P] \in Seq(Snapshots) /\ cm'[P] \in Snapshots
      /\ inbox \in [Sites -> Seq(Messages)] /\ outbox \in [Sites -> Seq(Messages)]
  BY TypeStep, BothSites DEF WipeInv, TypeOK
<1>1. CASE t \in Asked(P)
  <2>1. PICK snap \in Range(watch[P]) : snap.transition = t
    BY <1>1, <1>a
  <2>2. snap \notin Range(watch'[P])
    BY <1>a, <2>1 DEF Ordered
  <2>3. PICK e \in StateEvents(P) : /\ Consume(P, e) /\ HandleEvent(P, e)
                                    /\ Writes(P, e) \/ WritesNothing(P, e)
    <3>1. ~Restart(P)
      BY <1>n DEF Restart
    <3>2. watch'[P] # Append(watch[P], cm'[P])
      <4>1. Range(Append(watch[P], cm'[P])) = Range(watch[P]) \cup {cm'[P]}
        BY <1>t, QueueAppended
      <4> QED  BY <2>1, <2>2, <4>1
    <3> QED  BY <2>1, <2>2, <3>1, <3>2, WatchStep, BothSites DEF Requested, WipeInv
  <2>4. ~e.peer_ok /\ e.snap = Head(watch[P]) /\ e.watch = Tail(watch[P]) /\ watch[P] # <<>>
    BY EventTypes, EventSource, BothSites DEF WipeInv
  <2>5. snap \notin Range(e.watch)
    BY <2>2, <2>3 DEF Writes, WritesNothing
  <2>6. snap = e.snap
    <3>1. \A x \in Range(watch[P]) : x = Head(watch[P]) \/ x \in Range(Tail(watch[P]))
      BY <1>t, <2>4, QueueParts
    <3> QED  BY <2>1, <2>4, <2>5, <3>1
  <2> QED  BY <2>1, <2>3, <2>4, <2>6
<1>2. CASE t \notin Asked(P)
  <2>1. PICK m \in ToPassive : m.event = "transition_to" /\ m.state = t
    BY <1>2 DEF Ordered
  <2>2. m \notin ToPassive'
    BY <2>1 DEF Ordered
  <2>3. PICK r \in Sites, x \in Messages : OnlyMail(r, x)
    <3>1. ~NoMail
      BY <2>1, QueueEmpty, BothSites DEF NoMail, ToPassive
    <3> QED  BY <3>1 DEF TokenInv, OneMessage
  <2>4. OnlyMail(ActiveSite, m)
    <3>1. \A y \in Messages : Range(<<y>>) = {y}
      BY QueueOfOne
    <3>2. Range(<<>>) = {}
      BY QueueEmpty
    <3>3. r = ActiveSite
      <4>1. CASE inbox[P] = <<>> /\ outbox[ActiveSite] = <<>>
        <5>1. Range(inbox[P]) = {} /\ Range(outbox[ActiveSite]) = {}
          BY <3>2, <4>1
        <5> QED  BY <2>1, <5>1 DEF ToPassive
      <4> QED  BY <2>3, <4>1, BothSites DEF OnlyMail
    <3>4. m = x
      <4>1. {outbox[ActiveSite], inbox[P]} = {<<>>, <<x>>}
        BY <2>3, <3>3, BothSites DEF OnlyMail
      <4>2. Range(outbox[ActiveSite]) \cup Range(inbox[P]) \subseteq {x}
        BY <3>1, <3>2, <4>1
      <4> QED  BY <2>1, <4>2 DEF ToPassive
    <3> QED  BY <2>3, <3>3, <3>4
  <2>5. m \in Messages
    <3>1. inbox[P] \in Seq(Messages) /\ outbox[ActiveSite] \in Seq(Messages)
      BY <1>t, BothSites
    <3> QED  BY <2>1, <3>1, RangeEquality, ElementOfSeq DEF ToPassive
  <2>6. ASSUME NEW s \in Sites, HandleState(s)
        PROVE  FALSE
    <3>1. PICK e \in StateEvents(s) : Consume(s, e) /\ HandleEvent(s, e)
      BY <2>6, Handling
    <3>2. inbox' = inbox /\ outbox' = outbox
      <4>1. s = ActiveSite => ~Asks(e)
        <5>1. inbox[ActiveSite] = <<>> /\ <<m>> # <<>>
          BY <2>4 DEF OnlyMail
        <5>2. ~NoMail
          BY <2>4, <5>1, BothSites DEF OnlyMail, NoMail
        <5>3. s = ActiveSite => ~e.peer_ok
          BY <5>1, EventTypes DEF WipeInv
        <5>4. Asks(e) => e.snap.transition # Nothing
          BY EventAsks, SnapshotParts
        <5>5. s = ActiveSite => Idle(s)
          BY <5>2 DEF TokenInv, OnePlace
        <5> QED  BY <5>3, <5>4, <5>5, EventAsks
      <4> QED  BY <3>1, <4>1, HandledMail, BothSites
    <3> QED  BY <2>1, <2>2, <3>2 DEF ToPassive
  <2>7. ASSUME NEW s \in Sites, Confirm(s)
        PROVE  FALSE
    <3>1. inbox[s] # <<>> /\ Head(inbox[s]).event = "confirm_happy_to_proceed"
      BY <2>7 DEF Confirm, FromPeer
    <3>2. inbox[s] = <<m>>
      BY <2>4, <3>1, BothSites DEF OnlyMail
    <3>3. Head(inbox[s]) = m
      BY <3>2
    <3> QED  BY <2>1, <3>1, <3>3
  <2>8. ASSUME NEW s \in Sites, TakeOrder(s)
        PROVE  FALSE
    <3>1. inbox[s] # <<>>
      BY <2>8 DEF TakeOrder, FromPeer
    <3>2. s = P /\ inbox[s] = <<m>>
      BY <2>4, <3>1, BothSites DEF OnlyMail
    <3>3. Head(inbox[s]) = m
      BY <3>2
    <3> DEFINE data == [cm[P] EXCEPT !.transition = Head(inbox[P]).state]
    <3>4. /\ data \in Snapshots /\ data.transition = t
          /\ Write(P, watch[P], data, FALSE)
      <4>1. Write(P, watch[P], data, FALSE)
        BY <2>8, <3>2 DEF TakeOrder
      <4>2. data \in Snapshots
        BY <2>1, <3>1, <3>2, <3>3, OrderTypes, BothSites DEF WipeInv
      <4>3. Head(inbox[P]).state = t
        BY <2>1, <3>2, <3>3
      <4>4. cm[P] \in Snapshots
        BY BothSites DEF WipeInv, TypeOK
      <4>5. data.transition = t
        BY <4>3, <4>4 DEF Snapshots
      <4> HIDE DEF data
      <4> QED  BY <4>1, <4>2, <4>5
    <3> HIDE DEF data
    <3>5. Patched(P, watch[P], data)
      BY <1>t, <3>4, PatchEffect, BothSites DEF WipeInv
    <3>6. \/ data \in Range(watch'[P])
          \/ watch'[P] = watch[P] /\ data = cm[P]
      BY <1>n, <3>5 DEF Patched, NoCalls
    <3>7. data \in Range(watch'[P])
      <4>1. CASE watch'[P] = watch[P] /\ data = cm[P]
        <5>1. watch[P] # <<>>
          BY <1>n, <3>4, <4>1, BothSites, Zenon DEF WipeInv, Answered, Nothing, NoCalls
        <5> QED  BY <4>1, <5>1, LastOfWatch, BothSites DEF WipeInv
      <4> QED  BY <3>6, <4>1
    <3> QED  BY <1>a, <3>4, <3>7 DEF Ordered
  <2>9. ASSUME NEW s \in Sites, Deliver(s)
        PROVE  FALSE
    <3>1. s = ActiveSite /\ outbox[s] = <<m>> /\ inbox[P] = <<>>
      BY <2>4, <2>9, BothSites DEF Deliver, OnlyMail
    <3>2. inbox' = Received(s, 1)
      BY <1>n, <2>9 DEF Deliver, Copies, Once
    <3>3. inbox[P] \o [i \in 1 .. 1 |-> Head(outbox[s])] = <<m>>
      BY <2>5, <3>1, OneCopy
    <3>4. inbox'[P] = <<m>>
      BY <1>t, <3>1, <3>2, <3>3, BothSites DEF Received, Set
    <3>5. Range(<<m>>) = {m}
      BY <2>5, QueueOfOne
    <3> QED  BY <2>2, <3>4, <3>5 DEF ToPassive
  <2>10. \A s \in Sites : ~Drop(s) /\ ~Restart(s)
    BY <1>n DEF Drop, Restart
  <2>11. ~UNCHANGED <<inbox, outbox>>
    BY <2>1, <2>2 DEF ToPassive
  <2> QED  BY <2>6, <2>7, <2>8, <2>9, <2>10, <2>11 DEF Next, Poll, HearPatroni, Rebuilt,
             PeerChanges, Requested, vars
<1> QED  BY <1>1, <1>2

\* The passive site is told to follow by an active one that serves.
LEMMA OrderSent ==
    ASSUME WipeInv, [Next]_vars, ~Requested,
           "active-passive" \in Ordered', "active-passive" \notin Ordered
    PROVE  Serves(ActiveSite)'
<1> DEFINE t == "active-passive"
<1>1. ASSUME t \in Asked(PassiveSite)'
      PROVE  FALSE
  <2>1. t = Nothing \/ t \in Ordered
    <3>1. t \notin Asked(PassiveSite)
      BY DEF Ordered
    <3>2. \/ t = ""
          \/ \E m \in ToPassive : m.event = "transition_to" /\ m.state = t
      BY <1>1, <3>1, AskedStep, BothSites, Zenon DEF Requested, WipeInv
    <3> QED  BY <3>2, Zenon DEF Ordered, Nothing
  <2> QED  BY <2>1 DEF Nothing
<1>2. PICK m \in ToPassive' : m.event = "transition_to" /\ m.state = t
  BY <1>1 DEF Ordered
<1>3. m \notin ToPassive
  BY <1>2 DEF Ordered
<1> QED  BY <1>2, <1>3, OrderPromotes DEF Serves

\* A request stays the one that is under way.
LEMMA OnlyOrder ==
    ASSUME WipeInv, TokenInv, [Next]_vars, ~Requested, TypeOK', NEW t \in InFlight,
           t # "active-passive"
    PROVE  "active-passive" \notin Ordered'
<1>1. ASSUME "active-passive" \in Ordered'
      PROVE  "active-passive" \in InFlight'
  <2>1. CASE "active-passive" \in Asked(PassiveSite)'
    BY <2>1 DEF InFlight, Transitions
  <2>2. CASE \E m \in ToPassive' : m.event = "transition_to" /\ m.state = "active-passive"
    BY <2>2 DEF InFlight, Transitions, Demand
  <2> QED  BY <1>1, <2>1, <2>2 DEF Ordered
<1>2. InFlight' \subseteq InFlight
  BY NoNewDemand DEF Requested, WipeInv
<1> QED  BY <1>1, <1>2 DEF WipeInv, OneRequest

\* The active site stops serving only if the passive one is told to, or has
\* consented that it does.
LEMMA ActiveLeaves ==
    ASSUME Coordinated, NoLoss, CoreInv, [Next]_vars, ~Requested, TypeOK',
           Serves(ActiveSite), ~Serves(ActiveSite)'
    PROVE  TakingOver' \/ Holds'
<1> DEFINE A == ActiveSite
<1> DEFINE P == PassiveSite
<1>n. NoCalls
  BY DEF NoLoss, NoCalls
<1>1. PICK e \in StateEvents(A) : Consume(A, e) /\ HandleEvent(A, e)
  BY <1>n, SiteStep, BothSites DEF CoreInv, WipeInv, Keeps, Fires, Serves
<1>2. SiteHandled(A, e)
      /\ cm'[P] = cm[P] /\ db'[P] = db[P] /\ triggers'[P] = triggers[P] /\ health'[P] = health[P]
  BY <1>1, <1>n, HandledSite, BothSites DEF CoreInv
<1>t. \A work : SetTraffic(A, work) => health'[A] = HealthFor(A, work)
  BY BothSites DEF SetTraffic, Set, CoreInv, WipeInv, TypeOK
<1>s. \A work : Starting(A, e, work) =>
         /\ Work(A, e.snap.transition) = work /\ e.snap.transition \in Transitions \cap InFlight
  BY StartedFrom, BothSites DEF CoreInv, MatchInv
<1>3. CASE Untouched
  BY <1>3 DEF Untouched, Serves
<1>4. ASSUME NEW work \in {"primary", "detach"}, Starting(A, e, work), SetTraffic(A, work),
             db'[A] = "leader"
      PROVE  FALSE
  <2>1. work = "primary"
    BY <1>4, <1>s DEF Work, Transitions
  <2> QED  BY <1>4, <1>t, <2>1 DEF HealthFor, Serves
<1>5. ASSUME Starting(A, e, "standby")
      PROVE  Holds'
  <2>1. e.snap.transition = "gold-standby" /\ e.snap.transition \in InFlight
    BY <1>5, <1>s DEF Work, Transitions
  <2>2. e.peer_ok
    BY <1>5, <2>1 DEF Starting, MustConfirm, NeedsConsent
  <2>3. PICK m \in ToActive : m.item = e.snap
    BY <2>2, EventSource, BothSites DEF CoreInv, WipeInv
  <2>4. cm[P].last = "golddr-primary"
    BY <2>1, <2>3 DEF CoreInv, ConsentHolds, RequiredState
  <2>5. Serves(P) /\ Serves(P)'
    BY <1>2, <2>4, BothSites DEF CoreInv, MatchInv, Matches, Leads, Serves
  <2>6. triggers[P] = {}
    BY <2>1 DEF CoreInv, TokenInv, TriggersLast
  <2>7. "active-passive" \notin Ordered'
    BY <2>1, OnlyOrder DEF CoreInv
  <2> QED  BY <1>2, <2>4, <2>5, <2>6, <2>7 DEF Holds, Follows
<1>6. ASSUME Starting(A, e, "down"), ForwardsOrder(A, e.snap.transition)
      PROVE  TakingOver'
  <2> DEFINE m == [event |-> "transition_to", state |-> "golddr-primary"]
  <2>1. e.snap.transition = "golddr-primary"
    BY <1>6, <1>s DEF Work, Transitions
  <2>2. m \in Messages
    BY DEF Messages, Transitions
  <2>3. Forward(A, m)
    BY <1>6, <2>1 DEF ForwardsOrder
  <2>4. m \in ToPassive'
    BY <2>2, <2>3, ForwardEffect, BothSites DEF ToPassive, CoreInv, WipeInv
  <2>5. m.event = "transition_to" /\ m.state = "golddr-primary"
    OBVIOUS
  <2> HIDE DEF m
  <2> QED  BY <2>4, <2>5 DEF TakingOver, Ordered
<1>7. Starting(A, e, "note") => Untouched
  BY <1>2, <1>s DEF SiteHandled, Reacts, Commits, Starting
<1> QED  BY <1>2, <1>3, <1>4, <1>5, <1>6 DEF SiteHandled, Reacts, Commits

\* The passive site stops serving only to follow, ...
LEMMA PassiveLeaves ==
    ASSUME Coordinated, NoLoss, CoreInv, [Next]_vars, Serves(PassiveSite), ~Serves(PassiveSite)'
    PROVE  Follows
<1> DEFINE P == PassiveSite
<1>n. NoCalls
  BY DEF NoLoss, NoCalls
<1>1. PICK e \in StateEvents(P) : Consume(P, e) /\ HandleEvent(P, e)
  BY <1>n, SiteStep, BothSites DEF CoreInv, WipeInv, Keeps, Fires, Serves
<1>2. SiteHandled(P, e)
  BY <1>1, <1>n, HandledSite, BothSites DEF CoreInv
<1>t. \A work : SetTraffic(P, work) => health'[P] = HealthFor(P, work)
  BY BothSites DEF SetTraffic, Set, CoreInv, WipeInv, TypeOK
<1>s. \A work : Starting(P, e, work) =>
         /\ Work(P, e.snap.transition) = work /\ e.snap.transition \in Transitions
         /\ ~Refused(e.snap.transition, cm[P].last)
  BY StartedFrom, BothSites DEF CoreInv, MatchInv
<1>3. CASE Untouched
  BY <1>3 DEF Untouched, Serves
<1>4. ASSUME NEW work \in {"primary", "detach"}, Starting(P, e, work), SetTraffic(P, work),
             db'[P] = "leader"
      PROVE  Follows
  <2>1. work = "detach"
    BY <1>4, <1>t DEF HealthFor, Serves
  <2>2. e.snap.transition = "golddr-maintenance"
    BY <1>4, <1>s, <2>1, BothSites DEF Work, Transitions
  <2> QED  BY <1>4, <1>s, <2>2 DEF Refused, Follows
<1>5. ASSUME Starting(P, e, "standby")
      PROVE  Follows
  <2>1. e.snap.transition = "active-passive"
    BY <1>5, <1>s, BothSites DEF Work, Transitions
  <2>2. ~e.peer_ok /\ e.snap \in Range(watch[P])
    BY EventSource, BothSites DEF CoreInv, WipeInv
  <2> QED  BY <2>1, <2>2 DEF Follows, Ordered, Asked
<1>6. ~Starting(P, e, "down")
  BY <1>s, BothSites DEF Work, Transitions
<1> QED  BY <1>2, <1>3, <1>4, <1>5, <1>6 DEF SiteHandled, Reacts, Commits

\* ... and it follows when the active one serves.
LEMMA FollowsStep ==
    ASSUME Coordinated, NoLoss, CoreInv, [Next]_vars, ~Requested, Follows', ~Follows
    PROVE  Serves(ActiveSite)'
<1> DEFINE P == PassiveSite
<1>n. NoCalls
  BY DEF NoLoss, NoCalls
<1>1. CASE "active-passive" \in Ordered'
  BY <1>1, OrderSent DEF Follows, CoreInv
<1>2. CASE Fires(P) \/ Keeps(P)
  BY <1>1, <1>2 DEF Follows, Fires, Keeps
<1>3. ASSUME NEW e \in StateEvents(P), Consume(P, e), HandleEvent(P, e),
             "active-passive" \notin Ordered'
      PROVE  FALSE
  <2>1. SiteHandled(P, e)
    BY <1>3, <1>n, HandledSite, BothSites DEF CoreInv
  <2>2. cm'[P].last = "active-passive" \/ triggers'[P] # {}
    BY <1>3 DEF Follows
  <2>3. cm[P].last # "active-passive" /\ triggers[P] = {}
    BY DEF Follows
  <2>s. \A work : Starting(P, e, work) =>
           Work(P, e.snap.transition) = work /\ e.snap.transition \in Transitions
    BY StartedFrom, BothSites DEF CoreInv, MatchInv
  <2>4. ASSUME NEW work, Starting(P, e, work), cm'[P].last = Reached(e.snap.transition),
               triggers'[P] = triggers[P], work \in {"primary", "detach"}
        PROVE  FALSE
    BY <2>2, <2>3, <2>4, <2>s, BothSites DEF Work, Transitions, Reached
  <2>5. ASSUME Starting(P, e, "standby")
        PROVE  FALSE
    <3>1. e.snap.transition = "active-passive"
      BY <2>5, <2>s, BothSites DEF Work, Transitions
    <3>2. ~e.peer_ok /\ e.snap \in Range(watch[P])
      BY EventSource, BothSites DEF CoreInv, WipeInv
    <3> QED  BY <3>1, <3>2 DEF Follows, Ordered, Asked
  <2>6. ASSUME NEW work \in {"down", "note"}, Starting(P, e, work),
               cm'[P].last = e.snap.transition, triggers'[P] = triggers[P]
        PROVE  FALSE
    BY <2>2, <2>3, <2>6, <2>s, BothSites DEF Work, Transitions
  <2>7. Asks(e) => e.snap.last = cm[P].last
    BY SnapshotRecorded, BothSites DEF CoreInv, MatchInv
  <2> QED  BY <2>1, <2>2, <2>3, <2>4, <2>5, <2>6, <2>7 DEF SiteHandled, Reacts, Commits, Untouched
<1> QED  BY <1>1, <1>2, <1>3, <1>n, SiteStep, BothSites DEF CoreInv, WipeInv

\* The order to take over is gone when the passive site leads.
LEMMA OrderTaken ==
    ASSUME Coordinated, NoLoss, CoreInv, [Next]_vars, ~Requested, TypeOK',
           TakingOver, ~TakingOver'
    PROVE  Holds'
<1> DEFINE P == PassiveSite
<1> DEFINE t == "golddr-primary"
<1>n. NoCalls
  BY DEF NoLoss, NoCalls
<1>z. t # Nothing /\ t \in Transitions
  BY DEF Nothing, Transitions
<1>1. PICK e \in StateEvents(P) : /\ Consume(P, e) /\ HandleEvent(P, e)
                                  /\ ~e.peer_ok /\ e.snap.transition = t
  BY <1>z, OrderKept DEF TakingOver, CoreInv
<1>2. e.snap = cm[P]
  BY <1>1, <1>z, SnapshotRecorded, BothSites DEF CoreInv, MatchInv
<1>3. SiteHandled(P, e)
  BY <1>1, <1>n, HandledSite, BothSites DEF CoreInv
<1>4. triggers[P] = {} /\ "active-passive" \notin Ordered'
  <2>1. t \in InFlight /\ triggers[P] = {}
    BY <1>z, OrderedTypes DEF CoreInv, TakingOver
  <2> QED  BY <2>1, OnlyOrder DEF CoreInv
<1>5. CASE Asks(e)
  <2>1. Starting(P, e, "primary")
    <3>1. ~Aborts(P, e) /\ ~MustConfirm(P, e) /\ Work(P, t) = "primary"
      BY <1>1, BothSites DEF Aborts, NeedsPeer, Refused, MustConfirm, Work
    <3> QED  BY <1>1, <1>5, <3>1 DEF Starting
  <2>2. \A work : Starting(P, e, work) => work = "primary"
    BY <2>1 DEF Starting
  <2>3. /\ db'[P] = "leader" /\ cm'[P].last = Reached(t) /\ triggers' = triggers
        /\ SetTraffic(P, "primary")
    BY <1>1, <1>3, <2>1, <2>2 DEF SiteHandled, Reacts, Commits
  <2>4. health'[P]
    BY <2>3, BothSites DEF SetTraffic, Set, HealthFor, CoreInv, WipeInv, TypeOK
  <2> QED  BY <1>4, <2>3, <2>4 DEF Holds, Serves, Follows, Reached
<1>6. CASE ~Asks(e) /\ e.snap.last # Nothing
  <2>1. e.snap.last = t
    BY <1>1, <1>6, <1>z, Zenon DEF Asks, Nothing
  <2>2. Serves(P)
    BY <1>2, <2>1, BothSites DEF CoreInv, MatchInv, Matches, Leads, Serves
  <2>3. Untouched /\ cm'[P].last = cm[P].last
    BY <1>3, <1>6 DEF SiteHandled, Reacts, Commits, Starting
  <2> QED  BY <1>2, <1>4, <2>1, <2>2, <2>3 DEF Holds, Serves, Follows, Untouched
<1>7. CASE e.snap.last = Nothing
  <2> DEFINE data == [cm[P] EXCEPT !.last = "independent"]
  <2>1. Write(P, e.watch, data, TRUE)
    <3>1. ~Asks(e)
      BY <1>7, Zenon DEF Asks, Nothing
    <3>2. AdoptFresh(P, e)
      BY <1>1, <1>7, <1>n, <3>1, Zenon DEF HandleEvent, NothingToDo, Abort, AskConsent, BecomePrimary,
         BecomeStandby, TakeDown, NoteState, TransitionRaises, Starting, Nothing, NoCalls
    <3> QED  BY <3>2 DEF AdoptFresh
  <2>2. data \in Snapshots /\ data.last = "independent" /\ data.transition = cm[P].transition
    <3>1. cm[P] \in Snapshots /\ data \in Snapshots
      BY <1>1, Recordings, BothSites DEF CoreInv, WipeInv, TypeOK
    <3> QED  BY <3>1 DEF Snapshots
  <2>3. data # cm[P]
    BY <1>2, <1>7, <2>2 DEF Nothing
  <2> HIDE DEF data
  <2>4. Patched(P, e.watch, data)
    BY <2>1, <2>2, <1>1, EventTypes, PatchEffect, BothSites DEF CoreInv, WipeInv
  <2>5. data \in Range(watch'[P])
    BY <1>n, <2>3, <2>4 DEF Patched, NoCalls
  <2>6. t \in Ordered'
    BY <1>1, <1>2, <2>2, <2>5 DEF Ordered, Asked
  <2> QED  BY <2>6 DEF TakingOver
<1> QED  BY <1>5, <1>6, <1>7

LEMMA ServedStep ==
    ASSUME Coordinated, NoLoss, CoreInv, ServedInv, [Next]_vars, TypeOK'
    PROVE  ServedInv'
<1>1. CASE ~Requested
  <2>1. CASE TakingOver /\ ~TakingOver'
    BY <1>1, <2>1, OrderTaken DEF ServedInv, Holds
  <2>2. CASE ~TakingOver /\ ~TakingOver' /\ Serves(ActiveSite)
    BY <1>1, <2>2, ActiveLeaves DEF ServedInv, Holds
  <2>3. CASE ~TakingOver /\ ~TakingOver' /\ ~Serves(ActiveSite)
    BY <1>1, <2>3, PassiveLeaves, FollowsStep DEF ServedInv
  <2> QED  BY <2>1, <2>2, <2>3 DEF ServedInv
<1>2. CASE Requested
  <2>1. PICK s \in Sites, t \in Transitions : OperatorAsks(s, t)
    BY <1>2 DEF Requested, DnsFailover, Coordinated
  <2>2. /\ Idle(PassiveSite) /\ NoMail /\ triggers' = triggers
        /\ db' = db /\ health' = health
        /\ cm'[PassiveSite].last = cm[PassiveSite].last
    BY <2>1, QuietRequest, BothSites DEF CoreInv, databases, traffic
  <2>3. ~TakingOver
    <3>1. ToPassive = {}
      BY <2>2, BothSites, QueueEmpty DEF NoMail, ToPassive
    <3>2. Ordered \subseteq {Nothing}
      BY <2>2, <3>1 DEF Ordered, Idle
    <3> QED  BY <3>2 DEF TakingOver, Nothing
  <2>4. Follows' => Follows
    BY <2>1, <2>2, NewDemand DEF Follows, CoreInv
  <2> QED  BY <2>2, <2>3, <2>4 DEF ServedInv, Serves
<1> QED  BY <1>1, <1>2

\* When nothing is under way the load balancer finds a site that is up and whose
\* database leads: the active site goes down only with an order to the passive one
\* on its way, and becomes a standby only of a site that has taken over; the
\* passive one gives the traffic up only for an active one that has it.
THEOREM TrafficIsServed ==
    ASSUME Coordinated, NoLoss
    PROVE  Spec => []TrafficServed
<1>n. NoCalls /\ Once
  BY DEF NoLoss, NoCalls, Once
<1>1. Init => CoreInv /\ ServedInv
  <2> SUFFICES ASSUME Init
               PROVE  CoreInv /\ ServedInv
    OBVIOUS
  <2>1. Serves(ActiveSite)
    BY BothSites DEF Init, Serves
  <2>2. CoreInv
    BY ConsentInit, MatchInvInit DEF CoreInv
  <2> QED  BY <2>1, <2>2 DEF ServedInv
<1>2. CoreInv /\ ServedInv /\ [Next]_vars => CoreInv' /\ ServedInv'
  <2> SUFFICES ASSUME CoreInv, ServedInv, [Next]_vars
               PROVE  CoreInv' /\ ServedInv'
    OBVIOUS
  <2>1. CoreInv'
    BY <1>n, CoreStep
  <2>2. TypeOK'
    BY <2>1 DEF CoreInv, WipeInv
  <2> QED  BY <2>1, <2>2, ServedStep
<1>3. CoreInv /\ ServedInv => TrafficServed
  <2> SUFFICES ASSUME CoreInv, ServedInv, Settled
               PROVE  \E s \in Sites : Serves(s)
    BY DEF TrafficServed, Serves
  <2>1. /\ watch[PassiveSite] = <<>> /\ inbox[PassiveSite] = <<>> /\ outbox[ActiveSite] = <<>>
        /\ cm[PassiveSite].transition = Nothing
    BY BothSites, Zenon DEF Settled, Quiet, Nothing
  <2>2. Asked(PassiveSite) \subseteq {Nothing} /\ ToPassive = {}
    BY <2>1, QueueEmpty DEF Asked, ToPassive
  <2>3. "golddr-primary" \notin Ordered
    BY <2>2 DEF Ordered, Nothing
  <2> QED  BY <2>3, BothSites DEF ServedInv, TakingOver
<1> QED  BY <1>1, <1>2, <1>3, PTL DEF Spec
=============================================================================
