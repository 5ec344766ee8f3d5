------------------------ MODULE SwitchoverRefinement ------------------------
(***************************************************************************)
(* Proofs about Switchover: nothing disturbed, the two ConfigMaps agree    *)
(* when nothing is under way, and the two agents implement SwitchoverCycle.*)
(* A site has a position in the cycle (Position), which only a handler     *)
(* that starts a transition changes.  While an order is under way the      *)
(* active site is at the position it orders and the passive one can take   *)
(* it (OrderHeld); otherwise the two are at the same position (InStep).    *)
(***************************************************************************)
EXTENDS SwitchoverRecords

\* The transitions of the cycle, asked for at the active site, ...
CycleTransitions == {"active-passive", "golddr-primary", "gold-standby"}
Cyclic == OperatorMayAsk \subseteq {ActiveSite} \X CycleTransitions

\* ... while operators are patient, there is no automation and nothing fails.
Undisturbed == Patient /\ ~Automation /\ Cyclic /\ Faults = {}

\* The transitions a handler may start at a site, as the work they are.
Works == {"primary", "detach", "standby", "down", "note"}

\* Where in the cycle a site is: a standby that is being rebuilt has arrived.
Position(s) == IF cm[s].last = Nothing THEN "independent" ELSE Stage(cm[s].last)

\* A rebuild is recorded by its partial state, and by nothing else, ...
RebuildRecorded == \A s \in Sites :
    IF triggers[s] # {} THEN cm[s].last = Partial(StandbyFor(s))
    ELSE cm[s].last \notin {"active-passive-partial", "gold-standby-partial"}

\* ... the ConfigMaps are adopted before anything is asked for, ...
AdoptedFirst == (\E s \in Sites : \E snap \in Range(watch[s]) : snap.last = Nothing) =>
    /\ InFlight = {}
    /\ \A s \in Sites : triggers[s] = {} /\ cm[s].last \in {Nothing, "independent"}

\* ... and the connection is never found in error.
PeersFine == \A s \in Sites : peer[s] # "error"

OrderHeld == \A t \in Ordered : t # Nothing =>
                Position(ActiveSite) = t /\ ~Refused(t, Position(PassiveSite))
InStep == (\A t \in Ordered : t = Nothing) => Position(ActiveSite) = Position(PassiveSite)

CycleOnly == InFlight \subseteq CycleTransitions

AgreeInv == /\ RebuildRecorded /\ AdoptedFirst /\ PeersFine
            /\ OrderHeld /\ InStep /\ CycleOnly
-----------------------------------------------------------------------------
(* What a step does to the positions and to the orders *)

LEMMA Hypotheses ==
    ASSUME Undisturbed
    PROVE  Coordinated /\ NoCalls /\ Once /\ NoLoss /\ "restart" \notin Faults /\ "peer" \notin Faults
BY DEF Undisturbed, Cyclic, Coordinated, NoCalls, Once, NoLoss, ActiveSite, PassiveSite

\* A site that acts on a request is not being rebuilt, and it has adopted its
\* ConfigMap.
LEMMA RequestHandled ==
    ASSUME CoreInv, AdoptedFirst, NEW s \in Sites, NEW e \in StateEvents(s), Asks(e)
    PROVE  /\ e.snap.transition \in InFlight /\ triggers[s] = {}
           /\ e.snap.last = cm[s].last /\ cm[s].last # Nothing
           /\ s = ActiveSite => \A t \in Ordered : t = Nothing
           /\ s = PassiveSite => ~e.peer_ok /\ e.snap.transition \in Ordered
<1> USE DEF CoreInv, WipeInv
<1>1. e.snap.transition \in InFlight /\ e.snap.transition # Nothing /\ e.snap.last # Nothing
  BY EventAsks, EventSource, SnapshotParts
<1>2. e.snap.last = cm[s].last
  BY SnapshotRecorded DEF MatchInv
<1>3. CASE s = PassiveSite
  <2>1. ~e.peer_ok /\ ~Idle(s)
    BY <1>1, <1>3, EventAsks, BothSites
  <2>2. e.snap \in Range(watch[s])
    BY <2>1, EventSource
  <2>3. e.snap.transition \in Ordered
    BY <2>2, <1>3 DEF Ordered, Asked
  <2>4. triggers[s] = {}
    BY <1>1, <1>3 DEF TokenInv, TriggersLast
  <2> QED  BY <1>1, <1>2, <1>3, <2>1, <2>3, <2>4, BothSites
<1>4. CASE s = ActiveSite /\ ~e.peer_ok
  <2>1. ~Idle(s)
    BY <1>1, <1>4, EventAsks
  <2>2. NoMail /\ Idle(PassiveSite) /\ triggers[s] = {}
    BY <1>4, <2>1 DEF TokenInv, OnePlace
  <2>3. ToPassive = {}
    BY <2>2, QueueEmpty, BothSites DEF NoMail, ToPassive
  <2> QED  BY <1>1, <1>2, <1>4, <2>2, <2>3, BothSites DEF Ordered, Idle
<1>5. CASE s = ActiveSite /\ e.peer_ok
  <2>1. /\ inbox[s] = <<[event |-> "yes_happy_to_proceed", item |-> e.snap]>>
        /\ inbox[PassiveSite] = <<>> /\ outbox[ActiveSite] = <<>> /\ Idle(PassiveSite)
    BY <1>5, EventAsks, BothSites
  <2>2. ToPassive = {}
    BY <2>1, QueueEmpty DEF ToPassive
  <2>3. \E m \in ToActive : m.event # "transition_to"
    <3>1. PICK m \in ToActive : m.item = e.snap
      BY <1>5, EventSource
    <3> QED  BY <3>1 DEF Channels, Answer
  <2>4. triggers[s] = {}
    BY <1>5, <2>3 DEF MatchInv, Unfinished
  <2> QED  BY <1>1, <1>2, <1>5, <2>1, <2>2, <2>4, BothSites DEF Ordered, Idle
<1> QED  BY <1>3, <1>4, <1>5, BothSites

StartsAt(s, e) == \E work \in Works : Starting(s, e, work)

\* A recorded state that is not a partial one is a position.
LEMMA Positions ==
    /\ \A s \in Sites : RebuildRecorded /\ triggers[s] = {} /\ cm[s].last # Nothing
                        => Position(s) = cm[s].last
    /\ \A t \in CycleTransitions : /\ Stage(t) = t /\ Reached(t) = t /\ t # Nothing
                                   /\ t \in Transitions /\ t \in StableStates
                                   /\ t \notin {"active-passive-partial", "gold-standby-partial", "independent"}
    /\ \A s \in Sites : /\ Stage(Partial(StandbyFor(s))) = StandbyFor(s)
                        /\ Partial(StandbyFor(s)) # Nothing
                        /\ StandbyFor(s) \in CycleTransitions
    /\ Stage("independent") = "independent" /\ "independent" # Nothing
<1>1. \A t \in CycleTransitions : /\ Stage(t) = t /\ Reached(t) = t /\ t # Nothing
                                  /\ t \in Transitions /\ t \in StableStates
                                  /\ t \notin {"active-passive-partial", "gold-standby-partial", "independent"}
  <2>1. \A t \in CycleTransitions : t \in Transitions /\ t \in StableStates
    BY DEF CycleTransitions, Transitions, StableStates
  <2> QED  BY <2>1, SnapshotParts DEF CycleTransitions, Stage, Reached
<1>2. \A s \in Sites : /\ Partial(StandbyFor(s)) \in StableStates
                       /\ Stage(Partial(StandbyFor(s))) = StandbyFor(s)
                       /\ StandbyFor(s) \in CycleTransitions
  BY DEF StandbyFor, Partial, Stage, StableStates, CycleTransitions
<1>3. "independent" \in StableStates /\ Stage("independent") = "independent"
  BY DEF StableStates, Stage
<1>4. ASSUME NEW s \in Sites, RebuildRecorded, triggers[s] = {}, cm[s].last # Nothing
      PROVE  Position(s) = cm[s].last
  BY <1>4 DEF RebuildRecorded, Position, Stage
<1> QED  BY <1>1, <1>2, <1>3, <1>4, SnapshotParts

\* A rebuild at a site and its record.
Rebuild(s) == IF triggers[s] # {} THEN cm[s].last = Partial(StandbyFor(s))
              ELSE cm[s].last \notin {"active-passive-partial", "gold-standby-partial"}

\* A handler moves its site to the position it starts, or leaves it.
LEMMA HandledPosition ==
    ASSUME Undisturbed, CoreInv, RebuildRecorded, AdoptedFirst, CycleOnly,
           NEW s \in Sites, NEW e \in StateEvents(s), HandleEvent(s, e)
    PROVE  /\ StartsAt(s, e) => /\ Position(s)' = e.snap.transition
                                /\ s = ActiveSite => ForwardsOrder(s, e.snap.transition)
           /\ ~StartsAt(s, e) => Position(s)' = Position(s)
           /\ Rebuild(s)'
<1> DEFINE t == e.snap.transition
<1> USE DEF CoreInv
<1>0. SiteHandled(s, e)
  BY Hypotheses, HandledSite
<1>1. ASSUME NEW work \in Works, Starting(s, e, work)
      PROVE  /\ t \in CycleTransitions /\ triggers[s] = {} /\ Asks(e)
             /\ Work(s, t) = work /\ StartsAt(s, e)
  <2>1. Asks(e) /\ Work(s, t) = work
    BY <1>1 DEF Starting
  <2> QED  BY <1>1, <2>1, RequestHandled DEF CycleOnly, StartsAt
<1>2. ASSUME Untouched, \A work \in Works : ~Starting(s, e, work),
             \/ cm'[s].last = cm[s].last
             \/ cm'[s].last = e.snap.last /\ Asks(e)
             \/ cm'[s].last = "independent" /\ ~Asks(e) /\ e.snap.last = Nothing
      PROVE  ~StartsAt(s, e) /\ Position(s)' = Position(s) /\ Rebuild(s)'
  <2>1. ~StartsAt(s, e) /\ triggers' = triggers
    BY <1>2 DEF StartsAt, Untouched
  <2>2. CASE cm'[s].last = cm[s].last
    BY <2>1, <2>2 DEF RebuildRecorded, Rebuild, Position
  <2>3. CASE cm'[s].last = e.snap.last /\ Asks(e)
    BY <2>2, <2>3, RequestHandled
  <2>4. CASE cm'[s].last = "independent" /\ ~Asks(e) /\ e.snap.last = Nothing
    <3>1. ~e.peer_ok
      BY <2>4, EventAsks
    <3>2. e.snap \in Range(watch[s])
      BY <3>1, EventSource DEF WipeInv
    <3>3. triggers[s] = {} /\ cm[s].last \in {Nothing, "independent"}
      BY <2>4, <3>2 DEF AdoptedFirst
    <3> QED  BY <2>1, <2>4, <3>3, Positions DEF Position, Rebuild
  <2> QED  BY <1>2, <2>1, <2>2, <2>3, <2>4
<1>3. ASSUME NEW work \in {"primary", "detach"}, Starting(s, e, work), triggers' = triggers,
             cm'[s].last = Reached(t), ForwardsOrder(s, t)
      PROVE  StartsAt(s, e) /\ Position(s)' = t /\ Rebuild(s)'
  BY <1>1, <1>3, Positions DEF Position, Rebuild, Works
<1>4. ASSUME Starting(s, e, "standby"), triggers' = triggers, cm'[s].last = t
      PROVE  StartsAt(s, e) /\ Position(s)' = t /\ Rebuild(s)'
  BY <1>1, <1>4, Positions DEF Position, Rebuild, Works
<1>5. ASSUME Starting(s, e, "standby"), triggers'[s] = {t}, cm'[s].last = Partial(t)
      PROVE  StartsAt(s, e) /\ Position(s)' = t /\ Rebuild(s)'
  <2>1. t = StandbyFor(s)
    <3>1. Work(s, t) = "standby" /\ t \in CycleTransitions
      BY <1>1, <1>5 DEF Works
    <3> QED  BY <3>1, BothSites DEF Work, CycleTransitions, StandbyFor
  <2> QED  BY <1>1, <1>5, <2>1, Positions DEF Position, Rebuild, Works
<1>6. ASSUME NEW work \in {"down", "note"}, Starting(s, e, work), triggers' = triggers, cm'[s].last = t
      PROVE  StartsAt(s, e) /\ Position(s)' = t /\ Rebuild(s)'
  BY <1>1, <1>6, Positions DEF Position, Rebuild, Works
<1>7. Starting(s, e, "note") => s # ActiveSite
  <2>1. ASSUME Starting(s, e, "note")
        PROVE  Work(s, t) = "note" /\ t \in CycleTransitions
    BY <1>1, <2>1 DEF Works
  <2> QED  BY <2>1 DEF Work, CycleTransitions
<1> QED  BY <1>0, <1>2, <1>3, <1>4, <1>5, <1>6, <1>7 DEF SiteHandled, Reacts, Commits, Works, Untouched

LEMMA PositionStep ==
    ASSUME Undisturbed, CoreInv, RebuildRecorded, AdoptedFirst, CycleOnly, [Next]_vars, NEW s \in Sites
    PROVE  /\ Rebuild(s)'
           /\ \/ Position(s)' = Position(s)
              \/ \E e \in StateEvents(s) : Consume(s, e) /\ HandleEvent(s, e) /\ StartsAt(s, e)
<1> USE DEF CoreInv
<1>1. ASSUME NEW e \in StateEvents(s), Consume(s, e), HandleEvent(s, e)
      PROVE  Rebuild(s)' /\ (StartsAt(s, e) \/ Position(s)' = Position(s))
  BY <1>1, HandledPosition
<1>2. CASE Keeps(s)
  BY <1>2, Hypotheses DEF Keeps, RebuildRecorded, Rebuild, Position
<1>3. CASE Fires(s)
  <2>1. cm[s].last = Partial(StandbyFor(s)) /\ triggers'[s] = {} /\ cm'[s].last = StandbyFor(s)
    BY <1>3 DEF Fires, RebuildRecorded, MatchInv, Unfinished
  <2> QED  BY <2>1, Positions DEF Position, Rebuild
<1> QED  BY <1>1, <1>2, <1>3, SiteStep, Hypotheses DEF CoreInv, WipeInv

\* The passive site is told of what the active one starts, ...
LEMMA OrderForwarded ==
    ASSUME TypeOK, NEW t \in Transitions, ForwardsOrder(ActiveSite, t)
    PROVE  t \in Ordered'
<1> DEFINE m == [event |-> "transition_to", state |-> t]
<1>1. m \in Messages /\ m.event = "transition_to" /\ m.state = t
  BY DEF Messages
<1>2. Forward(ActiveSite, m)
  BY DEF ForwardsOrder
<1> HIDE DEF m
<1>a. Range(outbox'[ActiveSite]) = Range(outbox[ActiveSite]) \cup {m}
  BY <1>1, <1>2, ForwardEffect, BothSites
<1>3. m \in ToPassive'
  BY <1>a DEF ToPassive
<1>4. m.state \in {x.state : x \in {x \in ToPassive' : x.event = "transition_to"}}
  BY <1>1, <1>3
<1> QED  BY <1>1, <1>4 DEF Ordered

\* ... and of nothing else.
LEMMA OrderStarts ==
    ASSUME WipeInv, [Next]_vars, ~Requested, NEW t \in Ordered', t # Nothing, t \notin Ordered
    PROVE  \E e \in StateEvents(ActiveSite) :
              /\ Consume(ActiveSite, e) /\ HandleEvent(ActiveSite, e) /\ StartsAt(ActiveSite, e)
              /\ t = e.snap.transition
<1>1. CASE t \in Asked(PassiveSite)'
  BY <1>1, AskedStep, BothSites DEF CoreInv, WipeInv, Requested, Ordered, Nothing
<1>2. ASSUME NEW m \in ToPassive', m.event = "transition_to", m.state = t
      PROVE  \E e \in StateEvents(ActiveSite) :
                /\ Consume(ActiveSite, e) /\ HandleEvent(ActiveSite, e) /\ StartsAt(ActiveSite, e)
                /\ t = e.snap.transition
  <2>1. m \notin ToPassive
    BY <1>2 DEF Ordered
  <2>2. PICK e \in StateEvents(ActiveSite) :
           /\ Consume(ActiveSite, e) /\ HandleEvent(ActiveSite, e) /\ m.state = e.snap.transition
           /\ \E work \in {"primary", "detach", "standby", "down"} : Starting(ActiveSite, e, work)
    BY <1>2, <2>1, MailToPassive DEF CoreInv, WipeInv
  <2>3. StartsAt(ActiveSite, e)
    BY <2>2 DEF StartsAt, Works
  <2> QED  BY <1>2, <2>2, <2>3
<1> QED  BY <1>1, <1>2 DEF Ordered

\* A handler at one site leaves the other one.
LEMMA OtherStays ==
    ASSUME Undisturbed, CoreInv, NEW s \in Sites, NEW e \in StateEvents(s), HandleEvent(s, e)
    PROVE  /\ Position(Other(s))' = Position(Other(s))
           /\ db'[Other(s)] = db[Other(s)]
<1>1. Other(s) \in Sites \ {s}
  BY BothSites
<1> QED  BY <1>1, HandledSite, Hypotheses DEF Position, CoreInv
-----------------------------------------------------------------------------
(* The agents agree *)

LEMMA PeerStep ==
    ASSUME Undisturbed, [Next]_vars
    PROVE  peer' = peer
<1>1. "peer" \notin Faults /\ "restart" \notin Faults
  BY Hypotheses
<1>2. ASSUME NEW s \in Sites, HandleState(s)
      PROVE  peer' = peer
  BY <1>2, Handling DEF Consume
<1> QED  BY <1>1, <1>2 DEF Next, TakeOrder, Confirm, Poll, HearPatroni, Rebuilt, Deliver, Drop,
           PeerChanges, OperatorAsks, DnsFailover, Restart, vars

\* Nothing is asked for before both ConfigMaps are adopted.
LEMMA AdoptionStep ==
    ASSUME Undisturbed, CoreInv, AdoptedFirst, [Next]_vars, ~Requested
    PROVE  AdoptedFirst'
<1> USE DEF CoreInv
<1> SUFFICES ASSUME NEW r \in Sites, NEW snap \in Range(watch'[r]), snap.last = Nothing
             PROVE  /\ InFlight' = {}
                    /\ \A s \in Sites : triggers'[s] = {} /\ cm'[s].last \in {Nothing, "independent"}
  BY DEF AdoptedFirst
<1>w. TypeOK /\ Channels /\ Latest
  BY DEF WipeInv
<1>1. \E old \in Range(watch[r]) : old.last = Nothing
  <2>1. CASE cm'[r] = cm[r] /\ watch'[r] = watch[r]
    BY <2>1
  <2>2. ASSUME NEW e \in StateEvents(r), Consume(r, e), HandleEvent(r, e),
               Writes(r, e) \/ WritesNothing(r, e)
        PROVE  \E old \in Range(watch[r]) : old.last = Nothing
    <3>1. Range(e.watch) \subseteq Range(watch[r])
      BY <1>w, EventTypes
    <3>2. Writes(r, e) => cm'[r].last # Nothing
      BY <2>2, HandledWatch, Hypotheses
    <3> QED  BY <2>2, <3>1, <3>2 DEF Writes, WritesNothing
  <2>3. CASE watch'[r] = Append(watch[r], cm'[r]) /\ (Ordering(r) \/ Firing(r))
    <3>1. watch[r] \in Seq(Snapshots) /\ cm'[r] \in Snapshots
      BY <1>w, TypeStep DEF TypeOK
    <3>2. Range(watch'[r]) = Range(watch[r]) \cup {cm'[r]}
      BY <2>3, <3>1, QueueAppended
    <3>3. ASSUME snap = cm'[r], Ordering(r)
          PROVE  cm[r].last = Nothing /\ cm[r] \in Range(watch[r])
      <4>1. cm[r].last = Nothing /\ watch[r] # <<>>
        BY <3>3, Hypotheses DEF Ordering, TokenInv, Fresh, NoCalls
      <4> QED  BY <1>w, <4>1, LastOfWatch
    <3>4. ~(snap = cm'[r] /\ Firing(r))
      BY <1>w, SnapshotParts DEF Firing, TypeOK
    <3> QED  BY <2>3, <3>2, <3>3, <3>4
  <2> QED  BY <1>w, <2>1, <2>2, <2>3, WatchStep, Hypotheses DEF Requested, Restart
<1>2. /\ InFlight = {}
      /\ \A s \in Sites : triggers[s] = {} /\ cm[s].last \in {Nothing, "independent"}
  BY <1>1 DEF AdoptedFirst
<1>3. InFlight' = {}
  BY <1>2, NoNewDemand DEF CoreInv, WipeInv, Requested
<1>4. ASSUME NEW s \in Sites
      PROVE  triggers'[s] = {} /\ cm'[s].last \in {Nothing, "independent"}
  <2>1. ASSUME NEW e \in StateEvents(s), HandleEvent(s, e)
        PROVE  triggers'[s] = {} /\ cm'[s].last \in {Nothing, "independent"}
    <3>1. ~Asks(e)
      BY <1>2, RequestHandled
    <3>2. SiteHandled(s, e)
      BY <2>1, HandledSite, Hypotheses
    <3> QED  BY <1>2, <3>1, <3>2 DEF SiteHandled, Reacts, Commits, Starting, Untouched
  <2> QED  BY <1>2, <2>1, SiteStep, Hypotheses DEF CoreInv, WipeInv, Keeps, Fires
<1> QED  BY <1>3, <1>4

\* What the active site starts the passive one can take: it has consented to it,
\* or it takes it in any state.
LEMMA OrderAcceptable ==
    ASSUME CoreInv, AdoptedFirst, CycleOnly, NEW e \in StateEvents(ActiveSite), StartsAt(ActiveSite, e)
    PROVE  /\ e.snap.transition \in CycleTransitions
           /\ ~Refused(e.snap.transition, Position(PassiveSite))
<1> DEFINE t == e.snap.transition
<1> USE DEF CoreInv
<1>1. Asks(e) /\ ~MustConfirm(ActiveSite, e)
  BY DEF StartsAt, Starting
<1>2. t \in CycleTransitions
  BY <1>1, RequestHandled, BothSites DEF CycleOnly
<1>3. CASE t = "golddr-primary"
  BY <1>2, <1>3 DEF Refused
<1>4. CASE t \in {"active-passive", "gold-standby"}
  <2>1. e.peer_ok /\ t \in NeedsConsent
    BY <1>1, <1>4 DEF MustConfirm, NeedsConsent
  <2>2. PICK m \in ToActive : m.item = e.snap
    BY <2>1, EventSource, BothSites DEF WipeInv
  <2>3. cm[PassiveSite].last = RequiredState(t)
    BY <2>2 DEF ConsentHolds
  <2>4. RequiredState(t) \in {"gold-standby", "golddr-primary"} /\ RequiredState(t) # Nothing
    BY <2>1, RequiredStates
  <2>5. Position(PassiveSite) = RequiredState(t)
    BY <2>3, <2>4 DEF Position, Stage
  <2>6. /\ RequiredState("active-passive") = "gold-standby"
        /\ RequiredState("gold-standby") = "golddr-primary"
    BY DEF RequiredState
  <2>7. CASE t = "active-passive"
    BY <1>2, <2>5, <2>6, <2>7 DEF Refused
  <2>8. CASE t = "gold-standby"
    BY <1>2, <2>5, <2>6, <2>8 DEF Refused
  <2> QED  BY <1>4, <2>7, <2>8
<1> QED  BY <1>2, <1>3, <1>4 DEF CycleTransitions

\* While an order is under way neither site moves.
LEMMA OrderHeldStep ==
    ASSUME Undisturbed, CoreInv, AgreeInv, [Next]_vars, ~Requested
    PROVE  OrderHeld'
<1> USE DEF CoreInv, AgreeInv
<1> SUFFICES ASSUME NEW t \in Ordered', t # Nothing
             PROVE  Position(ActiveSite)' = t /\ ~Refused(t, Position(PassiveSite)')
  BY DEF OrderHeld
<1>1. CASE t \notin Ordered
  <2>1. PICK e \in StateEvents(ActiveSite) :
           /\ Consume(ActiveSite, e) /\ HandleEvent(ActiveSite, e) /\ StartsAt(ActiveSite, e)
           /\ t = e.snap.transition
    BY <1>1, OrderStarts
  <2>2. Position(ActiveSite)' = t
    BY <2>1, HandledPosition, BothSites
  <2>3. Position(PassiveSite)' = Position(PassiveSite)
    BY <2>1, OtherStays, BothSites
  <2> QED  BY <2>1, <2>2, <2>3, OrderAcceptable
<1>2. CASE t \in Ordered
  <2>1. t \in InFlight /\ t \in Transitions
    BY <1>2, OrderedTypes DEF InFlight
  <2>2. t \in InFlight'
    BY <2>1 DEF Ordered, InFlight, Demand
  <2>3. ~\E e \in StateEvents(ActiveSite) : StartsAt(ActiveSite, e)
    BY <1>2, RequestHandled, BothSites DEF StartsAt, Starting
  <2>4. ASSUME NEW e \in StateEvents(PassiveSite), Consume(PassiveSite, e), HandleEvent(PassiveSite, e),
               StartsAt(PassiveSite, e)
        PROVE  FALSE
    <3>1. Asks(e)
      BY <2>4 DEF StartsAt, Starting
    <3>2. ~e.peer_ok
      BY <3>1, RequestHandled, BothSites
    <3>a. e.snap.transition \in Transitions
      BY <3>1, EventAsks, BothSites
    <3>t. e.snap.transition # Nothing
      BY <3>a, SnapshotParts
    <3>3. ~Idle(PassiveSite) /\ Idle(PassiveSite)'
      BY <2>4, <3>1, <3>2, <3>t, EventAsks, HandledWatch, BothSites, Hypotheses
    <3> QED  BY <2>2, <3>3, IdleStays, Hypotheses DEF Requested
  <2>5. Position(ActiveSite)' = Position(ActiveSite) /\ Position(PassiveSite)' = Position(PassiveSite)
    BY <2>3, <2>4, PositionStep, BothSites
  <2> QED  BY <1>2, <2>5 DEF OrderHeld
<1> QED  BY <1>1, <1>2

\* The passive site's handler that takes an order starts it, or is where the
\* order leads already.
LEMMA OrderStarted ==
    ASSUME Undisturbed, CoreInv, AgreeInv, NEW e \in StateEvents(PassiveSite),
           HandleEvent(PassiveSite, e), ~e.peer_ok,
           e.snap.transition \in Ordered, e.snap.transition # Nothing
    PROVE  Position(PassiveSite)' = e.snap.transition
<1> DEFINE t == e.snap.transition
<1> USE DEF CoreInv, AgreeInv
<1>1. t \in InFlight /\ t \in CycleTransitions /\ triggers[PassiveSite] = {}
  BY OrderedTypes DEF CycleOnly
<1>2. e.snap = cm[PassiveSite]
  BY SnapshotRecorded, BothSites DEF MatchInv
<1>3. e.snap \in Range(watch[PassiveSite])
  BY EventSource, BothSites DEF WipeInv
<1>4. e.snap.last # Nothing
  BY <1>1, <1>3, BothSites DEF AdoptedFirst
<1>5. Position(PassiveSite) = cm[PassiveSite].last
  BY <1>1, <1>2, <1>4, Positions, BothSites
<1>6. CASE t = e.snap.last
  <2>1. ~Asks(e)
    BY <1>6 DEF Asks
  <2>2. ~StartsAt(PassiveSite, e)
    BY <2>1 DEF StartsAt, Starting
  <2> QED  BY <1>2, <1>5, <1>6, <2>2, HandledPosition, BothSites
<1>7. CASE t # e.snap.last
  <2>1. Asks(e)
    BY <1>4, <1>7 DEF Asks, Nothing
  <2>2. ~Refused(t, e.snap.last)
    BY <1>2, <1>5 DEF OrderHeld
  <2>3. ~Aborts(PassiveSite, e) /\ ~MustConfirm(PassiveSite, e)
    BY <2>2, BothSites DEF Aborts, MustConfirm, PeersFine
  <2>4. Work(PassiveSite, t) \in Works
    BY <1>1, BothSites DEF Work, Works, CycleTransitions
  <2>5. Consume(PassiveSite, e)
    BY Zenon DEF HandleEvent, AdoptFresh, NothingToDo, Abort, AskConsent, BecomePrimary,
       BecomeStandby, TakeDown, NoteState, TransitionRaises, Starting
  <2>6. StartsAt(PassiveSite, e)
    BY <2>1, <2>3, <2>4, <2>5 DEF StartsAt, Starting
  <2> QED  BY <2>6, HandledPosition, BothSites
<1> QED  BY <1>6, <1>7

\* With no order left the passive site is where the active one is.
LEMMA InStepStep ==
    ASSUME Undisturbed, CoreInv, AgreeInv, [Next]_vars, ~Requested
    PROVE  InStep'
<1> USE DEF CoreInv, AgreeInv
<1> SUFFICES ASSUME \A t \in Ordered' : t = Nothing
             PROVE  Position(ActiveSite)' = Position(PassiveSite)'
  BY DEF InStep
<1>1. Position(ActiveSite)' = Position(ActiveSite)
  <2>1. ASSUME NEW e \in StateEvents(ActiveSite), Consume(ActiveSite, e), HandleEvent(ActiveSite, e),
               StartsAt(ActiveSite, e)
        PROVE  FALSE
    <3>1. ForwardsOrder(ActiveSite, e.snap.transition) /\ e.snap.transition \in CycleTransitions
      BY <2>1, HandledPosition, OrderAcceptable, BothSites
    <3>2. e.snap.transition \in Ordered' /\ e.snap.transition # Nothing
      BY <3>1, OrderForwarded, Positions DEF WipeInv
    <3> QED  BY <3>2
  <2> QED  BY <2>1, PositionStep, BothSites
<1>2. ASSUME NEW t \in Ordered, t # Nothing
      PROVE  Position(PassiveSite)' = Position(ActiveSite)
  <2>1. PICK e \in StateEvents(PassiveSite) :
           /\ Consume(PassiveSite, e) /\ HandleEvent(PassiveSite, e)
           /\ ~e.peer_ok /\ e.snap.transition = t
    BY <1>2, OrderKept, Hypotheses
  <2> QED  BY <1>2, <2>1, OrderStarted DEF OrderHeld
<1>3. ASSUME \A t \in Ordered : t = Nothing
      PROVE  Position(PassiveSite)' = Position(PassiveSite)
  <2>1. ~\E e \in StateEvents(PassiveSite) : StartsAt(PassiveSite, e)
    <3>1. ASSUME NEW e \in StateEvents(PassiveSite), Asks(e)
          PROVE  FALSE
      <4>1. e.snap.transition \in Ordered
        BY <3>1, RequestHandled, BothSites
      <4>2. e.snap.transition \in Transitions
        BY <3>1, EventAsks, BothSites
      <4> QED  BY <1>3, <4>1, <4>2, SnapshotParts
    <3> QED  BY <3>1 DEF StartsAt, Starting
  <2> QED  BY <2>1, PositionStep, BothSites
<1> QED  BY <1>1, <1>2, <1>3 DEF InStep

\* A request changes neither site's position; it is for the active site.
LEMMA AgreedRequest ==
    ASSUME Undisturbed, CoreInv, AgreeInv, Requested
    PROVE  AgreeInv'
<1> USE DEF CoreInv, AgreeInv
<1>1. PICK s \in Sites : \E t \in Transitions : OperatorAsks(s, t)
  BY DEF Requested, Undisturbed, DnsFailover
<1>2. PICK t \in Transitions : OperatorAsks(s, t)
  BY <1>1
<1>3. s = ActiveSite /\ t \in CycleTransitions
  BY <1>2 DEF OperatorAsks, Undisturbed, Cyclic
<1>4. /\ NoMail /\ (\A r \in Sites : Idle(r) /\ triggers[r] = {})
      /\ peer' = peer /\ triggers' = triggers /\ \A r \in Sites : Quiet(r)
      /\ cm'[PassiveSite] = cm[PassiveSite] /\ watch'[PassiveSite] = watch[PassiveSite] /\ Idle(PassiveSite)'
      /\ \/ cm'[s] = cm[s] /\ watch'[s] = <<>>
         \/ watch'[s] = <<cm'[s]>> /\ cm'[s].last = cm[s].last /\ cm'[s] \in Snapshots
  BY <1>2, <1>3, QuietRequest, BothSites, Hypotheses DEF databases
<1>5. InFlight' \subseteq {t} /\ ToPassive' = {}
  BY <1>2, NewDemand, Hypotheses
<1>6. \A r \in Sites : cm'[r].last = cm[r].last
  BY <1>3, <1>4, BothSites
<1>7. \A r \in Sites : watch[r] = <<>> /\ cm[r].last # Nothing
  BY <1>4, Hypotheses DEF Quiet, TokenInv, Fresh, NoCalls
<1>8. \A x \in Ordered' : x = Nothing
  BY <1>4, <1>5 DEF Ordered, Idle
<1>9. \A x \in Ordered : x = Nothing
  <2>1. ToPassive = {}
    BY <1>4, QueueEmpty, BothSites DEF NoMail, ToPassive
  <2> QED  BY <1>4, <2>1, BothSites DEF Ordered, Idle
<1>10. \A r \in Sites : \A snap \in Range(watch'[r]) : snap.last # Nothing
  <2>1. \A x \in Snapshots : Range(<<x>>) = {x}
    BY QueueOfOne
  <2>2. \A snap \in Range(watch'[PassiveSite]) : snap.last # Nothing
    BY <1>4, <1>7, QueueEmpty, BothSites
  <2>3. \A snap \in Range(watch'[s]) : snap.last # Nothing
    <3>1. CASE watch'[s] = <<>>
      BY <3>1, QueueEmpty
    <3>2. CASE watch'[s] = <<cm'[s]>> /\ cm'[s].last = cm[s].last /\ cm'[s] \in Snapshots
      <4>1. Range(watch'[s]) = {cm'[s]}
        BY <2>1, <3>2
      <4> QED  BY <1>7, <3>2, <4>1
    <3> QED  BY <1>4, <3>1, <3>2
  <2> QED  BY <1>3, <2>2, <2>3, BothSites
<1>11. RebuildRecorded' /\ PeersFine' /\ CycleOnly'
  BY <1>3, <1>4, <1>5, <1>6 DEF RebuildRecorded, PeersFine, CycleOnly
<1>12. AdoptedFirst'
  BY <1>10 DEF AdoptedFirst
<1>13. OrderHeld' /\ InStep'
  BY <1>6, <1>8, <1>9, BothSites DEF OrderHeld, InStep, Position
<1> QED  BY <1>11, <1>12, <1>13

LEMMA AgreeStep ==
    ASSUME Undisturbed, CoreInv, AgreeInv, [Next]_vars
    PROVE  AgreeInv'
<1> USE DEF CoreInv, AgreeInv
<1>1. CASE Requested
  BY <1>1, AgreedRequest
<1>2. CASE ~Requested
  <2>1. RebuildRecorded'
    BY PositionStep DEF RebuildRecorded, Rebuild
  <2>2. AdoptedFirst' /\ OrderHeld' /\ InStep'
    BY <1>2, AdoptionStep, OrderHeldStep, InStepStep
  <2>3. PeersFine'
    BY PeerStep DEF PeersFine
  <2>4. CycleOnly'
    BY <1>2, NoNewDemand DEF CoreInv, WipeInv, CycleOnly, Requested
  <2> QED  BY <2>1, <2>2, <2>3, <2>4
<1> QED  BY <1>1, <1>2

LEMMA AgreeInit ==
    ASSUME Undisturbed, Init
    PROVE  CoreInv /\ AgreeInv
<1>1. WipeInv /\ TokenInv /\ AsItWas /\ ConsentHolds /\ MatchInv
  BY ConsentInit, MatchInvInit, Hypotheses
<1>c. PICK last \in {Nothing, "active-passive"} :
         cm = [s \in Sites |-> [last |-> last, transition |-> Nothing]]
  BY Zenon DEF Init, Nothing
<1>2. /\ \A s \in Sites : /\ triggers[s] = {} /\ peer[s] = "unknown" /\ watch[s] = <<cm[s]>>
                          /\ inbox[s] = <<>> /\ outbox[s] = <<>>
      /\ \A s \in Sites : cm[s].last = last /\ cm[s].transition = Nothing
  BY <1>c DEF Init
<1>3. \A s \in Sites : Range(watch[s]) = {cm[s]}
  <2>1. \A x \in Snapshots : Range(<<x>>) = {x}
    BY QueueOfOne
  <2> QED  BY <1>1, <1>2, <2>1 DEF WipeInv, TypeOK
<1>4. \A s \in Sites : Idle(s)
  BY <1>2, <1>3, Hypotheses DEF Idle, Asked
<1>5. InFlight = {} /\ ToPassive = {}
  BY <1>2, <1>4, NothingInFlight, BothSites DEF NoMail
<1>6. \A t \in Ordered : t = Nothing
  BY <1>4, <1>5, BothSites DEF Ordered, Idle
<1>7. RebuildRecorded /\ PeersFine /\ CycleOnly /\ AdoptedFirst
  <2>1. Nothing \notin {"active-passive-partial", "gold-standby-partial"}
    BY SnapshotParts DEF StableStates
  <2>2. RebuildRecorded /\ PeersFine /\ CycleOnly
    BY <1>2, <1>3, <1>5, <2>1 DEF RebuildRecorded, PeersFine, CycleOnly
  <2> QED  BY <1>2, <1>3, <1>5, <2>2 DEF AdoptedFirst
<1>8. OrderHeld /\ InStep
  BY <1>2, <1>6, BothSites DEF OrderHeld, InStep, Position
<1> QED  BY <1>1, <1>7, <1>8 DEF CoreInv, AgreeInv

\* When nothing is under way the two ConfigMaps record the same state, whatever
\* requests were handled before and in whatever order the messages and the events
\* of the ConfigMaps and of Patroni arrived: no order of the active site is lost,
\* refused or overtaken, and the passive site does nothing it was not told.
THEOREM AgentsAgree ==
    ASSUME Undisturbed
    PROVE  Spec => []RecordsAgree
<1>1. CoreInv /\ AgreeInv => RecordsAgree
  <2> SUFFICES ASSUME CoreInv, AgreeInv, Settled
               PROVE  cm[ActiveSite].last = cm[PassiveSite].last
    BY DEF RecordsAgree
  <2> USE DEF CoreInv, AgreeInv
  <2>1. \A s \in Sites : /\ watch[s] = <<>> /\ triggers[s] = {} /\ inbox[s] = <<>> /\ outbox[s] = <<>>
    BY DEF Settled, Quiet
  <2>2. \A s \in Sites : cm[s].last # Nothing /\ Idle(s)
    BY <2>1, Hypotheses, IdleWatch DEF TokenInv, Fresh, NoCalls
  <2>3. \A s \in Sites : Position(s) = cm[s].last
    BY <2>1, <2>2, Positions
  <2>4. \A t \in Ordered : t = Nothing
    <3>1. ToPassive = {}
      BY <2>1, <2>2, NothingInFlight, BothSites DEF NoMail
    <3> QED  BY <2>2, <3>1, BothSites DEF Ordered, Idle
  <2> QED  BY <2>3, <2>4, BothSites DEF InStep
<1>2. Init => CoreInv /\ AgreeInv
  BY AgreeInit
<1>3. CoreInv /\ AgreeInv /\ [Next]_vars => (CoreInv /\ AgreeInv)'
  BY CoreStep, AgreeStep, Hypotheses
<1> QED  BY <1>1, <1>2, <1>3, PTL DEF Spec
-----------------------------------------------------------------------------
(* The agents implement SwitchoverCycle                                    *)

\* Deployments that start in normal operation stay in the cycle.
OnCycle == \A s \in Sites : Position(s) \in CycleTransitions

Leading == {s \in Sites : db[s] = "leader"}

\* What a transition does to the leaders is what its work is at the site.
LEMMA LeadersStarted ==
    ASSUME Undisturbed, CoreInv, AgreeInv, NEW s \in Sites, NEW e \in StateEvents(s),
           HandleEvent(s, e), StartsAt(s, e)
    PROVE  /\ Work(s, e.snap.transition) = "primary" => Leading' = Leading \cup {s}
           /\ Work(s, e.snap.transition) = "standby" => Leading' = Leading \ {s}
           /\ Work(s, e.snap.transition) \in {"down", "note"} => Leading' = Leading
<1> DEFINE t == e.snap.transition
<1> USE DEF CoreInv, AgreeInv
<1>1. SiteHandled(s, e)
  BY HandledSite, Hypotheses
<1>2. \A r \in Sites \ {s} : db'[r] = db[r]
  BY HandledSite, Hypotheses
<1>3. \A work : Starting(s, e, work) => Work(s, t) = work
  BY DEF Starting
<1>4. PICK work \in Works : Starting(s, e, work)
  BY DEF StartsAt
<1>5. ASSUME Work(s, t) = "primary"
      PROVE  db'[s] = "leader"
  BY <1>1, <1>3, <1>4, <1>5 DEF SiteHandled, Reacts, Commits
<1>6. ASSUME Work(s, t) = "standby"
      PROVE  db'[s] # "leader"
  <2>1. \/ patroni[s] = "standby_leader" /\ UNCHANGED db
        \/ db'[s] = "rebuilding"
    BY <1>1, <1>3, <1>4, <1>6 DEF SiteHandled, Reacts, Commits
  <2>2. t = StandbyFor(s) /\ t \in InFlight
    <3>1. t \in Transitions \cap InFlight
      BY <1>4, StartedFrom DEF MatchInv
    <3> QED  BY <1>6, <3>1, BothSites DEF Work, Transitions, StandbyFor
  <2>3. patroni[s] = "standby_leader" => db[s] # "leader"
    BY <2>2 DEF MatchInv, Honest, Replica
  <2> QED  BY <2>1, <2>3
<1>7. ASSUME Work(s, t) \in {"down", "note"}
      PROVE  db'[s] = db[s]
  BY <1>1, <1>3, <1>4, <1>7 DEF SiteHandled, Reacts, Commits, Untouched
<1> QED  BY <1>2, <1>5, <1>6, <1>7 DEF Leading

\* A site moves by a handler that starts a transition, or nothing of the cycle
\* changes there.
LEMMA LeadingStep ==
    ASSUME Undisturbed, CoreInv, AgreeInv, [Next]_vars, NEW s \in Sites
    PROVE  \/ \E e \in StateEvents(s) : Consume(s, e) /\ HandleEvent(s, e) /\ StartsAt(s, e)
           \/ Position(s)' = Position(s) /\ (db'[s] = "leader" <=> db[s] = "leader")
<1> USE DEF CoreInv, AgreeInv
<1>1. ASSUME NEW e \in StateEvents(s), HandleEvent(s, e), ~StartsAt(s, e)
      PROVE  Position(s)' = Position(s) /\ db'[s] = db[s]
  <2>1. SiteHandled(s, e)
    BY <1>1, HandledSite, Hypotheses
  <2>2. \A work \in Works : ~Starting(s, e, work)
    BY <1>1 DEF StartsAt
  <2>3. Untouched
    BY <2>1, <2>2 DEF SiteHandled, Reacts, Commits, Works
  <2> QED  BY <1>1, <2>3, HandledPosition DEF Untouched
<1>2. ASSUME ~\E e \in StateEvents(s) : Consume(s, e) /\ HandleEvent(s, e)
      PROVE  Position(s)' = Position(s) /\ (db'[s] = "leader" <=> db[s] = "leader")
  <2>1. Keeps(s) \/ Fires(s)
    BY <1>2, SiteStep, Hypotheses DEF CoreInv, WipeInv
  <2> QED  BY <1>2, <2>1, PositionStep DEF Keeps, Fires
<1> QED  BY <1>1, <1>2

\* The active site's move: the passive one has caught up, and the cycle goes there.
LEMMA ActiveMoves ==
    ASSUME Undisturbed, CoreInv, AgreeInv, OnCycle, NEW e \in StateEvents(ActiveSite),
           HandleEvent(ActiveSite, e), StartsAt(ActiveSite, e)
    PROVE  \E stage \in CycleTransitions :
              /\ Position(ActiveSite) = Position(PassiveSite)
              /\ stage \in Cycle!After(Position(ActiveSite))
              /\ Position(ActiveSite)' = stage /\ Position(PassiveSite)' = Position(PassiveSite)
              /\ Leading' = CASE stage = "active-passive" -> Leading \cup {ActiveSite}
                              [] stage = "gold-standby"   -> Leading \ {ActiveSite}
                              [] stage = "golddr-primary" -> Leading
<1> DEFINE t == e.snap.transition
<1> USE DEF CoreInv, AgreeInv
<1>1. Asks(e) /\ ~Refused(t, e.snap.last)
  BY DEF StartsAt, Starting, Aborts
<1>2. t \in CycleTransitions /\ t # e.snap.last
  BY <1>1, OrderAcceptable, EventAsks, BothSites
<1>3. Position(ActiveSite) = e.snap.last
  BY <1>1, RequestHandled, Positions, BothSites
<1>4. Position(ActiveSite) = Position(PassiveSite)
  BY <1>1, RequestHandled, BothSites DEF InStep
<1>5. Position(ActiveSite)' = t /\ Position(PassiveSite)' = Position(PassiveSite)
  BY HandledPosition, OtherStays, BothSites
<1>6. t \in Cycle!After(Position(ActiveSite))
  BY <1>1, <1>2, <1>3, BothSites DEF OnCycle, CycleTransitions, Cycle!After, Refused
<1>7. /\ t = "active-passive" => Leading' = Leading \cup {ActiveSite}
      /\ t = "gold-standby" => Leading' = Leading \ {ActiveSite}
      /\ t = "golddr-primary" => Leading' = Leading
  <2>1. /\ t = "active-passive" => Work(ActiveSite, t) = "primary"
        /\ t = "gold-standby" => Work(ActiveSite, t) = "standby"
        /\ t = "golddr-primary" => Work(ActiveSite, t) = "down"
    BY DEF Work
  <2> QED  BY <2>1, LeadersStarted, BothSites
<1> QED  BY <1>2, <1>4, <1>5, <1>6, <1>7 DEF CycleTransitions

\* The passive site's step: it was behind, and it catches up.
LEMMA PassiveCatchesUp ==
    ASSUME Undisturbed, CoreInv, AgreeInv, OnCycle, NEW e \in StateEvents(PassiveSite),
           HandleEvent(PassiveSite, e), StartsAt(PassiveSite, e)
    PROVE  /\ Position(PassiveSite) # Position(ActiveSite)
           /\ Position(PassiveSite)' = Position(ActiveSite)
           /\ Position(ActiveSite)' = Position(ActiveSite)
           /\ Leading' = CASE Position(ActiveSite) = "golddr-primary" -> Leading \cup {PassiveSite}
                           [] Position(ActiveSite) = "active-passive" -> Leading \ {PassiveSite}
                           [] Position(ActiveSite) = "gold-standby"   -> Leading
<1> DEFINE t == e.snap.transition
<1> USE DEF CoreInv, AgreeInv
<1>1. Asks(e)
  BY DEF StartsAt, Starting
<1>2. t \in CycleTransitions /\ t # e.snap.last
  BY <1>1, RequestHandled, EventAsks, BothSites DEF CycleOnly
<1>3. Position(PassiveSite) = e.snap.last
  BY <1>1, RequestHandled, Positions, BothSites
<1>4. Position(ActiveSite) = t
  BY <1>1, <1>2, RequestHandled, Positions, BothSites DEF OrderHeld
<1>5. Position(PassiveSite)' = t /\ Position(ActiveSite)' = Position(ActiveSite)
  BY HandledPosition, OtherStays, BothSites
<1>6. /\ t = "golddr-primary" => Leading' = Leading \cup {PassiveSite}
      /\ t = "active-passive" => Leading' = Leading \ {PassiveSite}
      /\ t = "gold-standby" => Leading' = Leading
  <2>1. /\ t = "golddr-primary" => Work(PassiveSite, t) = "primary"
        /\ t = "active-passive" => Work(PassiveSite, t) = "standby"
        /\ t = "gold-standby" => Work(PassiveSite, t) = "note"
    BY BothSites DEF Work
  <2> QED  BY <2>1, LeadersStarted, BothSites
<1> QED  BY <1>2, <1>3, <1>4, <1>5, <1>6 DEF CycleTransitions

LEMMA OnCycleStep ==
    ASSUME Undisturbed, CoreInv, AgreeInv, OnCycle, [Next]_vars
    PROVE  OnCycle'
<1>1. ASSUME NEW s \in Sites, NEW e \in StateEvents(s), HandleEvent(s, e), StartsAt(s, e)
      PROVE  Position(s)' \in CycleTransitions
  <2>1. Asks(e)
    BY <1>1 DEF StartsAt, Starting
  <2>2. e.snap.transition \in CycleTransitions
    BY <2>1, RequestHandled DEF AgreeInv, CycleOnly
  <2> QED  BY <1>1, <2>2, HandledPosition DEF AgreeInv
<1> QED  BY <1>1, PositionStep DEF OnCycle, AgreeInv

\* On the cycle a site's position is the stage the mapping takes.
LEMMA StagesAre ==
    /\ OnCycle => \A s \in Sites : Stage(cm[s].last) = Position(s)
    /\ OnCycle' => \A s \in Sites : Stage(cm[s].last)' = Position(s)'
BY DEF OnCycle, Position, CycleTransitions

\* The sites of the cycle are those of the agents.
LEMMA CycleSites == Cycle!ActiveSite = ActiveSite /\ Cycle!PassiveSite = PassiveSite
BY DEF Cycle!ActiveSite, Cycle!PassiveSite, ActiveSite, PassiveSite

\* Every step of the agents is a step of the cycle, or none.
LEMMA CycleStep ==
    ASSUME Undisturbed, CoreInv, AgreeInv, OnCycle, [Next]_vars
    PROVE  [Cycle!CycleNext]_(Cycle!cycle)
<1>1. /\ Stage(cm[ActiveSite].last) = Position(ActiveSite)
      /\ Stage(cm[PassiveSite].last) = Position(PassiveSite)
      /\ Stage(cm[ActiveSite].last)' = Position(ActiveSite)'
      /\ Stage(cm[PassiveSite].last)' = Position(PassiveSite)'
  BY OnCycleStep, StagesAre, BothSites
<1>2. ASSUME NEW e \in StateEvents(ActiveSite), HandleEvent(ActiveSite, e), StartsAt(ActiveSite, e)
      PROVE  Cycle!CycleNext
  <2>1. PICK stage \in CycleTransitions :
              /\ Position(ActiveSite) = Position(PassiveSite)
              /\ stage \in Cycle!After(Position(ActiveSite))
              /\ Position(ActiveSite)' = stage /\ Position(PassiveSite)' = Position(PassiveSite)
              /\ Leading' = CASE stage = "active-passive" -> Leading \cup {ActiveSite}
                              [] stage = "gold-standby"   -> Leading \ {ActiveSite}
                              [] stage = "golddr-primary" -> Leading
    BY <1>2, ActiveMoves
  <2>2. Cycle!Move(stage) /\ stage \in Cycle!Stages
    BY <1>1, <2>1, CycleSites DEF Cycle!Move, Cycle!Stages, CycleTransitions, Leading
  <2> QED  BY <2>2 DEF Cycle!CycleNext
<1>3. ASSUME NEW e \in StateEvents(PassiveSite), HandleEvent(PassiveSite, e), StartsAt(PassiveSite, e)
      PROVE  Cycle!CycleNext
  <2>1. Cycle!CatchUp
    BY <1>1, <1>3, PassiveCatchesUp, CycleSites DEF Cycle!CatchUp, Leading
  <2> QED  BY <2>1 DEF Cycle!CycleNext
<1>4. ASSUME ~\E e \in StateEvents(ActiveSite) : HandleEvent(ActiveSite, e) /\ StartsAt(ActiveSite, e),
             ~\E e \in StateEvents(PassiveSite) : HandleEvent(PassiveSite, e) /\ StartsAt(PassiveSite, e)
      PROVE  UNCHANGED Cycle!cycle
  <2>1. \A s \in Sites : Position(s)' = Position(s) /\ (db'[s] = "leader" <=> db[s] = "leader")
    BY <1>4, LeadingStep, BothSites
  <2> QED  BY <1>1, <2>1, BothSites DEF Cycle!cycle
<1> QED  BY <1>2, <1>3, <1>4

\* Started in normal operation and undisturbed, the two agents together are one
\* cycle: every handler of either site is the active site's move to the next
\* stage, the passive site catching up, or no step of the cycle at all, whatever
\* the order in which the watch, the peer and Patroni reach the handlers.
THEOREM AgentsFollowCycle ==
    ASSUME Undisturbed, Starts \subseteq {"serving"}
    PROVE  Spec => FollowsCycle
<1>1. Init => CoreInv /\ AgreeInv /\ OnCycle /\ Cycle!CycleInit
  <2> SUFFICES ASSUME Init
               PROVE  CoreInv /\ AgreeInv /\ OnCycle /\ Cycle!CycleInit
    OBVIOUS
  <2>1. /\ cm = [s \in Sites |-> [last |-> "active-passive", transition |-> Nothing]]
        /\ db = [s \in Sites |-> IF s = PassiveSite THEN "standby" ELSE "leader"]
    <3>1. PICK start \in Starts :
             LET last == IF start = "fresh" THEN Nothing ELSE "active-passive" IN
             /\ cm = [s \in Sites |-> [last |-> last, transition |-> Nothing]]
             /\ db = [s \in Sites |-> IF start = "serving" /\ s = PassiveSite
                                      THEN "standby" ELSE "leader"]
      BY Zenon DEF Init, Nothing
    <3>2. start = "serving" /\ start # "fresh"
      BY <3>1
    <3> QED  BY <3>1, <3>2
  <2>2. \A s \in Sites : cm[s].last = "active-passive"
    BY <2>1
  <2>3. Position(ActiveSite) = "active-passive" /\ OnCycle
    BY <2>2, Positions, BothSites DEF Position, OnCycle, CycleTransitions, Stage
  <2>4. {s \in Sites : db[s] = "leader"} = {ActiveSite}
    BY <2>1, BothSites
  <2> QED  BY <2>2, <2>3, <2>4, AgreeInit, BothSites, CycleSites DEF Cycle!CycleInit, Stage
<1>2. CoreInv /\ AgreeInv /\ OnCycle /\ [Next]_vars => (CoreInv /\ AgreeInv /\ OnCycle)'
  BY CoreStep, AgreeStep, OnCycleStep, Hypotheses
<1>3. CoreInv /\ AgreeInv /\ OnCycle /\ [Next]_vars => [Cycle!CycleNext]_(Cycle!cycle)
  BY CycleStep
<1> QED  BY <1>1, <1>2, <1>3, PTL DEF Spec, FollowsCycle, Cycle!CycleSpec
=============================================================================
