------------------------- MODULE SwitchoverFailover -------------------------
(***************************************************************************)
(* Proofs about Switchover with automation: a failover may come at any     *)
(* moment, beside a transition an operator asked for.  The other           *)
(* transitions are still under way one at a time (OneToken), and a rebuild *)
(* of the passive site ends before the next of them begins, so no failover *)
(* and no wipe leaves the sites without a leader.                          *)
(***************************************************************************)
EXTENDS SwitchoverRecords

\* One request at a time, the passive site's rebuild is ordered by the active one
\* only, and the agents keep running; the link may lose messages.
Attended ==
    /\ Patient
    /\ <<PassiveSite, "active-passive">> \notin OperatorMayAsk
    /\ Faults \subseteq {"drop", "peer"}
-----------------------------------------------------------------------------
(* The transitions but failover are in one place only *)

Failover == "golddr-primary"
Exclusive == Transitions \ {Failover}

\* How many of the elements of a queue are of a set: none, one or more.
Load(q, S) == IF \A i \in 1 .. Len(q) : q[i] \notin S THEN 0
              ELSE IF \A i, j \in 1 .. Len(q) : q[i] \in S /\ q[j] \in S => i = j THEN 1
              ELSE 2
Bit(p) == IF p THEN 1 ELSE 0

ExclusiveSnapshots == {snap \in Snapshots : snap.transition \in Exclusive}
ExclusiveMessages == {m \in Messages : Demand(m) \in Exclusive}

WatchLoad(s) == Load(watch[s], ExclusiveSnapshots)
InboxLoad(s) == Load(inbox[s], ExclusiveMessages)
OutboxLoad(s) == Load(outbox[s], ExclusiveMessages)
Tokens == WatchLoad(ActiveSite) + InboxLoad(ActiveSite) + OutboxLoad(ActiveSite)
          + WatchLoad(PassiveSite) + InboxLoad(PassiveSite) + OutboxLoad(PassiveSite)
OneToken == Tokens <= 1

LEMMA LoadParts ==
    ASSUME NEW T, NEW S, NEW q \in Seq(T)
    PROVE  /\ Load(q, S) \in 0 .. 2
           /\ Load(q, S) = 0 <=> Range(q) \cap S = {}
           /\ q # <<>> => Load(Tail(q), S) <= Load(q, S)
           /\ q # <<>> /\ Load(q, S) <= 1 =>
                Load(q, S) = Load(Tail(q), S) + Bit(Head(q) \in S)
           /\ \A x \in T : Load(Append(q, x), S) <= Load(q, S) + Bit(x \in S)
<1>1. Len(q) \in Nat /\ Range(q) = {q[i] : i \in 1 .. Len(q)}
  BY RangeEquality, LenProperties
<1>2. ASSUME q # <<>>
      PROVE  /\ Load(Tail(q), S) <= Load(q, S)
             /\ Load(q, S) <= 1 => Load(q, S) = Load(Tail(q), S) + Bit(Head(q) \in S)
  <2> DEFINE r == Tail(q)
  <2>1. /\ Head(q) = q[1] /\ Len(r) = Len(q) - 1 /\ Len(q) >= 1
        /\ \A i \in 1 .. Len(r) : r[i] = q[i + 1]
    BY <1>1, <1>2, HeadTailProperties, EmptySeq
  <2>2. Len(r) \in Nat /\ \A i \in 1 .. Len(q) : i = 1 \/ (i - 1 \in 1 .. Len(r) /\ q[i] = r[i - 1])
    BY <1>1, <2>1
  <2> HIDE DEF r
  <2>3. CASE \A i \in 1 .. Len(r) : r[i] \notin S
    <3>1. Load(r, S) = 0
      BY <2>3 DEF Load
    <3>2. Load(q, S) = Bit(q[1] \in S)
      BY <1>1, <2>1, <2>2, <2>3 DEF Load, Bit
    <3> QED  BY <2>1, <3>1, <3>2 DEF Bit, r
  <2>4. ASSUME NEW k \in 1 .. Len(r), r[k] \in S
        PROVE  /\ Load(r, S) <= Load(q, S)
               /\ Load(q, S) <= 1 => Load(q, S) = Load(r, S) + Bit(q[1] \in S)
    <3>1. Load(r, S) # 0 /\ Load(q, S) # 0
      <4>1. k + 1 \in 1 .. Len(q) /\ q[k + 1] \in S
        BY <1>1, <2>1, <2>2, <2>4
      <4> QED  BY <2>4, <4>1 DEF Load
    <3>2. CASE \A i, j \in 1 .. Len(q) : q[i] \in S /\ q[j] \in S => i = j
      <4>1. \A i, j \in 1 .. Len(r) : r[i] \in S /\ r[j] \in S => i = j
        <5> TAKE i, j \in 1 .. Len(r)
        <5> HAVE r[i] \in S /\ r[j] \in S
        <5>1. i + 1 \in 1 .. Len(q) /\ j + 1 \in 1 .. Len(q) /\ q[i + 1] \in S /\ q[j + 1] \in S
          BY <1>1, <2>1, <2>2
        <5> QED  BY <3>2, <5>1
      <4>2. q[1] \notin S
        <5>1. 1 \in 1 .. Len(q) /\ k + 1 \in 1 .. Len(q) /\ q[k + 1] \in S /\ k + 1 # 1
          BY <1>1, <2>1, <2>2, <2>4
        <5> QED  BY <3>2, <5>1
      <4>3. Load(q, S) = 1 /\ Load(r, S) = 1
        BY <3>1, <3>2, <4>1 DEF Load
      <4> QED  BY <4>2, <4>3 DEF Bit
    <3>3. CASE ~\A i, j \in 1 .. Len(q) : q[i] \in S /\ q[j] \in S => i = j
      <4>1. Load(q, S) = 2
        BY <3>1, <3>3 DEF Load
      <4>2. Load(r, S) \in 0 .. 2
        BY DEF Load
      <4> QED  BY <4>1, <4>2
    <3> QED  BY <3>2, <3>3
  <2> QED  BY <2>1, <2>3, <2>4 DEF r
<1>3. ASSUME NEW x \in T
      PROVE  Load(Append(q, x), S) <= Load(q, S) + Bit(x \in S)
  <2> DEFINE r == Append(q, x)
  <2>1. Len(r) = Len(q) + 1 /\ r[Len(q) + 1] = x /\ \A i \in 1 .. Len(q) : r[i] = q[i]
    BY AppendProperties
  <2> HIDE DEF r
  <2>2. \A i \in 1 .. Len(r) : i \in 1 .. Len(q) \/ (i = Len(r) /\ r[i] = x)
    BY <1>1, <2>1
  <2>3. CASE x \notin S
    <3>1. /\ (\A i \in 1 .. Len(q) : q[i] \notin S) => \A i \in 1 .. Len(r) : r[i] \notin S
          /\ (\A i, j \in 1 .. Len(q) : q[i] \in S /\ q[j] \in S => i = j) =>
                \A i, j \in 1 .. Len(r) : r[i] \in S /\ r[j] \in S => i = j
      BY <2>1, <2>2, <2>3
    <3> QED  BY <2>3, <3>1 DEF Load, Bit, r
  <2>4. CASE x \in S
    <3>1. (\A i \in 1 .. Len(q) : q[i] \notin S) =>
             \A i, j \in 1 .. Len(r) : r[i] \in S /\ r[j] \in S => i = j
      BY <2>1, <2>2
    <3>2. Load(r, S) \in 0 .. 2 /\ Load(q, S) \in 0 .. 2 /\ (Load(q, S) = 0 => Load(r, S) <= 1)
      BY <3>1 DEF Load
    <3>3. Load(r, S) <= Load(q, S) + 1
      BY <3>2
    <3> QED  BY <2>4, <3>3 DEF Bit, r
  <2> QED  BY <2>3, <2>4
<1>4. Load(q, S) \in 0 .. 2
  BY DEF Load
<1>5. Load(q, S) = 0 <=> Range(q) \cap S = {}
  BY <1>1 DEF Load
<1> QED  BY <1>2, <1>3, <1>4, <1>5

LEMMA LoadTypes ==
    ASSUME TypeOK, NEW s \in Sites
    PROVE  WatchLoad(s) \in 0 .. 2 /\ InboxLoad(s) \in 0 .. 2 /\ OutboxLoad(s) \in 0 .. 2
<1>1. watch[s] \in Seq(Snapshots) /\ inbox[s] \in Seq(Messages) /\ outbox[s] \in Seq(Messages)
  BY DEF TypeOK
<1> QED  BY <1>1, LoadParts DEF WatchLoad, InboxLoad, OutboxLoad

\* What one site adds to the tokens.
SiteLoad(s) == WatchLoad(s) + InboxLoad(s) + OutboxLoad(s)

LoadsAdd == \A s \in Sites :
    /\ SiteLoad(s) \in 0 .. 6 /\ Tokens = SiteLoad(s) + SiteLoad(Other(s))
    /\ WatchLoad(s) \in 0 .. 2 /\ InboxLoad(s) \in 0 .. 2 /\ OutboxLoad(s) \in 0 .. 2
    /\ OneToken => WatchLoad(s) <= 1 /\ InboxLoad(s) <= 1 /\ OutboxLoad(s) <= 1

LEMMA TokensOfSites == TypeOK => LoadsAdd
<1> SUFFICES ASSUME TypeOK, NEW s \in Sites
             PROVE  /\ SiteLoad(s) \in 0 .. 6 /\ Tokens = SiteLoad(s) + SiteLoad(Other(s))
                    /\ WatchLoad(s) \in 0 .. 2 /\ InboxLoad(s) \in 0 .. 2 /\ OutboxLoad(s) \in 0 .. 2
                    /\ OneToken => WatchLoad(s) <= 1 /\ InboxLoad(s) <= 1 /\ OutboxLoad(s) <= 1
  BY DEF LoadsAdd
<1>1. \A r \in Sites : /\ WatchLoad(r) \in 0 .. 2 /\ InboxLoad(r) \in 0 .. 2
                       /\ OutboxLoad(r) \in 0 .. 2
  BY LoadTypes
<1> DEFINE L(r) == WatchLoad(r) + InboxLoad(r) + OutboxLoad(r)
<1>2. \A r \in Sites : L(r) \in 0 .. 6 /\ L(r) <= 1 =>
         WatchLoad(r) <= 1 /\ InboxLoad(r) <= 1 /\ OutboxLoad(r) <= 1
  BY <1>1
<1>3. \A r \in Sites : L(r) \in 0 .. 6
  BY <1>1
<1>4. Tokens = L(ActiveSite) + L(PassiveSite)
  BY <1>1, BothSites DEF Tokens
<1>5. \A r \in Sites : SiteLoad(r) = L(r)
  BY DEF SiteLoad
<1> HIDE DEF L
<1>6. Tokens = L(s) + L(Other(s))
  <2>1. CASE s = ActiveSite
    BY <1>4, <2>1, BothSites
  <2>2. CASE s = PassiveSite
    BY <1>3, <1>4, <2>2, BothSites
  <2> QED  BY <2>1, <2>2, BothSites
<1>7. OneToken => L(s) <= 1
  BY <1>3, <1>6, BothSites DEF OneToken
<1> QED  BY <1>1, <1>2, <1>3, <1>5, <1>6, <1>7, BothSites

\* No transition is under way when there is no token.
Underway == InFlight \ {Failover}

LEMMA NoToken == TypeOK /\ "restart" \notin Faults /\ Tokens = 0 => Underway = {}
<1> SUFFICES ASSUME TypeOK, "restart" \notin Faults, Tokens = 0
             PROVE  Underway = {}
  OBVIOUS
<1>1. \A s \in Sites : WatchLoad(s) = 0 /\ InboxLoad(s) = 0 /\ OutboxLoad(s) = 0
  BY LoadTypes, BothSites DEF Tokens
<1>2. ASSUME NEW s \in Sites
      PROVE  /\ \A snap \in Range(watch[s]) : snap.transition \notin Exclusive
             /\ \A m \in Range(inbox[s]) \cup Range(outbox[s]) : Demand(m) \notin Exclusive
  <2>1. watch[s] \in Seq(Snapshots) /\ inbox[s] \in Seq(Messages) /\ outbox[s] \in Seq(Messages)
    BY DEF TypeOK
  <2>2. /\ Range(watch[s]) \cap ExclusiveSnapshots = {}
        /\ Range(inbox[s]) \cap ExclusiveMessages = {}
        /\ Range(outbox[s]) \cap ExclusiveMessages = {}
    BY <1>1, <2>1, LoadParts DEF WatchLoad, InboxLoad, OutboxLoad
  <2>3. /\ Range(watch[s]) \subseteq Snapshots /\ Range(inbox[s]) \subseteq Messages
        /\ Range(outbox[s]) \subseteq Messages
    BY <2>1, ElementOfSeq, RangeEquality
  <2> QED  BY <2>2, <2>3 DEF ExclusiveSnapshots, ExclusiveMessages
<1> QED  BY <1>2, BothSites DEF Underway, InFlight, Exclusive, Asked, ToPassive, ToActive

LEMMA LoadsNext ==
    ASSUME TypeOK, [Next]_vars
    PROVE  /\ TypeOK' /\ LoadsAdd /\ LoadsAdd'
           /\ "restart" \notin Faults /\ Tokens' = 0 => Underway' = {}
           /\ \A s \in Sites : /\ WatchLoad(s)' = Load(watch'[s], ExclusiveSnapshots)
                               /\ InboxLoad(s)' = Load(inbox'[s], ExclusiveMessages)
                               /\ OutboxLoad(s)' = Load(outbox'[s], ExclusiveMessages)
<1>1. (TypeOK => LoadsAdd)'
  BY TokensOfSites, PTL
<1>2. (TypeOK /\ "restart" \notin Faults /\ Tokens = 0 => Underway = {})'
  BY NoToken, PTL
<1>3. \A s \in Sites : /\ WatchLoad(s)' = Load(watch'[s], ExclusiveSnapshots)
                      /\ InboxLoad(s)' = Load(inbox'[s], ExclusiveMessages)
                      /\ OutboxLoad(s)' = Load(outbox'[s], ExclusiveMessages)
  BY DEF WatchLoad, InboxLoad, OutboxLoad
<1>4. TypeOK'
  BY TypeStep
<1> QED  BY <1>1, <1>2, <1>3, <1>4, TokensOfSites

\* A site where nothing is added, while the other one keeps its queues.
LEMMA TokensKept ==
    ASSUME TypeOK, [Next]_vars, NEW s \in Sites, NEW n \in Nat,
           watch'[Other(s)] = watch[Other(s)], inbox'[Other(s)] = inbox[Other(s)],
           outbox'[Other(s)] = outbox[Other(s)],
           WatchLoad(s)' + InboxLoad(s)' + OutboxLoad(s)' + n
             <= WatchLoad(s) + InboxLoad(s) + OutboxLoad(s)
    PROVE  OneToken => OneToken' /\ (n = 1 => Tokens' = 0)
<1>1. LoadsAdd /\ LoadsAdd' /\ Other(s) \in Sites
  BY LoadsNext, BothSites
<1>2. SiteLoad(Other(s))' = SiteLoad(Other(s))
  <2>1. /\ WatchLoad(Other(s))' = WatchLoad(Other(s))
        /\ InboxLoad(Other(s))' = InboxLoad(Other(s))
        /\ OutboxLoad(Other(s))' = OutboxLoad(Other(s))
    BY <1>1, LoadsNext DEF WatchLoad, InboxLoad, OutboxLoad
  <2> QED  BY <2>1 DEF SiteLoad
<1>3. SiteLoad(s)' + n <= SiteLoad(s)
  BY DEF SiteLoad
<1> QED  BY <1>1, <1>2, <1>3 DEF LoadsAdd, OneToken

\* Nobody asks for anything while a ConfigMap that was never used is adopted.
Adopting == (\E s \in Sites : \E snap \in Range(watch[s]) : snap.last = Nothing) =>
    InFlight = {} /\ \A s \in Sites : triggers[s] = {} /\ cm[s].last \in {Nothing, "independent"}

LEMMA Calm ==
    ASSUME Attended
    PROVE  NoCalls /\ "restart" \notin Faults /\ Copies = {1}
BY DEF Attended, NoCalls, Copies

\* An unused ConfigMap asks for nothing.
LEMMA AdoptedAsks ==
    ASSUME TypeOK, Channels, Latest, Adopting, NEW s \in Sites, NEW e \in StateEvents(s),
           e.snap.last = Nothing
    PROVE  /\ InFlight = {} /\ \A r \in Sites : triggers[r] = {} /\ cm[r].last \in {Nothing, "independent"}
           /\ ~e.peer_ok /\ cm[s].transition \notin Transitions
<1>1. ~e.peer_ok /\ e.snap \in Range(watch[s]) /\ watch[s] # <<>>
  BY EventSource, EventTypes, Zenon DEF Consentable, Nothing
<1>2. InFlight = {} /\ \A r \in Sites : triggers[r] = {} /\ cm[r].last \in {Nothing, "independent"}
  BY <1>1 DEF Adopting
<1>3. cm[s].transition \in Asked(s)
  BY <1>1, LastOfWatch DEF Asked
<1> QED  BY <1>1, <1>2, <1>3, BothSites DEF InFlight

\* A handler makes no second token of the one it has, and the passive site's
\* keeps none.
LEMMA TokenHandled ==
    ASSUME Attended, TypeOK, Channels, Latest, Adopting, OneToken, [Next]_vars,
           NEW s \in Sites, NEW e \in StateEvents(s), Consume(s, e), HandleEvent(s, e)
    PROVE  /\ OneToken'
           /\ s = PassiveSite /\ e.snap.transition \in Exclusive => Underway' = {}
<1> DEFINE t == e.snap.transition
           W == Load(e.watch, ExclusiveSnapshots)
           I == Load(e.inbox, ExclusiveMessages)
<1>l. /\ LoadsAdd /\ LoadsAdd' /\ TypeOK'
      /\ WatchLoad(s)' = Load(watch'[s], ExclusiveSnapshots)
      /\ InboxLoad(s)' = Load(inbox'[s], ExclusiveMessages)
      /\ OutboxLoad(s)' = Load(outbox'[s], ExclusiveMessages)
  BY LoadsNext
<1>t. /\ watch[s] \in Seq(Snapshots) /\ inbox[s] \in Seq(Messages) /\ outbox[s] \in Seq(Messages)
      /\ e.watch \in Seq(Snapshots) /\ e.inbox \in Seq(Messages) /\ e.snap \in Snapshots
      /\ cm'[s] \in Snapshots
  BY <1>l, EventTypes DEF TypeOK
<1>o. WatchLoad(s) <= 1 /\ InboxLoad(s) <= 1 /\ OutboxLoad(s) <= 1
  BY <1>l DEF LoadsAdd
<1>1. W \in 0 .. 2 /\ I \in 0 .. 2 /\ WatchLoad(s) + InboxLoad(s) = W + I + Bit(t \in Exclusive)
  <2>w. W \in 0 .. 2 /\ I \in 0 .. 2
    BY <1>t, LoadParts
  <2>1. CASE ~e.peer_ok
    <3>1. watch[s] # <<>> /\ e.snap = Head(watch[s]) /\ e.watch = Tail(watch[s]) /\ e.inbox = inbox[s]
      BY <2>1, EventTypes
    <3>2. WatchLoad(s) = W + Bit(Head(watch[s]) \in ExclusiveSnapshots)
      BY <1>t, <1>o, <3>1, LoadParts DEF WatchLoad
    <3>3. Bit(Head(watch[s]) \in ExclusiveSnapshots) = Bit(t \in Exclusive)
      BY <1>t, <3>1 DEF Bit, ExclusiveSnapshots
    <3>4. InboxLoad(s) = I
      BY <3>1 DEF InboxLoad
    <3>5. Bit(t \in Exclusive) \in 0 .. 1
      BY DEF Bit
    <3> HIDE DEF W, I
    <3> QED  BY <2>w, <3>2, <3>3, <3>4, <3>5
  <2>2. CASE e.peer_ok
    <3>1. /\ inbox[s] # <<>> /\ e.snap = Head(inbox[s]).item /\ e.inbox = Tail(inbox[s])
          /\ Head(inbox[s]).event = "yes_happy_to_proceed" /\ e.watch = watch[s]
      BY <2>2, EventTypes
    <3>2. InboxLoad(s) = I + Bit(Head(inbox[s]) \in ExclusiveMessages)
      BY <1>t, <1>o, <3>1, LoadParts DEF InboxLoad
    <3>3. Bit(Head(inbox[s]) \in ExclusiveMessages) = Bit(t \in Exclusive)
      <4>1. Head(inbox[s]) \in Messages /\ Demand(Head(inbox[s])) = t
        BY <3>1, OrderTypes DEF Demand
      <4> QED  BY <4>1 DEF Bit, ExclusiveMessages
    <3>4. WatchLoad(s) = W
      BY <3>1 DEF WatchLoad
    <3>5. Bit(t \in Exclusive) \in 0 .. 1
      BY DEF Bit
    <3> HIDE DEF W, I
    <3> QED  BY <2>w, <3>2, <3>3, <3>4, <3>5
  <2> QED  BY <2>1, <2>2
<1>2. WatchLoad(s)' <= W
  <2>1. CASE WritesNothing(s, e)
    <3>1. watch'[s] = e.watch
      BY <2>1, Zenon DEF WritesNothing
    <3> QED  BY <1>l, <1>1, <3>1
  <2>2. CASE Writes(s, e)
    <3>1. cm'[s] \notin ExclusiveSnapshots
      <4>1. cm'[s].transition = Nothing \/ (cm'[s].transition = cm[s].transition /\ e.snap.last = Nothing)
        BY <2>2, Zenon DEF Writes, Nothing
      <4>2. cm'[s].transition \notin Exclusive
        BY <4>1, AdoptedAsks, SnapshotParts DEF Exclusive
      <4> QED  BY <4>2 DEF ExclusiveSnapshots
    <3>2. watch'[s] = Append(e.watch, cm'[s])
      BY <2>2 DEF Writes
    <3>3. Load(Append(e.watch, cm'[s]), ExclusiveSnapshots) <= W + Bit(cm'[s] \in ExclusiveSnapshots)
      BY <1>t, LoadParts
    <3>4. Bit(cm'[s] \in ExclusiveSnapshots) = 0
      BY <3>1 DEF Bit
    <3> HIDE DEF W
    <3>5. WatchLoad(s)' <= W + 0
      BY <1>l, <3>2, <3>3, <3>4
    <3> QED  BY <1>1, <3>5
  <2> QED  BY <2>1, <2>2, Recording
<1>3. InboxLoad(s)' = I
  BY <1>l DEF Consume, Set, TypeOK
<1>4. /\ OutboxLoad(s)' <= OutboxLoad(s) + Bit(t \in Exclusive)
      /\ s = PassiveSite => OutboxLoad(s)' = OutboxLoad(s)
  <2>1. CASE outbox'[s] = outbox[s]
    <3>1. OutboxLoad(s)' = OutboxLoad(s)
      BY <1>l, <2>1 DEF OutboxLoad
    <3> QED  BY <1>l, <3>1 DEF LoadsAdd, Bit
  <2>2. CASE Sends(s, e)
    <3>1. PICK m \in Messages : s = ActiveSite /\ outbox'[s] = Append(outbox[s], m) /\ Demand(m) = t
      BY <2>2 DEF Sends, Demand
    <3>2. Load(Append(outbox[s], m), ExclusiveMessages) <= OutboxLoad(s) + Bit(m \in ExclusiveMessages)
      BY <1>t, LoadParts DEF OutboxLoad
    <3>3. Bit(m \in ExclusiveMessages) = Bit(t \in Exclusive)
      BY <3>1 DEF Bit, ExclusiveMessages
    <3> QED  BY <1>l, <3>1, <3>2, <3>3, BothSites
  <2> QED  BY <2>1, <2>2, Sending
<1>5. /\ watch'[Other(s)] = watch[Other(s)] /\ inbox'[Other(s)] = inbox[Other(s)]
      /\ outbox'[Other(s)] = outbox[Other(s)]
  BY Recording, Sending, BothSites DEF Consume, Set, TypeOK
<1>6. /\ Bit(t \in Exclusive) \in 0 .. 1 /\ (t \in Exclusive => Bit(t \in Exclusive) = 1)
      /\ WatchLoad(s) \in 0 .. 2 /\ InboxLoad(s) \in 0 .. 2 /\ OutboxLoad(s) \in 0 .. 2
      /\ WatchLoad(s)' \in 0 .. 2 /\ InboxLoad(s)' \in 0 .. 2 /\ OutboxLoad(s)' \in 0 .. 2
  BY <1>l DEF Bit, LoadsAdd
<1> HIDE DEF W, I
<1>7. OneToken'
  <2>1. WatchLoad(s)' + InboxLoad(s)' + OutboxLoad(s)' + 0 <= WatchLoad(s) + InboxLoad(s) + OutboxLoad(s)
    BY <1>1, <1>2, <1>3, <1>4, <1>6
  <2> QED  BY <1>5, <2>1, TokensKept
<1>8. ASSUME s = PassiveSite, t \in Exclusive
      PROVE  Underway' = {}
  <2>1. WatchLoad(s)' + InboxLoad(s)' + OutboxLoad(s)' + 1 <= WatchLoad(s) + InboxLoad(s) + OutboxLoad(s)
    BY <1>1, <1>2, <1>3, <1>4, <1>6, <1>8
  <2>2. Tokens' = 0
    BY <1>5, <2>1, TokensKept
  <2> QED  BY <2>2, LoadsNext, Calm
<1> QED  BY <1>7, <1>8

LEMMA PatchedLoad ==
    ASSUME TypeOK, [Next]_vars, NEW s \in Sites, NEW data \in Snapshots, Patched(s, watch[s], data)
    PROVE  /\ WatchLoad(s)' <= WatchLoad(s) + Bit(data.transition \in Exclusive)
           /\ watch'[Other(s)] = watch[Other(s)]
<1>1. watch[s] \in Seq(Snapshots)
  BY DEF TypeOK
<1>2. /\ Load(Append(watch[s], data), ExclusiveSnapshots) <= WatchLoad(s) + Bit(data \in ExclusiveSnapshots)
      /\ WatchLoad(s) \in 0 .. 2
  BY <1>1, LoadParts DEF WatchLoad
<1>3. Bit(data \in ExclusiveSnapshots) = Bit(data.transition \in Exclusive)
      /\ Bit(data.transition \in Exclusive) \in 0 .. 1
  BY DEF Bit, ExclusiveSnapshots
<1>4. watch'[s] = Append(watch[s], data) \/ watch'[s] = watch[s]
  BY DEF Patched
<1>5. CASE watch'[s] = Append(watch[s], data)
  <2>1. WatchLoad(s)' = Load(Append(watch[s], data), ExclusiveSnapshots)
    BY <1>5, LoadsNext
  <2> QED  BY <1>2, <1>3, <2>1, BothSites DEF Patched
<1>6. CASE watch'[s] = watch[s]
  <2>1. WatchLoad(s)' = WatchLoad(s)
    BY <1>6, LoadsNext DEF WatchLoad
  <2> QED  BY <1>2, <1>3, <2>1, BothSites DEF Patched
<1> QED  BY <1>4, <1>5, <1>6

\* A message that is handled or dropped is one less.
LEMMA InboxTaken ==
    ASSUME TypeOK, [Next]_vars, OneToken, NEW s \in Sites, inbox[s] # <<>>,
           inbox' = Set(inbox, s, Tail(inbox[s]))
    PROVE  /\ InboxLoad(s) = InboxLoad(s)' + Bit(Demand(Head(inbox[s])) \in Exclusive)
           /\ inbox'[Other(s)] = inbox[Other(s)]
<1>1. inbox[s] \in Seq(Messages) /\ inbox'[s] = Tail(inbox[s]) /\ inbox'[Other(s)] = inbox[Other(s)]
  BY BothSites DEF TypeOK, Set
<1>2. InboxLoad(s) <= 1 /\ InboxLoad(s)' = Load(Tail(inbox[s]), ExclusiveMessages)
  BY <1>1, LoadsNext DEF LoadsAdd
<1>3. InboxLoad(s) = InboxLoad(s)' + Bit(Head(inbox[s]) \in ExclusiveMessages)
  BY <1>1, <1>2, LoadParts DEF InboxLoad
<1>4. Bit(Head(inbox[s]) \in ExclusiveMessages) = Bit(Demand(Head(inbox[s])) \in Exclusive)
  BY OrderTypes DEF Bit, ExclusiveMessages
<1> QED  BY <1>1, <1>3, <1>4

LEMMA OutboxTaken ==
    ASSUME TypeOK, [Next]_vars, OneToken, NEW s \in Sites, outbox[s] # <<>>,
           outbox' = Set(outbox, s, Tail(outbox[s]))
    PROVE  /\ OutboxLoad(s) = OutboxLoad(s)' + Bit(Head(outbox[s]) \in ExclusiveMessages)
           /\ outbox'[Other(s)] = outbox[Other(s)]
<1>1. outbox[s] \in Seq(Messages) /\ outbox'[s] = Tail(outbox[s]) /\ outbox'[Other(s)] = outbox[Other(s)]
  BY BothSites DEF TypeOK, Set
<1>2. OutboxLoad(s) <= 1 /\ OutboxLoad(s)' = Load(Tail(outbox[s]), ExclusiveMessages)
  BY <1>1, LoadsNext DEF LoadsAdd
<1> QED  BY <1>1, <1>2, LoadParts DEF OutboxLoad

LEMMA OneMore ==
    ASSUME NEW S, NEW q \in Seq(S), NEW x \in S
    PROVE  q \o [i \in 1 .. 1 |-> x] = Append(q, x)
<1> DEFINE c == [i \in 1 .. 1 |-> x]
<1>1. c = <<x>>
  <2>1. c \in Seq(S) /\ Len(c) = 1 /\ c[1] = x
    <3>1. c \in [1 .. 1 -> S]
      OBVIOUS
    <3> QED  BY <3>1, SeqDef, LenProperties
  <2> QED  BY <2>1
<1> HIDE DEF c
<1>2. q \o c = Append(q, x)
  BY <1>1
<1> QED  BY <1>2 DEF c

LEMMA TokenStep ==
    ASSUME Attended, TypeOK, Channels, Latest, Adopting, OneToken, [Next]_vars,
           ~\E s \in Sites, t \in Transitions : OperatorAsks(s, t)
    PROVE  OneToken'
<1>l. LoadsAdd /\ LoadsAdd' /\ TypeOK'
  BY LoadsNext
<1>i. \A s \in Sites : /\ WatchLoad(s) \in 0 .. 2 /\ InboxLoad(s) \in 0 .. 2 /\ OutboxLoad(s) \in 0 .. 2
                      /\ WatchLoad(s)' \in 0 .. 2 /\ InboxLoad(s)' \in 0 .. 2 /\ OutboxLoad(s)' \in 0 .. 2
  BY <1>l DEF LoadsAdd
<1>k. ASSUME NEW s \in Sites, UNCHANGED <<inbox, outbox>>, watch'[Other(s)] = watch[Other(s)],
             WatchLoad(s)' <= WatchLoad(s)
      PROVE  OneToken'
  <2>1. InboxLoad(s)' = InboxLoad(s) /\ OutboxLoad(s)' = OutboxLoad(s)
    BY <1>k DEF InboxLoad, OutboxLoad
  <2>2. WatchLoad(s)' + InboxLoad(s)' + OutboxLoad(s)' + 0 <= WatchLoad(s) + InboxLoad(s) + OutboxLoad(s)
    BY <1>k, <1>l, <2>1 DEF LoadsAdd
  <2> QED  BY <1>k, <2>2, TokensKept
<1>p. ASSUME NEW s \in Sites, NEW data \in Snapshots, Patched(s, watch[s], data),
             data.transition \notin Exclusive, UNCHANGED <<inbox, outbox>>
      PROVE  OneToken'
  <2>1. WatchLoad(s)' <= WatchLoad(s) /\ watch'[Other(s)] = watch[Other(s)]
    <3>1. Bit(data.transition \in Exclusive) = 0
      BY <1>p DEF Bit
    <3> QED  BY <1>l, <1>p, <3>1, PatchedLoad DEF LoadsAdd
  <2> QED  BY <1>k, <1>p, <2>1
<1>1. ASSUME NEW s \in Sites, HandleState(s)
      PROVE  OneToken'
  BY <1>1, Handling, TokenHandled
<1>2. ASSUME NEW s \in Sites, TakeOrder(s)
      PROVE  OneToken'
  <2> DEFINE data == [cm[s] EXCEPT !.transition = Head(inbox[s]).state]
  <2>1. /\ inbox[s] # <<>> /\ Head(inbox[s]).event = "transition_to"
        /\ data \in Snapshots /\ watch[s] \in Seq(Snapshots) /\ cm[s] \in Snapshots
        /\ inbox' = Set(inbox, s, Tail(inbox[s])) /\ outbox' = outbox
    BY <1>2, OrderTypes DEF TakeOrder, FromPeer, TypeOK
  <2>2. data.transition = Demand(Head(inbox[s]))
    BY <2>1 DEF Snapshots, Demand
  <2>3. Write(s, watch[s], data, FALSE)
    BY <1>2 DEF TakeOrder
  <2> HIDE DEF data
  <2>4. Patched(s, watch[s], data)
    BY <2>1, <2>3, PatchEffect
  <2>5. /\ WatchLoad(s)' <= WatchLoad(s) + Bit(Demand(Head(inbox[s])) \in Exclusive)
        /\ watch'[Other(s)] = watch[Other(s)]
    BY <2>1, <2>2, <2>4, PatchedLoad
  <2>6. /\ InboxLoad(s) = InboxLoad(s)' + Bit(Demand(Head(inbox[s])) \in Exclusive)
        /\ inbox'[Other(s)] = inbox[Other(s)]
    BY <2>1, InboxTaken
  <2>7. OutboxLoad(s)' = OutboxLoad(s) /\ outbox'[Other(s)] = outbox[Other(s)]
    BY <2>1 DEF OutboxLoad
  <2>8. WatchLoad(s)' + InboxLoad(s)' + OutboxLoad(s)' + 0 <= WatchLoad(s) + InboxLoad(s) + OutboxLoad(s)
    <3>1. Bit(Demand(Head(inbox[s])) \in Exclusive) \in 0 .. 1
      BY DEF Bit
    <3> QED  BY <1>i, <2>5, <2>6, <2>7, <3>1
  <2> QED  BY <2>5, <2>6, <2>7, <2>8, TokensKept
<1>3. ASSUME NEW s \in Sites, Confirm(s)
      PROVE  OneToken'
  <2> DEFINE answer == [event |-> "yes_happy_to_proceed", item |-> Head(inbox[s]).item]
  <2>1. /\ inbox[s] # <<>> /\ Head(inbox[s]).event = "confirm_happy_to_proceed"
        /\ inbox' = Set(inbox, s, Tail(inbox[s])) /\ watch' = watch
        /\ Forward(s, answer) \/ outbox' = outbox
    BY <1>3 DEF Confirm, FromPeer
  <2>2. answer \in Messages /\ Demand(answer) = Demand(Head(inbox[s]))
    BY <2>1, OrderTypes DEF Messages, Demand
  <2> HIDE DEF answer
  <2>3. /\ OutboxLoad(s)' <= OutboxLoad(s) + Bit(Demand(Head(inbox[s])) \in Exclusive)
        /\ outbox'[Other(s)] = outbox[Other(s)]
    <3>1. CASE outbox' = outbox
      <4>1. OutboxLoad(s)' = OutboxLoad(s)
        BY <3>1 DEF OutboxLoad
      <4>2. Bit(Demand(Head(inbox[s])) \in Exclusive) \in 0 .. 1
        BY DEF Bit
      <4> QED  BY <1>i, <3>1, <4>1, <4>2
    <3>2. CASE Forward(s, answer)
      <4>1. outbox'[s] = Append(outbox[s], answer) /\ outbox'[Other(s)] = outbox[Other(s)]
        BY <2>2, <3>2, ForwardEffect, BothSites
      <4>2. outbox[s] \in Seq(Messages)
        BY DEF TypeOK
      <4>3. Load(Append(outbox[s], answer), ExclusiveMessages)
               <= OutboxLoad(s) + Bit(answer \in ExclusiveMessages)
        BY <2>2, <4>2, LoadParts DEF OutboxLoad
      <4>4. Bit(answer \in ExclusiveMessages) = Bit(Demand(Head(inbox[s])) \in Exclusive)
        BY <2>2 DEF Bit, ExclusiveMessages
      <4> QED  BY <4>1, <4>3, <4>4, LoadsNext
    <3> QED  BY <2>1, <3>1, <3>2
  <2>4. /\ InboxLoad(s) = InboxLoad(s)' + Bit(Demand(Head(inbox[s])) \in Exclusive)
        /\ inbox'[Other(s)] = inbox[Other(s)]
    BY <2>1, InboxTaken
  <2>5. WatchLoad(s)' = WatchLoad(s) /\ watch'[Other(s)] = watch[Other(s)]
    BY <2>1 DEF WatchLoad
  <2>6. WatchLoad(s)' + InboxLoad(s)' + OutboxLoad(s)' + 0 <= WatchLoad(s) + InboxLoad(s) + OutboxLoad(s)
    <3>1. Bit(Demand(Head(inbox[s])) \in Exclusive) \in 0 .. 1
      BY DEF Bit
    <3> QED  BY <1>i, <2>3, <2>4, <2>5, <3>1
  <2> QED  BY <2>3, <2>4, <2>5, <2>6, TokensKept
<1>4. ASSUME NEW s \in Sites, HearPatroni(s), watch' # watch
      PROVE  OneToken'
  <2>1. PICK u \in StableStates : SaveState(s, watch[s], u)
    BY <1>4 DEF HearPatroni, TypeOK
  <2> DEFINE data == [last |-> u, transition |-> ""]
  <2>2. data \in Snapshots /\ watch[s] \in Seq(Snapshots)
    BY SettledSnapshot DEF TypeOK
  <2>3. Write(s, watch[s], data, TRUE) /\ UNCHANGED <<inbox, outbox>>
    BY <1>4, <2>1 DEF SaveState, HearPatroni
  <2>4. data.transition \notin Exclusive
    BY DEF Exclusive, Transitions
  <2> HIDE DEF data
  <2> QED  BY <1>p, <2>2, <2>3, <2>4, PatchEffect
<1>5. ASSUME NEW s \in Sites, DnsFailover(s)
      PROVE  OneToken'
  <2> DEFINE data == [cm[s] EXCEPT !.transition = Failover]
  <2>1. data \in Snapshots /\ data.transition = Failover /\ watch[s] \in Seq(Snapshots)
    BY RequestWritten DEF TypeOK, Failover, Transitions
  <2>2. Patch(s, watch[s], data, FALSE) /\ UNCHANGED <<inbox, outbox>>
    BY <1>5 DEF DnsFailover, Failover
  <2> HIDE DEF data
  <2> QED  BY <1>p, <2>1, <2>2, PatchEffect DEF Exclusive
<1>6. ASSUME NEW s \in Sites, Deliver(s)
      PROVE  OneToken'
  <2> DEFINE m == Head(outbox[s])
             b == Bit(m \in ExclusiveMessages)
  <2>1. /\ outbox[s] # <<>> /\ outbox' = Set(outbox, s, Tail(outbox[s])) /\ watch' = watch
        /\ inbox' = Received(s, 1)
    BY <1>6, Calm DEF Deliver
  <2>2. OutboxLoad(s) = OutboxLoad(s)' + b /\ outbox'[Other(s)] = outbox[Other(s)]
    BY <2>1, OutboxTaken
  <2>3. /\ m \in Messages /\ inbox[Other(s)] \in Seq(Messages) /\ Other(s) \in Sites /\ Other(s) # s
        /\ inbox \in [Sites -> Seq(Messages)] /\ outbox[s] \in Seq(Messages)
    BY <2>1, QueueTaken, BothSites DEF TypeOK
  <2>4. inbox'[Other(s)] = Append(inbox[Other(s)], m) /\ inbox'[s] = inbox[s]
    <3>1. inbox[Other(s)] \o [i \in 1 .. 1 |-> m] = Append(inbox[Other(s)], m)
      BY <2>3, OneMore
    <3> QED  BY <2>1, <2>3, <3>1 DEF Received, Set
  <2>5. InboxLoad(Other(s))' <= InboxLoad(Other(s)) + b
    <3>1. Load(Append(inbox[Other(s)], m), ExclusiveMessages) <= InboxLoad(Other(s)) + b
      BY <2>3, LoadParts DEF InboxLoad
    <3> QED  BY <2>3, <2>4, <3>1, LoadsNext
  <2>6. /\ InboxLoad(s)' = InboxLoad(s) /\ OutboxLoad(Other(s))' = OutboxLoad(Other(s))
        /\ WatchLoad(s)' = WatchLoad(s) /\ WatchLoad(Other(s))' = WatchLoad(Other(s))
    BY <2>1, <2>2, <2>4 DEF InboxLoad, OutboxLoad, WatchLoad
  <2>7. b \in 0 .. 1
    BY DEF Bit
  <2> HIDE DEF b
  <2>8. SiteLoad(s)' + SiteLoad(Other(s))' <= SiteLoad(s) + SiteLoad(Other(s))
    <3>1. SiteLoad(s)' = SiteLoad(s) - b
      BY <1>i, <2>2, <2>6, <2>7 DEF SiteLoad
    <3>2. SiteLoad(Other(s))' <= SiteLoad(Other(s)) + b
      BY <1>i, <2>3, <2>5, <2>6, <2>7 DEF SiteLoad
    <3>3. SiteLoad(s) \in 0 .. 6 /\ SiteLoad(Other(s)) \in 0 .. 6 /\ SiteLoad(Other(s))' \in 0 .. 6
      BY <1>l, <2>3 DEF LoadsAdd
    <3> QED  BY <2>7, <3>1, <3>2, <3>3
  <2> QED  BY <1>l, <2>3, <2>8 DEF LoadsAdd, OneToken
<1>7. ASSUME NEW s \in Sites, Drop(s)
      PROVE  OneToken'
  <2>1. outbox[s] # <<>> /\ outbox' = Set(outbox, s, Tail(outbox[s])) /\ UNCHANGED <<watch, inbox>>
    BY <1>7 DEF Drop
  <2>2. /\ OutboxLoad(s) = OutboxLoad(s)' + Bit(Head(outbox[s]) \in ExclusiveMessages)
        /\ outbox'[Other(s)] = outbox[Other(s)]
    BY <2>1, OutboxTaken
  <2>3. WatchLoad(s)' = WatchLoad(s) /\ InboxLoad(s)' = InboxLoad(s)
    BY <2>1 DEF InboxLoad, WatchLoad
  <2>4. WatchLoad(s)' + InboxLoad(s)' + OutboxLoad(s)' + 0 <= WatchLoad(s) + InboxLoad(s) + OutboxLoad(s)
    <3>1. Bit(Head(outbox[s]) \in ExclusiveMessages) \in 0 .. 1
      BY DEF Bit
    <3> QED  BY <1>i, <2>2, <2>3, <3>1
  <2> QED  BY <2>1, <2>2, <2>4, TokensKept
<1>8. CASE UNCHANGED <<watch, inbox, outbox>>
  <2>1. WatchLoad(ActiveSite)' = WatchLoad(ActiveSite)
    BY <1>8 DEF WatchLoad
  <2> QED  BY <1>k, <1>l, <1>8, <2>1, BothSites DEF LoadsAdd
<1>9. ASSUME NEW s \in Sites, HearPatroni(s)
      PROVE  UNCHANGED <<inbox, outbox>>
  BY <1>9 DEF HearPatroni
<1> QED  BY <1>1, <1>2, <1>3, <1>4, <1>5, <1>6, <1>7, <1>8, <1>9, Calm DEF Next, Poll, Rebuilt,
           PeerChanges, Restart, vars
-----------------------------------------------------------------------------
(* The databases beside a failover *)

OneUnderway == \A t, u \in Underway : t = u

\* The active site's database is whole unless it is asked to become a standby,
\* the passive one's unless it is being rebuilt; ...
ActiveWhole == /\ db[ActiveSite] # "empty"
               /\ \A t \in Underway : t # "gold-standby" => Sound(ActiveSite)
PassiveWhole == triggers[PassiveSite] = {} => Sound(PassiveSite)

\* ... and that is over before another transition than a failover begins.  A
\* failover may promote the database meanwhile, so its Patroni may never report
\* a standby, but if it does it has the data.
Rebuilding == triggers[PassiveSite] # {} =>
    /\ Underway = {} /\ triggers[PassiveSite] = {"active-passive"}
    /\ polled[PassiveSite] = "standby_leader" => db[PassiveSite] \in {"standby", "leader"}

\* Nothing new is reported of a standby that is about to be asked to be one.
NotReported == "active-passive" \in InFlight =>
    /\ polled[PassiveSite] \in {None, "leader"}
    /\ db[PassiveSite] = "standby" => patroni[PassiveSite] = "standby_leader"

\* A passive site recorded as the primary one leads, unless it is being rebuilt,
\* also as far as its handler knows.
PassiveLeading ==
    /\ cm[PassiveSite].last = Failover /\ triggers[PassiveSite] = {} => db[PassiveSite] = "leader"
    /\ Underway # {} /\ Failover \in Recorded => db[PassiveSite] = "leader"

FailInv == /\ TypeOK /\ Channels /\ Latest /\ Handled
           /\ OneToken /\ OneUnderway /\ Fresh /\ Adopting
           /\ ActiveWhole /\ PassiveWhole /\ Rebuilding /\ NotReported
           /\ PassiveLeading /\ OrderLed /\ ConsentLed

LEMMA Basics ==
    ASSUME Attended, FailInv, [Next]_vars
    PROVE  TypeOK' /\ Channels' /\ Latest' /\ Handled'
<1>1. Channels'
  BY MailToPassive, MailToActive DEF Channels, FailInv
<1> QED  BY <1>1, TypeStep, LatestStep DEF FailInv

\* An operator asks when nothing is under way.
LEMMA OperatorInFailover ==
    ASSUME Attended, FailInv, [Next]_vars, NEW s \in Sites, NEW t \in Transitions, OperatorAsks(s, t)
    PROVE  FailInv'
<1>b. TypeOK' /\ Channels' /\ Latest' /\ Handled'
  BY Basics
<1>c. NoCalls /\ Settling
  BY Calm DEF Settling
<1>d. /\ InFlight = {} /\ InFlight' \subseteq {t}
      /\ ToPassive' = {} /\ ToActive' = {}
      /\ Recorded = {cm[PassiveSite].last} /\ Recorded' = Recorded
      /\ "active-passive" \notin Ordered'
      /\ \A r \in Sites : Quiet(r) /\ (db[r] # "empty" => Sound(r)')
      /\ triggers' = triggers /\ triggers[PassiveSite] = {}
  BY <1>c, QuietDemand DEF FailInv, Attended
<1> DEFINE data == [cm[s] EXCEPT !.transition = t]
<1>e. /\ data \in Snapshots /\ data.last = cm[s].last /\ watch[s] \in Seq(Snapshots)
      /\ Patch(s, watch[s], data, FALSE)
  BY RequestWritten DEF FailInv, TypeOK, OperatorAsks
<1> HIDE DEF data
<1>p. Patched(s, watch[s], data)
  BY <1>e, PatchEffect DEF FailInv
<1>u. UNCHANGED <<view, inbox, outbox, db, patroni, polled, triggers>>
  BY DEF OperatorAsks, databases
<1>q. \A r \in Sites : /\ watch[r] = <<>> /\ inbox[r] = <<>> /\ outbox[r] = <<>>
                      /\ polled[r] = None /\ patroni[r] = Shown(db[r]) /\ triggers[r] = {}
  BY <1>d DEF Quiet
<1>1. OneToken'
  <2>1. \A S : Load(<<>>, S) = 0
    BY DEF Load
  <2>2. \A r \in Sites : /\ WatchLoad(r) = 0
                        /\ InboxLoad(r)' = 0 /\ OutboxLoad(r)' = 0
    BY <1>q, <1>u, <2>1 DEF WatchLoad, InboxLoad, OutboxLoad
  <2>3. /\ WatchLoad(s)' <= WatchLoad(s) + Bit(data.transition \in Exclusive)
        /\ watch'[Other(s)] = watch[Other(s)]
    BY <1>e, <1>p, PatchedLoad DEF FailInv
  <2>4. Bit(data.transition \in Exclusive) \in 0 .. 1
    BY DEF Bit
  <2>5. WatchLoad(Other(s))' = 0 /\ Other(s) \in Sites
    BY <2>2, <2>3, BothSites DEF WatchLoad
  <2>6. LoadsAdd'
    BY LoadsNext DEF FailInv
  <2>7. WatchLoad(s)' \in 0 .. 2
    BY <2>6 DEF LoadsAdd
  <2>8. SiteLoad(s)' \in 0 .. 1 /\ SiteLoad(Other(s))' = 0
    BY <2>2, <2>3, <2>4, <2>5, <2>7 DEF SiteLoad
  <2> QED  BY <2>6, <2>8 DEF LoadsAdd, OneToken
<1>2. OneUnderway'
  BY <1>d DEF OneUnderway, Underway
<1>3. \A r \in Sites : cm[r].last # Nothing
  BY <1>c, <1>q DEF FailInv, Fresh, NoCalls
<1>4. \A r \in Sites : cm'[r].last = cm[r].last /\ \A snap \in Range(watch'[r]) : snap.last # Nothing
  <2>1. \A r \in Sites \ {s} : cm'[r] = cm[r] /\ watch'[r] = <<>>
    BY <1>p, <1>q DEF Patched
  <2>2. CASE cm'[s] = data /\ Range(watch'[s]) = Range(<<>>) \cup {data}
    BY <1>e, <1>3, <2>1, <2>2, QueueEmpty
  <2>3. CASE cm'[s] = cm[s] /\ watch'[s] = <<>>
    BY <2>1, <2>3, QueueEmpty
  <2> QED  BY <1>p, <1>q, <2>2, <2>3 DEF Patched
<1>5. Fresh' /\ Adopting'
  BY <1>3, <1>4 DEF Fresh, Adopting
<1>6. ActiveWhole' /\ PassiveWhole'
  BY <1>d, <1>u, BothSites DEF FailInv, ActiveWhole, PassiveWhole, Sound
<1>7. Rebuilding' /\ NotReported'
  BY <1>d, <1>u, <1>q, BothSites DEF Rebuilding, NotReported, Shown
<1>8. PassiveLeading'
  BY <1>d, <1>u, <1>4, BothSites DEF FailInv, PassiveLeading
<1>9. OrderLed' /\ ConsentLed'
  BY <1>d DEF OrderLed, ConsentLed
<1> QED  BY <1>b, <1>1, <1>2, <1>5, <1>6, <1>7, <1>8, <1>9 DEF FailInv

\* Automation asks for a failover at a site that has switched before: nothing
\* but a request is new.
LEMMA DnsInFailover ==
    ASSUME Attended, FailInv, [Next]_vars, NEW s \in Sites, DnsFailover(s),
           ~\E r \in Sites, t \in Transitions : OperatorAsks(r, t)
    PROVE  FailInv'
<1>b. TypeOK' /\ Channels' /\ Latest' /\ Handled'
  BY Basics
<1>c. "restart" \notin Faults
  BY Calm
<1> DEFINE data == [cm[s] EXCEPT !.transition = Failover]
<1>e. /\ data \in Snapshots /\ data.last = "active-passive" /\ data.transition = Failover
      /\ watch[s] \in Seq(Snapshots) /\ Patch(s, watch[s], data, FALSE) /\ cm[s].last = "active-passive"
  <2>1. Failover \in Transitions /\ cm[s] \in Snapshots /\ watch[s] \in Seq(Snapshots)
    BY DEF Failover, Transitions, FailInv, TypeOK
  <2>2. cm[s].last = "active-passive" /\ Patch(s, watch[s], data, FALSE)
    BY DEF DnsFailover, FailsOver, Failover
  <2> QED  BY <2>1, <2>2, RequestWritten
<1> HIDE DEF data
<1>p. Patched(s, watch[s], data)
  BY <1>e, PatchEffect DEF FailInv
<1>u. UNCHANGED <<view, inbox, outbox, db, patroni, polled, triggers>>
  BY DEF DnsFailover, databases
<1>w. \A r \in Sites : /\ cm'[r].last = cm[r].last
                      /\ \A snap \in Range(watch'[r]) : snap \in Range(watch[r]) \/ (r = s /\ snap = data)
  BY <1>e, <1>p DEF Patched
<1>a. /\ \A r \in Sites : Asked(r)' \subseteq Asked(r) \cup {Failover}
      /\ ToPassive' = ToPassive /\ ToActive' = ToActive
  BY <1>c, <1>e, <1>u, <1>w DEF Asked, ToPassive, ToActive
<1>i. /\ InFlight' \subseteq InFlight \cup {Failover} /\ Ordered' \subseteq Ordered \cup {Failover}
      /\ Underway' \subseteq Underway
  BY <1>a, BothSites DEF InFlight, Ordered, Underway
<1>r. Recorded' \subseteq Recorded
  <2>1. \A snap \in Range(watch'[PassiveSite]) : snap.last \in Recorded
    BY <1>e, <1>w, BothSites DEF Recorded
  <2> QED  BY <1>u, <1>w, <2>1, BothSites DEF Recorded
<1>1. OneToken'
  BY TokenStep DEF FailInv
<1>2. OneUnderway'
  BY <1>i DEF FailInv, OneUnderway
<1>3. "active-passive" \notin {Nothing, "independent"} /\ Failover # "active-passive"
  BY DEF Nothing, Failover
<1>4. Fresh'
  <2> SUFFICES ASSUME NEW r \in Sites, cm[r].last = Nothing
               PROVE  /\ \A snap \in Range(watch'[r]) : snap.last = Nothing
                      /\ "call" \notin Faults => watch'[r] # <<>>
    BY <1>w DEF Fresh
  <2>1. r # s
    BY <1>e, <1>3
  <2>2. watch'[r] = watch[r]
    BY <1>p, <2>1 DEF Patched
  <2> QED  BY <2>2 DEF FailInv, Fresh
<1>5. Adopting'
  <2>1. ~\E r \in Sites : \E snap \in Range(watch[r]) : snap.last = Nothing
    BY <1>e, <1>3 DEF FailInv, Adopting
  <2> QED  BY <1>e, <1>w, <1>3, <2>1 DEF Adopting
<1>6. ActiveWhole' /\ PassiveWhole' /\ Rebuilding'
  BY <1>i, <1>u DEF FailInv, ActiveWhole, PassiveWhole, Rebuilding, Sound
<1>7. NotReported'
  BY <1>i, <1>u, <1>3 DEF FailInv, NotReported
<1>8. PassiveLeading'
  BY <1>i, <1>r, <1>u, <1>w, BothSites DEF FailInv, PassiveLeading
<1>9. OrderLed' /\ ConsentLed'
  BY <1>a, <1>i, <1>u, <1>3 DEF FailInv, OrderLed, ConsentLed
<1> QED  BY <1>b, <1>1, <1>2, <1>4, <1>5, <1>6, <1>7, <1>8, <1>9 DEF FailInv

\* The request a handler acts on.
LEMMA AskedEvent ==
    ASSUME TypeOK, Channels, NEW s \in Sites, NEW e \in StateEvents(s), Asks(e)
    PROVE  /\ e.snap.transition \in Transitions \cap InFlight /\ e.snap.last # Nothing
           /\ e.snap.transition # e.snap.last
           /\ e.snap.transition # Failover => e.snap.transition \in Underway \cap Exclusive
           /\ s = PassiveSite => /\ e.snap \in Range(watch[s]) /\ e.snap.last \in Recorded
                                 /\ ~e.peer_ok
<1>1. e.snap.transition \in Transitions
  BY StartingWork
<1>2. e.snap.last # Nothing /\ e.snap.transition # e.snap.last
  BY Zenon DEF Asks, Nothing
<1>3. s = PassiveSite => e.snap \in Range(watch[s]) /\ ~e.peer_ok
  BY EventSource, BothSites
<1> QED  BY <1>1, <1>2, <1>3, EventSource DEF Underway, Exclusive, Recorded

\* Where a ConfigMap was never used, its handler adopts it.
LEMMA StateHandled ==
    ASSUME NoCalls, TypeOK, Channels, Latest, Fresh, Adopting, NEW s \in Sites,
           NEW e \in StateEvents(s), HandleEvent(s, e)
    PROVE  cm'[s].last # Nothing
<1>1. cm[s].last = Nothing => e.snap.last = Nothing
  <2> SUFFICES ASSUME cm[s].last = Nothing
               PROVE  e.snap.last = Nothing
    OBVIOUS
  <2>1. cm[s] \in Range(watch[s])
    BY LastOfWatch DEF Fresh, NoCalls
  <2>2. InFlight = {}
    BY <2>1 DEF Adopting
  <2>3. ~e.peer_ok
    BY <2>2, EventSource DEF Consentable, NeedsConsent, Transitions
  <2> QED  BY <2>3, EventSource DEF Fresh
<1>2. CASE Writes(s, e)
  BY <1>1, <1>2, StateWritten
<1>3. CASE WritesNothing(s, e)
  <2>1. cm'[s] = cm[s] /\ (e.snap.last # Nothing \/ cm[s].last # Nothing)
    BY <1>3, Zenon DEF WritesNothing, NoCalls, Nothing
  <2> QED  BY <1>1, <2>1
<1> QED  BY <1>2, <1>3, Recording

\* What is new in a watch was written by its handler, an order or a trigger.
LEMMA WatchMoves ==
    ASSUME Attended, FailInv, [Next]_vars, ~Requested, NEW s \in Sites
    PROVE  \/ cm'[s] = cm[s] /\ watch'[s] = watch[s]
           \/ /\ \E e \in StateEvents(s) : Consume(s, e) /\ HandleEvent(s, e)
              /\ cm'[s].last # Nothing
              /\ \A snap \in Range(watch'[s]) : snap \in Range(watch[s]) \/ snap = cm'[s]
           \/ /\ watch'[s] = Append(watch[s], cm'[s]) /\ watch'[s] # <<>>
              /\ \A snap \in Range(watch'[s]) : snap \in Range(watch[s]) \/ snap = cm'[s]
              /\ \/ cm'[s].last = cm[s].last /\ InFlight # {}
                 \/ cm'[s].last # Nothing /\ triggers[s] # {}
<1> USE DEF FailInv
<1>1. ASSUME NEW e \in StateEvents(s), Consume(s, e), HandleEvent(s, e),
             Writes(s, e) \/ WritesNothing(s, e)
      PROVE  /\ cm'[s].last # Nothing
             /\ \A snap \in Range(watch'[s]) : snap \in Range(watch[s]) \/ snap = cm'[s]
  <2>1. Range(e.watch) \subseteq Range(watch[s])
    BY EventTypes
  <2>2. Range(watch'[s]) \subseteq Range(e.watch) \cup {cm'[s]}
    BY <1>1, Zenon DEF Writes, WritesNothing
  <2> QED  BY <1>1, <2>1, <2>2, StateHandled, Calm
<1>2. ASSUME watch'[s] = Append(watch[s], cm'[s])
      PROVE  /\ watch'[s] # <<>>
             /\ \A snap \in Range(watch'[s]) : snap \in Range(watch[s]) \/ snap = cm'[s]
  <2>1. cm'[s] \in Snapshots /\ watch[s] \in Seq(Snapshots)
    BY Basics DEF TypeOK
  <2> QED  BY <1>2, <2>1, QueueAppended
<1>3. Ordering(s) => cm'[s].last = cm[s].last /\ InFlight # {}
  <2> SUFFICES ASSUME Ordering(s)
               PROVE  InFlight # {}
    BY DEF Ordering
  <2>1. /\ Head(inbox[s]) \in ToPassive /\ Demand(Head(inbox[s])) \in Transitions
    BY OrderTypes DEF Ordering, TakeOrder, FromPeer, ToPassive, Demand
  <2> QED  BY <2>1 DEF InFlight
<1>4. Firing(s) => cm'[s].last # Nothing /\ triggers[s] # {}
  BY SnapshotParts DEF Firing, TypeOK
<1>5. ~Restart(s)
  BY Calm DEF Restart
<1> QED  BY <1>1, <1>2, <1>3, <1>4, <1>5, WatchStep DEF Requested

LEMMA FreshInFailover ==
    ASSUME Attended, FailInv, [Next]_vars, ~Requested
    PROVE  Fresh'
<1> SUFFICES ASSUME NEW s \in Sites, cm'[s].last = Nothing
             PROVE  /\ \A snap \in Range(watch'[s]) : snap.last = Nothing
                    /\ "call" \notin Faults => watch'[s] # <<>>
  BY DEF Fresh
<1>1. CASE cm'[s] = cm[s] /\ watch'[s] = watch[s]
  BY <1>1 DEF FailInv, Fresh
<1>2. CASE /\ watch'[s] # <<>> /\ cm'[s].last = cm[s].last
           /\ \A snap \in Range(watch'[s]) : snap \in Range(watch[s]) \/ snap = cm'[s]
  <2>1. \A snap \in Range(watch[s]) : snap.last = Nothing
    BY <1>2 DEF FailInv, Fresh
  <2>2. watch'[s] # <<>>
    BY <1>2
  <2>3. \A snap \in Range(watch'[s]) : snap.last = Nothing
    BY <1>2, <2>1
  <2> QED  BY <2>2, <2>3
<1> QED  BY <1>1, <1>2, WatchMoves

\* Who acts on a request, fires a trigger or is told something has adopted its
\* ConfigMap.
LEMMA AdoptingInFailover ==
    ASSUME Attended, FailInv, [Next]_vars, ~Requested
    PROVE  Adopting'
<1> USE DEF FailInv
<1> SUFFICES ASSUME NEW s \in Sites, NEW snap \in Range(watch'[s]), snap.last = Nothing
             PROVE  /\ InFlight' = {}
                    /\ \A r \in Sites : triggers'[r] = {} /\ cm'[r].last \in {Nothing, "independent"}
  BY DEF Adopting
<1>1. /\ InFlight = {}
      /\ \A r \in Sites : triggers[r] = {} /\ cm[r].last \in {Nothing, "independent"}
  <2>1. CASE snap \in Range(watch[s])
    BY <2>1 DEF Adopting
  <2>2. CASE snap = cm'[s] /\ cm'[s].last = cm[s].last
    <3>1. cm[s] \in Range(watch[s]) /\ cm[s].last = Nothing
      BY <2>2, LastOfWatch, Calm DEF Fresh, NoCalls
    <3> QED  BY <3>1 DEF Adopting
  <2>3. snap \in Range(watch[s]) \/ (snap = cm'[s] /\ cm'[s].last = cm[s].last)
    <3>1. cm'[s] = cm[s] /\ watch'[s] = watch[s] => snap \in Range(watch[s])
      OBVIOUS
    <3> QED  BY <3>1, WatchMoves
  <2> QED  BY <2>1, <2>2, <2>3
<1>2. InFlight' = {}
  BY <1>1, NoNewDemand DEF Requested
<1>3. ASSUME NEW r \in Sites
      PROVE  triggers'[r] = {} /\ cm'[r].last \in {Nothing, "independent"}
  <2>1. ASSUME NEW e \in StateEvents(r), HandleEvent(r, e)
        PROVE  triggers'[r] = triggers[r] /\ cm'[r].last \in {cm[r].last, "independent"}
    <3>1. ~Asks(e) /\ \A work : ~Starting(r, e, work)
      BY <1>1, AskedEvent DEF Starting
    <3> QED  BY <2>1, <3>1, HandlerOutcome, Calm DEF Reacts, Commits, Unanswered, Untouched
  <2> QED  BY <1>1, <2>1, SiteStep, Calm DEF Fires, Keeps
<1> QED  BY <1>2, <1>3

LEMMA PromotedSound ==
    ASSUME TypeOK, NEW s \in Sites, Sound(s), DeployPrimary(s)
    PROVE  db'[s] = "leader"
BY DEF Sound, DeployPrimary, BelievesLeader, Promoted, Set, TypeOK

\* The active site's database: told to lead when it is whole, wiped on a consent.
LEMMA ActiveMoves ==
    ASSUME Attended, FailInv, [Next]_vars
    PROVE  \/ db'[ActiveSite] = db[ActiveSite]
           \/ db'[ActiveSite] = "leader" /\ Sound(ActiveSite)
           \/ db[ActiveSite] = "rebuilding" /\ db'[ActiveSite] = "standby"
           \/ /\ db'[ActiveSite] = "rebuilding" /\ "gold-standby" \in Underway
              /\ db[PassiveSite] = "leader"
<1> DEFINE A == ActiveSite
<1> USE DEF FailInv
<1>1. ASSUME NEW e \in StateEvents(A), HandleEvent(A, e)
      PROVE  \/ db'[A] = db[A]
             \/ db'[A] = "leader" /\ Sound(A)
             \/ db'[A] = "rebuilding" /\ "gold-standby" \in Underway /\ db[PassiveSite] = "leader"
  <2>s. \A work : Starting(A, e, work) =>
           /\ Asks(e) /\ Work(A, e.snap.transition) = work /\ ~MustConfirm(A, e)
           /\ e.snap.transition \in Transitions
           /\ e.snap.transition # Failover => e.snap.transition \in Underway
    BY AskedEvent, BothSites DEF Starting
  <2>1. CASE Reacts(A, e) /\ Starting(A, e, "standby")
    <3>1. e.snap.transition = "gold-standby" /\ e.snap.transition \in Underway
      BY <2>1, <2>s DEF Work, Transitions, Failover
    <3>2. e.peer_ok
      BY <2>1, <2>s, <3>1 DEF MustConfirm, NeedsConsent
    <3>3. db[PassiveSite] = "leader"
      BY <3>1, <3>2, EventSource, BothSites DEF ConsentLed
    <3> QED  BY <2>1, <3>1, <3>3 DEF Reacts, Untouched
  <2>2. CASE Commits(A, e) /\ DeployPrimary(A)
    <3>1. PICK work \in {"primary", "detach"} : Starting(A, e, work)
      BY <2>2 DEF Commits
    <3>2. e.snap.transition \in {"active-passive", "active-passive-force"}
      BY <3>1, <2>s DEF Work, Transitions
    <3>3. Sound(A)
      BY <3>1, <3>2, <2>s DEF ActiveWhole, Failover
    <3> QED  BY <2>2, <3>3, PromotedSound, BothSites
  <2>3. CASE Reacts(A, e) /\ ~Starting(A, e, "standby")
    BY <2>3 DEF Reacts, Untouched
  <2> QED  BY <1>1, <2>1, <2>2, <2>3, HandlerOutcome, Calm, BothSites DEF Unanswered
<1> QED  BY <1>1, SiteStep, Calm, BothSites DEF Fires, Keeps

\* The passive site's: told to lead, whole or not when it is being rebuilt, and
\* wiped on an order.
LEMMA PassiveMoves ==
    ASSUME Attended, FailInv, [Next]_vars
    PROVE  \/ db'[PassiveSite] = db[PassiveSite] /\ triggers'[PassiveSite] = triggers[PassiveSite]
           \/ Fires(PassiveSite)
           \/ /\ triggers'[PassiveSite] = triggers[PassiveSite]
              /\ \/ triggers[PassiveSite] = {} /\ db'[PassiveSite] = "leader"
                 \/ triggers[PassiveSite] # {} /\ db'[PassiveSite] = Promoted(db[PassiveSite])
                 \/ db[PassiveSite] = "rebuilding" /\ db'[PassiveSite] = "standby"
           \/ /\ db'[PassiveSite] = "rebuilding" /\ triggers'[PassiveSite] = {"active-passive"}
              /\ "active-passive" \in Underway /\ db[ActiveSite] = "leader"
              /\ Underway' = {} /\ polled' = polled
<1> DEFINE P == PassiveSite
<1> USE DEF FailInv
<1>1. ASSUME NEW e \in StateEvents(P), Consume(P, e), HandleEvent(P, e)
      PROVE  \/ db'[P] = db[P] /\ triggers'[P] = triggers[P]
             \/ /\ triggers'[P] = triggers[P]
                /\ \/ triggers[P] = {} /\ db'[P] = "leader"
                   \/ triggers[P] # {} /\ db'[P] = Promoted(db[P])
             \/ /\ db'[P] = "rebuilding" /\ triggers'[P] = {"active-passive"}
                /\ "active-passive" \in Underway /\ db[ActiveSite] = "leader"
                /\ Underway' = {} /\ polled' = polled
  <2>1. CASE Reacts(P, e) /\ Starting(P, e, "standby")
    <3>1. Asks(e) /\ Work(P, e.snap.transition) = "standby"
      BY <2>1 DEF Starting
    <3>2. e.snap.transition = "active-passive" /\ e.snap \in Range(watch[P])
      BY <3>1, AskedEvent, StartingWork, BothSites
    <3>3. "active-passive" \in Underway \cap Exclusive
      BY <3>1, <3>2, AskedEvent, BothSites DEF Failover
    <3>4. db[ActiveSite] = "leader"
      BY <3>2 DEF OrderLed, Ordered, Asked
    <3>5. Underway' = {}
      BY <1>1, <3>2, <3>3, TokenHandled, BothSites
    <3> QED  BY <1>1, <2>1, <3>2, <3>3, <3>4, <3>5 DEF Reacts, Untouched, Consume
  <2>2. CASE Commits(P, e) /\ DeployPrimary(P)
    <3>1. triggers' = triggers /\ (db' = db \/ db'[P] = Promoted(db[P]))
      BY <2>2, BothSites DEF Commits, DeployPrimary, Set, TypeOK
    <3>2. triggers[P] = {} => db'[P] = "leader"
      BY <2>2, PromotedSound, BothSites DEF PassiveWhole
    <3> QED  BY <3>1, <3>2
  <2>3. CASE Reacts(P, e) /\ ~Starting(P, e, "standby")
    BY <2>3 DEF Reacts, Untouched
  <2> QED  BY <1>1, <2>1, <2>2, <2>3, HandlerOutcome, Calm, BothSites DEF Unanswered
<1> QED  BY <1>1, SiteStep, Calm, BothSites DEF Keeps

LEMMA LessUnderway ==
    ASSUME FailInv, [Next]_vars, ~Requested
    PROVE  InFlight' \subseteq InFlight /\ Underway' \subseteq Underway /\ OneUnderway'
<1>1. InFlight' \subseteq InFlight
  BY NoNewDemand DEF FailInv, Requested
<1> QED  BY <1>1 DEF FailInv, OneUnderway, Underway

LEMMA ActiveWholeStep ==
    ASSUME Attended, FailInv, [Next]_vars, ~Requested
    PROVE  ActiveWhole'
<1> USE DEF FailInv
<1>1. db'[ActiveSite] # "empty"
  BY ActiveMoves DEF ActiveWhole
<1>2. ASSUME NEW t \in Underway', t # "gold-standby"
      PROVE  Sound(ActiveSite)'
  <2>1. t \in Underway /\ Sound(ActiveSite)
    BY <1>2, LessUnderway DEF ActiveWhole
  <2>2. "gold-standby" \notin Underway
    BY <1>2, <2>1 DEF OneUnderway
  <2>3. db'[ActiveSite] \in {db[ActiveSite], "leader"}
    BY <2>1, <2>2, ActiveMoves DEF Sound
  <2> QED  BY <2>1, <2>3, SoundKept, BothSites
<1> QED  BY <1>1, <1>2 DEF ActiveWhole

LEMMA PassiveWholeStep ==
    ASSUME Attended, FailInv, [Next]_vars
    PROVE  PassiveWhole'
<1> DEFINE P == PassiveSite
<1> USE DEF FailInv
<1> SUFFICES ASSUME triggers'[P] = {}
             PROVE  Sound(P)'
  BY DEF PassiveWhole
<1>1. CASE triggers[P] = {}
  <2>1. Sound(P) /\ ~Fires(P)
    BY <1>1 DEF PassiveWhole, Fires
  <2>2. db'[P] \in {db[P], "leader"}
    BY <1>1, <2>1, PassiveMoves DEF Sound
  <2> QED  BY <2>1, <2>2, SoundKept, BothSites
<1>2. CASE triggers[P] # {}
  <2>1. Fires(P)
    BY <1>2, PassiveMoves
  <2>2. db'[P] = db[P] /\ db[P] \in {"standby", "leader"}
    BY <1>2, <2>1 DEF Fires, TriggersFire, Rebuilding
  <2>3. patroni'[P] = "standby_leader" /\ polled'[P] = None
    BY <2>1, BothSites DEF Fires, TriggersFire, HearPatroni, Set, TypeOK
  <2>4. None # "leader"
    BY NoneDistinct DEF Appearances
  <2> QED  BY <2>2, <2>3, <2>4 DEF Sound
<1> QED  BY <1>1, <1>2

LEMMA RebuildingStep ==
    ASSUME Attended, FailInv, [Next]_vars, ~Requested
    PROVE  Rebuilding'
<1> DEFINE P == PassiveSite
<1> USE DEF FailInv
<1> SUFFICES ASSUME triggers'[P] # {}
             PROVE  /\ Underway' = {} /\ triggers'[P] = {"active-passive"}
                    /\ polled'[P] = "standby_leader" => db'[P] \in {"standby", "leader"}
  BY DEF Rebuilding
<1>n. None # "standby_leader"
  BY NoneDistinct DEF Appearances
<1>1. CASE triggers'[P] = triggers[P]
  <2>1. Underway = {} /\ triggers[P] = {"active-passive"}
    BY <1>1 DEF Rebuilding
  <2>2. Underway' = {}
    BY <2>1, LessUnderway
  <2>3. ASSUME polled'[P] = "standby_leader"
        PROVE  db'[P] \in {"standby", "leader"}
    <3>1. db[P] \in {"standby", "leader"}
      <4>1. Shown(db[P]) = "standby_leader" => db[P] = "standby"
        BY BothSites DEF Shown, TypeOK, Databases
      <4> QED  BY <1>1, <1>n, <2>3, <4>1, PatroniStep, BothSites DEF Rebuilding
    <3>2. Promoted(db[P]) = "leader"
      BY <3>1 DEF Promoted
    <3>3. ~Fires(P)
      BY <1>1 DEF Fires
    <3> QED  BY <2>1, <3>1, <3>2, <3>3, PassiveMoves
  <2> QED  BY <1>1, <2>1, <2>2, <2>3
<1>2. CASE triggers'[P] # triggers[P]
  <2>1. /\ triggers'[P] = {"active-passive"} /\ "active-passive" \in Underway
        /\ Underway' = {} /\ polled' = polled
    BY <1>2, PassiveMoves DEF Fires
  <2>2. polled'[P] # "standby_leader"
    BY <1>n, <2>1 DEF NotReported, Underway
  <2> QED  BY <2>1, <2>2
<1> QED  BY <1>1, <1>2

LEMMA NotReportedStep ==
    ASSUME Attended, FailInv, [Next]_vars, ~Requested
    PROVE  NotReported'
<1> DEFINE P == PassiveSite
<1> USE DEF FailInv
<1> SUFFICES ASSUME "active-passive" \in InFlight'
             PROVE  /\ polled'[P] \in {None, "leader"}
                    /\ db'[P] = "standby" => patroni'[P] = "standby_leader"
  BY DEF NotReported
<1>1. "active-passive" \in InFlight
  BY LessUnderway
<1>2. triggers[P] = {} /\ Sound(P)
  <2>1. Underway # {}
    BY <1>1 DEF Underway, Failover
  <2> QED  BY <2>1 DEF Rebuilding, PassiveWhole
<1>3. /\ polled[P] \in {None, "leader"} /\ (db[P] = "standby" => patroni[P] = "standby_leader")
  BY <1>1 DEF NotReported
<1>4. ~Fires(P) /\ "restart" \notin Faults
  BY <1>2, Calm DEF Fires
<1>5. polled'[P] \in {None, "leader"}
  <2>1. db[P] \in {"leader", "standby"} /\ Shown("leader") = "leader" /\ Shown("standby") = "standby_leader"
    BY <1>2 DEF Sound, Shown
  <2> QED  BY <1>3, <2>1, PatroniStep, BothSites
<1>6. ASSUME db'[P] = "standby"
      PROVE  patroni'[P] = "standby_leader"
  <2>1. db[P] = "standby"
    BY <1>2, <1>4, <1>6, PassiveMoves DEF Sound
  <2>2. polled[P] # "leader"
    BY <1>2, <2>1 DEF Sound
  <2> QED  BY <1>3, <1>4, <2>1, <2>2, PatroniStep, BothSites
<1> QED  BY <1>5, <1>6


\* The passive site's record, when its handler or a trigger writes it, ...
LEMMA PassiveRecorded ==
    ASSUME Attended, FailInv, [Next]_vars,
           cm'[PassiveSite].last = Failover, triggers'[PassiveSite] = {}
    PROVE  db'[PassiveSite] = "leader"
<1> DEFINE P == PassiveSite
<1> USE DEF FailInv
<1>f. Failover \notin {"independent", "active-passive", "active-passive-partial", "gold-standby"}
  BY DEF Failover
<1>1. ASSUME NEW e \in StateEvents(P), HandleEvent(P, e)
      PROVE  db'[P] = "leader"
  <2>s. \A work : Starting(P, e, work) =>
           Asks(e) /\ Work(P, e.snap.transition) = work /\ e.snap.transition \in Transitions
    BY AskedEvent, BothSites DEF Starting
  <2>1. CASE Untouched /\ cm'[P].last = cm[P].last
    BY <2>1 DEF Untouched, PassiveLeading
  <2>2. CASE Untouched /\ Asks(e) /\ cm'[P].last = e.snap.last
    <3>1. e.snap.transition # Failover /\ Failover \in Recorded
      BY <2>2, AskedEvent, BothSites
    <3>2. Underway # {}
      BY <2>2, <3>1, AskedEvent, BothSites
    <3> QED  BY <2>2, <3>1, <3>2 DEF Untouched, PassiveLeading
  <2>3. CASE Commits(P, e) /\ DeployPrimary(P)
    <3>1. Sound(P)
      BY <2>3 DEF Commits, PassiveWhole
    <3> QED  BY <2>3, <3>1, PromotedSound, BothSites
  <2>4. CASE Unanswered(P, e)
    BY <2>4 DEF Unanswered, PassiveLeading
  <2>5. Starting(P, e, "standby") => e.snap.transition = "active-passive"
    BY <2>s, BothSites DEF Work, Transitions
  <2>6. ~Starting(P, e, "down") /\ (Starting(P, e, "note") => e.snap.transition = "gold-standby")
    BY <2>s, BothSites DEF Work, Transitions
  <2>7. Partial("active-passive") = "active-passive-partial"
    BY DEF Partial
  <2>8. Reacts(P, e) => \/ Untouched /\ cm'[P].last = cm[P].last
                        \/ Untouched /\ Asks(e) /\ cm'[P].last = e.snap.last
    BY <2>5, <2>6, <2>7, <1>f DEF Reacts
  <2> QED  BY <1>1, <2>1, <2>2, <2>3, <2>4, <2>8, HandlerOutcome, Calm, BothSites
<1>2. ~Fires(P)
  BY <1>f DEF Fires, Rebuilding
<1>3. Keeps(P) => db'[P] = "leader"
  BY Calm DEF Keeps, PassiveLeading
<1> QED  BY <1>1, <1>2, <1>3, SiteStep, Calm, BothSites

\* ... and what its handler can know of it.
LEMMA PassiveLeadingStep ==
    ASSUME Attended, FailInv, [Next]_vars, ~Requested
    PROVE  PassiveLeading'
<1> DEFINE P == PassiveSite
<1> USE DEF FailInv
<1>1. ASSUME Underway' # {}, Failover \in Recorded'
      PROVE  db'[P] = "leader"
  <2>1. Underway # {} /\ triggers[P] = {} /\ Sound(P) /\ ~Fires(P)
    BY <1>1, LessUnderway DEF Rebuilding, PassiveWhole, Fires
  <2>2. db'[P] \in {db[P], "leader"}
    BY <1>1, <2>1, PassiveMoves DEF Sound
  <2>3. CASE Failover \in Recorded
    BY <2>1, <2>2, <2>3 DEF PassiveLeading
  <2>4. CASE DeployPrimary(P)
    BY <2>1, <2>4, PromotedSound, BothSites
  <2>5. Failover \notin {"independent", "active-passive", "active-passive-partial", "gold-standby"}
    BY DEF Failover
  <2>6. Failover \in Recorded \/ DeployPrimary(P)
    <3>1. ~\E s \in Sites : (\E t \in Transitions : OperatorAsks(s, t)) \/ DnsFailover(s)
      BY DEF Requested
    <3> HIDE DEF Requested, FailInv
    <3> QED  BY <1>1, <2>1, <2>5, <3>1, RecordMoves, Zenon DEF FailInv
  <2> QED  BY <2>3, <2>4, <2>6
<1> QED  BY <1>1, PassiveRecorded DEF PassiveLeading


LEMMA OrderLedStep ==
    ASSUME Attended, FailInv, [Next]_vars, ~Requested
    PROVE  OrderLed'
<1> DEFINE A == ActiveSite
<1> USE DEF FailInv
<1> SUFFICES ASSUME "active-passive" \in Ordered'
             PROVE  db'[A] = "leader"
  BY DEF OrderLed
<1>f. "active-passive" \in Exclusive
  BY DEF Exclusive, Failover, Transitions
<1>1. CASE "active-passive" \in Ordered
  <2>1. db[A] = "leader" /\ "active-passive" \in Underway
    BY <1>1, <1>f DEF OrderLed, Ordered, Underway, Exclusive, InFlight, Demand
  <2>2. "gold-standby" \notin Underway
    BY <2>1 DEF OneUnderway
  <2> QED  BY <2>1, <2>2, ActiveMoves
<1>2. ASSUME NEW m \in ToPassive', m \notin ToPassive, m.event = "transition_to", m.state = "active-passive"
      PROVE  db'[A] = "leader"
  <2>1. PICK e \in StateEvents(A) : m.state = e.snap.transition /\ Promotes(A, e)
    BY <1>2, MailToPassive
  <2>2. Work(A, e.snap.transition) = "primary"
    BY <1>2, <2>1 DEF Work
  <2>3. Starting(A, e, "primary") /\ DeployPrimary(A)
    BY <2>1, <2>2 DEF Promotes
  <2>4. "active-passive" \in Underway
    BY <1>2, <1>f, <2>1, <2>3, AskedEvent, BothSites DEF Starting, Exclusive
  <2>5. Sound(A)
    BY <2>4 DEF ActiveWhole
  <2> QED  BY <2>3, <2>5, PromotedSound, BothSites
<1>3. "active-passive" \in Asked(PassiveSite)' => "active-passive" \in Ordered
  <2>1. ~\E s \in Sites : (\E t \in Transitions : OperatorAsks(s, t)) \/ DnsFailover(s)
    BY DEF Requested
  <2>2. "active-passive" # ""
    OBVIOUS
  <2>3. SUFFICES ASSUME "active-passive" \in Asked(PassiveSite)'
                 PROVE  "active-passive" \in Ordered
    OBVIOUS
  <2>4. \/ "active-passive" \in Asked(PassiveSite)
        \/ \E m \in ToPassive : m.event = "transition_to" /\ m.state = "active-passive"
    BY <2>1, <2>2, <2>3, AskedStep, BothSites, Zenon
  <2> QED  BY <2>4 DEF Ordered
<1> QED  BY <1>1, <1>2, <1>3 DEF Ordered

LEMMA ConsentLedStep ==
    ASSUME Attended, FailInv, [Next]_vars, ~Requested
    PROVE  ConsentLed'
<1> DEFINE P == PassiveSite
<1> USE DEF FailInv
<1> SUFFICES ASSUME NEW m \in ToActive', m.item.transition = "gold-standby"
             PROVE  db'[P] = "leader"
  BY DEF ConsentLed
<1>1. m.event = "yes_happy_to_proceed"
  BY Basics DEF Channels, Answer
<1>2. Demand(m) = "gold-standby"
  BY <1>1 DEF Demand
<1>3. "gold-standby" \in Underway
  <2>1. m \in ToActive => Demand(m) \in InFlight
    BY <1>2 DEF InFlight, Transitions
  <2> QED  BY <1>2, <2>1, MailToActive DEF Underway, Failover
<1>4. db[P] = "leader"
  <2>1. CASE m \in ToActive
    BY <2>1 DEF ConsentLed
  <2>2. CASE m \notin ToActive
    BY <1>3, <2>2, MailToActive DEF PassiveLeading, Failover
  <2> QED  BY <2>1, <2>2
<1>5. triggers[P] = {} /\ ~Fires(P) /\ "active-passive" \notin Underway
  BY <1>3 DEF Rebuilding, Fires, OneUnderway
<1> QED  BY <1>4, <1>5, PassiveMoves
-----------------------------------------------------------------------------
LEMMA FailInvInit == Init => FailInv
<1> SUFFICES ASSUME Init PROVE FailInv
  OBVIOUS
<1>1. /\ TypeOK /\ Channels /\ Latest /\ Handled /\ OrderLed /\ ConsentLed
      /\ NoneEmpty
  BY WipeInvInit DEF WipeInv
<1>2. PICK start \in Starts :
          LET last == IF start = "fresh" THEN "" ELSE "active-passive" IN
          /\ cm = [s \in Sites |-> [last |-> last, transition |-> ""]]
          /\ db = [s \in Sites |-> IF start = "serving" /\ s = PassiveSite
                                   THEN "standby" ELSE "leader"]
  BY DEF Init
<1>3. /\ \A s \in Sites : cm[s].last # Failover /\ db[s] \in {"leader", "standby"}
      /\ \A r, s \in Sites : cm[r] = cm[s]
  BY <1>2 DEF Failover
<1>t. \A s \in Sites : cm[s].transition = Nothing
  BY <1>2 DEF Nothing
<1>4. \A s \in Sites : /\ watch[s] = <<cm[s]>> /\ view[s] = None
                       /\ inbox[s] = <<>> /\ outbox[s] = <<>>
                       /\ patroni[s] = "unknown" /\ polled[s] = None /\ triggers[s] = {}
  BY DEF Init
<1>5. \A s \in Sites : Range(watch[s]) = {cm[s]} /\ watch[s] # <<>>
  <2> SUFFICES ASSUME NEW s \in Sites
               PROVE  Range(watch[s]) = {cm[s]} /\ watch[s] # <<>>
    OBVIOUS
  <2>1. cm[s] \in Snapshots /\ watch[s] = <<cm[s]>>
    BY <1>1, <1>4 DEF TypeOK
  <2> QED  BY <2>1, QueueOfOne
<1>6. ToPassive = {} /\ ToActive = {}
  BY <1>4, BothSites, QueueEmpty DEF ToPassive, ToActive
<1>7. InFlight = {} /\ Underway = {}
  <2>1. \A s \in Sites : \A t \in Asked(s) : t = Nothing
    BY <1>t, <1>5 DEF Asked
  <2> QED  BY <1>6, <2>1, BothSites, SnapshotParts DEF InFlight, Underway
<1>8. OneToken
  <2>1. Nothing \notin Exclusive
    BY SnapshotParts DEF Exclusive
  <2>2. \A s \in Sites : WatchLoad(s) = 0 /\ InboxLoad(s) = 0 /\ OutboxLoad(s) = 0
    <3> SUFFICES ASSUME NEW s \in Sites
                 PROVE  WatchLoad(s) = 0 /\ InboxLoad(s) = 0 /\ OutboxLoad(s) = 0
      OBVIOUS
    <3>1. Range(watch[s]) \cap ExclusiveSnapshots = {}
      BY <1>t, <1>5, <2>1 DEF ExclusiveSnapshots
    <3>2. Range(inbox[s]) = {} /\ Range(outbox[s]) = {}
      BY <1>4, QueueEmpty
    <3>3. watch[s] \in Seq(Snapshots) /\ inbox[s] \in Seq(Messages) /\ outbox[s] \in Seq(Messages)
      BY <1>1 DEF TypeOK
    <3> QED  BY <3>1, <3>2, <3>3, LoadParts DEF WatchLoad, InboxLoad, OutboxLoad
  <2> QED  BY <2>2, BothSites DEF OneToken, Tokens
<1>9. OneUnderway /\ Rebuilding /\ NotReported
  BY <1>4, <1>7, BothSites DEF OneUnderway, Rebuilding, NotReported
<1>10. Fresh /\ Adopting
  <2>1. Fresh
    BY <1>5 DEF Fresh
  <2>2. Adopting
    <3> SUFFICES ASSUME NEW s \in Sites, NEW snap \in Range(watch[s]), snap.last = Nothing
                 PROVE  \A r \in Sites : triggers[r] = {} /\ cm[r].last \in {Nothing, "independent"}
      BY <1>7 DEF Adopting
    <3>1. cm[s].last = Nothing
      BY <1>5
    <3> QED  BY <1>3, <1>4, <3>1
  <2> QED  BY <2>1, <2>2
<1>11. ActiveWhole /\ PassiveWhole
  <2>1. \A s \in Sites : Sound(s)
    <3>1. None # "leader"
      BY NoneDistinct DEF Appearances
    <3> QED  BY <1>3, <1>4, <3>1 DEF Sound
  <2> QED  BY <1>1, <1>7, <2>1, BothSites DEF ActiveWhole, PassiveWhole, NoneEmpty
<1>12. PassiveLeading
  BY <1>3, <1>7, BothSites DEF PassiveLeading
<1> QED  BY <1>1, <1>8, <1>9, <1>10, <1>11, <1>12 DEF FailInv

LEMMA FailInvStep ==
    ASSUME Attended, FailInv, [Next]_vars
    PROVE  FailInv'
<1>1. CASE \E s \in Sites, t \in Transitions : OperatorAsks(s, t)
  BY <1>1, OperatorInFailover
<1>2. CASE /\ \E s \in Sites : DnsFailover(s)
           /\ ~\E s \in Sites, t \in Transitions : OperatorAsks(s, t)
  BY <1>2, DnsInFailover
<1>3. CASE ~Requested
  <2>1. ~\E s \in Sites, t \in Transitions : OperatorAsks(s, t)
    BY <1>3 DEF Requested
  <2>2. OneToken'
    BY <2>1, TokenStep DEF FailInv
  <2>3. TypeOK' /\ Channels' /\ Latest' /\ Handled'
    BY Basics
  <2> QED  BY <1>3, <2>2, <2>3, LessUnderway, FreshInFailover, AdoptingInFailover, ActiveWholeStep,
              PassiveWholeStep, RebuildingStep, NotReportedStep, PassiveLeadingStep,
              OrderLedStep, ConsentLedStep DEF FailInv
<1> QED  BY <1>1, <1>2, <1>3 DEF Requested

\* A site is wiped only while the other one leads with the data, also where
\* automation may take the traffic to the passive site at any moment: during a
\* transition, beside a request on its way, or while that site is being rebuilt.
THEOREM WipesSafeInFailover ==
    ASSUME Attended
    PROVE  Spec => WipeOnlyBesideLeader
<1>1. FailInv /\ [Next]_vars =>
        [\A s \in Sites : db[s] # "rebuilding" /\ db'[s] = "rebuilding"
                          => db[Other(s)] = "leader"]_vars
  <2> SUFFICES ASSUME FailInv, [Next]_vars, NEW s \in Sites,
                      db[s] # "rebuilding", db'[s] = "rebuilding"
               PROVE  db[Other(s)] = "leader"
    OBVIOUS
  <2>1. CASE s = ActiveSite
    BY <2>1, ActiveMoves, BothSites
  <2>2. CASE s = PassiveSite
    BY <2>2, PassiveMoves, BothSites DEF Fires, Promoted
  <2> QED  BY <2>1, <2>2, BothSites
<1>2. FailInv /\ [Next]_vars => FailInv'
  BY FailInvStep
<1> QED  BY <1>1, <1>2, FailInvInit, PTL DEF Spec, WipeOnlyBesideLeader

\* No failover, and no rebuild that is overtaken by one, leaves the two sites
\* without a leader that has the data.
THEOREM DataServedInFailover ==
    ASSUME Attended
    PROVE  Spec => []OneLeads
<1>1. Init => OneLeads
  BY SiteNames DEF Init, OneLeads
<1>2. FailInv /\ OneLeads /\ [Next]_vars => OneLeads'
  <2> SUFFICES ASSUME FailInv, OneLeads, [Next]_vars
               PROVE  \E r \in Sites : db'[r] = "leader"
    BY DEF OneLeads
  <2>1. PICK s \in Sites : db[s] = "leader"
    BY DEF OneLeads
  <2>2. ~("gold-standby" \in Underway /\ "active-passive" \in Underway)
    BY DEF FailInv, OneUnderway
  <2>3. Promoted("leader") = "leader"
    BY DEF Promoted
  <2>4. db'[ActiveSite] = "rebuilding" /\ db[ActiveSite] = "leader" => db'[PassiveSite] = "leader"
    BY <2>2, <2>3, ActiveMoves, PassiveMoves DEF Fires
  <2>5. db'[PassiveSite] = "rebuilding" /\ db[PassiveSite] = "leader" => db'[ActiveSite] = "leader"
    BY <2>2, <2>3, ActiveMoves, PassiveMoves DEF Fires
  <2>6. \A r \in Sites : db[r] = "leader" => db'[r] \in {"leader", "rebuilding"}
    BY <2>3, ActiveMoves, PassiveMoves, BothSites DEF Fires
  <2> QED  BY <2>1, <2>4, <2>5, <2>6, BothSites
<1>3. FailInv /\ [Next]_vars => FailInv'
  BY FailInvStep
<1> QED  BY <1>1, <1>2, <1>3, FailInvInit, PTL DEF Spec

-----------------------------------------------------------------------------
(* A consent beside a failover *)

\* The question whether the passive site is still the primary one: at the active
\* site, on its way, or answered.
Questions == {m \in ToPassive \cup ToActive :
                 m.event # "transition_to" /\ m.item.transition = "gold-standby"}
Questioned == \/ Questions # {}
              \/ \E snap \in Range(watch[ActiveSite]) :
                    snap.transition = "gold-standby" /\ snap.last = Failover
Confirmed == [last |-> Failover, transition |-> ""]

\* Until the answer is used the active site stays as it is, ...
AskerStays == Questioned =>
    /\ cm[ActiveSite].last = Failover /\ triggers[ActiveSite] = {}
    /\ \A snap \in Range(watch[ActiveSite]) : snap.last = Failover
    /\ Failover \notin Asked(ActiveSite)
    /\ \A m \in Questions : m.item.last = Failover
    /\ \A m \in ToPassive : m.event # "transition_to"

\* ... nothing but a failover happens to the passive one, ...
FailsOverOnly ==
    \/ cm[PassiveSite].last = "active-passive" /\ cm[PassiveSite].transition = Failover
    \/ cm[PassiveSite] = Confirmed
AskedStays == Questioned =>
    \/ watch[PassiveSite] = <<>>
    \/ watch[PassiveSite] = <<cm[PassiveSite]>> /\ view[PassiveSite] # Confirmed /\ FailsOverOnly

\* ... and so what it has confirmed is still true.
AnswerHolds == (\E m \in Questions : m \in ToActive) => view[PassiveSite] = Confirmed

ConsentInv == AskerStays /\ AskedStays /\ AnswerHolds

LEMMA ConfirmedParts ==
    /\ Confirmed \in Snapshots /\ Confirmed.last = Failover /\ Confirmed.transition = Nothing
    /\ Failover \in Transitions /\ Failover \notin {Nothing, "gold-standby", "active-passive"}
    /\ \A x \in Snapshots : x.last = Failover /\ x.transition = Nothing => x = Confirmed
<1>1. Failover \in StableStates \cap Transitions /\ Failover \notin {"gold-standby", "active-passive"}
  BY DEF Failover, StableStates, Transitions
<1>2. Confirmed \in Snapshots
  BY <1>1, SettledSnapshot DEF Confirmed
<1>3. Confirmed.last = Failover /\ Confirmed.transition = Nothing
  BY SettledParts DEF Confirmed
<1>4. ASSUME NEW x \in Snapshots, x.last = Failover, x.transition = Nothing
      PROVE  x = Confirmed
  BY <1>4 DEF Snapshots, Confirmed, Nothing
<1> HIDE DEF Confirmed
<1> QED  BY <1>1, <1>2, <1>3, <1>4, SnapshotParts

\* Two elements of a queue count as two.
LEMMA LoadOfTwo ==
    ASSUME NEW S, NEW T, NEW q \in Seq(T), NEW x \in Range(q) \cap S
    PROVE  /\ Load(q, S) >= 1
           /\ \A y \in Range(q) \cap S : x # y => Load(q, S) = 2
<1>1. PICK i \in 1 .. Len(q) : x = q[i]
  BY RangeEquality
<1>2. Load(q, S) >= 1
  BY <1>1 DEF Load
<1>3. ASSUME NEW y \in Range(q) \cap S, x # y
      PROVE  Load(q, S) = 2
  <2>1. PICK j \in 1 .. Len(q) : y = q[j]
    BY RangeEquality
  <2> QED  BY <1>1, <1>3, <2>1 DEF Load
<1> QED  BY <1>2, <1>3

\* An order is the only token, so nothing is asked meanwhile.
OrderOut == \E m \in ToPassive : m.event = "transition_to" /\ Demand(m) \in Exclusive

LEMMA OrderAlone == TypeOK /\ OneToken /\ OrderOut => ~Questioned
<1> SUFFICES ASSUME TypeOK, OneToken, Questioned,
                    NEW m \in ToPassive, m.event = "transition_to", Demand(m) \in Exclusive
             PROVE  FALSE
  BY DEF OrderOut
<1> DEFINE A == ActiveSite
           P == PassiveSite
<1>t. /\ watch[A] \in Seq(Snapshots) /\ inbox[A] \in Seq(Messages) /\ outbox[A] \in Seq(Messages)
      /\ inbox[P] \in Seq(Messages) /\ outbox[P] \in Seq(Messages)
  BY BothSites DEF TypeOK
<1>r. /\ Range(watch[A]) \subseteq Snapshots /\ Range(inbox[A]) \subseteq Messages
      /\ Range(outbox[A]) \subseteq Messages /\ Range(inbox[P]) \subseteq Messages
      /\ Range(outbox[P]) \subseteq Messages
  <2>1. ASSUME NEW S, NEW q \in Seq(S)
        PROVE  Range(q) \subseteq S
    BY <2>1, ElementOfSeq, RangeEquality
  <2> QED  BY <1>t, <2>1
<1>g. "gold-standby" \in Exclusive
  BY DEF Exclusive, Failover, Transitions
<1>l. /\ WatchLoad(A) \in 0 .. 2 /\ InboxLoad(A) \in 0 .. 2 /\ OutboxLoad(A) \in 0 .. 2
      /\ WatchLoad(P) \in 0 .. 2 /\ InboxLoad(P) \in 0 .. 2 /\ OutboxLoad(P) \in 0 .. 2
      /\ WatchLoad(A) + InboxLoad(A) + OutboxLoad(A) + WatchLoad(P) + InboxLoad(P) + OutboxLoad(P) <= 1
  BY LoadTypes, BothSites DEF OneToken, Tokens
<1>m. m \in ExclusiveMessages
  BY <1>r DEF ToPassive, ExclusiveMessages
<1>1. /\ m \in Range(outbox[A]) => OutboxLoad(A) >= 1
      /\ m \in Range(inbox[P]) => InboxLoad(P) >= 1
  BY <1>t, <1>m, LoadOfTwo DEF OutboxLoad, InboxLoad
<1>2. CASE \E snap \in Range(watch[A]) : snap.transition = "gold-standby"
  <2>1. PICK snap \in Range(watch[A]) : snap \in ExclusiveSnapshots
    BY <1>r, <1>g, <1>2 DEF ExclusiveSnapshots
  <2>2. WatchLoad(A) >= 1
    BY <1>t, <2>1, LoadOfTwo DEF WatchLoad
  <2> QED  BY <1>l, <1>1, <2>2 DEF ToPassive
<1>3. ASSUME NEW q \in Questions
      PROVE  FALSE
  <2>1. q \in ExclusiveMessages /\ q # m
    BY <1>r, <1>g, <1>3 DEF Questions, ToPassive, ToActive, ExclusiveMessages, Demand
  <2>2. /\ q \in Range(outbox[A]) => OutboxLoad(A) >= 1
        /\ q \in Range(inbox[P]) => InboxLoad(P) >= 1
        /\ q \in Range(outbox[P]) => OutboxLoad(P) >= 1
        /\ q \in Range(inbox[A]) => InboxLoad(A) >= 1
    BY <1>t, <2>1, LoadOfTwo DEF OutboxLoad, InboxLoad
  <2>3. /\ q \in Range(outbox[A]) /\ m \in Range(outbox[A]) => OutboxLoad(A) = 2
        /\ q \in Range(inbox[P]) /\ m \in Range(inbox[P]) => InboxLoad(P) = 2
    BY <1>t, <1>m, <2>1, LoadOfTwo DEF OutboxLoad, InboxLoad
  <2> QED  BY <1>l, <1>1, <2>2, <2>3 DEF Questions, ToPassive, ToActive
<1> QED  BY <1>2, <1>3 DEF Questioned


LEMMA QuestionedUnderway == FailInv /\ Questioned => "gold-standby" \in Underway
<1> SUFFICES ASSUME FailInv, Questioned PROVE "gold-standby" \in InFlight
  BY DEF Underway, Failover
<1>1. "gold-standby" \in Transitions
  BY DEF Transitions
<1>2. ASSUME NEW m \in Questions
      PROVE  m \in ToPassive \cup ToActive /\ Demand(m) = "gold-standby"
  BY <1>2 DEF Questions, Demand
<1> QED  BY <1>1, <1>2 DEF Questioned, InFlight, Asked

\* Nothing is asked that the active site was not asked for.
LEMMA QuestionKept ==
    ASSUME Attended, FailInv, [Next]_vars, ~Requested
    PROVE  /\ \A m \in Questions' :
                 \/ \E q \in Questions : q.item = m.item
                 \/ /\ m.item \in Range(watch[ActiveSite]) /\ m.item.last = Failover
                    /\ m.item.transition = "gold-standby"
           /\ Questioned' => Questioned
<1> DEFINE A == ActiveSite
<1> USE DEF FailInv
<1>1. ASSUME NEW m \in Questions'
      PROVE  \/ \E q \in Questions : q.item = m.item
             \/ /\ m.item \in Range(watch[A]) /\ m.item.last = Failover
                /\ m.item.transition = "gold-standby"
  <2>0. /\ m \in ToPassive' \cup ToActive' /\ m.event # "transition_to"
        /\ m.item.transition = "gold-standby"
    BY <1>1 DEF Questions
  <2>1. CASE m \in ToPassive \cup ToActive
    BY <2>0, <2>1 DEF Questions
  <2>2. CASE m \in ToPassive' /\ m \notin ToPassive
    <3>1. PICK e \in StateEvents(A) : AskConsent(A, e) /\ m.item = e.snap
      BY <2>0, <2>2, MailToPassive
    <3>2. ~Aborts(A, e) /\ MustConfirm(A, e)
      BY <3>1 DEF AskConsent
    <3>3. e.snap.last = Failover
      BY <2>0, <3>1, <3>2 DEF Aborts, Refused, Failover
    <3>4. e.snap \in Range(watch[A])
      BY <3>2, EventSource, BothSites DEF MustConfirm
    <3> QED  BY <2>0, <3>1, <3>3, <3>4
  <2>3. CASE m \in ToActive' /\ m \notin ToActive
    <3>1. PICK q \in ToPassive : q.event # "transition_to" /\ q.item = m.item
      BY <2>3, MailToActive
    <3> QED  BY <2>0, <3>1 DEF Questions
  <2> QED  BY <2>0, <2>1, <2>2, <2>3
<1>2. ASSUME NEW snap \in Range(watch'[A]), snap.transition = "gold-standby", snap.last = Failover
      PROVE  snap \in Range(watch[A])
  <2>g. "gold-standby" # Nothing /\ "gold-standby" \in Transitions
    BY SnapshotParts DEF Transitions
  <2>1. ASSUME NEW e \in StateEvents(A), Writes(A, e)
        PROVE  cm'[A].transition # "gold-standby"
    <3>1. cm'[A].transition = Nothing \/ (cm'[A].transition = cm[A].transition /\ e.snap.last = Nothing)
      BY <2>1, Zenon DEF Writes, Nothing
    <3> QED  BY <2>g, <3>1, AdoptedAsks, BothSites
  <2>2. ASSUME NEW e \in StateEvents(A), Writes(A, e) \/ WritesNothing(A, e), snap \notin Range(watch[A])
        PROVE  FALSE
    <3>1. Range(e.watch) \subseteq Range(watch[A])
      BY EventTypes, BothSites
    <3>2. Range(watch'[A]) \subseteq Range(e.watch) \/ (Writes(A, e) /\ snap = cm'[A])
      BY <2>2, <3>1, Zenon DEF Writes, WritesNothing
    <3> QED  BY <1>2, <2>1, <2>2, <3>1, <3>2
  <2>3. ASSUME watch'[A] = Append(watch[A], cm'[A]), Firing(A)
        PROVE  snap \in Range(watch[A])
    <3>1. cm'[A] \in Snapshots /\ watch[A] \in Seq(Snapshots)
      BY Basics, BothSites DEF TypeOK
    <3>2. Range(watch'[A]) = Range(watch[A]) \cup {cm'[A]}
      BY <2>3, <3>1, QueueAppended
    <3> QED  BY <1>2, <2>3, <2>g, <3>2 DEF Firing
  <2>4. ~Ordering(A) /\ ~Restart(A)
    BY Calm, BothSites DEF Ordering, Restart
  <2> QED  BY <2>2, <2>3, <2>4, WatchStep, BothSites DEF Requested
<1> QED  BY <1>1, <1>2 DEF Questioned

\* A handler of the active site starts nothing while the question is open.
LEMMA AskerHandles ==
    ASSUME Attended, FailInv, ConsentInv, [Next]_vars, ~Requested, Questioned'
    PROVE  /\ Questioned
           /\ \A m \in ToPassive' : m.event # "transition_to"
           /\ \A e \in StateEvents(ActiveSite) : HandleEvent(ActiveSite, e) =>
                \A work \in {"primary", "detach", "standby", "down", "note"} :
                   ~Starting(ActiveSite, e, work)
<1> DEFINE A == ActiveSite
<1> USE DEF FailInv, ConsentInv
<1>1. Questioned /\ "gold-standby" \in Underway
  BY QuestionKept, QuestionedUnderway
<1>2. ASSUME NEW e \in StateEvents(A), Asks(e)
      PROVE  e.snap.transition = "gold-standby"
  <2>1. e.snap.transition # Failover
    <3>1. CASE e.peer_ok
      BY <3>1, EventSource, BothSites DEF Consentable, NeedsConsent, Failover
    <3>2. CASE ~e.peer_ok
      BY <1>1, <3>2, EventSource, BothSites DEF AskerStays, Asked
    <3> QED  BY <3>1, <3>2
  <2> QED  BY <1>1, <1>2, <2>1, AskedEvent, BothSites DEF OneUnderway
<1>3. ASSUME NEW m \in ToPassive', m.event = "transition_to", m.state = "gold-standby"
      PROVE  FALSE
  <2>1. Demand(m) \in Exclusive
    BY <1>3 DEF Demand, Exclusive, Failover, Transitions
  <2>2. TypeOK' /\ OneToken'
    <3>1. ~\E s \in Sites, t \in Transitions : OperatorAsks(s, t)
      BY DEF Requested
    <3> QED  BY <3>1, Basics, TokenStep
  <2>3. (TypeOK /\ OneToken /\ OrderOut => ~Questioned)'
    BY OrderAlone, PTL
  <2> QED  BY <1>3, <2>1, <2>2, <2>3 DEF Demand, OrderOut
<1>4. ASSUME NEW m \in ToPassive', m.event = "transition_to"
      PROVE  FALSE
  <2>1. m \notin ToPassive
    BY <1>1, <1>4 DEF AskerStays
  <2>2. PICK e \in StateEvents(A) : m.state = e.snap.transition /\ \E work : Starting(A, e, work)
    BY <1>4, <2>1, MailToPassive
  <2>3. m.state = "gold-standby"
    BY <1>2, <2>2 DEF Starting
  <2> QED  BY <1>3, <1>4, <2>3
<1>5. ASSUME NEW e \in StateEvents(A), HandleEvent(A, e), NEW work, Starting(A, e, work),
             work \in {"primary", "detach", "standby", "down", "note"}
      PROVE  FALSE
  <2>1. \A w : Starting(A, e, w) => w = "standby" /\ e.snap.transition = "gold-standby"
    BY <1>2 DEF Starting, Work
  <2>2. Reacts(A, e) /\ ForwardsOrder(A, e.snap.transition)
    <3>1. Reacts(A, e)
      BY <1>5, <2>1, HandlerOutcome, Calm, BothSites DEF Commits, Unanswered
    <3> QED  BY <1>5, <2>1, <3>1 DEF Reacts
  <2> DEFINE m == [event |-> "transition_to", state |-> "gold-standby"]
  <2>3. m \in Messages /\ m.event = "transition_to" /\ m.state = "gold-standby"
    BY DEF Messages, Transitions
  <2>4. Forward(A, m)
    BY <1>5, <2>1, <2>2 DEF ForwardsOrder
  <2> HIDE DEF m
  <2>5. TypeOK /\ A \in Sites /\ m \in Messages
    BY <2>3, BothSites
  <2>6. Range(outbox'[A]) = Range(outbox[A]) \cup {m}
    BY <2>4, <2>5, ForwardEffect
  <2> QED  BY <1>4, <2>3, <2>6 DEF ToPassive
<1> QED  BY <1>1, <1>4, <1>5


LEMMA AskerStaysStep ==
    ASSUME Attended, FailInv, ConsentInv, [Next]_vars, ~Requested
    PROVE  AskerStays'
<1> DEFINE A == ActiveSite
<1> USE DEF FailInv, ConsentInv
<1> SUFFICES ASSUME Questioned'
             PROVE  /\ cm'[A].last = Failover /\ triggers'[A] = {}
                    /\ \A snap \in Range(watch'[A]) : snap.last = Failover
                    /\ Failover \notin Asked(A)'
                    /\ \A m \in Questions' : m.item.last = Failover
                    /\ \A m \in ToPassive' : m.event # "transition_to"
  BY DEF AskerStays
<1>1. /\ Questioned /\ "gold-standby" \in Underway
      /\ \A m \in ToPassive' : m.event # "transition_to"
  BY AskerHandles, QuestionedUnderway
<1>2. /\ cm[A].last = Failover /\ triggers[A] = {}
      /\ \A snap \in Range(watch[A]) : snap.last = Failover
      /\ Failover \notin Asked(A)
      /\ \A m \in Questions : m.item.last = Failover
  BY <1>1 DEF AskerStays
<1>3. ASSUME NEW m \in Questions'
      PROVE  m.item.last = Failover
  BY <1>2, <1>3, QuestionKept
<1>4. Failover \notin Asked(A)'
  <2> SUFFICES ASSUME Failover \in Asked(A)'
               PROVE  FALSE
    OBVIOUS
  <2>1. Failover # ""
    BY DEF Failover
  <2>2. ~\E s \in Sites : (\E t \in Transitions : OperatorAsks(s, t)) \/ DnsFailover(s)
    BY DEF Requested
  <2>3. Failover \in Asked(A) \/ A = PassiveSite
    BY <2>1, <2>2, AskedStep, BothSites, Zenon
  <2> QED  BY <1>2, <2>3, BothSites
<1>5. cm'[A].last = Failover /\ triggers'[A] = {}
  <2>1. ASSUME NEW e \in StateEvents(A), HandleEvent(A, e)
        PROVE  cm'[A].last = Failover /\ triggers'[A] = {}
    <3>1. e.snap.last # Nothing
      BY <1>1, AdoptedAsks, BothSites DEF Underway
    <3>2. Asks(e) => e.snap.last = Failover
      <4> SUFFICES ASSUME Asks(e)
                   PROVE  e.snap.last = Failover
        OBVIOUS
      <4>1. CASE ~e.peer_ok
        BY <1>2, <4>1, EventSource, BothSites
      <4>2. CASE e.peer_ok
        <5>1. PICK m \in ToActive : m.item = e.snap
          BY <4>2, EventSource, BothSites
        <5>2. e.snap.transition \in NeedsConsent
          BY <4>2, EventSource, BothSites DEF Consentable
        <5>3. e.snap.transition = "gold-standby"
          BY <1>1, <5>2, AskedEvent, BothSites DEF NeedsConsent, Failover, OneUnderway
        <5>4. m \in Questions
          BY <5>1, <5>3 DEF Questions, Channels, Answer
        <5> QED  BY <1>2, <5>1, <5>4
      <4> QED  BY <4>1, <4>2
    <3>3. \A work \in {"primary", "detach", "standby", "down", "note"} : ~Starting(A, e, work)
      BY <2>1, AskerHandles
    <3>4. Reacts(A, e)
      BY <2>1, <3>3, HandlerOutcome, Calm, BothSites DEF Commits, Unanswered
    <3>5. Untouched /\ (cm'[A].last = cm[A].last \/ (cm'[A].last = e.snap.last /\ Asks(e)))
      BY <3>1, <3>3, <3>4 DEF Reacts
    <3> QED  BY <1>2, <3>2, <3>5 DEF Untouched
  <2> QED  BY <1>2, <2>1, SiteStep, Calm, BothSites DEF Fires, Keeps
<1>6. ASSUME NEW snap \in Range(watch'[A])
      PROVE  snap.last = Failover
  BY <1>2, <1>5, WatchMoves, BothSites
<1> QED  BY <1>1, <1>3, <1>4, <1>5, <1>6


\* The handler of a watch with one snapshot.
LEMMA OneEvent ==
    ASSUME TypeOK, Channels, NEW e \in StateEvents(PassiveSite),
           watch[PassiveSite] = <<cm[PassiveSite]>>
    PROVE  e.snap = cm[PassiveSite] /\ e.watch = <<>>
<1>1. ~e.peer_ok
  BY EventSource, BothSites
<1>2. e.snap = Head(watch[PassiveSite]) /\ e.watch = Tail(watch[PassiveSite])
  BY <1>1 DEF StateEvents, NextSnapshot, NextConsent
<1> DEFINE x == cm[PassiveSite]
<1>3. x \in Snapshots
  BY BothSites DEF TypeOK
<1> HIDE DEF x
<1>4. Head(<<x>>) = x /\ Tail(<<x>>) = <<>>
  BY <1>3
<1> QED  BY <1>2, <1>4 DEF x

LEMMA ViewStep ==
    ASSUME Attended, [Next]_vars, NEW s \in Sites, TypeOK
    PROVE  \/ view'[s] = view[s]
           \/ \E e \in StateEvents(s) : Consume(s, e) /\ HandleEvent(s, e)
<1>1. ASSUME NEW r \in Sites, HandleState(r)
      PROVE  \/ view'[s] = view[s]
             \/ \E e \in StateEvents(s) : Consume(s, e) /\ HandleEvent(s, e)
  <2>1. PICK e \in StateEvents(r) : Consume(r, e) /\ HandleEvent(r, e)
    BY <1>1, Handling
  <2>2. r # s => view'[s] = view[s]
    BY <2>1 DEF Consume, Set
  <2> QED  BY <2>1, <2>2
<1>2. ASSUME NEW r \in Sites,
             TakeOrder(r) \/ Confirm(r) \/ Poll(r) \/ HearPatroni(r) \/ Rebuilt(r)
             \/ Deliver(r) \/ Drop(r) \/ PeerChanges(r)
             \/ (\E t \in Transitions : OperatorAsks(r, t)) \/ DnsFailover(r)
      PROVE  view' = view
  BY <1>2 DEF TakeOrder, Confirm, Poll, HearPatroni, Rebuilt, Deliver, Drop, PeerChanges,
              OperatorAsks, DnsFailover
<1>3. \A r \in Sites : ~Restart(r)
  BY Calm DEF Restart
<1> QED  BY <1>1, <1>2, <1>3 DEF Next, vars

\* While the question is open, the passive site's handler does a failover at most.
LEMMA AskedHandles ==
    ASSUME Attended, FailInv, NEW e \in StateEvents(PassiveSite),
           Consume(PassiveSite, e), HandleEvent(PassiveSite, e),
           watch[PassiveSite] = <<cm[PassiveSite]>>, FailsOverOnly
    PROVE  \/ watch'[PassiveSite] = <<>>
           \/ /\ watch'[PassiveSite] = <<cm'[PassiveSite]>>
              /\ view'[PassiveSite] # Confirmed /\ cm'[PassiveSite] = Confirmed
<1> DEFINE P == PassiveSite
<1> USE DEF FailInv
<1>1. /\ e.snap = cm[P] /\ e.watch = <<>> /\ cm[P] \in Snapshots
      /\ view'[P] = cm[P] /\ watch' \in [Sites -> Seq(Snapshots)] /\ cm'[P] \in Snapshots
  BY OneEvent, Recording, BothSites DEF Consume, Set, TypeOK
<1>2. WritesNothing(P, e) => watch'[P] = <<>>
  BY <1>1 DEF WritesNothing
<1>3. ASSUME Writes(P, e)
      PROVE  watch'[P] = <<cm'[P]>> /\ cm'[P].transition = Nothing
  <2>1. e.snap.last # Nothing
    BY <1>1, ConfirmedParts, SnapshotParts DEF FailsOverOnly, Transitions
  <2>2. cm'[P].transition = Nothing
    BY <1>3, <2>1, Zenon DEF Writes, Nothing
  <2>3. watch'[P] = Append(<<>>, cm'[P])
    BY <1>1, <1>3, Zenon DEF Writes
  <2> QED  BY <2>2, <2>3
<1>4. CASE cm[P] = Confirmed
  <2>1. e.snap.last # Nothing /\ e.snap.transition = Nothing
    BY <1>1, <1>4, ConfirmedParts
  <2>2. ~Asks(e)
    BY <2>1, Zenon DEF Asks, Nothing
  <2>3. NothingToDo(P, e)
    BY <2>1, <2>2, Zenon DEF HandleEvent, AdoptFresh, Abort, AskConsent, BecomePrimary, BecomeStandby,
                             TakeDown, NoteState, TransitionRaises, Starting, Nothing
  <2>4. watch' = Set(watch, P, e.watch)
    BY <2>1, <2>3, Zenon DEF NothingToDo, Nothing
  <2> QED  BY <1>1, <2>4, BothSites DEF Set, TypeOK
<1>5. CASE cm[P].last = "active-passive" /\ cm[P].transition = Failover
  <2>1. Work(P, Failover) = "primary" /\ Reached(Failover) = Failover
    BY BothSites DEF Work, Reached, Failover
  <2>2. ~Aborts(P, e) /\ ~MustConfirm(P, e) /\ Asks(e)
    BY <1>1, <1>5, BothSites DEF Aborts, MustConfirm, Asks, Failover, NeedsPeer, Refused
  <2>3. \A work : Starting(P, e, work) <=> work = "primary"
    BY <1>1, <1>5, <2>1, <2>2 DEF Starting
  <2>4. cm'[P].last = Failover \/ cm'[P] = cm[P]
    BY <1>1, <1>5, <2>1, <2>3, HandlerOutcome, Calm, BothSites DEF Reacts, Commits, Unanswered
  <2>5. Writes(P, e) => cm'[P] = Confirmed
    BY <1>1, <1>3, <1>5, <2>4, ConfirmedParts
  <2>6. cm[P] # Confirmed
    BY <1>5, ConfirmedParts
  <2> QED  BY <1>1, <1>2, <1>3, <2>5, <2>6, Recording, BothSites
<1> QED  BY <1>4, <1>5 DEF FailsOverOnly

LEMMA AskedStaysStep ==
    ASSUME Attended, FailInv, ConsentInv, [Next]_vars, ~Requested
    PROVE  AskedStays' /\ AnswerHolds'
<1> DEFINE P == PassiveSite
<1> USE DEF FailInv, ConsentInv
<1>q. Questioned' => /\ Questioned /\ "gold-standby" \in Underway
                     /\ \A m \in ToPassive : m.event # "transition_to"
  BY AskerHandles, QuestionedUnderway DEF AskerStays
<1>o. Questioned' => ~Ordering(P) /\ ~Firing(P) /\ ~Restart(P)
  <2>1. Ordering(P) => \E m \in ToPassive : m.event = "transition_to"
    BY BothSites, QueueTaken DEF Ordering, TakeOrder, FromPeer, ToPassive, TypeOK
  <2> QED  BY <1>q, <2>1, Calm DEF Firing, Rebuilding, Restart
<1>h. ASSUME NEW e \in StateEvents(P)
      PROVE  watch[P] # <<>>
  BY EventSource, QueueEmpty, BothSites
<1>1. ASSUME Questioned'
      PROVE  \/ watch'[P] = <<>>
             \/ watch'[P] = <<cm'[P]>> /\ view'[P] # Confirmed /\ FailsOverOnly'
  <2>1. \/ watch[P] = <<>>
        \/ watch[P] = <<cm[P]>> /\ view[P] # Confirmed /\ FailsOverOnly
    BY <1>1, <1>q DEF AskedStays
  <2>2. ASSUME NEW e \in StateEvents(P), Consume(P, e), HandleEvent(P, e)
        PROVE  watch'[P] = <<>> \/ (watch'[P] = <<cm'[P]>> /\ view'[P] # Confirmed /\ FailsOverOnly')
    BY <2>1, <2>2, <1>h, AskedHandles DEF FailsOverOnly
  <2>3. CASE cm'[P] = cm[P] /\ watch'[P] = watch[P] /\ view'[P] = view[P]
    BY <2>1, <2>3 DEF FailsOverOnly
  <2>4. \/ cm'[P] = cm[P] /\ watch'[P] = watch[P]
        \/ \E e \in StateEvents(P) : Consume(P, e) /\ HandleEvent(P, e)
    BY <1>1, <1>o, WatchStep, BothSites DEF Requested
  <2> QED  BY <2>2, <2>3, <2>4, ViewStep, BothSites
<1>2. ASSUME NEW m \in Questions', m \in ToActive'
      PROVE  view'[P] = Confirmed
  <2>0. Questioned' /\ m.item.transition = "gold-standby"
    BY <1>2 DEF Questioned, Questions
  <2>1. CASE m \in ToActive
    <3>1. m \in Questions
      BY <1>2, <2>1 DEF Questions
    <3>2. view[P] = Confirmed
      BY <2>1, <3>1 DEF AnswerHolds
    <3>3. watch[P] = <<>>
      BY <1>q, <2>0, <3>2 DEF AskedStays
    <3> QED  BY <1>h, <3>2, <3>3, ViewStep, BothSites
  <2>2. CASE m \notin ToActive
    <3>1. Confirm(P) /\ Happy(P, RequiredState("gold-standby"))
      BY <1>2, <2>0, <2>2, MailToActive
    <3>2. RequiredState("gold-standby") = Failover
      BY DEF RequiredState, Failover
    <3> QED  BY <3>1, <3>2 DEF Confirm, Happy, Confirmed
  <2> QED  BY <2>1, <2>2
<1> QED  BY <1>1, <1>2 DEF AskedStays, AnswerHolds


LEMMA OperatorInConsent ==
    ASSUME Attended, FailInv, [Next]_vars, NEW s \in Sites, NEW t \in Transitions, OperatorAsks(s, t)
    PROVE  ConsentInv'
<1> DEFINE A == ActiveSite
           P == PassiveSite
<1> USE DEF FailInv
<1>1. /\ ToPassive' = {} /\ ToActive' = {} /\ triggers' = triggers
      /\ \A r \in Sites : watch[r] = <<>> /\ triggers[r] = {}
  BY QuietDemand, Calm DEF Attended, Settling, Quiet
<1> DEFINE data == [cm[s] EXCEPT !.transition = t]
<1>2. /\ data \in Snapshots /\ data.transition = t
      /\ watch[s] \in Seq(Snapshots) /\ Patch(s, watch[s], data, FALSE)
  BY RequestWritten DEF TypeOK, OperatorAsks
<1> HIDE DEF data
<1>3. Patched(s, watch[s], data)
  BY <1>2, PatchEffect
<1>4. \A r \in Sites : /\ r # s => watch'[r] = <<>>
                       /\ \A snap \in Range(watch'[r]) : r = s /\ snap = data /\ snap = cm'[r]
  BY <1>1, <1>3, QueueEmpty DEF Patched
<1>5. Questions' = {}
  BY <1>1 DEF Questions
<1> SUFFICES ASSUME Questioned'
             PROVE  AskerStays' /\ AskedStays'
  BY <1>5 DEF ConsentInv, AskerStays, AskedStays, AnswerHolds
<1>6. PICK snap \in Range(watch'[A]) : snap.transition = "gold-standby" /\ snap.last = Failover
  BY <1>5 DEF Questioned
<1>7. /\ s = A /\ data = snap /\ cm'[A] = snap /\ \A x \in Range(watch'[A]) : x = snap
  BY <1>4, <1>6, BothSites
<1>8. watch'[P] = <<>>
  BY <1>4, <1>7, BothSites
<1>9. Failover \notin Asked(A)'
  BY <1>6, <1>7, Calm DEF Asked, Failover
<1> QED  BY <1>1, <1>5, <1>6, <1>7, <1>8, <1>9, BothSites DEF AskerStays, AskedStays

LEMMA DnsInConsent ==
    ASSUME Attended, FailInv, ConsentInv, [Next]_vars, NEW s \in Sites, DnsFailover(s)
    PROVE  ConsentInv'
<1> DEFINE A == ActiveSite
           P == PassiveSite
           data == [cm[s] EXCEPT !.transition = Failover]
<1> USE DEF FailInv, ConsentInv
<1>1. /\ data \in Snapshots /\ data.last = "active-passive" /\ data.transition = Failover
      /\ watch[s] \in Seq(Snapshots) /\ cm[s] \in Snapshots
      /\ Patch(s, watch[s], data, FALSE) /\ cm[s].last = "active-passive"
  <2>1. Failover \in Transitions /\ cm[s] \in Snapshots /\ watch[s] \in Seq(Snapshots)
    BY DEF Failover, Transitions, TypeOK
  <2>2. cm[s].last = "active-passive" /\ Patch(s, watch[s], data, FALSE)
    BY DEF DnsFailover, FailsOver, Failover
  <2> QED  BY <2>1, <2>2, RequestWritten
<1>e. cm[s].transition = Failover => data = cm[s]
  BY <1>1 DEF Snapshots
<1> HIDE DEF data
<1>p. Patched(s, watch[s], data)
  BY <1>1, PatchEffect
<1>u. UNCHANGED <<view, inbox, outbox, triggers>>
  BY DEF DnsFailover, databases
<1>2. /\ ToPassive' = ToPassive /\ ToActive' = ToActive /\ Questions' = Questions
      /\ AnswerHolds'
  BY <1>u DEF ToPassive, ToActive, Questions, AnswerHolds
<1>3. CASE s = A
  <2>1. ~Questioned
    BY <1>1, <1>3, ConfirmedParts DEF AskerStays
  <2>2. \A snap \in Range(watch'[A]) : snap \in Range(watch[A]) \/ snap = data
    BY <1>3, <1>p DEF Patched
  <2>3. Failover # "gold-standby"
    BY DEF Failover
  <2>4. ~Questioned'
    BY <1>1, <1>2, <2>1, <2>2, <2>3 DEF Questioned
  <2> QED  BY <1>2, <2>4 DEF AskerStays, AskedStays
<1>4. CASE s = P
  <2>1. cm'[A] = cm[A] /\ watch'[A] = watch[A]
    BY <1>4, <1>p, BothSites DEF Patched
  <2>2. Questioned' = Questioned /\ AskerStays'
    BY <1>2, <1>u, <2>1 DEF Questioned, Asked, AskerStays
  <2>3. ASSUME Questioned
        PROVE  \/ watch'[P] = <<>>
               \/ watch'[P] = <<cm'[P]>> /\ view'[P] # Confirmed /\ FailsOverOnly'
    <3>0. \/ watch[P] = <<>>
          \/ watch[P] = <<cm[P]>> /\ view[P] # Confirmed /\ FailsOverOnly
      BY <2>3 DEF AskedStays
    <3>1. cm[P] # Confirmed
      BY <1>1, <1>4, ConfirmedParts
    <3>2. CASE watch[P] = <<>>
      <4>1. view'[P] # Confirmed
        BY <1>u, <3>1, <3>2 DEF Handled
      <4>2. watch'[P] = <<>> \/ (cm'[P] = data /\ watch'[P] = <<data>>)
        BY <1>4, <1>p, <3>2 DEF Patched
      <4> QED  BY <1>1, <4>1, <4>2 DEF FailsOverOnly
    <3>3. CASE watch[P] = <<cm[P]>> /\ view[P] # Confirmed /\ FailsOverOnly
      <4>1. data = cm[P]
        BY <1>e, <1>4, <3>1, <3>3 DEF FailsOverOnly
      <4>2. cm' = Set(cm, P, data) /\ watch' = Set(watch, P, watch[P])
        BY <1>1, <1>4, <4>1 DEF Patch
      <4>3. cm'[P] = cm[P] /\ watch'[P] = watch[P]
        BY <4>1, <4>2, BothSites DEF Set, TypeOK
      <4> QED  BY <1>u, <3>3, <4>3 DEF FailsOverOnly
    <3> QED  BY <3>0, <3>2, <3>3
  <2> QED  BY <1>2, <2>2, <2>3 DEF AskedStays
<1> QED  BY <1>3, <1>4, BothSites

LEMMA ConsentInvInit == Init => ConsentInv
<1> SUFFICES ASSUME Init PROVE ~Questioned
  BY DEF ConsentInv, AskerStays, AskedStays, AnswerHolds, Questioned
<1>1. \A s \in Sites : /\ watch[s] = <<cm[s]>> /\ inbox[s] = <<>> /\ outbox[s] = <<>>
                       /\ cm[s] \in Snapshots
  BY TypeInit DEF Init, TypeOK
<1>2. Questions = {}
  BY <1>1, BothSites, QueueEmpty DEF Questions, ToPassive, ToActive
<1>3. cm[ActiveSite].transition # "gold-standby"
  <2>1. PICK last : cm = [s \in Sites |-> [last |-> last, transition |-> ""]]
    BY DEF Init
  <2> QED  BY <2>1, BothSites
<1>4. Range(watch[ActiveSite]) = {cm[ActiveSite]}
  BY <1>1, BothSites, QueueOfOne
<1> QED  BY <1>2, <1>3, <1>4 DEF Questioned

\* What the passive site has confirmed is still recorded when the active one uses
\* the consent to rebuild, although automation may ask the passive site for a
\* failover while the question is on its way.
THEOREM ConsentsTrueInFailover ==
    ASSUME Attended
    PROVE  Spec => ConsentStillTrue
<1> DEFINE A == ActiveSite
<1>1. FailInv /\ ConsentInv /\ [Next]_vars =>
        [db[ActiveSite] # "rebuilding" /\ db'[ActiveSite] = "rebuilding"
         => cm[PassiveSite] = [last |-> "golddr-primary", transition |-> ""]]_vars
  <2> USE DEF FailInv, ConsentInv
  <2> SUFFICES ASSUME FailInv, ConsentInv, [Next]_vars,
                      db[A] # "rebuilding", db'[A] = "rebuilding"
               PROVE  cm[PassiveSite] = Confirmed
    BY DEF Confirmed, Failover
  <2>1. PICK e \in StateEvents(A) : HandleEvent(A, e)
    BY SiteStep, Calm, BothSites DEF Fires, Keeps
  <2>2. Promoted(db[A]) # "rebuilding"
    BY DEF Promoted
  <2>3. ~(Commits(A, e) /\ DeployPrimary(A))
    BY <2>2, BothSites DEF DeployPrimary, Set, TypeOK
  <2>4. Starting(A, e, "standby")
    BY <2>1, <2>3, HandlerOutcome, Calm, BothSites DEF Reacts, Untouched, Unanswered
  <2>5. Asks(e) /\ Work(A, e.snap.transition) = "standby" /\ ~MustConfirm(A, e)
    BY <2>4 DEF Starting
  <2>6. e.snap.transition = "gold-standby"
    BY <2>5, StartingWork, BothSites
  <2>7. PICK m \in ToActive : m.item = e.snap
    BY <2>5, <2>6, EventSource, BothSites DEF MustConfirm, NeedsConsent
  <2>8. m \in Questions
    BY <2>6, <2>7 DEF Questions, Channels, Answer
  <2>9. view[PassiveSite] = Confirmed /\ watch[PassiveSite] = <<>>
    BY <2>8 DEF AnswerHolds, AskedStays, Questioned
  <2> QED  BY <2>9 DEF Handled
<1>2. FailInv /\ ConsentInv /\ [Next]_vars => ConsentInv'
  BY OperatorInConsent, DnsInConsent, AskerStaysStep, AskedStaysStep DEF ConsentInv, Requested
<1>3. FailInv /\ [Next]_vars => FailInv'
  BY FailInvStep
<1> QED  BY <1>1, <1>2, <1>3, FailInvInit, ConsentInvInit, PTL DEF Spec, ConsentStillTrue
=============================================================================
