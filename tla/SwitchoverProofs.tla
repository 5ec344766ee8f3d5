-------------------------- MODULE SwitchoverProofs --------------------------
(***************************************************************************)
(* Proofs about Switchover: its types, and that the data is never without  *)
(* a leader.  The lemmas say what a handler may write, send and do to its  *)
(* database; WipeInv says what the requests, orders and consents under way *)
(* imply of both databases while operators keep to Coordinated.  Messages  *)
(* may be lost and repeated, and pods replaced.                            *)
(***************************************************************************)
EXTENDS Switchover, SequenceTheorems, TLAPS

LEMMA SiteNames ==
    /\ Sites = {ActiveSite, PassiveSite} /\ ActiveSite # PassiveSite
    /\ \A s \in Sites : Other(s) \in Sites /\ Other(s) # s
BY DEF Sites, ActiveSite, PassiveSite, Other

LEMMA NoneDistinct == None \notin Snapshots /\ None \notin Appearances
BY SwitchoverAssumption

LEMMA SettledSnapshot ==
    ASSUME NEW v, NEW state \in StableStates, v = [last |-> state, transition |-> ""]
    PROVE  v \in Snapshots /\ v.last = state
BY DEF Snapshots

\* A request written into a ConfigMap.
LEMMA RequestWritten ==
    ASSUME NEW c \in Snapshots, NEW t \in Transitions
    PROVE  /\ [c EXCEPT !.transition = t] \in Snapshots
           /\ [c EXCEPT !.transition = t].transition = t
           /\ [c EXCEPT !.transition = t].last = c.last
BY DEF Snapshots

\* What the first element and the rest of a queue are.
LEMMA QueueTaken ==
    ASSUME NEW S, NEW q \in Seq(S), q # <<>>
    PROVE  /\ Head(q) \in S /\ Tail(q) \in Seq(S)
           /\ Head(q) \in Range(q) /\ Range(Tail(q)) \subseteq Range(q)
           /\ q[Len(q)] = IF Tail(q) = <<>> THEN Head(q) ELSE Tail(q)[Len(Tail(q))]
<1>1. /\ Head(q) \in S /\ Tail(q) \in Seq(S) /\ Len(Tail(q)) = Len(q) - 1
      /\ \A i \in 1 .. Len(Tail(q)) : Tail(q)[i] = q[i + 1]
  BY HeadTailProperties
<1>2. Len(q) \in Nat \ {0} /\ Range(q) = {q[i] : i \in 1 .. Len(q)}
  BY EmptySeq, RangeEquality
<1>3. Range(Tail(q)) = {Tail(q)[i] : i \in 1 .. Len(Tail(q))}
  BY <1>1, RangeEquality
<1>4. Head(q) = q[1]
  BY <1>1, <1>2
<1>5. Tail(q) = <<>> <=> Len(Tail(q)) = 0
  BY <1>1, EmptySeq
<1> QED  BY <1>1, <1>2, <1>3, <1>4, <1>5

LEMMA QueueParts ==
    ASSUME NEW S, NEW q \in Seq(S), q # <<>>
    PROVE  \A x \in Range(q) : x = Head(q) \/ x \in Range(Tail(q))
<1>1. /\ Head(q) = q[1] /\ Tail(q) \in Seq(S) /\ Len(Tail(q)) = Len(q) - 1 /\ Len(q) \in Nat
      /\ \A i \in 1 .. Len(Tail(q)) : Tail(q)[i] = q[i + 1]
  BY HeadTailProperties, LenProperties
<1>2. /\ Range(q) = {q[i] : i \in 1 .. Len(q)}
      /\ Range(Tail(q)) = {Tail(q)[i] : i \in 1 .. Len(Tail(q))}
  BY <1>1, RangeEquality
<1>3. ASSUME NEW i \in 1 .. Len(q), i # 1
      PROVE  i - 1 \in 1 .. Len(Tail(q)) /\ Tail(q)[i - 1] = q[i]
  BY <1>1, <1>3
<1> QED  BY <1>1, <1>2, <1>3

LEMMA QueueAppended ==
    ASSUME NEW S, NEW q \in Seq(S), NEW x \in S
    PROVE  /\ Append(q, x) \in Seq(S) /\ Append(q, x) # <<>>
           /\ Range(Append(q, x)) = Range(q) \cup {x}
           /\ Append(q, x)[Len(Append(q, x))] = x
<1>1. /\ Append(q, x) \in Seq(S) /\ Append(q, x) # <<>>
      /\ Len(Append(q, x)) = Len(q) + 1 /\ Len(q) \in Nat
      /\ \A i \in 1 .. Len(q) : Append(q, x)[i] = q[i]
      /\ Append(q, x)[Len(q) + 1] = x
  BY AppendProperties, LenProperties
<1>2. /\ Range(q) = {q[i] : i \in 1 .. Len(q)}
      /\ Range(Append(q, x)) = {Append(q, x)[i] : i \in 1 .. Len(Append(q, x))}
  BY <1>1, RangeEquality
<1>3. 1 .. (Len(q) + 1) = 1 .. Len(q) \cup {Len(q) + 1}
  BY <1>1
<1> QED  BY <1>1, <1>2, <1>3

LEMMA QueueEmpty == Range(<<>>) = {}
BY DEF Range

LEMMA QueueOfOne ==
    ASSUME NEW S, NEW x \in S
    PROVE  <<x>> \in Seq(S) /\ Range(<<x>>) = {x} /\ <<x>>[Len(<<x>>)] = x /\ <<x>> # <<>>
BY DEF Range

\* The copies of a message that Deliver appends.
LEMMA QueueOfCopies ==
    ASSUME NEW S, NEW q \in Seq(S), NEW x \in S, NEW n \in Nat \ {0}
    PROVE  /\ q \o [i \in 1 .. n |-> x] \in Seq(S)
           /\ Range(q \o [i \in 1 .. n |-> x]) = Range(q) \cup {x}
<1> DEFINE c == [i \in 1 .. n |-> x]
<1>1. c \in Seq(S)
  <2>1. c \in [1 .. n -> S]
    OBVIOUS
  <2> QED  BY <2>1, SeqDef
<1>2. Range(c) = {x}
  BY DEF Range
<1>3. q \o c \in Seq(S) /\ Range(q \o c) = Range(q) \cup {x}
  <2> HIDE DEF c
  <2> QED  BY <1>1, <1>2, ConcatProperties, RangeConcatenation
<1> QED  BY <1>3
-----------------------------------------------------------------------------
(* Types *)

\* What a patch leaves behind: the new content, reported, or the old one.
Patched(s, queue, data) ==
    /\ cm' \in [Sites -> Snapshots] /\ watch' \in [Sites -> Seq(Snapshots)]
    /\ \A r \in Sites \ {s} : cm'[r] = cm[r] /\ watch'[r] = watch[r]
    /\ \/ /\ cm'[s] = data /\ watch'[s] = Append(queue, data)
          /\ watch'[s] # <<>> /\ watch'[s][Len(watch'[s])] = data
          /\ Range(watch'[s]) = Range(queue) \cup {data}
       \/ /\ cm'[s] = cm[s] /\ watch'[s] = queue
          /\ data = cm[s] \/ "call" \in Faults

LEMMA PatchEffect ==
    ASSUME TypeOK, NEW s \in Sites, NEW queue \in Seq(Snapshots),
           NEW data \in Snapshots, NEW stamped \in BOOLEAN,
           Write(s, queue, data, stamped) \/ Patch(s, queue, data, stamped)
    PROVE  Patched(s, queue, data)
<1>1. /\ Append(queue, data) \in Seq(Snapshots) /\ Append(queue, data) # <<>>
      /\ Range(Append(queue, data)) = Range(queue) \cup {data}
      /\ Append(queue, data)[Len(Append(queue, data))] = data
  BY QueueAppended
<1>2. /\ cm' = Set(cm, s, data) /\ watch' = Set(watch, s, Append(queue, data))
      \/ /\ cm' = Set(cm, s, data) /\ watch' = Set(watch, s, queue) /\ data = cm[s]
      \/ /\ cm' = cm /\ watch' = Set(watch, s, queue) /\ "call" \in Faults
  BY Zenon DEF Write, Patch
<1>3. cm \in [Sites -> Snapshots] /\ watch \in [Sites -> Seq(Snapshots)]
  BY DEF TypeOK
<1>4. CASE cm' = Set(cm, s, data) /\ watch' = Set(watch, s, Append(queue, data))
  BY <1>1, <1>3, <1>4 DEF Set, Patched
<1>5. CASE cm' = Set(cm, s, data) /\ watch' = Set(watch, s, queue) /\ data = cm[s]
  BY <1>3, <1>5 DEF Set, Patched
<1>6. CASE cm' = cm /\ watch' = Set(watch, s, queue) /\ "call" \in Faults
  BY <1>3, <1>6 DEF Set, Patched
<1> QED  BY <1>2, <1>4, <1>5, <1>6

LEMMA ForwardEffect ==
    ASSUME TypeOK, NEW s \in Sites, NEW message \in Messages, Forward(s, message)
    PROVE  /\ outbox' \in [Sites -> Seq(Messages)]
           /\ \A r \in Sites \ {s} : outbox'[r] = outbox[r]
           /\ outbox'[s] = Append(outbox[s], message)
           /\ Range(outbox'[s]) = Range(outbox[s]) \cup {message}
<1>1. /\ Append(outbox[s], message) \in Seq(Messages)
      /\ Range(Append(outbox[s], message)) = Range(outbox[s]) \cup {message}
  BY QueueAppended DEF TypeOK
<1> QED  BY <1>1 DEF Forward, Set, TypeOK

LEMMA EventTypes ==
    ASSUME TypeOK, NEW s \in Sites, NEW e \in StateEvents(s)
    PROVE  /\ e.snap \in Snapshots /\ e.watch \in Seq(Snapshots) /\ e.inbox \in Seq(Messages)
           /\ Range(e.watch) \subseteq Range(watch[s])
           /\ Range(e.inbox) \subseteq Range(inbox[s])
           /\ \/ /\ ~e.peer_ok /\ watch[s] # <<>> /\ e.inbox = inbox[s]
                 /\ e.snap = Head(watch[s]) /\ e.watch = Tail(watch[s])
              \/ /\ e.peer_ok /\ e.watch = watch[s]
                 /\ inbox[s] # <<>> /\ e.inbox = Tail(inbox[s])
                 /\ Head(inbox[s]).event = "yes_happy_to_proceed"
                 /\ e.snap = Head(inbox[s]).item
<1> USE DEF TypeOK
<1>1. CASE e \in NextSnapshot(s)
  <2>1. /\ watch[s] # <<>> 
        /\ e = [snap |-> Head(watch[s]), peer_ok |-> FALSE,
                watch |-> Tail(watch[s]), inbox |-> inbox[s]]
    BY <1>1 DEF NextSnapshot
  <2> QED  BY <2>1, QueueTaken
<1>2. CASE e \in NextConsent(s)
  <2>1. /\ inbox[s] # <<>> /\ Head(inbox[s]).event = "yes_happy_to_proceed"
        /\ e = [snap |-> Head(inbox[s]).item, peer_ok |-> TRUE,
                watch |-> watch[s], inbox |-> Tail(inbox[s])]
    BY <1>2 DEF NextConsent, FromPeer
  <2>2. Head(inbox[s]) \in Messages
    BY <2>1, QueueTaken
  <2>3. Head(inbox[s]).item \in Snapshots
    BY <2>1, <2>2 DEF Messages
  <2> QED  BY <2>1, <2>3, QueueTaken
<1> QED  BY <1>1, <1>2 DEF StateEvents

\* What a handler does to the traffic, the databases and the triggers has types.
LEMMA PartTypes ==
    ASSUME TypeOK, NEW s \in Sites
    PROVE  /\ \A work \in {"primary", "detach", "standby", "down"} :
                 ModeFor(s, work) \in Modes /\ HealthFor(s, work) \in BOOLEAN
           /\ DeployPrimary(s) => db' \in [Sites -> Databases]
BY DEF TypeOK, ModeFor, HealthFor, Modes, DeployPrimary, Set, Promoted, Databases

LEMMA HandlerTypes ==
    ASSUME TypeOK, NEW s \in Sites, NEW e \in StateEvents(s), Consume(s, e)
    PROVE  /\ view' \in [Sites -> Snapshots \cup {None}]
           /\ inbox' \in [Sites -> Seq(Messages)]
           /\ peer' \in [Sites -> {"unknown", "ok", "error"}]
           /\ patroni' \in [Sites -> Appearances \cup {"unknown"}]
           /\ polled' \in [Sites -> Appearances \cup {None}]
           /\ requests' \in Nat
BY EventTypes DEF Consume, TypeOK, Set

\* What a handler records is a snapshot.
LEMMA Recordings ==
    ASSUME TypeOK, NEW s \in Sites, NEW e \in StateEvents(s)
    PROVE  /\ [cm[s] EXCEPT !.last = "independent"] \in Snapshots
           /\ \A t \in Transitions \cup {""} : [cm[s] EXCEPT !.transition = t] \in Snapshots
           /\ \A t \in StableStates \cup {""} : [last |-> t, transition |-> ""] \in Snapshots
           /\ e.snap.last \in StableStates \cup {""}
           /\ e.snap.transition \in Transitions \cup {""}
           /\ e.snap.transition \in Transitions => 
                 /\ Reached(e.snap.transition) \in StableStates
                 /\ e.snap.transition \in StableStates \cup {"active-passive-force"}
           /\ e.snap.transition \in NeedsConsent =>
                 Partial(e.snap.transition) \in StableStates
<1>1. e.snap \in Snapshots /\ cm[s] \in Snapshots
  BY EventTypes DEF TypeOK
<1>2. e.snap.last \in StableStates \cup {""} /\ e.snap.transition \in Transitions \cup {""}
  BY <1>1 DEF Snapshots
<1>3. \A t \in StableStates \cup {""} : [last |-> t, transition |-> ""] \in Snapshots
  BY DEF Snapshots
<1>4. \A t \in Transitions \cup {""} : [cm[s] EXCEPT !.transition = t] \in Snapshots
  BY <1>1 DEF Snapshots
<1>5. [cm[s] EXCEPT !.last = "independent"] \in Snapshots
  BY <1>1 DEF Snapshots, StableStates
<1>6. /\ e.snap.transition \in Transitions => 
           /\ Reached(e.snap.transition) \in StableStates
           /\ e.snap.transition \in StableStates \cup {"active-passive-force"}
      /\ e.snap.transition \in NeedsConsent => Partial(e.snap.transition) \in StableStates
  BY DEF Reached, Partial, Transitions, StableStates, NeedsConsent
<1> QED  BY <1>2, <1>3, <1>4, <1>5, <1>6

\* The outcomes of a ConfigMap event.
HandleEvent(s, e) ==
    \/ AdoptFresh(s, e) \/ NothingToDo(s, e) \/ Abort(s, e) \/ AskConsent(s, e)
    \/ BecomePrimary(s, e) \/ BecomeStandby(s, e) \/ TakeDown(s, e) \/ NoteState(s, e)
    \/ TransitionRaises(s, e)

\* What the handler writes into the ConfigMap, if it writes at all.
LastRecorded(s, e, last) ==
    LET t == e.snap.transition IN
    \/ last = cm[s].last /\ ~Asks(e) /\ e.snap.last # "" /\ t # ""
    \/ last = e.snap.last /\ Asks(e)
    \/ last = "independent" /\ e.snap.last = ""
    \/ /\ Starting(s, e, "primary") \/ Starting(s, e, "detach")
       /\ last = Reached(t) /\ DeployPrimary(s)
    \/ Starting(s, e, "standby") /\ last \in {t, Partial(t)}
    \/ (Starting(s, e, "down") \/ Starting(s, e, "note")) /\ last = t
WritesNothing(s, e) ==
    /\ cm'[s] = cm[s] /\ watch'[s] = e.watch
    /\ "call" \in Faults \/ e.snap.last # "" \/ cm[s].last # ""
    /\ \/ "call" \in Faults
       \/ cm[s].transition = ""
       \/ e.snap.transition = ""
       \/ e.snap.last = "" /\ cm[s].last = "independent"
       \/ /\ Starting(s, e, "primary") \/ Starting(s, e, "detach")
          /\ db[s] = "rebuilding"
Writes(s, e) ==
    /\ watch'[s] = Append(e.watch, cm'[s])
    /\ watch'[s] # <<>> /\ watch'[s][Len(watch'[s])] = cm'[s]
    /\ Range(watch'[s]) = Range(e.watch) \cup {cm'[s]}
    /\ \/ cm'[s].transition = ""
       \/ cm'[s].transition = cm[s].transition /\ e.snap.last = ""
    /\ LastRecorded(s, e, cm'[s].last)

LEMMA StartingWork ==
    ASSUME TypeOK, NEW s \in Sites, NEW e \in StateEvents(s), Asks(e)
    PROVE  /\ e.snap.transition \in Transitions
           /\ Work(s, e.snap.transition) \in {"primary", "detach", "standby", "down", "note", "ignore"}
           /\ Work(s, e.snap.transition) = "standby" <=>
                \/ s = ActiveSite /\ e.snap.transition = "gold-standby"
                \/ s = PassiveSite /\ e.snap.transition = "active-passive"
           /\ Work(s, e.snap.transition) \in {"down", "note", "standby"} =>
                e.snap.transition \in StableStates
<1>1. e.snap.transition \in Transitions
  BY Recordings DEF Asks
<1>2. s = ActiveSite \/ s = PassiveSite
  BY SiteNames
<1> QED  BY <1>1, <1>2 DEF Work, Transitions, StableStates, ActiveSite, PassiveSite

LEMMA Recording ==
    ASSUME TypeOK, NEW s \in Sites, NEW e \in StateEvents(s), HandleEvent(s, e)
    PROVE  /\ cm' \in [Sites -> Snapshots] /\ watch' \in [Sites -> Seq(Snapshots)]
           /\ \A r \in Sites \ {s} : cm'[r] = cm[r] /\ watch'[r] = watch[r]
           /\ Writes(s, e) \/ WritesNothing(s, e)
<1>e. e.snap \in Snapshots /\ e.watch \in Seq(Snapshots)
  BY EventTypes
<1>u. ASSUME cm' = cm, watch' = Set(watch, s, e.watch)
      PROVE  /\ cm' \in [Sites -> Snapshots] /\ watch' \in [Sites -> Seq(Snapshots)]
             /\ \A r \in Sites \ {s} : cm'[r] = cm[r] /\ watch'[r] = watch[r]
             /\ cm'[s] = cm[s] /\ watch'[s] = e.watch
  BY <1>e, <1>u DEF Set, TypeOK
<1>w. ASSUME NEW data \in Snapshots, NEW stamped \in BOOLEAN,
             Write(s, e.watch, data, stamped),
             \/ data.transition = ""
             \/ data = [cm[s] EXCEPT !.last = "independent"] /\ e.snap.last = "",
             LastRecorded(s, e, data.last)
      PROVE  /\ cm' \in [Sites -> Snapshots] /\ watch' \in [Sites -> Seq(Snapshots)]
             /\ \A r \in Sites \ {s} : cm'[r] = cm[r] /\ watch'[r] = watch[r]
             /\ Writes(s, e) \/ WritesNothing(s, e)
  <2>1. cm[s] \in Snapshots
    BY DEF TypeOK
  <2>2. Patched(s, e.watch, data)
    BY <1>e, <1>w, PatchEffect
  <2>3. data = [cm[s] EXCEPT !.last = "independent"] => 
          /\ data.transition = cm[s].transition
          /\ data = cm[s] => cm[s].last = "independent"
    BY <2>1 DEF Snapshots
  <2>4. data = cm[s] => e.snap.last # "" \/ cm[s].last # ""
    <3>1. e.snap.last = "" => data.last = "independent"
      BY <1>w, Zenon DEF LastRecorded, Starting, Asks
    <3> QED  BY <3>1
  <2> QED  BY <1>w, <2>2, <2>3, <2>4, Zenon DEF Patched, Writes, WritesNothing
<1>s. ASSUME NEW last \in StableStates \cup {""}, SaveState(s, e.watch, last), LastRecorded(s, e, last)
      PROVE  /\ cm' \in [Sites -> Snapshots] /\ watch' \in [Sites -> Seq(Snapshots)]
             /\ \A r \in Sites \ {s} : cm'[r] = cm[r] /\ watch'[r] = watch[r]
             /\ Writes(s, e) \/ WritesNothing(s, e)
  <2> DEFINE data == [last |-> last, transition |-> ""]
  <2>1. data \in Snapshots /\ data.transition = "" /\ data.last = last
    BY Recordings
  <2>2. Write(s, e.watch, data, TRUE)
    BY <1>s DEF SaveState
  <2> HIDE DEF data
  <2> QED  BY <1>s, <2>1, <2>2, <1>w
<1>1. CASE AdoptFresh(s, e)
  <2>1. cm[s] \in Snapshots
    BY DEF TypeOK
  <2> DEFINE data == [cm[s] EXCEPT !.last = "independent"]
  <2>2. data \in Snapshots /\ data.last = "independent"
    BY <2>1, Recordings DEF Snapshots
  <2>3. Write(s, e.watch, data, TRUE) /\ e.snap.last = ""
    BY <1>1 DEF AdoptFresh
  <2>4. LastRecorded(s, e, data.last)
    BY <2>2, <2>3, Zenon DEF LastRecorded
  <2> QED  BY <2>2, <2>3, <2>4, <1>w
<1>2. CASE NothingToDo(s, e)
  <2>1. CASE e.snap.transition = ""
    BY <1>2, <2>1, <1>u, Zenon DEF NothingToDo, WritesNothing
  <2>2. CASE e.snap.transition # ""
    <3> DEFINE data == [cm[s] EXCEPT !.transition = ""]
    <3>1. data \in Snapshots /\ data.last = cm[s].last /\ data.transition = ""
      BY Recordings DEF TypeOK, Snapshots
    <3>2. Write(s, e.watch, data, FALSE)
      BY <1>2, <2>2 DEF NothingToDo
    <3>3. LastRecorded(s, e, data.last)
      BY <1>2, <2>2, <3>1, Zenon DEF LastRecorded, NothingToDo
    <3> HIDE DEF data
    <3> QED  BY <3>1, <3>2, <3>3, <1>w
  <2> QED  BY <2>1, <2>2
<1>3. CASE Abort(s, e) \/ AskConsent(s, e)
  <2>1. SaveState(s, e.watch, e.snap.last)
    BY <1>3 DEF Abort, AskConsent
  <2>2. LastRecorded(s, e, e.snap.last)
    BY <1>3, Zenon DEF LastRecorded, Abort, AskConsent
  <2> QED  BY <2>1, <2>2, <1>s, Recordings
<1>4. CASE BecomePrimary(s, e)
  <2>1. Starting(s, e, "primary") \/ Starting(s, e, "detach")
    BY <1>4, Zenon DEF BecomePrimary
  <2>2. CASE DeployPrimary(s) /\ SaveState(s, e.watch, Reached(e.snap.transition))
    <3>1. LastRecorded(s, e, Reached(e.snap.transition))
      BY <2>1, <2>2, Zenon DEF LastRecorded
    <3>2. Reached(e.snap.transition) \in StableStates
      BY <2>1, Recordings, StartingWork DEF Starting
    <3> QED  BY <2>2, <3>1, <3>2, <1>s
  <2>3. CASE db[s] = "rebuilding" /\ cm' = cm /\ watch' = Set(watch, s, e.watch)
    BY <2>1, <2>3, <1>u, Zenon DEF WritesNothing, Starting, Asks
  <2> QED  BY <1>4, <2>2, <2>3, Zenon DEF BecomePrimary
<1>5. CASE BecomeStandby(s, e)
  <2>1. Starting(s, e, "standby") /\ e.snap.transition \in NeedsConsent
        /\ e.snap.transition \in StableStates /\ Partial(e.snap.transition) \in StableStates
    BY <1>5, StartingWork, Recordings DEF BecomeStandby, Starting, NeedsConsent
  <2>2. PICK last \in {e.snap.transition, Partial(e.snap.transition)} : SaveState(s, e.watch, last)
    BY <1>5 DEF BecomeStandby
  <2>3. LastRecorded(s, e, last)
    BY <2>1, Zenon DEF LastRecorded
  <2> QED  BY <2>1, <2>2, <2>3, <1>s
<1>6. CASE TakeDown(s, e) \/ NoteState(s, e)
  <2>1. /\ Starting(s, e, "down") \/ Starting(s, e, "note")
        /\ SaveState(s, e.watch, e.snap.transition)
    BY <1>6 DEF TakeDown, NoteState
  <2>2. e.snap.transition \in StableStates
    BY <2>1, StartingWork DEF Starting
  <2>3. LastRecorded(s, e, e.snap.transition)
    BY <2>1, Zenon DEF LastRecorded
  <2> QED  BY <2>1, <2>2, <2>3, <1>s
<1>7. CASE TransitionRaises(s, e)
  BY <1>7, <1>u, Zenon DEF TransitionRaises, WritesNothing
<1> QED  BY <1>1, <1>2, <1>3, <1>4, <1>5, <1>6, <1>7 DEF HandleEvent

\* What the handler sends: an order or a question, from the active site.
Sends(s, e) ==
    \E m \in Messages :
       /\ s = ActiveSite /\ Asks(e) /\ outbox'[s] = Append(outbox[s], m)
       /\ Range(outbox'[s]) = Range(outbox[s]) \cup {m}
       /\ \/ /\ m = [event |-> "transition_to", state |-> e.snap.transition]
             /\ \E work \in {"primary", "detach", "standby", "down"} : Starting(s, e, work)
             /\ Work(s, e.snap.transition) = "primary" =>
                   Starting(s, e, "primary") /\ DeployPrimary(s) /\ SetTraffic(s, "primary")
          \/ /\ m = [event |-> "confirm_happy_to_proceed", item |-> e.snap,
                     required_state |-> RequiredState(e.snap.transition)]
             /\ e.snap.transition \in NeedsConsent /\ AskConsent(s, e)

LEMMA Sending ==
    ASSUME TypeOK, NEW s \in Sites, NEW e \in StateEvents(s), HandleEvent(s, e)
    PROVE  /\ outbox' \in [Sites -> Seq(Messages)]
           /\ \A r \in Sites \ {s} : outbox'[r] = outbox[r]
           /\ outbox'[s] = outbox[s] \/ Sends(s, e)
<1>u. ASSUME outbox' = outbox
      PROVE  /\ outbox' \in [Sites -> Seq(Messages)]
             /\ \A r \in Sites \ {s} : outbox'[r] = outbox[r]
             /\ outbox'[s] = outbox[s] \/ Sends(s, e)
  BY <1>u DEF TypeOK
<1>o. ASSUME ForwardsOrder(s, e.snap.transition), Asks(e),
             \E work \in {"primary", "detach", "standby", "down"} : Starting(s, e, work),
             Work(s, e.snap.transition) = "primary" =>
                Starting(s, e, "primary") /\ DeployPrimary(s) /\ SetTraffic(s, "primary")
      PROVE  /\ outbox' \in [Sites -> Seq(Messages)]
             /\ \A r \in Sites \ {s} : outbox'[r] = outbox[r]
             /\ outbox'[s] = outbox[s] \/ Sends(s, e)
  <2>1. CASE s = ActiveSite
    <3> DEFINE m == [event |-> "transition_to", state |-> e.snap.transition]
    <3>1. m \in Messages
      BY <1>o, StartingWork DEF Messages
    <3>2. Forward(s, m)
      BY <1>o, <2>1 DEF ForwardsOrder
    <3>3. /\ outbox' \in [Sites -> Seq(Messages)]
          /\ \A r \in Sites \ {s} : outbox'[r] = outbox[r]
          /\ outbox'[s] = Append(outbox[s], m)
          /\ Range(outbox'[s]) = Range(outbox[s]) \cup {m}
      <4> HIDE DEF m
      <4> QED  BY <3>1, <3>2, ForwardEffect
    <3> QED  BY <1>o, <2>1, <3>1, <3>3 DEF Sends
  <2>2. CASE s # ActiveSite
    BY <1>o, <1>u, <2>2 DEF ForwardsOrder
  <2> QED  BY <2>1, <2>2
<1>1. CASE AskConsent(s, e)
  <2> DEFINE m == [event |-> "confirm_happy_to_proceed", item |-> e.snap,
                   required_state |-> RequiredState(e.snap.transition)]
  <2>1. /\ Forward(s, m) /\ Asks(e) /\ s = ActiveSite
        /\ e.snap.transition \in NeedsConsent
    BY <1>1 DEF AskConsent, MustConfirm, Forward
  <2>2. RequiredState(e.snap.transition) \in StableStates
    BY <2>1 DEF RequiredState, NeedsConsent, StableStates
  <2>3. m \in Messages
    BY <2>2, EventTypes DEF Messages
  <2>4. /\ outbox' \in [Sites -> Seq(Messages)]
        /\ \A r \in Sites \ {s} : outbox'[r] = outbox[r]
        /\ outbox'[s] = Append(outbox[s], m)
        /\ Range(outbox'[s]) = Range(outbox[s]) \cup {m}
    <3> HIDE DEF m
    <3> QED  BY <2>1, <2>3, ForwardEffect
  <2> QED  BY <1>1, <2>1, <2>3, <2>4 DEF Sends
<1>2. CASE BecomePrimary(s, e)
  <2>1. \/ outbox' = outbox
        \/ /\ ForwardsOrder(s, e.snap.transition) /\ DeployPrimary(s) /\ Asks(e)
           /\ \E work \in {"primary", "detach", "standby", "down"} : Starting(s, e, work)
           /\ Work(s, e.snap.transition) = "primary" =>
                 Starting(s, e, "primary") /\ SetTraffic(s, "primary")
    BY <1>2 DEF BecomePrimary, Starting
  <2> QED  BY <1>u, <1>o, <2>1, Zenon
<1>3. CASE BecomeStandby(s, e) \/ TakeDown(s, e)
  <2>1. /\ Asks(e) /\ ForwardsOrder(s, e.snap.transition)
        /\ \E work \in {"primary", "detach", "standby", "down"} : Starting(s, e, work)
        /\ Work(s, e.snap.transition) # "primary"
    BY <1>3 DEF BecomeStandby, TakeDown, Starting
  <2> QED  BY <2>1, <1>o
<1>4. CASE AdoptFresh(s, e) \/ NothingToDo(s, e) \/ Abort(s, e) \/ NoteState(s, e)
           \/ TransitionRaises(s, e)
  BY <1>4, <1>u DEF AdoptFresh, NothingToDo, Abort, NoteState, TransitionRaises
<1> QED  BY <1>1, <1>2, <1>3, <1>4, Zenon DEF HandleEvent

\* What the handler does to the databases and the triggers.
LEMMA Working ==
    ASSUME TypeOK, NEW s \in Sites, NEW e \in StateEvents(s), HandleEvent(s, e)
    PROVE  /\ db' \in [Sites -> Databases] /\ triggers' \in [Sites -> SUBSET StableStates]
           /\ mode' \in [Sites -> Modes] /\ health' \in [Sites -> BOOLEAN]
           /\ \A r \in Sites \ {s} : db'[r] = db[r] /\ triggers'[r] = triggers[r]
           /\ \/ db' = db /\ triggers' = triggers
              \/ /\ Starting(s, e, "primary") \/ Starting(s, e, "detach")
                 /\ DeployPrimary(s) /\ triggers' = triggers
              \/ /\ Starting(s, e, "standby") /\ db'[s] \in {db[s], "rebuilding"}
                 /\ triggers'[s] \subseteq {e.snap.transition}
<1>t. ASSUME NEW work \in {"primary", "detach", "standby", "down"},
             \/ SetTraffic(s, work)
             \/ mode' \in {mode, Set(mode, s, ModeFor(s, work))} /\ health' = health
      PROVE  mode' \in [Sites -> Modes] /\ health' \in [Sites -> BOOLEAN]
  <2>1. /\ ModeFor(s, work) \in Modes /\ HealthFor(s, work) \in BOOLEAN
        /\ mode \in [Sites -> Modes] /\ health \in [Sites -> BOOLEAN]
    BY PartTypes DEF TypeOK
  <2> QED  BY <1>t, <2>1 DEF SetTraffic, Set
<1>p. DeployPrimary(s) => /\ db' \in [Sites -> Databases]
                          /\ \A r \in Sites \ {s} : db'[r] = db[r]
  BY PartTypes DEF DeployPrimary, Set, TypeOK
<1>w. ASSUME Starting(s, e, "standby"), NEW T \in SUBSET {e.snap.transition},
             \/ db' = db /\ triggers' = triggers
             \/ /\ db' \in {db, Set(db, s, "rebuilding")}
                /\ triggers' = Set(triggers, s, T)
      PROVE  /\ db' \in [Sites -> Databases] /\ triggers' \in [Sites -> SUBSET StableStates]
             /\ \A r \in Sites \ {s} : db'[r] = db[r] /\ triggers'[r] = triggers[r]
             /\ \/ db' = db /\ triggers' = triggers
                \/ /\ Starting(s, e, "standby") /\ db'[s] \in {db[s], "rebuilding"}
                   /\ triggers'[s] \subseteq {e.snap.transition}
  <2>1. e.snap.transition \in StableStates
    BY <1>w, StartingWork DEF Starting
  <2>2. db \in [Sites -> Databases] /\ triggers \in [Sites -> SUBSET StableStates]
        /\ "rebuilding" \in Databases
    BY DEF TypeOK, Databases
  <2>3. CASE db' = db /\ triggers' = triggers
    BY <2>2, <2>3
  <2>4. CASE db' \in {db, Set(db, s, "rebuilding")} /\ triggers' = Set(triggers, s, T)
    <3>1. T \in SUBSET StableStates
      BY <1>w, <2>1
    <3> QED  BY <1>w, <2>2, <2>4, <3>1 DEF Set
  <2> QED  BY <1>w, <2>3, <2>4
<1>1. CASE AdoptFresh(s, e) \/ NothingToDo(s, e) \/ Abort(s, e) \/ AskConsent(s, e) \/ NoteState(s, e)
  BY <1>1 DEF AdoptFresh, NothingToDo, Abort, AskConsent, NoteState, traffic, TypeOK
<1>2. CASE BecomePrimary(s, e)
  <2>1. PICK work \in {"primary", "detach"} :
           /\ Starting(s, e, work) /\ SetTraffic(s, work) /\ triggers' = triggers
           /\ DeployPrimary(s) \/ db' = db
    BY <1>2 DEF BecomePrimary
  <2> QED  BY <2>1, <1>t, <1>p DEF TypeOK
<1>3. CASE BecomeStandby(s, e)
  BY <1>3, <1>t, <1>w DEF BecomeStandby
<1>4. CASE TakeDown(s, e)
  BY <1>4, <1>t DEF TakeDown, TypeOK
<1>5. CASE TransitionRaises(s, e)
  <2>1. PICK work \in {"primary", "detach", "standby", "down"} :
           /\ Starting(s, e, work)
           /\ \/ /\ mode' \in {mode, Set(mode, s, ModeFor(s, work))}
                 /\ UNCHANGED <<health, db, triggers>>
              \/ /\ SetTraffic(s, work)
                 /\ \/ UNCHANGED <<db, triggers>>
                    \/ work \in {"primary", "detach"} /\ DeployPrimary(s) /\ UNCHANGED triggers
                    \/ /\ work = "standby" /\ patroni[s] # "standby_leader"
                       /\ db' \in {db, Set(db, s, "rebuilding")}
                       /\ triggers' = Set(triggers, s, {})
    BY <1>5 DEF TransitionRaises
  <2>2. mode' \in [Sites -> Modes] /\ health' \in [Sites -> BOOLEAN]
    BY <2>1, <1>t
  <2>3. CASE UNCHANGED <<db, triggers>>
    BY <2>2, <2>3 DEF TypeOK
  <2>4. CASE work \in {"primary", "detach"} /\ DeployPrimary(s) /\ UNCHANGED triggers
    BY <2>1, <2>2, <2>4, <1>p DEF TypeOK
  <2>5. CASE /\ work = "standby" /\ db' \in {db, Set(db, s, "rebuilding")}
             /\ triggers' = Set(triggers, s, {})
    BY <2>1, <2>2, <2>5, <1>w
  <2> QED  BY <2>1, <2>3, <2>4, <2>5
<1> QED  BY <1>1, <1>2, <1>3, <1>4, <1>5, Zenon DEF HandleEvent

LEMMA Handling ==
    ASSUME NEW s \in Sites, HandleState(s)
    PROVE  \E e \in StateEvents(s) : Consume(s, e) /\ HandleEvent(s, e)
BY DEF HandleState, HandleEvent, AdoptFresh, NothingToDo, Abort, AskConsent, BecomePrimary,
       BecomeStandby, TakeDown, NoteState, TransitionRaises, Starting

LEMMA TypeInit == Init => TypeOK
<1> SUFFICES ASSUME Init PROVE TypeOK
  OBVIOUS
<1>1. PICK start \in Starts :
          LET last == IF start = "fresh" THEN "" ELSE "active-passive" IN
          /\ cm = [s \in Sites |-> [last |-> last, transition |-> ""]]
          /\ db = [s \in Sites |-> IF start = "serving" /\ s = PassiveSite
                                   THEN "standby" ELSE "leader"]
  BY DEF Init
<1>2. cm \in [Sites -> Snapshots] /\ db \in [Sites -> Databases]
  BY <1>1 DEF Snapshots, StableStates, Databases
<1>3. \A s \in Sites : <<cm[s]>> \in Seq(Snapshots)
  BY <1>2, QueueOfOne
<1>4. watch \in [Sites -> Seq(Snapshots)]
  BY <1>3 DEF Init
<1> QED  BY <1>2, <1>4, EmptySeq DEF Init, TypeOK, Appearances, Modes

LEMMA OrderTypes ==
    ASSUME TypeOK, NEW s \in Sites, inbox[s] # <<>>
    PROVE  /\ Head(inbox[s]) \in Range(inbox[s]) /\ Head(inbox[s]) \in Messages
           /\ Tail(inbox[s]) \in Seq(Messages)
           /\ Range(Tail(inbox[s])) \subseteq Range(inbox[s])
           /\ Head(inbox[s]).event = "transition_to" =>
                /\ Head(inbox[s]).state \in Transitions
                /\ [cm[s] EXCEPT !.transition = Head(inbox[s]).state] \in Snapshots
           /\ Head(inbox[s]).event = "confirm_happy_to_proceed" => Head(inbox[s]).item \in Snapshots
           /\ Head(inbox[s]).event = "yes_happy_to_proceed" => Head(inbox[s]).item \in Snapshots
<1>1. inbox[s] \in Seq(Messages) /\ cm[s] \in Snapshots
  BY DEF TypeOK
<1>2. /\ Head(inbox[s]) \in Range(inbox[s]) /\ Head(inbox[s]) \in Messages
      /\ Tail(inbox[s]) \in Seq(Messages)
      /\ Range(Tail(inbox[s])) \subseteq Range(inbox[s])
  BY <1>1, QueueTaken
<1> QED  BY <1>1, <1>2 DEF Messages, Snapshots

LEMMA TypeStep ==
    ASSUME TypeOK, [Next]_vars
    PROVE  TypeOK'
<1>1. ASSUME NEW s \in Sites, HandleState(s)
      PROVE  TypeOK'
  <2>1. PICK e \in StateEvents(s) : Consume(s, e) /\ HandleEvent(s, e)
    BY <1>1, Handling
  <2> QED  BY <2>1, HandlerTypes, Recording, Sending, Working DEF TypeOK
<1>2. ASSUME NEW s \in Sites, TakeOrder(s)
      PROVE  TypeOK'
  <2> DEFINE data == [cm[s] EXCEPT !.transition = Head(inbox[s]).state]
  <2>1. inbox[s] # <<>> /\ Head(inbox[s]).event = "transition_to"
    BY <1>2 DEF TakeOrder, FromPeer
  <2>2. data \in Snapshots /\ watch[s] \in Seq(Snapshots) /\ Tail(inbox[s]) \in Seq(Messages)
    BY <2>1, OrderTypes DEF TypeOK
  <2>3. Write(s, watch[s], data, FALSE)
    BY <1>2 DEF TakeOrder
  <2>4. cm' \in [Sites -> Snapshots] /\ watch' \in [Sites -> Seq(Snapshots)]
    <3> HIDE DEF data
    <3> QED  BY <2>2, <2>3, PatchEffect DEF Patched
  <2> QED  BY <1>2, <2>2, <2>4 DEF TakeOrder, TypeOK, Set, databases, traffic
<1>3. ASSUME NEW s \in Sites, Confirm(s)
      PROVE  TypeOK'
  <2> DEFINE answer == [event |-> "yes_happy_to_proceed", item |-> Head(inbox[s]).item]
  <2>1. inbox[s] # <<>> /\ Head(inbox[s]).event = "confirm_happy_to_proceed"
    BY <1>3 DEF Confirm, FromPeer
  <2>2. answer \in Messages /\ Tail(inbox[s]) \in Seq(Messages)
    BY <2>1, OrderTypes DEF Messages
  <2>3. Forward(s, answer) \/ outbox' = outbox
    BY <1>3 DEF Confirm
  <2>4. outbox' \in [Sites -> Seq(Messages)]
    <3> HIDE DEF answer
    <3> QED  BY <2>2, <2>3, ForwardEffect DEF TypeOK
  <2> QED  BY <1>3, <2>2, <2>4 DEF Confirm, TypeOK, Set, databases, traffic
<1>4. ASSUME NEW s \in Sites, Poll(s) \/ Rebuilt(s) \/ PeerChanges(s)
      PROVE  TypeOK'
  <2>1. Shown(db[s]) \in Appearances /\ "standby" \in Databases
    BY DEF TypeOK, Shown, Databases, Appearances
  <2>2. CASE Poll(s)
    BY <2>1, <2>2 DEF Poll, TypeOK, Set, traffic
  <2>3. CASE Rebuilt(s)
    BY <2>1, <2>3 DEF Rebuilt, TypeOK, Set, traffic
  <2>4. CASE PeerChanges(s)
    BY <2>4 DEF PeerChanges, TypeOK, Set, databases, traffic
  <2> QED  BY <1>4, <2>2, <2>3, <2>4
<1>5. ASSUME NEW s \in Sites, HearPatroni(s)
      PROVE  TypeOK'
  <2>1. cm' \in [Sites -> Snapshots] /\ watch' \in [Sites -> Seq(Snapshots)]
        /\ triggers' \in [Sites -> SUBSET StableStates]
    <3>1. CASE UNCHANGED <<cm, watch, triggers>>
      BY <3>1 DEF TypeOK
    <3>2. CASE /\ \E t \in triggers[s] : SaveState(s, watch[s], t)
               /\ triggers' = Set(triggers, s, {})
      <4>1. PICK t \in StableStates : SaveState(s, watch[s], t)
        BY <3>2 DEF TypeOK
      <4> DEFINE data == [last |-> t, transition |-> ""]
      <4>2. data \in Snapshots /\ watch[s] \in Seq(Snapshots)
        BY DEF TypeOK, Snapshots
      <4>3. Write(s, watch[s], data, TRUE)
        BY <4>1 DEF SaveState
      <4>4. Patched(s, watch[s], data)
        <5> HIDE DEF data
        <5> QED  BY <4>2, <4>3, PatchEffect
      <4> QED  BY <3>2, <4>4 DEF Patched, Set, TypeOK
    <3> QED  BY <1>5, <3>1, <3>2 DEF HearPatroni
  <2> QED  BY <1>5, <2>1 DEF HearPatroni, TypeOK, Set, traffic
<1>6. ASSUME NEW s \in Sites, Deliver(s)
      PROVE  TypeOK'
  <2>1. outbox[s] # <<>> /\ outbox[s] \in Seq(Messages)
    BY <1>6 DEF Deliver, TypeOK
  <2>2. Head(outbox[s]) \in Messages /\ Tail(outbox[s]) \in Seq(Messages)
    BY <2>1, QueueTaken
  <2>3. PICK n \in Copies : inbox' = Received(s, n)
    BY <1>6 DEF Deliver
  <2>4. n \in Nat \ {0} /\ Other(s) \in Sites
    BY SwitchoverAssumption, SiteNames DEF Copies
  <2>5. inbox[Other(s)] \o [i \in 1 .. n |-> Head(outbox[s])] \in Seq(Messages)
    BY <2>2, <2>4, QueueOfCopies DEF TypeOK
  <2>6. inbox' \in [Sites -> Seq(Messages)]
    BY <2>3, <2>4, <2>5 DEF Received, Set, TypeOK
  <2> QED  BY <1>6, <2>2, <2>6 DEF Deliver, TypeOK, Set, databases, traffic
<1>7. ASSUME NEW s \in Sites, Drop(s)
      PROVE  TypeOK'
  <2>1. outbox[s] # <<>> /\ outbox[s] \in Seq(Messages)
    BY <1>7 DEF Drop, TypeOK
  <2>2. Tail(outbox[s]) \in Seq(Messages)
    BY <2>1, QueueTaken
  <2> QED  BY <1>7, <2>2 DEF Drop, TypeOK, Set, databases, traffic
<1>8. ASSUME NEW s \in Sites, (\E t \in Transitions : OperatorAsks(s, t)) \/ DnsFailover(s)
      PROVE  TypeOK'
  <2>1. PICK t \in Transitions : Patch(s, watch[s], [cm[s] EXCEPT !.transition = t], FALSE)
    BY <1>8 DEF OperatorAsks, DnsFailover, Transitions
  <2> DEFINE data == [cm[s] EXCEPT !.transition = t]
  <2>2. data \in Snapshots /\ watch[s] \in Seq(Snapshots)
    BY RequestWritten DEF TypeOK
  <2>3. cm' \in [Sites -> Snapshots] /\ watch' \in [Sites -> Seq(Snapshots)]
    <3>1. Patch(s, watch[s], data, FALSE)
      BY <2>1
    <3> HIDE DEF data
    <3> QED  BY <2>2, <3>1, PatchEffect DEF Patched
  <2>4. /\ requests' = requests + 1
        /\ UNCHANGED <<view, inbox, outbox, peer, databases, traffic>>
    BY <1>8 DEF OperatorAsks, DnsFailover, databases, traffic
  <2> QED  BY <2>3, <2>4 DEF TypeOK, databases, traffic
<1>9. ASSUME NEW s \in Sites, Restart(s)
      PROVE  TypeOK'
  <2>1. <<cm[s]>> \in Seq(Snapshots)
    BY QueueOfOne DEF TypeOK
  <2> QED  BY <1>9, <2>1, EmptySeq DEF Restart, TypeOK, Set, traffic
<1>10. CASE UNCHANGED vars
  BY <1>10 DEF vars, databases, traffic, TypeOK
<1> QED  BY <1>1, <1>2, <1>3, <1>4, <1>5, <1>6, <1>7, <1>8, <1>9, <1>10 DEF Next

\* In every state the sites' records, queues and databases are of the kinds the
\* code gives them, whatever the faults and the requests.
THEOREM TypeCorrect == Spec => []TypeOK
<1> QED  BY TypeInit, TypeStep, PTL DEF Spec
-----------------------------------------------------------------------------
(* No site is wiped unless the other one leads.                            *)

\* What operators keep to: one request at a time, the passive site's rebuild is
\* ordered by the active one only.  The sites may raise or restart, not both: a
\* restart handles a request again that a call left in the ConfigMap.
Coordinated ==
    /\ Patient /\ ~Automation
    /\ <<PassiveSite, "active-passive">> \notin OperatorMayAsk
    /\ ~({"call", "restart"} \subseteq Faults)

\* The transition a message is about.
Demand(m) == IF m.event = "transition_to" THEN m.state ELSE m.item.transition

ToPassive == Range(outbox[ActiveSite]) \cup Range(inbox[PassiveSite])
ToActive  == Range(outbox[PassiveSite]) \cup Range(inbox[ActiveSite])

\* What a ConfigMap asks its handler for.
Asked(s) == {snap.transition : snap \in Range(watch[s])} \cup
            (IF "restart" \in Faults THEN {cm[s].transition} ELSE {})

\* The transitions that are asked for or under way.
InFlight == {t \in Transitions : \/ t \in Asked(ActiveSite) \cup Asked(PassiveSite)
                                 \/ \E m \in ToPassive \cup ToActive : Demand(m) = t}

\* The orders on their way to the passive site's handler.
Ordered == Asked(PassiveSite) \cup {m.state : m \in {m \in ToPassive : m.event = "transition_to"}}

\* The states the passive site is or was in, as far as its handler can know.
Recorded == {cm[PassiveSite].last} \cup {snap.last : snap \in Range(watch[PassiveSite])}
            \cup (IF view[PassiveSite] = None THEN {} ELSE {view[PassiveSite].last})

\* What the agents say to each other.
Consentable(item) == /\ item.transition \in NeedsConsent
                     /\ item.last # "" /\ item.transition # item.last
Outgoing(m) == \/ m.event = "transition_to"
               \/ /\ m.event = "confirm_happy_to_proceed" /\ Consentable(m.item)
                  /\ m.required_state = RequiredState(m.item.transition)
Answer(m) == m.event = "yes_happy_to_proceed" /\ Consentable(m.item)
Channels == (\A m \in ToPassive : Outgoing(m)) /\ (\A m \in ToActive : Answer(m))

\* The last snapshot of a watch is the ConfigMap; when there is none the passive
\* site's handler has seen it, and without raising calls nothing is left of it.
Latest == \A s \in Sites : watch[s] # <<>> => watch[s][Len(watch[s])] = cm[s]
Handled == watch[PassiveSite] = <<>> => view[PassiveSite] = cm[PassiveSite]
Answered == "call" \notin Faults => \A s \in Sites : watch[s] = <<>> => cm[s].transition = ""

\* One transition at a time; the databases it does not wipe are whole, and the
\* agent does not think they lead when they do not.
OneRequest == \A t, u \in InFlight : t = u
NoneEmpty == \A s \in Sites : db[s] # "empty"
Sound(s) == /\ db[s] \in {"leader", "standby"}
            /\ "leader" \in {patroni[s], polled[s]} => db[s] = "leader"
WholeUnlessWiped == \A t \in InFlight : /\ t # "gold-standby" => Sound(ActiveSite)
                                        /\ t # "active-passive" => Sound(PassiveSite)

\* The passive site leads while it is recorded as the primary one.  It becomes
\* a standby only if nothing says so any more, ...
PassiveLeads == "golddr-primary" \in Recorded => db[PassiveSite] = "leader"
OneRecord == "active-passive" \in InFlight /\ "golddr-primary" \in Recorded
             => Recorded = {"golddr-primary"}
Waiting == /\ triggers[PassiveSite] \subseteq {"active-passive"}
           /\ triggers[PassiveSite] # {} => /\ InFlight \subseteq {"active-passive"}
                                            /\ "golddr-primary" \notin Recorded

\* ... on an order sent while the active site leads, and the active site becomes
\* one on a consent given while the passive site leads.
OrderLed == "active-passive" \in Ordered => db[ActiveSite] = "leader"
ConsentLed == (\E m \in ToActive : m.item.transition = "gold-standby") => db[PassiveSite] = "leader"

WipeInv == /\ TypeOK /\ Channels /\ Latest /\ Handled /\ Answered
           /\ OneRequest /\ NoneEmpty /\ WholeUnlessWiped
           /\ PassiveLeads /\ OneRecord /\ Waiting /\ OrderLed /\ ConsentLed

\* Where the event that a handler acts on comes from.
LEMMA EventSource ==
    ASSUME TypeOK, Channels, NEW s \in Sites, NEW e \in StateEvents(s)
    PROVE  /\ ~e.peer_ok => e.snap \in Range(watch[s])
           /\ e.peer_ok => /\ s = ActiveSite /\ Consentable(e.snap)
                           /\ \E m \in ToActive : m.item = e.snap
           /\ e.snap.transition \in Transitions => e.snap.transition \in InFlight
<1>1. watch[s] # <<>> => Head(watch[s]) \in Range(watch[s])
  BY QueueTaken DEF TypeOK
<1>2. inbox[s] # <<>> => Head(inbox[s]) \in Range(inbox[s])
  BY QueueTaken DEF TypeOK
<1>3. s = ActiveSite \/ s = PassiveSite
  BY SiteNames
<1>4. CASE ~e.peer_ok /\ e.snap \in Range(watch[s])
  BY <1>3, <1>4 DEF InFlight, Asked
<1>5. CASE /\ e.peer_ok /\ inbox[s] # <<>> /\ e.snap = Head(inbox[s]).item
           /\ Head(inbox[s]).event = "yes_happy_to_proceed"
  <2> DEFINE m == Head(inbox[s])
  <2>1. m \in Range(inbox[s])
    BY <1>2, <1>5
  <2>2. s # PassiveSite
    BY <1>5, <2>1 DEF Channels, ToPassive, Outgoing
  <2>3. m \in ToActive /\ Answer(m)
    BY <1>3, <2>1, <2>2 DEF ToActive, Channels
  <2>4. Demand(m) = e.snap.transition
    BY <1>5 DEF Demand
  <2> QED  BY <1>3, <1>5, <2>2, <2>3, <2>4 DEF Answer, InFlight
<1> QED  BY <1>1, <1>4, <1>5, EventTypes

\* A site that starts to lead has the data, and leads afterwards.
LEMMA Promotion ==
    ASSUME WipeInv, NEW s \in Sites, NEW e \in StateEvents(s),
           Starting(s, e, "primary") \/ Starting(s, e, "detach")
    PROVE  /\ db[s] \in {"leader", "standby"}
           /\ DeployPrimary(s) => db'[s] = "leader"
<1>1. Asks(e) /\ Work(s, e.snap.transition) \in {"primary", "detach"}
  BY DEF Starting
<1>2. e.snap.transition \in InFlight
  BY <1>1, StartingWork, EventSource DEF WipeInv
<1>3. /\ s = ActiveSite => e.snap.transition # "gold-standby"
      /\ s = PassiveSite => e.snap.transition # "active-passive"
  BY <1>1, StartingWork DEF WipeInv
<1>4. Sound(s)
  BY <1>2, <1>3, SiteNames DEF WipeInv, WholeUnlessWiped
<1>5. db \in [Sites -> Databases]
  BY DEF WipeInv, TypeOK
<1> QED  BY <1>4, <1>5 DEF Sound, DeployPrimary, BelievesLeader, Promoted, Set

\* When a site may be wiped: the active one on a consent, the passive one on an
\* order.
MayWipe(s) ==
    \/ /\ s = ActiveSite /\ "gold-standby" \in InFlight /\ db[PassiveSite] = "leader"
       /\ \E m \in ToActive : m.item.transition = "gold-standby"
    \/ /\ s = PassiveSite /\ "active-passive" \in InFlight /\ db[ActiveSite] = "leader"
       /\ "golddr-primary" \notin Recorded

LEMMA StandbyStarts ==
    ASSUME WipeInv, NEW s \in Sites, NEW e \in StateEvents(s), Starting(s, e, "standby")
    PROVE  MayWipe(s)
<1>1. /\ Asks(e) /\ Work(s, e.snap.transition) = "standby"
      /\ ~MustConfirm(s, e) /\ ~Aborts(s, e)
  BY DEF Starting
<1>2. e.snap.transition \in InFlight
  BY <1>1, StartingWork, EventSource DEF WipeInv
<1>3. CASE s = ActiveSite /\ e.snap.transition = "gold-standby"
  <2>1. e.peer_ok
    BY <1>1, <1>3 DEF MustConfirm, NeedsConsent
  <2>2. PICK m \in ToActive : m.item = e.snap
    BY <2>1, EventSource DEF WipeInv
  <2> QED  BY <1>2, <1>3, <2>2 DEF WipeInv, ConsentLed, MayWipe
<1>4. CASE s = PassiveSite /\ e.snap.transition = "active-passive"
  <2>1. e.snap \in Range(watch[s])
    BY <1>4, SiteNames, EventSource, EventTypes DEF WipeInv
  <2>2. "active-passive" \in Ordered
    BY <1>4, <2>1 DEF Ordered, Asked
  <2>3. e.snap.last \in Recorded /\ e.snap.last # "golddr-primary"
    BY <1>1, <1>4, <2>1 DEF Recorded, Aborts, Refused
  <2>4. "golddr-primary" \notin Recorded
    BY <1>2, <1>4, <2>3 DEF WipeInv, OneRecord
  <2> QED  BY <1>2, <1>4, <2>2, <2>4 DEF WipeInv, OrderLed, MayWipe
<1> QED  BY <1>1, <1>3, <1>4, StartingWork DEF WipeInv

LEMMA DatabaseStep ==
    ASSUME WipeInv, [Next]_vars, NEW r \in Sites
    PROVE  \/ db'[r] = db[r]
           \/ db'[r] = "leader" /\ db[r] # "rebuilding"
           \/ db[r] = "rebuilding" /\ db'[r] = "standby"
           \/ db'[r] = "rebuilding" /\ MayWipe(r)
<1>1. ASSUME NEW s \in Sites, HandleState(s)
      PROVE  \/ db'[r] = db[r]
             \/ db'[r] = "leader" /\ db[r] # "rebuilding"
             \/ db'[r] = "rebuilding" /\ MayWipe(r)
  <2>1. PICK e \in StateEvents(s) : Consume(s, e) /\ HandleEvent(s, e)
    BY <1>1, Handling
  <2>2. /\ r # s => db'[r] = db[r]
        /\ \/ db' = db
           \/ (Starting(s, e, "primary") \/ Starting(s, e, "detach")) /\ DeployPrimary(s)
           \/ Starting(s, e, "standby") /\ db'[s] \in {db[s], "rebuilding"}
    BY <2>1, Working DEF WipeInv
  <2>3. CASE (Starting(s, e, "primary") \/ Starting(s, e, "detach")) /\ DeployPrimary(s)
    BY <2>2, <2>3, Promotion
  <2>4. CASE Starting(s, e, "standby") /\ db'[s] \in {db[s], "rebuilding"}
    BY <2>2, <2>4, StandbyStarts
  <2> QED  BY <2>2, <2>3, <2>4
<1>2. ASSUME NEW s \in Sites, Rebuilt(s)
      PROVE  db'[r] = db[r] \/ (db[r] = "rebuilding" /\ db'[r] = "standby")
  BY <1>2 DEF Rebuilt, Set, WipeInv, TypeOK
<1>3. CASE db' = db
  BY <1>3
<1> QED  BY <1>1, <1>2, <1>3 DEF Next, TakeOrder, Confirm, Poll, HearPatroni, Deliver, Drop,
           PeerChanges, OperatorAsks, DnsFailover, Restart, vars, databases

\* The link and the pods lose and repeat messages, and make none.
LEMMA Carrying ==
    ASSUME TypeOK, NEW s \in Sites, Deliver(s) \/ TakeOrder(s) \/ Drop(s) \/ Restart(s)
    PROVE  ToPassive' \subseteq ToPassive /\ ToActive' \subseteq ToActive
<1>q. \A r \in Sites : /\ inbox[r] # <<>> => Range(Tail(inbox[r])) \subseteq Range(inbox[r])
                       /\ outbox[r] # <<>> => /\ Range(Tail(outbox[r])) \subseteq Range(outbox[r])
                                              /\ Head(outbox[r]) \in Range(outbox[r])
                                              /\ Head(outbox[r]) \in Messages
  BY QueueTaken DEF TypeOK
<1>n. /\ ActiveSite \in Sites /\ PassiveSite \in Sites /\ ActiveSite # PassiveSite
      /\ Other(ActiveSite) = PassiveSite /\ Other(PassiveSite) = ActiveSite
      /\ s = ActiveSite \/ s = PassiveSite
  BY DEF Sites, ActiveSite, PassiveSite, Other
<1>t. inbox \in [Sites -> Seq(Messages)] /\ outbox \in [Sites -> Seq(Messages)]
  BY DEF TypeOK
<1>1. CASE Deliver(s)
  <2>1. PICK n \in Copies : inbox' = Received(s, n)
    BY <1>1 DEF Deliver
  <2>2. n \in Nat \ {0} /\ Head(outbox[s]) \in Messages /\ outbox[s] # <<>>
    BY <1>1, <1>q, SwitchoverAssumption DEF Copies, Deliver
  <2>3. Range(inbox[Other(s)] \o [i \in 1 .. n |-> Head(outbox[s])])
           = Range(inbox[Other(s)]) \cup {Head(outbox[s])}
    <3>1. inbox[Other(s)] \in Seq(Messages)
      BY <1>t, SiteNames
    <3> QED  BY <2>2, <3>1, QueueOfCopies
  <2>4. /\ Range(inbox'[Other(s)]) = Range(inbox[Other(s)]) \cup {Head(outbox[s])}
        /\ inbox'[s] = inbox[s]
        /\ outbox'[Other(s)] = outbox[Other(s)]
        /\ Range(outbox'[s]) \subseteq Range(outbox[s])
    BY <1>1, <1>q, <1>t, <2>1, <2>2, <2>3, SiteNames DEF Deliver, Received, Set
  <2> QED  BY <1>n, <1>q, <2>2, <2>4 DEF ToPassive, ToActive
<1>2. CASE TakeOrder(s) \/ Drop(s) \/ Restart(s)
  <2>1. \A r \in Sites : /\ Range(inbox'[r]) \subseteq Range(inbox[r])
                         /\ Range(outbox'[r]) \subseteq Range(outbox[r])
    BY <1>2, <1>q, <1>t, QueueEmpty DEF TakeOrder, Drop, Restart, FromPeer, Set
  <2> QED  BY <1>n, <2>1 DEF ToPassive, ToActive
<1> QED  BY <1>1, <1>2

\* An order that makes the site the primary one is sent when it is.
Promotes(s, e) == Work(s, e.snap.transition) = "primary" =>
                     Starting(s, e, "primary") /\ DeployPrimary(s) /\ SetTraffic(s, "primary")

\* A handler's step at one site, seen from the messages: what is sent to the
\* passive site, ...
LEMMA MailToPassive ==
    ASSUME TypeOK, Channels, [Next]_vars, NEW m \in ToPassive', m \notin ToPassive
    PROVE  /\ Outgoing(m) /\ Demand(m) \in InFlight
           /\ m.event = "transition_to" =>
                \E e \in StateEvents(ActiveSite) :
                   /\ Consume(ActiveSite, e) /\ HandleEvent(ActiveSite, e) /\ m.state = e.snap.transition
                   /\ \E work \in {"primary", "detach", "standby", "down"} : Starting(ActiveSite, e, work)
                   /\ Promotes(ActiveSite, e)
           /\ m.event # "transition_to" =>
                \E e \in StateEvents(ActiveSite) : AskConsent(ActiveSite, e) /\ m.item = e.snap
<1>q. /\ \A s \in Sites : /\ inbox[s] # <<>> => Range(Tail(inbox[s])) \subseteq Range(inbox[s])
                          /\ outbox[s] # <<>> => /\ Range(Tail(outbox[s])) \subseteq Range(outbox[s])
                                                 /\ Head(outbox[s]) \in Range(outbox[s])
      /\ inbox \in [Sites -> Seq(Messages)] /\ outbox \in [Sites -> Seq(Messages)]
  BY QueueTaken DEF TypeOK
<1>n. ActiveSite \in Sites /\ PassiveSite \in Sites /\ ActiveSite # PassiveSite
      /\ Other(ActiveSite) = PassiveSite /\ Other(PassiveSite) = ActiveSite
  BY DEF Sites, ActiveSite, PassiveSite, Other
<1>0. m \in Range(outbox'[ActiveSite]) \/ m \in Range(inbox'[PassiveSite])
  BY DEF ToPassive
<1>1. ASSUME NEW s \in Sites, HandleState(s)
      PROVE  /\ Outgoing(m) /\ Demand(m) \in InFlight
             /\ m.event = "transition_to" =>
                  \E e \in StateEvents(ActiveSite) :
                     /\ Consume(ActiveSite, e) /\ HandleEvent(ActiveSite, e) /\ m.state = e.snap.transition
                     /\ \E work \in {"primary", "detach", "standby", "down"} : Starting(ActiveSite, e, work)
                     /\ Promotes(ActiveSite, e)
             /\ m.event # "transition_to" =>
                  \E e \in StateEvents(ActiveSite) : AskConsent(ActiveSite, e) /\ m.item = e.snap
  <2>1. PICK e \in StateEvents(s) : Consume(s, e) /\ HandleEvent(s, e)
    BY <1>1, Handling
  <2>2. Range(inbox'[PassiveSite]) \subseteq Range(inbox[PassiveSite])
    BY <2>1, <1>n, <1>q, EventTypes DEF Consume, Set
  <2>3. m \in Range(outbox'[ActiveSite]) /\ m \notin Range(outbox[ActiveSite])
    BY <2>2, <1>0 DEF ToPassive
  <2>4. s = ActiveSite /\ Sends(s, e)
    BY <2>1, <2>3, <1>n, Sending
  <2>5. /\ Asks(e)
        /\ \/ /\ m = [event |-> "transition_to", state |-> e.snap.transition]
              /\ Work(s, e.snap.transition) = "primary" =>
                    Starting(s, e, "primary") /\ DeployPrimary(s) /\ SetTraffic(s, "primary")
           \/ /\ m = [event |-> "confirm_happy_to_proceed", item |-> e.snap,
                      required_state |-> RequiredState(e.snap.transition)]
              /\ e.snap.transition \in NeedsConsent
    BY <2>3, <2>4 DEF Sends
  <2>6. e.snap.transition \in InFlight
    BY <2>5, StartingWork, EventSource
  <2>7. Demand(m) = e.snap.transition /\ Outgoing(m)
    <3>1. CASE m = [event |-> "transition_to", state |-> e.snap.transition]
      BY <3>1 DEF Demand, Outgoing
    <3>2. CASE /\ m = [event |-> "confirm_happy_to_proceed", item |-> e.snap,
                       required_state |-> RequiredState(e.snap.transition)]
               /\ e.snap.transition \in NeedsConsent
      <4>1. /\ m.event = "confirm_happy_to_proceed" /\ m.item = e.snap
            /\ m.required_state = RequiredState(e.snap.transition)
        BY <3>2
      <4> QED  BY <2>5, <3>2, <4>1 DEF Demand, Outgoing, Consentable, Asks
    <3> QED  BY <2>5, <3>1, <3>2
  <2>9. ASSUME m.event # "transition_to"
        PROVE  AskConsent(s, e) /\ m.item = e.snap
    BY <2>3, <2>4, <2>9 DEF Sends
  <2>10. ASSUME m.event = "transition_to"
         PROVE  /\ m.state = e.snap.transition
                /\ \E work \in {"primary", "detach", "standby", "down"} : Starting(s, e, work)
                /\ Promotes(s, e)
    BY <2>3, <2>4, <2>10 DEF Sends, Promotes
  <2> QED  BY <2>1, <2>4, <2>6, <2>7, <2>9, <2>10
<1>2. ASSUME NEW s \in Sites, Confirm(s)
      PROVE  FALSE
  <2>1. /\ inbox[s] # <<>> /\ Head(inbox[s]).event = "confirm_happy_to_proceed"
        /\ Head(inbox[s]) \in Range(inbox[s]) /\ Range(inbox'[s]) \subseteq Range(inbox[s])
        /\ \A r \in Sites \ {s} : inbox'[r] = inbox[r] /\ outbox'[r] = outbox[r]
    BY <1>2, <1>q, OrderTypes DEF Confirm, FromPeer, Set, Forward
  <2>2. s # ActiveSite
    BY <2>1 DEF Channels, ToActive, Answer
  <2> QED  BY <1>0, <1>n, <2>1, <2>2 DEF ToPassive
<1>3. CASE ToPassive' \subseteq ToPassive
  BY <1>3
<1>4. UNCHANGED <<inbox, outbox>> => ToPassive' \subseteq ToPassive
  BY DEF ToPassive
<1> QED  BY <1>1, <1>2, <1>3, <1>4, Carrying DEF Next, Poll, HearPatroni, Rebuilt,
           PeerChanges, OperatorAsks, DnsFailover, vars

\* ... and to the active one.
LEMMA MailToActive ==
    ASSUME TypeOK, Channels, [Next]_vars, NEW m \in ToActive', m \notin ToActive
    PROVE  /\ Answer(m) /\ Demand(m) \in InFlight
           /\ m.item.transition = "gold-standby" => "golddr-primary" \in Recorded
           /\ Confirm(PassiveSite) /\ inbox[PassiveSite] # <<>>
           /\ Happy(PassiveSite, RequiredState(m.item.transition))
           /\ \E q \in ToPassive : q.event # "transition_to" /\ q.item = m.item
<1>q. /\ \A s \in Sites : inbox[s] # <<>> => Range(Tail(inbox[s])) \subseteq Range(inbox[s])
      /\ inbox \in [Sites -> Seq(Messages)] /\ outbox \in [Sites -> Seq(Messages)]
  BY QueueTaken DEF TypeOK
<1>n. ActiveSite \in Sites /\ PassiveSite \in Sites /\ ActiveSite # PassiveSite
  BY DEF Sites, ActiveSite, PassiveSite
<1>0. m \in Range(outbox'[PassiveSite]) \/ m \in Range(inbox'[ActiveSite])
  BY DEF ToActive
<1>1. ASSUME NEW s \in Sites, HandleState(s)
      PROVE  FALSE
  <2>1. PICK e \in StateEvents(s) : Consume(s, e) /\ HandleEvent(s, e)
    BY <1>1, Handling
  <2>2. Range(inbox'[ActiveSite]) \subseteq Range(inbox[ActiveSite])
    BY <2>1, <1>n, <1>q, EventTypes DEF Consume, Set
  <2>3. outbox'[PassiveSite] = outbox[PassiveSite]
    BY <2>1, <1>n, Sending DEF Sends
  <2> QED  BY <1>0, <2>2, <2>3 DEF ToActive
<1>2. ASSUME NEW s \in Sites, Confirm(s)
      PROVE  /\ Answer(m) /\ Demand(m) \in InFlight
             /\ m.item.transition = "gold-standby" => "golddr-primary" \in Recorded
             /\ Confirm(PassiveSite) /\ inbox[PassiveSite] # <<>>
             /\ Happy(PassiveSite, RequiredState(m.item.transition))
             /\ \E q \in ToPassive : q.event # "transition_to" /\ q.item = m.item
  <2> DEFINE asked == Head(inbox[s])
             answer == [event |-> "yes_happy_to_proceed", item |-> asked.item]
  <2>1. /\ inbox[s] # <<>> /\ asked.event = "confirm_happy_to_proceed"
        /\ asked \in Range(inbox[s]) /\ asked.item \in Snapshots
    BY <1>2, OrderTypes DEF Confirm, FromPeer
  <2>2. s = PassiveSite /\ asked \in ToPassive
    BY <2>1, SiteNames DEF Channels, ToActive, ToPassive, Answer
  <2>3. Consentable(asked.item) /\ asked.required_state = RequiredState(asked.item.transition)
    BY <2>1, <2>2 DEF Channels, Outgoing
  <2>4. inbox'[ActiveSite] = inbox[ActiveSite] /\ m \in Range(outbox'[s]) /\ m \notin Range(outbox[s])
    BY <1>0, <1>2, <1>n, <1>q, <2>2 DEF Confirm, Set, ToActive
  <2>5. /\ Happy(s, asked.required_state) /\ Forward(s, answer)
    BY <1>2, <2>4 DEF Confirm
  <2>6. m = answer
    <3>1. answer \in Messages
      BY <2>1 DEF Messages
    <3>2. Range(outbox'[s]) = Range(outbox[s]) \cup {answer}
      <4> HIDE DEF answer
      <4> QED  BY <2>5, <3>1, ForwardEffect
    <3> QED  BY <2>4, <3>2
  <2>7. Answer(m) /\ m.item = asked.item /\ Demand(m) = asked.item.transition
    BY <2>3, <2>6 DEF Answer, Demand
  <2>8. Demand(asked) = asked.item.transition /\ asked.item.transition \in Transitions
    BY <2>1, <2>3 DEF Demand, Consentable, NeedsConsent, Transitions
  <2>9. Demand(m) \in InFlight
    BY <2>2, <2>7, <2>8 DEF InFlight
  <2>10. ASSUME m.item.transition = "gold-standby"
         PROVE  "golddr-primary" \in Recorded
    <3>1. asked.required_state = "golddr-primary"
      BY <2>3, <2>7, <2>10 DEF RequiredState
    <3>2. view[PassiveSite] = [last |-> "golddr-primary", transition |-> ""]
      BY <2>2, <2>5, <3>1 DEF Happy
    <3>3. view[PassiveSite] # None /\ view[PassiveSite].last = "golddr-primary"
      <4>1. "golddr-primary" \in StableStates
        BY DEF StableStates
      <4> QED  BY <3>2, <4>1, SettledSnapshot, NoneDistinct
    <3> QED  BY <3>3 DEF Recorded
  <2>11. Happy(PassiveSite, RequiredState(m.item.transition))
    BY <2>2, <2>3, <2>5, <2>7
  <2> QED  BY <1>2, <2>1, <2>2, <2>7, <2>9, <2>10, <2>11
<1>3. CASE ToActive' \subseteq ToActive
  BY <1>3
<1>4. UNCHANGED <<inbox, outbox>> => ToActive' \subseteq ToActive
  BY DEF ToActive
<1> QED  BY <1>1, <1>2, <1>3, <1>4, Carrying DEF Next, Poll, HearPatroni, Rebuilt,
           PeerChanges, OperatorAsks, DnsFailover, vars

\* ConfigMaps ask for what they were asked for, or what an order says.
LEMMA AskedStep ==
    ASSUME TypeOK, Channels, Latest, [Next]_vars, NEW r \in Sites,
           ~\E s \in Sites : (\E t \in Transitions : OperatorAsks(s, t)) \/ DnsFailover(s),
           NEW t \in Asked(r)'
    PROVE  \/ t = "" \/ t \in Asked(r)
           \/ \E m \in Range(inbox[r]) : /\ TakeOrder(r) /\ r = PassiveSite /\ m \in ToPassive
                                         /\ m.event = "transition_to" /\ m.state = t
<1>0. t \in {snap.transition : snap \in Range(watch'[r])} \/ ("restart" \in Faults /\ t = cm'[r].transition)
  BY DEF Asked
<1>k. ASSUME cm'[r] = cm[r], Range(watch'[r]) \subseteq Range(watch[r])
      PROVE  t \in Asked(r)
  BY <1>0, <1>k DEF Asked
<1>w. ASSUME NEW queue, Range(queue) \subseteq Range(watch[r]), cm'[r].transition = "",
             Range(watch'[r]) = Range(queue) \cup {cm'[r]}
      PROVE  t = "" \/ t \in Asked(r)
  BY <1>0, <1>w DEF Asked
<1>1. ASSUME NEW s \in Sites, HandleState(s)
      PROVE  t = "" \/ t \in Asked(r)
  <2>1. PICK e \in StateEvents(s) : Consume(s, e) /\ HandleEvent(s, e)
    BY <1>1, Handling
  <2>2. /\ r # s => cm'[r] = cm[r] /\ watch'[r] = watch[r]
        /\ Writes(s, e) \/ WritesNothing(s, e)
        /\ Range(e.watch) \subseteq Range(watch[s])
    BY <2>1, Recording, EventTypes
  <2>3. CASE r # s \/ WritesNothing(s, e)
    BY <2>2, <2>3, <1>k DEF WritesNothing
  <2>4. CASE r = s /\ Writes(s, e) /\ cm'[s].transition = ""
    BY <2>2, <2>4, <1>w DEF Writes
  <2>5. CASE r = s /\ Writes(s, e) /\ cm'[s].transition = cm[s].transition /\ e.snap.last = ""
    <3>1. ~e.peer_ok
      BY <2>5, EventSource DEF Consentable
    <3>2. watch[s] # <<>> /\ watch[s] \in Seq(Snapshots)
      BY <3>1, EventTypes DEF TypeOK
    <3>3. watch[s][Len(watch[s])] \in Range(watch[s])
      BY <3>2, EmptySeq, RangeEquality
    <3>4. cm[s] \in Range(watch[s])
      BY <3>2, <3>3 DEF Latest
    <3> QED  BY <1>0, <2>2, <2>5, <3>4 DEF Asked, Writes
  <2> QED  BY <2>2, <2>3, <2>4, <2>5 DEF Writes
<1>2. ASSUME NEW s \in Sites, TakeOrder(s)
      PROVE  \/ t = "" \/ t \in Asked(r)
             \/ \E m \in Range(inbox[r]) : /\ TakeOrder(r) /\ r = PassiveSite /\ m \in ToPassive
                                           /\ m.event = "transition_to" /\ m.state = t
  <2> DEFINE m == Head(inbox[s])
             data == [cm[s] EXCEPT !.transition = m.state]
  <2>1. /\ m \in Range(inbox[s]) /\ m.event = "transition_to" /\ data \in Snapshots
        /\ watch[s] \in Seq(Snapshots) /\ cm[s] \in Snapshots
    BY <1>2, OrderTypes DEF TakeOrder, FromPeer, TypeOK
  <2>2. s = PassiveSite /\ m \in ToPassive
    BY <2>1, SiteNames DEF Channels, ToActive, ToPassive, Answer
  <2>3. Write(s, watch[s], data, FALSE)
    BY <1>2 DEF TakeOrder
  <2>4. Patched(s, watch[s], data)
    <3> HIDE DEF data
    <3> QED  BY <2>1, <2>3, PatchEffect
  <2>5. data.transition = m.state
    BY <2>1 DEF Snapshots
  <2>6. CASE r # s \/ (cm'[s] = cm[s] /\ watch'[s] = watch[s])
    BY <2>4, <2>6, <1>k DEF Patched
  <2>7. CASE r = s /\ cm'[s] = data /\ Range(watch'[s]) = Range(watch[s]) \cup {data}
    <3>1. t \in Asked(r) \/ t = m.state
      BY <1>0, <2>5, <2>7 DEF Asked
    <3> QED  BY <1>2, <2>1, <2>2, <2>7, <3>1
  <2> QED  BY <2>4, <2>6, <2>7 DEF Patched
<1>3. ASSUME NEW s \in Sites, HearPatroni(s)
      PROVE  t = "" \/ t \in Asked(r)
  <2>1. CASE UNCHANGED <<cm, watch>>
    BY <2>1, <1>k
  <2>2. CASE \E u \in triggers[s] : SaveState(s, watch[s], u)
    <3>1. PICK u \in StableStates : SaveState(s, watch[s], u)
      BY <2>2 DEF TypeOK
    <3> DEFINE data == [last |-> u, transition |-> ""]
    <3>2. data \in Snapshots /\ watch[s] \in Seq(Snapshots) /\ data.transition = ""
      BY DEF TypeOK, Snapshots
    <3>3. Write(s, watch[s], data, TRUE)
      BY <3>1 DEF SaveState
    <3>4. Patched(s, watch[s], data)
      <4> HIDE DEF data
      <4> QED  BY <3>2, <3>3, PatchEffect
    <3> HIDE DEF data
    <3> QED  BY <3>2, <3>4, <1>k, <1>w DEF Patched
  <2> QED  BY <1>3, <2>1, <2>2 DEF HearPatroni
<1>4. ASSUME NEW s \in Sites, Restart(s)
      PROVE  t = "" \/ t \in Asked(r)
  <2>1. CASE r = s
    <3>1. watch'[r] = <<cm[r]>> /\ cm'[r] = cm[r] /\ "restart" \in Faults
      BY <1>4, <2>1 DEF Restart, Set, TypeOK
    <3>2. Range(watch'[r]) = {cm[r]}
      BY <3>1, QueueOfOne
    <3> QED  BY <1>0, <3>1, <3>2 DEF Asked
  <2>2. CASE r # s
    BY <1>4, <2>2, <1>k DEF Restart, Set, TypeOK
  <2> QED  BY <2>1, <2>2
<1>5. CASE UNCHANGED <<cm, watch>>
  BY <1>5, <1>k
<1> QED  BY <1>1, <1>2, <1>3, <1>4, <1>5 DEF Next, Confirm, Poll, Rebuilt, Deliver, Drop,
           PeerChanges, vars

\* Only operators ask for anything new, ...
LEMMA NoNewDemand ==
    ASSUME TypeOK, Channels, Latest, [Next]_vars,
           ~\E s \in Sites : (\E t \in Transitions : OperatorAsks(s, t)) \/ DnsFailover(s)
    PROVE  InFlight' \subseteq InFlight
<1> SUFFICES ASSUME NEW t \in InFlight' PROVE t \in InFlight
  OBVIOUS
<1>1. t \in Transitions /\ t # ""
  BY DEF InFlight, Transitions
<1>2. ASSUME NEW r \in Sites, t \in Asked(r)'
      PROVE  t \in InFlight
  <2>1. r = ActiveSite \/ r = PassiveSite
    BY SiteNames
  <2>2. CASE t \in Asked(r)
    BY <1>1, <2>1, <2>2 DEF InFlight
  <2>3. CASE \E m \in ToPassive : m.event = "transition_to" /\ m.state = t
    BY <1>1, <2>3 DEF InFlight, Demand
  <2> QED  BY <1>1, <1>2, <2>2, <2>3, AskedStep
<1>3. ASSUME NEW m \in (ToPassive \cup ToActive)', Demand(m) = t
      PROVE  t \in InFlight
  <2>1. m \in ToPassive \cup ToActive \/ Demand(m) \in InFlight
    BY <1>3, MailToPassive, MailToActive
  <2> QED  BY <1>1, <1>3, <2>1 DEF InFlight
<1>4. \/ t \in Asked(ActiveSite)' \/ t \in Asked(PassiveSite)'
      \/ \E m \in (ToPassive \cup ToActive)' : Demand(m) = t
  BY DEF InFlight
<1> QED  BY <1>2, <1>3, <1>4, SiteNames

\* The passive site is told to follow by an active one that leads and serves.
LEMMA OrderPromotes ==
    ASSUME WipeInv, [Next]_vars, NEW m \in ToPassive', m \notin ToPassive,
           m.event = "transition_to", m.state = "active-passive"
    PROVE  db'[ActiveSite] = "leader" /\ health'[ActiveSite]
<1>1. PICK e \in StateEvents(ActiveSite) : m.state = e.snap.transition /\ Promotes(ActiveSite, e)
  BY MailToPassive DEF WipeInv
<1>2. Work(ActiveSite, e.snap.transition) = "primary"
  BY <1>1 DEF Work
<1>3. Starting(ActiveSite, e, "primary") /\ DeployPrimary(ActiveSite) /\ SetTraffic(ActiveSite, "primary")
  BY <1>1, <1>2 DEF Promotes
<1>4. health'[ActiveSite]
  BY <1>3, SiteNames DEF SetTraffic, Set, HealthFor, WipeInv, TypeOK
<1> QED  BY <1>3, <1>4, SiteNames, Promotion

\* A new pod finds nothing to do in a ConfigMap whose changes were handled.
Settling == "restart" \in Faults => \A r \in Sites : Quiet(r) => cm[r].transition = ""

\* ... and they do when nothing is asked for or under way.
LEMMA QuietDemand ==
    ASSUME TypeOK, Handled, Patient, <<PassiveSite, "active-passive">> \notin OperatorMayAsk,
           Settling, NEW s \in Sites, NEW t \in Transitions, OperatorAsks(s, t)
    PROVE  /\ InFlight = {} /\ InFlight' \subseteq {t}
           /\ ToPassive' = {} /\ ToActive' = {}
           /\ Recorded = {cm[PassiveSite].last} /\ Recorded' = Recorded
           /\ "active-passive" \notin Ordered'
           /\ \A r \in Sites : Quiet(r) /\ (db[r] # "empty" => Sound(r)')
           /\ triggers' = triggers /\ triggers[PassiveSite] = {}
<1>q. \A r \in Sites : Quiet(r)
  BY DEF OperatorAsks
<1>n. ActiveSite \in Sites /\ PassiveSite \in Sites /\ ActiveSite # PassiveSite
      /\ (s = ActiveSite \/ s = PassiveSite)
  BY DEF Sites, ActiveSite, PassiveSite
<1>u. UNCHANGED <<view, inbox, outbox, db, patroni, polled, triggers>>
  BY DEF OperatorAsks, databases
<1>1. ToPassive = {} /\ ToActive = {}
  BY <1>q, <1>n, QueueEmpty DEF Quiet, ToPassive, ToActive
<1>2. ToPassive' = {} /\ ToActive' = {}
  BY <1>1, <1>u DEF ToPassive, ToActive
<1>3. \A r \in Sites : \A u \in Asked(r) : u = ""
  <2>1. \A r \in Sites : watch[r] = <<>> /\ ("restart" \in Faults => cm[r].transition = "")
    BY <1>q DEF Quiet, Settling
  <2> QED  BY <2>1, QueueEmpty DEF Asked
<1>4. "" \notin Transitions
  BY DEF Transitions
<1>5. InFlight = {}
  BY <1>1, <1>3, <1>4, <1>n DEF InFlight
<1> DEFINE data == [cm[s] EXCEPT !.transition = t]
<1>6. /\ data \in Snapshots /\ watch[s] \in Seq(Snapshots) /\ data.transition = t
      /\ data.last = cm[s].last
  BY RequestWritten DEF TypeOK
<1>7. Patched(s, watch[s], data)
  <2>1. Patch(s, watch[s], data, FALSE)
    BY DEF OperatorAsks
  <2> HIDE DEF data
  <2> QED  BY <1>6, <2>1, PatchEffect
<1> HIDE DEF data
<1>8. /\ \A r \in Sites \ {s} : cm'[r] = cm[r] /\ watch'[r] = watch[r]
      /\ \/ cm'[s] = data /\ Range(watch'[s]) = {data}
         \/ cm'[s] = cm[s] /\ watch'[s] = watch[s]
  BY <1>7, <1>q, QueueEmpty DEF Patched, Quiet
<1>9. /\ \A r \in Sites \ {s} : Asked(r)' = Asked(r)
      /\ \A u \in Asked(s)' : u \in {t} \/ u = ""
  <2>1. \A r \in Sites \ {s} : Asked(r)' = Asked(r)
    BY <1>8 DEF Asked
  <2>2. CASE cm'[s] = data /\ Range(watch'[s]) = {data}
    BY <1>6, <2>1, <2>2 DEF Asked
  <2>3. CASE cm'[s] = cm[s] /\ watch'[s] = watch[s]
    <3>1. Asked(s)' = Asked(s)
      BY <2>3 DEF Asked
    <3> QED  BY <1>3, <2>1, <3>1
  <2> QED  BY <1>8, <2>2, <2>3, <2>1
<1>10. InFlight' \subseteq {t}
  <2>1. \A u \in Asked(ActiveSite)' \cup Asked(PassiveSite)' : u \in {t} \/ u = ""
    BY <1>3, <1>9, <1>n
  <2> QED  BY <1>2, <1>4, <2>1 DEF InFlight
<1>11. Recorded = {cm[PassiveSite].last} /\ Recorded' = Recorded
  <2>1. watch[PassiveSite] = <<>> /\ view[PassiveSite] = cm[PassiveSite]
    BY <1>q, <1>n DEF Quiet, Handled
  <2>2. Recorded = {cm[PassiveSite].last}
    BY <2>1, QueueEmpty DEF Recorded
  <2>3. /\ cm'[PassiveSite].last = cm[PassiveSite].last
        /\ \A snap \in Range(watch'[PassiveSite]) : snap.last = cm[PassiveSite].last
    BY <1>6, <1>8, <1>n, <2>1, QueueEmpty
  <2>4. view'[PassiveSite] = cm[PassiveSite]
    BY <1>u, <2>1
  <2> QED  BY <2>2, <2>3, <2>4 DEF Recorded
<1>12. "active-passive" \notin Ordered'
  <2>1. "active-passive" \notin Asked(PassiveSite)'
    <3>1. CASE s = PassiveSite
      <4>1. t # "active-passive"
        BY <3>1 DEF OperatorAsks
      <4> QED  BY <1>9, <3>1, <4>1
    <3>2. CASE s # PassiveSite
      BY <1>3, <1>9, <1>n, <3>2
    <3> QED  BY <3>1, <3>2
  <2> QED  BY <1>2, <2>1 DEF Ordered
<1>13. ASSUME NEW r \in Sites, db[r] # "empty"
       PROVE  Sound(r)'
  <2>1. /\ patroni[r] = Shown(db[r]) /\ polled[r] = None
        /\ db[r] \in {"leader", "standby"}
    BY <1>q, <1>13 DEF Quiet, TypeOK, Databases
  <2>2. patroni[r] = "leader" => db[r] = "leader"
    BY <2>1 DEF Shown
  <2>3. polled[r] # "leader"
    BY <2>1, NoneDistinct DEF Appearances
  <2> QED  BY <1>u, <2>1, <2>2, <2>3 DEF Sound
<1> QED  BY <1>2, <1>5, <1>10, <1>11, <1>12, <1>13, <1>u, <1>q, <1>n DEF Quiet

LEMMA NewDemand ==
    ASSUME Coordinated, WipeInv, NEW s \in Sites, NEW t \in Transitions, OperatorAsks(s, t)
    PROVE  /\ InFlight = {} /\ InFlight' \subseteq {t}
           /\ ToPassive' = {} /\ ToActive' = {}
           /\ Recorded = {cm[PassiveSite].last} /\ Recorded' = Recorded
           /\ "active-passive" \notin Ordered'
           /\ Sound(ActiveSite)' /\ Sound(PassiveSite)'
           /\ triggers' = triggers /\ triggers[PassiveSite] = {}
<1>1. Settling
  <2>1. \A r \in Sites : Quiet(r) => watch[r] = <<>>
    BY DEF Quiet
  <2> QED  BY <2>1, Zenon DEF Settling, Coordinated, WipeInv, Answered
<1> QED  BY <1>1, QuietDemand, SiteNames DEF Coordinated, WipeInv, NoneEmpty

\* The states the passive site gets into.
LEMMA RecordMoves ==
    ASSUME TypeOK, Channels, [Next]_vars,
           ~\E s \in Sites : (\E t \in Transitions : OperatorAsks(s, t)) \/ DnsFailover(s),
           NEW x \in Recorded'
    PROVE  \/ x \in Recorded
           \/ x = "independent" /\ "" \in Recorded
           \/ /\ x \in {"golddr-primary", "golddr-maintenance"} \cap InFlight
              /\ \E e \in StateEvents(PassiveSite) :
                    /\ Starting(PassiveSite, e, "primary") \/ Starting(PassiveSite, e, "detach")
                    /\ DeployPrimary(PassiveSite)
           \/ /\ x \in {"active-passive", "active-passive-partial"}
              /\ "active-passive" \in InFlight \cap Asked(PassiveSite)
              /\ \E e \in StateEvents(PassiveSite) : Starting(PassiveSite, e, "standby")
           \/ x \in {"gold-standby"} \cap InFlight \cap Asked(PassiveSite)
           \/ x \in triggers[PassiveSite]
<1> DEFINE P == PassiveSite
<1>n. P \in Sites /\ P # ActiveSite
  BY DEF Sites, ActiveSite, PassiveSite
<1>0. \/ x = cm'[P].last \/ \E snap \in Range(watch'[P]) : x = snap.last
      \/ view'[P] # None /\ x = view'[P].last
  BY DEF Recorded
<1>o. /\ cm[P].last \in Recorded /\ \A snap \in Range(watch[P]) : snap.last \in Recorded
      /\ view[P] # None => view[P].last \in Recorded
  BY DEF Recorded
<1>k. ASSUME cm'[P].last \in Recorded, view'[P] \in {view[P], None},
             Range(watch'[P]) \subseteq Range(watch[P]) \cup {cm'[P]}
      PROVE  x \in Recorded
  BY <1>0, <1>o, <1>k
<1>1. ASSUME NEW s \in Sites, HandleState(s), s = P
      PROVE  \/ x \in Recorded
             \/ x = "independent" /\ "" \in Recorded
             \/ /\ x \in {"golddr-primary", "golddr-maintenance"} \cap InFlight
                /\ \E e \in StateEvents(PassiveSite) :
                      /\ Starting(PassiveSite, e, "primary") \/ Starting(PassiveSite, e, "detach")
                      /\ DeployPrimary(PassiveSite)
             \/ /\ x \in {"active-passive", "active-passive-partial"}
                /\ "active-passive" \in InFlight \cap Asked(PassiveSite)
                /\ \E e \in StateEvents(PassiveSite) : Starting(PassiveSite, e, "standby")
             \/ x \in {"gold-standby"} \cap InFlight \cap Asked(PassiveSite)
  <2>1. PICK e \in StateEvents(s) : Consume(s, e) /\ HandleEvent(s, e)
    BY <1>1, Handling
  <2>2. e.snap \in Range(watch[P]) /\ Range(e.watch) \subseteq Range(watch[P])
    BY <1>1, <1>n, EventSource, EventTypes
  <2>3. view'[P] = e.snap
    BY <1>1, <2>1 DEF Consume, Set, TypeOK
  <2>4. e.snap.last \in Recorded
    BY <2>2, <1>o
  <2>5. x \in Recorded \/ (Writes(s, e) /\ x = cm'[P].last)
    <3>1. Writes(s, e) \/ WritesNothing(s, e)
      BY <2>1, Recording
    <3>2. Range(watch'[P]) \subseteq Range(watch[P]) \cup {cm'[P]}
      BY <1>1, <2>2, <3>1 DEF Writes, WritesNothing
    <3> QED  BY <1>0, <1>o, <1>1, <2>3, <2>4, <3>1, <3>2 DEF WritesNothing
  <2>6. CASE LastRecorded(s, e, x)
    <3>1. ASSUME NEW work \in {"primary", "detach", "standby", "down", "note"}, Starting(s, e, work)
          PROVE  /\ e.snap.transition \in InFlight \cap Asked(P) /\ work # "down"
                 /\ work \in {"primary", "detach"} =>
                       e.snap.transition \in {"golddr-primary", "golddr-maintenance"}
                 /\ work = "standby" => e.snap.transition = "active-passive"
                 /\ work = "note" => e.snap.transition = "gold-standby"
      <4>1. Asks(e) /\ Work(s, e.snap.transition) = work
        BY <3>1 DEF Starting
      <4>2. e.snap.transition \in Transitions
        BY <4>1, StartingWork
      <4>3. e.snap.transition \in InFlight \cap Asked(P)
        BY <2>2, <4>2, EventSource DEF Asked
      <4> QED  BY <1>1, <1>n, <4>1, <4>2, <4>3 DEF Work, Transitions
    <3>2. CASE x \in {cm[s].last, e.snap.last}
      BY <1>1, <1>o, <2>4, <3>2
    <3>3. CASE x = "independent" /\ e.snap.last = ""
      BY <2>4, <3>3
    <3>4. CASE /\ Starting(s, e, "primary") \/ Starting(s, e, "detach")
               /\ x = Reached(e.snap.transition) /\ DeployPrimary(s)
      BY <1>1, <3>1, <3>4 DEF Reached
    <3>5. CASE Starting(s, e, "standby") /\ x \in {e.snap.transition, Partial(e.snap.transition)}
      <4>1. /\ e.snap.transition = "active-passive"
            /\ "active-passive" \in InFlight \cap Asked(P)
        BY <3>1, <3>5
      <4>2. x \in {"active-passive", "active-passive-partial"}
        BY <3>5, <4>1 DEF Partial
      <4> QED  BY <1>1, <3>5, <4>1, <4>2
    <3>6. CASE (Starting(s, e, "down") \/ Starting(s, e, "note")) /\ x = e.snap.transition
      BY <3>1, <3>6
    <3> QED  BY <2>6, <3>2, <3>3, <3>4, <3>5, <3>6 DEF LastRecorded
  <2> QED  BY <1>1, <2>5, <2>6 DEF Writes
<1>2. ASSUME NEW s \in Sites, HandleState(s), s # P
      PROVE  x \in Recorded
  <2>1. PICK e \in StateEvents(s) : Consume(s, e) /\ HandleEvent(s, e)
    BY <1>2, Handling
  <2>2. cm'[P] = cm[P] /\ watch'[P] = watch[P] /\ view'[P] = view[P]
    BY <1>2, <1>n, <2>1, Recording DEF Consume, Set, TypeOK
  <2> QED  BY <2>2, <1>o, <1>k
<1>3. ASSUME NEW s \in Sites, TakeOrder(s)
      PROVE  x \in Recorded
  <2> DEFINE data == [cm[s] EXCEPT !.transition = Head(inbox[s]).state]
  <2>1. /\ data \in Snapshots /\ data.last = cm[s].last /\ watch[s] \in Seq(Snapshots)
    BY <1>3, OrderTypes DEF TakeOrder, FromPeer, TypeOK, Snapshots
  <2>2. Write(s, watch[s], data, FALSE) /\ view' = view
    BY <1>3 DEF TakeOrder
  <2> HIDE DEF data
  <2>3. Patched(s, watch[s], data)
    BY <2>1, <2>2, PatchEffect
  <2> QED  BY <1>n, <1>o, <1>k, <2>1, <2>2, <2>3 DEF Patched
<1>4. ASSUME NEW s \in Sites, HearPatroni(s)
      PROVE  x \in Recorded \/ x \in triggers[P]
  <2>1. CASE UNCHANGED <<cm, watch, view>>
    BY <2>1, <1>o, <1>k
  <2>2. CASE \E u \in triggers[s] : SaveState(s, watch[s], u)
    <3>1. PICK u \in triggers[s] : SaveState(s, watch[s], u)
      BY <2>2
    <3> DEFINE data == [last |-> u, transition |-> ""]
    <3>2. u \in StableStates /\ watch[s] \in Seq(Snapshots)
      BY DEF TypeOK
    <3>3. data \in Snapshots /\ data.last = u
      BY <3>2, SettledSnapshot
    <3>4. Write(s, watch[s], data, TRUE) /\ view' = view
      BY <1>4, <3>1 DEF SaveState, HearPatroni
    <3> HIDE DEF data
    <3>5. Patched(s, watch[s], data)
      BY <3>2, <3>3, <3>4, PatchEffect
    <3> QED  BY <1>0, <1>n, <1>o, <3>1, <3>3, <3>4, <3>5 DEF Patched
  <2> QED  BY <1>4, <2>1, <2>2 DEF HearPatroni
<1>5. ASSUME NEW s \in Sites, Restart(s)
      PROVE  x \in Recorded
  <2>1. CASE s = P
    <3>1. watch'[P] = <<cm[P]>> /\ cm'[P] = cm[P] /\ view'[P] = None
      BY <1>5, <2>1 DEF Restart, Set, TypeOK
    <3>2. Range(watch'[P]) = {cm'[P]}
      BY <3>1, QueueOfOne
    <3> QED  BY <1>k, <1>o, <3>1, <3>2
  <2>2. CASE s # P
    <3>1. watch'[P] = watch[P] /\ cm'[P] = cm[P] /\ view'[P] = view[P]
      BY <1>5, <1>n, <2>2 DEF Restart, Set, TypeOK
    <3> QED  BY <1>k, <1>o, <3>1
  <2> QED  BY <2>1, <2>2
<1>6. CASE UNCHANGED <<cm, watch, view>>
  BY <1>6, <1>o, <1>k
<1> QED  BY <1>1, <1>2, <1>3, <1>4, <1>5, <1>6 DEF Next, Confirm, Poll, Rebuilt, Deliver, Drop,
           PeerChanges, vars

LEMMA RecordStep ==
    ASSUME WipeInv, [Next]_vars,
           ~\E s \in Sites : (\E t \in Transitions : OperatorAsks(s, t)) \/ DnsFailover(s),
           NEW x \in Recorded'
    PROVE  \/ x \in Recorded
           \/ x = "independent" /\ "" \in Recorded
           \/ /\ x \in {"golddr-primary", "golddr-maintenance"} \cap InFlight
              /\ db'[PassiveSite] = "leader"
           \/ /\ x \in {"active-passive", "active-passive-partial"}
              /\ "active-passive" \in InFlight \cap Asked(PassiveSite)
              /\ "golddr-primary" \notin Recorded
           \/ x \in {"gold-standby"} \cap InFlight \cap Asked(PassiveSite)
           \/ x \in triggers[PassiveSite]
<1>1. PassiveSite \in Sites /\ PassiveSite # ActiveSite
  BY SiteNames
<1>2. ASSUME NEW e \in StateEvents(PassiveSite), DeployPrimary(PassiveSite),
             Starting(PassiveSite, e, "primary") \/ Starting(PassiveSite, e, "detach")
      PROVE  db'[PassiveSite] = "leader"
  BY <1>1, <1>2, Promotion
<1>3. ASSUME NEW e \in StateEvents(PassiveSite), Starting(PassiveSite, e, "standby")
      PROVE  "golddr-primary" \notin Recorded
  BY <1>1, <1>3, StandbyStarts DEF MayWipe
<1> QED  BY <1>2, <1>3, RecordMoves, Zenon DEF WipeInv

\* The last snapshot, and what is left of a request, after a handler's step ...
LEMMA LatestHandled ==
    ASSUME TypeOK, Channels, Latest, Handled,
           NEW s \in Sites, NEW e \in StateEvents(s), Consume(s, e), HandleEvent(s, e)
    PROVE  Latest' /\ Handled' /\ (WipeInv => Answered')
<1>r. \A r \in Sites \ {s} : cm'[r] = cm[r] /\ watch'[r] = watch[r] /\ view'[r] = view[r]
  BY Recording DEF Consume, Set, TypeOK
<1>s. view'[s] = e.snap
  BY DEF Consume, Set, TypeOK
<1>1. CASE Writes(s, e)
  <2>1. watch'[s] # <<>> /\ watch'[s][Len(watch'[s])] = cm'[s]
    BY <1>1 DEF Writes
  <2> QED  BY <1>r, <2>1, SiteNames DEF Latest, Handled, Answered, WipeInv
<1>2. CASE WritesNothing(s, e)
  <2>1. cm'[s] = cm[s] /\ watch'[s] = e.watch
    BY <1>2 DEF WritesNothing
  <2>2. /\ e.watch # <<>> => e.watch[Len(e.watch)] = cm[s]
        /\ ~e.peer_ok /\ e.watch = <<>> => e.snap = cm[s]
    <3>1. CASE e.peer_ok /\ e.watch = watch[s]
      BY <3>1 DEF Latest
    <3>2. CASE ~e.peer_ok /\ watch[s] # <<>> /\ e.snap = Head(watch[s]) /\ e.watch = Tail(watch[s])
      <4>1. watch[s] \in Seq(Snapshots) /\ watch[s][Len(watch[s])] = cm[s]
        BY <3>2 DEF Latest, TypeOK
      <4> QED  BY <3>2, <4>1, QueueTaken
    <3> QED  BY <3>1, <3>2, EventTypes
  <2>3. Latest'
    BY <1>r, <2>1, <2>2 DEF Latest
  <2>4. Handled'
    <3>1. s = PassiveSite => ~e.peer_ok
      BY SiteNames, EventSource
    <3> QED  BY <1>r, <1>s, <2>1, <2>2, <3>1, SiteNames DEF Handled
  <2>5. ASSUME WipeInv, "call" \notin Faults, watch'[s] = <<>>
        PROVE  cm'[s].transition = ""
    <3>1. e.peer_ok => e.snap.transition # "" /\ e.snap.last # ""
      BY EventSource DEF Consentable, NeedsConsent
    <3>2. CASE cm[s].transition = ""
      BY <2>1, <3>2
    <3>3. CASE e.snap.transition = ""
      BY <2>1, <2>2, <2>5, <3>1, <3>3
    <3>4. CASE e.snap.last = "" /\ cm[s].last = "independent"
      BY <2>1, <2>2, <2>5, <3>1, <3>4
    <3>5. CASE (Starting(s, e, "primary") \/ Starting(s, e, "detach")) /\ db[s] = "rebuilding"
      BY <2>5, <3>5, Promotion
    <3> QED  BY <1>2, <2>5, <3>2, <3>3, <3>4, <3>5 DEF WritesNothing
  <2>6. WipeInv => Answered'
    BY <1>r, <2>5 DEF Answered, WipeInv
  <2> QED  BY <2>3, <2>4, <2>6
<1> QED  BY <1>1, <1>2, Recording

\* ... and after a patch that leaves what was waiting.
LEMMA LatestPatched ==
    ASSUME TypeOK, Latest, Handled,
           NEW s \in Sites, NEW data \in Snapshots, Patched(s, watch[s], data), view' = view
    PROVE  Latest' /\ Handled' /\ (WipeInv => Answered')
<1>p. PassiveSite \in Sites
  BY SiteNames
<1>1. CASE watch'[s] # <<>> /\ watch'[s][Len(watch'[s])] = data /\ cm'[s] = data
  BY <1>1, <1>p DEF Patched, Latest, Handled, Answered, WipeInv
<1>2. CASE cm'[s] = cm[s] /\ watch'[s] = watch[s]
  BY <1>2, <1>p DEF Patched, Latest, Handled, Answered, WipeInv
<1> QED  BY <1>1, <1>2 DEF Patched

LEMMA LatestStep ==
    ASSUME TypeOK, Channels, Latest, Handled, [Next]_vars
    PROVE  Latest' /\ Handled' /\ (WipeInv => Answered')
<1>1. ASSUME NEW s \in Sites, HandleState(s)
      PROVE  Latest' /\ Handled' /\ (WipeInv => Answered')
  BY <1>1, Handling, LatestHandled
<1>2. ASSUME NEW s \in Sites, TakeOrder(s)
      PROVE  Latest' /\ Handled' /\ (WipeInv => Answered')
  <2> DEFINE data == [cm[s] EXCEPT !.transition = Head(inbox[s]).state]
  <2>1. data \in Snapshots /\ watch[s] \in Seq(Snapshots)
    BY <1>2, OrderTypes DEF TakeOrder, FromPeer, TypeOK
  <2>2. Write(s, watch[s], data, FALSE) /\ view' = view
    BY <1>2 DEF TakeOrder
  <2> HIDE DEF data
  <2> QED  BY <2>1, <2>2, PatchEffect, LatestPatched
<1>3. ASSUME NEW s \in Sites, HearPatroni(s), ~UNCHANGED <<cm, watch>>
      PROVE  Latest' /\ Handled' /\ (WipeInv => Answered')
  <2>1. PICK u \in triggers[s] : SaveState(s, watch[s], u)
    BY <1>3 DEF HearPatroni
  <2> DEFINE data == [last |-> u, transition |-> ""]
  <2>2. data \in Snapshots /\ watch[s] \in Seq(Snapshots)
    BY SettledSnapshot DEF TypeOK
  <2>3. Write(s, watch[s], data, TRUE) /\ view' = view
    BY <1>3, <2>1 DEF SaveState, HearPatroni
  <2> HIDE DEF data
  <2> QED  BY <2>2, <2>3, PatchEffect, LatestPatched
<1>4. ASSUME NEW s \in Sites, (\E t \in Transitions : OperatorAsks(s, t)) \/ DnsFailover(s)
      PROVE  Latest' /\ Handled' /\ (WipeInv => Answered')
  <2>1. PICK t \in Transitions : Patch(s, watch[s], [cm[s] EXCEPT !.transition = t], FALSE)
    BY <1>4 DEF OperatorAsks, DnsFailover, Transitions
  <2> DEFINE data == [cm[s] EXCEPT !.transition = t]
  <2>2. data \in Snapshots /\ watch[s] \in Seq(Snapshots)
    BY RequestWritten DEF TypeOK
  <2>3. Patch(s, watch[s], data, FALSE) /\ view' = view
    BY <1>4, <2>1 DEF OperatorAsks, DnsFailover
  <2> HIDE DEF data
  <2> QED  BY <2>2, <2>3, PatchEffect, LatestPatched
<1>5. ASSUME NEW s \in Sites, Restart(s)
      PROVE  Latest' /\ Handled' /\ (WipeInv => Answered')
  <2>1. /\ watch'[s] = <<cm[s]>> /\ cm' = cm
        /\ \A r \in Sites \ {s} : watch'[r] = watch[r] /\ view'[r] = view[r]
    BY <1>5 DEF Restart, Set, TypeOK
  <2>2. watch'[s] # <<>> /\ watch'[s][Len(watch'[s])] = cm'[s]
    BY <2>1, QueueOfOne
  <2> QED  BY <2>1, <2>2, SiteNames DEF Latest, Handled, Answered, WipeInv
<1>6. CASE UNCHANGED <<cm, watch, view>>
  BY <1>6 DEF Latest, Handled, Answered, WipeInv
<1> QED  BY <1>1, <1>2, <1>3, <1>4, <1>5, <1>6 DEF Next, Confirm, Poll, HearPatroni, Rebuilt,
           Deliver, Drop, PeerChanges, vars

\* What an agent hears of Patroni is what Patroni was.
LEMMA PatroniStep ==
    ASSUME TypeOK, [Next]_vars, NEW r \in Sites
    PROVE  /\ \/ patroni'[r] = patroni[r]
              \/ patroni'[r] = polled[r] /\ polled[r] # None
              \/ patroni'[r] = "unknown" /\ "restart" \in Faults
           /\ \/ polled'[r] \in {polled[r], None}
              \/ polled'[r] = Shown(db[r]) /\ db'[r] = db[r] /\ patroni[r] # Shown(db[r])
<1> USE DEF TypeOK, Set, databases
<1>1. ASSUME NEW s \in Sites, HandleState(s)
      PROVE  patroni' = patroni /\ polled' = polled
  BY <1>1, Handling DEF Consume
<1>2. ASSUME NEW s \in Sites, HearPatroni(s)
      PROVE  /\ patroni'[r] = patroni[r] \/ (patroni'[r] = polled[r] /\ polled[r] # None)
             /\ polled'[r] \in {polled[r], None}
  BY <1>2 DEF HearPatroni
<1>3. ASSUME NEW s \in Sites, Poll(s)
      PROVE  /\ patroni' = patroni
             /\ \/ polled'[r] = polled[r]
                \/ polled'[r] = Shown(db[r]) /\ db'[r] = db[r] /\ patroni[r] # Shown(db[r])
  BY <1>3 DEF Poll
<1>4. ASSUME NEW s \in Sites, Restart(s)
      PROVE  /\ patroni'[r] = patroni[r] \/ (patroni'[r] = "unknown" /\ "restart" \in Faults)
             /\ polled'[r] \in {polled[r], None}
  BY <1>4 DEF Restart
<1>5. CASE patroni' = patroni /\ polled' = polled
  BY <1>5
<1> QED  BY <1>1, <1>2, <1>3, <1>4, <1>5 DEF Next, TakeOrder, Confirm, Rebuilt, Deliver, Drop,
           PeerChanges, OperatorAsks, DnsFailover, vars

\* A database that is whole and that no wipe may touch stays so.
LEMMA SoundKept ==
    ASSUME TypeOK, [Next]_vars, NEW r \in Sites, Sound(r), db'[r] = db[r] \/ db'[r] = "leader"
    PROVE  Sound(r)'
<1>1. patroni'[r] = "leader" => db'[r] = "leader"
  BY PatroniStep DEF Sound
<1>2. polled'[r] = "leader" => db'[r] = "leader"
  <2>1. None # "leader"
    BY NoneDistinct DEF Appearances
  <2>2. Shown(db[r]) = "leader" => db[r] = "leader"
    BY DEF Sound, Shown
  <2> QED  BY <2>1, <2>2, PatroniStep DEF Sound
<1> QED  BY <1>1, <1>2 DEF Sound

LEMMA SoundStep ==
    ASSUME WipeInv, [Next]_vars, NEW r \in Sites, Sound(r), ~MayWipe(r)
    PROVE  Sound(r)'
<1>1. db'[r] = db[r] \/ db'[r] = "leader"
  BY DatabaseStep DEF Sound
<1> QED  BY <1>1, SoundKept DEF WipeInv

\* A trigger that waits for Patroni at the passive site was set beside a leader.
LEMMA TriggerStep ==
    ASSUME WipeInv, [Next]_vars
    PROVE  \/ triggers'[PassiveSite] \subseteq triggers[PassiveSite]
           \/ triggers'[PassiveSite] \subseteq {"active-passive"} /\ MayWipe(PassiveSite)
<1> USE DEF WipeInv
<1>n. PassiveSite \in Sites
  BY SiteNames
<1>1. ASSUME NEW s \in Sites, HandleState(s)
      PROVE  \/ triggers'[PassiveSite] \subseteq triggers[PassiveSite]
             \/ triggers'[PassiveSite] \subseteq {"active-passive"} /\ MayWipe(PassiveSite)
  <2>1. PICK e \in StateEvents(s) : Consume(s, e) /\ HandleEvent(s, e)
    BY <1>1, Handling
  <2>2. CASE triggers'[PassiveSite] = triggers[PassiveSite]
    BY <2>2
  <2>3. CASE /\ s = PassiveSite /\ Starting(s, e, "standby")
             /\ triggers'[s] \subseteq {e.snap.transition}
    <3>1. Asks(e) /\ Work(s, e.snap.transition) = "standby"
      BY <2>3 DEF Starting
    <3>2. e.snap.transition = "active-passive"
      BY <2>3, <3>1, StartingWork, SiteNames
    <3> QED  BY <2>3, <3>2, StandbyStarts
  <2> QED  BY <1>n, <2>1, <2>2, <2>3, Working
<1>2. ASSUME NEW s \in Sites, HearPatroni(s) \/ Restart(s)
      PROVE  triggers'[PassiveSite] \subseteq triggers[PassiveSite]
  BY <1>n, <1>2 DEF HearPatroni, Restart, Set, TypeOK
<1>3. CASE triggers' = triggers
  BY <1>3
<1> QED  BY <1>1, <1>2, <1>3 DEF Next, TakeOrder, Confirm, Poll, Rebuilt, Deliver, Drop,
           PeerChanges, OperatorAsks, DnsFailover, vars, databases

LEMMA WipeInvInit == Init => WipeInv
<1> SUFFICES ASSUME Init PROVE WipeInv
  OBVIOUS
<1>1. TypeOK
  BY TypeInit
<1>2. PICK start \in Starts :
          LET last == IF start = "fresh" THEN "" ELSE "active-passive" IN
          /\ cm = [s \in Sites |-> [last |-> last, transition |-> ""]]
          /\ db = [s \in Sites |-> IF start = "serving" /\ s = PassiveSite
                                   THEN "standby" ELSE "leader"]
  BY DEF Init
<1>3. /\ \A s \in Sites : /\ cm[s].transition = "" /\ cm[s].last # "golddr-primary"
                          /\ db[s] \in {"leader", "standby"}
      /\ db[ActiveSite] = "leader"
  BY <1>2 DEF Sites, ActiveSite, PassiveSite
<1>4. \A s \in Sites : /\ watch[s] = <<cm[s]>> /\ view[s] = None
                       /\ inbox[s] = <<>> /\ outbox[s] = <<>>
                       /\ patroni[s] = "unknown" /\ polled[s] = None /\ triggers[s] = {}
  BY DEF Init
<1>5. \A s \in Sites : /\ watch[s] # <<>> /\ watch[s][Len(watch[s])] = cm[s]
                       /\ Range(watch[s]) = {cm[s]}
  <2> SUFFICES ASSUME NEW s \in Sites
               PROVE  /\ watch[s] # <<>> /\ watch[s][Len(watch[s])] = cm[s]
                      /\ Range(watch[s]) = {cm[s]}
    OBVIOUS
  <2>1. cm[s] \in Snapshots /\ watch[s] = <<cm[s]>>
    BY <1>1, <1>4 DEF TypeOK
  <2> QED  BY <2>1, QueueOfOne
<1>n. ActiveSite \in Sites /\ PassiveSite \in Sites
  BY SiteNames
<1>6. ToPassive = {} /\ ToActive = {}
  BY <1>4, <1>n, QueueEmpty DEF ToPassive, ToActive
<1>7. \A s \in Sites : \A t \in Asked(s) : t = ""
  BY <1>3, <1>5 DEF Asked
<1>8. InFlight = {}
  <2>1. "" \notin Transitions
    BY DEF Transitions
  <2> QED  BY <1>6, <1>7, <1>n, <2>1 DEF InFlight
<1>9. "active-passive" \notin Ordered
  BY <1>6, <1>7, <1>n DEF Ordered
<1>10. "golddr-primary" \notin Recorded
  <2>1. /\ cm[PassiveSite].last # "golddr-primary" /\ view[PassiveSite] = None
        /\ Range(watch[PassiveSite]) = {cm[PassiveSite]}
    BY <1>3, <1>4, <1>5, <1>n
  <2> QED  BY <2>1 DEF Recorded
<1>11. Channels /\ Latest /\ Handled /\ Answered
  BY <1>3, <1>5, <1>6, <1>n DEF Channels, Latest, Handled, Answered
<1>12. OneRequest /\ NoneEmpty /\ WholeUnlessWiped
  BY <1>3, <1>8 DEF OneRequest, NoneEmpty, WholeUnlessWiped
<1>13. PassiveLeads /\ OneRecord /\ Waiting /\ OrderLed /\ ConsentLed
  BY <1>4, <1>6, <1>9, <1>10, <1>n DEF PassiveLeads, OneRecord, Waiting, OrderLed, ConsentLed
<1> QED  BY <1>1, <1>11, <1>12, <1>13 DEF WipeInv

LEMMA WipeInvStep ==
    ASSUME Coordinated, WipeInv, [Next]_vars
    PROVE  WipeInv'
<1> USE DEF WipeInv
<1> DEFINE Operator == \E s \in Sites : (\E t \in Transitions : OperatorAsks(s, t)) \/ DnsFailover(s)
<1>t. TypeOK' /\ Latest' /\ Handled' /\ Answered'
  BY TypeStep, LatestStep
<1>c. Channels'
  BY MailToPassive, MailToActive DEF Channels
<1>d. NoneEmpty'
  BY DatabaseStep DEF NoneEmpty
<1>1. CASE Operator
  <2>1. PICK s \in Sites, t \in Transitions : OperatorAsks(s, t)
    BY <1>1 DEF Coordinated, DnsFailover
  <2>2. db' = db
    BY <2>1 DEF OperatorAsks, databases
  <2>3. OneRequest' /\ WholeUnlessWiped'
    BY <2>1, NewDemand DEF OneRequest, WholeUnlessWiped
  <2>4. PassiveLeads' /\ OneRecord'
    BY <2>1, <2>2, NewDemand DEF PassiveLeads, OneRecord
  <2>5. Waiting'
    BY <2>1, NewDemand DEF Waiting
  <2>6. OrderLed' /\ ConsentLed'
    BY <2>1, NewDemand DEF OrderLed, ConsentLed
  <2> QED  BY <1>t, <1>c, <1>d, <2>3, <2>4, <2>5, <2>6
<1>2. CASE ~Operator
  <2>1. InFlight' \subseteq InFlight
    BY <1>2, NoNewDemand
  <2>2. OneRequest'
    BY <2>1 DEF OneRequest
  <2>3. WholeUnlessWiped'
    <3> SUFFICES ASSUME NEW t \in InFlight'
                 PROVE  /\ t # "gold-standby" => Sound(ActiveSite)'
                        /\ t # "active-passive" => Sound(PassiveSite)'
      BY DEF WholeUnlessWiped
    <3>1. t \in InFlight
      BY <2>1
    <3>2. t # "gold-standby" => Sound(ActiveSite) /\ ~MayWipe(ActiveSite)
      BY <3>1, SiteNames DEF WholeUnlessWiped, OneRequest, MayWipe
    <3>3. t # "active-passive" => Sound(PassiveSite) /\ ~MayWipe(PassiveSite)
      BY <3>1, SiteNames DEF WholeUnlessWiped, OneRequest, MayWipe
    <3> QED  BY <3>2, <3>3, SoundStep, SiteNames
  <2>4. db[PassiveSite] = "leader" /\ ~MayWipe(PassiveSite) => db'[PassiveSite] = "leader"
    BY DatabaseStep, SiteNames
  <2>5. db[ActiveSite] = "leader" /\ ~MayWipe(ActiveSite) => db'[ActiveSite] = "leader"
    BY DatabaseStep, SiteNames
  <2>6. "golddr-primary" \in Recorded' =>
           \/ "golddr-primary" \in Recorded
           \/ "golddr-primary" \in InFlight /\ db'[PassiveSite] = "leader"
    BY <1>2, RecordStep DEF Waiting
  <2>7. PassiveLeads'
    BY <2>4, <2>6, SiteNames DEF PassiveLeads, MayWipe
  <2>8. OneRecord'
    <3> SUFFICES ASSUME "active-passive" \in InFlight', "golddr-primary" \in Recorded'
                 PROVE  Recorded' = {"golddr-primary"}
      BY DEF OneRecord
    <3>1. "active-passive" \in InFlight /\ InFlight = {"active-passive"}
      BY <2>1 DEF OneRequest
    <3>2. Recorded = {"golddr-primary"}
      BY <2>6, <3>1 DEF OneRecord
    <3>3. ASSUME NEW x \in Recorded' PROVE x = "golddr-primary"
      BY <1>2, <3>1, <3>2, RecordStep DEF Waiting
    <3> QED  BY <3>3
  <2>9. Waiting'
    <3>1. triggers'[PassiveSite] \subseteq {"active-passive"}
      BY TriggerStep DEF Waiting
    <3>2. ASSUME triggers'[PassiveSite] # {}
          PROVE  InFlight \subseteq {"active-passive"} /\ "golddr-primary" \notin Recorded
      BY <3>2, TriggerStep, SiteNames DEF Waiting, MayWipe, OneRequest
    <3> QED  BY <2>1, <2>6, <3>1, <3>2 DEF Waiting
  <2>10. OrderLed'
    <3> SUFFICES ASSUME "active-passive" \in Ordered' PROVE db'[ActiveSite] = "leader"
      BY DEF OrderLed
    <3>1. "active-passive" \in Ordered \/ db'[ActiveSite] = "leader"
      <4>1. CASE "active-passive" \in Asked(PassiveSite)'
        BY <1>2, <4>1, AskedStep, SiteNames DEF Ordered
      <4>2. CASE \E m \in ToPassive' : m.event = "transition_to" /\ m.state = "active-passive"
        BY <4>2, OrderPromotes DEF Ordered
      <4> QED  BY <4>1, <4>2 DEF Ordered
    <3>2. "active-passive" \in Ordered => "active-passive" \in InFlight
      BY DEF Ordered, InFlight, Demand, Transitions
    <3> QED  BY <2>5, <3>1, <3>2, SiteNames DEF OrderLed, OneRequest, MayWipe
  <2>11. ConsentLed'
    <3> SUFFICES ASSUME NEW m \in ToActive', m.item.transition = "gold-standby"
                 PROVE  db'[PassiveSite] = "leader"
      BY DEF ConsentLed
    <3>1. db[PassiveSite] = "leader"
      BY MailToActive DEF ConsentLed, PassiveLeads
    <3>2. m.event = "yes_happy_to_proceed"
      BY <1>c DEF Channels, Answer
    <3>3. "gold-standby" \in InFlight
      <4>1. Demand(m) = "gold-standby"
        BY <3>2 DEF Demand
      <4>2. m \in ToActive => "gold-standby" \in InFlight
        BY <4>1 DEF InFlight, Transitions
      <4> QED  BY <4>1, <4>2, MailToActive
    <3> QED  BY <2>4, <3>1, <3>3, SiteNames DEF OneRequest, MayWipe
  <2> QED  BY <1>t, <1>c, <1>d, <2>2, <2>3, <2>7, <2>8, <2>9, <2>10, <2>11
<1> QED  BY <1>1, <1>2

\* A site is wiped only while the other one leads with the data: a consent and an
\* order are still true when they are used, however late, lost, repeated or out
\* of order the messages and the ConfigMap events are.
THEOREM WipesAreSafe ==
    ASSUME Coordinated
    PROVE  Spec => WipeOnlyBesideLeader
<1>1. WipeInv /\ [Next]_vars =>
        [\A s \in Sites : db[s] # "rebuilding" /\ db'[s] = "rebuilding"
                          => db[Other(s)] = "leader"]_vars
  <2> SUFFICES ASSUME WipeInv, [Next]_vars, NEW s \in Sites,
                      db[s] # "rebuilding", db'[s] = "rebuilding"
               PROVE  db[Other(s)] = "leader"
    OBVIOUS
  <2> QED  BY DatabaseStep, SiteNames DEF MayWipe, Other
<1>2. WipeInv /\ [Next]_vars => WipeInv'
  BY WipeInvStep
<1> QED  BY <1>1, <1>2, WipeInvInit, PTL DEF Spec, WipeOnlyBesideLeader

\* There is always a site that leads with the data.
THEOREM DataServed ==
    ASSUME Coordinated
    PROVE  Spec => []OneLeads
<1>1. Init => OneLeads
  BY SiteNames DEF Init, OneLeads
<1>2. WipeInv /\ OneLeads /\ [Next]_vars => OneLeads'
  <2> SUFFICES ASSUME WipeInv, [Next]_vars, NEW s \in Sites, db[s] = "leader"
               PROVE  \E r \in Sites : db'[r] = "leader"
    BY DEF OneLeads
  <2>1. CASE MayWipe(s)
    <3>1. Other(s) \in Sites /\ db[Other(s)] = "leader"
      BY <2>1, SiteNames DEF MayWipe, Other
    <3>2. ~MayWipe(Other(s))
      BY <2>1, SiteNames DEF MayWipe, Other, WipeInv, OneRequest
    <3>3. db'[Other(s)] = "leader"
      BY <3>1, <3>2, DatabaseStep
    <3> QED  BY <3>1, <3>3
  <2>2. CASE ~MayWipe(s)
    BY <2>2, DatabaseStep
  <2> QED  BY <2>1, <2>2
<1>3. WipeInv /\ [Next]_vars => WipeInv'
  BY WipeInvStep
<1> QED  BY <1>1, <1>2, <1>3, WipeInvInit, PTL DEF Spec
=============================================================================
