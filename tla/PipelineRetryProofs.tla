------------------------ MODULE PipelineRetryProofs ------------------------
(***************************************************************************)
(* What TLAPS proves of PipelineRetry for every number of retries, every   *)
(* interval, timeout and cap, every set of releases and faults, and        *)
(* without the bounds the model checker needs: first the types, then what  *)
(* makes the tracking of deployments right, then the attempts at a         *)
(* transition and that they implement DeploymentOutcome.                   *)
(***************************************************************************)
EXTENDS PipelineRetry, SequenceTheorems, FiniteSetTheorems, TLAPS

USE DEF NoId, Never

\* The states a transition leaves in the ConfigMap and in the triggers are
\* stable states (TransitionRules).
LEMMA ReachedIsStable ==
    ASSUME NEW t \in Transitions
    PROVE  /\ Reached(t) \in StableStates
           /\ Work(Site, t) \in {"standby", "note", "detach", "down"} => t \in StableStates
           /\ Work(Site, t) = "standby" => Partial(t) \in StableStates
<1>1. CASE Site = ActiveSite
  BY <1>1 DEF Transitions, StableStates, Reached, Partial, Work
<1>2. CASE Site # ActiveSite
  BY <1>2 DEF Transitions, StableStates, Reached, Partial, Work
<1>. QED BY <1>1, <1>2

\* The records the handlers build.
LEMMA RecordTypes ==
    /\ \A maint \in BOOLEAN : EmptyPipeline(maint) \in PipelineRecords
    /\ \A maint \in BOOLEAN, id \in Nat : now \in Nat => Attempt(id, maint) \in PipelineRecords
    /\ \A rs \in RetryRecords, at \in Int : [rs EXCEPT !.retry_at = at] \in RetryRecords
    /\ \A rs \in RetryRecords : rs.maintenance \in BOOLEAN /\ rs.release \in Releases
    /\ \A rs \in RetryRecords, id \in Nat :
          Fired(rs) \in RetryRecords /\ [Fired(rs) EXCEPT !.event_id = id] \in RetryRecords
    /\ \A run \in RunRecords, r \in Reasons, at \in Int :
          /\ [run EXCEPT !.reason = r] \in RunRecords
          /\ [run EXCEPT !.reason = r, !.ended = at] \in RunRecords
    /\ \A run \in RunRecords : /\ [run EXCEPT !.stopping = TRUE] \in RunRecords
                                /\ [run EXCEPT !.deleted = TRUE] \in RunRecords
    /\ \A run \in RunRecords, id \in Nat, type \in {"ADDED", "MODIFIED", "DELETED"} :
          Snapshot(type, id, run) \in EventRecords
<1>1. \A maint \in BOOLEAN : EmptyPipeline(maint) \in PipelineRecords
  BY DEF EmptyPipeline, PipelineRecords
<1>2. \A maint \in BOOLEAN, id \in Nat : now \in Nat => Attempt(id, maint) \in PipelineRecords
  BY DEF Attempt, PipelineRecords
<1>3. \A rs \in RetryRecords, at \in Int : [rs EXCEPT !.retry_at = at] \in RetryRecords
  BY DEF RetryRecords
<1>4. \A rs \in RetryRecords : rs.maintenance \in BOOLEAN /\ rs.release \in Releases
  BY DEF RetryRecords
<1>5. \A rs \in RetryRecords, id \in Nat :
         Fired(rs) \in RetryRecords /\ [Fired(rs) EXCEPT !.event_id = id] \in RetryRecords
  <2>. SUFFICES ASSUME NEW rs \in RetryRecords, NEW id \in Nat
                PROVE  Fired(rs) \in RetryRecords
                       /\ [Fired(rs) EXCEPT !.event_id = id] \in RetryRecords
    OBVIOUS
  <2>1. Fired(rs) \in RetryRecords
    <3>. DEFINE counted == [rs EXCEPT !.attempts_made = rs.attempts_made + 1]
    <3>1. counted \in RetryRecords
      BY DEF RetryRecords
    <3>2. Fired(rs) = [counted EXCEPT !.retry_at = Never]
      BY DEF Fired
    <3>. HIDE DEF counted
    <3>. QED BY <1>3, <3>1, <3>2
  <2>. QED BY <2>1 DEF RetryRecords
<1>6. \A run \in RunRecords, r \in Reasons, at \in Int :
         /\ [run EXCEPT !.reason = r] \in RunRecords
         /\ [run EXCEPT !.reason = r, !.ended = at] \in RunRecords
  BY DEF RunRecords
<1>8. \A run \in RunRecords : /\ [run EXCEPT !.stopping = TRUE] \in RunRecords
                              /\ [run EXCEPT !.deleted = TRUE] \in RunRecords
  BY DEF RunRecords
<1>7. \A run \in RunRecords, id \in Nat, type \in {"ADDED", "MODIFIED", "DELETED"} :
         Snapshot(type, id, run) \in EventRecords
  BY DEF Snapshot, RunRecords, EventRecords
<1>. QED BY <1>1, <1>2, <1>3, <1>4, <1>5, <1>6, <1>7, <1>8

\* Changing one run leaves a sequence of runs.
LEMMA UpdateType ==
    ASSUME TypeOK, NEW i, NEW run, i \in RunIds => run \in RunRecords
    PROVE  [runs EXCEPT ![i] = run] \in Seq(RunRecords)
<1>1. CASE i \in RunIds
  BY <1>1, ExceptSeq DEF RunIds, TypeOK
<1>2. CASE i \notin RunIds
  <2>1. runs \in [1..Len(runs) -> RunRecords]
    BY LenProperties DEF TypeOK
  <2>2. [runs EXCEPT ![i] = run] = runs
    BY <1>2, <2>1 DEF RunIds
  <2>. QED BY <2>2 DEF TypeOK
<1>. QED BY <1>1, <1>2

\* What the watch delivers.
LEMMA EmitType ==
    ASSUME TypeOK, NEW event \in EventRecords, Emit(event)
    PROVE  stream' \in Seq(EventRecords) /\ watching' \in BOOLEAN
BY DEF Emit, TypeOK

\* The runs that are listed anew are finitely many.
LEMMA ExistingCount ==
    ASSUME TypeOK
    PROVE  Cardinality(Existing) \in Nat
<1>1. IsFiniteSet(RunIds)
  BY FS_Interval DEF RunIds, TypeOK
<1>2. IsFiniteSet(Existing)
  BY <1>1, FS_Subset DEF Existing
<1>. QED BY <1>2, FS_CardinalityType

\* Creating a run keeps runs and stream well typed.
LEMMA CreateType ==
    ASSUME TypeOK, NEW release \in Releases, NEW t \in Nat, Create(NewRun(release, t))
    PROVE  /\ runs' \in Seq(RunRecords) /\ stream' \in Seq(EventRecords)
           /\ watching' \in BOOLEAN
<1>1. NewRun(release, t) \in RunRecords
  BY DEF NewRun, RunRecords, Reasons, TypeOK
<1>2. runs' \in Seq(RunRecords)
  BY <1>1 DEF Create, TypeOK
<1>3. Snapshot("ADDED", Len(runs) + 1, NewRun(release, t)) \in EventRecords
  BY <1>1 DEF Snapshot, EventRecords, RunRecords, TypeOK
<1>. QED BY <1>2, <1>3 DEF Create, Emit, TypeOK

\* So does trigger_tekton_build, however it ends.
LEMMA TriggerType ==
    ASSUME TypeOK, NEW t \in Nat, TriggerAccepted(t) \/ TriggerRaised(t)
    PROVE  /\ runs' \in Seq(RunRecords) /\ stream' \in Seq(EventRecords)
           /\ watching' \in BOOLEAN
<1>1. CASE Create(NewRun(Own, t))
  BY <1>1, CreateType, PipelineRetryAssumption
<1>2. CASE UNCHANGED cluster
  BY <1>2 DEF cluster, TypeOK
<1>. QED BY <1>1, <1>2 DEF TriggerAccepted, TriggerRaised

\* The record a new transition is tracked with.
LEMMA SetPipelineType ==
    ASSUME TypeOK, NEW id \in Nat, NEW maint \in BOOLEAN, SetPipeline(id, maint)
    PROVE  /\ pipeline' \in PipelineRecords
           /\ retry_state' \in RetryRecords \cup {None}
           /\ transitions_begun' \in Nat
           /\ transition_failed' \in BOOLEAN /\ failed_transition_maintenance' \in BOOLEAN
           /\ transition_gauge' \in [Releases -> {0, 3}] /\ failed_total' \in Nat
BY PipelineRetryAssumption DEF SetPipeline, Attempt, TypeOK, RetryRecords, PipelineRecords

\* Switching the maintenance mode leaves two switches.
LEMMA MaintenanceType ==
    ASSUME TypeOK, NEW on \in BOOLEAN, MaintenanceSwitched(on) \/ MaintenanceRaised(on)
    PROVE  maintenance' \in [keycloak : BOOLEAN, portal : BOOLEAN]
BY DEF MaintenanceSwitched, MaintenanceRaised, TypeOK

\* Events and what the handler makes of them.
LEMMA EventType ==
    ASSUME TypeOK, NEW e, Consume(e)
    PROVE  /\ e \in EventRecords
           /\ Relabelled(e) \in RetryRecords \cup {None}
           /\ Named(e) \in PipelineRecords
           /\ stream' \in Seq(EventRecords)
           /\ TransitionRelease(Relabelled(e)) \in Releases
<1>1. stream # <<>> /\ e = Head(stream)
  BY DEF Consume, FirstEvent
<1>2. e \in EventRecords /\ stream' \in Seq(EventRecords)
  BY <1>1, HeadTailProperties DEF Consume, TypeOK
<1>3. e.release \in Releases /\ e.event_id \in Nat
  BY <1>2 DEF EventRecords
<1>4. Relabelled(e) \in RetryRecords \cup {None}
  BY <1>3 DEF Relabelled, TypeOK, RetryRecords
<1>5. Named(e) \in PipelineRecords
  BY <1>3 DEF Named, TypeOK, PipelineRecords
<1>6. TransitionRelease(Relabelled(e)) \in Releases
  BY <1>4, PipelineRetryAssumption DEF TransitionRelease, RetryRecords
<1>. QED BY <1>2, <1>4, <1>5, <1>6

\* A declared failure keeps the types of the records it clears and counts.
LEMMA DeclareType ==
    ASSUME TypeOK, NEW rs \in RetryRecords \cup {None}, DeclareTransitionFailed(rs)
    PROVE  /\ pipeline' \in PipelineRecords
           /\ retry_state' \in RetryRecords \cup {None}
           /\ transition_failed' \in BOOLEAN /\ failed_transition_maintenance' \in BOOLEAN
           /\ transition_gauge' \in [Releases -> {0, 3}] /\ failed_total' \in Nat
           /\ maintenance' = maintenance
<1>1. TransitionRelease(rs) \in Releases
  BY PipelineRetryAssumption DEF TransitionRelease, RetryRecords
<1>2. transition_gauge' \in [Releases -> {0, 3}]
  BY <1>1 DEF DeclareTransitionFailed, TypeOK
<1>3. pipeline' \in PipelineRecords
  BY RecordTypes DEF DeclareTransitionFailed
<1>4. failed_transition_maintenance' \in BOOLEAN
  BY DEF DeclareTransitionFailed, RetryRecords
<1>5. failed_total' \in Nat
  BY DEF DeclareTransitionFailed, TypeOK
<1>. QED BY <1>2, <1>3, <1>4, <1>5 DEF DeclareTransitionFailed

\* TypeOK is inductive: one step per action.
LEMMA StepKeepsTypes ==
    ASSUME TypeOK, [Next]_vars
    PROVE  TypeOK'
<1>. USE PipelineRetryAssumption
<1>1. ASSUME NEW t \in Requests, InitiatePrimary(t)
      PROVE  TypeOK'
  <2>1. Reached(t) \in StableStates
    BY ReachedIsStable
  <2>2. CASE /\ MaintenanceSwitched(TRUE) /\ TriggerAccepted(transitions_begun + 1)
             /\ SetPipeline(Len(runs) + 1, FALSE) /\ SaveStable(Reached(t))
    <3>1. transitions_begun + 1 \in Nat /\ Len(runs) + 1 \in Nat
      BY DEF TypeOK
    <3>2. /\ runs' \in Seq(RunRecords) /\ stream' \in Seq(EventRecords)
          /\ watching' \in BOOLEAN
      BY <2>2, <3>1, TriggerType
    <3>. QED BY <1>1, <2>1, <2>2, <3>1, <3>2, SetPipelineType, MaintenanceType
         DEF InitiatePrimary, TypeOK, SaveStable
  <2>3. CASE /\ \/ MaintenanceRaised(TRUE) /\ UNCHANGED cluster
                \/ MaintenanceSwitched(TRUE) /\ TriggerRaised(0)
             /\ UNCHANGED <<last_stable_state, tracking, transitions_begun>>
    <3>1. /\ runs' \in Seq(RunRecords) /\ stream' \in Seq(EventRecords)
          /\ watching' \in BOOLEAN
      BY <2>3, TriggerType DEF cluster, TypeOK
    <3>2. maintenance' \in [keycloak : BOOLEAN, portal : BOOLEAN]
      BY <2>3, MaintenanceType
    <3>. QED BY <1>1, <2>3, <3>1, <3>2 DEF InitiatePrimary, TypeOK, tracking
  <2>. QED BY <1>1, <2>2, <2>3 DEF InitiatePrimary
<1>2. ASSUME NEW t \in Requests, InitiateDetach(t) \/ CompleteStandby(t)
      PROVE  TypeOK'
  <2>1. t \in StableStates
    BY <1>2, ReachedIsStable DEF InitiateDetach, CompleteStandby, Asked, TypeOK
  <2>2. /\ UNCHANGED <<now, maintenance>>
        /\ triggers' \in SUBSET StableStates
    BY <1>2 DEF InitiateDetach, CompleteStandby, TypeOK
  <2>3. CASE \E maint \in BOOLEAN :
               /\ TriggerAccepted(transitions_begun + 1)
               /\ SetPipeline(Len(runs) + 1, maint) /\ SaveStable(t)
    <3>1. transitions_begun + 1 \in Nat /\ Len(runs) + 1 \in Nat
      BY DEF TypeOK
    <3>2. /\ runs' \in Seq(RunRecords) /\ stream' \in Seq(EventRecords)
          /\ watching' \in BOOLEAN
      BY <2>3, <3>1, TriggerType
    <3>. QED BY <2>1, <2>2, <2>3, <3>1, <3>2, SetPipelineType DEF TypeOK, SaveStable
  <2>4. CASE TriggerRaised(0) /\ UNCHANGED <<last_stable_state, tracking, transitions_begun>>
    <3>1. /\ runs' \in Seq(RunRecords) /\ stream' \in Seq(EventRecords)
          /\ watching' \in BOOLEAN
      BY <2>4, TriggerType
    <3>. QED BY <2>2, <2>4, <3>1 DEF TypeOK, tracking
  <2>. QED BY <1>2, <2>3, <2>4 DEF InitiateDetach, CompleteStandby
<1>3. ASSUME NEW t \in Requests, InitiateStandby(t) \/ InitiateDown(t) \/ NoteState(t)
      PROVE  TypeOK'
  <2>1. t \in StableStates /\ (Work(Site, t) = "standby" => Partial(t) \in StableStates)
    BY <1>3, ReachedIsStable DEF InitiateStandby, InitiateDown, NoteState, Asked
  <2>2. UNCHANGED <<now, tracking, cluster, transitions_begun>>
    BY <1>3 DEF InitiateStandby, InitiateDown, NoteState
  <2>3. maintenance' \in [keycloak : BOOLEAN, portal : BOOLEAN]
    BY <1>3, MaintenanceType DEF InitiateStandby, InitiateDown, NoteState, TypeOK
  <2>4. last_stable_state' \in StableStates /\ triggers' \in SUBSET StableStates
    BY <1>3, <2>1 DEF InitiateStandby, InitiateDown, NoteState, SaveStable, Asked, TypeOK
  <2>. QED BY <2>2, <2>3, <2>4 DEF TypeOK, tracking, cluster
<1>4. ASSUME NEW e \in FirstEvent,
             ObserveRun(e) \/ PipelineSucceeds(e) \/ PipelineFails(e) \/ UntrackedSuccess(e)
      PROVE  TypeOK'
  <2>. DEFINE rs == Relabelled(e)
  <2>0. Consume(e)
    BY <1>4 DEF ObserveRun, PipelineSucceeds, PipelineFails, UntrackedSuccess
  <2>1. /\ e \in EventRecords /\ rs \in RetryRecords \cup {None}
        /\ Named(e) \in PipelineRecords
        /\ stream' \in Seq(EventRecords) /\ TransitionRelease(rs) \in Releases
    BY <2>0, EventType
  <2>2. UNCHANGED <<now, last_stable_state, triggers, runs, watching, transitions_begun>>
    BY <2>0 DEF Consume
  <2>3. CASE ObserveRun(e)
    BY <2>1, <2>2, <2>3 DEF ObserveRun, TypeOK
  <2>4. CASE PipelineSucceeds(e)
    <3>1. maintenance' \in [keycloak : BOOLEAN, portal : BOOLEAN]
      <4>1. pipeline.maintenance \in BOOLEAN
        BY DEF PipelineRecords, TypeOK
      <4>. QED BY <2>4, <4>1, MaintenanceType DEF PipelineSucceeds
    <3>2. EmptyPipeline(FALSE) \in PipelineRecords
      BY RecordTypes
    <3>3. ClearFailure(TransitionRelease(rs)) =>
             /\ transition_failed' \in BOOLEAN /\ failed_transition_maintenance' \in BOOLEAN
             /\ transition_gauge' \in [Releases -> {0, 3}] /\ failed_total' \in Nat
      BY <2>1 DEF ClearFailure, TypeOK
    <3>. QED BY <2>1, <2>2, <2>4, <3>1, <3>2, <3>3 DEF PipelineSucceeds, TypeOK
  <2>5. CASE PipelineFails(e)
    <3>1. CASE Spent(rs)
      BY <2>1, <2>2, <2>5, <3>1, DeclareType DEF PipelineFails, TypeOK
    <3>2. CASE ~Spent(rs)
      <4>1. rs \in RetryRecords
        BY <2>1, <3>2 DEF Spent
      <4>2. [rs EXCEPT !.retry_at = RetryDue] \in RetryRecords
        <5>1. RetryDue \in Int
          BY DEF RetryDue, TypeOK
        <5>. HIDE DEF rs
        <5>. QED BY <4>1, <5>1, RecordTypes
      <4>3. pipeline' \in PipelineRecords
        <5>1. EmptyPipeline(rs.maintenance) \in PipelineRecords
          <6>. HIDE DEF rs
          <6>. QED BY <4>1, RecordTypes
        <5>. QED BY <2>5, <3>2, <5>1 DEF PipelineFails
      <4>. QED BY <2>1, <2>2, <2>5, <3>2, <4>2, <4>3 DEF PipelineFails, TypeOK
    <3>. QED BY <3>1, <3>2
  <2>6. CASE UntrackedSuccess(e)
    <3>1. maintenance' \in [keycloak : BOOLEAN, portal : BOOLEAN]
      <4>1. failed_transition_maintenance \in BOOLEAN
        BY DEF TypeOK
      <4>. QED BY <2>6, <4>1, MaintenanceType DEF UntrackedSuccess
    <3>2. ClearFailure(Own) =>
             /\ transition_failed' \in BOOLEAN /\ failed_transition_maintenance' \in BOOLEAN
             /\ transition_gauge' \in [Releases -> {0, 3}] /\ failed_total' \in Nat
      BY DEF ClearFailure, TypeOK
    <3>. QED BY <2>1, <2>2, <2>6, <3>1, <3>2 DEF UntrackedSuccess, TypeOK
  <2>. QED BY <1>4, <2>3, <2>4, <2>5, <2>6
<1>5. ASSUME CancelTimedOut
      PROVE  TypeOK'
  <2>1. runs' \in Seq(RunRecords)
    <3>1. pipeline.name \in RunIds =>
             [runs[pipeline.name] EXCEPT !.stopping = TRUE] \in RunRecords
      <4>1. pipeline.name \in RunIds => runs[pipeline.name] \in RunRecords
        BY ElementOfSeq DEF RunIds, TypeOK
      <4>. QED BY <4>1, RecordTypes
    <3>. QED BY <1>5, <3>1, UpdateType DEF CancelTimedOut
  <2>2. pipeline' \in PipelineRecords
    BY <1>5 DEF CancelTimedOut, PipelineRecords, TypeOK
  <2>. QED BY <1>5, <2>1, <2>2 DEF CancelTimedOut, TypeOK
<1>6. ASSUME GiveUpAtCap
      PROVE  TypeOK'
  <2>1. retry_state \in RetryRecords
    BY <1>6 DEF GiveUpAtCap, BackingOff, TypeOK
  <2>. QED BY <1>6, <2>1, DeclareType DEF GiveUpAtCap, TypeOK, cluster
<1>7. ASSUME FireRetry
      PROVE  TypeOK'
  <2>1. retry_state \in RetryRecords /\ transitions_begun \in Nat /\ Len(runs) + 1 \in Nat
    BY <1>7 DEF FireRetry, BackingOff, TypeOK
  <2>2. /\ runs' \in Seq(RunRecords) /\ stream' \in Seq(EventRecords)
        /\ watching' \in BOOLEAN
    BY <1>7, <2>1, TriggerType DEF FireRetry
  <2>3. /\ Fired(retry_state) \in RetryRecords
        /\ [Fired(retry_state) EXCEPT !.event_id = Len(runs) + 1] \in RetryRecords
    BY <2>1, RecordTypes
  <2>4. Attempt(Len(runs) + 1, retry_state.maintenance) \in PipelineRecords
    BY <2>1, RecordTypes DEF TypeOK
  <2>. QED BY <1>7, <2>2, <2>3, <2>4 DEF FireRetry, TypeOK
<1>8. ASSUME NEW i \in RunIds, RunStarts(i) \/ RunEnds(i)
      PROVE  TypeOK'
  <2>1. runs' \in Seq(RunRecords)
    <3>1. runs[i] \in RunRecords /\ now \in Int
      BY ElementOfSeq DEF RunIds, TypeOK
    <3>2. CASE RunStarts(i)
      <4>1. [runs[i] EXCEPT !.reason = "Running"] \in RunRecords
        BY <3>1, RecordTypes DEF Reasons
      <4>. QED BY <3>2, <4>1, UpdateType DEF RunStarts
    <3>3. CASE RunEnds(i)
      <4>1. PICK r \in {"Succeeded", "Failed", "Unknown"} :
               runs' = [runs EXCEPT ![i] = [runs[i] EXCEPT !.reason = r, !.ended = now]]
        BY <3>3 DEF RunEnds
      <4>2. [runs[i] EXCEPT !.reason = r, !.ended = now] \in RunRecords
        BY <3>1, RecordTypes DEF Reasons
      <4>. QED BY <4>1, <4>2, UpdateType
    <3>. QED BY <1>8, <3>2, <3>3
  <2>2. i \in Nat /\ runs'[i] \in RunRecords
    <3>1. Len(runs') = Len(runs)
      BY <1>8, LenProperties DEF RunStarts, RunEnds, TypeOK
    <3>. QED BY <2>1, <3>1, ElementOfSeq DEF RunIds, TypeOK
  <2>3. Snapshot("MODIFIED", i, runs'[i]) \in EventRecords
    BY <2>2, RecordTypes
  <2>4. stream' \in Seq(EventRecords) /\ watching' \in BOOLEAN
    BY <1>8, <2>3, EmitType DEF RunStarts, RunEnds
  <2>. QED BY <1>8, <2>1, <2>4 DEF RunStarts, RunEnds, agent, tracking, TypeOK
<1>9. ASSUME NEW r \in Releases, ForeignRun(r)
      PROVE  TypeOK'
  BY <1>9, CreateType DEF ForeignRun, agent, tracking, TypeOK
<1>10. ASSUME WatchEnds
       PROVE  TypeOK'
  BY <1>10 DEF WatchEnds, agent, tracking, TypeOK
<1>11. ASSUME WatchOpens
       PROVE  TypeOK'
  <2>1. PICK listed \in [1..Cardinality(Existing) -> Existing] :
           stream' = stream \o [k \in DOMAIN listed |->
                                   Snapshot("ADDED", listed[k], runs[listed[k]])]
    BY <1>11 DEF WatchOpens
  <2>. DEFINE relist == [k \in 1..Cardinality(Existing) |->
                            Snapshot("ADDED", listed[k], runs[listed[k]])]
  <2>2. \A k \in 1..Cardinality(Existing) :
           Snapshot("ADDED", listed[k], runs[listed[k]]) \in EventRecords
    <3>. SUFFICES ASSUME NEW k \in 1..Cardinality(Existing)
                  PROVE  Snapshot("ADDED", listed[k], runs[listed[k]]) \in EventRecords
      OBVIOUS
    <3>1. listed[k] \in RunIds
      BY DEF Existing
    <3>2. runs[listed[k]] \in RunRecords /\ listed[k] \in Nat
      BY <3>1, ElementOfSeq DEF RunIds, TypeOK
    <3>. QED BY <3>2, RecordTypes
  <2>3. relist \in Seq(EventRecords)
    BY <2>2, ExistingCount, IsASeq
  <2>4. stream' = stream \o relist
    BY <2>1
  <2>. HIDE DEF relist
  <2>5. stream' \in Seq(EventRecords)
    BY <2>3, <2>4, ConcatProperties DEF TypeOK
  <2>. QED BY <1>11, <2>5 DEF WatchOpens, agent, tracking, TypeOK
<1>12. ASSUME Restart
       PROVE  TypeOK'
  <2>1. transition_gauge' \in [Releases -> {0, 3}]
    BY <1>12 DEF Restart
  <2>2. stream' \in Seq(EventRecords)
    BY <1>12, EmptySeq DEF Restart
  <2>. QED BY <1>12, <2>1, <2>2, RecordTypes DEF Restart, TypeOK
<1>13. ASSUME Advance
       PROVE  TypeOK'
  BY <1>13 DEF Advance, agent, tracking, cluster, TypeOK
<1>14. ASSUME UNCHANGED vars
       PROVE  TypeOK'
  BY <1>14 DEF vars, tracking, cluster, TypeOK
<1>15. ASSUME NEW i \in RunIds, RunDeleted(i)
       PROVE  TypeOK'
  <2>1. runs[i] \in RunRecords /\ i \in Nat
    BY ElementOfSeq DEF RunIds, TypeOK
  <2>2. [runs[i] EXCEPT !.deleted = TRUE] \in RunRecords
    BY <2>1, RecordTypes
  <2>3. runs' \in Seq(RunRecords)
    BY <1>15, <2>2, UpdateType DEF RunDeleted
  <2>4. Snapshot("DELETED", i, runs[i]) \in EventRecords
    BY <2>1, RecordTypes
  <2>5. stream' \in Seq(EventRecords) /\ watching' \in BOOLEAN
    BY <1>15, <2>4, EmitType DEF RunDeleted
  <2>. QED BY <1>15, <2>3, <2>5 DEF RunDeleted, agent, tracking, TypeOK
<1>. QED BY <1>1, <1>2, <1>3, <1>4, <1>5, <1>6, <1>7, <1>8, <1>9, <1>10, <1>11,
            <1>12, <1>13, <1>14, <1>15 DEF Next

\* An agent that has just started has its types.
LEMMA InitTypes == Init => TypeOK
<1>1. Init => transition_gauge \in [Releases -> {0, 3}]
  BY DEF Init
<1>2. Init => runs \in Seq(RunRecords) /\ stream \in Seq(EventRecords)
  BY EmptySeq DEF Init
<1>3. Init => pipeline \in PipelineRecords
  BY RecordTypes DEF Init
<1>4. Init => maintenance \in [keycloak : BOOLEAN, portal : BOOLEAN]
  BY DEF Init
<1>5. Init => now \in Nat /\ failed_total \in Nat /\ transitions_begun \in Nat
  BY DEF Init
<1>6. Init => last_stable_state \in StableStates /\ triggers \in SUBSET StableStates
  BY DEF Init, StableStates
<1>7. Init => /\ transition_failed \in BOOLEAN /\ failed_transition_maintenance \in BOOLEAN
              /\ watching \in BOOLEAN
  BY DEF Init
<1>8. Init => retry_state \in RetryRecords \cup {None}
  BY DEF Init
<1>. QED BY <1>1, <1>2, <1>3, <1>4, <1>5, <1>6, <1>7, <1>8 DEF TypeOK

\* Every variable keeps its type: in particular a run is never tracked, named
\* or scheduled by something that is no event id or no instant.
THEOREM TypeCorrect == Spec => []TypeOK
<1>1. Init => TypeOK
  BY InitTypes
<1>2. TypeOK /\ [Next]_vars => TypeOK'
  BY StepKeepsTypes
<1>. QED BY <1>1, <1>2, PTL DEF Spec
-----------------------------------------------------------------------------
(* The tracking of deployments: what the agent remembers of the attempt in   *)
(* flight agrees with the runs of the cluster, and so it stops only overdue  *)
(* attempts of its own, counts each failure once and ends maintenance only   *)
(* on a success.  The inductive invariant is TrackingInv of PipelineRetry.   *)

\* A run may be told to stop and may end; nothing else of it changes.
Kept(i) ==
    /\ runs'[i].of = runs[i].of
    /\ runs'[i].release = runs[i].release
    /\ runs'[i].started = runs[i].started
    /\ runs[i].stopping => runs'[i].stopping
    /\ Ended(runs[i]) => runs'[i].reason = runs[i].reason /\ runs'[i].ended = runs[i].ended

RunsKept == \A i \in RunIds : i \in RunIds' /\ Kept(i)

\* The run a step adds, if it adds one.
Added(run) == runs' = Append(runs, run)

\* A run of the cluster is a run record.
LEMMA RunAt ==
    ASSUME TypeOK, NEW i \in RunIds
    PROVE  i \in Nat /\ runs[i] \in RunRecords
BY ElementOfSeq DEF RunIds, TypeOK

\* A created run is the last one; all others stay.
LEMMA AddedRuns ==
    ASSUME TypeOK, NEW run \in RunRecords, Added(run)
    PROVE  /\ RunsKept
           /\ Len(runs) + 1 \in RunIds'
           /\ runs'[Len(runs) + 1] = run
           /\ \A i \in RunIds' : i \in RunIds \/ i = Len(runs) + 1
<1>1. /\ Len(runs') = Len(runs) + 1 /\ runs'[Len(runs) + 1] = run
      /\ \A i \in 1..Len(runs) : runs'[i] = runs[i]
  BY AppendProperties DEF Added, TypeOK
<1>2. Len(runs) \in Nat
  BY DEF TypeOK
<1>. QED BY <1>1, <1>2 DEF RunsKept, Kept, RunIds

\* A step that leaves the runs alone keeps them.
LEMMA UnchangedRuns ==
    ASSUME UNCHANGED runs
    PROVE  RunsKept /\ RunIds' = RunIds
BY DEF RunsKept, Kept, RunIds

\* A run is told to stop, starts or ends.
LEMMA UpdatedRuns ==
    ASSUME TypeOK, NEW i \in RunIds, NEW run,
           runs' = [runs EXCEPT ![i] = run],
           run.of = runs[i].of, run.release = runs[i].release,
           run.started = runs[i].started, runs[i].stopping => run.stopping,
           Ended(runs[i]) => run.reason = runs[i].reason /\ run.ended = runs[i].ended
    PROVE  RunsKept /\ RunIds' = RunIds /\ runs'[i] = run
<1>1. runs \in [1..Len(runs) -> RunRecords]
  BY LenProperties DEF TypeOK
<1>2. Len(runs') = Len(runs)
  BY LenProperties DEF TypeOK
<1>. QED BY <1>1, <1>2 DEF RunsKept, Kept, RunIds

-----------------------------------------------------------------------------
\* Truthful, of the state after a step.
TruthfulThen(e) ==
    /\ e.event_id \in RunIds'
    /\ e.release = runs'[e.event_id].release
    /\ e.reason \in {"Succeeded", "Failed"} => runs'[e.event_id].reason = e.reason

\* An event that was true stays true.
LEMMA StaysTruthful ==
    ASSUME RunsKept, NEW e, Truthful(e)
    PROVE  TruthfulThen(e)
BY DEF RunsKept, Kept, Truthful, TruthfulThen, Ended

\* The queue after a step holds events it held before, or true ones.
LEMMA QueueTruthful ==
    ASSUME RunsKept, EventsTruthful,
           \A k \in 1..Len(stream') : \/ \E j \in 1..Len(stream) : stream'[k] = stream[j]
                                      \/ TruthfulThen(stream'[k])
    PROVE  EventsTruthful'
<1>1. \A k \in 1..Len(stream') : TruthfulThen(stream'[k])
  <2>. SUFFICES ASSUME NEW k \in 1..Len(stream'),
                       NEW j \in 1..Len(stream), stream'[k] = stream[j]
                PROVE  TruthfulThen(stream'[k])
    OBVIOUS
  <2>1. Truthful(stream[j])
    BY DEF EventsTruthful
  <2>. QED BY <2>1, StaysTruthful
<1>. QED BY <1>1 DEF EventsTruthful, Truthful, TruthfulThen

\* A step that leaves the queue alone keeps its events true.
LEMMA SameQueue ==
    ASSUME RunsKept, EventsTruthful, UNCHANGED stream
    PROVE  EventsTruthful'
BY QueueTruthful

\* So does a step that queues an event that is true after it.
LEMMA EmittedQueue ==
    ASSUME TypeOK, RunsKept, EventsTruthful, NEW event \in EventRecords,
           TruthfulThen(event), Emit(event)
    PROVE  EventsTruthful'
<1>1. CASE stream' = stream
  BY <1>1, QueueTruthful
<1>2. CASE stream' = Append(stream, event)
  <2>1. /\ Len(stream') = Len(stream) + 1 /\ stream'[Len(stream) + 1] = event
        /\ \A k \in 1..Len(stream) : stream'[k] = stream[k]
    BY <1>2, AppendProperties DEF TypeOK
  <2>2. Len(stream) \in Nat
    BY DEF TypeOK
  <2>. QED BY <2>1, <2>2, QueueTruthful
<1>. QED BY <1>1, <1>2 DEF Emit

\* Consuming an event keeps the rest of the queue.
LEMMA ConsumedQueue ==
    ASSUME TypeOK, EventsTruthful, NEW e, Consume(e)
    PROVE  /\ Truthful(e) /\ RunsKept /\ EventsTruthful' /\ RunIds' = RunIds
           /\ \A x : Truthful(x) => TruthfulThen(x)
<1>1. stream # <<>> /\ e = Head(stream) /\ stream' = Tail(stream) /\ UNCHANGED runs
  BY DEF Consume, FirstEvent
<1>2. RunsKept /\ RunIds' = RunIds
  BY <1>1, UnchangedRuns
<1>3. e = stream[1] /\ 1 \in 1..Len(stream)
  BY <1>1, HeadTailProperties, EmptySeq DEF TypeOK
<1>4. \A k \in 1..Len(stream') : k + 1 \in 1..Len(stream) /\ stream'[k] = stream[k + 1]
  BY <1>1, HeadTailProperties DEF TypeOK
<1>5. EventsTruthful'
  BY <1>2, <1>4, QueueTruthful
<1>. QED BY <1>2, <1>3, <1>5, StaysTruthful DEF EventsTruthful

\* Creating a run, as trigger_tekton_build and other releases' pushes do.
LEMMA CreatedRun ==
    ASSUME TypeOK, EventsTruthful, NEW release \in Releases, NEW t \in Nat,
           Create(NewRun(release, t))
    PROVE  /\ RunsKept /\ EventsTruthful'
           /\ Len(runs) + 1 \in RunIds'
           /\ runs'[Len(runs) + 1] = NewRun(release, t)
           /\ \A i \in RunIds' : i \in RunIds \/ i = Len(runs) + 1
<1>. DEFINE run == NewRun(release, t)
<1>1. run \in RunRecords /\ run.release = release /\ run.reason = "Pending"
  BY DEF NewRun, RunRecords, Reasons, TypeOK
<1>2. Added(run)
  BY DEF Create, Added
<1>. HIDE DEF run
<1>3. /\ RunsKept /\ Len(runs) + 1 \in RunIds' /\ runs'[Len(runs) + 1] = run
      /\ \A i \in RunIds' : i \in RunIds \/ i = Len(runs) + 1
  BY <1>1, <1>2, AddedRuns
<1>4. EventsTruthful'
  <2>1. Len(runs) + 1 \in Nat
    BY DEF TypeOK
  <2>2. TruthfulThen(Snapshot("ADDED", Len(runs) + 1, run))
    BY <1>1, <1>3 DEF Snapshot, TruthfulThen
  <2>3. Snapshot("ADDED", Len(runs) + 1, run) \in EventRecords
    BY <1>1, <2>1, RecordTypes
  <2>4. Emit(Snapshot("ADDED", Len(runs) + 1, run))
    BY DEF Create, run
  <2>. QED BY <1>3, <2>2, <2>3, <2>4, EmittedQueue
<1>. QED BY <1>3, <1>4 DEF run

\* trigger_tekton_build raises: either nothing happened, or a run exists that
\* the agent does not know.
LEMMA RaisedTrigger ==
    ASSUME TypeOK, EventsTruthful, NEW t \in Nat, TriggerRaised(t)
    PROVE  /\ RunsKept /\ EventsTruthful'
           /\ \A i \in RunIds' \ RunIds : runs'[i] = NewRun(Own, t)
<1>1. CASE UNCHANGED cluster
  BY <1>1, UnchangedRuns, SameQueue DEF cluster
<1>2. CASE Create(NewRun(Own, t))
  BY <1>2, CreatedRun, PipelineRetryAssumption
<1>. QED BY <1>1, <1>2 DEF TriggerRaised
-----------------------------------------------------------------------------
\* The ways in which a handler leaves its tracking records.

\* The runs a step adds are the agent's own, or unknown to it.
NewRunsOwned ==
    \A i \in RunIds' \ RunIds : runs'[i].of # 0 => runs'[i].release = Own
                                                 /\ runs'[i].of <= transitions_begun'

\* Attempts stay the own release's if every new one is.
LEMMA OwnedStays ==
    ASSUME TypeOK, TypeOK', AttemptsOwned, RunsKept, NewRunsOwned,
           transitions_begun <= transitions_begun'
    PROVE  AttemptsOwned'
<1>. SUFFICES ASSUME NEW i \in RunIds', runs'[i].of # 0
              PROVE  runs'[i].release = Own /\ runs'[i].of <= transitions_begun'
  BY DEF AttemptsOwned
<1>1. CASE i \in RunIds
  <2>1. runs'[i].of = runs[i].of /\ runs'[i].release = runs[i].release
    BY <1>1 DEF RunsKept, Kept
  <2>2. runs[i].of \in Nat
    BY <1>1, RunAt DEF RunRecords
  <2>. QED BY <1>1, <2>1, <2>2 DEF AttemptsOwned, TypeOK
<1>2. CASE i \notin RunIds
  BY <1>2 DEF NewRunsOwned
<1>. QED BY <1>1, <1>2

\* The retry record keeps all but its label.
RetryStateKept ==
    /\ retry_state = None <=> retry_state' = None
    /\ retry_state # None => /\ retry_state'.event_id = retry_state.event_id
                             /\ retry_state'.retry_at = retry_state.retry_at
                             /\ retry_state'.maintenance = retry_state.maintenance
                             /\ retry_state'.attempts_made = retry_state.attempts_made
                             /\ retry_state'.transition_started_ts
                                   = retry_state.transition_started_ts

\* The tracking stays coherent when only the runs move on.
LEMMA TrackingStays ==
    ASSUME TypeOK, TrackingCoherent, FailedOncePerTransition, RunsKept, RetryStateKept,
           UNCHANGED <<pipeline, failed_total, transitions_begun>>
    PROVE  TrackingCoherent' /\ FailedOncePerTransition'
<1>1. CASE pipeline.event_id = 0
  BY <1>1 DEF TrackingCoherent, FailedOncePerTransition, RetryStateKept
<1>2. CASE pipeline.event_id # 0
  <2>1. pipeline.event_id \in RunIds /\ runs[pipeline.event_id].of = transitions_begun
    BY <1>2 DEF TrackingCoherent, AttemptsOf
  <2>2. /\ pipeline.event_id \in RunIds' /\ Kept(pipeline.event_id)
    BY <2>1 DEF RunsKept
  <2>. QED BY <1>2, <2>1, <2>2
       DEF TrackingCoherent, FailedOncePerTransition, RetryStateKept, Kept, AttemptsOf
<1>. QED BY <1>1, <1>2

\* Nothing is in flight after a step.
LEMMA TrackingEmptied ==
    ASSUME NEW maint, pipeline' = EmptyPipeline(maint)
    PROVE  TrackingCoherent'
BY DEF EmptyPipeline, TrackingCoherent

\* A step that started an attempt, the last run now.
LEMMA TrackingBegun ==
    ASSUME TypeOK, TypeOK', NEW maint,
           Len(runs) + 1 \in RunIds',
           runs'[Len(runs) + 1] = NewRun(Own, transitions_begun'),
           pipeline' = Attempt(Len(runs) + 1, maint),
           retry_state' # None,
           retry_state'.event_id = Len(runs) + 1,
           retry_state'.retry_at = Never,
           retry_state'.maintenance = maint
    PROVE  TrackingCoherent'
<1>1. Len(runs) + 1 # 0
  BY DEF TypeOK
<1>2. /\ pipeline'.event_id = Len(runs) + 1 /\ pipeline'.start_ts = now
      /\ pipeline'.maintenance = maint /\ pipeline'.name = 0 /\ ~pipeline'.cancelling
  BY DEF Attempt
<1>4. /\ runs'[Len(runs) + 1].of = transitions_begun'
      /\ runs'[Len(runs) + 1].started = now
  BY DEF NewRun
<1>5. pipeline'.event_id \in AttemptsOf(transitions_begun)'
  BY <1>2, <1>4 DEF AttemptsOf
<1>. QED BY <1>1, <1>2, <1>4, <1>5 DEF TrackingCoherent

\* A transition begins.
LEMMA TransitionBegins ==
    ASSUME TrackingInv, TypeOK', NEW maint \in BOOLEAN,
           TriggerAccepted(transitions_begun + 1), SetPipeline(Len(runs) + 1, maint)
    PROVE  TrackingInv'
<1>. USE PipelineRetryAssumption DEF TrackingInv
<1>1. transitions_begun' = transitions_begun + 1 /\ transitions_begun' \in Nat
  BY DEF SetPipeline, TypeOK
<1>2. Create(NewRun(Own, transitions_begun'))
  BY <1>1 DEF TriggerAccepted
<1>3. /\ RunsKept /\ EventsTruthful' /\ Len(runs) + 1 \in RunIds'
      /\ runs'[Len(runs) + 1] = NewRun(Own, transitions_begun')
      /\ \A i \in RunIds' : i \in RunIds \/ i = Len(runs) + 1
  BY <1>1, <1>2, CreatedRun
<1>4. AttemptsOwned'
  <2>1. NewRunsOwned
    BY <1>1, <1>3 DEF NewRunsOwned, NewRun
  <2>. QED BY <1>1, <1>3, <2>1, OwnedStays DEF TypeOK
<1>5. TrackingCoherent'
  <2>1. /\ pipeline' = Attempt(Len(runs) + 1, maint) /\ retry_state' # None
        /\ retry_state'.event_id = Len(runs) + 1 /\ retry_state'.retry_at = Never
        /\ retry_state'.maintenance = maint
    <3>1. retry_state' \in RetryRecords
      <4>1. Len(runs) + 1 \in Nat
        BY DEF TypeOK
      <4>. QED BY <4>1 DEF SetPipeline, TypeOK, RetryRecords
    <3>. QED BY <3>1 DEF SetPipeline
  <2>. QED BY <1>3, <2>1, TrackingBegun
<1>6. FailedOncePerTransition'
  BY <1>1 DEF FailedOncePerTransition, SetPipeline, TypeOK
<1>. QED BY <1>3, <1>4, <1>5, <1>6

\* A transition's trigger raised: the agent tracks what it tracked before.
LEMMA TransitionRefused ==
    ASSUME TrackingInv, TypeOK', TriggerRaised(0) \/ UNCHANGED cluster,
           UNCHANGED <<tracking, transitions_begun>>
    PROVE  TrackingInv'
<1>. USE DEF TrackingInv
<1>1. RunsKept /\ EventsTruthful' /\ NewRunsOwned
  <2>1. CASE UNCHANGED cluster
    BY <2>1, UnchangedRuns, SameQueue DEF cluster, NewRunsOwned
  <2>2. CASE TriggerRaised(0)
    <3>1. /\ RunsKept /\ EventsTruthful'
          /\ \A i \in RunIds' \ RunIds : runs'[i] = NewRun(Own, 0)
      BY <2>2, RaisedTrigger
    <3>2. NewRun(Own, 0).of = 0
      BY DEF NewRun
    <3>. QED BY <3>1, <3>2 DEF NewRunsOwned
  <2>. QED BY <2>1, <2>2
<1>2. AttemptsOwned'
  BY <1>1, OwnedStays DEF TypeOK
<1>3. RetryStateKept /\ UNCHANGED <<pipeline, failed_total, transitions_begun>>
  BY DEF RetryStateKept, tracking
<1>. QED BY <1>1, <1>2, <1>3, TrackingStays
-----------------------------------------------------------------------------
\* A failure declared of a tracked transition is counted and no longer tracked.
LEMMA FailureDeclared ==
    ASSUME TypeOK, TypeOK', FailedOncePerTransition, NEW rs, retry_state # None,
           DeclareTransitionFailed(rs), UNCHANGED transitions_begun
    PROVE  TrackingCoherent' /\ FailedOncePerTransition'
<1>1. TrackingCoherent'
  BY TrackingEmptied DEF DeclareTransitionFailed
<1>2. failed_total' = failed_total + 1 /\ retry_state' = None
  BY DEF DeclareTransitionFailed
<1>. QED BY <1>1, <1>2 DEF FailedOncePerTransition, TypeOK

\* Relabelling changes the label alone.
LEMMA RelabelKeeps ==
    ASSUME TypeOK, NEW e, Consume(e)
    PROVE  /\ retry_state' = Relabelled(e) => RetryStateKept
           /\ Relabelled(e) = None <=> retry_state = None
           /\ retry_state # None =>
                 /\ Relabelled(e).attempts_made = retry_state.attempts_made
                 /\ Relabelled(e).transition_started_ts = retry_state.transition_started_ts
<1>. DEFINE rs == Relabelled(e)
<1>1. e \in EventRecords /\ rs \in RetryRecords \cup {None}
  BY EventType
<1>2. CASE retry_state = None
  BY <1>2 DEF Relabelled, RetryStateKept
<1>3. CASE retry_state # None
  <2>1. retry_state \in RetryRecords
    BY <1>3 DEF TypeOK
  <2>2. rs = [retry_state EXCEPT !.release = e.release]
    BY <1>3 DEF Relabelled
  <2>3. rs \in RetryRecords
    BY <1>1, <2>1, <2>2 DEF RetryRecords, EventRecords
  <2>. QED BY <1>3, <2>1, <2>2, <2>3, PipelineRetryAssumption DEF RetryRecords, RetryStateKept
<1>. QED BY <1>2, <1>3

\* The handler of PipelineRun events.
LEMMA EventKeepsTracking ==
    ASSUME TrackingInv, TypeOK', NEW e \in FirstEvent,
           ObserveRun(e) \/ PipelineSucceeds(e) \/ PipelineFails(e) \/ UntrackedSuccess(e)
    PROVE  TrackingInv'
<1>. USE PipelineRetryAssumption DEF TrackingInv
<1>. DEFINE rs == Relabelled(e)
<1>0. Consume(e)
  BY DEF ObserveRun, PipelineSucceeds, PipelineFails, UntrackedSuccess
<1>1. Truthful(e) /\ RunsKept /\ EventsTruthful' /\ RunIds' = RunIds
  BY <1>0, ConsumedQueue
<1>2. UNCHANGED <<runs, transitions_begun>>
  BY <1>0 DEF Consume
<1>3. AttemptsOwned'
  BY <1>1, <1>2 DEF AttemptsOwned
<1>4. e.event_id # 0
  BY <1>1 DEF Truthful, RunIds
<1>5. retry_state' = rs => RetryStateKept
  BY <1>0, RelabelKeeps
\* The record stays, the attempt may learn its name.
<1>6. ASSUME retry_state' = rs, pipeline' \in {pipeline, Named(e)}, UNCHANGED failed_total
      PROVE  TrackingCoherent' /\ FailedOncePerTransition'
  <2>1. RetryStateKept
    BY <1>5, <1>6
  <2>2. CASE pipeline' = pipeline
    BY <1>1, <1>2, <1>6, <2>1, <2>2, TrackingStays
  <2>3. CASE pipeline' # pipeline
    <3>1. /\ pipeline.event_id = e.event_id
          /\ pipeline' = [pipeline EXCEPT !.name = e.event_id]
      BY <1>6, <2>3 DEF Named
    <3>2. /\ pipeline'.event_id = pipeline.event_id /\ pipeline'.name = e.event_id
          /\ pipeline'.start_ts = pipeline.start_ts
          /\ pipeline'.maintenance = pipeline.maintenance
          /\ pipeline'.cancelling = pipeline.cancelling
      BY <3>1 DEF TypeOK, PipelineRecords
    <3>3. TrackingCoherent'
      BY <1>1, <1>2, <1>4, <2>1, <3>1, <3>2
         DEF TrackingCoherent, RetryStateKept, AttemptsOf
    <3>4. FailedOncePerTransition'
      BY <1>2, <1>6, <2>1 DEF FailedOncePerTransition, RetryStateKept
    <3>. QED BY <3>3, <3>4
  <2>. QED BY <2>2, <2>3
<1>7. CASE ObserveRun(e)
  <2>1. TrackingCoherent' /\ FailedOncePerTransition'
    BY <1>6, <1>7 DEF ObserveRun
  <2>. QED BY <1>1, <1>3, <2>1
<1>8. CASE UntrackedSuccess(e)
  <2>1. UNCHANGED failed_total
    BY <1>8 DEF UntrackedSuccess, ClearFailure
  <2>2. TrackingCoherent' /\ FailedOncePerTransition'
    BY <1>6, <1>8, <2>1 DEF UntrackedSuccess
  <2>. QED BY <1>1, <1>3, <2>2
<1>9. CASE PipelineSucceeds(e)
  <2>1. CASE pipeline' = EmptyPipeline(FALSE) /\ retry_state' = None /\ UNCHANGED failed_total
    <3>1. TrackingCoherent'
      BY <2>1, TrackingEmptied
    <3>2. FailedOncePerTransition'
      BY <1>2, <2>1 DEF FailedOncePerTransition, TypeOK
    <3>. QED BY <1>1, <1>3, <3>1, <3>2
  <2>2. CASE pipeline' = Named(e) /\ retry_state' = rs /\ UNCHANGED failed_total
    BY <1>1, <1>3, <1>6, <2>2
  <2>. QED BY <1>9, <2>1, <2>2 DEF PipelineSucceeds, ClearFailure
<1>10. CASE PipelineFails(e)
  <2>1. retry_state # None
    BY <1>4, <1>10 DEF PipelineFails, Tracked, TrackingCoherent
  <2>2. CASE Spent(rs)
    <3>1. TrackingCoherent' /\ FailedOncePerTransition'
      BY <1>2, <1>10, <2>1, <2>2, FailureDeclared DEF PipelineFails
    <3>. QED BY <1>1, <1>3, <3>1
  <2>3. CASE ~Spent(rs)
    <3>1. TrackingCoherent'
      BY <1>10, <2>3, TrackingEmptied DEF PipelineFails
    <3>2. FailedOncePerTransition'
      BY <1>2, <1>10, <2>1, <2>3 DEF PipelineFails, FailedOncePerTransition, TypeOK
    <3>. QED BY <1>1, <1>3, <3>1, <3>2
  <2>. QED BY <2>2, <2>3
<1>. QED BY <1>7, <1>8, <1>9, <1>10

\* A tick cancels an overdue attempt: its name is its own, so its own run stops.
LEMMA CancelKeepsTracking ==
    ASSUME TrackingInv, TypeOK', CancelTimedOut
    PROVE  TrackingInv'
<1>. USE DEF TrackingInv
<1>. DEFINE id == pipeline.event_id
<1>1. id # 0 /\ pipeline.name = id /\ id \in RunIds /\ runs[id].of = transitions_begun
  BY DEF CancelTimedOut, TimedOut, TrackingCoherent, AttemptsOf
<1>2. runs[id] \in RunRecords
  BY <1>1, RunAt
<1>3. runs' = [runs EXCEPT ![id] = [runs[id] EXCEPT !.stopping = TRUE]]
  BY <1>1 DEF CancelTimedOut
<1>4. /\ RunsKept /\ RunIds' = RunIds
      /\ runs'[id] = [runs[id] EXCEPT !.stopping = TRUE]
  <2>. DEFINE run == [runs[id] EXCEPT !.stopping = TRUE]
  <2>1. /\ run.of = runs[id].of /\ run.release = runs[id].release
        /\ run.started = runs[id].started /\ run.stopping
        /\ run.reason = runs[id].reason /\ run.ended = runs[id].ended
    BY <1>2 DEF RunRecords
  <2>. HIDE DEF run
  <2>2. runs' = [runs EXCEPT ![id] = run]
    BY <1>3 DEF run
  <2>3. RunsKept /\ RunIds' = RunIds /\ runs'[id] = run
    BY <1>1, <2>1, <2>2, UpdatedRuns
  <2>. QED BY <2>3 DEF run
<1>5. UNCHANGED <<stream, retry_state, failed_total, transitions_begun>>
  BY DEF CancelTimedOut
<1>6. EventsTruthful'
  BY <1>4, <1>5, SameQueue
<1>7. AttemptsOwned'
  BY <1>4, <1>5, OwnedStays DEF NewRunsOwned, TypeOK
<1>8. TrackingCoherent'
  <2>1. /\ pipeline'.event_id = id /\ pipeline'.name = pipeline.name
        /\ pipeline'.start_ts = pipeline.start_ts
        /\ pipeline'.maintenance = pipeline.maintenance
    BY DEF CancelTimedOut, TypeOK, PipelineRecords
  <2>2. Kept(id) /\ runs'[id].stopping
    BY <1>1, <1>2, <1>4 DEF RunsKept, RunRecords
  <2>. QED BY <1>1, <1>4, <1>5, <2>1, <2>2 DEF TrackingCoherent, AttemptsOf, Kept
<1>9. FailedOncePerTransition'
  BY <1>5 DEF FailedOncePerTransition
<1>. QED BY <1>6, <1>7, <1>8, <1>9

\* A tick fires the attempt that is due, or loses it with the trigger.
LEMMA RetryKeepsTracking ==
    ASSUME TrackingInv, TypeOK', FireRetry
    PROVE  TrackingInv'
<1>. USE PipelineRetryAssumption DEF TrackingInv
<1>1. /\ retry_state \in RetryRecords /\ retry_state # None
      /\ transitions_begun \in Nat /\ pipeline.event_id = 0
      /\ UNCHANGED <<failed_total, transitions_begun>>
  BY DEF FireRetry, BackingOff, TypeOK
<1>2. /\ Fired(retry_state) \in RetryRecords /\ Fired(retry_state).retry_at = -1
      /\ Fired(retry_state).maintenance = retry_state.maintenance
      /\ Fired(retry_state) # None
  <2>1. Fired(retry_state) \in RetryRecords
    BY <1>1, RecordTypes
  <2>2. /\ Fired(retry_state).retry_at = -1
        /\ Fired(retry_state).maintenance = retry_state.maintenance
    BY <1>1 DEF Fired, RetryRecords
  <2>. QED BY <2>1, <2>2
<1>3. CASE /\ TriggerAccepted(transitions_begun)
           /\ retry_state' = [Fired(retry_state) EXCEPT !.event_id = Len(runs) + 1]
           /\ pipeline' = Attempt(Len(runs) + 1, retry_state.maintenance)
  <2>1. /\ RunsKept /\ EventsTruthful' /\ Len(runs) + 1 \in RunIds'
        /\ runs'[Len(runs) + 1] = NewRun(Own, transitions_begun)
        /\ \A i \in RunIds' : i \in RunIds \/ i = Len(runs) + 1
    BY <1>1, <1>3, CreatedRun DEF TriggerAccepted
  <2>2. AttemptsOwned'
    <3>1. NewRunsOwned
      BY <1>1, <2>1 DEF NewRunsOwned, NewRun
    <3>. QED BY <1>1, <2>1, <3>1, OwnedStays
  <2>3. /\ retry_state'.event_id = Len(runs) + 1 /\ retry_state'.retry_at = -1
        /\ retry_state'.maintenance = retry_state.maintenance /\ retry_state' # None
    <3>1. retry_state' \in RetryRecords
      <4>1. Len(runs) + 1 \in Nat
        BY DEF TypeOK
      <4>. QED BY <1>1, <1>3, <4>1, RecordTypes
    <3>. QED BY <1>2, <1>3, <3>1 DEF RetryRecords
  <2>4. TrackingCoherent'
    BY <1>1, <1>3, <2>1, <2>3, TrackingBegun
  <2>5. FailedOncePerTransition'
    BY <1>1, <2>3 DEF FailedOncePerTransition
  <2>. QED BY <2>1, <2>2, <2>4, <2>5
<1>4. CASE /\ TriggerRaised(transitions_begun)
           /\ retry_state' = Fired(retry_state) /\ UNCHANGED pipeline
  <2>1. /\ RunsKept /\ EventsTruthful'
        /\ \A i \in RunIds' \ RunIds : runs'[i] = NewRun(Own, transitions_begun)
    BY <1>1, <1>4, RaisedTrigger
  <2>2. AttemptsOwned'
    <3>1. NewRunsOwned
      BY <1>1, <2>1 DEF NewRunsOwned, NewRun
    <3>. QED BY <1>1, <2>1, <3>1, OwnedStays
  <2>3. TrackingCoherent' /\ FailedOncePerTransition'
    BY <1>1, <1>2, <1>4 DEF TrackingCoherent, FailedOncePerTransition
  <2>. QED BY <2>1, <2>2, <2>3
<1>. QED BY <1>3, <1>4 DEF FireRetry

\* The cluster moves on; the agent does not.
LEMMA ClusterKeepsTracking ==
    ASSUME TrackingInv, TypeOK', RunsKept, EventsTruthful', NewRunsOwned, UNCHANGED agent
    PROVE  TrackingInv'
<1>. USE DEF TrackingInv
<1>1. RetryStateKept /\ UNCHANGED <<pipeline, failed_total, transitions_begun>>
  BY DEF agent, tracking, RetryStateKept
<1>2. AttemptsOwned'
  BY <1>1, OwnedStays DEF TypeOK
<1>. QED BY <1>1, <1>2, TrackingStays

\* Tekton starts or ends a run.
LEMMA TektonKeepsTracking ==
    ASSUME TrackingInv, TypeOK', NEW i \in RunIds, RunStarts(i) \/ RunEnds(i)
    PROVE  TrackingInv'
<1>. USE DEF TrackingInv
<1>1. i \in Nat /\ runs[i] \in RunRecords /\ now \in Int
  BY RunAt DEF TypeOK
<1>2. PICK run \in RunRecords :
        /\ runs' = [runs EXCEPT ![i] = run]
        /\ run.of = runs[i].of /\ run.release = runs[i].release
        /\ run.started = runs[i].started /\ run.stopping = runs[i].stopping
  <2>1. CASE RunStarts(i)
    <3>. DEFINE run == [runs[i] EXCEPT !.reason = "Running"]
    <3>1. /\ run \in RunRecords /\ run.of = runs[i].of /\ run.release = runs[i].release
          /\ run.started = runs[i].started /\ run.stopping = runs[i].stopping
      BY <1>1 DEF RunRecords, Reasons
    <3>2. runs' = [runs EXCEPT ![i] = run]
      BY <2>1 DEF RunStarts
    <3>. HIDE DEF run
    <3>. QED BY <3>1, <3>2
  <2>2. CASE RunEnds(i)
    <3>1. PICK r \in {"Succeeded", "Failed", "Unknown"} :
             runs' = [runs EXCEPT ![i] = [runs[i] EXCEPT !.reason = r, !.ended = now]]
      BY <2>2 DEF RunEnds
    <3>. DEFINE run == [runs[i] EXCEPT !.reason = r, !.ended = now]
    <3>2. /\ run \in RunRecords /\ run.of = runs[i].of /\ run.release = runs[i].release
          /\ run.started = runs[i].started /\ run.stopping = runs[i].stopping
      BY <1>1 DEF RunRecords, Reasons
    <3>3. runs' = [runs EXCEPT ![i] = run]
      BY <3>1
    <3>. HIDE DEF run
    <3>. QED BY <3>2, <3>3
  <2>. QED BY <2>1, <2>2
<1>3. ~Ended(runs[i])
  BY DEF RunStarts, RunEnds, Ended
<1>4. RunsKept /\ RunIds' = RunIds /\ runs'[i] = run
  BY <1>2, <1>3, UpdatedRuns
<1>5. EventsTruthful'
  <2>. DEFINE event == Snapshot("MODIFIED", i, runs'[i])
  <2>1. event \in EventRecords
    BY <1>1, <1>2, <1>4, RecordTypes
  <2>2. TruthfulThen(event)
    BY <1>4 DEF Snapshot, TruthfulThen
  <2>3. Emit(event)
    BY DEF RunStarts, RunEnds
  <2>. HIDE DEF event
  <2>. QED BY <1>4, <2>1, <2>2, <2>3, EmittedQueue
<1>6. NewRunsOwned
  BY <1>4 DEF NewRunsOwned
<1>. QED BY <1>4, <1>5, <1>6, ClusterKeepsTracking DEF RunStarts, RunEnds

\* A run is deleted: nothing else of it changes.
LEMMA DeletedRun ==
    ASSUME TypeOK, NEW i \in RunIds, RunDeleted(i)
    PROVE  /\ RunsKept /\ RunIds' = RunIds
           /\ \A j \in RunIds : /\ runs'[j].of = runs[j].of
                                /\ runs'[j].release = runs[j].release
                                /\ runs'[j].reason = runs[j].reason
                                /\ runs'[j].stopping = runs[j].stopping
                                /\ runs'[j].ended = runs[j].ended
<1>. DEFINE run == [runs[i] EXCEPT !.deleted = TRUE]
<1>1. /\ run.of = runs[i].of /\ run.release = runs[i].release
      /\ run.started = runs[i].started /\ run.stopping = runs[i].stopping
      /\ run.reason = runs[i].reason /\ run.ended = runs[i].ended
  BY RunAt DEF RunRecords
<1>2. runs' = [runs EXCEPT ![i] = run]
  BY DEF RunDeleted
<1>. HIDE DEF run
<1>3. RunsKept /\ RunIds' = RunIds /\ runs'[i] = run
  BY <1>1, <1>2, UpdatedRuns
<1>4. \A j \in RunIds : j # i => runs'[j] = runs[j]
  <2>1. runs \in [1..Len(runs) -> RunRecords]
    BY LenProperties DEF TypeOK
  <2>. QED BY <1>2, <2>1 DEF RunIds
<1>. QED BY <1>1, <1>3, <1>4

\* Its last event tells what it was.
LEMMA DeletionKeepsTracking ==
    ASSUME TrackingInv, TypeOK', NEW i \in RunIds, RunDeleted(i)
    PROVE  TrackingInv'
<1>. USE DEF TrackingInv
<1>. DEFINE event == Snapshot("DELETED", i, runs[i])
<1>1. event \in EventRecords
  BY RunAt, RecordTypes
<1>2. TruthfulThen(event)
  BY DeletedRun DEF Snapshot, TruthfulThen
<1>3. Emit(event)
  BY DEF RunDeleted
<1>. HIDE DEF event
<1>4. RunsKept /\ EventsTruthful'
  BY <1>1, <1>2, <1>3, DeletedRun, EmittedQueue
<1>5. NewRunsOwned
  BY DeletedRun DEF NewRunsOwned
<1>. QED BY <1>4, <1>5, ClusterKeepsTracking DEF RunDeleted

\* A relist replays what every run is at that moment.
LEMMA RelistKeepsTracking ==
    ASSUME TrackingInv, TypeOK', WatchOpens
    PROVE  TrackingInv'
<1>. USE DEF TrackingInv
<1>1. PICK listed \in [1..Cardinality(Existing) -> Existing] :
         stream' = stream \o [k \in DOMAIN listed |->
                                 Snapshot("ADDED", listed[k], runs[listed[k]])]
  BY DEF WatchOpens
<1>. DEFINE relist == [k \in 1..Cardinality(Existing) |->
                          Snapshot("ADDED", listed[k], runs[listed[k]])]
<1>2. UNCHANGED <<runs, agent>> /\ stream' = stream \o relist
  BY <1>1 DEF WatchOpens
<1>3. RunsKept /\ NewRunsOwned /\ RunIds' = RunIds
  BY <1>2, UnchangedRuns DEF NewRunsOwned
<1>4. \A k \in 1..Cardinality(Existing) :
         relist[k] \in EventRecords /\ TruthfulThen(relist[k])
  <2>. SUFFICES ASSUME NEW k \in 1..Cardinality(Existing)
                PROVE  relist[k] \in EventRecords /\ TruthfulThen(relist[k])
    OBVIOUS
  <2>1. relist[k] = Snapshot("ADDED", listed[k], runs[listed[k]])
    OBVIOUS
  <2>2. listed[k] \in RunIds
    BY DEF Existing
  <2>3. Snapshot("ADDED", listed[k], runs[listed[k]]) \in EventRecords
    BY <2>2, RunAt, RecordTypes
  <2>4. TruthfulThen(Snapshot("ADDED", listed[k], runs[listed[k]]))
    BY <1>2, <1>3, <2>2 DEF TruthfulThen, Snapshot
  <2>. QED BY <2>1, <2>3, <2>4
<1>5. relist \in Seq(EventRecords) /\ Len(relist) = Cardinality(Existing)
  <2>1. relist \in Seq(EventRecords)
    BY <1>4, ExistingCount, IsASeq
  <2>. QED BY <2>1, ExistingCount, LenProperties
<1>. HIDE DEF relist
<1>6. /\ Len(stream') = Len(stream) + Len(relist) /\ Len(stream) \in Nat
      /\ \A k \in 1..Len(stream') : stream'[k] = IF k <= Len(stream) THEN stream[k]
                                                 ELSE relist[k - Len(stream)]
  <2>1. stream \in Seq(EventRecords) /\ Len(stream) \in Nat
    BY DEF TypeOK
  <2>2. Len(stream') = Len(stream) + Len(relist)
    BY <1>2, <1>5, <2>1, ConcatProperties
  <2>3. \A k \in 1..Len(stream) + Len(relist) :
           (stream \o relist)[k] = IF k <= Len(stream) THEN stream[k]
                                   ELSE relist[k - Len(stream)]
    BY <1>5, <2>1, ConcatProperties
  <2>. QED BY <1>2, <2>1, <2>2, <2>3
<1>7. EventsTruthful'
  <2>. SUFFICES ASSUME NEW k \in 1..Len(stream')
                PROVE  \/ \E j \in 1..Len(stream) : stream'[k] = stream[j]
                       \/ TruthfulThen(stream'[k])
    BY <1>3, QueueTruthful
  <2>1. CASE k <= Len(stream)
    BY <1>6, <2>1
  <2>2. CASE k > Len(stream)
    <3>1. k - Len(stream) \in 1..Cardinality(Existing)
      BY <1>5, <1>6, <2>2, ExistingCount
    <3>. QED BY <1>4, <1>6, <2>2, <3>1
  <2>. QED BY <1>6, <2>1, <2>2
<1>. QED BY <1>2, <1>3, <1>7, ClusterKeepsTracking
-----------------------------------------------------------------------------
\* TrackingInv is inductive: one step per action.
LEMMA StepKeepsTracking ==
    ASSUME TrackingInv, [Next]_vars
    PROVE  TrackingInv'
<1>0. TypeOK'
  BY StepKeepsTypes DEF TrackingInv
<1>1. ASSUME NEW t \in Requests,
             \/ InitiatePrimary(t) \/ InitiateDetach(t) \/ CompleteStandby(t)
      PROVE  TrackingInv'
  <2>1. \/ \E maint \in BOOLEAN : /\ TriggerAccepted(transitions_begun + 1)
                                  /\ SetPipeline(Len(runs) + 1, maint)
        \/ /\ TriggerRaised(0) \/ UNCHANGED cluster
           /\ UNCHANGED <<tracking, transitions_begun>>
    BY <1>1 DEF InitiatePrimary, InitiateDetach, CompleteStandby
  <2>. QED BY <1>0, <2>1, TransitionBegins, TransitionRefused
<1>2. ASSUME NEW t \in Requests, InitiateStandby(t) \/ InitiateDown(t) \/ NoteState(t)
      PROVE  TrackingInv'
  <2>1. UNCHANGED cluster /\ UNCHANGED <<tracking, transitions_begun>>
    BY <1>2 DEF InitiateStandby, InitiateDown, NoteState
  <2>. QED BY <1>0, <2>1, TransitionRefused
<1>3. ASSUME NEW e \in FirstEvent,
             ObserveRun(e) \/ PipelineSucceeds(e) \/ PipelineFails(e) \/ UntrackedSuccess(e)
      PROVE  TrackingInv'
  BY <1>0, <1>3, EventKeepsTracking
<1>4. ASSUME CancelTimedOut
      PROVE  TrackingInv'
  BY <1>0, <1>4, CancelKeepsTracking
<1>5. ASSUME GiveUpAtCap
      PROVE  TrackingInv'
  <2>1. /\ UNCHANGED <<runs, stream, transitions_begun>> /\ retry_state # None
        /\ DeclareTransitionFailed(retry_state)
    BY <1>5 DEF GiveUpAtCap, BackingOff, cluster
  <2>2. RunsKept /\ RunIds' = RunIds
    BY <2>1, UnchangedRuns
  <2>3. TrackingCoherent' /\ FailedOncePerTransition'
    BY <1>0, <2>1, FailureDeclared DEF TrackingInv
  <2>4. AttemptsOwned' /\ EventsTruthful'
    BY <2>1, <2>2, SameQueue DEF TrackingInv, AttemptsOwned
  <2>. QED BY <1>0, <2>3, <2>4 DEF TrackingInv
<1>6. ASSUME FireRetry
      PROVE  TrackingInv'
  BY <1>0, <1>6, RetryKeepsTracking
<1>7. ASSUME NEW i \in RunIds, RunStarts(i) \/ RunEnds(i)
      PROVE  TrackingInv'
  BY <1>0, <1>7, TektonKeepsTracking
<1>8. ASSUME NEW r \in Releases, ForeignRun(r)
      PROVE  TrackingInv'
  <2>1. Create(NewRun(r, 0)) /\ UNCHANGED agent
    BY <1>8 DEF ForeignRun
  <2>2. /\ RunsKept /\ EventsTruthful' /\ runs'[Len(runs) + 1] = NewRun(r, 0)
        /\ \A i \in RunIds' : i \in RunIds \/ i = Len(runs) + 1
    BY <2>1, CreatedRun DEF TrackingInv
  <2>3. NewRunsOwned
    BY <2>2 DEF NewRunsOwned, NewRun
  <2>. QED BY <1>0, <2>1, <2>2, <2>3, ClusterKeepsTracking
<1>9. ASSUME WatchEnds \/ Advance
      PROVE  TrackingInv'
  <2>1. UNCHANGED <<runs, stream, agent>>
    BY <1>9 DEF WatchEnds, Advance, cluster
  <2>2. RunsKept /\ NewRunsOwned /\ EventsTruthful'
    BY <2>1, UnchangedRuns, SameQueue DEF TrackingInv, NewRunsOwned
  <2>. QED BY <1>0, <2>1, <2>2, ClusterKeepsTracking
<1>10. ASSUME WatchOpens
       PROVE  TrackingInv'
  BY <1>0, <1>10, RelistKeepsTracking
<1>11. ASSUME Restart
       PROVE  TrackingInv'
  <2>1. UNCHANGED <<runs, transitions_begun>> /\ stream' = <<>>
    BY <1>11 DEF Restart
  <2>2. EventsTruthful' /\ AttemptsOwned'
    BY <2>1 DEF TrackingInv, EventsTruthful, AttemptsOwned, RunIds
  <2>3. TrackingCoherent'
    BY <1>11, TrackingEmptied DEF Restart
  <2>4. FailedOncePerTransition'
    BY <1>0, <1>11 DEF Restart, FailedOncePerTransition, TypeOK
  <2>. QED BY <1>0, <2>2, <2>3, <2>4 DEF TrackingInv
<1>12. ASSUME UNCHANGED vars
       PROVE  TrackingInv'
  <2>1. UNCHANGED <<tracking, transitions_begun>> /\ UNCHANGED cluster
    BY <1>12 DEF vars
  <2>. QED BY <1>0, <2>1, TransitionRefused
<1>13. ASSUME NEW i \in RunIds, RunDeleted(i)
       PROVE  TrackingInv'
  BY <1>0, <1>13, DeletionKeepsTracking
<1>. QED BY <1>1, <1>2, <1>3, <1>4, <1>5, <1>6, <1>7, <1>8, <1>9, <1>10, <1>11, <1>12,
            <1>13 DEF Next

\* TrackingInv holds of every state the agent and its cluster can reach.
THEOREM TrackingInvariant == Spec => []TrackingInv
<1>1. Init => TypeOK
  BY InitTypes
<1>2. Init => EventsTruthful /\ AttemptsOwned /\ FailedOncePerTransition
  BY DEF Init, EventsTruthful, AttemptsOwned, FailedOncePerTransition, RunIds
<1>3. Init => TrackingCoherent
  BY DEF Init, TrackingCoherent, EmptyPipeline
<1>4. TrackingInv /\ [Next]_vars => TrackingInv'
  BY StepKeepsTracking
<1>. QED BY <1>1, <1>2, <1>3, <1>4, PTL DEF Spec, TrackingInv

\* What the agent remembers of its attempt agrees with the runs of the cluster:
\* the attempt is a run of the current transition, begun when recorded and
\* cancelled under its own name (logic.py 85-87, 538-585).
THEOREM TrackingIsCoherent == Spec => []TrackingCoherent
<1>1. TrackingInv => TrackingCoherent
  BY DEF TrackingInv
<1>. QED BY <1>1, TrackingInvariant, PTL

\* A transition is counted as failed at most once, however many of its attempts
\* fail and however their events are replayed (logic.py 456-487).
THEOREM FailureCountedOnce == Spec => []FailedOncePerTransition
<1>1. TrackingInv => FailedOncePerTransition
  BY DEF TrackingInv
<1>. QED BY <1>1, TrackingInvariant, PTL
-----------------------------------------------------------------------------
\* Creating a run changes no other.
LEMMA CreatedSame ==
    ASSUME TypeOK, NEW release \in Releases, NEW t \in Nat, Create(NewRun(release, t))
    PROVE  \A i \in RunIds : runs'[i] = runs[i]
<1>1. NewRun(release, t) \in RunRecords
  BY DEF NewRun, RunRecords, Reasons, TypeOK
<1>2. \A i \in 1..Len(runs) : runs'[i] = runs[i]
  BY <1>1, AppendProperties DEF Create, TypeOK
<1>. QED BY <1>2 DEF RunIds

\* No run is told to stop.
NoneStopped == \A i \in RunIds : runs'[i].stopping = runs[i].stopping

\* Only the cancellation of an overdue attempt tells a run to stop.
LEMMA OnlyCancelStops ==
    ASSUME TypeOK, [Next]_vars
    PROVE  NoneStopped \/ CancelTimedOut
<1>. USE PipelineRetryAssumption
<1>1. CASE UNCHANGED runs
  BY <1>1 DEF NoneStopped
<1>2. ASSUME NEW release \in Releases, NEW t \in Nat, Create(NewRun(release, t))
      PROVE  NoneStopped
  BY <1>2, CreatedSame DEF NoneStopped
<1>3. ASSUME NEW i \in RunIds, RunStarts(i) \/ RunEnds(i)
      PROVE  NoneStopped
  <2>1. runs[i] \in RunRecords /\ runs \in [1..Len(runs) -> RunRecords]
    BY RunAt, LenProperties DEF TypeOK
  <2>2. CASE RunStarts(i)
    BY <2>1, <2>2 DEF RunStarts, NoneStopped, RunIds, RunRecords
  <2>3. CASE RunEnds(i)
    <3>1. PICK r : runs' = [runs EXCEPT ![i] = [runs[i] EXCEPT !.reason = r, !.ended = now]]
      BY <2>3 DEF RunEnds
    <3>. QED BY <2>1, <3>1 DEF NoneStopped, RunIds, RunRecords
  <2>. QED BY <1>3, <2>2, <2>3
<1>4. \A t \in Requests : InitiatePrimary(t) \/ InitiateDetach(t) \/ CompleteStandby(t) =>
         UNCHANGED runs \/ \E n \in Nat : Create(NewRun(Own, n))
  <2>1. transitions_begun + 1 \in Nat /\ 0 \in Nat
    BY DEF TypeOK
  <2>. QED BY <2>1 DEF InitiatePrimary, InitiateDetach, CompleteStandby, TriggerAccepted,
                       TriggerRaised, cluster
<1>5. \A t \in Requests : InitiateStandby(t) \/ InitiateDown(t) \/ NoteState(t) =>
         UNCHANGED runs
  BY DEF InitiateStandby, InitiateDown, NoteState, cluster
<1>6. \A e \in FirstEvent :
         ObserveRun(e) \/ PipelineSucceeds(e) \/ PipelineFails(e) \/ UntrackedSuccess(e) =>
            UNCHANGED runs
  BY DEF ObserveRun, PipelineSucceeds, PipelineFails, UntrackedSuccess, Consume
<1>7. FireRetry => UNCHANGED runs \/ \E n \in Nat : Create(NewRun(Own, n))
  BY DEF FireRetry, TriggerAccepted, TriggerRaised, cluster, TypeOK
<1>8. \A r \in Releases : ForeignRun(r) => Create(NewRun(r, 0))
  BY DEF ForeignRun
<1>9. GiveUpAtCap \/ WatchEnds \/ WatchOpens \/ Restart \/ Advance \/ UNCHANGED vars =>
         UNCHANGED runs
  BY DEF GiveUpAtCap, WatchEnds, WatchOpens, Restart, Advance, vars, cluster
<1>10. \A i \in RunIds : RunDeleted(i) => NoneStopped
  BY DeletedRun DEF NoneStopped
<1>. QED BY <1>1, <1>2, <1>3, <1>4, <1>5, <1>6, <1>7, <1>8, <1>9, <1>10 DEF Next

\* The agent stops only runs of the transition it tracks, and none before the
\* attempt timeout is over, whatever the watch replays and whichever transition
\* began in between (logic.py 506-517, 538-546).
THEOREM OnlyOverdueStopped == Spec => OnlyOverdueRunsStopped
<1>1. TrackingInv /\ [Next]_vars =>
         [\A i \in RunIds : ~runs[i].stopping /\ runs'[i].stopping =>
             /\ runs[i].of = transitions_begun
             /\ now - runs[i].started >= AttemptTimeout]_vars
  <2>. SUFFICES ASSUME TrackingInv, [Next]_vars, NEW i \in RunIds,
                       ~runs[i].stopping, runs'[i].stopping
                PROVE  /\ runs[i].of = transitions_begun
                       /\ now - runs[i].started >= AttemptTimeout
    OBVIOUS
  <2>1. CancelTimedOut
    BY OnlyCancelStops DEF TrackingInv, NoneStopped
  <2>2. /\ pipeline.event_id # 0 /\ pipeline.name = pipeline.event_id
        /\ pipeline.start_ts = runs[pipeline.event_id].started
        /\ runs[pipeline.event_id].of = transitions_begun
        /\ now - pipeline.start_ts >= AttemptTimeout
    BY <2>1 DEF CancelTimedOut, TimedOut, TrackingInv, TrackingCoherent, AttemptsOf
  <2>3. i = pipeline.name
    <3>1. runs \in [1..Len(runs) -> RunRecords]
      BY LenProperties DEF TrackingInv, TypeOK
    <3>2. i # pipeline.name => runs'[i] = runs[i]
      BY <2>1, <3>1 DEF CancelTimedOut, RunIds
    <3>. QED BY <3>2
  <2>. QED BY <2>2, <2>3
<1>. QED BY <1>1, TrackingInvariant, PTL DEF Spec, OnlyOverdueRunsStopped

-----------------------------------------------------------------------------
\* Keycloak leaves maintenance by the handler of a success alone.
LEMMA OnlySuccessEndsMaintenance ==
    ASSUME TypeOK, [Next]_vars, maintenance.keycloak, ~maintenance'.keycloak
    PROVE  \E e \in FirstEvent : PipelineSucceeds(e) \/ UntrackedSuccess(e)
<1>0. MaintenanceSwitched(TRUE) \/ MaintenanceRaised(TRUE) => maintenance'.keycloak
  BY DEF MaintenanceSwitched, MaintenanceRaised, TypeOK
<1>1. maintenance' # maintenance
  OBVIOUS
<1>2. ~\E t \in Requests : InitiatePrimary(t) \/ InitiateStandby(t) \/ InitiateDown(t)
  BY <1>0 DEF InitiatePrimary, InitiateStandby, InitiateDown
<1>3. ~\E t \in Requests : InitiateDetach(t) \/ CompleteStandby(t) \/ NoteState(t)
  BY <1>1 DEF InitiateDetach, CompleteStandby, NoteState
<1>4. ~\E e \in FirstEvent : ObserveRun(e) \/ PipelineFails(e)
  BY <1>1 DEF ObserveRun, PipelineFails, DeclareTransitionFailed
<1>5. ~(CancelTimedOut \/ GiveUpAtCap \/ FireRetry)
  BY <1>1 DEF CancelTimedOut, GiveUpAtCap, DeclareTransitionFailed, FireRetry
<1>6. ~\E i \in RunIds : RunStarts(i) \/ RunEnds(i) \/ RunDeleted(i)
  BY <1>1 DEF RunStarts, RunEnds, RunDeleted, agent
<1>7. ~\E r \in Releases : ForeignRun(r)
  BY <1>1 DEF ForeignRun, agent
<1>8. ~(WatchEnds \/ WatchOpens \/ Restart \/ Advance \/ UNCHANGED vars)
  BY <1>1 DEF WatchEnds, WatchOpens, Restart, Advance, vars, agent
<1>. QED BY <1>2, <1>3, <1>4, <1>5, <1>6, <1>7, <1>8 DEF Next

\* Users are let in again only on the word of a run of the site's own release
\* that did succeed: an attempt at the current transition, or any run after a
\* declared failure.  However late, lost or repeated the events, none ends
\* maintenance for a run that failed or is another release's (logic.py 102-117,
\* 439-443, 489-496).
THEOREM MaintenanceGuarded == Spec => MaintenanceEndsOnlyOnSuccess
<1>1. TrackingInv /\ [Next]_vars =>
         [maintenance.keycloak /\ ~maintenance'.keycloak =>
            \E e \in FirstEvent :
               /\ runs[e.event_id].reason = "Succeeded"
               /\ runs[e.event_id].release = Own
               /\ runs[e.event_id].of = transitions_begun \/ transition_failed]_vars
  <2>. SUFFICES ASSUME TrackingInv, [Next]_vars, maintenance.keycloak,
                       ~maintenance'.keycloak
                PROVE  \E e \in FirstEvent :
                          /\ runs[e.event_id].reason = "Succeeded"
                          /\ runs[e.event_id].release = Own
                          /\ runs[e.event_id].of = transitions_begun \/ transition_failed
    OBVIOUS
  <2>1. PICK e \in FirstEvent : PipelineSucceeds(e) \/ UntrackedSuccess(e)
    BY OnlySuccessEndsMaintenance DEF TrackingInv
  <2>2. Truthful(e)
    BY <2>1, ConsumedQueue DEF TrackingInv, PipelineSucceeds, UntrackedSuccess
  <2>3. e.reason = "Succeeded" /\ runs[e.event_id].reason = "Succeeded"
    BY <2>1, <2>2 DEF PipelineSucceeds, UntrackedSuccess, Recovers, Truthful
  <2>4. CASE PipelineSucceeds(e)
    <3>1. e.event_id = pipeline.event_id /\ e.event_id \in RunIds /\ e.event_id # 0
      BY <2>2, <2>4 DEF PipelineSucceeds, Tracked, Truthful, RunIds
    <3>2. runs[e.event_id].of = transitions_begun /\ retry_state # None
      BY <3>1 DEF TrackingInv, TrackingCoherent, AttemptsOf
    <3>3. transitions_begun # 0
      BY <3>2 DEF TrackingInv, FailedOncePerTransition, TypeOK
    <3>4. runs[e.event_id].release = Own
      BY <3>1, <3>2, <3>3 DEF TrackingInv, AttemptsOwned
    <3>. QED BY <2>3, <3>2, <3>4
  <2>5. CASE UntrackedSuccess(e)
    <3>1. transition_failed /\ e.release = Own
      BY <2>5 DEF UntrackedSuccess, Recovers
    <3>. QED BY <2>2, <2>3, <3>1 DEF Truthful
  <2>. QED BY <2>1, <2>4, <2>5
<1>. QED BY <1>1, TrackingInvariant, PTL DEF Spec, MaintenanceEndsOnlyOnSuccess
-----------------------------------------------------------------------------
(* The attempts at one transition: they do not overlap, keep the retry       *)
(* interval between them, begin before the cap, are at most one more than    *)
(* the retries allowed, and the transition is declared failed only when they *)
(* are spent.  The inductive invariant is AttemptsInv of PipelineRetry.      *)
(* What it depends on is how a step changes the tracking records, so a step  *)
(* is first classified (StepShape).  Then that each step, seen through these *)
(* records, is one of DeploymentOutcome or none.                             *)

\* A transition begins with its first attempt.
Begun == \E maint \in BOOLEAN : /\ TriggerAccepted(transitions_begun + 1)
                                /\ SetPipeline(Len(runs) + 1, maint)
                                /\ UNCHANGED now

\* The records stay; runs may be added that the agent does not know, and may end.
Quiet ==
    /\ RunsKept /\ RetryStateKept
    /\ pipeline'.event_id = pipeline.event_id
    /\ UNCHANGED <<transitions_begun, failed_total>>
    /\ now <= now'
    /\ \A i \in RunIds' \ RunIds : runs'[i].of = 0 /\ ~Ended(runs'[i])
    /\ \A i \in RunIds : Ended(runs'[i]) => Ended(runs[i]) \/ runs'[i].ended = now

\* The transition is no longer tracked.
Dropped ==
    /\ retry_state' = None /\ pipeline'.event_id = 0
    /\ UNCHANGED <<runs, now, transitions_begun>>

\* The attempt in flight failed, and the next one is scheduled.
Scheduled ==
    /\ ~Spent(retry_state)
    /\ \E e \in FirstEvent : PipelineFails(e)
    /\ pipeline'.event_id = 0
    /\ retry_state' # None
    /\ retry_state'.retry_at = RetryDue
    /\ retry_state'.attempts_made = retry_state.attempts_made
    /\ retry_state'.transition_started_ts = retry_state.transition_started_ts
    /\ UNCHANGED <<runs, now, transitions_begun, failed_total>>

\* A transition that begins no deployment, a lost trigger's run included.
LEMMA QuietTransition ==
    ASSUME TypeOK, TriggerRaised(0) \/ UNCHANGED cluster, EventsTruthful,
           UNCHANGED <<tracking, transitions_begun, now>>
    PROVE  Quiet
<1>1. /\ RetryStateKept /\ now <= now' /\ pipeline'.event_id = pipeline.event_id
      /\ UNCHANGED <<transitions_begun, failed_total>>
  BY DEF RetryStateKept, tracking, TypeOK
<1>2. CASE UNCHANGED cluster
  <2>1. RunsKept /\ RunIds' = RunIds /\ UNCHANGED runs
    BY <1>2, UnchangedRuns DEF cluster
  <2>. QED BY <1>1, <2>1 DEF Quiet
<1>3. CASE Create(NewRun(Own, 0))
  <2>1. /\ RunsKept /\ runs'[Len(runs) + 1] = NewRun(Own, 0)
        /\ \A i \in RunIds' : i \in RunIds \/ i = Len(runs) + 1
    BY <1>3, CreatedRun, PipelineRetryAssumption
  <2>2. \A i \in RunIds : runs'[i] = runs[i]
    BY <1>3, CreatedSame, PipelineRetryAssumption
  <2>3. NewRun(Own, 0).of = 0 /\ ~Ended(NewRun(Own, 0))
    BY DEF NewRun, Ended
  <2>. QED BY <1>1, <2>1, <2>2, <2>3 DEF Quiet
<1>. QED BY <1>2, <1>3 DEF TriggerRaised

\* Tekton starts or ends a run.
LEMMA QuietTekton ==
    ASSUME TypeOK, NEW i \in RunIds, RunStarts(i) \/ RunEnds(i)
    PROVE  Quiet
<1>1. runs[i] \in RunRecords /\ now \in Nat
  BY RunAt DEF TypeOK
<1>2. PICK run \in RunRecords :
        /\ runs' = [runs EXCEPT ![i] = run]
        /\ run.of = runs[i].of /\ run.release = runs[i].release
        /\ run.started = runs[i].started /\ run.stopping = runs[i].stopping
        /\ Ended(run) => run.ended = now
  <2>1. CASE RunStarts(i)
    <3>. DEFINE run == [runs[i] EXCEPT !.reason = "Running"]
    <3>1. /\ run \in RunRecords /\ run.of = runs[i].of /\ run.release = runs[i].release
          /\ run.started = runs[i].started /\ run.stopping = runs[i].stopping
          /\ run.reason = "Running"
      BY <1>1 DEF RunRecords, Reasons
    <3>2. runs' = [runs EXCEPT ![i] = run]
      BY <2>1 DEF RunStarts
    <3>. HIDE DEF run
    <3>. QED BY <3>1, <3>2 DEF Ended
  <2>2. CASE RunEnds(i)
    <3>1. PICK r \in {"Succeeded", "Failed", "Unknown"} :
             runs' = [runs EXCEPT ![i] = [runs[i] EXCEPT !.reason = r, !.ended = now]]
      BY <2>2 DEF RunEnds
    <3>. DEFINE run == [runs[i] EXCEPT !.reason = r, !.ended = now]
    <3>2. /\ run \in RunRecords /\ run.of = runs[i].of /\ run.release = runs[i].release
          /\ run.started = runs[i].started /\ run.stopping = runs[i].stopping
          /\ run.ended = now
      <4>1. run \in RunRecords
        <5>1. now \in Int
          BY <1>1
        <5>. QED BY <1>1, <5>1, RecordTypes DEF Reasons
      <4>2. /\ run.of = runs[i].of /\ run.release = runs[i].release
            /\ run.started = runs[i].started /\ run.stopping = runs[i].stopping
            /\ run.ended = now
        BY <1>1 DEF RunRecords
      <4>. QED BY <4>1, <4>2
    <3>3. runs' = [runs EXCEPT ![i] = run]
      BY <3>1
    <3>. HIDE DEF run
    <3>. QED BY <3>2, <3>3
  <2>. QED BY <2>1, <2>2
<1>3. ~Ended(runs[i])
  BY DEF RunStarts, RunEnds, Ended
<1>4. RunsKept /\ RunIds' = RunIds /\ runs'[i] = run
  BY <1>2, <1>3, UpdatedRuns
<1>5. \A k \in RunIds : k # i => runs'[k] = runs[k]
  <2>1. runs \in [1..Len(runs) -> RunRecords]
    BY LenProperties DEF TypeOK
  <2>. QED BY <1>2, <2>1 DEF RunIds
<1>6. RetryStateKept /\ UNCHANGED <<pipeline, transitions_begun, failed_total, now>>
  BY DEF RunStarts, RunEnds, agent, tracking, RetryStateKept
<1>. QED BY <1>1, <1>2, <1>4, <1>5, <1>6 DEF Quiet

\* A run is deleted.
LEMMA QuietDeletion ==
    ASSUME TypeOK, NEW i \in RunIds, RunDeleted(i)
    PROVE  Quiet
<1>1. RetryStateKept /\ UNCHANGED <<pipeline, transitions_begun, failed_total, now>>
  BY DEF RunDeleted, agent, tracking, RetryStateKept
<1>. QED BY <1>1, DeletedRun DEF Quiet, Ended, TypeOK

\* Foreign runs, the watch, the clock and a cancellation.
LEMMA QuietCluster ==
    ASSUME TypeOK, TypeOK', EventsTruthful,
           \/ \E r \in Releases : ForeignRun(r)
           \/ CancelTimedOut \/ WatchEnds \/ WatchOpens \/ Advance
    PROVE  Quiet \/ CancelTimedOut
<1>1. CASE \E r \in Releases : ForeignRun(r)
  <2>1. PICK r \in Releases : ForeignRun(r)
    BY <1>1
  <2>2. Create(NewRun(r, 0)) /\ UNCHANGED <<now, agent>>
    BY <2>1 DEF ForeignRun
  <2>3. /\ RunsKept /\ runs'[Len(runs) + 1] = NewRun(r, 0)
        /\ \A i \in RunIds' : i \in RunIds \/ i = Len(runs) + 1
    BY <2>2, CreatedRun
  <2>4. \A i \in RunIds : runs'[i] = runs[i]
    BY <2>2, CreatedSame
  <2>5. NewRun(r, 0).of = 0 /\ ~Ended(NewRun(r, 0))
    BY DEF NewRun, Ended
  <2>6. RetryStateKept /\ UNCHANGED <<pipeline, transitions_begun, failed_total, now>>
    BY <2>2 DEF agent, tracking, RetryStateKept
  <2>. QED BY <2>3, <2>4, <2>5, <2>6 DEF Quiet, TypeOK
<1>2. CASE WatchEnds \/ WatchOpens \/ Advance
  <2>1. UNCHANGED <<runs, agent>> /\ (now' = now \/ now' = now + 1)
    BY <1>2 DEF WatchEnds, WatchOpens, Advance, cluster
  <2>2. RunsKept /\ RunIds' = RunIds
    BY <2>1, UnchangedRuns
  <2>3. RetryStateKept /\ UNCHANGED <<pipeline, transitions_begun, failed_total>>
    BY <2>1 DEF agent, tracking, RetryStateKept
  <2>. QED BY <2>1, <2>2, <2>3 DEF Quiet, TypeOK
<1>. QED BY <1>1, <1>2

\* A cancellation of a run that exists.
LEMMA QuietCancel ==
    ASSUME TypeOK, CancelTimedOut, pipeline.name \in RunIds
    PROVE  Quiet
<1>. DEFINE id == pipeline.name
            run == [runs[id] EXCEPT !.stopping = TRUE]
<1>1. runs[id] \in RunRecords
  BY RunAt
<1>2. /\ run.of = runs[id].of /\ run.release = runs[id].release
      /\ run.started = runs[id].started /\ run.stopping
      /\ run.reason = runs[id].reason /\ run.ended = runs[id].ended
  BY <1>1 DEF RunRecords
<1>3. runs' = [runs EXCEPT ![id] = run]
  BY DEF CancelTimedOut
<1>. HIDE DEF run
<1>4. RunsKept /\ RunIds' = RunIds /\ runs'[id] = run
  BY <1>2, <1>3, UpdatedRuns
<1>5. \A k \in RunIds : k # id => runs'[k] = runs[k]
  <2>1. runs \in [1..Len(runs) -> RunRecords]
    BY LenProperties DEF TypeOK
  <2>. QED BY <1>3, <2>1 DEF RunIds
<1>6. /\ RetryStateKept /\ UNCHANGED <<transitions_begun, failed_total, now>>
      /\ pipeline'.event_id = pipeline.event_id
  BY DEF CancelTimedOut, RetryStateKept, TypeOK, PipelineRecords
<1>. QED BY <1>2, <1>4, <1>5, <1>6 DEF Quiet, Ended, TypeOK

\* How an event changes the records.
LEMMA EventShape ==
    ASSUME TrackingInv, NEW e \in FirstEvent,
           ObserveRun(e) \/ PipelineSucceeds(e) \/ PipelineFails(e) \/ UntrackedSuccess(e)
    PROVE  /\ Quiet \/ Dropped \/ Scheduled
           /\ Quiet \/ PipelineSucceeds(e) \/ PipelineFails(e)
<1>. USE PipelineRetryAssumption DEF TrackingInv
<1>. DEFINE rs == Relabelled(e)
<1>1. Consume(e)
  BY DEF ObserveRun, PipelineSucceeds, PipelineFails, UntrackedSuccess
<1>2. /\ RunsKept /\ RunIds' = RunIds /\ Truthful(e)
      /\ UNCHANGED <<runs, transitions_begun, now>>
  BY <1>1, ConsumedQueue DEF Consume
<1>3. Named(e).event_id = pipeline.event_id
  BY DEF Named, TypeOK, PipelineRecords
<1>4. ASSUME retry_state' = rs, pipeline' \in {pipeline, Named(e)}, UNCHANGED failed_total
      PROVE  Quiet
  <2>1. RetryStateKept
    BY <1>1, <1>4, RelabelKeeps
  <2>. QED BY <1>2, <1>3, <1>4, <2>1 DEF Quiet, TypeOK
<1>5. CASE ObserveRun(e)
  BY <1>4, <1>5 DEF ObserveRun
<1>6. CASE UntrackedSuccess(e)
  BY <1>4, <1>6 DEF UntrackedSuccess, ClearFailure
<1>7. CASE PipelineSucceeds(e)
  <2>1. CASE pipeline' = EmptyPipeline(FALSE) /\ retry_state' = None
    BY <1>2, <1>7, <2>1 DEF Dropped, EmptyPipeline
  <2>2. CASE pipeline' = Named(e) /\ retry_state' = rs /\ UNCHANGED failed_total
    BY <1>4, <2>2
  <2>. QED BY <1>7, <2>1, <2>2 DEF PipelineSucceeds
<1>8. CASE PipelineFails(e)
  <2>1. CASE Spent(rs)
    <3>1. DeclareTransitionFailed(rs)
      BY <1>8, <2>1 DEF PipelineFails
    <3>2. retry_state' = None /\ pipeline'.event_id = 0
      BY <3>1 DEF DeclareTransitionFailed, EmptyPipeline
    <3>. QED BY <1>2, <1>8, <3>2 DEF Dropped
  <2>2. CASE ~Spent(rs)
    <3>1. /\ rs.attempts_made = retry_state.attempts_made
          /\ rs.transition_started_ts = retry_state.transition_started_ts
          /\ retry_state # None /\ rs \in RetryRecords
      BY <1>1, <2>2, RelabelKeeps, EventType DEF Spent
    <3>2. retry_state' = [rs EXCEPT !.retry_at = RetryDue]
      BY <1>8, <2>2 DEF PipelineFails
    <3>3. /\ retry_state' \in RetryRecords /\ retry_state'.retry_at = RetryDue
          /\ retry_state'.attempts_made = rs.attempts_made
          /\ retry_state'.transition_started_ts = rs.transition_started_ts
      <4>1. RetryDue \in Int
        BY DEF RetryDue, TypeOK
      <4>. HIDE DEF rs
      <4>. QED BY <3>1, <3>2, <4>1, RecordTypes DEF RetryRecords
    <3>4. ~Spent(retry_state)
      BY <2>2, <3>1 DEF Spent, CapElapsed
    <3>5. pipeline'.event_id = 0 /\ UNCHANGED failed_total
      BY <1>8, <2>2 DEF PipelineFails, EmptyPipeline
    <3>. QED BY <1>2, <1>8, <3>1, <3>3, <3>4, <3>5 DEF Scheduled
  <2>. QED BY <1>8, <2>1, <2>2
<1>. QED BY <1>5, <1>6, <1>7, <1>8

\* Every step is one of these.
LEMMA StepShape ==
    ASSUME TrackingInv, [Next]_vars
    PROVE  Begun \/ Quiet \/ Dropped \/ Scheduled \/ FireRetry
<1>0. TypeOK' /\ TypeOK /\ EventsTruthful
  BY StepKeepsTypes DEF TrackingInv
<1>1. ASSUME NEW t \in Requests,
             InitiatePrimary(t) \/ InitiateDetach(t) \/ CompleteStandby(t)
      PROVE  Begun \/ Quiet
  <2>1. \/ Begun
        \/ /\ TriggerRaised(0) \/ UNCHANGED cluster
           /\ UNCHANGED <<tracking, transitions_begun, now>>
    BY <1>1 DEF InitiatePrimary, InitiateDetach, CompleteStandby, Begun
  <2>. QED BY <1>0, <2>1, QuietTransition
<1>2. ASSUME NEW t \in Requests, InitiateStandby(t) \/ InitiateDown(t) \/ NoteState(t)
      PROVE  Quiet
  <2>1. UNCHANGED cluster /\ UNCHANGED <<tracking, transitions_begun, now>>
    BY <1>2 DEF InitiateStandby, InitiateDown, NoteState
  <2>. QED BY <1>0, <2>1, QuietTransition
<1>3. ASSUME CancelTimedOut
      PROVE  Quiet
  <2>1. pipeline.name \in RunIds
    BY <1>3 DEF CancelTimedOut, TimedOut, TrackingInv, TrackingCoherent, AttemptsOf
  <2>. QED BY <1>0, <1>3, <2>1, QuietCancel
<1>4. ASSUME GiveUpAtCap
      PROVE  Dropped
  BY <1>4 DEF GiveUpAtCap, DeclareTransitionFailed, Dropped, cluster, EmptyPipeline
<1>5. ASSUME Restart
      PROVE  Dropped
  BY <1>5 DEF Restart, Dropped, EmptyPipeline
<1>6. ASSUME UNCHANGED vars
      PROVE  Quiet
  <2>1. UNCHANGED cluster /\ UNCHANGED <<tracking, transitions_begun, now>>
    BY <1>6 DEF vars
  <2>. QED BY <1>0, <2>1, QuietTransition
<1>. QED BY <1>0, <1>1, <1>2, <1>3, <1>4, <1>5, <1>6, EventShape, QuietTekton,
            QuietDeletion, QuietCluster DEF Next
-----------------------------------------------------------------------------
\* AttemptsOf, of the state after a step.
AttemptsThen(t) == {i \in RunIds' : runs'[i].of = t}

\* Attempts can be counted.
LEMMA AttemptsFinite ==
    ASSUME TypeOK, NEW t
    PROVE  IsFiniteSet(AttemptsOf(t)) /\ Cardinality(AttemptsOf(t)) \in Nat
<1>1. IsFiniteSet(RunIds)
  BY FS_Interval DEF RunIds, TypeOK
<1>2. AttemptsOf(t) \subseteq RunIds
  BY DEF AttemptsOf
<1>. QED BY <1>1, <1>2, FS_Subset, FS_CardinalityType

\* Runs the agent does not know are attempts at nothing.
LEMMA AttemptsUnchanged ==
    ASSUME RunsKept, \A i \in RunIds' \ RunIds : runs'[i].of = 0, NEW t, t # 0
    PROVE  AttemptsThen(t) = AttemptsOf(t)
BY DEF RunsKept, Kept, AttemptsThen, AttemptsOf

\* A run created for a transition is one attempt more.
LEMMA AttemptAdded ==
    ASSUME TypeOK, EventsTruthful, NEW n \in Nat, Create(NewRun(Own, n))
    PROVE  /\ AttemptsThen(n) = AttemptsOf(n) \cup {Len(runs) + 1}
           /\ Cardinality(AttemptsThen(n)) = Cardinality(AttemptsOf(n)) + 1
           /\ \A t : t # n => AttemptsThen(t) = AttemptsOf(t)
<1>1. /\ RunsKept /\ Len(runs) + 1 \in RunIds'
      /\ runs'[Len(runs) + 1] = NewRun(Own, n)
      /\ \A i \in RunIds' : i \in RunIds \/ i = Len(runs) + 1
  BY CreatedRun, PipelineRetryAssumption
<1>2. NewRun(Own, n).of = n
  BY DEF NewRun
<1>3. AttemptsThen(n) = AttemptsOf(n) \cup {Len(runs) + 1}
  BY <1>1, <1>2 DEF RunsKept, Kept, AttemptsThen, AttemptsOf
<1>4. \A t : t # n => AttemptsThen(t) = AttemptsOf(t)
  BY <1>1, <1>2 DEF RunsKept, Kept, AttemptsThen, AttemptsOf
<1>5. Len(runs) + 1 \notin AttemptsOf(n)
  BY DEF AttemptsOf, RunIds, TypeOK
<1>6. Cardinality(AttemptsThen(n)) = Cardinality(AttemptsOf(n)) + 1
  BY <1>3, <1>5, AttemptsFinite, FS_AddElement
<1>. QED BY <1>3, <1>4, <1>6

\* A transition that is tracked has a number.
LEMMA TrackedTransition ==
    ASSUME TrackingInv, retry_state # None
    PROVE  transitions_begun \in Nat /\ transitions_begun # 0
BY DEF TrackingInv, FailedOncePerTransition, TypeOK

\* Spacing and cap concern pairs of attempts.  Steps that add no attempt keep them.
LEMMA PairsKept ==
    ASSUME TypeOK, AttemptsSpaced, AttemptsWithinCap, RunsKept,
           \A i \in RunIds' \ RunIds : runs'[i].of = 0
    PROVE  AttemptsSpaced' /\ AttemptsWithinCap'
<1>1. \A i, j \in RunIds' : (SameTransition(i, j))' =>
         /\ i \in RunIds /\ j \in RunIds /\ SameTransition(i, j)
         /\ Kept(i) /\ Kept(j)
  BY DEF SameTransition, RunsKept, Kept
<1>. QED BY <1>1 DEF AttemptsSpaced, AttemptsWithinCap, Kept, Ended

\* A quiet step keeps what is known of the attempts.
LEMMA QuietKeepsAttempts ==
    ASSUME AttemptsInv, TypeOK', Quiet
    PROVE  (EndsInPast /\ Accounted /\ AttemptsSpaced /\ AttemptsWithinCap /\ RetryBudget)'
<1>. USE DEF AttemptsInv
<1>0. TypeOK /\ RunsKept
  BY DEF TrackingInv, Quiet
<1>1. EndsInPast'
  <2>. SUFFICES ASSUME NEW i \in RunIds', Ended(runs'[i])
                PROVE  runs'[i].ended <= now'
    BY DEF EndsInPast, Ended
  <2>1. i \in RunIds
    BY DEF Quiet
  <2>2. runs[i].ended \in Int
    BY <1>0, <2>1, RunAt DEF RunRecords
  <2>3. now \in Int /\ now' \in Int /\ now <= now'
    BY <1>0 DEF Quiet, TypeOK
  <2>4. CASE Ended(runs[i])
    <3>1. runs'[i].ended = runs[i].ended
      BY <1>0, <2>1, <2>4 DEF RunsKept, Kept
    <3>2. runs[i].ended <= now
      BY <2>1, <2>4 DEF EndsInPast
    <3>. QED BY <2>2, <2>3, <3>1, <3>2
  <2>5. CASE ~Ended(runs[i])
    BY <2>1, <2>3, <2>5 DEF Quiet
  <2>. QED BY <2>4, <2>5
<1>2. AttemptsSpaced' /\ AttemptsWithinCap'
  BY <1>0, PairsKept DEF Quiet
<1>3. \A t : t # 0 => AttemptsThen(t) = AttemptsOf(t)
  BY <1>0, AttemptsUnchanged DEF Quiet
<1>4. RetryBudget'
  BY <1>3 DEF Quiet, RetryBudget, AttemptsOf, AttemptsThen
<1>5. Accounted'
  <2>. SUFFICES ASSUME retry_state' # None
                PROVE  Accounted'
    BY DEF Accounted
  <2>. DEFINE attempts == AttemptsOf(transitions_begun)
  <2>1. /\ retry_state # None
        /\ transitions_begun \in Nat /\ transitions_begun # 0
        /\ AttemptsThen(transitions_begun) = attempts
        /\ transitions_begun' = transitions_begun
    BY <1>3, TrackedTransition DEF Quiet, RetryStateKept
  <2>2. /\ retry_state'.retry_at = retry_state.retry_at
        /\ retry_state'.attempts_made = retry_state.attempts_made
        /\ retry_state'.transition_started_ts = retry_state.transition_started_ts
        /\ pipeline'.event_id = pipeline.event_id
    BY <2>1 DEF Quiet, RetryStateKept
  <2>3. \A i \in attempts : Kept(i)
    BY <1>0 DEF AttemptsOf, RunsKept
  <2>4. AttemptsOf(transitions_begun)' = attempts
    BY <2>1 DEF AttemptsThen, AttemptsOf
  <2>5. /\ retry_state.transition_started_ts <= now
        /\ retry_state.attempts_made <= MaxRetries
        /\ Cardinality(attempts) <= retry_state.attempts_made + 1
        /\ \A i \in attempts : runs[i].started >= retry_state.transition_started_ts
        /\ MayRetry =>
              /\ Cardinality(attempts) = retry_state.attempts_made + 1
              /\ \E i \in attempts : runs[i].started = retry_state.transition_started_ts
              /\ \A i \in attempts : i # pipeline.event_id => runs[i].reason = "Failed"
        /\ retry_state.retry_at # Never =>
              /\ retry_state.attempts_made < MaxRetries
              /\ \A i \in attempts :
                    runs[i].ended + RetryInterval <= retry_state.retry_at
    BY <2>1 DEF Accounted
  <2>6. retry_state.retry_at # Never => \A i \in attempts : runs[i].reason = "Failed"
    <3>1. retry_state.retry_at # Never => pipeline.event_id = 0
      BY DEF TrackingInv, TrackingCoherent
    <3>2. 0 \notin attempts
      BY DEF AttemptsOf, RunIds
    <3>. QED BY <2>5, <3>1, <3>2 DEF MayRetry
  <2>7. retry_state'.transition_started_ts <= now'
    <3>1. retry_state.transition_started_ts \in Nat /\ now \in Nat /\ now' \in Nat
      BY <1>0, <2>1 DEF TypeOK, RetryRecords
    <3>. QED BY <2>2, <2>5, <3>1 DEF Quiet
  <2>8. MayRetry' => MayRetry
    BY <2>2 DEF MayRetry
  <2>. HIDE DEF attempts
  <2>9. \A i \in attempts : runs'[i].started = runs[i].started
    BY <2>3 DEF Kept
  <2>10. \A i \in attempts : runs[i].reason = "Failed" =>
            runs'[i].reason = "Failed" /\ runs'[i].ended = runs[i].ended
    BY <2>3 DEF Kept, Ended
  <2>. QED BY <2>2, <2>4, <2>5, <2>6, <2>7, <2>8, <2>9, <2>10 DEF Accounted
<1>. QED BY <1>1, <1>2, <1>4, <1>5

\* So does giving the tracking up.
LEMMA DroppedKeepsAttempts ==
    ASSUME AttemptsInv, Dropped
    PROVE  (EndsInPast /\ Accounted /\ AttemptsSpaced /\ AttemptsWithinCap /\ RetryBudget)'
<1>1. UNCHANGED <<runs, now, transitions_begun>> /\ RunIds' = RunIds
  BY DEF Dropped, RunIds
<1>2. Accounted'
  BY DEF Dropped, Accounted
<1>. QED BY <1>1, <1>2 DEF AttemptsInv, EndsInPast, AttemptsSpaced, AttemptsWithinCap,
         RetryBudget, AttemptsOf, SameTransition, Ended

\* The failure of the attempt in flight schedules the next one: now every
\* attempt has failed, the last one no later than this instant.
LEMMA ScheduledKeepsAttempts ==
    ASSUME AttemptsInv, TypeOK', Scheduled
    PROVE  (EndsInPast /\ Accounted /\ AttemptsSpaced /\ AttemptsWithinCap /\ RetryBudget)'
<1>. USE PipelineRetryAssumption DEF AttemptsInv
<1>1. UNCHANGED <<runs, now, transitions_begun>> /\ RunIds' = RunIds
  BY DEF Scheduled, RunIds
<1>2. (EndsInPast /\ AttemptsSpaced /\ AttemptsWithinCap /\ RetryBudget)'
  BY <1>1 DEF EndsInPast, AttemptsSpaced, AttemptsWithinCap, RetryBudget, AttemptsOf,
     SameTransition, Ended
<1>3. Accounted'
  <2>. DEFINE attempts == AttemptsOf(transitions_begun)
  <2>1. PICK e \in FirstEvent : PipelineFails(e)
    BY DEF Scheduled
  <2>2. pipeline.event_id \in RunIds /\ runs[pipeline.event_id].reason = "Failed"
    <3>1. Truthful(e)
      BY <2>1, ConsumedQueue DEF TrackingInv, PipelineFails
    <3>. QED BY <2>1, <3>1 DEF PipelineFails, Tracked, Truthful
  <2>3. /\ pipeline.event_id # 0 /\ retry_state # None /\ MayRetry
        /\ retry_state.attempts_made < MaxRetries
    <3>1. retry_state # None /\ ~(retry_state.attempts_made >= MaxRetries)
      BY DEF Scheduled, Spent
    <3>2. retry_state.attempts_made \in Nat
      BY <3>1 DEF TrackingInv, TypeOK, RetryRecords
    <3>. QED BY <2>2, <3>1, <3>2 DEF RunIds, MayRetry
  <2>4. /\ retry_state.transition_started_ts <= now
        /\ \A i \in attempts : runs[i].started >= retry_state.transition_started_ts
        /\ Cardinality(attempts) = retry_state.attempts_made + 1
        /\ \E i \in attempts : runs[i].started = retry_state.transition_started_ts
        /\ \A i \in attempts : i # pipeline.event_id => runs[i].reason = "Failed"
    BY <2>3 DEF Accounted
  <2>5. \A i \in attempts : runs[i].reason = "Failed"
    BY <2>2, <2>4
  <2>6. \A i \in attempts : runs[i].ended + RetryInterval <= now + RetryInterval
    <3>. SUFFICES ASSUME NEW i \in attempts
                  PROVE  runs[i].ended + RetryInterval <= now + RetryInterval
      OBVIOUS
    <3>1. i \in RunIds /\ Ended(runs[i])
      BY <2>5 DEF AttemptsOf, Ended
    <3>2. runs[i].ended \in Int /\ runs[i].ended <= now /\ now \in Nat
      BY <3>1, RunAt DEF RunRecords, EndsInPast, TrackingInv, TypeOK
    <3>. QED BY <3>2
  <2>7. /\ retry_state'.retry_at = now + RetryInterval
        /\ retry_state'.attempts_made = retry_state.attempts_made
        /\ retry_state'.transition_started_ts = retry_state.transition_started_ts
        /\ pipeline'.event_id = 0
    BY DEF Scheduled, RetryDue
  <2>8. AttemptsOf(transitions_begun)' = attempts
    BY <1>1 DEF AttemptsOf
  <2>9. Cardinality(attempts) <= retry_state.attempts_made + 1
        /\ retry_state.attempts_made <= MaxRetries
    BY <2>3, AttemptsFinite DEF Accounted, TrackingInv
  <2>. HIDE DEF attempts
  <2>. QED BY <1>1, <2>3, <2>4, <2>5, <2>6, <2>7, <2>8, <2>9 DEF Accounted
<1>. QED BY <1>2, <1>3

\* An attempt may follow when all before it have ended long enough ago and the
\* first is not older than the cap.
LEMMA PairsAdded ==
    ASSUME TypeOK, EventsTruthful, EndsInPast, AttemptsSpaced, AttemptsWithinCap,
           NEW n \in Nat, Create(NewRun(Own, n)), UNCHANGED now,
           \A i \in AttemptsOf(n) : /\ Ended(runs[i])
                                    /\ now >= runs[i].ended + RetryInterval
                                    /\ now - runs[i].started < TotalCap
    PROVE  EndsInPast' /\ AttemptsSpaced' /\ AttemptsWithinCap'
<1>. DEFINE new == Len(runs) + 1
<1>1. /\ new \in RunIds' /\ runs'[new] = NewRun(Own, n)
      /\ \A i \in RunIds' : i \in RunIds \/ i = new
      /\ \A i \in RunIds : runs'[i] = runs[i]
  BY CreatedRun, CreatedSame, PipelineRetryAssumption
<1>2. /\ runs'[new].of = n /\ runs'[new].started = now /\ ~Ended(runs'[new])
  BY <1>1 DEF NewRun, Ended
<1>3. \A i \in RunIds : i < new /\ ~(new < i)
  BY DEF RunIds, TypeOK
<1>. HIDE DEF new
<1>4. EndsInPast'
  BY <1>1, <1>2 DEF EndsInPast, Ended
<1>5. ASSUME NEW i \in RunIds', NEW j \in RunIds', i < j,
             runs'[i].of = runs'[j].of, runs'[i].of # 0
      PROVE  /\ Ended(runs'[i]) /\ runs'[j].started >= runs'[i].ended + RetryInterval
             /\ runs'[j].started - runs'[i].started < TotalCap
  <2>1. i \in RunIds
    <3>1. i = new => ~(new < new)
      BY <1>5, <1>1 DEF RunIds
    <3>. QED BY <1>1, <1>3, <1>5, <3>1
  <2>2. CASE j \in RunIds
    BY <1>1, <1>5, <2>1, <2>2 DEF AttemptsSpaced, AttemptsWithinCap, SameTransition
  <2>3. CASE j = new
    <3>1. i \in AttemptsOf(n)
      BY <1>1, <1>2, <1>5, <2>1, <2>3 DEF AttemptsOf
    <3>. QED BY <1>1, <1>2, <2>1, <2>3, <3>1
  <2>. QED BY <1>1, <2>2, <2>3
<1>6. AttemptsSpaced' /\ AttemptsWithinCap'
  BY <1>5 DEF AttemptsSpaced, AttemptsWithinCap, SameTransition, Ended
<1>. QED BY <1>4, <1>6

\* So does the beginning of a transition, with its first attempt.
LEMMA BegunKeepsAttempts ==
    ASSUME AttemptsInv, TypeOK', Begun
    PROVE  (EndsInPast /\ Accounted /\ AttemptsSpaced /\ AttemptsWithinCap /\ RetryBudget)'
<1>. USE PipelineRetryAssumption DEF AttemptsInv
<1>. DEFINE n == transitions_begun + 1
            new == Len(runs) + 1
<1>0. TypeOK /\ EventsTruthful /\ n \in Nat /\ new \in Nat
  BY DEF TrackingInv, TypeOK
<1>1. PICK maint \in BOOLEAN : SetPipeline(new, maint)
  BY DEF Begun
<1>2. Create(NewRun(Own, n)) /\ now' = now /\ transitions_begun' = n
  BY DEF Begun, TriggerAccepted, SetPipeline
<1>3. AttemptsOf(n) = {}
  <2>1. ASSUME NEW i \in RunIds
        PROVE  runs[i].of # n
    <3>1. runs[i].of \in Nat /\ transitions_begun \in Nat
      BY <1>0, RunAt DEF TypeOK, RunRecords
    <3>2. runs[i].of # 0 => runs[i].of <= transitions_begun
      BY DEF TrackingInv, AttemptsOwned
    <3>. QED BY <3>1, <3>2
  <2>. QED BY <2>1 DEF AttemptsOf
<1>4. /\ AttemptsThen(n) = {new} /\ Cardinality(AttemptsThen(n)) = 1
      /\ \A t : t # n => AttemptsThen(t) = AttemptsOf(t)
  <2>1. Cardinality({}) = 0
    BY FS_EmptySet
  <2>2. /\ AttemptsThen(n) = AttemptsOf(n) \cup {new}
        /\ Cardinality(AttemptsThen(n)) = Cardinality(AttemptsOf(n)) + 1
        /\ \A t : t # n => AttemptsThen(t) = AttemptsOf(t)
    BY <1>0, <1>2, AttemptAdded
  <2>. HIDE DEF n, new
  <2>. QED BY <1>3, <2>1, <2>2
<1>5. EndsInPast' /\ AttemptsSpaced' /\ AttemptsWithinCap'
  BY <1>0, <1>2, <1>3, PairsAdded
<1>6. runs'[new] = NewRun(Own, n) /\ NewRun(Own, n).started = now
  BY <1>0, <1>2, CreatedRun DEF NewRun
<1>. HIDE DEF n, new
<1>7. RetryBudget'
  <2>. SUFFICES ASSUME NEW t \in 1..n
                PROVE  Cardinality(AttemptsThen(t)) <= MaxRetries + 1
    BY <1>2 DEF RetryBudget, AttemptsThen, AttemptsOf
  <2>1. CASE t = n
    BY <1>4, <2>1
  <2>2. CASE t # n
    <3>1. t \in 1..transitions_begun
      BY <1>0, <2>2 DEF n, TypeOK
    <3>. QED BY <1>4, <2>2, <3>1 DEF RetryBudget
  <2>. QED BY <2>1, <2>2
<1>8. Accounted'
  <2>1. /\ retry_state'.transition_started_ts = now /\ retry_state'.attempts_made = 0
        /\ retry_state'.retry_at = -1 /\ pipeline'.event_id = new
    <3>1. now \in Nat
      BY <1>0 DEF TypeOK
    <3>. QED BY <1>1, <3>1 DEF SetPipeline, Attempt
  <2>2. AttemptsOf(transitions_begun)' = {new}
    BY <1>2, <1>4 DEF AttemptsThen, AttemptsOf
  <2>3. runs'[new].started = now /\ now \in Nat /\ now' = now
    BY <1>0, <1>2, <1>6 DEF TypeOK
  <2>4. Cardinality({new}) = 1
    BY FS_Singleton
  <2>. QED BY <2>1, <2>2, <2>3, <2>4 DEF Accounted
<1>. QED BY <1>5, <1>7, <1>8

\* A retry fires when it is due and before the cap; with its answer lost the
\* attempt may or may not exist, and no other follows.
LEMMA RetryKeepsAttempts ==
    ASSUME AttemptsInv, TypeOK', FireRetry
    PROVE  (EndsInPast /\ Accounted /\ AttemptsSpaced /\ AttemptsWithinCap /\ RetryBudget)'
<1>. USE PipelineRetryAssumption DEF AttemptsInv
<1>. DEFINE n == transitions_begun
            new == Len(runs) + 1
            attempts == AttemptsOf(n)
<1>0. TypeOK /\ EventsTruthful /\ n \in Nat /\ n # 0 /\ new \in Nat
  BY TrackedTransition DEF TrackingInv, TypeOK, FireRetry, BackingOff
<1>1. /\ retry_state # None /\ retry_state \in RetryRecords
      /\ retry_state.retry_at # -1 /\ pipeline.event_id = 0 /\ MayRetry
      /\ ~CapElapsed(retry_state) /\ now >= retry_state.retry_at
      /\ now' = now /\ transitions_begun' = n
  BY <1>0 DEF FireRetry, BackingOff, MayRetry, TypeOK
<1>2. /\ retry_state.attempts_made < MaxRetries
      /\ Cardinality(attempts) = retry_state.attempts_made + 1
      /\ \A i \in attempts : /\ runs[i].reason = "Failed"
                             /\ runs[i].ended + RetryInterval <= retry_state.retry_at
                             /\ runs[i].started >= retry_state.transition_started_ts
      /\ \E i \in attempts : runs[i].started = retry_state.transition_started_ts
      /\ retry_state.transition_started_ts <= now
  <2>1. 0 \notin attempts
    BY DEF AttemptsOf, RunIds
  <2>. QED BY <1>1, <2>1 DEF Accounted
<1>3. /\ retry_state.transition_started_ts \in Nat /\ retry_state.attempts_made \in Nat
      /\ now \in Nat /\ retry_state.retry_at \in Int
  BY <1>0, <1>1 DEF RetryRecords, TypeOK
<1>4. \A i \in attempts : /\ Ended(runs[i])
                          /\ now >= runs[i].ended + RetryInterval
                          /\ now - runs[i].started < TotalCap
                          /\ runs[i].started \in Nat
  <2>. SUFFICES ASSUME NEW i \in attempts
                PROVE  /\ Ended(runs[i])
                       /\ now >= runs[i].ended + RetryInterval
                       /\ now - runs[i].started < TotalCap
                       /\ runs[i].started \in Nat
    OBVIOUS
  <2>1. runs[i].ended \in Int /\ runs[i].started \in Nat
    BY <1>0, RunAt DEF AttemptsOf, RunRecords
  <2>2. now - retry_state.transition_started_ts < TotalCap
    BY <1>1, <1>3 DEF CapElapsed
  <2>. QED BY <1>1, <1>2, <1>3, <2>1, <2>2 DEF Ended
<1>5. /\ retry_state' # None
      /\ retry_state'.retry_at = -1
      /\ retry_state'.attempts_made = retry_state.attempts_made + 1
      /\ retry_state'.transition_started_ts = retry_state.transition_started_ts
  <2>1. /\ Fired(retry_state) \in RetryRecords /\ Fired(retry_state).retry_at = -1
        /\ Fired(retry_state).attempts_made = retry_state.attempts_made + 1
        /\ Fired(retry_state).transition_started_ts = retry_state.transition_started_ts
    <3>1. Fired(retry_state) \in RetryRecords
      BY <1>1, RecordTypes
    <3>. QED BY <1>1, <3>1 DEF Fired, RetryRecords
  <2>2. [Fired(retry_state) EXCEPT !.event_id = new] \in RetryRecords
    BY <1>0, <1>1, RecordTypes
  <2>3. CASE retry_state' = Fired(retry_state)
    BY <2>1, <2>3
  <2>4. CASE retry_state' = [Fired(retry_state) EXCEPT !.event_id = new]
    <3>. DEFINE fired == Fired(retry_state)
    <3>1. fired \in RetryRecords /\ retry_state' = [fired EXCEPT !.event_id = new]
      BY <2>1, <2>4
    <3>. HIDE DEF fired
    <3>2. /\ retry_state'.retry_at = fired.retry_at
          /\ retry_state'.attempts_made = fired.attempts_made
          /\ retry_state'.transition_started_ts = fired.transition_started_ts
      BY <3>1 DEF RetryRecords
    <3>. QED BY <2>1, <2>2, <2>4, <3>2 DEF fired
  <2>. QED BY <2>3, <2>4 DEF FireRetry
<1>. HIDE DEF attempts
<1>6. CASE Create(NewRun(Own, n))
  <2>1. /\ AttemptsThen(n) = attempts \cup {new}
        /\ Cardinality(AttemptsThen(n)) = retry_state.attempts_made + 2
        /\ \A t : t # n => AttemptsThen(t) = AttemptsOf(t)
    BY <1>0, <1>2, <1>3, <1>6, AttemptAdded DEF attempts
  <2>2. EndsInPast' /\ AttemptsSpaced' /\ AttemptsWithinCap'
    BY <1>0, <1>1, <1>4, <1>6, PairsAdded DEF attempts
  <2>3. /\ runs'[new] = NewRun(Own, n) /\ NewRun(Own, n).started = now
        /\ \A i \in attempts : runs'[i] = runs[i]
    BY <1>0, <1>6, CreatedRun, CreatedSame DEF NewRun, attempts, AttemptsOf
  <2>4. AttemptsOf(transitions_begun)' = attempts \cup {new}
    BY <1>1, <2>1 DEF AttemptsThen, AttemptsOf
  <2>5. RetryBudget'
    <3>. SUFFICES ASSUME NEW t \in 1..n
                  PROVE  Cardinality(AttemptsThen(t)) <= MaxRetries + 1
      BY <1>1 DEF RetryBudget, AttemptsThen, AttemptsOf
    <3>1. CASE t = n
      <4>1. retry_state.attempts_made + 2 <= MaxRetries + 1
        BY <1>2, <1>3
      <4>. QED BY <2>1, <3>1, <4>1
    <3>2. CASE t # n
      BY <2>1, <3>2 DEF RetryBudget
    <3>. QED BY <3>1, <3>2
  <2>6. pipeline'.event_id \in {0, new}
    BY <1>1 DEF FireRetry, Attempt
  <2>. HIDE DEF n, new
  <2>7. Accounted'
    <3>1. Cardinality(AttemptsOf(transitions_begun)') = retry_state'.attempts_made + 1
      BY <1>3, <1>5, <2>1, <2>4
    <3>2. retry_state'.attempts_made <= MaxRetries
      BY <1>2, <1>3, <1>5
    <3>3. MayRetry' => pipeline'.event_id = new
      BY <1>5, <2>6 DEF MayRetry
    <3>4. \A i \in attempts \cup {new} :
             runs'[i].started >= retry_state.transition_started_ts
      BY <1>2, <1>3, <2>3
    <3>5. \A i \in attempts \cup {new} : i # new => runs'[i].reason = "Failed"
      BY <1>2, <2>3
    <3>6. \E i \in attempts \cup {new} :
             runs'[i].started = retry_state.transition_started_ts
      BY <1>2, <2>3
    <3>7. Cardinality(AttemptsOf(transitions_begun)') <= retry_state'.attempts_made + 1
      BY <1>3, <1>5, <3>1
    <3>. QED BY <1>1, <1>2, <1>5, <2>4, <3>1, <3>2, <3>3, <3>4, <3>5, <3>6, <3>7
         DEF Accounted
  <2>. QED BY <2>2, <2>5, <2>7
<1>7. CASE UNCHANGED <<runs, pipeline>>
  <2>1. RunIds' = RunIds /\ AttemptsOf(transitions_begun)' = attempts
    BY <1>1, <1>7 DEF RunIds, AttemptsOf, attempts
  <2>2. (EndsInPast /\ AttemptsSpaced /\ AttemptsWithinCap /\ RetryBudget)'
    BY <1>1, <1>7, <2>1 DEF EndsInPast, AttemptsSpaced, AttemptsWithinCap, RetryBudget,
       AttemptsOf, SameTransition, Ended
  <2>3. ~MayRetry'
    BY <1>1, <1>5, <1>7 DEF MayRetry
  <2>4. Accounted'
    <3>1. /\ Cardinality(attempts) <= retry_state'.attempts_made + 1
          /\ retry_state'.attempts_made <= MaxRetries
      BY <1>2, <1>3, <1>5
    <3>. QED BY <1>1, <1>2, <1>5, <1>7, <2>1, <2>3, <3>1 DEF Accounted
  <2>. QED BY <2>2, <2>4
<1>. QED BY <1>6, <1>7 DEF FireRetry, TriggerAccepted, TriggerRaised, cluster
-----------------------------------------------------------------------------
\* AttemptsInv is inductive, by the shape of the step.
LEMMA StepKeepsAttempts ==
    ASSUME AttemptsInv, [Next]_vars
    PROVE  AttemptsInv'
<1>1. TrackingInv' /\ TypeOK'
  BY StepKeepsTracking DEF AttemptsInv, TrackingInv
<1>2. Begun \/ Quiet \/ Dropped \/ Scheduled \/ FireRetry
  BY StepShape DEF AttemptsInv
<1>3. (EndsInPast /\ Accounted /\ AttemptsSpaced /\ AttemptsWithinCap /\ RetryBudget)'
  BY <1>1, <1>2, BegunKeepsAttempts, QuietKeepsAttempts, DroppedKeepsAttempts,
     ScheduledKeepsAttempts, RetryKeepsAttempts
<1>. QED BY <1>1, <1>3 DEF AttemptsInv

\* AttemptsInv holds of every state the agent and its cluster can reach.
THEOREM AttemptsInvariant == Spec => []AttemptsInv
<1>1. Init => RunIds = {} /\ retry_state = None /\ transitions_begun = 0
  BY DEF Init, RunIds
<1>2. Init => EndsInPast /\ Accounted /\ AttemptsSpaced /\ AttemptsWithinCap /\ RetryBudget
  BY <1>1 DEF EndsInPast, Accounted, AttemptsSpaced, AttemptsWithinCap, RetryBudget
<1>3. (EndsInPast /\ Accounted /\ AttemptsSpaced /\ AttemptsWithinCap /\ RetryBudget
       /\ TrackingInv) <=> AttemptsInv
  BY DEF AttemptsInv
<1>4. AttemptsInv /\ [Next]_vars => AttemptsInv'
  BY StepKeepsAttempts
<1>5. Spec => TrackingInv
  BY TrackingInvariant, PTL
<1>. QED BY <1>2, <1>3, <1>4, <1>5, PTL DEF Spec

\* Two attempts at one transition are never under way together, and the retry
\* interval lies between the end of one and the beginning of the next
\* (spec.md 27-30).
THEOREM AttemptsAreSpaced == Spec => []AttemptsSpaced
<1>1. AttemptsInv => AttemptsSpaced
  BY DEF AttemptsInv
<1>. QED BY <1>1, AttemptsInvariant, PTL

\* No attempt begins once the cap has elapsed since the transition's first one
\* (spec.md 34, 47-50).
THEOREM AttemptsKeepCap == Spec => []AttemptsWithinCap
<1>1. AttemptsInv => AttemptsWithinCap
  BY DEF AttemptsInv
<1>. QED BY <1>1, AttemptsInvariant, PTL

\* A transition has at most one attempt more than the retries configured, lost
\* answers of the trigger included (spec.md 11).
THEOREM BudgetKept == Spec => []RetryBudget
<1>1. AttemptsInv => RetryBudget
  BY DEF AttemptsInv
<1>. QED BY <1>1, AttemptsInvariant, PTL

\* Only two handlers declare a transition failed.
LEMMA OnlyTwoDeclare ==
    ASSUME TrackingInv, [Next]_vars, failed_total' > failed_total
    PROVE  GiveUpAtCap \/ \E e \in FirstEvent : PipelineFails(e) /\ ~Quiet
<1>1. failed_total \in Nat /\ failed_total' # failed_total
  BY DEF TrackingInv, TypeOK
<1>2. ~Quiet
  BY <1>1 DEF Quiet
<1>3. TypeOK' /\ TypeOK /\ EventsTruthful
  BY StepKeepsTypes DEF TrackingInv
<1>4. ~\E t \in Requests : \/ InitiatePrimary(t) \/ InitiateDetach(t) \/ CompleteStandby(t)
                           \/ InitiateStandby(t) \/ InitiateDown(t) \/ NoteState(t)
  BY <1>1 DEF InitiatePrimary, InitiateDetach, CompleteStandby, InitiateStandby,
              InitiateDown, NoteState, SetPipeline, tracking
<1>5. ~(CancelTimedOut \/ FireRetry \/ UNCHANGED vars)
  BY <1>1 DEF CancelTimedOut, FireRetry, vars, tracking
<1>6. ~\E i \in RunIds : RunStarts(i) \/ RunEnds(i) \/ RunDeleted(i)
  BY <1>2, <1>3, QuietTekton, QuietDeletion
<1>7. ~((\E r \in Releases : ForeignRun(r)) \/ WatchEnds \/ WatchOpens \/ Advance)
  BY <1>2, <1>3, <1>5, QuietCluster
<1>8. ~Restart
  <2>1. Restart => failed_total' = 0
    BY DEF Restart
  <2>. QED BY <1>1, <2>1
<1>9. ~\E e \in FirstEvent : PipelineSucceeds(e)
  BY <1>1 DEF PipelineSucceeds, ClearFailure
<1>10. \A e \in FirstEvent : ~(ObserveRun(e) \/ UntrackedSuccess(e))
  BY <1>1 DEF ObserveRun, UntrackedSuccess, ClearFailure
<1>. QED BY <1>2, <1>4, <1>5, <1>6, <1>7, <1>8, <1>9, <1>10 DEF Next

\* A transition is declared failed only when every attempt at it has failed and
\* no other may follow: the retries are used up or the cap has elapsed, whatever
\* the watch lost or replayed on the way (spec.md 54).
THEOREM FailureIsSpent == Spec => FailureOnlyWhenSpent
<1>1. AttemptsInv /\ [Next]_vars =>
         [failed_total' > failed_total =>
            /\ \A i \in AttemptsOf(transitions_begun) : runs[i].reason = "Failed"
            /\ \/ Cardinality(AttemptsOf(transitions_begun)) = MaxRetries + 1
               \/ \E i \in AttemptsOf(transitions_begun) :
                     now - runs[i].started >= TotalCap]_vars
  <2>. DEFINE attempts == AttemptsOf(transitions_begun)
  <2>. SUFFICES ASSUME AttemptsInv, [Next]_vars, failed_total' > failed_total
                PROVE  /\ \A i \in attempts : runs[i].reason = "Failed"
                       /\ \/ Cardinality(attempts) = MaxRetries + 1
                          \/ \E i \in attempts : now - runs[i].started >= TotalCap
    OBVIOUS
  <2>. USE PipelineRetryAssumption
  <2>1. TrackingInv /\ TypeOK
    BY DEF AttemptsInv, TrackingInv
  <2>2. ASSUME retry_state # None, MayRetry,
               pipeline.event_id \in attempts => runs[pipeline.event_id].reason = "Failed",
               retry_state.attempts_made >= MaxRetries \/ CapElapsed(retry_state)
        PROVE  /\ \A i \in attempts : runs[i].reason = "Failed"
               /\ \/ Cardinality(attempts) = MaxRetries + 1
                  \/ \E i \in attempts : now - runs[i].started >= TotalCap
    <3>1. /\ retry_state.attempts_made <= MaxRetries
          /\ Cardinality(attempts) = retry_state.attempts_made + 1
          /\ \E i \in attempts : runs[i].started = retry_state.transition_started_ts
          /\ \A i \in attempts : i # pipeline.event_id => runs[i].reason = "Failed"
      BY <2>2 DEF AttemptsInv, Accounted
    <3>2. \A i \in attempts : runs[i].reason = "Failed"
      BY <2>2, <3>1
    <3>3. CASE retry_state.attempts_made >= MaxRetries
      <4>1. retry_state.attempts_made \in Nat
        BY <2>1, <2>2 DEF TypeOK, RetryRecords
      <4>. QED BY <3>1, <3>2, <3>3, <4>1
    <3>4. CASE CapElapsed(retry_state)
      BY <3>1, <3>2, <3>4 DEF CapElapsed
    <3>. QED BY <2>2, <3>3, <3>4
  <2>3. CASE GiveUpAtCap
    <3>1. /\ retry_state # None /\ MayRetry /\ pipeline.event_id = 0
          /\ CapElapsed(retry_state)
      BY <2>3 DEF GiveUpAtCap, BackingOff, MayRetry
    <3>2. 0 \notin attempts
      BY DEF AttemptsOf, RunIds
    <3>. QED BY <2>2, <3>1, <3>2
  <2>4. CASE \E e \in FirstEvent : PipelineFails(e) /\ ~Quiet
    <3>1. PICK e \in FirstEvent : PipelineFails(e)
      BY <2>4
    <3>2. Truthful(e) /\ Consume(e)
      BY <2>1, <3>1, ConsumedQueue DEF TrackingInv, PipelineFails
    <3>3. /\ pipeline.event_id = e.event_id /\ pipeline.event_id # 0
          /\ runs[pipeline.event_id].reason = "Failed"
      BY <3>1, <3>2 DEF PipelineFails, Tracked, Truthful, RunIds
    <3>4. retry_state # None /\ MayRetry
      BY <2>1, <3>3 DEF TrackingInv, TrackingCoherent, MayRetry
    <3>5. Spent(Relabelled(e))
      <4>1. ~Spent(Relabelled(e)) => failed_total' = failed_total
        BY <3>1 DEF PipelineFails
      <4>2. failed_total \in Nat
        BY <2>1 DEF TypeOK
      <4>. QED BY <4>1, <4>2
    <3>6. retry_state.attempts_made >= MaxRetries \/ CapElapsed(retry_state)
      BY <2>1, <3>2, <3>4, <3>5, RelabelKeeps DEF Spent, CapElapsed
    <3>. QED BY <2>2, <3>3, <3>4, <3>6
  <2>. QED BY <2>1, <2>3, <2>4, OnlyTwoDeclare
<1>. QED BY <1>1, AttemptsInvariant, PTL DEF Spec, FailureOnlyWhenSpent
-----------------------------------------------------------------------------
(* PipelineRetry implements DeploymentOutcome by the mapping Outcome.  A   *)
(* step needs what AttemptsInv says of the records: that a failure is      *)
(* declared with the retries used up exactly, and that an attempt in       *)
(* flight belongs to a transition.                                         *)

\* The values Outcome gives the variables of DeploymentOutcome.
Status == IF retry_state = None
          THEN IF transition_failed THEN "failed" ELSE "idle"
          ELSE IF pipeline.event_id # NoId THEN "inflight"
          ELSE IF retry_state.retry_at # Never THEN "backoff" ELSE "stranded"
Tries   == IF retry_state = None THEN 0 ELSE retry_state.attempts_made
BeganAt == IF retry_state = None THEN Never ELSE retry_state.transition_started_ts
DueAt   == IF retry_state = None THEN Never ELSE retry_state.retry_at

\* No step of the lifecycle: the records say the same, but for the names and
\* labels it does not know.
Same == /\ RetryStateKept /\ pipeline'.event_id = pipeline.event_id
        /\ retry_state = None => transition_failed' = transition_failed
        /\ now' = now

\* The variables of DeploymentOutcome do not change in such a step.
LEMMA SameStutters ==
    ASSUME Same
    PROVE  UNCHANGED <<now, Status, Tries, BeganAt, DueAt>>
BY DEF Same, RetryStateKept, Status, Tries, BeganAt, DueAt

\* A transition that is dropped without a failure.
LEMMA DroppedSettles ==
    ASSUME retry_state' = None, transition_failed' = FALSE, now' = now
    PROVE  Outcome!Settle \/ UNCHANGED <<now, Status, Tries, BeganAt, DueAt>>
<1>1. Status' = "idle" /\ Tries' = 0 /\ BeganAt' = -1 /\ DueAt' = -1
  BY DEF Status, Tries, BeganAt, DueAt
<1>2. CASE Status = "idle"
  <2>1. retry_state = None
    BY <1>2 DEF Status
  <2>2. Tries = 0 /\ BeganAt = -1 /\ DueAt = -1
    BY <2>1 DEF Tries, BeganAt, DueAt
  <2>. QED BY <1>1, <1>2, <2>2
<1>3. CASE Status # "idle"
  BY <1>1, <1>3 DEF Outcome!Settle, Outcome!Never, Status, Tries, BeganAt, DueAt
<1>. QED BY <1>2, <1>3

\* set_pipeline begins the lifecycle anew.
LEMMA BegunBegins ==
    ASSUME TypeOK, Begun
    PROVE  Outcome!Begin
<1>1. PICK maint \in BOOLEAN : SetPipeline(Len(runs) + 1, maint)
  BY DEF Begun
<1>2. Len(runs) + 1 \in Nat /\ Len(runs) + 1 # 0 /\ now \in Nat /\ now' = now
  BY DEF TypeOK, Begun
<1>3. pipeline'.event_id = Len(runs) + 1
  BY <1>1 DEF SetPipeline, Attempt
<1>4. /\ retry_state'.attempts_made = 0 /\ retry_state'.retry_at = -1
      /\ retry_state'.transition_started_ts = now
  BY <1>1 DEF SetPipeline
<1>5. retry_state' # None
  <2>1. retry_state' \in RetryRecords
    BY <1>1, <1>2, PipelineRetryAssumption DEF SetPipeline, RetryRecords
  <2>. QED BY <2>1, PipelineRetryAssumption
<1>. QED BY <1>2, <1>3, <1>4, <1>5 DEF Outcome!Begin, Outcome!Never

\* A failure is declared of a transition that is tracked, and in the abstract
\* sense spent.
LEMMA DeclaredGivesUp ==
    ASSUME retry_state # None, retry_state' = None, transition_failed' = TRUE,
           now' = now,
           \/ Status = "inflight" /\ (Tries = MaxRetries \/ CapElapsed(retry_state))
           \/ Status = "backoff" /\ CapElapsed(retry_state)
    PROVE  Outcome!GiveUp
<1>1. Status' = "failed" /\ Tries' = 0 /\ BeganAt' = -1 /\ DueAt' = -1
  BY DEF Status, Tries, BeganAt, DueAt
<1>2. Outcome!CapElapsed <=> CapElapsed(retry_state)
  BY DEF Outcome!CapElapsed, CapElapsed
<1>. QED BY <1>1, <1>2 DEF Outcome!GiveUp, Outcome!Never, Status, Tries, BeganAt, DueAt

\* A PipelineRun event settles the deployment, lets it fail, or says nothing of it.
LEMMA EventOutcome ==
    ASSUME AttemptsInv, NEW e \in FirstEvent,
           ObserveRun(e) \/ PipelineSucceeds(e) \/ PipelineFails(e) \/ UntrackedSuccess(e)
    PROVE  \/ Outcome!Fail \/ Outcome!GiveUp \/ Outcome!Settle
           \/ UNCHANGED <<now, Status, Tries, BeganAt, DueAt>>
<1>. USE PipelineRetryAssumption
<1>. DEFINE rs == Relabelled(e)
<1>0. TypeOK /\ TrackingInv /\ EventsTruthful
  BY DEF AttemptsInv, TrackingInv
<1>1. Consume(e) /\ now' = now /\ Truthful(e)
  <2>1. Consume(e)
    BY DEF ObserveRun, PipelineSucceeds, PipelineFails, UntrackedSuccess
  <2>. QED BY <1>0, <2>1, ConsumedQueue DEF Consume
<1>2. Named(e).event_id = pipeline.event_id
  BY <1>0 DEF Named, TypeOK, PipelineRecords
<1>3. ASSUME retry_state' = rs, pipeline' \in {pipeline, Named(e)},
             UNCHANGED transition_failed
      PROVE  UNCHANGED <<now, Status, Tries, BeganAt, DueAt>>
  <2>1. RetryStateKept
    BY <1>0, <1>1, <1>3, RelabelKeeps
  <2>2. Same
    BY <1>1, <1>2, <1>3, <2>1 DEF Same
  <2>. QED BY <2>2, SameStutters
<1>4. CASE ObserveRun(e)
  BY <1>3, <1>4 DEF ObserveRun
<1>5. CASE UntrackedSuccess(e)
  <2>1. retry_state' = rs /\ pipeline' = pipeline
    BY <1>5 DEF UntrackedSuccess
  <2>2. CASE UNCHANGED transition_failed
    BY <1>3, <2>1, <2>2
  <2>3. CASE transition_failed' = FALSE
    <3>1. CASE retry_state = None
      <4>1. retry_state' = None
        BY <2>1, <3>1 DEF Relabelled
      <4>. QED BY <1>1, <2>3, <4>1, DroppedSettles
    <3>2. CASE retry_state # None
      <4>1. RetryStateKept
        BY <1>0, <1>1, <2>1, RelabelKeeps
      <4>2. Same
        BY <1>1, <2>1, <3>2, <4>1 DEF Same
      <4>. QED BY <4>2, SameStutters
    <3>. QED BY <3>1, <3>2
  <2>. QED BY <1>5, <2>2, <2>3 DEF UntrackedSuccess, ClearFailure
<1>6. CASE PipelineSucceeds(e)
  <2>1. CASE retry_state' = None /\ transition_failed' = FALSE
    BY <1>1, <2>1, DroppedSettles
  <2>2. CASE pipeline' = Named(e) /\ retry_state' = rs /\ UNCHANGED transition_failed
    BY <1>3, <2>2
  <2>. QED BY <1>6, <2>1, <2>2 DEF PipelineSucceeds, ClearFailure
<1>7. CASE PipelineFails(e)
  <2>1. pipeline.event_id = e.event_id /\ pipeline.event_id # 0
    BY <1>1, <1>7 DEF PipelineFails, Tracked, Truthful, RunIds
  <2>2. retry_state # None /\ retry_state \in RetryRecords
    BY <1>0, <2>1 DEF TrackingInv, TrackingCoherent, TypeOK
  <2>3. /\ rs # None
        /\ rs.attempts_made = retry_state.attempts_made
        /\ rs.transition_started_ts = retry_state.transition_started_ts
        /\ rs \in RetryRecords
    BY <1>0, <1>1, <2>2, RelabelKeeps, EventType
  <2>4. /\ Status = "inflight" /\ Tries = retry_state.attempts_made
        /\ BeganAt = retry_state.transition_started_ts
    BY <2>1, <2>2 DEF Status, Tries, BeganAt
  <2>5. /\ retry_state.attempts_made \in Nat /\ retry_state.attempts_made <= MaxRetries
        /\ CapElapsed(rs) <=> CapElapsed(retry_state)
    BY <2>2, <2>3 DEF AttemptsInv, Accounted, RetryRecords, CapElapsed
  <2>6. CASE Spent(rs)
    <3>1. retry_state' = None /\ transition_failed' = TRUE
      BY <1>7, <2>6 DEF PipelineFails, DeclareTransitionFailed
    <3>2. Tries = MaxRetries \/ CapElapsed(retry_state)
      BY <2>3, <2>4, <2>5, <2>6 DEF Spent
    <3>. QED BY <1>1, <2>2, <2>4, <3>1, <3>2, DeclaredGivesUp
  <2>7. CASE ~Spent(rs)
    <3>1. /\ retry_state' = [rs EXCEPT !.retry_at = RetryDue]
          /\ pipeline' = EmptyPipeline(rs.maintenance)
      BY <1>7, <2>7 DEF PipelineFails
    <3>2. RetryDue \in Int /\ RetryDue # -1 /\ RetryDue = now + RetryInterval
      BY <1>0 DEF RetryDue, TypeOK
    <3>. HIDE DEF rs
    <3>3. /\ retry_state' \in RetryRecords /\ retry_state'.retry_at = RetryDue
          /\ retry_state'.attempts_made = rs.attempts_made
          /\ retry_state'.transition_started_ts = rs.transition_started_ts
      BY <2>3, <3>1, <3>2, RecordTypes DEF RetryRecords
    <3>4. /\ Status' = "backoff" /\ DueAt' = now + RetryInterval
          /\ UNCHANGED <<Tries, BeganAt>>
      BY <2>2, <2>3, <3>1, <3>2, <3>3
         DEF Status, Tries, BeganAt, DueAt, EmptyPipeline
    <3>5. Tries < MaxRetries /\ ~(now - BeganAt >= TotalCap)
      BY <2>3, <2>4, <2>5, <2>7 DEF Spent, CapElapsed
    <3>. QED BY <1>1, <2>4, <3>4, <3>5
         DEF Outcome!Fail, Outcome!CapElapsed, Status, Tries, BeganAt, DueAt
  <2>. QED BY <2>6, <2>7
<1>. QED BY <1>4, <1>5, <1>6, <1>7

\* A tick that does something cancels, which is no step here, tries again or
\* gives up.
LEMMA TickOutcome ==
    ASSUME AttemptsInv, CancelTimedOut \/ GiveUpAtCap \/ FireRetry
    PROVE  \/ Outcome!Retry \/ Outcome!GiveUp
           \/ UNCHANGED <<now, Status, Tries, BeganAt, DueAt>>
<1>. USE PipelineRetryAssumption
<1>0. TypeOK /\ TrackingInv
  BY DEF AttemptsInv, TrackingInv
<1>1. CASE CancelTimedOut
  <2>1. Same
    BY <1>0, <1>1 DEF CancelTimedOut, Same, RetryStateKept, TypeOK, PipelineRecords
  <2>. QED BY <2>1, SameStutters
<1>2. ASSUME BackingOff
      PROVE  /\ retry_state # None /\ retry_state \in RetryRecords
             /\ pipeline.event_id = 0 /\ retry_state.retry_at # -1
             /\ Status = "backoff"
  BY <1>0, <1>2 DEF BackingOff, Status, TypeOK
<1>3. CASE GiveUpAtCap
  <2>1. BackingOff /\ CapElapsed(retry_state) /\ now' = now
    BY <1>3 DEF GiveUpAtCap
  <2>2. retry_state' = None /\ transition_failed' = TRUE
    BY <1>3 DEF GiveUpAtCap, DeclareTransitionFailed
  <2>. QED BY <1>2, <2>1, <2>2, DeclaredGivesUp
<1>4. CASE FireRetry
  <2>1. BackingOff /\ ~CapElapsed(retry_state) /\ now >= retry_state.retry_at /\ now' = now
    BY <1>4 DEF FireRetry
  <2>2. retry_state.attempts_made < MaxRetries
    BY <1>2, <2>1 DEF AttemptsInv, Accounted
  <2>. DEFINE fired == Fired(retry_state)
  <2>3. /\ fired \in RetryRecords /\ fired.retry_at = -1
        /\ fired.attempts_made = retry_state.attempts_made + 1
        /\ fired.transition_started_ts = retry_state.transition_started_ts
    <3>1. fired \in RetryRecords
      BY <1>2, <2>1, RecordTypes
    <3>. QED BY <1>2, <2>1, <3>1 DEF Fired, RetryRecords
  <2>. HIDE DEF fired
  <2>4. Len(runs) + 1 \in Nat /\ Len(runs) + 1 # 0
    BY <1>0 DEF TypeOK
  <2>5. /\ retry_state' \in RetryRecords /\ retry_state'.retry_at = -1
        /\ retry_state'.attempts_made = retry_state.attempts_made + 1
        /\ retry_state'.transition_started_ts = retry_state.transition_started_ts
    <3>1. CASE retry_state' = fired
      BY <2>3, <3>1
    <3>2. CASE retry_state' = [fired EXCEPT !.event_id = Len(runs) + 1]
      BY <2>3, <2>4, <3>2 DEF RetryRecords
    <3>. QED BY <1>4, <3>1, <3>2 DEF FireRetry, fired
  <2>6. Status' \in {"inflight", "stranded"}
    BY <2>5 DEF Status
  <2>7. Tries' = Tries + 1 /\ DueAt' = -1 /\ BeganAt' = BeganAt
    BY <1>2, <2>1, <2>5 DEF Tries, DueAt, BeganAt
  <2>8. Tries < MaxRetries /\ ~(now - BeganAt >= TotalCap) /\ now >= DueAt
    BY <1>2, <2>1, <2>2 DEF Tries, DueAt, BeganAt, CapElapsed
  <2>. QED BY <1>2, <2>1, <2>6, <2>7, <2>8
       DEF Outcome!Retry, Outcome!CapElapsed, Outcome!Never, Status, Tries, BeganAt, DueAt
<1>. QED BY <1>1, <1>3, <1>4

\* Every step of the agent, the cluster and the clock is one of the lifecycle.
LEMMA StepOutcome ==
    ASSUME AttemptsInv, [Next]_vars
    PROVE  Outcome!Next \/ UNCHANGED <<now, Status, Tries, BeganAt, DueAt>>
<1>0. TypeOK /\ TypeOK'
  BY StepKeepsTypes DEF AttemptsInv, TrackingInv
<1>1. ASSUME UNCHANGED <<now, tracking>>
      PROVE  UNCHANGED <<now, Status, Tries, BeganAt, DueAt>>
  BY <1>1 DEF tracking, Status, Tries, BeganAt, DueAt
<1>2. ASSUME NEW t \in Requests,
             InitiatePrimary(t) \/ InitiateDetach(t) \/ CompleteStandby(t)
      PROVE  Begun \/ UNCHANGED <<now, tracking>>
  BY <1>2 DEF InitiatePrimary, InitiateDetach, CompleteStandby, Begun
<1>3. ASSUME \/ \E t \in Requests : InitiateStandby(t) \/ InitiateDown(t) \/ NoteState(t)
             \/ \E i \in RunIds : RunStarts(i) \/ RunEnds(i) \/ RunDeleted(i)
             \/ \E r \in Releases : ForeignRun(r)
             \/ WatchEnds \/ WatchOpens \/ UNCHANGED vars
      PROVE  UNCHANGED <<now, tracking>>
  BY <1>3 DEF InitiateStandby, InitiateDown, NoteState, RunStarts, RunEnds, RunDeleted,
     ForeignRun, WatchEnds, WatchOpens, vars, agent
<1>4. ASSUME Advance
      PROVE  Outcome!Pass
  <2>1. now' = now + 1 /\ UNCHANGED <<retry_state, pipeline, transition_failed>>
    BY <1>4 DEF Advance, agent, tracking
  <2>. QED BY <2>1 DEF Outcome!Pass, Outcome!deployment
<1>5. ASSUME Restart
      PROVE  Outcome!Settle \/ UNCHANGED <<now, Status, Tries, BeganAt, DueAt>>
  BY <1>5, DroppedSettles DEF Restart
<1>. QED BY <1>0, <1>1, <1>2, <1>3, <1>4, <1>5, BegunBegins, EventOutcome, TickOutcome
     DEF Next, Outcome!Next

\* The agent's deployments implement DeploymentOutcome, for every number of
\* retries, every interval, timeout and cap, and under every fault of the model:
\* an attempt follows another only after the pause, before the cap and while
\* retries remain, and a failure is declared only when they are used up.
THEOREM ImplementsOutcome == Spec => OutcomeSpec
<1>1. Init => Outcome!Init
  BY DEF Init, Outcome!Init, Outcome!Never
<1>2. AttemptsInv /\ [Next]_vars => [Outcome!Next]_<<now, Outcome!deployment>>
  BY StepOutcome DEF Outcome!deployment, Status, Tries, BeganAt, DueAt
<1>. QED BY <1>1, <1>2, AttemptsInvariant, PTL DEF Spec, OutcomeSpec, Outcome!Spec
=============================================================================
