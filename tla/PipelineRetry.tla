--------------------------- MODULE PipelineRetry ---------------------------
(***************************************************************************)
(* One agent's deployments: the transitions that trigger a Tekton          *)
(* PipelineRun, the tracking of that run through the PipelineRun watch,    *)
(* cancellation of a hung attempt, bounded retries on the tick heartbeat,  *)
(* and the maintenance mode the outcome switches                           *)
(* (src/src/logic.py 56-128 and 439-595, src/src/transitions/,             *)
(* src/src/clients/tekton.py, src/src/clients/kube_stream.py).             *)
(*                                                                         *)
(* Logic.handler consumes one event at a time, so a handler is one step.   *)
(* A handler that raises keeps what it had done before the exception       *)
(* (logic.py 427): those outcomes are alternatives of its action, enabled  *)
(* when "api" \in Faults.  Tekton, Kubernetes and the clock interleave     *)
(* with the handlers at will.                                              *)
(***************************************************************************)
EXTENDS TransitionRules, Integers, Sequences, FiniteSets

CONSTANTS
    Site,             \* the site this agent runs on
    Own,              \* config.solution_namespace: the release it deploys
    Releases,         \* the release-namespaces whose PipelineRuns it watches
    MaxRetries,       \* config.pipeline_max_retries
    RetryInterval,    \* config.pipeline_retry_interval_seconds
    AttemptTimeout,   \* config.pipeline_attempt_timeout_seconds
    TotalCap,         \* config.pipeline_retry_total_cap_seconds
    None,             \* Python's None, where a record is expected
    Faults,           \* the disturbances in scope, of FaultKinds
    Requests,         \* bound: the transitions operators ask this agent for
    MaxTime,          \* bound: the last instant of the clock
    StartBy,          \* bound: the last instant a transition is begun
    MaxTransitions,   \* bound: how many deployments are begun
    MaxForeign,       \* bound: how many PipelineRuns the agent does not know
    MaxStream         \* bound: with fewer watch events queued, runs progress

\* api      a call to Tekton, Kubernetes, Keycloak or the portal raises
\* relist   the PipelineRun watch ends and is opened anew
\* restart  the agent's process is restarted
\* delete   a PipelineRun is deleted
\* unknown  a run ends with a reason the handler does not know
FaultKinds == {"api", "relist", "restart", "delete", "unknown"}

PipelineRecords == [event_id : Nat, start_ts : Int, maintenance : BOOLEAN,
                    name : Nat, cancelling : BOOLEAN]
RetryRecords == [event_id : Nat, transition_started_ts : Nat, attempts_made : Nat,
                 retry_at : Int, maintenance : BOOLEAN, release : Releases]

ASSUME PipelineRetryAssumption ==
    /\ Site \in Sites
    /\ Own \in Releases
    /\ MaxRetries \in Nat /\ RetryInterval \in Nat /\ AttemptTimeout \in Nat
    /\ TotalCap \in Nat
    /\ None \notin RetryRecords
    /\ Faults \subseteq FaultKinds
    /\ Requests \subseteq Transitions
    /\ MaxTime \in Nat /\ StartBy \in Nat /\ MaxTransitions \in Nat
    /\ MaxForeign \in Nat /\ MaxStream \in Nat

VARIABLES
    now,                \* the wall clock
    last_stable_state,  \* ConfigMap switchover-state, last_stable_state
    triggers,           \* final states of the rebuilds waiting for Patroni
    pipeline,           \* Logic.pipeline: the attempt in flight
    retry_state,        \* Logic.retry_state: the transition being deployed
    transition_failed,  \* Logic.transition_failed
    failed_transition_maintenance,  \* Logic.failed_transition_maintenance
    transition_gauge,   \* TRANSITION_GAUGE: release -> 0 or 3
    failed_total,       \* TRANSITION_FAILED, summed over releases
    maintenance,        \* where Keycloak's service and the portal point
    runs,               \* the PipelineRuns, in order of creation
    stream,             \* PipelineRun events queued for the handler
    watching,           \* the PipelineRun watch is open
    transitions_begun   \* history: how many times set_pipeline was called

tracking == <<pipeline, retry_state, transition_failed,
              failed_transition_maintenance, transition_gauge, failed_total>>
cluster  == <<runs, stream, watching>>
vars == <<now, last_stable_state, triggers, tracking, maintenance, cluster,
          transitions_begun>>

\* A run is known by its place in runs: that number stands for its event id
\* and its name.  0 is no event id, -1 no instant.
NoId == 0
Never == -1
RunIds == 1..Len(runs)

\* of: the transition the run is an attempt of, 0 when the agent does not know
\* the run.  stopping: spec.status is CancelledRunFinally.  deleted: it is gone.
\* "Unknown" stands for the ends that are none to the handler, such as
\* PipelineRunTimeout.
Reasons == {"Pending", "Running", "Succeeded", "Failed", "Unknown"}
RunRecords == [release : Releases, of : Nat, reason : Reasons, stopping : BOOLEAN,
               deleted : BOOLEAN, started : Nat, ended : Int]
Ended(run) == run.reason \notin {"Pending", "Running"}

\* A watch event: a snapshot of one run.  "Succeeded" stands for Completed and
\* Succeeded, "Failed" for Failed, Cancelled and PipelineRunCancelled,
\* "Pending" for a run without status.
EventRecords == [type : {"ADDED", "MODIFIED", "DELETED"}, event_id : Nat,
                 reason : Reasons, release : Releases]
Snapshot(type, id, run) == [type |-> type, event_id |-> id, reason |-> run.reason,
                            release |-> run.release]

TypeOK ==
    /\ now \in Nat
    /\ last_stable_state \in StableStates
    /\ triggers \in SUBSET StableStates
    /\ pipeline \in PipelineRecords
    /\ retry_state \in RetryRecords \cup {None}
    /\ transition_failed \in BOOLEAN
    /\ failed_transition_maintenance \in BOOLEAN
    /\ transition_gauge \in [Releases -> {0, 3}]
    /\ failed_total \in Nat
    /\ maintenance \in [keycloak : BOOLEAN, portal : BOOLEAN]
    /\ runs \in Seq(RunRecords)
    /\ stream \in Seq(EventRecords)
    /\ watching \in BOOLEAN
    /\ transitions_begun \in Nat
-----------------------------------------------------------------------------
(* The calls the handlers make *)

\* maintenance_on and maintenance_off switch Keycloak's service and then the
\* portal; either call may raise, and the second leaves the first one's effect.
MaintenanceSwitched(on) == maintenance' = [keycloak |-> on, portal |-> on]
MaintenanceRaised(on) ==
    /\ "api" \in Faults
    /\ maintenance' \in {maintenance, [maintenance EXCEPT !.keycloak = on]}

NewRun(rel, attemptOf) == [release |-> rel, of |-> attemptOf, reason |-> "Pending",
                           stopping |-> FALSE, deleted |-> FALSE,
                           started |-> now, ended |-> Never]

\* What the open watch delivers; a closed one delivers nothing.
Emit(event) == /\ stream' = IF watching THEN Append(stream, event) ELSE stream
               /\ UNCHANGED watching

\* A PipelineRun appears, created by the event listener.
Create(run) == /\ run.of = 0 => Cardinality({i \in RunIds : runs[i].of = 0}) < MaxForeign
               /\ runs' = Append(runs, run)
               /\ Emit(Snapshot("ADDED", Len(runs) + 1, run))

\* trigger_tekton_build: accepted, with the event id of the new run.  Tekton may
\* create it later; the agent only hears of it through the stream, late as well ...
TriggerAccepted(attemptOf) == Create(NewRun(Own, attemptOf))

\* ... or it raises: the request was refused, or its answer was lost.
TriggerRaised(attemptOf) ==
    /\ "api" \in Faults
    /\ \/ UNCHANGED cluster
       \/ Create(NewRun(Own, attemptOf))

\* update_switchover_state(state, '', ...), the last call of its handlers.
SaveStable(state) ==
    \/ last_stable_state' = state
    \/ "api" \in Faults /\ UNCHANGED last_stable_state

EmptyPipeline(maint) == [event_id |-> NoId, start_ts |-> Never,
                         maintenance |-> maint, name |-> NoId, cancelling |-> FALSE]

\* The record set_pipeline and _fire_retry start an attempt with.
Attempt(id, maint) == [event_id |-> id, start_ts |-> now, maintenance |-> maint,
                       name |-> NoId, cancelling |-> FALSE]

\* set_pipeline: begins tracking a transition.  It leaves transition_failed as
\* an earlier failure set it.
SetPipeline(id, maint) ==
    /\ pipeline' = Attempt(id, maint)
    /\ retry_state' = [event_id |-> id, transition_started_ts |-> now,
                       attempts_made |-> 0, retry_at |-> Never,
                       maintenance |-> maint, release |-> Own]
    /\ transitions_begun' = transitions_begun + 1
    /\ UNCHANGED <<transition_failed, failed_transition_maintenance,
                   transition_gauge, failed_total>>
-----------------------------------------------------------------------------
(* Transitions: the switchover_state handler's branches.  They run on the   *)
(* state the ConfigMap holds; events that lag behind it are Switchover's.   *)

Asked(t, work) == /\ t \in Requests
                  /\ t # last_stable_state
                  /\ ~Refused(t, last_stable_state)
                  /\ Work(Site, t) = work

MayBegin == transitions_begun < MaxTransitions /\ now <= StartBy

\* deploy_primary triggers the deployment that ends with maintenance off, then
\* the branch records the state.  initiate_active_primary and
\* initiate_passive_primary switch maintenance on before it ...
InitiatePrimary(t) ==
    /\ Asked(t, "primary") /\ MayBegin
    /\ UNCHANGED <<now, triggers>>
    /\ \/ /\ MaintenanceSwitched(TRUE)
          /\ TriggerAccepted(transitions_begun + 1)
          /\ SetPipeline(Len(runs) + 1, FALSE)
          /\ SaveStable(Reached(t))
       \/ /\ \/ MaintenanceRaised(TRUE) /\ UNCHANGED cluster
             \/ MaintenanceSwitched(TRUE) /\ TriggerRaised(0)
          /\ UNCHANGED <<last_stable_state, tracking, transitions_begun>>

\* ... initiate_passive_maintenance does not.
InitiateDetach(t) ==
    /\ Asked(t, "detach") /\ MayBegin
    /\ UNCHANGED <<now, triggers, maintenance>>
    /\ \/ /\ TriggerAccepted(transitions_begun + 1)
          /\ SetPipeline(Len(runs) + 1, FALSE)
          /\ SaveStable(t)
       \/ /\ TriggerRaised(0)
          /\ UNCHANGED <<last_stable_state, tracking, transitions_begun>>

\* initiate_standby: Patroni is a healthy standby already and the state is
\* reached, or it is wiped and a trigger waits for it to come back.  The wipe
\* itself may raise, after the older triggers were cleared.
InitiateStandby(t) ==
    /\ Asked(t, "standby")
    /\ UNCHANGED <<now, tracking, cluster, transitions_begun>>
    /\ \/ /\ MaintenanceSwitched(TRUE)
          /\ \/ UNCHANGED triggers /\ SaveStable(t)
             \/ triggers' = {t} /\ SaveStable(Partial(t))
             \/ "api" \in Faults /\ triggers' = {} /\ UNCHANGED last_stable_state
       \/ /\ MaintenanceRaised(TRUE)
          /\ UNCHANGED <<triggers, last_stable_state>>

\* complete_standby, run by the trigger once Patroni is a healthy standby: the
\* triggers are cleared before the deployment is asked for.
CompleteStandby(t) ==
    /\ t \in triggers /\ MayBegin
    /\ triggers' = {}
    /\ UNCHANGED <<now, maintenance>>
    /\ \/ /\ TriggerAccepted(transitions_begun + 1)
          /\ SetPipeline(Len(runs) + 1, TRUE)
          /\ SaveStable(t)
       \/ /\ TriggerRaised(0)
          /\ UNCHANGED <<last_stable_state, tracking, transitions_begun>>

\* initiate_active_down: neither the tracked pipeline nor the triggers are
\* touched.
InitiateDown(t) ==
    /\ Asked(t, "down")
    /\ UNCHANGED <<now, triggers, tracking, cluster, transitions_begun>>
    /\ \/ MaintenanceSwitched(TRUE) /\ SaveStable(t)
       \/ MaintenanceRaised(TRUE) /\ UNCHANGED last_stable_state

\* The branches that only record the state.
NoteState(t) ==
    /\ Asked(t, "note")
    /\ last_stable_state' = t
    /\ UNCHANGED <<now, triggers, tracking, maintenance, cluster, transitions_begun>>
-----------------------------------------------------------------------------
(* The kube_stream branch: one PipelineRun event *)

FirstEvent == IF stream = <<>> THEN {} ELSE {Head(stream)}

\* Any PipelineRun event relabels the transition being tracked ...
Relabelled(e) == IF retry_state = None THEN None
                 ELSE [retry_state EXCEPT !.release = e.release]

\* Mutant of Named: any run's event names the attempt.
NamedByAnyRun(e) == IF e.type # "ADDED" /\ pipeline.event_id # NoId /\ pipeline.name = NoId
                    THEN [pipeline EXCEPT !.name = e.event_id] ELSE pipeline

\* ... and one of the tracked run, unless ADDED, gives the attempt its name.
Named(e) == IF e.type # "ADDED" /\ pipeline.event_id = e.event_id /\ pipeline.name = NoId
            THEN [pipeline EXCEPT !.name = e.event_id] ELSE pipeline

\* Mutants of Tracked: runs are matched by release; ADDED events are skipped.
TrackedByRelease(e) == /\ pipeline.event_id # NoId /\ retry_state # None
                       /\ e.release = retry_state.release
TrackedUnlessAdded(e) == e.type # "ADDED" /\ pipeline.event_id = e.event_id

Tracked(e) == pipeline.event_id = e.event_id

\* Mutant of Recovers: whether or not a transition has failed.
RecoversAlways(e) == /\ ~Tracked(e)
                     /\ e.reason = "Succeeded" /\ e.release = Own

\* A success of the site's own release after a declared failure counts as the
\* recovery, whichever run it is.
Recovers(e) == /\ ~Tracked(e)
               /\ e.reason = "Succeeded" /\ e.release = Own
               /\ transition_failed

\* _transition_release, after the event's relabelling.
TransitionRelease(rs) == IF rs = None THEN Own ELSE rs.release

Consume(e) == /\ e \in FirstEvent
              /\ stream' = Tail(stream)
              /\ UNCHANGED <<now, last_stable_state, triggers, runs, watching,
                             transitions_begun>>

\* An event that ends nothing.
ObserveRun(e) ==
    /\ Consume(e)
    /\ ~(Tracked(e) /\ e.reason \in {"Succeeded", "Failed"}) /\ ~Recovers(e)
    /\ retry_state' = Relabelled(e)
    /\ pipeline' = Named(e)
    /\ UNCHANGED <<transition_failed, failed_transition_maintenance,
                   transition_gauge, failed_total, maintenance>>

\* What a success leaves behind, of the tracked run or of the recovery.
ClearFailure(release) ==
    /\ transition_failed' = FALSE
    /\ failed_transition_maintenance' = FALSE
    /\ transition_gauge' = [transition_gauge EXCEPT ![release] = 0]
    /\ UNCHANGED failed_total

\* _on_pipeline_success: maintenance first; if that raises, the attempt stays
\* tracked and its event is spent.
PipelineSucceeds(e) ==
    /\ Consume(e)
    /\ Tracked(e) /\ e.reason = "Succeeded"
    /\ \/ /\ MaintenanceSwitched(pipeline.maintenance)
          /\ pipeline' = EmptyPipeline(FALSE)
          /\ retry_state' = None
          /\ ClearFailure(TransitionRelease(Relabelled(e)))
       \/ /\ MaintenanceRaised(pipeline.maintenance)
          /\ pipeline' = Named(e)
          /\ retry_state' = Relabelled(e)
          /\ UNCHANGED <<transition_failed, failed_transition_maintenance,
                         transition_gauge, failed_total>>

\* Mutant of CapElapsed: off by one.
CapExceeded(rs) == now - rs.transition_started_ts > TotalCap

CapElapsed(rs) == now - rs.transition_started_ts >= TotalCap

\* Mutant of Spent: one retry too many.
SpentLate(rs) == rs = None \/ rs.attempts_made > MaxRetries \/ CapElapsed(rs)

Spent(rs) == rs = None \/ rs.attempts_made >= MaxRetries \/ CapElapsed(rs)

\* Mutant of RetryDue: at the next tick.
RetryDueAtOnce == now

\* When the attempt after a failure observed now is due.
RetryDue == now + RetryInterval

\* Mutant of DeclareTransitionFailed: the transition stays tracked.
DeclareButKeepTracking(rs) ==
    /\ failed_transition_maintenance' = IF rs = None THEN FALSE ELSE rs.maintenance
    /\ transition_gauge' = [transition_gauge EXCEPT ![TransitionRelease(rs)] = 3]
    /\ failed_total' = failed_total + 1
    /\ pipeline' = EmptyPipeline(FALSE)
    /\ retry_state' = rs
    /\ transition_failed' = TRUE
    /\ UNCHANGED maintenance

\* _declare_transition_failed
DeclareTransitionFailed(rs) ==
    /\ failed_transition_maintenance' = IF rs = None THEN FALSE ELSE rs.maintenance
    /\ transition_gauge' = [transition_gauge EXCEPT ![TransitionRelease(rs)] = 3]
    /\ failed_total' = failed_total + 1
    /\ pipeline' = EmptyPipeline(FALSE)
    /\ retry_state' = None
    /\ transition_failed' = TRUE
    /\ UNCHANGED maintenance

\* _on_pipeline_failure
PipelineFails(e) ==
    /\ Consume(e)
    /\ Tracked(e) /\ e.reason = "Failed"
    /\ LET rs == Relabelled(e) IN
       IF Spent(rs) THEN DeclareTransitionFailed(rs)
       ELSE /\ retry_state' = [rs EXCEPT !.retry_at = RetryDue]
            /\ pipeline' = EmptyPipeline(rs.maintenance)
            /\ UNCHANGED <<transition_failed, failed_transition_maintenance,
                           transition_gauge, failed_total, maintenance>>

\* _on_untracked_env_success: the failed transition's intent decides.
UntrackedSuccess(e) ==
    /\ Consume(e)
    /\ Recovers(e)
    /\ retry_state' = Relabelled(e)
    /\ pipeline' = pipeline
    /\ \/ /\ MaintenanceSwitched(failed_transition_maintenance)
          /\ ClearFailure(Own)
       \/ /\ MaintenanceRaised(failed_transition_maintenance)
          /\ UNCHANGED <<transition_failed, failed_transition_maintenance,
                         transition_gauge, failed_total>>
-----------------------------------------------------------------------------
(* The tick branch: _maybe_retry.  Ticks come every 30 seconds for as long   *)
(* as the agent lives, so a tick is possible in every state.                 *)

\* Mutant of TimedOut: counted from the transition's first attempt.
TimedOutSinceFirst == /\ pipeline.event_id # NoId /\ ~pipeline.cancelling
                      /\ now - retry_state.transition_started_ts >= AttemptTimeout

TimedOut == /\ pipeline.event_id # NoId /\ ~pipeline.cancelling
            /\ now - pipeline.start_ts >= AttemptTimeout

\* Mutant of CancelTimedOut: a refused patch is swallowed.
CancelSwallowed ==
    /\ TimedOut /\ pipeline.name # NoId
    /\ pipeline' = [pipeline EXCEPT !.cancelling = TRUE]
    /\ UNCHANGED <<now, last_stable_state, triggers, retry_state, transition_failed,
                   failed_transition_maintenance, transition_gauge, failed_total,
                   maintenance, cluster, transitions_begun>>

\* _cancel_timed_out_pipeline.  Without the run's name the tick is deferred; a
\* refused patch, or one of a deleted run, raises before the attempt is marked,
\* and changes nothing.  A patch whose answer is lost stops the run, and raises.
CancelTimedOut ==
    /\ TimedOut /\ pipeline.name # NoId /\ ~runs[pipeline.name].deleted
    /\ runs' = [runs EXCEPT ![pipeline.name] = [@ EXCEPT !.stopping = TRUE]]
    /\ \/ pipeline' = [pipeline EXCEPT !.cancelling = TRUE]
       \/ "api" \in Faults /\ UNCHANGED pipeline
    /\ UNCHANGED <<now, last_stable_state, triggers, retry_state, transition_failed,
                   failed_transition_maintenance, transition_gauge, failed_total,
                   maintenance, stream, watching, transitions_begun>>

\* The states in which a tick looks at the scheduled retry.
BackingOff == /\ ~TimedOut /\ ~pipeline.cancelling
              /\ retry_state # None
              /\ retry_state.retry_at # Never
              /\ pipeline.event_id = NoId

GiveUpAtCap ==
    /\ BackingOff /\ CapElapsed(retry_state)
    /\ DeclareTransitionFailed(retry_state)
    /\ UNCHANGED <<now, last_stable_state, triggers, cluster, transitions_begun>>

\* Mutants of Fired: the attempt is not counted; the schedule is set to None,
\* which is no instant.
FiredUncounted(rs) == [rs EXCEPT !.retry_at = Never]
FiredToNone(rs) == [rs EXCEPT !.attempts_made = @ + 1, !.retry_at = None]

\* The attempt _fire_retry records is spent and unscheduled before the trigger
\* is called.
Fired(rs) == [rs EXCEPT !.attempts_made = @ + 1, !.retry_at = Never]

\* _fire_retry: if the trigger raises, nothing schedules the attempt again.
FireRetry ==
    /\ BackingOff /\ ~CapElapsed(retry_state)
    /\ now >= retry_state.retry_at
    /\ UNCHANGED <<now, last_stable_state, triggers, transition_failed,
                   failed_transition_maintenance, transition_gauge, failed_total,
                   maintenance, transitions_begun>>
    /\ \/ /\ TriggerAccepted(transitions_begun)
          /\ retry_state' = [Fired(retry_state) EXCEPT !.event_id = Len(runs) + 1]
          /\ pipeline' = Attempt(Len(runs) + 1, retry_state.maintenance)
       \/ /\ TriggerRaised(transitions_begun)
          /\ retry_state' = Fired(retry_state)
          /\ UNCHANGED pipeline
-----------------------------------------------------------------------------
(* Tekton, the PipelineRun watch, the process and the clock *)

agent == <<last_stable_state, triggers, tracking, maintenance, transitions_begun>>

\* Tekton starts a run and writes its first status.
RunStarts(i) ==
    /\ runs[i].reason = "Pending" /\ ~runs[i].deleted /\ Len(stream) < MaxStream
    /\ runs' = [runs EXCEPT ![i] = [@ EXCEPT !.reason = "Running"]]
    /\ Emit(Snapshot("MODIFIED", i, runs'[i]))
    /\ UNCHANGED <<now, agent>>

\* A run ends; one that is being stopped ends as Cancelled.
RunEnds(i) ==
    /\ ~Ended(runs[i]) /\ ~runs[i].deleted /\ Len(stream) < MaxStream
    /\ \E r \in {"Succeeded", "Failed", "Unknown"} :
          /\ runs[i].stopping => r = "Failed"
          /\ r = "Unknown" => "unknown" \in Faults
          /\ runs' = [runs EXCEPT ![i] = [@ EXCEPT !.reason = r, !.ended = now]]
    /\ Emit(Snapshot("MODIFIED", i, runs'[i]))
    /\ UNCHANGED <<now, agent>>

\* A run is deleted, as it was: by an operator, or by a pruner when it has ended.
RunDeleted(i) ==
    /\ "delete" \in Faults /\ ~runs[i].deleted /\ Len(stream) < MaxStream
    /\ runs' = [runs EXCEPT ![i] = [@ EXCEPT !.deleted = TRUE]]
    /\ Emit(Snapshot("DELETED", i, runs[i]))
    /\ UNCHANGED <<now, agent>>

\* A deployment nobody asked the agent for: another release's, or a push to
\* this one's repository.
ForeignRun(release) ==
    /\ Len(stream) < MaxStream
    /\ Create(NewRun(release, 0))
    /\ UNCHANGED <<now, agent>>

\* The server ends a watch after 600 seconds, or the connection breaks.
WatchEnds ==
    /\ "relist" \in Faults
    /\ watching /\ watching' = FALSE
    /\ UNCHANGED <<now, agent, runs, stream>>

Existing == {i \in RunIds : ~runs[i].deleted}

\* watch_stream opens the next one without a resourceVersion, so it begins
\* with every existing run as ADDED.
WatchOpens ==
    /\ ~watching /\ watching' = TRUE
    /\ Len(stream) + Len(runs) <= MaxStream
    /\ \E listed \in [1..Cardinality(Existing) -> Existing] :
          /\ \A j, k \in DOMAIN listed : j < k => listed[j] < listed[k]
          /\ stream' = stream \o [k \in DOMAIN listed |->
                                     Snapshot("ADDED", listed[k], runs[listed[k]])]
    /\ UNCHANGED <<now, agent, runs>>

\* The process is replaced: what Logic and its queue hold is gone, the
\* ConfigMap, the cluster and the maintenance mode stay.
Restart ==
    /\ "restart" \in Faults
    /\ triggers' = {}
    /\ pipeline' = EmptyPipeline(FALSE)
    /\ retry_state' = None
    /\ transition_failed' = FALSE /\ failed_transition_maintenance' = FALSE
    /\ transition_gauge' = [r \in Releases |-> 0] /\ failed_total' = 0
    /\ stream' = <<>> /\ watching' = FALSE
    /\ UNCHANGED <<now, last_stable_state, maintenance, runs, transitions_begun>>

Advance == now < MaxTime /\ now' = now + 1 /\ UNCHANGED <<agent, cluster>>
-----------------------------------------------------------------------------
Init ==
    /\ now = 0
    /\ last_stable_state = "independent"
    /\ triggers = {}
    /\ pipeline = EmptyPipeline(FALSE)
    /\ retry_state = None
    /\ transition_failed = FALSE /\ failed_transition_maintenance = FALSE
    /\ transition_gauge = [r \in Releases |-> 0] /\ failed_total = 0
    /\ maintenance = [keycloak |-> FALSE, portal |-> FALSE]
    /\ runs = <<>> /\ stream = <<>> /\ watching = TRUE
    /\ transitions_begun = 0

Next ==
    \/ \E t \in Requests : \/ InitiatePrimary(t) \/ InitiateDetach(t)
                           \/ InitiateStandby(t) \/ CompleteStandby(t)
                           \/ InitiateDown(t) \/ NoteState(t)
    \/ \E e \in FirstEvent : \/ ObserveRun(e) \/ PipelineSucceeds(e)
                             \/ PipelineFails(e) \/ UntrackedSuccess(e)
    \/ CancelTimedOut \/ GiveUpAtCap \/ FireRetry
    \/ \E i \in RunIds : RunStarts(i) \/ RunEnds(i) \/ RunDeleted(i)
    \/ \E r \in Releases : ForeignRun(r)
    \/ WatchEnds \/ WatchOpens \/ Restart \/ Advance

Spec == Init /\ [][Next]_vars

\* The handler works off its queue and gets a tick every 30 seconds, time
\* passes, watch_stream reopens the watch, Tekton starts every run and ends
\* one that was told to stop (strong fairness, for only the bound MaxStream
\* disables it meanwhile).  A run nobody stops may hang for ever.
MaxRuns == MaxTransitions * (MaxRetries + 1) + MaxForeign

Fairness ==
    /\ WF_vars(\E e \in FirstEvent : \/ ObserveRun(e) \/ PipelineSucceeds(e)
                                     \/ PipelineFails(e) \/ UntrackedSuccess(e))
    /\ WF_vars(CancelTimedOut \/ GiveUpAtCap \/ FireRetry)
    /\ WF_vars(Advance)
    /\ WF_vars(WatchOpens)
    /\ \A i \in 1..MaxRuns :
          /\ SF_vars(i \in RunIds /\ RunStarts(i))
          /\ SF_vars(i \in RunIds /\ runs[i].stopping /\ RunEnds(i))

FairSpec == Spec /\ Fairness
-----------------------------------------------------------------------------
(* Properties *)

AttemptsOf(t) == {i \in RunIds : runs[i].of = t}
SameTransition(i, j) == runs[i].of = runs[j].of /\ runs[i].of # 0

\* Tracking is consistent: the attempt in flight is the run the retry record
\* names, a run of the current transition, nothing is scheduled beside it, and
\* the name it would be cancelled by is its own (logic.py 85-87, 538-585).
TrackingCoherent ==
    /\ pipeline.event_id # NoId =>
          /\ retry_state # None
          /\ retry_state.event_id = pipeline.event_id
          /\ retry_state.retry_at = Never
          /\ retry_state.maintenance = pipeline.maintenance
          /\ pipeline.event_id \in AttemptsOf(transitions_begun)
          /\ pipeline.start_ts = runs[pipeline.event_id].started
          /\ pipeline.name \in {NoId, pipeline.event_id}
    /\ pipeline.event_id = NoId => pipeline.name = NoId /\ ~pipeline.cancelling
    /\ pipeline.cancelling => \E i \in RunIds : i = pipeline.event_id /\ runs[i].stopping

\* Attempts of one transition never overlap, and each starts at least the retry
\* interval after the one before it ended (spec.md 27-30; the code measures
\* from the event that reports the end).
AttemptsSpaced ==
    \A i, j \in RunIds : i < j /\ SameTransition(i, j) =>
        Ended(runs[i]) /\ runs[j].started >= runs[i].ended + RetryInterval

\* No attempt starts once the cap, counted from the transition's first attempt,
\* has elapsed (spec.md 34, 47-50).
AttemptsWithinCap ==
    \A i, j \in RunIds : i < j /\ SameTransition(i, j) =>
        runs[j].started - runs[i].started < TotalCap

\* A transition has at most the first attempt and MaxRetries more (spec.md 11).
RetryBudget ==
    \A t \in 1..transitions_begun : Cardinality(AttemptsOf(t)) <= MaxRetries + 1

\* The agent stops only attempts of the transition it tracks, and only ones
\* that have run for the attempt timeout (logic.py 506-517).
OnlyOverdueRunsStopped ==
    [][\A i \in RunIds : ~runs[i].stopping /\ runs'[i].stopping =>
          /\ runs[i].of = transitions_begun
          /\ now - runs[i].started >= AttemptTimeout]_vars

\* A transition is declared failed only when every attempt at it has ended, none
\* succeeded, and the retries or the time are used up (spec.md 54).
FailureOnlyWhenSpent ==
    [][failed_total' > failed_total =>
          /\ \A i \in AttemptsOf(transitions_begun) : runs[i].reason = "Failed"
          /\ \/ Cardinality(AttemptsOf(transitions_begun)) = MaxRetries + 1
             \/ \E i \in AttemptsOf(transitions_begun) :
                   now - runs[i].started >= TotalCap]_vars

\* The failure counter counts each transition at most once, and one that is
\* still being deployed not at all (spec.md 91).
FailedOncePerTransition ==
    failed_total + (IF retry_state = None THEN 0 ELSE 1) <= transitions_begun

\* Keycloak leaves maintenance only on the word of a run of the site's own
\* release that did succeed: an attempt at the current transition, or, after a
\* declared failure, any (spec.md 54, 67; logic.py 439-443, 489-496).
MaintenanceEndsOnlyOnSuccess ==
    [][maintenance.keycloak /\ ~maintenance'.keycloak =>
          \E e \in FirstEvent :
             /\ runs[e.event_id].reason = "Succeeded"
             /\ runs[e.event_id].release = Own
             /\ runs[e.event_id].of = transitions_begun \/ transition_failed]_vars

\* What the properties about tracking need to be inductive.  A queued event, however
\* late, names a run that exists, and a run that has ended stays as it ended:
\* the success or failure an event reports is still true when it is handled.
Truthful(e) == /\ e.event_id \in RunIds
               /\ e.release = runs[e.event_id].release
               /\ e.reason \in {"Succeeded", "Failed"} =>
                      runs[e.event_id].reason = e.reason
EventsTruthful == \A k \in 1..Len(stream) : Truthful(stream[k])

\* The agent attempts its own release only, and counts transitions upwards.
AttemptsOwned == \A i \in RunIds : runs[i].of # 0 => runs[i].release = Own
                                  /\ runs[i].of <= transitions_begun

TrackingInv == TypeOK /\ EventsTruthful /\ AttemptsOwned /\ TrackingCoherent
               /\ FailedOncePerTransition

\* What the properties about attempts need to be inductive.  While a retry may
\* still come, the records account for every attempt: all but the one in flight
\* have failed, the count is exact and the first began with the transition.  A
\* retry whose trigger raised leaves a count that may be one too high.
EndsInPast == \A i \in RunIds : Ended(runs[i]) => runs[i].ended <= now

MayRetry == pipeline.event_id # NoId \/ retry_state.retry_at # Never

Accounted ==
    LET attempts == AttemptsOf(transitions_begun) IN
    retry_state # None =>
        /\ retry_state.transition_started_ts <= now
        /\ retry_state.attempts_made <= MaxRetries
        /\ Cardinality(attempts) <= retry_state.attempts_made + 1
        /\ \A i \in attempts : runs[i].started >= retry_state.transition_started_ts
        /\ MayRetry =>
              /\ Cardinality(attempts) = retry_state.attempts_made + 1
              /\ \E i \in attempts : runs[i].started = retry_state.transition_started_ts
              /\ \A i \in attempts : i # pipeline.event_id => runs[i].reason = "Failed"
        /\ retry_state.retry_at # Never =>
              /\ retry_state.attempts_made < MaxRetries
              /\ \A i \in attempts : runs[i].ended + RetryInterval <= retry_state.retry_at

AttemptsInv == TrackingInv /\ EndsInPast /\ Accounted
               /\ AttemptsSpaced /\ AttemptsWithinCap /\ RetryBudget

\* Every deployment resolves, even if its runs hang and the watch loses events:
\* it ends in success, a declared failure or another transition's beginning.
\* Only an overdue attempt whose name the agent never learned may stay for ever,
\* and one that is deleted or ends with a reason the handler does not know
\* (logic.py 100, 502-546).
Nameless == TimedOut /\ pipeline.name = NoId
Lost == /\ pipeline.event_id # NoId
        /\ \/ runs[pipeline.event_id].deleted
           \/ runs[pipeline.event_id].reason = "Unknown"
TransitionResolves == []<>(retry_state = None \/ Nameless \/ Lost)

\* A deployment that succeeds ends maintenance, although the watch loses and
\* replays events, unless its run is deleted before it is listed anew
\* (logic.py 102-110, kube_stream.py 35-63).
SuccessEndsMaintenance ==
    \A i \in 1..MaxRuns :
        (/\ i \in RunIds /\ pipeline.event_id = i
         /\ runs[i].reason = "Succeeded" /\ ~pipeline.maintenance)
        ~> \/ ~maintenance.keycloak \/ i \notin AttemptsOf(transitions_begun)
           \/ runs[i].deleted

\* The lifecycle of retry_state is that of DeploymentOutcome.
Outcome == INSTANCE DeploymentOutcome WITH
    status <- IF retry_state = None
              THEN IF transition_failed THEN "failed" ELSE "idle"
              ELSE IF pipeline.event_id # NoId THEN "inflight"
              ELSE IF retry_state.retry_at # Never THEN "backoff" ELSE "stranded",
    tries <- IF retry_state = None THEN 0 ELSE retry_state.attempts_made,
    began <- IF retry_state = None THEN Never ELSE retry_state.transition_started_ts,
    due   <- IF retry_state = None THEN Never ELSE retry_state.retry_at
OutcomeSpec == Outcome!Spec
=============================================================================
