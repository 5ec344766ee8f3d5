# A TLA+ model of the Switchover Agent

The Switchover Agent runs on two sites, `gold` (active) and `golddr` (passive).
It moves a service and its Patroni/Postgres database from one site to the other:
it promotes one database, rebuilds the other as its standby, redeploys the
solution through a Tekton pipeline, and tells the load balancer and the users
about it. This directory models its logic, model-checks it with TLC and proves
part of it with TLAPS. Source paths are relative to the repository; `logic.py`
is `src/src/logic.py` and `spec.md` is `openspec/specs/pipeline-retry/spec.md`.

## 1. Inventory

An agent is one pod. `src/src/main.py` starts a process per producer and one
process that consumes their queue in `Logic.handler`, one event at a time. All
transitions run inside that handler. The only durable state is outside the
agent: the `switchover-state` ConfigMap of each site, Patroni, the Tekton
namespace, the health API's replicas and the maintenance switches.

| Component | State it keeps | Operations |
| --- | --- | --- |
| Switchover state machine (`logic.py` 237-425, `transitions/`) | `last_switchover_state`, `triggers`; ConfigMap `last_stable_state` and `transition` | one branch per transition and site, early returns, `update_switchover_state` |
| Standby rebuild (`transitions/initiate_standby.py`, `initiate_primary.py`, `clients/kube.py`) | the StatefulSet, its volumes and configuration, Patroni's environment; `triggers` | wipe, scale and wait, add the trigger; delete the other volumes, scale out, clear it; promote |
| Deployment tracking and retries (`logic.py` 56-128, 439-585, `clients/tekton.py`, `transitions/retry.py`) | `pipeline`, `retry_state`, `transition_failed`, `failed_transition_maintenance` | `set_pipeline`, the PipelineRun branch, the tick: cancel, retry, give up |
| Peer link (`peers/`) | `fwd_to_peer_q`, `peer` | ping, forward with five tries, receive |
| ConfigMap watch (`clients/kube.py` 18-63) | `last_result` | watch, open anew with the present content, suppress repeats, patch |
| PipelineRun watch (`clients/kube_stream.py`) | none | watch, reopen without a resourceVersion |
| Patroni observer (`clients/patroni.py`) | `last_result` | poll every 5 s, report changes and every failed poll, `set_primary_cluster` |
| DNS observer, automation (`clients/dns.py`, `logic.py` 152-209) | `last_result` | report changes; read the ConfigMap, then request `golddr-primary` |
| Maintenance mode (`transitions/shared.py`, `clients/keycloak.py`, `clients/maintenance.py`) | Keycloak's service selector, the portal's alert | on, off |
| Tick (`clients/tick.py`) | none | every 30 s |
| Supervision (`main.py` 173-285) | process list | start, join; a child that dies is not started again |
| REST endpoints (`main.py` 47-146) | none | manual overrides |
| Metrics, mock server, configuration | | |

**How they interact.** Producers call the handler only through its queue, so
events of different producers may be handled in any order, and an event is often
older than the state it describes. The agents talk through the peer link:
`confirm_happy_to_proceed` and `yes_happy_to_proceed` before the active site
commits to `active-passive` or `gold-standby`, `transition_to` when it has. A
received order is written into the passive site's own ConfigMap and is handled
when the ConfigMap's watch reports it. A rebuild of a database has two halves: the
first wipes the cluster and brings one member up, the second adds the other members
and deploys. A trigger (`WaitFor`), kept in memory, joins them: a later Patroni event
satisfies it. Automation writes its request into the ConfigMap, and hears of it like
of any other.

**What is hard.** A handler acts on the snapshot it was given. The Patroni state
it trusts is the last one *reported*. The consent it uses travelled to the peer
and back. Messages are lost after five tries, or arrive twice. What is in memory
is gone with the pod. Deployments hang, fail, are retried by a clock, and are
seen through a watch that loses and replays events. Scaling a StatefulSet takes
minutes, gives up, and meets pods that start and terminate at their own pace. A watch
that breaks never shows what was written and overwritten in between. The next
transition may begin in the middle of all of it. `hazards` in `PROJECT.json` lists each at its line.

**What makes each component correct.**

* State machine: the two ConfigMaps agree at rest; each site is what its
  ConfigMap says; a database is wiped only beside a leader; a consent still holds
  when it is used; every request comes to rest.
* Deployments: attempts do not overlap, keep their interval, cap and number; only
  an overdue attempt of the tracked transition is cancelled; failure is declared
  once and only when the attempts are spent; maintenance ends only on a success
  and ends after one; every transition resolves.
* Standby rebuild: no member bootstraps an empty database; the other members'
  volumes go only beside a copy of the peer's data; a cluster of one member has the
  trigger that will complete it; every rebuild is completed.
* Observers and automation: a failover is requested on a state that is still
  recorded; a pod begins a request once for its watch, and once more only for the consent it
  asked for; the ConfigMap's last content is always handled; a site that lost its traffic does
  not stay in regular operation.
* Peer link, watches: none of the above depends on a message that arrives once,
  or on an event that is not lost, unless this document says so.

## 2. Modules

| Module | What it is | Code |
| --- | --- | --- |
| `TransitionRules` | which transition is refused in which state, what each site does for it, what is recorded | the decision table of `logic.py` 258-410 |
| `PipelineRetry` | one agent: its transitions as far as they begin deployments, tracking, cancellation, retries, recovery, maintenance mode; Tekton, the watch, restarts and the clock around it | `logic.py` 56-128, 439-597, `transitions/`, `clients/tekton.py`, `clients/kube_stream.py` |
| `DeploymentOutcome` | abstract: what an agent promises of one deployment, without runs, events or the watch | lifecycle of `retry_state` |
| `PipelineRetryClaims` | a statement of spec.md that the code does not keep | |
| `PipelineRetryProofs` | `TypeCorrect`, `TrackingIsCoherent`, `FailureCountedOnce`, `OnlyOverdueStopped`, `MaintenanceGuarded`, `AttemptsAreSpaced`, `AttemptsKeepCap`, `BudgetKept`, `FailureIsSpent`, `ImplementsOutcome` | |
| `Switchover` | two agents, their ConfigMaps, queues, databases and the link between them | `logic.py` 130-425, `transitions/`, `peers/`, `clients/kube.py`, `clients/patroni.py` |
| `SwitchoverProofs` | `TypeCorrect`, `WipesAreSafe`, `DataServed` | |
| `SwitchoverRecords` | `ConsentsStayTrue`, `RecordsMatch`, `TrafficIsServed` | |
| `SwitchoverRefinement` | `AgentsAgree`, `AgentsFollowCycle` | |
| `SwitchoverFailover` | with automation: `WipesSafeInFailover`, `DataServedInFailover`, `ConsentsTrueInFailover` | |
| `SwitchoverCycle` | abstract: the coordinated cycle active-passive, golddr-primary, gold-standby, and which databases lead; `LeaderRemains` | |
| `StandbyRebuild` | one agent and its Patroni cluster: the rebuild and the promotion call by call | `transitions/initiate_standby.py`, `initiate_primary.py`, `wait_for.py`, `clients/kube.py` 65-240, `clients/patroni.py`, `logic.py` 130-151 |
| `StandbyRebuildClaims` | a statement of README.md that the code does not keep | |
| `StandbyRebuildProofs` | `TypeCorrect`, `NeverBlank`, `CopiedFirst`, `TriggerIsKept` | |
| `DnsFailover` | one agent with automation: DNS observer, ConfigMap watch, the queue they share, the dns branch call by call | `clients/dns.py`, `clients/kube.py` 18-63, `logic.py` 152-209 and 237-425 |
| `DnsFailoverProofs` | `TypeCorrect`, `RequestsTakenOnce`, `DecisionHolds` | |
| `MCPipelineRetry`, `MCSwitchover` | instances for TLC | |

Four views of one program: `Switchover` has both sites and the link, with handlers
that are one step. `PipelineRetry`, `StandbyRebuild` and `DnsFailover` have one site
each and open up what `Switchover` takes for granted: the deployments, the calls on the
database, and the way an answer of the DNS becomes a request. `TransitionRules` is
extended by three of them, so that they refuse and record the same.

**PipelineRetry.** `pipeline`, `retry_state`, `transition_failed` and
`failed_transition_maintenance` are the attributes of `Logic` of the same name.
A PipelineRun is a number, its place in `runs`; that number stands for its event
id and for its name, so `pipeline.name` being 0 is `None`. A handler is one
action. `ObserveRun`, `PipelineSucceeds`, `PipelineFails` and `UntrackedSuccess`
are the outcomes of the PipelineRun branch, including the relabelling of line 73
and the naming of line 87 that precede them; `CancelTimedOut`, `GiveUpAtCap` and
`FireRetry` are the outcomes of a tick. A tick that does nothing is no step. A
call that raises is an alternative of the same action, and leaves what had been
done before it (`logic.py` 427). `TriggerRaised` may have created a run all the
same: its answer was lost. `RunDeleted` deletes a run at any point; `CancelTimedOut` is
not possible for it, since the patch raises before the attempt is marked (545). A cancel
patch whose answer is lost stops the run and raises all the same. The
reason `Unknown` stands for an end that is none of the five of line 100. `Restart` keeps only what lies outside the process.
`runs[i].of` is a history variable, the transition the run is an attempt of; no
action reads it except to bound the number of foreign runs.

**Switchover.** `cm` is the ConfigMap, `watch` its snapshots on the way to the
handler, `inbox` and `outbox` the two directions of the link, `view` is
`last_switchover_state`, `patroni` what the handler last heard of `db`, and
`polled` what is on its way. The one queue of an agent is one channel per
producer, of which the handler takes any first element: that is every merge the
queue can hold, for producers that may each be late. A handler is one step.
Handlers of ConfigMap snapshots differ by what they do: `AdoptFresh`,
`NothingToDo`, `Abort`, `AskConsent`, `BecomePrimary`, `BecomeStandby`,
`TakeDown`, `NoteState`. With the fault `call`, `TransitionRaises` is a transition that
stops after any part of its work, and `Write` a handler whose last call raises. A database
wiped by a handler that raises is taken to be rebuilt in the end, with no trigger
(`StandbyRebuild` has the cases in which it is not). The last call of each, `update_switchover_state`, is part
of it (`SaveState`), the snapshot's stale state included. Deployments are left to
`PipelineRetry`. A database is a leader, a standby, being rebuilt, or `empty`:
promoted before it had the data. `Shown` is what `inspect_cluster` tells of it.

**StandbyRebuild.** `doing` is the call the handler is about to make, one action per
call of `initiate_standby`, `complete_standby` and `deploy_primary`, in the order of
`After`. `site` is either one. At the passive site the request to follow (`active-passive`)
stays in the ConfigMap until the handler ends; at the active site (`gold-standby`) it is
cleared when the peer's consent is asked for (`AskConsent`, `logic.py` 337-339 and 359-360),
and the work is done for the consent (`TakesOrder`), of which a new pod finds nothing in the
ConfigMap. `ClearRequest` and `Refuse` are the requests that end without work. `Make` is what all calls have in common: the next one follows, or the call
raises although it was carried out; `CallRaises` is the one that was not. A handler that
raises is "idle" again, with what it had done. `replicas`, `pods`, `ready` and `stopping`
are the StatefulSet, which moves by itself (`PodStarts`, `PodReady`, `PodStops`,
`PodGone`); `scale_and_wait` is `Scale` and then `ScaleReached` or `WaitGivesUp`. The
volume of the first member and those of the others are apart (`data`, `stale`), because
the code deletes them at different times, and the others' one by one; `doomed` is Kubernetes' protection of a volume in
use. `role` is Patroni's configuration, which decides, with `standby_env`, what a new
member becomes (`PodReady`). `reports` is what the observer has queued, `patroni` what the
handler last heard. `broken` is a history variable that no action reads: a handler raised,
gave up in the first half or was replaced, or an operator overrode the cluster over REST.

**DnsFailover.** `log` is every content the ConfigMap has had. A watch is a `position` in
it; an event of the ConfigMap in the `queue` is a position, so that a handler's snapshot is
`log[current]` however long it has waited. `reported` is `last_result`, with which
`watch_stream` suppresses repeats (`IsNews`). `DecideFailover` is the read and the test of
`logic.py` 186-200, `RequestFailover` the patch that follows; everything outside the handler may
come between. A transition is `TakeRequest` and `FinishRequest`: what it does to the site is
the other modules', what it writes to the ConfigMap is here, the state of its own snapshot
included (`Save`). `seen` is how far the
watch has brought this pod's handler; a consent replays the snapshot it was asked for, however old
(`TakeConsent`), and `seen` stays: `Logic.last_switchover_state`, which goes back, matters only to
the peer's question, and is `view` of `Switchover`. `owed` is a history variable: the last answer of the DNS is not lost yet.

## 3. Runs

All values are small, but each instance is big enough for its case: two retries
make a middle attempt; a cap of four with timeouts of one or two lets the cap fall
into an attempt, into a backoff and on the boundary; two transitions overlap; one
foreign run is tracked by nobody; eight requests go round the cycle twice, four are
the way there and back, and with the fifth a failover meets each of them; three requests, overrides and restarts are a rebuild, a promotion
in the middle of it and a new pod; two changes are a lost answer and a request, or a request
and its overwriting.

`PipelineRetry` (module `MCPipelineRetry`):

| Run | Shows | Distinct states |
| --- | --- | --- |
| `RetryRules` | `TypeOK`, `AttemptsSpaced`, `AttemptsWithinCap`, `RetryBudget`, `TrackingCoherent`, `FailedOncePerTransition`, `OnlyOverdueRunsStopped`, and `OutcomeSpec` (refinement of `DeploymentOutcome`): two retries, a second transition at any point of the first, relists | 1.5 M |
| `AgentFaults` | `FailureOnlyWhenSpent`, `MaintenanceEndsOnlyOnSuccess`, `OutcomeSpec`: the passive site, failing calls, relists, restarts, a foreign run, an unrecognised end, a rebuilt standby | 1.6 M |
| `RetryLiveness` | `TransitionResolves` though runs hang, are deleted or end unrecognised, `SuccessEndsMaintenance` though the watch loses and replays events | 185 k |

`Switchover` (module `MCSwitchover`):

| Run | Shows | Distinct states |
| --- | --- | --- |
| `SwitchCycle` | `FollowsCycle` (refinement of `SwitchoverCycle`), `RecordsAgree`, `TrafficServed`, `RequestsSettle`, `FailoverPromotes`: eight requests at the active site | 3.5 k |
| `LossyLink` | `WipeOnlyBesideLeader`, `OneLeads`: messages lost and delivered twice, handlers that raise half-way | 2.3 M |
| `AgentRestarts` | `TypeOK`, `RecordsMatchSites`, `ConsentStillTrue`: every transition, some at the passive site, from fresh and from serving sites; pods replaced, messages lost, the connection breaking | 0.5 M |
| `AgentFailover` | `OneLeads`, `WipeOnlyBesideLeader`, `ConsentStillTrue`: the same requests with automation at any point instead of restarts, messages lost, the connection breaking | 0.3 M |

One site, call by call (no MC module: the configurations give all constants):

| Run | Shows | Distinct states |
| --- | --- | --- |
| `StandbyRebuild` | `TypeOK`, `NoBlankLeader`, `OthersGoAfterCopy`, `PartialHasTrigger`, `RebuildCompletes`: either site asked to lead at any point, and to follow when nothing is under way, the active one with the peer's consent, with calls that raise, waits that give up, elections, overrides and restarts together | 0.5 M |
| `DnsFailover` | `TypeOK`, `DecisionStillTrue`, `TakenOnce`, `LatestHandled`, `FailoverHappens`: either site, with watches that break, calls that raise, an observer that dies and restarts together | 1.3 M |

**Bounds.** `MaxTime`, `StartBy`, `MaxTransitions`, `MaxForeign`, `MaxStream`
(`PipelineRetry`), `MaxRequests` and `MaxCopies` (`Switchover`), `MaxRequests` and
`MaxReports` (`StandbyRebuild`) and `MaxChanges` (`DnsFailover`) are bounds in guards.
`MaxRequests` of `StandbyRebuild` counts overrides and restarts too, `MaxChanges` requests,
changes of the DNS and restarts. `MaxReports` of one lets a report from before the wipe
wait until a handler is done; while it waits the observer does. A second one behind it would be
heard next, before anything newer, and says no more than the same poll made later (with two, TLC
finds the same in 2.6 M states). `StartBy` leaves every transition time to end before the clock stops at
`MaxTime`, which the liveness runs need. `MaxStream` limits how many watch events
wait before Tekton goes on; the handler may still be late by all of them.
`Requests` and `OperatorMayAsk` select the transitions asked for. Where operators
stop at the bound the system is at rest, so the configurations switch the deadlock
check off.

**Patient operators.** With `Patient`, an operator asks for a transition only when
both sites are quiet (`Quiet`): no message, trigger or rebuild is left; a request whose
handler raised may still be in a ConfigMap. The safety runs of `Switchover`
assume it of *operators*, never of automation. It is not a convenience: with four
overlapping requests a database can be wiped while no other leads, and the consent
can be used when it holds no longer (see section 6).

## 4. Fairness

`FairSpec` of `PipelineRetry` asks fairness of: taking the first event of the
queue (`Logic.handler` loops for ever), the effect of a tick (a tick comes every 30
seconds, `clients/tick.py`, so an enabled one is taken), the clock, reopening the
watch (`kube_stream.py` loops for ever), Tekton starting a run, and Tekton ending a
run *that was told to stop*. For the last two it is strong fairness, because the
bound `MaxStream` (and nothing in the system) disables them again and again while
events wait. `TransitionResolves` excepts one state by name, `Nameless`: an attempt
that is overdue while its name never reached the agent (section 6). A run nobody
stops may hang for ever, and a closed watch may miss any event. Nothing else is
fair: no operator need ask, no call need succeed.

`FairSpec` of `Switchover` asks weak fairness of each producer and of the handler
for each kind of event, of the forwarder, of the poll and of a wiped database
copying a leader. Automation, operators, losses and restarts are never forced. Weak
fairness suffices because each of these steps stays enabled until it is taken or
until what it was to do is done.

`FairSpec` of `StandbyRebuild` asks weak fairness of the StatefulSet (`Pods`: Kubernetes
carries out what was asked), of the poll (`Poll`, every 5 s), of the handler's next call
(`CallsNext`) and of the waits' deadline (`WaitGivesUp`), for the handler does not stop in the
middle of one; strong fairness of hearing a report and of hearing a request, because the two
kinds of event are in one queue, which the model splits, and each is put off again and again
while the other's handler is busy. A consent that was given is heard, but the peer need not
give it. Elections, overrides, calls that raise and restarts are
never forced. `FairSpec` of `DnsFailover` asks weak fairness of the observer's lookup, the
watch's reports, its reopening (all three loop for ever) and the handler; not of the peer's
consent, nor of the end of a rebuild.

## 5. Proofs

TLAPS checks (all leaves, no assumption but the `ASSUME`s of the modules, which
TLC evaluates on every run):

* `PipelineRetryProofs`, `TypeCorrect`: `Spec => []TypeOK`, for all values of the
  constants. `TypeOK` is inductive. One lemma per idea: the records the handlers
  build, sequence updates and appends (`EmitType`, `CreateType`, `UpdateType`),
  the trigger, the transitions, the declared failure. `StepKeepsTypes` has one step
  per action. That the retry time, the names and the event ids stay numbers is the
  part of it with content: the mutant that stores `None` for an instant, as the
  Python code does with a test for `None` at each use, breaks it.
* `PipelineRetryProofs`, the tracking of deployments: the invariant is
  `TrackingInv`. `TrackingCoherent` alone is not inductive: a success or a failure
  is believed because an *event* says so, and events are late and replayed. What
  makes it inductive is `EventsTruthful`: a queued event names an existing run, and
  an end it reports is still true, for a run that has ended stays as it ended. With
  `AttemptsOwned` (the agent attempts only its own release) it gives four theorems:
  the records agree with the runs, a failure is counted once, only overdue attempts
  of the tracked transition are stopped, maintenance ends only on a success. The
  lemmas say how a step changes runs (`RunsKept`) and the queue (`QueueTruthful`),
  and then there is one per handler.
* `PipelineRetryProofs`, the attempts at one transition: the invariant is
  `AttemptsInv`; its part with content is `Accounted`: while a retry may still come,
  all attempts but the one in flight have failed, their number is exactly the
  recorded one, and the first began when the record says. Without it the clock of a
  retry says nothing about the runs. A retry whose trigger raised leaves a count that
  may be one too high, and then no retry follows: so the budget holds although the
  answer of a trigger may be lost. `StepShape` classifies the steps into five kinds,
  of which only the beginning of a transition and a retry add attempts; one lemma for
  each kind keeps the invariant. The same classes give the refinement `ImplementsOutcome`
  (`Spec => OutcomeSpec`): the beginning of a transition, a failed attempt, a retry and a
  declared failure are the steps of `DeploymentOutcome`, and every other action stutters.
* `SwitchoverProofs`: `TypeCorrect` holds for all constants. The others assume
  `Coordinated`: operators are patient, there is no automation, nobody asks the passive
  site itself for `active-passive`, and calls raise or pods are replaced, not both. Overlapping
  requests, automation with a restart, and that request each lead to a wipe beside no leader
  (section 6). The last condition keeps a request that a raised call left in the ConfigMap
  from being handled again by a new pod; TLC found no wipe that needs it, `ConsentStillTrue`
  does. The invariant is `WipeInv`. At most one transition is in flight (`OneRequest`), counting what a watch still
  holds, what a new pod would read again and what the messages carry; the databases it does not
  wipe are whole, and no late Patroni event says that they lead when they do not
  (`WholeUnlessWiped`). An order to follow is under way only while the active site leads
  (`OrderLed`), a consent only while the passive one does (`ConsentLed`): the first needs to
  know what the handler of the order has done before, the second that a site which *ever saw
  itself* recorded as primary leads (`PassiveLeads`, over `Recorded`, for the answer is given on
  a snapshot that may be old). `WipesAreSafe` and `DataServed` follow, with any number of lost
  and repeated messages, broken connections, and restarts or raising calls.
* `SwitchoverRecords` adds that no message arrives twice (`Once`). Then a request is in one
  place only (`TokenInv`): asked for at one site, or one message under way, and then the last
  snapshot of its watch.
    - `ConsentsStayTrue`. While the active site asks, the passive one is what it was
      (`AsItWas`), and when the answer comes it is still in the required state and asked for
      nothing (`ConsentHolds`). `Once` and not having both restarts and raising calls are
      needed: TLC violates the property without (section 6).
    - `RecordsMatch`, when no call raises. The invariant is `MatchInv`: each site is what is
      recorded or on the way there (`Matches`); the state that a question carries along is still
      recorded (`Current`), since the handler of the answer writes it back; a site that is to
      follow believes it is a standby only if it is (`Honest`), for `initiate_standby` does
      nothing then; and a trigger waits for a rebuild that is under way, with the mode already
      set (`Unfinished`). `SiteStep` says what can happen to a site: its handler, a trigger that
      fires, or nothing of note. TLC finds no violation with messages repeated either; the proof
      does not cover that.
    - `TrafficIsServed`, when at most the connection breaks (`NoLoss`). The invariant is
      `ServedInv`: the active site serves, or the order to take over is on its way, or the
      passive site serves; and it follows only in the first two cases. `OrderKept` and
      `OrderTaken` say that the order is handed on from the outbox to the passive site's
      ConfigMap and watch until its handler promotes the database; `ActiveLeaves`,
      `PassiveLeaves` and `FollowsStep` that a site gives the traffic up only for the other.
      A lost order, a restart or a raised call refutes it (section 6); repeated messages do
      not in TLC's runs.
* `SwitchoverRefinement` assumes `Undisturbed`: patient operators, no automation, no fault, and
  requests for the three transitions of the cycle at the active site only. Each part is needed:
  a lost or repeated order, a connection in error, a restart or a raised call leaves the two
  records apart (section 6), and so does a request that only one site is asked for.
    - `AgentsAgree` (`Spec => []RecordsAgree`). A site has a `Position` in the cycle, where a
      standby being rebuilt counts as arrived. The invariant is `AgreeInv`: while an order is
      under way the active site is where it orders to, and the passive one can take it
      (`OrderHeld`); otherwise both are at the same position (`InStep`). `OrderHeld` says that the
      order will not be refused (`Refused`), which the active site does not check for its peer:
      it follows from both having been in step when the active site accepted the request. That a
      partial state is recorded exactly while a trigger waits is `RebuildRecorded`; that a new
      ConfigMap is adopted before anything is asked for, `AdoptedFirst`.
    - `AgentsFollowCycle` (`Spec => FollowsCycle`, from serving sites). With
      `lead`, `follow` mapped to the stages of the two records and `leaders` to the databases
      that lead, a handler of the active site that starts a transition is `Move`
      (`ActiveMoves`), one of the passive site is `CatchUp` (`PassiveCatchesUp`), and every
      other step of the agents, Patroni and the link stutters (`LeadingStep`). That `initiate_standby`
      really stops a leader, and `deploy_primary` really makes one, rests on what the agent
      believes of Patroni, `Honest` and `WholeUnlessWiped` of the invariants above.
* `SwitchoverFailover` is about automation. It assumes `Attended`: patient operators, nobody asks
  the passive site itself for `active-passive`, and at most messages are lost and the connection
  breaks; automation may be on or off. A failover is then requested at any moment a site records
  `active-passive`, beside whatever else is under way, so `OneRequest` and `TokenInv` fail. What
  remains is that at most one transition *other than* a failover is under way.
    - `OneToken` counts it: the snapshots, messages and orders that ask for such a transition, over
      both sites (`Load` of each queue), are never more than one. It has to be a count, for a
      handler takes a request out of one queue and puts it into another (`TokenHandled`). From it
      follow `OneUnderway`, and that the passive site's rebuild begins when nothing else is
      under way (`Rebuilding`).
    - `WipesSafeInFailover`, `DataServedInFailover`: the invariant is `FailInv`. A failover may
      promote a database in the middle of its rebuild, so a passive site recorded as the primary
      one need not lead; `PassiveLeading` says that it does unless the trigger of the rebuild is still
      waiting. `NotReported` says that no report of a standby from before a wipe
      is on its way when the wipe comes; so the trigger can fire only on a database with the data,
      which is what `PassiveWhole` needs. The rest of the argument is that of `WipeInv`.
    - `ConsentsTrueInFailover` adds `ConsentInv`. While the question is open the active site stays
      the site that asked (`AskerStays`: recorded as `golddr-primary`, no trigger, no failover asked
      for), and the only thing that can happen to the passive one is a failover of its own, which
      ends in the very state it is to confirm (`AskedStays`): automation acts only in
      `active-passive`, and a site in that state has not confirmed. So an answer
      that is under way is still true (`AnswerHolds`).
* `SwitchoverCycle`, `LeaderRemains`: `CycleSpec => []SomeLeader`, one
  database leads at every moment of the cycle. `SomeLeader` is not inductive: when
  the active site gives up leading one must know that the passive site leads, which
  depends on the stage it has reached. The inductive invariant is `CycleTypeOK` and
  `LeaderKnown`; `MoveKeeps` and `CatchUpKeeps` show that it survives a step of
  either site. With `AgentsFollowCycle` it is the argument why the order of the code
  (promote, then order, then wipe) never leaves both databases without data; `DataServed`
  has the same for messages that are lost or repeated, and for restarts.
* `StandbyRebuildProofs`: `TypeCorrect`, and three theorems about the data. For
  `NeverBlank` the invariant is `BootstrapSafe`: while a configuration may be missing the
  environment says standby, and it is unset only once Patroni leads. `CopiedFirst`
  (`OthersGoAfterCopy`) needs to know why a report of a healthy standby, perhaps older than
  the wipe, cannot fire the trigger too early: the trigger is added only behind a wait for
  exactly one ready member. `LastPodOnly` says that all pods but the last are ready,
  `SizeKnown` how many pods there can be at each call, `VolumeKnown` what the first volume holds
  there. `TriggerIsKept` (`PartialHasTrigger`) adds `RequestsKnown`, no request to follow is
  under way in a partial state, and `TriggerKept`, which says for each call what the
  replicas and the trigger are before it.
* `DnsFailoverProofs`: the invariant is `TypeOK`, `UpToDate` (what the watch was given last has
  the content that was reported last), `Placed` (what waits in the queue was reported, and is
  newer than what was handled), `Ordered` (in the order of the log, each version once) and
  `AtRequest` (what the handler carries out, or waits for the peer with, is a request).
  `UpToDate` is why a watch that is opened again and lists the ConfigMap anew brings nothing a
  second time: `DeliversNewer`. With the lemmas that the log is only ever extended, the invariant
  gives `RequestsTakenOnce`, across any number of broken watches and restarts, and
  `DecisionHolds`. What `TakenOnce` does not say is that a request is carried out only while it is
  new: a consent is an exception it names.

The theorems about `PipelineRetry` hold for every number of retries, every interval, timeout and cap, any
number of transitions, foreign runs and queued events, and for every fault of the
model together; those about `StandbyRebuild` and `DnsFailover` for any number of requests,
reports and changes and every disturbance together; those about `Switchover` for any number of
requests and copies of a message, from fresh and from serving sites, under the hypotheses each
names. The runs check the same properties on
small instances.

Only model-checked: liveness (`RequestsSettle`, `FailoverPromotes`, `TransitionResolves`,
`SuccessEndsMaintenance`, `RebuildCompletes`, `LatestHandled`, `FailoverHappens`), for liveness under
fairness and `ENABLED` are beyond TLAPS, and so is induction over data. Every safety property of
the runs is a theorem, and the hypotheses of the theorems cover the runs: `SwitchCycle` is within
those of `AgentsAgree`, `TrafficIsServed` and `AgentsFollowCycle`, `LossyLink` within those of
`WipesAreSafe` and `DataServed`, `AgentRestarts` within those of `RecordsMatch` and
`ConsentsStayTrue`, `AgentFailover` within `Attended`. What the runs and the theorems both leave out
is a restart or a raised call beside automation (section 6).

## 6. Findings and limits

Each finding is a run that TLC ends with a counterexample.

| Run | What the code does | Where |
| --- | --- | --- |
| `ClaimDeclaredAtCap` | a retry whose trigger raises is unscheduled for good; spec.md:54 has the transition declared failed at the cap | `logic.py` 550-555 |
| `ClaimFailoverPromotes` | a failover right behind the wipe of the passive database skips the promotion on a stale event; the rebuild's trigger then makes the site a standby again; README.md:16-20 | initiate_primary.py 50, `logic.py` 149 |
| `ClaimRebuildWhole` | the active site's agent is replaced during a rebuild, whose request it had cleared; asked for `gold-standby` again, the new one finds the first member a healthy standby and records the transition as done, with one member of three; README.md:32-40 | initiate_standby.py 47-50, `logic.py` 337-360 |

More disagreements were met while modelling and have no run of their own:

* Any run's event, of any release, relabels the tracked transition (`logic.py` 72-73);
  spec.md:25 says a failed untracked run does not alter it.
* The passive site is told `active-passive-force` and clears it without a change: both
  sites lead (`logic.py` 307-319), although 312 means the peer to follow.
* A consent that arrives twice wipes the active database twice (`logic.py` 231-235, 331).
* A success replayed by a relist, from before the failure, ends maintenance
  (`logic.py` 114-117); spec.md:54 keeps it on.
* A hung run known from an `ADDED` event alone has no name and is never cancelled
  (`logic.py` 75-87, 514); README.md:222 says overdue attempts are.
* `transition_failed` outlives the beginning of the next transition (`logic.py`
  570-585), and any success ends maintenance during its deployment, although
  initiate_primary.py:14-19 keeps it on until the deployment is done.
* A deployment still in flight switches maintenance off after the site was taken
  down (`logic.py` 439-443), against initiate_down.py:9.
* Consent is given on the last snapshot handled while the ConfigMap already asks for
  another transition (`logic.py` 223-225).
* A stale Patroni event passes for "already a Standby Leader"
  (initiate_standby.py:47-49), and a leading database is recorded as standby.

The passing runs name the disturbances they hold under. Beyond them, exploration
with TLC showed, of `Switchover`:

* `RecordsAgree` does not survive a duplicated order (its second handling writes
  back the state of a stale snapshot), a lost one, or a ping connection in error at
  the passive site, which aborts an order that has just arrived (`logic.py` 323).
* `TrafficServed` does not survive a restart of the active agent between taking
  the site down and sending the order: the queue is in memory only.
* Automation and a restart together break `WipeOnlyBesideLeader` (five requests; none of four
  do). Each alone does not: `WipesAreSafe`, `WipesSafeInFailover`.
* With automation alone, `RecordsAgree` does not survive a failover that only the passive site
  sees, nor `RecordsMatchSites` and `TrafficServed` the skipped promotion of
  `ClaimFailoverPromotes`: the active site has gone down and the passive one ends as a standby.
* Neither it nor `ConsentStillTrue` holds for operators who do not wait; and `ConsentStillTrue` does not
  survive a message delivered twice, nor a save that raises and a restart together:
  the request is still in the ConfigMap, and the new agent asks for consent again.
* `TrafficServed` does not survive a handler that raises: the active site has gone down,
  the passive one's patch for the order it was sent raises, and nothing tries again.
* `active-passive` passes the guard of `logic.py` 268 from `independent` and
  `golddr-maintenance`, but the consent asks the passive site for `gold-standby`
  (283), so from there it is never answered.
* Asked for directly at the passive site, `active-passive` is started without a
  consent and wipes the only leader.
* spec.md:11 names a retry interval of 5 minutes as the default; `config.py` 51
  has 30 seconds.

Of `PipelineRetry` (the excuse `Lost` of `TransitionResolves`, but for the last):

* An attempt that is deleted stays tracked until the next transition: no event ends it,
  and when it is overdue the patch raises at every tick (`logic.py` 545).
* An attempt that ends with another reason than the five of `logic.py` 100, such as
  PipelineRunTimeout, is never taken for ended. When it is overdue it is marked as
  cancelled, which changes nothing of a run that is over, and stays tracked too.
* The run is there when the trigger answers; Tekton's own delay is the watch's, which may report
  the run as late as it likes.

Of `StandbyRebuild`:

* Whatever raises in a rebuild is not tried again, and whatever raises behind the
  clearing of the triggers (initiate_standby.py 80) leaves the state partial with no
  trigger. `PartialHasTrigger` and `RebuildCompletes` except these (`broken`).
* Waiting for zero members ends when none is *ready* (`kube.py` 163): a member that is
  starting passes, its configuration is deleted, and it comes up in a cluster without one
  (`Orphaned`). Its volume is deleted when it goes. `OthersGoAfterCopy` holds all the same.
* A request to lead in the middle of a rebuild leaves one member and the trigger: until
  the next time the site follows, nothing scales it out.
* The same early return at the passive site needs no second request: there the request stays in
  the ConfigMap while the work is done, and a new agent handles it again.
* A refused request writes back the state of its own snapshot (`Refuse`). One made while
  the state is partial may be refused after the rebuild has completed, and the ConfigMap says
  partial again, with no trigger. So in the model the site is asked to follow only when
  nothing is under way (`AtRest`): operators are patient here too. A consent that is still under
  way counts as something.
* "leading" is any state in which the site may be asked to follow; `TransitionRules` has which
  those are, and `Switchover` the states between (`golddr-primary` at the active site). "primary"
  is `active-passive-force` at the active site and `golddr-primary` at the passive one. The
  active site's return by `active-passive`, with a consent, is `Switchover`'s.
* `WaitGivesUp` comes after a poll that has seen the cluster as it is, or a full queue:
  the wait gives up after two minutes, the poll comes every five seconds.
* Elections are short: `PollInElection` reports a cluster without a leader, and changes
  nothing. A member that was ready becomes unready only when it is terminated.

Of `DnsFailover` (the excuse `owed` of `FailoverHappens`, but for the last three):

* An answer is reported when it changes (dns.py 45), and once. Heard while the site is in
  another state than `active-passive`, or by a handler that raises, it is spent; the site may
  return to `active-passive` with its traffic gone, and nothing fails over.
* A first failover request that raised stays in the ConfigMap; a second one is a patch
  that changes nothing, and no watch reports it.
* A request that is overwritten while no watch is open is never seen.
* A handler that was busy with a request writes its own state over automation's (`Save`).
* A `dns_lookup` that dies is not started again, and the agent stays healthy.
* Automation overwrites a request an operator has just made (the patch of `logic.py` 200
  does not look at `transition`).
* A consent replays the snapshot it was asked for, however old, over what the ConfigMap says by
  then. One consent waits at a time in the model (`asked`): a second question replaces the first.

## 7. Not modelled

* `maintenance` on and off, `rollback-active-down`, `restart-kong` and `keycloak_start`
  over REST: direct calls of operators that leave no state in the agent. Metrics, TLS, the
  mock server: see `components` in `PROJECT.json`. `test-ping-pong` changes no state.
* `PROCESS_LIST`, which may leave producers out, and the death of other children than the
  DNS observer (`main.py` starts none again). Of a dead tick or watch nothing good can be
  said: every liveness property fails without its producer.
* In `Switchover`, handlers that raise half-way together with restarts, or with automation:
  `LossyLink` has them together with lost and duplicated messages only. A wiped database of
  theirs always recovers.
* In `PipelineRetry`, the ConfigMap is the state itself; snapshots that lag are in
  `Switchover` and `DnsFailover`.
* In `StandbyRebuild`, the peer: a standby always finds a leader to copy. In
  `DnsFailover`, whether the peer is reachable and a rebuild ends is a choice.
* A deployment still in flight when its site is taken down (`logic.py` 439) has no property: it
  needs maintenance mode and both sites in one model. Which site should give way when the
  passive one aborts an order it has just received (`logic.py` 323) no document says; the runs
  with a breaking connection show that the data survives it.

## 8. Plan

1. Done: `PipelineRetry` with its claim, abstraction and all its safety proofs;
   `Switchover` with its abstraction; `SwitchoverCycle` with its proof; `StandbyRebuild` and
   `DnsFailover`, each with the proofs of its safety properties.
2. Extend: a composition of one agent's deployments with the two-site protocol, to state
   what maintenance mode means across sites (`logic.py` 439); `rollback-active-down`;
   `StandbyRebuild` as the detail of `Switchover`.
3. Done: the refinements of `DeploymentOutcome` by `PipelineRetry` and of `SwitchoverCycle` by
   `Switchover`, and the safety properties of `Switchover` that outlive a disturbance.
4. Done: that wipes stay safe and consents true with automation. Left to prove: `RecordsMatch` with
   repeated messages.
