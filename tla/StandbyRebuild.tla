--------------------------- MODULE StandbyRebuild ---------------------------
(***************************************************************************)
(* How one agent turns its Patroni cluster into a standby and back, call   *)
(* by call: initiate_standby, complete_standby and deploy_primary          *)
(* (src/src/transitions/), the calls of clients/kube.py and                *)
(* clients/patroni.py they make, and the observer whose reports fire the   *)
(* trigger between the two halves of a rebuild.  Between two calls the     *)
(* StatefulSet moves on, calls raise, waits time out, the pod is replaced. *)
(* Maintenance mode and the deployments are PipelineRetry's, the peer is   *)
(* Switchover's.                                                           *)
(***************************************************************************)
EXTENDS Integers, Sequences

CONSTANTS
    None,
    Faults,         \* the disturbances in scope, of FaultKinds
    MaxRequests,    \* bound: requests, overrides and restarts
    MaxReports      \* bound: reports of the observer that wait to be handled

\* call      a call to Kubernetes, Patroni or Tekton raises, done or not
\* timeout   wait_for_scale gives up
\* election  Patroni is asked while it has no leader
\* override  set-primary or set-readonly is called over REST
\* restart   the agent's pod is replaced
FaultKinds == {"call", "timeout", "election", "override", "restart"}

\* standby: gold-standby at the active site, active-passive at the passive one.
\* primary: active-passive-force and golddr-primary.
\* leading: any state from which the site may be asked to become the standby.
Snapshots == [last : {"leading", "partial", "following"},
              transition : {"", "standby", "primary"}]

Reports == [state : {"down", "leader", "standby_leader", "concerns", "leaderless"},
            members : 0..3]

SiteNames == {"active", "passive"}

ASSUME RebuildAssumption ==
    /\ None \notin Snapshots \cup Reports
    /\ Faults \subseteq FaultKinds
    /\ MaxRequests \in Nat /\ MaxReports \in Nat \ {0}

VARIABLES
    \* The cluster
    replicas,   \* what the StatefulSet is scaled to
    pods,       \* how many pods it has
    ready,      \* how many of them are ready
    stopping,   \* whether the last pod is being terminated
    data,       \* what is on the first member's volume
    doomed,     \* that volume is deleted as soon as its pod is gone
    stale,      \* the other members whose volumes are from before the rebuild
    role,       \* what Patroni's configuration makes the cluster, or "none"
    standby_env,\* STANDBY_HOST is set: how a new cluster is bootstrapped
    \* The agent
    reported,   \* last_result of patroni_query
    reports,    \* what it reported and the handler has yet to hear
    patroni,    \* Logic.patroni
    triggers,   \* a rebuild waits in Logic.triggers
    doing,      \* the call the handler is about to make, or "idle"
    \* What is asked of the site
    site,       \* which one it is: the active one needs the peer's consent
    cm,         \* the ConfigMap: the state recorded and the transition asked for
    event,      \* the request on its way to the handler, or None
    consent,    \* the peer has consented to a request to follow of a leading site
    requests,   \* how many of them there were
    broken      \* history: a rebuild was left half-way, or overridden

volumes == <<data, doomed, stale>>
cluster == <<replicas, pods, ready, stopping, volumes, role, standby_env>>
agent   == <<reported, reports, patroni, triggers, doing>>
records == <<site, cm, event, consent, requests>>
vars    == <<cluster, agent, records, broken>>

\* old    from before the latest rebuild was begun
\* none   deleted
\* copy   copied from the peer by the latest rebuild
\* blank  a new, empty database
Data == {"old", "none", "copy", "blank"}
Roles == {"primary", "standby", "none"}

\* The calls, in the order they are made.
Wipe     == {"set_env", "scale_down", "wait_down", "delete_pvc",
             "delete_configmap", "scale_up", "wait_up", "save_partial"}
Complete == {"delete_pvc_1", "delete_pvc_2", "scale_out", "wait_out", "deploy_standby",
             "save_completed"}
Promote  == {"set_primary", "unset_env", "deploy_primary", "save_primary"}
Saves    == {"save_partial", "save_completed", "save_standby", "save_primary"}
Calls    == Wipe \cup Complete \cup Promote \cup {"save_standby"}

ClusterTypes ==
    /\ replicas \in {0, 1, 3} /\ pods \in 0..3 /\ ready \in 0..3
    /\ ready <= pods /\ (stopping => ready < pods)
    /\ stopping \in BOOLEAN /\ doomed \in BOOLEAN /\ stale \subseteq 1..2
    /\ data \in Data /\ role \in Roles /\ standby_env \in BOOLEAN

AgentTypes ==
    /\ reported \in Reports \cup {None} /\ patroni \in Reports \cup {None}
    /\ reports \in Seq(Reports)
    /\ triggers \in BOOLEAN /\ doing \in Calls \cup {"idle"} /\ broken \in BOOLEAN

RecordTypes ==
    /\ site \in SiteNames /\ cm \in Snapshots /\ event \in Snapshots \cup {None}
    /\ consent \in BOOLEAN /\ requests \in Nat

TypeOK == ClusterTypes /\ AgentTypes /\ RecordTypes
-----------------------------------------------------------------------------
(* The StatefulSet and Patroni *)

\* One member at a time, member 0 first; the next when it is ready.
PodStarts ==
    /\ pods < replicas /\ ready = pods
    /\ pods' = pods + 1
    /\ UNCHANGED <<replicas, ready, stopping, volumes, role, standby_env,
                   agent, records, broken>>

\* The first member of a cluster without volume and configuration bootstraps
\* one as the environment says; without its volume, but with a configuration, it
\* waits for a leader that is not there.  The others copy the first one, unless
\* their volumes are from another history.
PodReady ==
    /\ ready < pods /\ ~stopping
    /\ ready' = ready + 1
    /\ \/ /\ ready = 0 /\ data = "none" /\ role = "none"
          /\ data' = IF standby_env THEN "copy" ELSE "blank"
          /\ role' = IF standby_env THEN "standby" ELSE "primary"
       \/ /\ IF ready = 0 THEN data # "none" ELSE data = "old" \/ ready \notin stale
          /\ UNCHANGED <<data, role>>
    /\ UNCHANGED <<replicas, pods, stopping, doomed, stale, standby_env,
                   agent, records, broken>>

\* The last member goes first, and is not ready any more.
PodStops ==
    /\ pods > replicas /\ ~stopping
    /\ stopping' = TRUE
    /\ ready' = IF ready = pods THEN pods - 1 ELSE ready
    /\ UNCHANGED <<replicas, pods, volumes, role, standby_env, agent, records, broken>>

PodGone ==
    /\ stopping
    /\ stopping' = FALSE /\ pods' = pods - 1
    /\ IF pods = 1 /\ doomed THEN data' = "none" /\ doomed' = FALSE
                             ELSE UNCHANGED <<data, doomed>>
    /\ UNCHANGED <<replicas, ready, stale, role, standby_env, agent, records, broken>>
-----------------------------------------------------------------------------
(* The observer (patroni.py) *)

\* inspect_cluster.  Nobody answers if no member is ready.
Shown ==
    IF ready = 0 THEN [state |-> "down", members |-> 0]
    ELSE [state   |-> IF role = "none" THEN "leaderless"
                      ELSE IF ready < pods THEN "concerns"
                      ELSE IF role = "primary" THEN "leader" ELSE "standby_leader",
          members |-> pods]

\* A change is reported, and every poll that gets no answer.
IsNews(r) == r # reported \/ r.state = "down"

Report(r) ==
    /\ Len(reports) < MaxReports /\ IsNews(r)
    /\ reported' = r /\ reports' = Append(reports, r)
    /\ UNCHANGED <<cluster, patroni, triggers, doing, records, broken>>

Poll == Report(Shown)

\* A poll between two leaders.
PollInElection ==
    /\ "election" \in Faults /\ ready > 0
    /\ Report([state |-> "leaderless", members |-> pods])
-----------------------------------------------------------------------------
(* The handler takes an event *)

Believes(state) == patroni # None /\ patroni.state = state

\* Mutant of TriggersFire: evaluated before the event is kept.
TriggersFireOnTheLast == Believes("standby_leader")

\* patroni_has_no_standby_concerns, of the event just received.
TriggersFire == Head(reports).state = "standby_leader"

\* The patroni branch: the triggers are evaluated, unless the cluster has no
\* leader, whose name raises first.
HearPatroni ==
    /\ doing = "idle" /\ reports # <<>>
    /\ patroni' = Head(reports) /\ reports' = Tail(reports)
    /\ doing' = IF triggers /\ TriggersFire THEN "delete_pvc_1" ELSE "idle"
    /\ UNCHANGED <<cluster, reported, triggers, records, broken>>

\* The switchover_state branch takes an event, and so the request.
Takes == UNCHANGED <<replicas, pods, ready, stopping, doomed, role, standby_env,
                     reported, reports, patroni, site, requests>>

TakesRequest(t) ==
    /\ doing = "idle" /\ event # None /\ event.transition = t
    /\ event' = None /\ Takes

\* The peer's consent brings the request back.
TakesConsent == doing = "idle" /\ consent /\ consent' = FALSE /\ UNCHANGED event /\ Takes

\* The state asked for is the one recorded: the request is cleared.
ClearRequest ==
    /\ \/ TakesRequest("standby") /\ event.last = "following"
       \/ TakesRequest("primary") /\ event.last = "leading" /\ site = "passive"
    /\ cm' = [cm EXCEPT !.transition = ""]
    /\ UNCHANGED <<data, stale, triggers, doing, consent, broken>>

\* The peer is not reached: the state of the snapshot is written back.
Refuse ==
    /\ \/ TakesRequest("standby") /\ event.last = "leading" /\ UNCHANGED consent
       \/ TakesConsent
    /\ cm' = [last |-> "leading", transition |-> ""]
    /\ UNCHANGED <<data, stale, triggers, doing, broken>>

\* The active site asks the peer, which may consent, and clears the request meanwhile.
AskConsent ==
    /\ site = "active" /\ TakesRequest("standby") /\ event.last = "leading"
    /\ consent' \in {consent, TRUE}
    /\ cm' = [last |-> "leading", transition |-> ""]
    /\ UNCHANGED <<data, stale, triggers, doing, broken>>

\* What the work of becoming the standby is begun for: the request itself at the
\* passive site, which stays in the ConfigMap all along, or the peer's consent.
TakesOrder ==
    \/ /\ site = "passive" /\ TakesRequest("standby") /\ event.last = "leading"
       /\ UNCHANGED consent
    \/ TakesConsent

\* initiate_standby: a wipe is begun, unless Patroni is a healthy standby.
InitiateStandby ==
    /\ TakesOrder
    /\ IF Believes("standby_leader")
       THEN /\ doing' = "save_standby"
            /\ UNCHANGED <<data, stale, triggers, broken>>
       ELSE /\ doing' = "set_env"
            /\ data' = IF data = "none" THEN "none" ELSE "old"
            /\ stale' = 1..2 /\ triggers' = FALSE /\ broken' = FALSE
    /\ UNCHANGED cm

\* deploy_primary: Patroni is promoted, unless it is a healthy leader.
InitiatePrimary ==
    /\ TakesRequest("primary")
    /\ doing' = IF Believes("leader") THEN "deploy_primary" ELSE "set_primary"
    /\ UNCHANGED <<data, stale, triggers, cm, consent, broken>>

\* set_in_recovery, scale_health_api or maintenance_on raises, or the test of a
\* Patroni without concerns and without a leader; or the request is not cleared,
\* though the peer may have been asked already.
RequestRaises ==
    /\ \/ /\ "call" \in Faults \/ Believes("leaderless")
          /\ TakesOrder \/ (TakesRequest("primary") /\ UNCHANGED consent)
       \/ /\ "call" \in Faults /\ TakesRequest("standby")
          /\ \/ UNCHANGED consent
             \/ site = "active" /\ event.last = "leading" /\ consent' = TRUE
    /\ broken' = TRUE
    /\ UNCHANGED <<data, stale, triggers, doing, cm>>
-----------------------------------------------------------------------------
(* The calls it makes *)

\* Which call comes after which.
After(c) == CASE c = "set_env"          -> "scale_down"
              [] c = "scale_down"       -> "wait_down"
              [] c = "wait_down"        -> "delete_pvc"
              [] c = "delete_pvc"       -> "delete_configmap"
              [] c = "delete_configmap" -> "scale_up"
              [] c = "scale_up"         -> "wait_up"
              [] c = "wait_up"          -> "save_partial"
              [] c = "delete_pvc_1"     -> "delete_pvc_2"
              [] c = "delete_pvc_2"     -> "scale_out"
              [] c = "scale_out"        -> "wait_out"
              [] c = "wait_out"         -> "deploy_standby"
              [] c = "deploy_standby"   -> "save_completed"
              [] c = "set_primary"      -> "unset_env"
              [] c = "unset_env"        -> "deploy_primary"
              [] OTHER                  -> "save_primary"

\* The call is made: it returns and the next one comes, or it raises all the
\* same, as when its answer is lost.
Make(c) ==
    /\ doing = c
    /\ \/ doing' = After(c) /\ UNCHANGED broken
       \/ "call" \in Faults /\ doing' = "idle" /\ broken' = TRUE
    /\ UNCHANGED <<pods, ready, stopping, reported, reports, patroni, triggers, records>>

\* A call raises before it has done anything.
CallRaises ==
    /\ "call" \in Faults /\ doing # "idle"
    /\ doing' = "idle" /\ broken' = TRUE
    /\ UNCHANGED <<cluster, reported, reports, patroni, triggers, records>>

\* update_patroni_spilo_env_vars
SetEnv ==
    /\ Make("set_env")
    /\ standby_env' = TRUE
    /\ UNCHANGED <<replicas, volumes, role>>

UnsetEnv ==
    /\ Make("unset_env")
    /\ standby_env' = FALSE
    /\ UNCHANGED <<replicas, volumes, role>>

\* Mutant of ScaledTo: a rebuilt cluster has one member too few.
ScaledToTwo(c) == CASE c \in {"scale_down", "wait_down"} -> 0
                    [] c \in {"scale_up", "wait_up"}     -> 1
                    [] c \in {"scale_out", "wait_out"}   -> 2

\* The replicas a call of scale_and_wait is for.
ScaledTo(c) == CASE c \in {"scale_down", "wait_down"} -> 0
                 [] c \in {"scale_up", "wait_up"}     -> 1
                 [] OTHER                             -> 3

Scale ==
    /\ \E c \in {"scale_down", "scale_up", "scale_out"} :
          Make(c) /\ replicas' = ScaledTo(c)
    /\ UNCHANGED <<volumes, role, standby_env>>

\* Mutant of Scaled: no ready member passes for any size.
ScaledOrNone(c) == ready = ScaledTo(c) \/ ready = 0

\* What wait_for_scale waits for.  To be scaled to 0 it is enough that no member
\* is ready, the last one may still be terminating.
Scaled(c) == ready = ScaledTo(c)

Waits == {"wait_down", "wait_up", "wait_out"}

\* wait_for_scale returns; behind it the trigger of the rebuild is added, or,
\* when all members are there, cleared.
ScaleReached ==
    /\ doing \in Waits /\ Scaled(doing)
    /\ doing' = After(doing)
    /\ triggers' = (doing = "wait_up" \/ (triggers /\ doing = "wait_down"))
    /\ UNCHANGED <<cluster, reported, reports, patroni, records, broken>>

\* Mutant of WaitGivesUp: the trigger is cleared before the wait.
WaitGivesUpUntriggered ==
    /\ "timeout" \in Faults /\ doing \in Waits /\ ~Scaled(doing)
    /\ reported = Shown \/ Len(reports) = MaxReports
    /\ doing' = "idle"
    /\ broken' = (broken \/ doing # "wait_out")
    /\ triggers' = FALSE
    /\ UNCHANGED <<cluster, reported, reports, patroni, records>>

\* It gives up after two minutes, in which Patroni was polled many times.  A
\* rebuild that waits for its other members keeps its trigger.
WaitGivesUp ==
    /\ "timeout" \in Faults /\ doing \in Waits /\ ~Scaled(doing)
    /\ reported = Shown \/ Len(reports) = MaxReports
    /\ doing' = "idle"
    /\ broken' = (broken \/ doing # "wait_out")
    /\ UNCHANGED <<cluster, reported, reports, patroni, triggers, records>>

\* The first member's volume goes when no pod uses it any more.
DeletePvc ==
    /\ Make("delete_pvc")
    /\ IF pods = 0 THEN data' = "none" /\ UNCHANGED doomed
                   ELSE doomed' = TRUE /\ UNCHANGED data
    /\ UNCHANGED <<replicas, stale, role, standby_env>>

DeleteConfigmap ==
    /\ Make("delete_configmap")
    /\ role' = "none"
    /\ UNCHANGED <<replicas, volumes, standby_env>>

\* The other members' volumes, one after the other, before these members are.
DeletePvcs ==
    /\ \/ Make("delete_pvc_1") /\ stale' = stale \ {1}
       \/ Make("delete_pvc_2") /\ stale' = stale \ {2}
    /\ UNCHANGED <<replicas, data, doomed, role, standby_env>>

\* Mutant of SetPrimary: the environment is changed first.
SetPrimaryAfterEnv ==
    /\ IF ready > 0
       THEN Make("set_primary") /\ role' = "primary"
       ELSE /\ doing = "set_primary"
            /\ doing' = "idle" /\ broken' = TRUE
            /\ UNCHANGED <<pods, ready, stopping, role, reported, reports, patroni,
                           triggers, records>>
    /\ standby_env' = FALSE
    /\ UNCHANGED <<replicas, volumes>>

\* set_primary_cluster: it needs a member that answers.
SetPrimary ==
    /\ IF ready > 0
       THEN Make("set_primary") /\ role' = "primary"
       ELSE /\ doing = "set_primary"
            /\ doing' = "idle" /\ broken' = TRUE
            /\ UNCHANGED <<pods, ready, stopping, role, reported, reports, patroni,
                           triggers, records>>
    /\ UNCHANGED <<replicas, volumes, standby_env>>

\* trigger_tekton_build and set_pipeline, which PipelineRetry models.
Deploy ==
    /\ \E c \in {"deploy_standby", "deploy_primary"} : Make(c)
    /\ UNCHANGED <<replicas, volumes, role, standby_env>>

\* The state the handler ends in.
Saved(c) == CASE c = "save_partial" -> "partial"
              [] c \in {"save_completed", "save_standby"} -> "following"
              [] OTHER -> "leading"

\* update_switchover_state
SaveState ==
    /\ doing \in Saves
    /\ cm' = [last |-> Saved(doing), transition |-> ""]
    /\ doing' = "idle"
    /\ UNCHANGED <<cluster, reported, reports, patroni, triggers, site, event, consent,
                   requests, broken>>
-----------------------------------------------------------------------------
(* Operators, automation, restarts *)

AtRest == /\ doing = "idle" /\ event = None /\ ~consent
          /\ cm.transition = "" /\ cm.last # "partial"

\* The ConfigMap asks for the site to lead, at any time, or to follow, when
\* nothing is under way.  The watch reports it if it is new.
Ask(t) ==
    /\ requests < MaxRequests /\ event = None /\ cm.transition # t
    /\ t = "standby" => AtRest
    /\ cm' = [cm EXCEPT !.transition = t] /\ event' = cm'
    /\ requests' = requests + 1
    /\ UNCHANGED <<cluster, agent, site, consent, broken>>

\* set-primary and set-readonly of the REST interface.
Override ==
    /\ "override" \in Faults /\ requests < MaxRequests /\ ready > 0
    /\ role' \in {"primary", "standby"}
    /\ broken' = TRUE /\ requests' = requests + 1
    /\ UNCHANGED <<replicas, pods, ready, stopping, volumes, standby_env,
                   agent, site, cm, event, consent>>

\* A new pod knows only the ConfigMap, which its watch reports: a request that was
\* cleared before the work is not made again.  The peer's consent may reach it.
Restart ==
    /\ "restart" \in Faults /\ requests < MaxRequests
    /\ requests' = requests + 1
    /\ reported' = None /\ reports' = <<>> /\ patroni' = None
    /\ triggers' = FALSE /\ doing' = "idle"
    /\ event' = IF cm.transition = "" THEN None ELSE cm
    /\ consent' \in {FALSE, consent}
    /\ broken' = (broken \/ triggers \/ doing # "idle")
    /\ UNCHANGED <<cluster, site, cm>>
-----------------------------------------------------------------------------
\* Either site, whose database leads, or follows, and an agent just started.
Init ==
    /\ site \in SiteNames /\ consent = FALSE
    /\ replicas = 3 /\ pods = 3 /\ ready = 3 /\ stopping = FALSE
    /\ data = "old" /\ doomed = FALSE /\ stale = 1..2
    /\ \/ role = "primary" /\ standby_env = FALSE /\ cm = [last |-> "leading", transition |-> ""]
       \/ role = "standby" /\ standby_env = TRUE /\ cm = [last |-> "following", transition |-> ""]
    /\ reported = None /\ reports = <<>> /\ patroni = None
    /\ triggers = FALSE /\ doing = "idle"
    /\ event = None /\ requests = 0 /\ broken = FALSE

Pods == PodStarts \/ PodReady \/ PodStops \/ PodGone

HearRequest == \/ ClearRequest \/ Refuse \/ AskConsent
               \/ InitiateStandby \/ InitiatePrimary \/ RequestRaises

CallsNext == \/ SetEnv \/ UnsetEnv \/ Scale \/ ScaleReached
             \/ DeletePvc \/ DeleteConfigmap \/ DeletePvcs
             \/ SetPrimary \/ Deploy \/ SaveState

Next == \/ Pods \/ Poll \/ PollInElection \/ HearPatroni \/ HearRequest \/ CallsNext
        \/ CallRaises \/ WaitGivesUp
        \/ \E t \in {"standby", "primary"} : Ask(t)
        \/ Override \/ Restart

Spec == Init /\ [][Next]_vars

\* Pods come and go as the StatefulSet asks, Patroni is polled, and the handler
\* takes its events, which wait in one queue, and makes its calls; none waits for
\* ever.
Fairness == /\ WF_vars(Pods) /\ WF_vars(Poll) /\ WF_vars(CallsNext) /\ WF_vars(WaitGivesUp)
            /\ SF_vars(HearPatroni) /\ SF_vars(HearRequest)

FairSpec == Spec /\ Fairness
-----------------------------------------------------------------------------
(* Properties *)

\* No member is ever bootstrapped as a new, empty database: the environment is
\* set for a standby before the configuration that says so is deleted, and unset
\* only once Patroni leads (initiate_standby.py 54-65, initiate_primary.py 54-57).
NoBlankLeader == data # "blank"

\* The second half of a rebuild, which deletes the volumes of the other members,
\* waits and runs only when the first member holds a copy of the peer
\* (initiate_standby.py 64-76, kube.py 155-172).
OthersGoAfterCopy == triggers \/ doing \in Complete => data = "copy"

\* A handler that has ended leaves a whole cluster, or a single member and the
\* trigger that will complete it; and a state recorded as partial has its trigger
\* (initiate_standby.py 57-80, logic.py 149-150, 296-305).
PartialHasTrigger ==
    doing = "idle" /\ ~broken =>
        /\ replicas # 3 => replicas = 1 /\ triggers
        /\ cm.last = "partial" => triggers

\* wait_for_scale has passed a member that was not ready yet, and its
\* configuration was deleted under it (kube.py 163).
Orphaned == role = "none" /\ ready > 0

\* Every request comes to rest and every rebuild is completed, although waits
\* time out and Patroni has no leader for a while; but for a handler that raised
\* or was replaced, and an orphaned member (logic.py 149-150,
\* initiate_standby.py 57-94).
RebuildCompletes ==
    event # None \/ consent \/ cm.last = "partial" ~> AtRest \/ broken \/ Orphaned
=============================================================================
