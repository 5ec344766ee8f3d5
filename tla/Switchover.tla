----------------------------- MODULE Switchover -----------------------------
(***************************************************************************)
(* The two agents, one per site, and the protocol between them: requests   *)
(* in each site's ConfigMap, the handshake before the active site commits, *)
(* the orders it forwards to the passive site, the rebuild of a standby    *)
(* and automatic failover (src/src/logic.py 130-425, src/src/transitions/, *)
(* src/src/peers/, src/src/clients/kube.py, src/src/clients/patroni.py).   *)
(* Pipelines and the maintenance mode are PipelineRetry's.                 *)
(*                                                                         *)
(* An agent has one queue, filled by processes that each may be late.  It  *)
(* is modelled by one channel per producer (watch, inbox, polled) of which *)
(* the handler takes any first element: the merges the queue can hold.     *)
(* A handler is one step, which under "call" may raise half-way.           *)
(***************************************************************************)
EXTENDS TransitionRules, Integers, Sequences, FiniteSets

CONSTANTS
    None,
    Starts,          \* how the deployment is found, of {"fresh", "serving"}
    OperatorMayAsk,  \* the <<site, transition>> pairs operators request
    Patient,         \* operators ask only when both sites are quiet
    Automation,      \* config.automation_enabled
    Faults,          \* the disturbances in scope, of FaultKinds
    MaxRequests,     \* bound: requests by operators and by automation
    MaxCopies        \* bound: how often a message is sent, at most five times

\* drop       the forwarder gives a message up after five tries
\* duplicate  the peer has the message, but its answer is lost: it is resent
\* peer       the ping connection breaks and comes back
\* restart    an agent's pod is replaced
\* call       a call to Kubernetes, Patroni, Keycloak or Tekton raises
FaultKinds == {"drop", "duplicate", "peer", "restart", "call"}

Snapshots == [last : StableStates \cup {""}, transition : Transitions \cup {""}]
Appearances == {"leader", "standby_leader", "concerns"}

ASSUME SwitchoverAssumption ==
    /\ None \notin Snapshots \cup Appearances
    /\ Starts \subseteq {"fresh", "serving"}
    /\ OperatorMayAsk \subseteq Sites \X Transitions
    /\ Patient \in BOOLEAN /\ Automation \in BOOLEAN
    /\ Faults \subseteq FaultKinds
    /\ MaxRequests \in Nat /\ MaxCopies \in 1..5

VARIABLES
    cm,        \* site -> its switchover-state ConfigMap
    watch,     \* site -> ConfigMap snapshots on their way to the handler
    view,      \* site -> Logic.last_switchover_state
    inbox,     \* site -> messages from the peer on their way to the handler
    outbox,    \* site -> fwd_to_peer_q
    peer,      \* site -> Logic.peer
    db,        \* site -> what its Patroni cluster is
    patroni,   \* site -> what the handler last heard of it (Logic.patroni)
    polled,    \* site -> the Patroni event on its way to the handler, or None
    triggers,  \* site -> final states of the rebuilds waiting for Patroni
    mode,      \* site -> the in_recovery/in_maintenance setting of deployments
    health,    \* site -> the health API answers the load balancer
    requests   \* how many requests were made

databases == <<db, patroni, polled, triggers>>
traffic   == <<mode, health>>
vars == <<cm, watch, view, inbox, outbox, peer, databases, traffic, requests>>

Other(s) == IF s = ActiveSite THEN PassiveSite ELSE ActiveSite

\* leader      accepts writes, with the data
\* standby     replicates the peer, with the data
\* rebuilding  wiped, waiting to copy the peer
\* empty       promoted before it had the data
Databases == {"leader", "standby", "rebuilding", "empty"}

\* What Patroni's API shows of it: the role of a leader without concerns, or
\* that there are concerns.
Shown(d) == CASE d \in {"leader", "empty"} -> "leader"
              [] d = "standby"             -> "standby_leader"
              [] d = "rebuilding"          -> "concerns"

Modes == {"normal", "recovery", "maintenance"}

Messages ==
    [event : {"transition_to"}, state : Transitions] \cup
    [event : {"confirm_happy_to_proceed"}, required_state : StableStates,
     item : Snapshots] \cup
    [event : {"yes_happy_to_proceed"}, item : Snapshots]

TypeOK ==
    /\ cm \in [Sites -> Snapshots]
    /\ watch \in [Sites -> Seq(Snapshots)]
    /\ view \in [Sites -> Snapshots \cup {None}]
    /\ inbox \in [Sites -> Seq(Messages)]
    /\ outbox \in [Sites -> Seq(Messages)]
    /\ peer \in [Sites -> {"unknown", "ok", "error"}]
    /\ db \in [Sites -> Databases]
    /\ patroni \in [Sites -> Appearances \cup {"unknown"}]
    /\ polled \in [Sites -> Appearances \cup {None}]
    /\ triggers \in [Sites -> SUBSET StableStates]
    /\ mode \in [Sites -> Modes]
    /\ health \in [Sites -> BOOLEAN]
    /\ requests \in Nat
-----------------------------------------------------------------------------
(* The calls the handlers make *)

Set(f, s, v) == [f EXCEPT ![s] = v]

\* A patch of the ConfigMap; queue is what the handler leaves of its watch
\* channel.  kube_watch reports content it has not just reported.  The
\* timestamp written with last_stable_state makes the same values new content
\* unless the second is the same too.
Patch(s, queue, data, stamped) ==
    /\ cm' = Set(cm, s, data)
    /\ \/ /\ data # cm[s] \/ stamped
          /\ watch' = Set(watch, s, Append(queue, data))
       \/ /\ data = cm[s]
          /\ watch' = Set(watch, s, queue)

\* The handler's patch, its last call: it may raise, and what was done before is
\* not undone.
Write(s, queue, data, stamped) ==
    \/ Patch(s, queue, data, stamped)
    \/ "call" \in Faults /\ watch' = Set(watch, s, queue) /\ UNCHANGED cm

\* update_switchover_state(last, '', ...): whatever transition the ConfigMap
\* asks for by now is cleared with the one that was handled.
SaveState(s, queue, last) == Write(s, queue, [last |-> last, transition |-> ""], TRUE)

Forward(s, message) == outbox' = Set(outbox, s, Append(outbox[s], message))

\* Mutant of BelievesLeader: any healthy Patroni will do.
BelievesHealthy(s) == patroni[s] \in {"leader", "standby_leader"}
BelievesLeader(s) == patroni[s] = "leader"

\* deploy_primary: Patroni is told to lead unless the agent believes it does.
Promoted(d) == IF d \in {"leader", "standby"} THEN "leader" ELSE "empty"
DeployPrimary(s) ==
    db' = IF BelievesLeader(s) THEN db ELSE Set(db, s, Promoted(db[s]))

\* Mutant of ModeFor: the passive site stays in recovery.
ModeForLeft(s, work) == CASE work = "primary" -> IF s = ActiveSite THEN "normal" ELSE "recovery"
                          [] work = "detach"  -> "maintenance"
                          [] work = "standby" -> mode[s]
                          [] work = "down"    -> "recovery"

\* set_in_recovery, set_in_maintenance: what the next deployment of the site
\* runs with.
ModeFor(s, work) == CASE work = "primary" -> IF s = ActiveSite THEN "normal" ELSE "recovery"
                      [] work = "detach"  -> "maintenance"
                      [] work = "standby" -> IF s = PassiveSite THEN "normal" ELSE mode[s]
                      [] work = "down"    -> "recovery"

\* Mutant of HealthFor: the active site does not come back.
HealthForPassiveOnly(s, work) == s = PassiveSite /\ work \in {"primary", "standby"}

\* scale_health_api: whether the load balancer finds the site up.
HealthFor(s, work) == \/ work = "primary"
                      \/ work = "standby" /\ s = PassiveSite

SetTraffic(s, work) == /\ mode' = Set(mode, s, ModeFor(s, work))
                       /\ health' = Set(health, s, HealthFor(s, work))
-----------------------------------------------------------------------------
(* The switchover_state branch.  Its event is a ConfigMap snapshot, or the   *)
(* one the peer's yes_happy_to_proceed gives back, marked peer_ok.           *)

FromPeer(s, kind) == inbox[s] # <<>> /\ Head(inbox[s]).event = kind

NextSnapshot(s) ==
    IF watch[s] = <<>> THEN {}
    ELSE {[snap |-> Head(watch[s]), peer_ok |-> FALSE,
           watch |-> Tail(watch[s]), inbox |-> inbox[s]]}

\* yes_happy_to_proceed: the event the peer was asked about is handled again.
NextConsent(s) ==
    IF ~FromPeer(s, "yes_happy_to_proceed") THEN {}
    ELSE {[snap |-> Head(inbox[s]).item, peer_ok |-> TRUE,
           watch |-> watch[s], inbox |-> Tail(inbox[s])]}

StateEvents(s) == NextSnapshot(s) \cup NextConsent(s)

Consume(s, e) == /\ e \in StateEvents(s)
                 /\ view' = Set(view, s, e.snap)
                 /\ inbox' = Set(inbox, s, e.inbox)
                 /\ UNCHANGED <<peer, patroni, polled, requests>>

\* The snapshot asks for something the site is not in already.
Asks(e) == /\ e.snap.last # ""
           /\ e.snap.transition \notin {"", e.snap.last}

\* The transitions that are not started while the peer is unreachable, and
\* those the active site starts only with the passive one's consent.
NeedsPeer == {"active-passive", "gold-standby", "golddr-maintenance"}
NeedsConsent == {"active-passive", "gold-standby"}

\* The state the passive site has to confirm.
RequiredState(t) == CASE t = "active-passive" -> "gold-standby"
                      [] t = "gold-standby"   -> "golddr-primary"

Aborts(s, e) == \/ e.snap.transition \in NeedsPeer /\ peer[s] = "error"
                \/ Refused(e.snap.transition, e.snap.last)

\* Mutant of MustConfirm: the active site commits at once.
NeverConfirms(s, e) == FALSE
MustConfirm(s, e) == /\ s = ActiveSite /\ e.snap.transition \in NeedsConsent
                     /\ ~e.peer_ok

Starting(s, e, work) == /\ Consume(s, e) /\ Asks(e)
                        /\ ~Aborts(s, e) /\ ~MustConfirm(s, e)
                        /\ Work(s, e.snap.transition) = work

\* Mutant of ForwardsOrder: the failover order is left to the passive site's DNS.
OrderLeftToGSLB(s, t) ==
    IF s = ActiveSite /\ t # "golddr-primary"
    THEN Forward(s, [event |-> "transition_to", state |-> t])
    ELSE UNCHANGED outbox

\* The active site tells the passive one what it has started.
ForwardsOrder(s, t) ==
    IF s = ActiveSite THEN Forward(s, [event |-> "transition_to", state |-> t])
    ELSE UNCHANGED outbox

\* A ConfigMap nobody has used yet.
AdoptFresh(s, e) ==
    /\ Consume(s, e) /\ e.snap.last = ""
    /\ Write(s, e.watch, [cm[s] EXCEPT !.last = "independent"], TRUE)
    /\ UNCHANGED <<outbox, db, triggers, traffic>>

\* No transition is asked for, or the one the site is in: that one is cleared.
NothingToDo(s, e) ==
    /\ Consume(s, e) /\ e.snap.last # "" /\ ~Asks(e)
    /\ IF e.snap.transition = ""
       THEN watch' = Set(watch, s, e.watch) /\ UNCHANGED cm
       ELSE Write(s, e.watch, [cm[s] EXCEPT !.transition = ""], FALSE)
    /\ UNCHANGED <<outbox, db, triggers, traffic>>

\* An aborted transition, or one the site ignores: the snapshot's state is
\* written back.
Abort(s, e) ==
    /\ Consume(s, e) /\ Asks(e)
    /\ Aborts(s, e) \/ (~MustConfirm(s, e) /\ Work(s, e.snap.transition) = "ignore")
    /\ SaveState(s, e.watch, e.snap.last)
    /\ UNCHANGED <<outbox, db, triggers, traffic>>

\* The active site asks the passive one first, sending the event along.
AskConsent(s, e) ==
    /\ Consume(s, e) /\ Asks(e)
    /\ ~Aborts(s, e) /\ MustConfirm(s, e)
    /\ Forward(s, [event |-> "confirm_happy_to_proceed", item |-> e.snap,
                   required_state |-> RequiredState(e.snap.transition)])
    /\ SaveState(s, e.watch, e.snap.last)
    /\ UNCHANGED <<db, triggers, traffic>>

\* initiate_active_primary, initiate_passive_primary and, with the health API
\* down, initiate_passive_maintenance.  A Patroni that is being rebuilt may not
\* answer: the handler raises and the request stays in the ConfigMap.
BecomePrimary(s, e) ==
    \E work \in {"primary", "detach"} :
       /\ Starting(s, e, work)
       /\ SetTraffic(s, work)
       /\ UNCHANGED triggers
       /\ \/ /\ DeployPrimary(s)
             /\ ForwardsOrder(s, e.snap.transition)
             /\ SaveState(s, e.watch, Reached(e.snap.transition))
          \/ /\ ~BelievesLeader(s) /\ db[s] = "rebuilding"
             /\ watch' = Set(watch, s, e.watch)
             /\ UNCHANGED <<cm, outbox, db>>

\* initiate_standby: nothing to do if the agent believes Patroni is a healthy
\* standby, else it is wiped and a trigger waits for it.
BecomeStandby(s, e) ==
    /\ Starting(s, e, "standby")
    /\ SetTraffic(s, "standby")
    /\ ForwardsOrder(s, e.snap.transition)
    /\ IF patroni[s] = "standby_leader"
       THEN /\ SaveState(s, e.watch, e.snap.transition)
            /\ UNCHANGED <<db, triggers>>
       ELSE /\ SaveState(s, e.watch, Partial(e.snap.transition))
            /\ db' = Set(db, s, "rebuilding")
            /\ triggers' = Set(triggers, s, {e.snap.transition})

\* initiate_active_down
TakeDown(s, e) ==
    /\ Starting(s, e, "down")
    /\ SetTraffic(s, "down")
    /\ ForwardsOrder(s, e.snap.transition)
    /\ SaveState(s, e.watch, e.snap.transition)
    /\ UNCHANGED <<db, triggers>>

\* A call of the transition raises: the peer is told nothing and the request
\* stays in the ConfigMap.  The traffic may be set by then, the database
\* promoted or wiped, and the older triggers cleared before that.
TransitionRaises(s, e) ==
    /\ "call" \in Faults
    /\ \E work \in {"primary", "detach", "standby", "down"} :
          /\ Starting(s, e, work)
          /\ \/ /\ mode' \in {mode, Set(mode, s, ModeFor(s, work))}
                /\ UNCHANGED <<health, db, triggers>>
             \/ /\ SetTraffic(s, work)
                /\ \/ UNCHANGED <<db, triggers>>
                   \/ work \in {"primary", "detach"} /\ DeployPrimary(s) /\ UNCHANGED triggers
                   \/ /\ work = "standby" /\ patroni[s] # "standby_leader"
                      /\ db' \in {db, Set(db, s, "rebuilding")}
                      /\ triggers' = Set(triggers, s, {})
    /\ watch' = Set(watch, s, e.watch)
    /\ UNCHANGED <<cm, outbox>>

NoteState(s, e) ==
    /\ Starting(s, e, "note")
    /\ SaveState(s, e.watch, e.snap.transition)
    /\ UNCHANGED <<outbox, db, triggers, traffic>>
-----------------------------------------------------------------------------
(* The from_peer branch *)

\* transition_to: the order becomes a request in the site's own ConfigMap.
TakeOrder(s) ==
    /\ FromPeer(s, "transition_to")
    /\ Write(s, watch[s], [cm[s] EXCEPT !.transition = Head(inbox[s]).state], FALSE)
    /\ inbox' = Set(inbox, s, Tail(inbox[s]))
    /\ UNCHANGED <<view, outbox, peer, databases, traffic, requests>>

\* Mutant of Happy: the state is not compared.
HappyInAnyState(s, required) == view[s] # None /\ view[s].transition = ""

\* confirm_happy_to_proceed: answered only if the last snapshot handled is the
\* required state with no transition; otherwise there is no answer at all.
Happy(s, required) == view[s] = [last |-> required, transition |-> ""]
Confirm(s) ==
    /\ FromPeer(s, "confirm_happy_to_proceed")
    /\ LET m == Head(inbox[s]) IN
       IF Happy(s, m.required_state)
       THEN Forward(s, [event |-> "yes_happy_to_proceed", item |-> m.item])
       ELSE UNCHANGED outbox
    /\ inbox' = Set(inbox, s, Tail(inbox[s]))
    /\ UNCHANGED <<cm, watch, view, peer, databases, traffic, requests>>
-----------------------------------------------------------------------------
(* Patroni *)

\* patroni_query puts a change in the queue; at most one waits there.
Poll(s) ==
    /\ polled[s] = None /\ Shown(db[s]) # patroni[s]
    /\ polled' = Set(polled, s, Shown(db[s]))
    /\ UNCHANGED <<cm, watch, view, inbox, outbox, peer, db, patroni, triggers,
                   traffic, requests>>

\* Mutant of TriggersFire: evaluated before the event is kept.
TriggersFireOnTheLast(s) == patroni[s] = "standby_leader"

\* patroni_has_no_standby_concerns, of the event just received.
TriggersFire(s) == polled[s] = "standby_leader"

\* The patroni branch: the triggers are evaluated, and complete_standby clears
\* them and records the final state.
HearPatroni(s) ==
    /\ polled[s] # None
    /\ patroni' = Set(patroni, s, polled[s])
    /\ polled' = Set(polled, s, None)
    /\ IF TriggersFire(s) /\ triggers[s] # {}
       THEN \/ /\ \E t \in triggers[s] : SaveState(s, watch[s], t)
               /\ triggers' = Set(triggers, s, {})
            \/ "call" \in Faults /\ UNCHANGED <<cm, watch, triggers>>
       ELSE UNCHANGED <<cm, watch, triggers>>
    /\ UNCHANGED <<view, inbox, outbox, peer, db, traffic, requests>>

\* The wiped cluster has copied the peer's leader.
Rebuilt(s) ==
    /\ db[s] = "rebuilding" /\ db[Other(s)] = "leader"
    /\ db' = Set(db, s, "standby")
    /\ UNCHANGED <<cm, watch, view, inbox, outbox, peer, patroni, polled, triggers,
                   traffic, requests>>
-----------------------------------------------------------------------------
(* The link between the agents *)

\* client_fwd_messages sends the first message until it is answered: up to five
\* copies of it arrive, one after the other.  (That a copy arrives late is a late
\* handler.)
Copies == IF "duplicate" \in Faults THEN 1..MaxCopies ELSE {1}

\* The peer's server puts every copy into its queue before it answers.
Received(s, n) == Set(inbox, Other(s), inbox[Other(s)] \o [i \in 1..n |-> Head(outbox[s])])

Deliver(s) ==
    /\ outbox[s] # <<>>
    /\ \E n \in Copies : inbox' = Received(s, n)
    /\ outbox' = Set(outbox, s, Tail(outbox[s]))
    /\ UNCHANGED <<cm, watch, view, peer, databases, traffic, requests>>

\* ... and after five tries it is given up.
Drop(s) ==
    /\ "drop" \in Faults /\ outbox[s] # <<>>
    /\ outbox' = Set(outbox, s, Tail(outbox[s]))
    /\ UNCHANGED <<cm, watch, view, inbox, peer, databases, traffic, requests>>

\* The ping client reports a change of the connection.
PeerChanges(s) ==
    /\ "peer" \in Faults
    /\ \E state \in {"ok", "error"} \ {peer[s]} : peer' = Set(peer, s, state)
    /\ UNCHANGED <<cm, watch, view, inbox, outbox, databases, traffic, requests>>
-----------------------------------------------------------------------------
(* Requests, automation, restarts *)

\* Nothing moves at the site: the queues are empty, no trigger is waiting, no
\* database is being rebuilt and its state is known.  A request whose handler
\* raised may still be in the ConfigMap; Settled is that there is none.
Quiet(s) == /\ watch[s] = <<>> /\ inbox[s] = <<>> /\ outbox[s] = <<>>
            /\ polled[s] = None /\ patroni[s] = Shown(db[s]) /\ db[s] # "rebuilding"
            /\ triggers[s] = {}
Settled == \A s \in Sites : Quiet(s) /\ cm[s].transition = ""

\* An operator writes a transition into a site's ConfigMap.
OperatorAsks(s, t) ==
    /\ <<s, t>> \in OperatorMayAsk /\ requests < MaxRequests
    /\ Patient => \A site \in Sites : Quiet(site)
    /\ Patch(s, watch[s], [cm[s] EXCEPT !.transition = t], FALSE)
    /\ requests' = requests + 1
    /\ UNCHANGED <<view, inbox, outbox, peer, databases, traffic>>

FailsOver(s) == cm[s].last = "active-passive"

\* The dns branch with automation: the active site sees its name resolve
\* elsewhere, or the passive one sees it resolve to itself.
DnsFailover(s) ==
    /\ Automation /\ requests < MaxRequests
    /\ FailsOver(s)
    /\ Patch(s, watch[s], [cm[s] EXCEPT !.transition = "golddr-primary"], FALSE)
    /\ requests' = requests + 1
    /\ UNCHANGED <<view, inbox, outbox, peer, databases, traffic>>

\* A new pod: its queues and what Logic held are gone, the watch begins with
\* the ConfigMap as it is.
Restart(s) ==
    /\ "restart" \in Faults
    /\ watch' = Set(watch, s, <<cm[s]>>)
    /\ view' = Set(view, s, None)
    /\ inbox' = Set(inbox, s, <<>>) /\ outbox' = Set(outbox, s, <<>>)
    /\ peer' = Set(peer, s, "unknown")
    /\ patroni' = Set(patroni, s, "unknown") /\ polled' = Set(polled, s, None)
    /\ triggers' = Set(triggers, s, {})
    /\ UNCHANGED <<cm, db, traffic, requests>>
-----------------------------------------------------------------------------
\* fresh: two sites that never switched, each its own leader.  serving: normal
\* operation, with the agents just started.
Init ==
    /\ \E start \in Starts :
          LET last == IF start = "fresh" THEN "" ELSE "active-passive" IN
          /\ cm = [s \in Sites |-> [last |-> last, transition |-> ""]]
          /\ db = [s \in Sites |-> IF start = "serving" /\ s = PassiveSite
                                   THEN "standby" ELSE "leader"]
    /\ watch = [s \in Sites |-> <<cm[s]>>]
    /\ view = [s \in Sites |-> None]
    /\ inbox = [s \in Sites |-> <<>>] /\ outbox = [s \in Sites |-> <<>>]
    /\ peer = [s \in Sites |-> "unknown"]
    /\ patroni = [s \in Sites |-> "unknown"] /\ polled = [s \in Sites |-> None]
    /\ triggers = [s \in Sites |-> {}]
    /\ mode = [s \in Sites |-> "normal"]
    /\ health = [s \in Sites |-> TRUE]
    /\ requests = 0

HandleState(s) ==
    \E e \in StateEvents(s) :
       \/ AdoptFresh(s, e) \/ NothingToDo(s, e) \/ Abort(s, e) \/ AskConsent(s, e)
       \/ BecomePrimary(s, e) \/ BecomeStandby(s, e) \/ TakeDown(s, e) \/ NoteState(s, e)
       \/ TransitionRaises(s, e)

Next == \E s \in Sites :
    \/ HandleState(s) \/ TakeOrder(s) \/ Confirm(s)
    \/ Poll(s) \/ HearPatroni(s) \/ Rebuilt(s)
    \/ Deliver(s) \/ Drop(s) \/ PeerChanges(s)
    \/ \E t \in Transitions : OperatorAsks(s, t)
    \/ DnsFailover(s) \/ Restart(s)

Spec == Init /\ [][Next]_vars

\* Each agent's processes keep running, Patroni is polled and a wiped cluster
\* copies the leader.
Fairness == \A s \in Sites :
    /\ WF_vars(HandleState(s)) /\ WF_vars(TakeOrder(s)) /\ WF_vars(Confirm(s))
    /\ WF_vars(Poll(s)) /\ WF_vars(HearPatroni(s)) /\ WF_vars(Rebuilt(s))
    /\ WF_vars(Deliver(s))

FairSpec == Spec /\ Fairness
-----------------------------------------------------------------------------
(* Properties *)

\* The stage of the cycle a recorded state belongs to.
Stage(last) == IF last = "active-passive-partial" THEN "active-passive"
               ELSE IF last = "gold-standby-partial" THEN "gold-standby"
               ELSE last

Cycle == INSTANCE SwitchoverCycle
         WITH lead    <- Stage(cm[ActiveSite].last),
              follow  <- Stage(cm[PassiveSite].last),
              leaders <- {s \in Sites : db[s] = "leader"}

\* The two agents together move through the cycle of SwitchoverCycle: every
\* handler of either site is a move of the active site, the passive site
\* catching up, or no step of the cycle at all, whatever the order in which the
\* watch, the peer and Patroni reach the handlers.
FollowsCycle == Cycle!CycleSpec

\* A site wipes its database only while the other one leads with the data: the
\* handshake and the order of the messages have to see to it, initiate_standby
\* itself looks at nothing but its own Patroni (initiate_standby.py 47-67).
WipeOnlyBesideLeader ==
    [][\A s \in Sites : db[s] # "rebuilding" /\ db'[s] = "rebuilding"
                        => db[Other(s)] = "leader"]_vars

\* One of the databases leads with the data at every moment, also while a
\* transition is under way: while operators are patient, no order of the messages,
\* late or lost, and no call that raises leaves two standbys or rebuilds
\* (initiate_primary.py, initiate_standby.py 47-67).
OneLeads == \E s \in Sites : db[s] = "leader"

\* The active site rebuilds its database only while the passive site is
\* recorded as the primary one: what it consented to is still true when the
\* consent is used (logic.py 219-235, 321-351).
ConsentStillTrue ==
    [][db[ActiveSite] # "rebuilding" /\ db'[ActiveSite] = "rebuilding"
       => cm[PassiveSite] = [last |-> "golddr-primary", transition |-> ""]]_vars

\* When nothing is under way the two ConfigMaps record the same state: the active
\* site's orders have reached the passive one (logic.py 284-291, 349-351, 368-371).
RecordsAgree == Settled => cm[ActiveSite].last = cm[PassiveSite].last

\* The states in which a site's database leads, and those in which it replicates.
Leads(s) == \/ s = ActiveSite /\ cm[s].last = "active-passive"
            \/ s = PassiveSite /\ cm[s].last \in {"golddr-primary", "gold-standby",
                                                  "golddr-maintenance"}
Replicates(s) == \/ s = ActiveSite /\ cm[s].last = "gold-standby"
                 \/ s = PassiveSite /\ cm[s].last = "active-passive"

\* When nothing is under way each site is what its ConfigMap records: its
\* database leads or replicates as the state says, and its next deployment runs
\* in normal operation, in recovery or in maintenance (logic.py 258-410).
RecordsMatchSites ==
    Settled => \A s \in Sites :
        /\ Leads(s) => db[s] = "leader"
        /\ Replicates(s) => db[s] = "standby"
        /\ cm[s].last = "active-passive" => mode[s] = "normal"
        /\ cm[s].last \in {"golddr-primary", "gold-standby"} => mode[s] = "recovery"
        /\ s = PassiveSite /\ cm[s].last = "golddr-maintenance" => mode[s] = "maintenance"

\* When nothing is under way the load balancer finds a site that is up and
\* whose database leads (shared.py 53-57, in the order of the transitions).
TrafficServed == Settled => \E s \in Sites : health[s] /\ db[s] = "leader"

\* Every request and every failover comes to rest: the messages are handled,
\* the rebuild ends, the triggers have fired (logic.py 149-150, 211-235).
RequestsSettle == \A s \in Sites : cm[s].transition # "" ~> Settled

\* Once the active site has gone down, the passive one leads (README.md 16-20).
FailoverPromotes == cm[ActiveSite].last = "golddr-primary" ~> db[PassiveSite] = "leader"
=============================================================================
