----------------------------- MODULE DnsFailover -----------------------------
(***************************************************************************)
(* How one site notices that its traffic is gone, and fails over by        *)
(* itself: dns_lookup (src/src/clients/dns.py), the ConfigMap's watch      *)
(* (src/src/clients/kube.py) and the one queue through which Logic.handler *)
(* hears both.  AUTOMATION_ENABLED is set.  Answers are reported once,     *)
(* watches break and list the ConfigMap anew, calls to Kubernetes raise,   *)
(* the observer's task dies, the pod is replaced.  What a transition does  *)
(* is PipelineRetry's and StandbyRebuild's, the peer is Switchover's.      *)
(***************************************************************************)
EXTENDS Integers, Sequences, TransitionRules

CONSTANTS
    None,
    Requests,   \* the transitions operators and the peer ask for
    Faults,     \* the disturbances in scope, of FaultKinds
    MaxChanges  \* bound: requests, changes of the DNS and restarts

\* api      a call to Kubernetes raises
\* gap      the watch of the ConfigMap breaks
\* lookup   dns_lookup raises what it does not catch: its task is gone
\* restart  the agent's pod is replaced
FaultKinds == {"api", "gap", "lookup", "restart"}

\* What the GSLB's name resolves to.
Answers == {"active", "passive", "error"}

ASSUME FailoverAssumption ==
    /\ None \notin Answers /\ Requests \subseteq Transitions
    /\ Faults \subseteq FaultKinds /\ MaxChanges \in Nat

VARIABLES
    site,       \* the site this agent runs at
    dns,        \* what the name resolves to
    looking,    \* dns_lookup still runs
    heard,      \* its last_result
    log,        \* every content of the ConfigMap, the last one is its present one
    watching,   \* a watch is open ...
    position,   \* ... and has delivered the log up to here
    reported,   \* last_result of watch_stream: a position of the log, or 0
    queue,      \* what the handler has yet to hear
    doing,      \* "idle", "patching" (a failover is decided), or in a transition:
                \* "asking" without the peer's consent, "agreed" with it
    current,    \* the position whose request the handler carries out, or 0
    asked,      \* the position whose request waits for the peer's consent, or 0
    seen,       \* the last position the watch brought to this pod's handler, or 0
    owed,       \* history: the last answer reported is not lost yet
    changes     \* how many requests, changes of the DNS and restarts there were

observers == <<looking, heard, watching, position, reported>>
handling  == <<queue, doing, current, asked, seen>>
vars      == <<site, dns, observers, log, handling, owed, changes>>

\* At first the ConfigMap records no state, and mostly it asks for nothing.
Lasts == StableStates \cup {""}
Asks  == Transitions \cup {""}

\* at: where in the log last was written, as last_stable_state_ts tells.
Contents == [last : Lasts, transition : Asks, at : Nat]

Events == [kind : {"dns"}, answer : Answers] \cup [kind : {"state"}, n : Nat]

Positions == 0..Len(log)

ObserverTypes ==
    /\ site \in Sites /\ dns \in Answers /\ heard \in Answers \cup {None}
    /\ looking \in BOOLEAN /\ watching \in BOOLEAN
    /\ position \in Positions /\ reported \in Positions

LogTypes == log \in Seq(Contents) /\ Len(log) > 0

HandlerTypes ==
    /\ queue \in Seq(Events) /\ doing \in {"idle", "patching", "asking", "agreed"}
    /\ current \in Positions /\ asked \in Positions /\ seen \in Positions

HistoryTypes == owed \in BOOLEAN /\ changes \in 0..MaxChanges

TypeOK == ObserverTypes /\ LogTypes /\ HandlerTypes /\ HistoryTypes
-----------------------------------------------------------------------------
(* The ConfigMap *)

Current == log[Len(log)]

\* A patch that changes nothing makes no new version.
Write(content) == log' = IF content = Current THEN log ELSE Append(log, content)

\* update_switchover_state of last and transition: last is stamped.
Save(last) == Write([last |-> last, transition |-> "", at |-> Len(log) + 1])

\* ... and of transition alone.
Request(t) == Write([Current EXCEPT !.transition = t])

Change == changes < MaxChanges /\ changes' = changes + 1

\* An operator, or the handler for an order of the peer, asks for a transition.
Ask(t) ==
    /\ Change /\ Request(t)
    /\ UNCHANGED <<site, dns, observers, handling, owed>>
-----------------------------------------------------------------------------
(* The observers *)

DnsChanges ==
    /\ Change /\ dns' \in Answers \ {dns}
    /\ UNCHANGED <<site, observers, log, handling, owed>>

\* Mutant of Lookup: an error is kept, not reported.
LookupAnswersOnly ==
    /\ looking /\ heard # dns
    /\ heard' = dns /\ owed' = TRUE
    /\ queue' = IF dns = "error" THEN queue
                                 ELSE Append(queue, [kind |-> "dns", answer |-> dns])
    /\ UNCHANGED <<site, dns, looking, watching, position, reported, log, doing,
                   current, asked, seen, changes>>

\* dns_lookup: every five seconds, only a change is reported.
Lookup ==
    /\ looking /\ heard # dns
    /\ heard' = dns /\ owed' = TRUE
    /\ queue' = Append(queue, [kind |-> "dns", answer |-> dns])
    /\ UNCHANGED <<site, dns, looking, watching, position, reported, log, doing,
                   current, asked, seen, changes>>

\* It is not started again, and the agent is healthy without it.
LookupDies ==
    /\ "lookup" \in Faults /\ looking
    /\ looking' = FALSE
    /\ UNCHANGED <<site, dns, heard, watching, position, reported, log, handling,
                   owed, changes>>

\* Mutant of IsNews: only the request is compared.
IsNewRequest(n) == reported = 0 \/ log[n].transition # log[reported].transition

\* Mutant of IsNews: a watch that is opened again forgets what it reported.
IsAlwaysNews(n) == n \in 1..Len(log)

\* The content differs from the one last reported.
IsNews(n) == reported = 0 \/ log[n] # log[reported]

\* watch_stream is given the content at position n: it reports what is new.
Deliver(n) ==
    /\ position' = n
    /\ IF IsNews(n)
       THEN reported' = n /\ queue' = Append(queue, [kind |-> "state", n |-> n])
       ELSE UNCHANGED <<reported, queue>>
    /\ UNCHANGED <<site, dns, looking, heard, log, doing, current, asked, seen, changes>>

WatchReports ==
    /\ watching /\ position < Len(log)
    /\ Deliver(position + 1)
    /\ UNCHANGED <<watching, owed>>

\* A new watch begins with the present content.  A request made and overwritten
\* since the last one is lost.
WatchOpens ==
    /\ ~watching /\ watching' = TRUE
    /\ Deliver(Len(log))
    /\ owed' = (owed /\ \A n \in position + 1 .. Len(log) - 1 :
                           log[n].transition # "golddr-primary")

WatchCloses ==
    /\ "gap" \in Faults /\ watching
    /\ watching' = FALSE
    /\ UNCHANGED <<site, dns, looking, heard, position, reported, log, handling, owed,
                   changes>>
-----------------------------------------------------------------------------
(* The handler hears the DNS *)

Hears(kind) == doing = "idle" /\ queue # <<>> /\ Head(queue).kind = kind /\ queue' = Tail(queue)

\* check_active_site or check_passive_site
Concerns(answer) == IF site = ActiveSite THEN answer # "active" ELSE answer = "passive"

\* Nothing to do about the answer.
HearDns ==
    /\ Hears("dns") /\ ~Concerns(Head(queue).answer)
    /\ UNCHANGED <<site, dns, observers, log, doing, current, asked, seen, owed, changes>>

\* Mutant of FailsOver: decided on the last snapshot the handler has seen.
FailsOverAsSeen == seen > 0 /\ log[seen].last = "active-passive"

\* The ConfigMap is read for the decision.
FailsOver == Current.last = "active-passive"

DecideFailover ==
    /\ Hears("dns") /\ Concerns(Head(queue).answer)
    /\ IF FailsOver THEN doing' = "patching" /\ owed' = TRUE
                    ELSE doing' = "idle" /\ owed' = FALSE
    /\ UNCHANGED <<site, dns, observers, log, current, asked, seen, changes>>

\* A call raises, which ends the event.
DnsRaises ==
    /\ "api" \in Faults
    /\ \/ Hears("dns") /\ Concerns(Head(queue).answer) /\ UNCHANGED doing
       \/ doing = "patching" /\ doing' = "idle" /\ UNCHANGED queue
    /\ owed' = FALSE
    /\ UNCHANGED <<site, dns, observers, log, current, asked, seen, changes>>

\* The failover is asked for in the ConfigMap.  If an attempt that raised has left
\* the same request there, nobody is told.
RequestFailover ==
    /\ doing = "patching" /\ doing' = "idle"
    /\ Request("golddr-primary")
    /\ owed' = (owed /\ ~(seen > 0 /\ log[seen] = log'[Len(log')]))
    /\ UNCHANGED <<site, dns, observers, queue, current, asked, seen, changes>>
-----------------------------------------------------------------------------
(* The handler hears the ConfigMap *)

\* The snapshot the watch brought.
Snapshot == log[Head(queue).n]

Sees == Hears("state") /\ seen' = Head(queue).n

\* A state never written is written, a request for the state the site is in
\* is cleared, and without a request there is nothing to do.
TakeNote ==
    /\ Sees
    /\ \/ /\ Snapshot.last = ""
          /\ Write([Current EXCEPT !.last = "independent", !.at = Len(log) + 1])
       \/ /\ Snapshot.last # "" /\ Snapshot.transition = "" /\ UNCHANGED log
       \/ /\ Snapshot.last # "" /\ Snapshot.transition = Snapshot.last /\ Request("")
    /\ UNCHANGED <<site, dns, observers, doing, current, asked, owed, changes>>

\* The request in the snapshot is taken, as it was then.
TakeRequest ==
    /\ Sees /\ Snapshot.last # "" /\ Snapshot.transition \notin {"", Snapshot.last}
    /\ doing' = "asking" /\ current' = seen'
    /\ UNCHANGED <<site, dns, observers, log, asked, owed, changes>>

\* The peer's consent brings back the snapshot it was asked for, however old it is
\* by now.  The next event of the watch is no older for that.
TakeConsent ==
    /\ doing = "idle" /\ asked > 0
    /\ doing' = "agreed" /\ current' = asked /\ asked' = 0
    /\ UNCHANGED <<site, dns, observers, log, queue, seen, owed, changes>>

\* The transitions a peer in error aborts, and those the active site needs the
\* peer's consent for.
NeedsPeer == {"active-passive", "gold-standby", "golddr-maintenance"}
NeedsConsent(t) == site = ActiveSite /\ t \in {"active-passive", "gold-standby"}

\* The states a request made in state last may end in.
Ends(t, last) ==
    IF \/ Refused(t, last) \/ Work(site, t) = "ignore"
       \/ NeedsConsent(t) /\ doing = "asking"
    THEN {last}
    ELSE {Reached(t)} \cup (IF t \in NeedsPeer THEN {last} ELSE {})
                      \cup (IF Work(site, t) = "standby" THEN {Partial(t)} ELSE {})

\* The handler ends it, and writes the state over whatever the ConfigMap asks
\* for by now.
FinishRequest ==
    /\ doing \in {"asking", "agreed"} /\ doing' = "idle" /\ current' = 0
    /\ LET t == log[current].transition   last == log[current].last IN
          /\ \E end \in Ends(t, last) : Save(end)
          /\ \/ UNCHANGED asked
             \/ doing = "asking" /\ NeedsConsent(t) /\ ~Refused(t, last) /\ asked' = current
          /\ owed' = (owed /\ last = Current.last /\ log'[Len(log')].last = last)
    /\ UNCHANGED <<site, dns, observers, queue, seen, changes>>

\* It raises on the way: the request stays in the ConfigMap.
RequestRaises ==
    /\ "api" \in Faults
    /\ doing \in {"asking", "agreed"} /\ doing' = "idle" /\ current' = 0 /\ owed' = FALSE
    /\ UNCHANGED <<site, dns, observers, log, queue, asked, seen, changes>>

\* The trigger of a rebuild fires.
RebuildEnds ==
    /\ doing = "idle"
    /\ \E t \in {"active-passive", "gold-standby"} :
          Current.last = Partial(t) /\ Save(Reached(t))
    /\ owed' = FALSE
    /\ UNCHANGED <<site, dns, observers, handling, changes>>
-----------------------------------------------------------------------------
\* A new pod looks and watches from the beginning, with nothing in its queue.
Restart ==
    /\ "restart" \in Faults /\ Change
    /\ looking' = TRUE /\ heard' = None /\ watching' = FALSE /\ reported' = 0
    /\ queue' = <<>> /\ seen' = 0 /\ doing' = "idle" /\ current' = 0 /\ owed' = FALSE
    /\ UNCHANGED <<site, dns, log, position, asked>>

\* A site in regular operation, or a new one, and an agent about to start.
Init ==
    /\ site \in Sites /\ dns = "active"
    /\ looking = TRUE /\ heard = None /\ watching = FALSE /\ position = 0 /\ reported = 0
    /\ \E last \in {"active-passive", ""} :
          log = <<[last |-> last, transition |-> "", at |-> 1]>>
    /\ queue = <<>> /\ doing = "idle" /\ current = 0 /\ asked = 0 /\ seen = 0
    /\ owed = FALSE /\ changes = 0

Observe == Lookup \/ WatchReports \/ WatchOpens

Handle == \/ HearDns \/ DecideFailover \/ DnsRaises \/ RequestFailover
          \/ TakeNote \/ TakeRequest \/ FinishRequest \/ RequestRaises

Next == \/ Observe \/ Handle \/ TakeConsent \/ RebuildEnds
        \/ (\E t \in Requests : Ask(t)) \/ DnsChanges
        \/ LookupDies \/ WatchCloses \/ Restart

Spec == Init /\ [][Next]_vars

\* dns_lookup and watch_stream loop, and the handler takes what is queued.  The
\* peer need not answer, nor a rebuild end.
Fairness == /\ WF_vars(Lookup) /\ WF_vars(WatchReports) /\ WF_vars(WatchOpens)
            /\ WF_vars(Handle)

FairSpec == Spec /\ Fairness
-----------------------------------------------------------------------------
(* Properties *)

\* When a failover is about to be requested, the state it was decided on is
\* still the recorded one, whatever was asked for, restarted or rebuilt since
\* the answer was looked up (logic.py 186-200).
DecisionStillTrue == doing = "patching" => Current.last = "active-passive"

\* A pod begins a request once for its watch and once for the peer's consent: it
\* is newer than all that the watch has brought, however often watches break and
\* list the ConfigMap anew, or it is the one, old by now, that the consent was
\* asked for and is used up by (kube.py 33-63, logic.py 231-239).
TakenOnce ==
    [][current' \notin {0, current} =>
           current' > seen \/ (current' = asked /\ asked' = 0)]_vars

\* What the ConfigMap says in the end is brought to the handler, however watches
\* break and the contents in between are skipped (kube.py 45-63).
LatestHandled == []<>(seen > 0 /\ log[seen] = Current)

\* A site in regular operation is concerned about an answer that is not lost: one
\* yet to be reported, or reported in that state.
FailoverDue ==
    /\ Current.last = "active-passive"
    /\ IF site = ActiveSite THEN dns # "active" ELSE dns = "passive"
    /\ IF heard = dns THEN owed ELSE looking

\* No such site stays as it is: it leaves the state, or the traffic comes back,
\* or a call raised, the observer died or the request was overwritten unseen
\* (dns.py 21-49, logic.py 152-205, 379-400).
FailoverHappens == []<>~FailoverDue
=============================================================================
