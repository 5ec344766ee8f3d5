-------------------------- MODULE TransitionRules --------------------------
(***************************************************************************)
(* The decision table of Logic.handler for a switchover_state event        *)
(* (src/src/logic.py 258-419): what each site does when its ConfigMap asks *)
(* for a transition.  Shared by the model of one agent's deployments       *)
(* (PipelineRetry) and by the model of the two agents (Switchover).        *)
(***************************************************************************)

\* config.active_site and config.passive_site.
ActiveSite == "gold"
PassiveSite == "golddr"
Sites == {ActiveSite, PassiveSite}

\* The values of ConfigMap.transition the handler supports (test-ping-pong,
\* a connectivity test that changes no state, is left out).
Transitions == {"active-passive", "active-passive-force", "golddr-primary",
                "gold-standby", "golddr-maintenance"}

\* The values of ConfigMap.last_stable_state the handler writes.
StableStates == {"independent", "active-passive", "active-passive-partial",
                 "golddr-primary", "gold-standby", "gold-standby-partial",
                 "golddr-maintenance"}

\* The early returns on the state the site is in.  golddr-primary and
\* active-passive-force have none.
Refused(t, last) ==
    \/ t = "active-passive" /\ last \notin {"independent", "golddr-maintenance",
                                            "gold-standby"}
    \/ t = "gold-standby" /\ last # "golddr-primary"
    \/ t = "golddr-maintenance" /\ last # "active-passive"

\* What the site does for a transition it does not refuse:
\*   primary   make Patroni the leader and deploy          (initiate_primary.py)
\*   detach    the same on an isolated passive site     (initiate_maintenance.py)
\*   standby   wipe Patroni and rebuild it as a standby     (initiate_standby.py)
\*   down      stop taking traffic                             (initiate_down.py)
\*   note      record the state, nothing else
\*   ignore    clear the request
Work(site, t) ==
    IF site = ActiveSite
    THEN CASE t \in {"active-passive", "active-passive-force"} -> "primary"
           [] t = "gold-standby"       -> "standby"
           [] t = "golddr-primary"     -> "down"
           [] t = "golddr-maintenance" -> "note"
    ELSE CASE t = "active-passive"       -> "standby"
           [] t = "active-passive-force" -> "ignore"
           [] t = "gold-standby"         -> "note"
           [] t = "golddr-primary"       -> "primary"
           [] t = "golddr-maintenance"   -> "detach"

\* Mutant of Reached: the request's own name is recorded.
ReachedAsAsked(t) == t

\* The stable state a completed transition is recorded as ...
Reached(t) == IF t = "active-passive-force" THEN "active-passive" ELSE t

\* ... and the one recorded while the standby is still being rebuilt.
Partial(t) == CASE t = "active-passive" -> "active-passive-partial"
                [] t = "gold-standby"   -> "gold-standby-partial"
=============================================================================
