------------------------ MODULE StandbyRebuildProofs ------------------------
(***************************************************************************)
(* Proofs about StandbyRebuild, for every set of faults and every bound.   *)
(***************************************************************************)
EXTENDS StandbyRebuild, TLAPS

\* While Patroni has no configuration, and from the first call of a wipe on, a
\* new member would be bootstrapped as a standby.
BootstrapSafe ==
    /\ NoBlankLeader
    /\ role = "none" => standby_env
    /\ doing = "unset_env" => role # "none"
    /\ doing \in Wipe \ {"set_env"} => standby_env

\* Only the last pod is not ready, or terminating.
LastPodOnly == ready \in {pods, pods - 1} /\ (stopping => ready = pods - 1)

\* The calls between the wait for the cluster to go and the one for it to return.
Deleting == {"delete_pvc", "delete_configmap", "scale_up"}

\* The size of the cluster and the trigger, as far as the handler has come.
SizeKnown ==
    /\ doing \in {"wait_down"} \cup Deleting => replicas = 0
    /\ doing \in {"wait_up", "save_partial"} => replicas = 1
    /\ doing \in {"wait_out", "deploy_standby", "save_completed"} => replicas = 3
    /\ triggers \/ doing \in Complete => replicas # 0
    /\ doing \in Wipe \ {"save_partial"} => ~triggers
    /\ doing \in {"save_partial", "delete_pvc_1", "delete_pvc_2", "scale_out", "wait_out"}
          => triggers

\* What is on the first volume.  A cluster that was scaled up from nothing starts
\* without one, or loses it with the pod that is still there.
VolumeKnown ==
    /\ OthersGoAfterCopy
    /\ replicas # 0 /\ pods = 0 => data = "none"
    /\ replicas # 0 /\ pods = 1 /\ stopping => doomed
    /\ pods = 1 /\ ready = 0 /\ ~stopping => data = "none"
    /\ doing \in Deleting \cup {"wait_up"} /\ ready # 0 => data = "copy"
    /\ doing \in Deleting \ {"delete_pvc"} => IF pods = 0 THEN data = "none" ELSE doomed
    /\ triggers \/ doing \in Complete => ~(stopping /\ pods = 1)

\* Nobody asks a site to become the standby it is about to be.
RequestsKnown ==
    /\ cm.transition = "standby" => cm.last # "partial"
    /\ event # None /\ event.transition = "standby" => event.last # "partial"

\* Unless a rebuild was left half-way, the trigger is there while it is needed.
TriggerKept ==
    ~broken /\ doing \notin Wipe =>
        /\ replicas # 3 => replicas = 1 /\ triggers
        /\ cm.last = "partial" => triggers \/ doing \in {"deploy_standby", "save_completed"}
-----------------------------------------------------------------------------
(* Types *)

\* A request that is cleared, refused or waits for the peer changes the records only.
LEMMA OnlyRecords ==
  ASSUME RecordTypes, ClearRequest \/ Refuse \/ AskConsent
  PROVE  /\ UNCHANGED <<replicas, pods, ready, stopping, data, doomed, stale, role, standby_env>>
         /\ UNCHANGED <<reported, reports, patroni, triggers, doing, broken>>
         /\ cm' \in Snapshots /\ cm'.last \in {cm.last, "leading"} /\ cm'.transition = ""
<1>1. CASE ClearRequest
  <2>1. cm \in Snapshots /\ cm' = [cm EXCEPT !.transition = ""]
    BY <1>1 DEF ClearRequest, RecordTypes
  <2>2. cm' \in Snapshots /\ cm'.last = cm.last /\ cm'.transition = ""
    BY <2>1 DEF Snapshots
  <2>3. /\ UNCHANGED <<replicas, pods, ready, stopping, data, doomed, stale, role, standby_env>>
        /\ UNCHANGED <<reported, reports, patroni, triggers, doing, broken>>
    BY <1>1 DEF ClearRequest, TakesRequest, Takes
  <2> QED BY <2>2, <2>3
<1>2. CASE Refuse \/ AskConsent
  <2>1. cm' = [last |-> "leading", transition |-> ""]
    BY <1>2 DEF Refuse, AskConsent
  <2>2. cm' \in Snapshots /\ cm'.last = "leading" /\ cm'.transition = ""
    BY <2>1 DEF Snapshots
  <2>3. /\ UNCHANGED <<replicas, pods, ready, stopping, data, doomed, stale, role, standby_env>>
        /\ UNCHANGED <<reported, reports, patroni, triggers, doing, broken>>
    BY <1>2 DEF Refuse, AskConsent, TakesRequest, TakesConsent, Takes
  <2> QED BY <2>2, <2>3
<1> QED BY <1>1, <1>2

\* A step keeps the types of the cluster's variables.
LEMMA ClusterTypesKept ==
  ASSUME ClusterTypes, RecordTypes, [Next]_vars
  PROVE  ClusterTypes'
<1> USE DEF ClusterTypes
<1>1. CASE PodStarts
  BY <1>1 DEF PodStarts, volumes, agent, records, Data, Roles
<1>2. CASE PodReady
  BY <1>2 DEF PodReady, agent, records, Data, Roles
<1>3. CASE PodStops
  BY <1>3 DEF PodStops, volumes, agent, records, Data, Roles
<1>4. CASE PodGone
  <2>1. /\ pods' \in 0..3 /\ ready' = ready /\ ready' <= pods' /\ stopping' = FALSE
        /\ UNCHANGED <<replicas, stale, role, standby_env>>
    BY <1>4 DEF PodGone, agent, records
  <2>2. data' \in Data /\ doomed' \in BOOLEAN
    <3>1. CASE pods = 1 /\ doomed
      BY <1>4, <3>1 DEF PodGone, Data
    <3>2. CASE ~(pods = 1 /\ doomed)
      BY <1>4, <3>2 DEF PodGone
    <3> QED BY <3>1, <3>2
  <2> QED BY <2>1, <2>2
<1>5. CASE Poll
  BY <1>5 DEF Poll, Report, Shown, cluster, volumes, records, Data, Roles
<1>6. CASE PollInElection
  BY <1>6 DEF PollInElection, Report, cluster, volumes, records, Data, Roles
<1>7. CASE HearPatroni
  BY <1>7 DEF HearPatroni, cluster, volumes, records, Data, Roles
<1>8. CASE ClearRequest \/ Refuse \/ AskConsent
  <2>1. UNCHANGED <<replicas, pods, ready, stopping, data, doomed, stale, role, standby_env>>
    BY <1>8, OnlyRecords, Zenon
  <2> QED BY <2>1 DEF Data, Roles
<1>9. CASE InitiateStandby
  <2>1. UNCHANGED <<replicas, pods, ready, stopping, doomed, role, standby_env>>
    BY <1>9 DEF InitiateStandby, TakesOrder, TakesRequest, TakesConsent, Takes
  <2>2. data' \in {data, "none", "old"} /\ stale' \in {stale, 1..2}
    BY <1>9 DEF InitiateStandby
  <2>3. data' \in Data /\ stale' \subseteq 1..2
    BY <2>2 DEF Data
  <2> QED BY <2>1, <2>3
<1>10. CASE InitiatePrimary
  BY <1>10 DEF InitiatePrimary, TakesRequest, Takes, Data, Roles
<1>11. CASE RequestRaises
  BY <1>11 DEF RequestRaises, TakesOrder, TakesRequest, TakesConsent, Takes, Data,
     Roles
<1>12. CASE CallRaises
  BY <1>12 DEF CallRaises, cluster, volumes, records, Data, Roles
<1>13. CASE SetEnv
  BY <1>13 DEF SetEnv, Make, After, volumes, records, Data, Roles
<1>14. CASE UnsetEnv
  BY <1>14 DEF UnsetEnv, Make, After, volumes, records, Data, Roles
<1>15. CASE Scale
  BY <1>15 DEF Scale, Make, After, ScaledTo, volumes, records, Data, Roles
<1>16. CASE ScaleReached
  BY <1>16 DEF ScaleReached, After, Scaled, ScaledTo, Waits, cluster, volumes,
     records, Data, Roles
<1>17. CASE WaitGivesUp
  BY <1>17 DEF WaitGivesUp, Waits, cluster, volumes, records, Data, Roles
<1>18. CASE DeletePvc
  BY <1>18 DEF DeletePvc, Make, After, records, Data, Roles
<1>19. CASE DeleteConfigmap
  BY <1>19 DEF DeleteConfigmap, Make, After, volumes, records, Data, Roles
<1>20. CASE DeletePvcs
  BY <1>20 DEF DeletePvcs, Make, After, records, Data, Roles
<1>21. CASE SetPrimary
  BY <1>21 DEF SetPrimary, Make, After, volumes, records, Data, Roles
<1>22. CASE Deploy
  BY <1>22 DEF Deploy, Make, After, volumes, records, Data, Roles
<1>23. CASE SaveState
  BY <1>23 DEF SaveState, Saved, Saves, cluster, volumes, Data, Roles
<1>24. ASSUME NEW t \in {"standby", "primary"}, Ask(t) PROVE ClusterTypes'
  BY <1>24 DEF Ask, cluster, volumes, agent, Data, Roles
<1>25. CASE Override
  BY <1>25 DEF Override, volumes, agent, Data, Roles
<1>26. CASE Restart
  BY <1>26 DEF Restart, cluster, volumes, Data, Roles
<1>27. CASE UNCHANGED vars
  BY <1>27 DEF vars, cluster, volumes, agent, records, Data, Roles
<1> QED BY <1>1, <1>2, <1>3, <1>4, <1>5, <1>6, <1>7, <1>8, <1>9, <1>10, <1>11, <1>12,
           <1>13, <1>14, <1>15, <1>16, <1>17, <1>18, <1>19, <1>20, <1>21, <1>22,
           <1>23, <1>24, <1>25, <1>26, <1>27 DEF Next, Pods, HearRequest, CallsNext

\* A step keeps the types of the agent's variables.
LEMMA AgentTypesKept ==
  ASSUME TypeOK, [Next]_vars
  PROVE  AgentTypes'
<1>0. AgentTypes /\ RecordTypes
  BY DEF TypeOK
<1> USE DEF AgentTypes
<1>1. CASE PodStarts
  BY <1>1, <1>0 DEF PodStarts, volumes, agent, records, Calls, Wipe, Complete, Promote
<1>2. CASE PodReady
  BY <1>2, <1>0 DEF PodReady, agent, records, Calls, Wipe, Complete, Promote
<1>3. CASE PodStops
  BY <1>3, <1>0 DEF PodStops, volumes, agent, records, Calls, Wipe, Complete, Promote
<1>4. CASE PodGone
  BY <1>4, <1>0 DEF PodGone, agent, records, Calls, Wipe, Complete, Promote
<1>5. CASE Poll
  BY <1>5, <1>0 DEF Poll, Report, Shown, cluster, volumes, records, Calls, Wipe,
     Complete, Promote, Reports, TypeOK, ClusterTypes
<1>6. CASE PollInElection
  BY <1>6, <1>0 DEF PollInElection, Report, cluster, volumes, records, Calls, Wipe,
     Complete, Promote, Reports, TypeOK, ClusterTypes
<1>7. CASE HearPatroni
  BY <1>7, <1>0 DEF HearPatroni, cluster, volumes, records, Calls, Wipe, Complete,
     Promote
<1>8. CASE ClearRequest \/ Refuse \/ AskConsent
  BY <1>8, <1>0, OnlyRecords DEF Calls, Wipe, Complete,
     Promote
<1>9. CASE InitiateStandby
  BY <1>9, <1>0 DEF InitiateStandby, TakesOrder, TakesRequest, TakesConsent, Takes,
     Calls, Wipe, Complete, Promote
<1>10. CASE InitiatePrimary
  BY <1>10, <1>0 DEF InitiatePrimary, TakesRequest, Takes, Calls, Wipe, Complete,
     Promote
<1>11. CASE RequestRaises
  BY <1>11, <1>0 DEF RequestRaises, TakesOrder, TakesRequest, TakesConsent, Takes,
     Calls, Wipe, Complete, Promote
<1>12. CASE CallRaises
  BY <1>12, <1>0 DEF CallRaises, cluster, volumes, records, Calls, Wipe, Complete,
     Promote
<1>13. CASE SetEnv
  BY <1>13, <1>0 DEF SetEnv, Make, After, volumes, records, Calls, Wipe, Complete,
     Promote
<1>14. CASE UnsetEnv
  BY <1>14, <1>0 DEF UnsetEnv, Make, After, volumes, records, Calls, Wipe, Complete,
     Promote
<1>15. CASE Scale
  BY <1>15, <1>0 DEF Scale, Make, After, ScaledTo, volumes, records, Calls, Wipe,
     Complete, Promote
<1>16. CASE ScaleReached
  BY <1>16, <1>0 DEF ScaleReached, After, Scaled, ScaledTo, Waits, cluster, volumes,
     records, Calls, Wipe, Complete, Promote
<1>17. CASE WaitGivesUp
  BY <1>17, <1>0 DEF WaitGivesUp, Waits, cluster, volumes, records, Calls, Wipe,
     Complete, Promote
<1>18. CASE DeletePvc
  BY <1>18, <1>0 DEF DeletePvc, Make, After, records, Calls, Wipe, Complete, Promote
<1>19. CASE DeleteConfigmap
  BY <1>19, <1>0 DEF DeleteConfigmap, Make, After, volumes, records, Calls, Wipe,
     Complete, Promote
<1>20. CASE DeletePvcs
  BY <1>20, <1>0 DEF DeletePvcs, Make, After, records, Calls, Wipe, Complete, Promote
<1>21. CASE SetPrimary
  BY <1>21, <1>0 DEF SetPrimary, Make, After, volumes, records, Calls, Wipe, Complete,
     Promote
<1>22. CASE Deploy
  BY <1>22, <1>0 DEF Deploy, Make, After, volumes, records, Calls, Wipe, Complete,
     Promote
<1>23. CASE SaveState
  BY <1>23, <1>0 DEF SaveState, Saved, Saves, cluster, volumes, Calls, Wipe, Complete,
     Promote
<1>24. ASSUME NEW t \in {"standby", "primary"}, Ask(t) PROVE AgentTypes'
  BY <1>24, <1>0 DEF Ask, cluster, volumes, agent, Calls, Wipe, Complete, Promote
<1>25. CASE Override
  BY <1>25, <1>0 DEF Override, volumes, agent, Calls, Wipe, Complete, Promote
<1>26. CASE Restart
  <2>1. broken' \in BOOLEAN
    BY <1>26, <1>0, Zenon DEF Restart
  <2>2. reported' = None /\ patroni' = None /\ reports' = <<>> /\ triggers' = FALSE /\ doing' = "idle"
    BY <1>26 DEF Restart
  <2>3. reports' \in Seq(Reports)
    BY <2>2
  <2> QED BY <2>1, <2>2, <2>3
<1>27. CASE UNCHANGED vars
  BY <1>27, <1>0 DEF vars, cluster, volumes, agent, records, Calls, Wipe, Complete,
     Promote
<1> QED BY <1>1, <1>2, <1>3, <1>4, <1>5, <1>6, <1>7, <1>8, <1>9, <1>10, <1>11, <1>12,
           <1>13, <1>14, <1>15, <1>16, <1>17, <1>18, <1>19, <1>20, <1>21, <1>22,
           <1>23, <1>24, <1>25, <1>26, <1>27 DEF Next, Pods, HearRequest, CallsNext

\* A step keeps the types of the records.
LEMMA RecordTypesKept ==
  ASSUME RecordTypes, [Next]_vars
  PROVE  RecordTypes'
<1> USE DEF RecordTypes
<1>1. CASE PodStarts
  BY <1>1 DEF PodStarts, volumes, agent, records, Snapshots
<1>2. CASE PodReady
  BY <1>2 DEF PodReady, agent, records, Snapshots
<1>3. CASE PodStops
  BY <1>3 DEF PodStops, volumes, agent, records, Snapshots
<1>4. CASE PodGone
  BY <1>4 DEF PodGone, agent, records, Snapshots
<1>5. CASE Poll
  BY <1>5 DEF Poll, Report, Shown, cluster, volumes, records, Snapshots
<1>6. CASE PollInElection
  BY <1>6 DEF PollInElection, Report, cluster, volumes, records, Snapshots
<1>7. CASE HearPatroni
  BY <1>7 DEF HearPatroni, cluster, volumes, records, Snapshots
<1>8. CASE ClearRequest \/ Refuse \/ AskConsent
  <2>1. cm' \in Snapshots
    BY <1>8, OnlyRecords DEF RecordTypes
  <2>2. event' \in {event, None} /\ consent' \in {consent, TRUE, FALSE} /\ UNCHANGED <<site, requests>>
    BY <1>8 DEF ClearRequest, Refuse, AskConsent, TakesRequest, TakesConsent, Takes
  <2> QED BY <2>1, <2>2
<1>9. CASE InitiateStandby
  BY <1>9 DEF InitiateStandby, TakesOrder, TakesRequest, TakesConsent, Takes, Snapshots
<1>10. CASE InitiatePrimary
  BY <1>10 DEF InitiatePrimary, TakesRequest, Takes, Snapshots
<1>11. CASE RequestRaises
  BY <1>11 DEF RequestRaises, TakesOrder, TakesRequest, TakesConsent, Takes, Snapshots
<1>12. CASE CallRaises
  BY <1>12 DEF CallRaises, cluster, volumes, records, Snapshots
<1>13. CASE SetEnv
  BY <1>13 DEF SetEnv, Make, After, volumes, records, Snapshots
<1>14. CASE UnsetEnv
  BY <1>14 DEF UnsetEnv, Make, After, volumes, records, Snapshots
<1>15. CASE Scale
  BY <1>15 DEF Scale, Make, After, ScaledTo, volumes, records, Snapshots
<1>16. CASE ScaleReached
  BY <1>16 DEF ScaleReached, After, Scaled, ScaledTo, Waits, cluster, volumes,
     records, Snapshots
<1>17. CASE WaitGivesUp
  BY <1>17 DEF WaitGivesUp, Waits, cluster, volumes, records, Snapshots
<1>18. CASE DeletePvc
  BY <1>18 DEF DeletePvc, Make, After, records, Snapshots
<1>19. CASE DeleteConfigmap
  BY <1>19 DEF DeleteConfigmap, Make, After, volumes, records, Snapshots
<1>20. CASE DeletePvcs
  BY <1>20 DEF DeletePvcs, Make, After, records, Snapshots
<1>21. CASE SetPrimary
  BY <1>21 DEF SetPrimary, Make, After, volumes, records, Snapshots
<1>22. CASE Deploy
  BY <1>22 DEF Deploy, Make, After, volumes, records, Snapshots
<1>23. CASE SaveState
  BY <1>23 DEF SaveState, Saved, Saves, cluster, volumes, Snapshots
<1>24. ASSUME NEW t \in {"standby", "primary"}, Ask(t) PROVE RecordTypes'
  <2>1. cm' \in Snapshots
    BY <1>24 DEF Ask, Snapshots
  <2> QED BY <1>24, <2>1 DEF Ask
<1>25. CASE Override
  BY <1>25 DEF Override
<1>26. CASE Restart
  <2>1. cm' = cm /\ requests' = requests + 1
    BY <1>26 DEF Restart
  <2>2. event' = None \/ event' = cm
    BY <1>26, Zenon DEF Restart
  <2>3. consent' \in BOOLEAN /\ site' \in SiteNames
    BY <1>26, Zenon DEF Restart
  <2>4. cm' \in Snapshots /\ requests' \in Nat
    BY <2>1
  <2>5. event' \in Snapshots \cup {None}
    BY <2>2, Zenon
  <2> QED BY <2>3, <2>4, <2>5, Zenon
<1>27. CASE UNCHANGED vars
  BY <1>27 DEF vars, cluster, volumes, agent, records, Snapshots
<1> QED BY <1>1, <1>2, <1>3, <1>4, <1>5, <1>6, <1>7, <1>8, <1>9, <1>10, <1>11, <1>12,
           <1>13, <1>14, <1>15, <1>16, <1>17, <1>18, <1>19, <1>20, <1>21, <1>22,
           <1>23, <1>24, <1>25, <1>26, <1>27 DEF Next, Pods, HearRequest, CallsNext

\* Every variable keeps its type.
THEOREM TypeCorrect == Spec => []TypeOK
<1>1. ASSUME Init PROVE TypeOK
  <2>1. ClusterTypes
    <3>1. replicas = 3 /\ pods = 3 /\ ready = 3
      BY <1>1 DEF Init
    <3>2. stopping = FALSE /\ doomed = FALSE /\ stale \subseteq 1..2 /\ standby_env \in BOOLEAN
      BY <1>1 DEF Init
    <3>3. data \in Data /\ role \in Roles
      BY <1>1 DEF Init, Data, Roles
    <3>4. replicas \in {0, 1, 3} /\ pods \in 0..3 /\ ready \in 0..3 /\ ready <= pods
      BY <3>1
    <3> QED BY <3>2, <3>3, <3>4, Zenon DEF ClusterTypes
  <2>2. AgentTypes
    <3>1. reported = None /\ reports = <<>> /\ patroni = None /\ doing = "idle"
      BY <1>1 DEF Init
    <3>2. triggers = FALSE /\ broken = FALSE
      BY <1>1 DEF Init
    <3>3. reports \in Seq(Reports)
      BY <3>1
    <3> QED BY <3>1, <3>2, <3>3, Zenon DEF AgentTypes
  <2>3. RecordTypes
    <3>1. \/ cm = [last |-> "leading", transition |-> ""]
          \/ cm = [last |-> "following", transition |-> ""]
      BY <1>1, Zenon DEF Init
    <3>2. cm \in Snapshots
      <4>1. [last |-> "leading", transition |-> ""] \in Snapshots
        BY DEF Snapshots
      <4>2. [last |-> "following", transition |-> ""] \in Snapshots
        BY DEF Snapshots
      <4> QED BY <3>1, <4>1, <4>2
    <3>3. event = None /\ requests = 0 /\ site \in SiteNames /\ consent = FALSE
      BY <1>1 DEF Init
    <3> QED BY <3>2, <3>3 DEF RecordTypes
  <2> QED BY <2>1, <2>2, <2>3 DEF TypeOK
<1>2. ASSUME TypeOK, [Next]_vars PROVE TypeOK'
  BY <1>2, ClusterTypesKept, AgentTypesKept, RecordTypesKept DEF TypeOK
<1> QED BY <1>1, <1>2, PTL DEF Spec
-----------------------------------------------------------------------------
(* The bootstrap *)

\* A step keeps a new member from being bootstrapped as anything but a standby.
LEMMA BootstrapSafeKept ==
  ASSUME ClusterTypes, RecordTypes, BootstrapSafe, [Next]_vars
  PROVE  BootstrapSafe'
<1> USE DEF BootstrapSafe, NoBlankLeader
<1>1. CASE PodStarts
  BY <1>1 DEF PodStarts, volumes, agent, records, Wipe
<1>2. CASE PodReady
  BY <1>2 DEF PodReady, agent, records, Wipe
<1>3. CASE PodStops
  BY <1>3 DEF PodStops, volumes, agent, records, Wipe
<1>4. CASE PodGone
  BY <1>4 DEF PodGone, agent, records, Wipe
<1>5. CASE Poll
  BY <1>5 DEF Poll, Report, Shown, cluster, volumes, records, Wipe
<1>6. CASE PollInElection
  BY <1>6 DEF PollInElection, Report, cluster, volumes, records, Wipe
<1>7. CASE HearPatroni
  BY <1>7 DEF HearPatroni, cluster, volumes, records, Wipe
<1>8. CASE ClearRequest \/ Refuse \/ AskConsent
  BY <1>8, OnlyRecords DEF Wipe
<1>9. CASE InitiateStandby
  BY <1>9 DEF InitiateStandby, TakesOrder, TakesRequest, TakesConsent, Takes, Wipe
<1>10. CASE InitiatePrimary
  BY <1>10 DEF InitiatePrimary, TakesRequest, Takes, Wipe
<1>11. CASE RequestRaises
  BY <1>11 DEF RequestRaises, TakesOrder, TakesRequest, TakesConsent, Takes, Wipe
<1>12. CASE CallRaises
  BY <1>12 DEF CallRaises, cluster, volumes, records, Wipe
<1>13. CASE SetEnv
  BY <1>13 DEF SetEnv, Make, After, volumes, records, Wipe
<1>14. CASE UnsetEnv
  BY <1>14 DEF UnsetEnv, Make, After, volumes, records, Wipe
<1>15. CASE Scale
  BY <1>15 DEF Scale, Make, After, ScaledTo, volumes, records, Wipe
<1>16. CASE ScaleReached
  BY <1>16 DEF ScaleReached, After, Scaled, ScaledTo, Waits, cluster, volumes,
     records, Wipe
<1>17. CASE WaitGivesUp
  BY <1>17 DEF WaitGivesUp, Waits, cluster, volumes, records, Wipe
<1>18. CASE DeletePvc
  BY <1>18 DEF DeletePvc, Make, After, records, Wipe
<1>19. CASE DeleteConfigmap
  BY <1>19 DEF DeleteConfigmap, Make, After, volumes, records, Wipe
<1>20. CASE DeletePvcs
  BY <1>20 DEF DeletePvcs, Make, After, records, Wipe
<1>21. CASE SetPrimary
  BY <1>21 DEF SetPrimary, Make, After, volumes, records, Wipe
<1>22. CASE Deploy
  BY <1>22 DEF Deploy, Make, After, volumes, records, Wipe
<1>23. CASE SaveState
  BY <1>23 DEF SaveState, Saved, Saves, cluster, volumes, Wipe
<1>24. ASSUME NEW t \in {"standby", "primary"}, Ask(t) PROVE BootstrapSafe'
  BY <1>24 DEF Ask, cluster, volumes, agent, Wipe
<1>25. CASE Override
  BY <1>25 DEF Override, volumes, agent, Wipe
<1>26. CASE Restart
  BY <1>26 DEF Restart, cluster, volumes, Wipe
<1>27. CASE UNCHANGED vars
  BY <1>27 DEF vars, cluster, volumes, agent, records, Wipe
<1> QED BY <1>1, <1>2, <1>3, <1>4, <1>5, <1>6, <1>7, <1>8, <1>9, <1>10, <1>11, <1>12,
           <1>13, <1>14, <1>15, <1>16, <1>17, <1>18, <1>19, <1>20, <1>21, <1>22,
           <1>23, <1>24, <1>25, <1>26, <1>27 DEF Next, Pods, HearRequest, CallsNext

\* No member is ever bootstrapped as a new, empty database, whatever fails and
\* whenever the agent is replaced.
THEOREM NeverBlank == Spec => []NoBlankLeader
<1>1. Init => BootstrapSafe
  BY DEF Init, BootstrapSafe, NoBlankLeader, Wipe
<1>2. TypeOK /\ BootstrapSafe /\ [Next]_vars => BootstrapSafe'
  BY BootstrapSafeKept DEF TypeOK
<1>3. BootstrapSafe => NoBlankLeader
  BY DEF BootstrapSafe
<1> QED BY <1>1, <1>2, <1>3, TypeCorrect, PTL DEF Spec
-----------------------------------------------------------------------------
(* The two halves of a rebuild *)

\* What a wait that is over leads to.
LEMMA ScaleReachedCases ==
  ASSUME TypeOK, ScaleReached
  PROVE  /\ UNCHANGED cluster
         /\ \/ /\ doing = "wait_down" /\ ready = 0
               /\ doing' = "delete_pvc" /\ triggers' = triggers
            \/ /\ doing = "wait_up" /\ ready = 1
               /\ doing' = "save_partial" /\ triggers' = TRUE
            \/ /\ doing = "wait_out" /\ ready = 3
               /\ doing' = "deploy_standby" /\ triggers' = FALSE
<1>1. UNCHANGED cluster
  BY DEF ScaleReached
<1>2. triggers \in BOOLEAN
  BY DEF TypeOK, AgentTypes
<1>3. doing \in Waits /\ ready = ScaledTo(doing) /\ doing' = After(doing)
  BY DEF ScaleReached, Scaled
<1>4. triggers' = (doing = "wait_up" \/ (triggers /\ doing = "wait_down"))
  BY DEF ScaleReached
<1>5. CASE doing = "wait_down"
  <2>1. ready = 0 /\ doing' = "delete_pvc"
    BY <1>3, <1>5 DEF ScaledTo, After
  <2>2. triggers' = triggers
    BY <1>2, <1>4, <1>5, Zenon
  <2> QED BY <1>1, <1>5, <2>1, <2>2
<1>6. CASE doing = "wait_up"
  <2>1. ready = 1 /\ doing' = "save_partial"
    BY <1>3, <1>6 DEF ScaledTo, After
  <2>2. triggers' = TRUE
    BY <1>4, <1>6, Zenon
  <2> QED BY <1>1, <1>6, <2>1, <2>2
<1>7. CASE doing = "wait_out"
  <2>1. ready = 3 /\ doing' = "deploy_standby"
    BY <1>3, <1>7 DEF ScaledTo, After
  <2>2. triggers' = FALSE
    BY <1>4, <1>7
  <2> QED BY <1>1, <1>7, <2>1, <2>2
<1> QED BY <1>3, <1>5, <1>6, <1>7 DEF Waits

\* A step leaves every pod but the last one ready.
LEMMA LastPodOnlyKept ==
  ASSUME ClusterTypes, RecordTypes, LastPodOnly, [Next]_vars
  PROVE  LastPodOnly'
<1> USE DEF LastPodOnly
<1>1. CASE PodStarts
  BY <1>1 DEF PodStarts, volumes, agent, records, ClusterTypes
<1>2. CASE PodReady
  BY <1>2 DEF PodReady, agent, records, ClusterTypes
<1>3. CASE PodStops
  BY <1>3 DEF PodStops, volumes, agent, records, ClusterTypes
<1>4. CASE PodGone
  BY <1>4 DEF PodGone, agent, records, ClusterTypes
<1>5. CASE Poll
  BY <1>5 DEF Poll, Report, Shown, cluster, volumes, records, ClusterTypes
<1>6. CASE PollInElection
  BY <1>6 DEF PollInElection, Report, cluster, volumes, records, ClusterTypes
<1>7. CASE HearPatroni
  BY <1>7 DEF HearPatroni, cluster, volumes, records, ClusterTypes
<1>8. CASE ClearRequest \/ Refuse \/ AskConsent
  <2>1. UNCHANGED <<pods, ready, stopping>>
    BY <1>8, OnlyRecords, Zenon
  <2> QED BY <2>1
<1>9. CASE InitiateStandby
  BY <1>9 DEF InitiateStandby, TakesOrder, TakesRequest, TakesConsent, Takes,
     ClusterTypes
<1>10. CASE InitiatePrimary
  BY <1>10 DEF InitiatePrimary, TakesRequest, Takes, ClusterTypes
<1>11. CASE RequestRaises
  BY <1>11 DEF RequestRaises, TakesOrder, TakesRequest, TakesConsent, Takes,
     ClusterTypes
<1>12. CASE CallRaises
  BY <1>12 DEF CallRaises, cluster, volumes, records, ClusterTypes
<1>13. CASE SetEnv
  BY <1>13 DEF SetEnv, Make, After, volumes, records, ClusterTypes
<1>14. CASE UnsetEnv
  BY <1>14 DEF UnsetEnv, Make, After, volumes, records, ClusterTypes
<1>15. CASE Scale
  BY <1>15 DEF Scale, Make, After, ScaledTo, volumes, records, ClusterTypes
<1>16. CASE ScaleReached
  BY <1>16 DEF ScaleReached, After, Scaled, ScaledTo, Waits, cluster, volumes,
     records, ClusterTypes
<1>17. CASE WaitGivesUp
  BY <1>17 DEF WaitGivesUp, Waits, cluster, volumes, records, ClusterTypes
<1>18. CASE DeletePvc
  BY <1>18 DEF DeletePvc, Make, After, records, ClusterTypes
<1>19. CASE DeleteConfigmap
  BY <1>19 DEF DeleteConfigmap, Make, After, volumes, records, ClusterTypes
<1>20. CASE DeletePvcs
  BY <1>20 DEF DeletePvcs, Make, After, records, ClusterTypes
<1>21. CASE SetPrimary
  BY <1>21 DEF SetPrimary, Make, After, volumes, records, ClusterTypes
<1>22. CASE Deploy
  BY <1>22 DEF Deploy, Make, After, volumes, records, ClusterTypes
<1>23. CASE SaveState
  BY <1>23 DEF SaveState, Saved, Saves, cluster, volumes, ClusterTypes
<1>24. ASSUME NEW t \in {"standby", "primary"}, Ask(t) PROVE LastPodOnly'
  BY <1>24 DEF Ask, cluster, volumes, agent, ClusterTypes
<1>25. CASE Override
  BY <1>25 DEF Override, volumes, agent, ClusterTypes
<1>26. CASE Restart
  BY <1>26 DEF Restart, cluster, volumes, ClusterTypes
<1>27. CASE UNCHANGED vars
  BY <1>27 DEF vars, cluster, volumes, agent, records, ClusterTypes
<1> QED BY <1>1, <1>2, <1>3, <1>4, <1>5, <1>6, <1>7, <1>8, <1>9, <1>10, <1>11, <1>12,
           <1>13, <1>14, <1>15, <1>16, <1>17, <1>18, <1>19, <1>20, <1>21, <1>22,
           <1>23, <1>24, <1>25, <1>26, <1>27 DEF Next, Pods, HearRequest, CallsNext

\* A step keeps the size of the cluster in step with the calls of the handler.
LEMMA SizeKnownKept ==
  ASSUME TypeOK, SizeKnown, [Next]_vars
  PROVE  SizeKnown'
<1>0. ClusterTypes /\ AgentTypes /\ RecordTypes
  BY DEF TypeOK
<1> USE DEF SizeKnown
<1>1. CASE PodStarts
  BY <1>0, <1>1 DEF PodStarts, volumes, agent, records, Wipe, Complete, Deleting
<1>2. CASE PodReady
  BY <1>0, <1>2 DEF PodReady, agent, records, Wipe, Complete, Deleting
<1>3. CASE PodStops
  BY <1>0, <1>3 DEF PodStops, volumes, agent, records, Wipe, Complete, Deleting
<1>4. CASE PodGone
  BY <1>0, <1>4 DEF PodGone, agent, records, Wipe, Complete, Deleting
<1>5. CASE Poll
  BY <1>0, <1>5 DEF Poll, Report, Shown, cluster, volumes, records, Wipe, Complete,
     Deleting
<1>6. CASE PollInElection
  BY <1>0, <1>6 DEF PollInElection, Report, cluster, volumes, records, Wipe, Complete,
     Deleting
<1>7. CASE HearPatroni
  BY <1>0, <1>7 DEF HearPatroni, cluster, volumes, records, Wipe, Complete, Deleting
<1>8. CASE ClearRequest \/ Refuse \/ AskConsent
  <2>1. UNCHANGED <<replicas, triggers, doing>>
    BY <1>0, <1>8, OnlyRecords, Zenon
  <2> QED BY <2>1 DEF Wipe, Complete, Deleting
<1>9. CASE InitiateStandby
  BY <1>0, <1>9 DEF InitiateStandby, TakesOrder, TakesRequest, TakesConsent, Takes,
     Wipe, Complete, Deleting
<1>10. CASE InitiatePrimary
  BY <1>0, <1>10 DEF InitiatePrimary, TakesRequest, Takes, Wipe, Complete, Deleting
<1>11. CASE RequestRaises
  BY <1>0, <1>11 DEF RequestRaises, TakesOrder, TakesRequest, TakesConsent, Takes,
     Wipe, Complete, Deleting
<1>12. CASE CallRaises
  BY <1>0, <1>12 DEF CallRaises, cluster, volumes, records, Wipe, Complete, Deleting
<1>13. CASE SetEnv
  BY <1>0, <1>13 DEF SetEnv, Make, After, volumes, records, Wipe, Complete, Deleting
<1>14. CASE UnsetEnv
  BY <1>0, <1>14 DEF UnsetEnv, Make, After, volumes, records, Wipe, Complete, Deleting
<1>15. CASE Scale
  BY <1>0, <1>15 DEF Scale, Make, After, ScaledTo, volumes, records, Wipe, Complete,
     Deleting
<1>16. CASE ScaleReached
  <2>0. replicas' = replicas /\ triggers \in BOOLEAN
    BY <1>16, <1>0, ScaleReachedCases DEF cluster, AgentTypes
  <2>1. CASE doing = "wait_down" /\ doing' = "delete_pvc" /\ triggers' = triggers
    BY <2>0, <2>1 DEF Wipe, Complete, Deleting
  <2>2. CASE doing = "wait_up" /\ doing' = "save_partial" /\ triggers' = TRUE
    BY <2>0, <2>2 DEF Wipe, Complete, Deleting
  <2>3. CASE doing = "wait_out" /\ doing' = "deploy_standby" /\ triggers' = FALSE
    BY <2>0, <2>3 DEF Wipe, Complete, Deleting
  <2> QED BY <1>16, <2>1, <2>2, <2>3, ScaleReachedCases
<1>17. CASE WaitGivesUp
  BY <1>0, <1>17 DEF WaitGivesUp, Waits, cluster, volumes, records, Wipe, Complete,
     Deleting
<1>18. CASE DeletePvc
  BY <1>0, <1>18 DEF DeletePvc, Make, After, records, Wipe, Complete, Deleting
<1>19. CASE DeleteConfigmap
  BY <1>0, <1>19 DEF DeleteConfigmap, Make, After, volumes, records, Wipe, Complete,
     Deleting
<1>20. CASE DeletePvcs
  BY <1>0, <1>20 DEF DeletePvcs, Make, After, records, Wipe, Complete, Deleting
<1>21. CASE SetPrimary
  BY <1>0, <1>21 DEF SetPrimary, Make, After, volumes, records, Wipe, Complete, Deleting
<1>22. CASE Deploy
  BY <1>0, <1>22 DEF Deploy, Make, After, volumes, records, Wipe, Complete, Deleting
<1>23. CASE SaveState
  BY <1>0, <1>23 DEF SaveState, Saved, Saves, cluster, volumes, Wipe, Complete, Deleting
<1>24. ASSUME NEW t \in {"standby", "primary"}, Ask(t) PROVE SizeKnown'
  BY <1>0, <1>24 DEF Ask, cluster, volumes, agent, Wipe, Complete, Deleting
<1>25. CASE Override
  BY <1>0, <1>25 DEF Override, volumes, agent, Wipe, Complete, Deleting
<1>26. CASE Restart
  BY <1>0, <1>26 DEF Restart, cluster, volumes, Wipe, Complete, Deleting
<1>27. CASE UNCHANGED vars
  BY <1>0, <1>27 DEF vars, cluster, volumes, agent, records, Wipe, Complete, Deleting
<1> QED BY <1>1, <1>2, <1>3, <1>4, <1>5, <1>6, <1>7, <1>8, <1>9, <1>10, <1>11, <1>12,
           <1>13, <1>14, <1>15, <1>16, <1>17, <1>18, <1>19, <1>20, <1>21, <1>22,
           <1>23, <1>24, <1>25, <1>26, <1>27 DEF Next, Pods, HearRequest, CallsNext

\* A step keeps what is known of the first volume.
LEMMA VolumeKnownKept ==
  ASSUME TypeOK, BootstrapSafe, LastPodOnly, SizeKnown, VolumeKnown, [Next]_vars
  PROVE  VolumeKnown'
<1>0. ClusterTypes /\ AgentTypes /\ RecordTypes
  BY DEF TypeOK
<1> USE DEF VolumeKnown, OthersGoAfterCopy
<1>1. CASE PodStarts
  BY <1>0, <1>1 DEF PodStarts, volumes, agent, records, Wipe, Complete, Deleting,
     ClusterTypes, BootstrapSafe, NoBlankLeader, LastPodOnly, SizeKnown
<1>2. CASE PodReady
  BY <1>0, <1>2 DEF PodReady, agent, records, Wipe, Complete, Deleting, ClusterTypes,
     BootstrapSafe, NoBlankLeader, LastPodOnly, SizeKnown
<1>3. CASE PodStops
  BY <1>0, <1>3 DEF PodStops, volumes, agent, records, Wipe, Complete, Deleting,
     ClusterTypes, BootstrapSafe, NoBlankLeader, LastPodOnly, SizeKnown
<1>4. CASE PodGone
  BY <1>0, <1>4 DEF PodGone, agent, records, Wipe, Complete, Deleting, ClusterTypes,
     BootstrapSafe, NoBlankLeader, LastPodOnly, SizeKnown
<1>5. CASE Poll
  BY <1>0, <1>5 DEF Poll, Report, Shown, cluster, volumes, records, Wipe, Complete,
     Deleting, ClusterTypes, BootstrapSafe, NoBlankLeader, LastPodOnly, SizeKnown
<1>6. CASE PollInElection
  BY <1>0, <1>6 DEF PollInElection, Report, cluster, volumes, records, Wipe, Complete,
     Deleting, ClusterTypes, BootstrapSafe, NoBlankLeader, LastPodOnly, SizeKnown
<1>7. CASE HearPatroni
  BY <1>0, <1>7 DEF HearPatroni, cluster, volumes, records, Wipe, Complete, Deleting,
     ClusterTypes, BootstrapSafe, NoBlankLeader, LastPodOnly, SizeKnown
<1>8. CASE ClearRequest \/ Refuse \/ AskConsent
  <2>1. UNCHANGED <<replicas, pods, ready, stopping, data, doomed, triggers, doing>>
    BY <1>0, <1>8, OnlyRecords, Zenon
  <2> QED BY <2>1 DEF Complete, Deleting, Wipe
<1>9. CASE InitiateStandby
  BY <1>0, <1>9 DEF InitiateStandby, TakesOrder, TakesRequest, TakesConsent, Takes,
     Wipe, Complete, Deleting, ClusterTypes, BootstrapSafe, NoBlankLeader, LastPodOnly,
     SizeKnown
<1>10. CASE InitiatePrimary
  BY <1>0, <1>10 DEF InitiatePrimary, TakesRequest, Takes, Wipe, Complete, Deleting,
     ClusterTypes, BootstrapSafe, NoBlankLeader, LastPodOnly, SizeKnown
<1>11. CASE RequestRaises
  BY <1>0, <1>11 DEF RequestRaises, TakesOrder, TakesRequest, TakesConsent, Takes,
     Wipe, Complete, Deleting, ClusterTypes, BootstrapSafe, NoBlankLeader, LastPodOnly,
     SizeKnown
<1>12. CASE CallRaises
  BY <1>0, <1>12 DEF CallRaises, cluster, volumes, records, Wipe, Complete, Deleting,
     ClusterTypes, BootstrapSafe, NoBlankLeader, LastPodOnly, SizeKnown
<1>13. CASE SetEnv
  BY <1>0, <1>13 DEF SetEnv, Make, After, volumes, records, Wipe, Complete, Deleting,
     ClusterTypes, BootstrapSafe, NoBlankLeader, LastPodOnly, SizeKnown
<1>14. CASE UnsetEnv
  BY <1>0, <1>14 DEF UnsetEnv, Make, After, volumes, records, Wipe, Complete,
     Deleting, ClusterTypes, BootstrapSafe, NoBlankLeader, LastPodOnly, SizeKnown
<1>15. CASE Scale
  BY <1>0, <1>15 DEF Scale, Make, After, ScaledTo, volumes, records, Wipe, Complete,
     Deleting, ClusterTypes, BootstrapSafe, NoBlankLeader, LastPodOnly, SizeKnown
<1>16. CASE ScaleReached
  <2>0. /\ UNCHANGED <<replicas, pods, ready, stopping, data, doomed>>
        /\ ready \in 0..3 /\ pods \in 0..3
    BY <1>16, <1>0, ScaleReachedCases DEF cluster, volumes, ClusterTypes
  <2>1. CASE doing = "wait_down" /\ ready = 0 /\ doing' = "delete_pvc" /\ triggers' = triggers
    BY <2>0, <2>1 DEF Wipe, Complete, Deleting, LastPodOnly, SizeKnown
  <2>2. CASE doing = "wait_up" /\ ready = 1 /\ doing' = "save_partial" /\ triggers' = TRUE
    BY <2>0, <2>2 DEF Wipe, Complete, Deleting, LastPodOnly, SizeKnown
  <2>3. CASE doing = "wait_out" /\ ready = 3 /\ doing' = "deploy_standby" /\ triggers' = FALSE
    BY <2>0, <2>3 DEF Wipe, Complete, Deleting, LastPodOnly, SizeKnown
  <2> QED BY <1>16, <2>1, <2>2, <2>3, ScaleReachedCases
<1>17. CASE WaitGivesUp
  BY <1>0, <1>17 DEF WaitGivesUp, Waits, cluster, volumes, records, Wipe, Complete,
     Deleting, ClusterTypes, BootstrapSafe, NoBlankLeader, LastPodOnly, SizeKnown
<1>18. CASE DeletePvc
  BY <1>0, <1>18 DEF DeletePvc, Make, After, records, Wipe, Complete, Deleting,
     ClusterTypes, BootstrapSafe, NoBlankLeader, LastPodOnly, SizeKnown
<1>19. CASE DeleteConfigmap
  BY <1>0, <1>19 DEF DeleteConfigmap, Make, After, volumes, records, Wipe, Complete,
     Deleting, ClusterTypes, BootstrapSafe, NoBlankLeader, LastPodOnly, SizeKnown
<1>20. CASE DeletePvcs
  BY <1>0, <1>20 DEF DeletePvcs, Make, After, records, Wipe, Complete, Deleting,
     ClusterTypes, BootstrapSafe, NoBlankLeader, LastPodOnly, SizeKnown
<1>21. CASE SetPrimary
  BY <1>0, <1>21 DEF SetPrimary, Make, After, volumes, records, Wipe, Complete,
     Deleting, ClusterTypes, BootstrapSafe, NoBlankLeader, LastPodOnly, SizeKnown
<1>22. CASE Deploy
  BY <1>0, <1>22 DEF Deploy, Make, After, volumes, records, Wipe, Complete, Deleting,
     ClusterTypes, BootstrapSafe, NoBlankLeader, LastPodOnly, SizeKnown
<1>23. CASE SaveState
  BY <1>0, <1>23 DEF SaveState, Saved, Saves, cluster, volumes, Wipe, Complete,
     Deleting, ClusterTypes, BootstrapSafe, NoBlankLeader, LastPodOnly, SizeKnown
<1>24. ASSUME NEW t \in {"standby", "primary"}, Ask(t) PROVE VolumeKnown'
  BY <1>0, <1>24 DEF Ask, cluster, volumes, agent, Wipe, Complete, Deleting,
     ClusterTypes, BootstrapSafe, NoBlankLeader, LastPodOnly, SizeKnown
<1>25. CASE Override
  BY <1>0, <1>25 DEF Override, volumes, agent, Wipe, Complete, Deleting, ClusterTypes,
     BootstrapSafe, NoBlankLeader, LastPodOnly, SizeKnown
<1>26. CASE Restart
  BY <1>0, <1>26 DEF Restart, cluster, volumes, Wipe, Complete, Deleting,
     ClusterTypes, BootstrapSafe, NoBlankLeader, LastPodOnly, SizeKnown
<1>27. CASE UNCHANGED vars
  BY <1>0, <1>27 DEF vars, cluster, volumes, agent, records, Wipe, Complete, Deleting,
     ClusterTypes, BootstrapSafe, NoBlankLeader, LastPodOnly, SizeKnown
<1> QED BY <1>1, <1>2, <1>3, <1>4, <1>5, <1>6, <1>7, <1>8, <1>9, <1>10, <1>11, <1>12,
           <1>13, <1>14, <1>15, <1>16, <1>17, <1>18, <1>19, <1>20, <1>21, <1>22,
           <1>23, <1>24, <1>25, <1>26, <1>27 DEF Next, Pods, HearRequest, CallsNext

\* The other members' volumes are deleted, and the trigger that will delete them
\* waits, only when the first member is a copy of the peer, whatever fails.
THEOREM CopiedFirst == Spec => []OthersGoAfterCopy
<1> DEFINE Inv == BootstrapSafe /\ LastPodOnly /\ SizeKnown /\ VolumeKnown
<1>1. Init => Inv
  <2> SUFFICES ASSUME Init PROVE Inv
    OBVIOUS
  <2>1. /\ replicas = 3 /\ pods = 3 /\ ready = 3 /\ ~stopping /\ role # "none"
        /\ data = "old" /\ ~triggers /\ doing = "idle"
    BY DEF Init
  <2> QED BY <2>1 DEF BootstrapSafe, NoBlankLeader, LastPodOnly, SizeKnown, VolumeKnown,
                      OthersGoAfterCopy, Wipe, Complete, Deleting
<1>2. TypeOK /\ Inv /\ [Next]_vars => Inv'
  <2> SUFFICES ASSUME TypeOK, Inv, [Next]_vars PROVE Inv'
    OBVIOUS
  <2>1. ClusterTypes /\ RecordTypes
    BY DEF TypeOK
  <2> QED BY <2>1, BootstrapSafeKept, LastPodOnlyKept, SizeKnownKept, VolumeKnownKept
<1>3. Inv => OthersGoAfterCopy
  BY DEF VolumeKnown
<1> QED BY <1>1, <1>2, <1>3, TypeCorrect, PTL DEF Spec
-----------------------------------------------------------------------------
(* The trigger *)

\* A step never asks a partial standby to become one.
LEMMA RequestsKnownKept ==
  ASSUME TypeOK, RequestsKnown, [Next]_vars
  PROVE  RequestsKnown'
<1> USE DEF RequestsKnown
<1>0. RecordTypes
  BY DEF TypeOK
<1>1. CASE PodStarts
  BY <1>0, <1>1 DEF PodStarts, volumes, agent, records, RecordTypes, Snapshots
<1>2. CASE PodReady
  BY <1>0, <1>2 DEF PodReady, agent, records, RecordTypes, Snapshots
<1>3. CASE PodStops
  BY <1>0, <1>3 DEF PodStops, volumes, agent, records, RecordTypes, Snapshots
<1>4. CASE PodGone
  BY <1>0, <1>4 DEF PodGone, agent, records, RecordTypes, Snapshots
<1>5. CASE Poll
  BY <1>0, <1>5 DEF Poll, Report, Shown, cluster, volumes, records, RecordTypes,
     Snapshots
<1>6. CASE PollInElection
  BY <1>0, <1>6 DEF PollInElection, Report, cluster, volumes, records, RecordTypes,
     Snapshots
<1>7. CASE HearPatroni
  BY <1>0, <1>7 DEF HearPatroni, cluster, volumes, records, RecordTypes, Snapshots
<1>8. CASE ClearRequest \/ Refuse \/ AskConsent
  <2>1. cm'.transition = ""
    BY <1>0, <1>8, OnlyRecords
  <2>2. event' \in {event, None}
    BY <1>8 DEF ClearRequest, Refuse, AskConsent, TakesRequest, TakesConsent
  <2> QED BY <2>1, <2>2
<1>9. CASE InitiateStandby
  BY <1>0, <1>9 DEF InitiateStandby, TakesOrder, TakesRequest, TakesConsent, Takes,
     RecordTypes, Snapshots
<1>10. CASE InitiatePrimary
  BY <1>0, <1>10 DEF InitiatePrimary, TakesRequest, Takes, RecordTypes, Snapshots
<1>11. CASE RequestRaises
  BY <1>0, <1>11 DEF RequestRaises, TakesOrder, TakesRequest, TakesConsent, Takes,
     RecordTypes, Snapshots
<1>12. CASE CallRaises
  BY <1>0, <1>12 DEF CallRaises, cluster, volumes, records, RecordTypes, Snapshots
<1>13. CASE SetEnv
  BY <1>0, <1>13 DEF SetEnv, Make, After, volumes, records, RecordTypes, Snapshots
<1>14. CASE UnsetEnv
  BY <1>0, <1>14 DEF UnsetEnv, Make, After, volumes, records, RecordTypes, Snapshots
<1>15. CASE Scale
  BY <1>0, <1>15 DEF Scale, Make, After, ScaledTo, volumes, records, RecordTypes,
     Snapshots
<1>16. CASE ScaleReached
  BY <1>0, <1>16 DEF ScaleReached, After, Scaled, ScaledTo, Waits, cluster, volumes,
     records, RecordTypes, Snapshots
<1>17. CASE WaitGivesUp
  BY <1>0, <1>17 DEF WaitGivesUp, Waits, cluster, volumes, records, RecordTypes,
     Snapshots
<1>18. CASE DeletePvc
  BY <1>0, <1>18 DEF DeletePvc, Make, After, records, RecordTypes, Snapshots
<1>19. CASE DeleteConfigmap
  BY <1>0, <1>19 DEF DeleteConfigmap, Make, After, volumes, records, RecordTypes,
     Snapshots
<1>20. CASE DeletePvcs
  BY <1>0, <1>20 DEF DeletePvcs, Make, After, records, RecordTypes, Snapshots
<1>21. CASE SetPrimary
  BY <1>0, <1>21 DEF SetPrimary, Make, After, volumes, records, RecordTypes, Snapshots
<1>22. CASE Deploy
  BY <1>0, <1>22 DEF Deploy, Make, After, volumes, records, RecordTypes, Snapshots
<1>23. CASE SaveState
  BY <1>0, <1>23 DEF SaveState, Saved, Saves, cluster, volumes, RecordTypes, Snapshots
<1>24. ASSUME NEW t \in {"standby", "primary"}, Ask(t) PROVE RequestsKnown'
  <2>1. cm' = [cm EXCEPT !.transition = t] /\ event' = cm'
    BY <1>24 DEF Ask
  <2>2. cm'.last = cm.last /\ cm'.transition = t
    BY <1>0, <2>1 DEF RecordTypes, Snapshots
  <2>3. t = "standby" => cm.last # "partial"
    BY <1>24 DEF Ask, AtRest
  <2> QED BY <2>1, <2>2, <2>3
<1>25. CASE Override
  BY <1>0, <1>25 DEF Override, volumes, agent, RecordTypes, Snapshots
<1>26. CASE Restart
  BY <1>0, <1>26 DEF Restart, cluster, volumes, RecordTypes, Snapshots
<1>27. CASE UNCHANGED vars
  BY <1>0, <1>27 DEF vars, cluster, volumes, agent, records, RecordTypes, Snapshots
<1> QED BY <1>1, <1>2, <1>3, <1>4, <1>5, <1>6, <1>7, <1>8, <1>9, <1>10, <1>11, <1>12,
           <1>13, <1>14, <1>15, <1>16, <1>17, <1>18, <1>19, <1>20, <1>21, <1>22,
           <1>23, <1>24, <1>25, <1>26, <1>27 DEF Next, Pods, HearRequest, CallsNext

\* A step keeps the trigger while it is needed.
LEMMA TriggerKeptKept ==
  ASSUME TypeOK, SizeKnown, RequestsKnown, TriggerKept, [Next]_vars
  PROVE  TriggerKept'
<1> USE DEF TriggerKept
<1>0. ClusterTypes /\ AgentTypes /\ RecordTypes
  BY DEF TypeOK
<1>1. CASE PodStarts
  BY <1>0, <1>1 DEF PodStarts, volumes, agent, records, Wipe, Complete, Deleting,
     SizeKnown, RequestsKnown, AgentTypes
<1>2. CASE PodReady
  BY <1>0, <1>2 DEF PodReady, agent, records, Wipe, Complete, Deleting, SizeKnown,
     RequestsKnown, AgentTypes
<1>3. CASE PodStops
  BY <1>0, <1>3 DEF PodStops, volumes, agent, records, Wipe, Complete, Deleting,
     SizeKnown, RequestsKnown, AgentTypes
<1>4. CASE PodGone
  BY <1>0, <1>4 DEF PodGone, agent, records, Wipe, Complete, Deleting, SizeKnown,
     RequestsKnown, AgentTypes
<1>5. CASE Poll
  BY <1>0, <1>5 DEF Poll, Report, Shown, cluster, volumes, records, Wipe, Complete,
     Deleting, SizeKnown, RequestsKnown, AgentTypes
<1>6. CASE PollInElection
  BY <1>0, <1>6 DEF PollInElection, Report, cluster, volumes, records, Wipe, Complete,
     Deleting, SizeKnown, RequestsKnown, AgentTypes
<1>7. CASE HearPatroni
  BY <1>0, <1>7 DEF HearPatroni, cluster, volumes, records, Wipe, Complete, Deleting,
     SizeKnown, RequestsKnown, AgentTypes
<1>8. CASE ClearRequest \/ Refuse \/ AskConsent
  BY <1>0, <1>8, OnlyRecords DEF Wipe, Complete, Deleting,
     SizeKnown, RequestsKnown, AgentTypes
<1>9. CASE InitiateStandby
  BY <1>0, <1>9 DEF InitiateStandby, TakesOrder, TakesRequest, TakesConsent, Takes,
     Wipe, Complete, Deleting, SizeKnown, RequestsKnown, AgentTypes
<1>10. CASE InitiatePrimary
  BY <1>0, <1>10 DEF InitiatePrimary, TakesRequest, Takes, Wipe, Complete, Deleting,
     SizeKnown, RequestsKnown, AgentTypes
<1>11. CASE RequestRaises
  BY <1>0, <1>11 DEF RequestRaises, TakesOrder, TakesRequest, TakesConsent, Takes,
     Wipe, Complete, Deleting, SizeKnown, RequestsKnown, AgentTypes
<1>12. CASE CallRaises
  BY <1>0, <1>12 DEF CallRaises, cluster, volumes, records, Wipe, Complete, Deleting,
     SizeKnown, RequestsKnown, AgentTypes
<1>13. CASE SetEnv
  BY <1>0, <1>13 DEF SetEnv, Make, After, volumes, records, Wipe, Complete, Deleting,
     SizeKnown, RequestsKnown, AgentTypes
<1>14. CASE UnsetEnv
  BY <1>0, <1>14 DEF UnsetEnv, Make, After, volumes, records, Wipe, Complete,
     Deleting, SizeKnown, RequestsKnown, AgentTypes
<1>15. CASE Scale
  BY <1>0, <1>15 DEF Scale, Make, After, ScaledTo, volumes, records, Wipe, Complete,
     Deleting, SizeKnown, RequestsKnown, AgentTypes
<1>16. CASE ScaleReached
  <2>0. UNCHANGED <<replicas, cm, broken>> /\ triggers \in BOOLEAN
    BY <1>16, <1>0 DEF ScaleReached, cluster, records, AgentTypes
  <2>1. CASE doing = "wait_down" /\ doing' = "delete_pvc" /\ triggers' = triggers
    BY <2>0, <2>1 DEF Wipe
  <2>2. CASE doing = "wait_up" /\ doing' = "save_partial" /\ triggers' = TRUE
    BY <2>0, <2>2 DEF Wipe
  <2>3. CASE doing = "wait_out" /\ doing' = "deploy_standby" /\ triggers' = FALSE
    BY <2>0, <2>3 DEF Wipe, SizeKnown
  <2> QED BY <1>16, <2>1, <2>2, <2>3, ScaleReachedCases
<1>17. CASE WaitGivesUp
  BY <1>0, <1>17 DEF WaitGivesUp, Waits, cluster, volumes, records, Wipe, Complete,
     Deleting, SizeKnown, RequestsKnown, AgentTypes
<1>18. CASE DeletePvc
  BY <1>0, <1>18 DEF DeletePvc, Make, After, records, Wipe, Complete, Deleting,
     SizeKnown, RequestsKnown, AgentTypes
<1>19. CASE DeleteConfigmap
  BY <1>0, <1>19 DEF DeleteConfigmap, Make, After, volumes, records, Wipe, Complete,
     Deleting, SizeKnown, RequestsKnown, AgentTypes
<1>20. CASE DeletePvcs
  BY <1>0, <1>20 DEF DeletePvcs, Make, After, records, Wipe, Complete, Deleting,
     SizeKnown, RequestsKnown, AgentTypes
<1>21. CASE SetPrimary
  BY <1>0, <1>21 DEF SetPrimary, Make, After, volumes, records, Wipe, Complete,
     Deleting, SizeKnown, RequestsKnown, AgentTypes
<1>22. CASE Deploy
  BY <1>0, <1>22 DEF Deploy, Make, After, volumes, records, Wipe, Complete, Deleting,
     SizeKnown, RequestsKnown, AgentTypes
<1>23. CASE SaveState
  BY <1>0, <1>23 DEF SaveState, Saved, Saves, cluster, volumes, Wipe, Complete,
     Deleting, SizeKnown, RequestsKnown, AgentTypes
<1>24. ASSUME NEW t \in {"standby", "primary"}, Ask(t) PROVE TriggerKept'
  BY <1>0, <1>24 DEF Ask, cluster, volumes, agent, Wipe, Complete, Deleting,
     SizeKnown, RequestsKnown, AgentTypes
<1>25. CASE Override
  BY <1>0, <1>25 DEF Override, volumes, agent, Wipe, Complete, Deleting, SizeKnown,
     RequestsKnown, AgentTypes
<1>26. CASE Restart
  BY <1>0, <1>26 DEF Restart, cluster, volumes, Wipe, Complete, Deleting, SizeKnown,
     RequestsKnown, AgentTypes
<1>27. CASE UNCHANGED vars
  BY <1>0, <1>27 DEF vars, cluster, volumes, agent, records, Wipe, Complete, Deleting,
     SizeKnown, RequestsKnown, AgentTypes
<1> QED BY <1>1, <1>2, <1>3, <1>4, <1>5, <1>6, <1>7, <1>8, <1>9, <1>10, <1>11, <1>12,
           <1>13, <1>14, <1>15, <1>16, <1>17, <1>18, <1>19, <1>20, <1>21, <1>22,
           <1>23, <1>24, <1>25, <1>26, <1>27 DEF Next, Pods, HearRequest, CallsNext

\* A handler that has ended without raising leaves a whole cluster, or one member
\* and the trigger that completes it.
THEOREM TriggerIsKept == Spec => []PartialHasTrigger
<1> DEFINE Inv == SizeKnown /\ RequestsKnown /\ TriggerKept
<1>1. Init => Inv
  <2> SUFFICES ASSUME Init PROVE Inv
    OBVIOUS
  <2>1. replicas = 3 /\ ~triggers /\ doing = "idle" /\ event = None
    BY DEF Init
  <2>2. \/ cm = [last |-> "leading", transition |-> ""]
        \/ cm = [last |-> "following", transition |-> ""]
    BY Zenon DEF Init
  <2>3. cm.last # "partial" /\ cm.transition # "standby"
    <3>1. CASE cm = [last |-> "leading", transition |-> ""]
      BY <3>1
    <3>2. CASE cm = [last |-> "following", transition |-> ""]
      BY <3>2
    <3> QED BY <2>2, <3>1, <3>2
  <2>4. SizeKnown
    BY <2>1 DEF SizeKnown, Wipe, Complete, Deleting
  <2>5. RequestsKnown
    BY <2>1, <2>3, Zenon DEF RequestsKnown
  <2>6. TriggerKept
    BY <2>1, <2>3, Zenon DEF TriggerKept
  <2> QED BY <2>4, <2>5, <2>6
<1>2. TypeOK /\ Inv /\ [Next]_vars => Inv'
  <2> SUFFICES ASSUME TypeOK, Inv, [Next]_vars PROVE Inv'
    OBVIOUS
  <2> QED BY SizeKnownKept, RequestsKnownKept, TriggerKeptKept
<1>3. Inv => PartialHasTrigger
  BY DEF TriggerKept, PartialHasTrigger, Wipe
<1> QED BY <1>1, <1>2, <1>3, TypeCorrect, PTL DEF Spec
=============================================================================
