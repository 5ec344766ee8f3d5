--------------------------- MODULE SwitchoverCycle ---------------------------
(***************************************************************************)
(* What the two agents promise together when operators ask the active site *)
(* for one transition at a time: the active site moves first, the passive  *)
(* one follows before the next move, and a database stops leading only     *)
(* where the other one leads.  Switchover implements it (the property      *)
(* FollowsCycle).                                                          *)
(***************************************************************************)
EXTENDS TransitionRules, TLAPS

VARIABLES
    lead,     \* the stage the active site has reached
    follow,   \* the stage the passive site has reached
    leaders   \* the sites whose database leads

cycle == <<lead, follow, leaders>>

Stages == {"active-passive", "golddr-primary", "gold-standby"}

\* The stages that may come after a stage.  Going back from gold-standby to
\* golddr-primary is always possible.
After(stage) == CASE stage = "active-passive" -> {"golddr-primary"}
                  [] stage = "golddr-primary" -> {"gold-standby"}
                  [] stage = "gold-standby"   -> {"active-passive", "golddr-primary"}

CycleTypeOK == /\ lead \in Stages /\ follow \in Stages
               /\ leaders \subseteq Sites

CycleInit == /\ lead = "active-passive" /\ follow = "active-passive"
             /\ leaders = {ActiveSite}

\* The active site leads again in active-passive and gives up leading in
\* gold-standby.
Move(stage) ==
    /\ lead = follow /\ stage \in After(lead)
    /\ lead' = stage
    /\ leaders' = CASE stage = "active-passive" -> leaders \cup {ActiveSite}
                    [] stage = "gold-standby"   -> leaders \ {ActiveSite}
                    [] stage = "golddr-primary" -> leaders
    /\ UNCHANGED follow

\* The passive site leads from golddr-primary until active-passive.
CatchUp ==
    /\ follow # lead
    /\ follow' = lead
    /\ leaders' = CASE lead = "golddr-primary" -> leaders \cup {PassiveSite}
                    [] lead = "active-passive" -> leaders \ {PassiveSite}
                    [] lead = "gold-standby"   -> leaders
    /\ UNCHANGED lead

CycleNext == CatchUp \/ \E stage \in Stages : Move(stage)

CycleSpec == CycleInit /\ [][CycleNext]_cycle

\* Which database is known to lead at each point of the cycle.
LeaderKnown ==
    /\ follow = "active-passive" => ActiveSite \in leaders
    /\ follow # "active-passive" => PassiveSite \in leaders
    /\ lead = "active-passive" => ActiveSite \in leaders
    /\ lead # follow => lead \in After(follow)

\* At any moment one of the two databases leads: a switchover promotes the new
\* leader before it demotes the old one (the order of initiate_active_primary,
\* the order to the peer and initiate_standby in src/src/logic.py 261-381).
SomeLeader == leaders # {}
-----------------------------------------------------------------------------
(* One of the databases always leads.  SomeLeader alone is not inductive:    *)
(* that the passive site leads when the active one gives up has to be known  *)
(* from the stage the passive site has reached (LeaderKnown).                *)

CycleInv == CycleTypeOK /\ LeaderKnown

\* Both sites' ends of the invariant hold when the sites are set up.
LEMMA CycleStart == CycleInit => CycleInv
  BY DEF CycleInit, CycleInv, CycleTypeOK, LeaderKnown, Stages, Sites

\* A move of the active site is made only when the passive one has caught up,
\* so the passive site leads when the active one stops.
LEMMA MoveKeeps ==
  ASSUME CycleInv, NEW stage \in Stages, Move(stage)
  PROVE  CycleInv'
<1>1. /\ lead = follow /\ stage \in After(lead) /\ lead' = stage /\ follow' = follow
      /\ lead \in Stages /\ leaders \subseteq Sites
  BY DEF Move, CycleInv, CycleTypeOK
<1>2. CASE stage = "active-passive"
  <2>1. lead = "gold-standby" /\ leaders' = leaders \cup {ActiveSite}
    BY <1>1, <1>2 DEF Move, After, Stages
  <2> QED BY <1>1, <1>2, <2>1
          DEF CycleInv, CycleTypeOK, LeaderKnown, After, Stages, Sites, ActiveSite, PassiveSite
<1>3. CASE stage = "golddr-primary"
  <2>1. lead \in {"active-passive", "gold-standby"} /\ leaders' = leaders
    BY <1>1, <1>3 DEF Move, After, Stages
  <2> QED BY <1>1, <1>3, <2>1
          DEF CycleInv, CycleTypeOK, LeaderKnown, After, Stages, Sites, ActiveSite, PassiveSite
<1>4. CASE stage = "gold-standby"
  <2>1. lead = "golddr-primary" /\ leaders' = leaders \ {ActiveSite}
    BY <1>1, <1>4 DEF Move, After, Stages
  <2> QED BY <1>1, <1>4, <2>1
          DEF CycleInv, CycleTypeOK, LeaderKnown, After, Stages, Sites, ActiveSite, PassiveSite
<1> QED BY <1>2, <1>3, <1>4 DEF Stages

\* The passive site gives up leading only where the active one leads already.
LEMMA CatchUpKeeps ==
  ASSUME CycleInv, CatchUp
  PROVE  CycleInv'
<1>1. /\ lead # follow /\ lead \in After(follow) /\ lead' = lead /\ follow' = lead
      /\ lead \in Stages /\ follow \in Stages /\ leaders \subseteq Sites
  BY DEF CatchUp, CycleInv, CycleTypeOK, LeaderKnown
<1>2. CASE lead = "active-passive"
  <2>1. leaders' = leaders \ {PassiveSite} /\ ActiveSite \in leaders
    BY <1>2 DEF CatchUp, CycleInv, LeaderKnown
  <2> QED BY <1>1, <1>2, <2>1
          DEF CycleInv, CycleTypeOK, LeaderKnown, Stages, Sites, ActiveSite, PassiveSite
<1>3. CASE lead = "golddr-primary"
  <2>1. leaders' = leaders \cup {PassiveSite}
    BY <1>3 DEF CatchUp
  <2> QED BY <1>1, <1>3, <2>1
          DEF CycleInv, CycleTypeOK, LeaderKnown, Stages, Sites, ActiveSite, PassiveSite
<1>4. CASE lead = "gold-standby"
  <2>1. leaders' = leaders /\ follow = "golddr-primary"
    BY <1>1, <1>4 DEF CatchUp, After, Stages
  <2> QED BY <1>1, <1>4, <2>1
          DEF CycleInv, CycleTypeOK, LeaderKnown, Stages, Sites, ActiveSite, PassiveSite
<1> QED BY <1>1, <1>2, <1>3, <1>4 DEF Stages

\* One of the two databases leads at any moment of a switchover.
THEOREM LeaderRemains == CycleSpec => []SomeLeader
<1>1. CycleInv /\ [CycleNext]_cycle => CycleInv'
  <2> SUFFICES ASSUME CycleInv, [CycleNext]_cycle PROVE CycleInv'
    OBVIOUS
  <2>1. ASSUME NEW stage \in Stages, Move(stage) PROVE CycleInv'
    BY <2>1, MoveKeeps
  <2>2. CASE CatchUp
    BY <2>2, CatchUpKeeps
  <2>3. CASE UNCHANGED cycle
    BY <2>3 DEF cycle, CycleInv, CycleTypeOK, LeaderKnown
  <2> QED BY <2>1, <2>2, <2>3 DEF CycleNext
<1>2. CycleInv => SomeLeader
  BY DEF CycleInv, LeaderKnown, SomeLeader
<1> QED BY CycleStart, <1>1, <1>2, PTL DEF CycleSpec
=============================================================================
