---------------------------- MODULE MCSwitchover ----------------------------
(***************************************************************************)
(* The transitions operators request, for the runs of Switchover.          *)
(***************************************************************************)
EXTENDS Switchover

\* The switchover and back, asked for at the active site.
CycleAsks == {ActiveSite} \X {"active-passive", "golddr-primary", "gold-standby"}

\* With the transitions that detach the passive site.
DetachAsks == CycleAsks \cup
    {<<ActiveSite, "golddr-maintenance">>, <<PassiveSite, "golddr-maintenance">>,
     <<PassiveSite, "golddr-primary">>}

\* With the forced return to the active site.
ForceAsks == DetachAsks \cup {<<ActiveSite, "active-passive-force">>}
=============================================================================
