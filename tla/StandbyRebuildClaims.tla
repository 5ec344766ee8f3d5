------------------------ MODULE StandbyRebuildClaims ------------------------
(***************************************************************************)
(* What the documentation says of a rebuild and the code does not do.      *)
(***************************************************************************)
EXTENDS StandbyRebuild

\* README.md:32-40: the transition of the active site to gold-standby ends with
\* "Delete Patroni 1 and 2 PVC and ConfigMaps" and "Scale up Patroni 1 and 2": a
\* state recorded as reached there, with nothing asked for and no call to make,
\* has the whole cluster (initiate_standby.py 47-50, logic.py 339-360).
ClaimRebuildWhole == site = "active" /\ AtRest /\ cm.last = "following" => replicas = 3
=============================================================================
