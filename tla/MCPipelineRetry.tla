-------------------------- MODULE MCPipelineRetry --------------------------
(***************************************************************************)
(* PipelineRetry and its claims, for TLC.  The configurations scale the    *)
(* seconds down: a retry is due one unit after a failure, an attempt may   *)
(* run two, no attempt starts four units after the first.  The order of    *)
(* the code's defaults (30 s, 360 s, 900 s) is kept, and what they allow:  *)
(* an attempt can time out and be retried within the cap, and a retry can  *)
(* fall due after it.                                                      *)
(***************************************************************************)
EXTENDS PipelineRetryClaims
=============================================================================
