----------------------- MODULE PipelineRetryClaims -----------------------
(***************************************************************************)
(* What the repository's specification says of an agent's deployments and  *)
(* the code does not do, checked by a run that README.md explains.         *)
(***************************************************************************)
EXTENDS PipelineRetry

\* openspec/specs/pipeline-retry/spec.md:54: the transition is declared failed
\* when the cap elapses with no successful and no in-flight attempt.  A retry
\* whose trigger raised has been unscheduled by then (logic.py 551-554), and no
\* tick looks at it again.
NothingRunsPastCap ==
    /\ retry_state # None /\ CapElapsed(retry_state)
    /\ \A i \in AttemptsOf(transitions_begun) : runs[i].reason = "Failed"
DeclaredOnceCapElapses == NothingRunsPastCap ~> retry_state = None
=============================================================================
