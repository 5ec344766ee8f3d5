------------------------- MODULE DeploymentOutcome -------------------------
(***************************************************************************)
(* What an agent promises of the deployment of one transition, without     *)
(* runs, events, names or the watch: it is tried, tried again after a      *)
(* pause while retries and time remain, and ends in success or in a        *)
(* declared failure.  PipelineRetry implements it.  The source is the      *)
(* lifecycle of Logic.retry_state and transition_failed                    *)
(* (src/src/logic.py 439-595).                                             *)
(***************************************************************************)
EXTENDS Integers

CONSTANTS MaxRetries, RetryInterval, TotalCap

VARIABLES now,     \* the wall clock
          status,  \* what the deployment is waiting for
          tries,   \* retries made
          began,   \* when the first attempt was triggered
          due      \* when the next attempt may be triggered

deployment == <<status, tries, began, due>>

\* idle      nothing is being deployed
\* inflight  an attempt runs
\* backoff   an attempt failed, the next is scheduled
\* stranded  triggering the next attempt raised: nothing is scheduled any more
\* failed    the transition was declared failed
Statuses == {"idle", "inflight", "backoff", "stranded", "failed"}

Never == -1

TypeOK == /\ now \in Nat /\ status \in Statuses /\ tries \in 0..MaxRetries
          /\ began \in Nat \cup {Never} /\ due \in Nat \cup {Never}

Init == /\ now = 0 /\ status = "idle" /\ tries = 0
        /\ began = Never /\ due = Never

CapElapsed == now - began >= TotalCap

\* A transition is begun, whatever became of the one before.
Begin == /\ status' = "inflight" /\ tries' = 0 /\ began' = now /\ due' = Never
         /\ UNCHANGED now

Fail == /\ status = "inflight"
        /\ tries < MaxRetries /\ ~CapElapsed
        /\ status' = "backoff" /\ due' = now + RetryInterval
        /\ UNCHANGED <<now, tries, began>>

Retry == /\ status = "backoff"
         /\ tries < MaxRetries /\ ~CapElapsed /\ now >= due
         /\ status' \in {"inflight", "stranded"}
         /\ tries' = tries + 1 /\ due' = Never
         /\ UNCHANGED <<now, began>>

GiveUp == /\ \/ status = "inflight" /\ (tries = MaxRetries \/ CapElapsed)
             \/ status = "backoff" /\ CapElapsed
          /\ status' = "failed" /\ tries' = 0 /\ began' = Never /\ due' = Never
          /\ UNCHANGED now

\* The attempt succeeded, a failed transition was recovered by another run, or
\* the process was restarted and knows of no deployment.
Settle == /\ status # "idle"
          /\ status' = "idle" /\ tries' = 0 /\ began' = Never /\ due' = Never
          /\ UNCHANGED now

Pass == now' = now + 1 /\ UNCHANGED deployment

Next == Begin \/ Fail \/ Retry \/ GiveUp \/ Settle \/ Pass

Spec == Init /\ [][Next]_<<now, deployment>>
=============================================================================
