----------------------------- MODULE BackupQueue -----------------------------
(****************************************************************************)
(* What the backup agent promises to whoever asks it for work: one job at a  *)
(* time.  A request is accepted only when no job is active, or when the one  *)
(* that still claims to be is known to have lost its worker; an accepted job  *)
(* ends in exactly one result.  BackupJobs shows that the agent keeps the     *)
(* promise; UpdateJobs is written against it.                                 *)
(****************************************************************************)
EXTENDS FiniteSets

CONSTANTS Jobs          \* job ids the agent may hand out (a bound)

VARIABLES queue,        \* what a caller sees of each job
          lost          \* active jobs whose worker is gone, unnoticed so far

queueVars == <<queue, lost>>

Results == {"succeeded", "failed"}

Busy == {j \in Jobs : queue[j] = "active"}

QueueTypeOK ==
  /\ queue \in [Jobs -> {"none", "active"} \union Results]
  /\ lost \subseteq Jobs

QueueInit ==
  /\ queue = [j \in Jobs |-> "none"]
  /\ lost = {}

------------------------------------------------------------------------------

\* A request is accepted: whatever was lost is settled as failed by the same call.
Accept(j) ==
  /\ queue[j] = "none"
  /\ Busy \subseteq lost
  /\ queue' = [k \in Jobs |-> IF k = j THEN "active"
                              ELSE IF k \in Busy THEN "failed" ELSE queue[k]]
  /\ lost' = {}

\* The worker reports its result.
Settle(j, result) ==
  /\ j \in Busy \ lost
  /\ queue' = [queue EXCEPT ![j] = result]
  /\ UNCHANGED lost

\* The worker is killed: a power loss, or its service being restarted.
Lose(j) ==
  /\ j \in Busy \ lost
  /\ lost' = lost \union {j}
  /\ UNCHANGED queue

\* A poll notices that an active job has no worker.
GiveUp(j) ==
  /\ j \in Busy \intersect lost
  /\ queue' = [queue EXCEPT ![j] = "failed"]
  /\ lost' = lost \ {j}

QueueNext ==
  \E j \in Jobs : \/ Accept(j)
                  \/ Lose(j)
                  \/ GiveUp(j)
                  \/ \E result \in Results : Settle(j, result)

QueueSpec == QueueInit /\ [][QueueNext]_queueVars
=============================================================================
