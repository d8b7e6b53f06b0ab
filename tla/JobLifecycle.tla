---------------------------- MODULE JobLifecycle ----------------------------
(***************************************************************************)
(* What the job queue promises of each job, whoever executes it and        *)
(* however the server is restarted: a job is executed by one attempt at a  *)
(* time, an attempt is counted when it begins, a failed attempt is retried *)
(* while the limit allows it and gives up otherwise, a restart gives an    *)
(* interrupted attempt back to the queue, and a job that has completed or  *)
(* failed is left alone for good.                                          *)
(***************************************************************************)
EXTENDS JobQueue

Submit(j) == EnqueueRow(j)

Begin(j) == ClaimRow(j)

Move(j, from, to) ==
  /\ status[j] = from
  /\ status' = [status EXCEPT ![j] = to]
  /\ UNCHANGED attempts

Succeed(j) == Move(j, "running", "completed")

Retry(j) ==
  /\ attempts[j] < AttemptLimit(j)
  /\ Move(j, "running", "queued")

GiveUp(j) ==
  /\ attempts[j] >= AttemptLimit(j)
  /\ Move(j, "running", "failed")

\* A restart finds every attempt in progress interrupted.
Interrupt == RequeueRows({j \in Jobs : status[j] = "running"})

LifecycleNext ==
  \/ \E j \in Jobs : Submit(j) \/ Begin(j) \/ Succeed(j) \/ Retry(j) \/ GiveUp(j)
  \/ Interrupt

LifecycleSpec == QueueInit /\ [][LifecycleNext]_queueVars
=============================================================================
