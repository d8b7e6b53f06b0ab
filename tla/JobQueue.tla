------------------------------ MODULE JobQueue ------------------------------
(***************************************************************************)
(* The jobs table of buku and the row operations of jobs/queue.py.         *)
(*                                                                         *)
(* A job is named by its rank in the order the queue is served in, the     *)
(* order of (created_at, id).  Transactions may commit in any order, so a  *)
(* job of a lower rank may well appear after one of a higher rank.         *)
(*                                                                         *)
(* SQLite serializes writes, and the driver opens a transaction at the     *)
(* first write, so a SELECT and the UPDATE that follows it are two steps   *)
(* and an UPDATE with its COMMIT is one.  The operators below are those    *)
(* steps; JobWorker and EnrichDrain give them to the actors that take      *)
(* them.                                                                   *)
(***************************************************************************)
EXTENDS Integers

CONSTANTS
  Jobs,         \* every job the model may see, by rank
  Pools,        \* the worker pools (POOL_JOB_TYPES)
  PoolOf,       \* the pool that serves a job's type
  MaxAttempts   \* jobs.max_attempts of each job

ASSUME QueueAssumption ==
  /\ Jobs \subseteq Nat
  /\ PoolOf \in [Jobs -> Pools]
  /\ MaxAttempts \in [Jobs -> Nat]

VARIABLES
  status,       \* jobs.status, or "absent" before the row exists
  attempts      \* jobs.attempts

queueVars == <<status, attempts>>

Statuses == {"absent", "queued", "running", "completed", "failed"}
Terminal == {"completed", "failed"}

QueueTypeOK ==
  /\ status \in [Jobs -> Statuses]
  /\ attempts \in [Jobs -> Nat]

QueueInit ==
  /\ status = [j \in Jobs |-> "absent"]
  /\ attempts = [j \in Jobs |-> 0]

\* A zero max_attempts is falsy and reads as three.
AttemptLimit(j) == IF MaxAttempts[j] = 0 THEN 3 ELSE MaxAttempts[j]

QueuedIn(p) == {j \in Jobs : status[j] = "queued" /\ PoolOf[j] = p}

\* The row the claiming SELECT returns.
IsOldestQueued(p, j) ==
  /\ j \in QueuedIn(p)
  /\ \A k \in QueuedIn(p) : j <= k

EnqueueRow(j) ==
  /\ status[j] = "absent"
  /\ status' = [status EXCEPT ![j] = "queued"]
  /\ attempts' = [attempts EXCEPT ![j] = 0]

\* Mutant of ClaimRow: without the condition on the status.
ClaimUnconditional(j) ==
  /\ status' = [status EXCEPT ![j] = "running"]
  /\ attempts' = [attempts EXCEPT ![j] = @ + 1]

\* UPDATE ... WHERE id = j AND status = 'queued', one row matched.
ClaimRow(j) ==
  /\ status[j] = "queued"
  /\ status' = [status EXCEPT ![j] = "running"]
  /\ attempts' = [attempts EXCEPT ![j] = @ + 1]

\* Mutants of StatusAfterFailure: one attempt too many, a status no query
\* knows.
StatusOffByOne(j, n) == IF n > AttemptLimit(j) THEN "failed" ELSE "queued"

StatusUnknown(j, n) == IF n >= AttemptLimit(j) THEN "error" ELSE "queued"

\* The status fail_job decides on for a job it read with n attempts.
StatusAfterFailure(j, n) ==
  IF n >= AttemptLimit(j) THEN "failed" ELSE "queued"

\* A session that read a row as "before" writes its status column only when
\* the new value differs from the one it read.
SaveStatus(j, before, new) ==
  /\ status' = IF new = before THEN status
               ELSE [status EXCEPT ![j] = new]
  /\ UNCHANGED attempts

\* recover_stale_running_jobs, for the rows its SELECT returned.
RequeueRows(S) ==
  /\ status' = [j \in Jobs |-> IF j \in S THEN "queued" ELSE status[j]]
  /\ UNCHANGED attempts
=============================================================================
