------------------------------ MODULE JobWorker ------------------------------
(***************************************************************************)
(* The in-process worker pools of jobs/worker.py over the jobs table, with *)
(* the server process that hosts them: started, stopped, killed, restarted.*)
(*                                                                         *)
(* A worker is one slot of one pool.  Its thread runs _drain_once: SELECT  *)
(* the oldest queued row of the pool, claim it with a conditional UPDATE,  *)
(* run the handler, read the row again, write the outcome.  Stopping the   *)
(* server cancels the asyncio tasks but not their threads: each runs its   *)
(* _drain_once to the end, and the process exits after the last one.  A    *)
(* write that meets a lock for longer than the busy timeout raises; the    *)
(* pool loop logs it and goes on, and if the write was the outcome of a    *)
(* job its row stays "running" with nobody to finish it.                   *)
(***************************************************************************)
EXTENDS JobQueue

CONSTANTS
  Workers,      \* the slots of all pools (POOL_CONCURRENCY)
  ServesPool,   \* the pool of a slot
  NoJob,        \* the job of a thread that has none
  MaxStarts     \* bound: how often the server process is started

ASSUME WorkerAssumption ==
  /\ ServesPool \in [Workers -> Pools]
  /\ NoJob \notin Jobs
  /\ MaxStarts \in Nat

VARIABLES
  server,       \* the process: "down", "recovering", "up" or "stopping"
  starts,       \* how often it has been started
  stale,        \* the running rows the recovery has read
  pc,           \* where each worker's thread is in _drain_once
  job,          \* the job it selected, then claimed
  seen,         \* the row as the session that writes the outcome read it
  orphans       \* jobs whose outcome could not be written since the start

threadVars == <<pc, job, seen>>
serverVars == <<server, starts, stale>>
vars == <<queueVars, serverVars, threadVars, orphans>>

Rows == [status : Statuses, attempts : Nat]
NoRow == [status |-> "absent", attempts |-> 0]
RowOf(j) == [status |-> status[j], attempts |-> attempts[j]]

\* "settle" and "fail" have run the handler and not read the row yet; the two
\* "write" points have.
Holding == {"run", "settle", "fail", "writeSettled", "writeFailed"}
Points == Holding \cup {"idle", "claim"}

Holds(w, j) == pc[w] \in Holding /\ job[w] = j
Alive == server \in {"up", "stopping"}

TypeOK ==
  /\ QueueTypeOK
  /\ server \in {"down", "recovering", "up", "stopping"}
  /\ starts \in 0 .. MaxStarts
  /\ stale \subseteq Jobs
  /\ pc \in [Workers -> Points]
  /\ job \in [Workers -> Jobs \cup {NoJob}]
  /\ seen \in [Workers -> Rows]
  /\ orphans \subseteq Jobs

Init ==
  /\ QueueInit
  /\ server = "down"
  /\ starts = 0
  /\ stale = {}
  /\ pc = [w \in Workers |-> "idle"]
  /\ job = [w \in Workers |-> NoJob]
  /\ seen = [w \in Workers |-> NoRow]
  /\ orphans = {}

-----------------------------------------------------------------------------
(* Any process that scans a library enqueues jobs, whatever the server does. *)

Enqueue(j) ==
  /\ EnqueueRow(j)
  /\ UNCHANGED <<serverVars, threadVars, orphans>>

-----------------------------------------------------------------------------
(* A worker's thread.                                                      *)

\* The thread returns to the pool loop with nothing in hand.
Drop(w) ==
  /\ pc' = [pc EXCEPT ![w] = "idle"]
  /\ job' = [job EXCEPT ![w] = NoJob]
  /\ seen' = [seen EXCEPT ![w] = NoRow]

Goto(w, from, to) ==
  /\ pc[w] = from
  /\ pc' = [pc EXCEPT ![w] = to]

SelectCandidate(w, j) ==
  /\ server = "up"
  /\ IsOldestQueued(ServesPool[w], j)
  /\ Goto(w, "idle", "claim")
  /\ job' = [job EXCEPT ![w] = j]
  /\ UNCHANGED <<queueVars, serverVars, seen, orphans>>

\* Mutant of Claim: the attempt is not counted.
ClaimUncounted(w) ==
  /\ Goto(w, "claim", "run")
  /\ status[job[w]] = "queued"
  /\ SaveStatus(job[w], "queued", "running")
  /\ UNCHANGED <<serverVars, job, seen, orphans>>

Claim(w) ==
  /\ Goto(w, "claim", "run")
  /\ ClaimRow(job[w])
  /\ UNCHANGED <<serverVars, job, seen, orphans>>

\* rowcount = 0: another worker changed the row since the SELECT.
LoseClaim(w) ==
  /\ pc[w] = "claim"
  /\ status[job[w]] # "queued"
  /\ Drop(w)
  /\ UNCHANGED <<queueVars, serverVars, orphans>>

\* The claiming UPDATE meets a lock for too long.
ClaimError(w) ==
  /\ pc[w] = "claim"
  /\ Drop(w)
  /\ UNCHANGED <<queueVars, serverVars, orphans>>

HandlerReturns(w) ==
  /\ Goto(w, "run", "settle")
  /\ UNCHANGED <<queueVars, serverVars, job, seen, orphans>>

\* The handler, the payload's decoding or the lookup of the handler fails.
HandlerRaises(w) ==
  /\ Goto(w, "run", "fail")
  /\ UNCHANGED <<queueVars, serverVars, job, seen, orphans>>

\* The session that will write the outcome reads the row.
ReadRow(w) ==
  /\ \/ Goto(w, "settle", "writeSettled")
     \/ Goto(w, "fail", "writeFailed")
  /\ seen' = [seen EXCEPT ![w] = RowOf(job[w])]
  /\ UNCHANGED <<queueVars, serverVars, job, orphans>>

Complete(w) ==
  /\ pc[w] = "writeSettled"
  /\ SaveStatus(job[w], seen[w].status, "completed")
  /\ Drop(w)
  /\ UNCHANGED <<serverVars, orphans>>

Fail(w) ==
  /\ pc[w] = "writeFailed"
  /\ SaveStatus(job[w], seen[w].status,
                StatusAfterFailure(job[w], seen[w].attempts))
  /\ Drop(w)
  /\ UNCHANGED <<serverVars, orphans>>

\* The outcome meets a lock for too long and is never written.
LoseOutcome(w) ==
  /\ pc[w] \in {"writeSettled", "writeFailed"}
  /\ orphans' = orphans \cup {job[w]}
  /\ Drop(w)
  /\ UNCHANGED <<queueVars, serverVars>>

ThreadStep(w) ==
  \/ \E j \in Jobs : SelectCandidate(w, j)
  \/ Claim(w) \/ LoseClaim(w) \/ ClaimError(w)
  \/ HandlerReturns(w) \/ HandlerRaises(w)
  \/ ReadRow(w) \/ Complete(w) \/ Fail(w) \/ LoseOutcome(w)

-----------------------------------------------------------------------------
(* The server process.                                                     *)

\* Mutant of Start: the recovery reads the failed rows too.
StartReadsFailed ==
  /\ server = "down"
  /\ starts < MaxStarts
  /\ server' = "recovering"
  /\ starts' = starts + 1
  /\ stale' = {j \in Jobs : status[j] \in {"running", "failed"}}
  /\ UNCHANGED <<queueVars, threadVars, orphans>>

\* start(): the recovery reads the running rows,
Start ==
  /\ server = "down"
  /\ starts < MaxStarts
  /\ server' = "recovering"
  /\ starts' = starts + 1
  /\ stale' = {j \in Jobs : status[j] = "running"}
  /\ UNCHANGED <<queueVars, threadVars, orphans>>

\* Mutant of Recover: the pools begin, nothing was given back.
RecoverNothing ==
  /\ server = "recovering"
  /\ server' = "up"
  /\ stale' = {}
  /\ orphans' = {}
  /\ UNCHANGED <<queueVars, starts, threadVars>>

\* gives them back to the queue, and the pools begin.
Recover ==
  /\ server = "recovering"
  /\ RequeueRows(stale)
  /\ server' = "up"
  /\ stale' = {}
  /\ orphans' = {}
  /\ UNCHANGED <<starts, threadVars>>

\* stop(): no thread begins another _drain_once.
Stop ==
  /\ server = "up"
  /\ starts < MaxStarts
  /\ server' = "stopping"
  /\ UNCHANGED <<queueVars, starts, stale, threadVars, orphans>>

Exit ==
  /\ server = "stopping"
  /\ \A w \in Workers : pc[w] = "idle"
  /\ server' = "down"
  /\ UNCHANGED <<queueVars, starts, stale, threadVars, orphans>>

\* The process is killed, or fails to start.  The bound keeps one start for
\* afterwards: the environment restarts what it kills.
Crash ==
  /\ server # "down"
  /\ starts < MaxStarts
  /\ server' = "down"
  /\ stale' = {}
  /\ pc' = [w \in Workers |-> "idle"]
  /\ job' = [w \in Workers |-> NoJob]
  /\ seen' = [w \in Workers |-> NoRow]
  /\ UNCHANGED <<queueVars, starts, orphans>>

ServerStep == Start \/ Recover \/ Stop \/ Exit \/ Crash

Next ==
  \/ \E j \in Jobs : Enqueue(j)
  \/ \E w \in Workers : ThreadStep(w)
  \/ ServerStep

Spec == Init /\ [][Next]_vars

(***************************************************************************)
(* Threads keep running and a started server finishes its recovery or is   *)
(* killed.  A handler ends: what it waits for is bounded (HTTP timeouts,   *)
(* finite walks).  A claim that is possible again and again succeeds in    *)
(* the end: nobody holds the database's lock for ever.                     *)
(***************************************************************************)
Fairness ==
  /\ WF_vars(Start)
  /\ WF_vars(Recover)
  /\ WF_vars(Exit)
  /\ \A w \in Workers :
       /\ WF_vars(\E j \in Jobs : SelectCandidate(w, j))
       /\ SF_vars(Claim(w))
       /\ WF_vars(LoseClaim(w))
       /\ WF_vars(HandlerReturns(w) \/ HandlerRaises(w))
       /\ WF_vars(ReadRow(w))
       /\ WF_vars(Complete(w) \/ Fail(w) \/ LoseOutcome(w))

FairSpec == Spec /\ Fairness

-----------------------------------------------------------------------------
(* Properties.                                                             *)

\* No two threads ever execute the same job, across any number of crashes
\* and restarts: what the conditional UPDATE of claim_job is for.
ExclusiveExecution ==
  \A v, w \in Workers : \A j \in Jobs : Holds(v, j) /\ Holds(w, j) => v = w

\* A row says "running" exactly while a thread of the live server has the
\* job in hand or its outcome was lost: recovery leaves no row behind that a
\* crash left running, and takes none away from a thread.
RunningMeansOwned ==
  Alive => \A j \in Jobs :
             status[j] = "running" <=> (\E w \in Workers : Holds(w, j))
                                       \/ j \in orphans

\* fail_job and claim_job together stay within max_attempts, and each
\* restart can add at most one attempt: recovery requeues without looking at
\* the count.
AttemptsBounded ==
  \A j \in Jobs : attempts[j] <= AttemptLimit(j) + (IF starts = 0 THEN 0 ELSE starts - 1)

\* A job that has completed or failed is never touched again.
SettledIsFinal ==
  [][\A j \in Jobs : status[j] \in Terminal =>
       status'[j] = status[j] /\ attempts'[j] = attempts[j]]_vars

Lifecycle == INSTANCE JobLifecycle

\* The worker pools implement the lifecycle promised of each job.
ImplementsLifecycle == Lifecycle!LifecycleSpec

\* Every queued job is settled in the end, unless its outcome could not be
\* written and the server was not restarted since.
EveryJobSettles ==
  \A j \in Jobs :
    status[j] = "queued" ~> (status[j] \in Terminal \/ j \in orphans)
=============================================================================
