------------------------------ MODULE JobProofs ------------------------------
(***************************************************************************)
(* Proofs about the worker pools, for any jobs, pools, slots, attempt      *)
(* limits and number of restarts, by themselves and beside `buku enrich`,  *)
(* for any batch size and number of drains.                                *)
(*                                                                         *)
(* A drain may overwrite any row of a metadata_lookup job, so the          *)
(* invariant of the pools alone is lost for these.  What is left of it     *)
(* comes in two parts: the whole of it for the jobs of other types, and    *)
(* for all jobs that a row which says "running" will be written by someone.*)
(***************************************************************************)
EXTENDS EnrichDrain, TLAPS

-----------------------------------------------------------------------------
(* The inductive invariant of the pools alone.                             *)

Writing == {"writeSettled", "writeFailed"}

\* A thread past its SELECT names a real job.
Selected == \A w \in Workers : pc[w] # "idle" => job[w] \in Jobs

Typed == TypeOK /\ Selected

\* Once a thread has claimed a job, the row says "running", and nobody
\* changes it before the thread does.
HeldRows ==
  \A w \in Workers :
    /\ pc[w] \in Holding => status[job[w]] = "running"
    /\ pc[w] \in Writing => seen[w] = RowOf(job[w])

\* Threads live and die with their process.
ThreadsNeedServer == ~Alive => \A w \in Workers : pc[w] = "idle"

\* What the recovery has read is still true when it writes.
StaleRows == server = "recovering" => stale = {j \in Jobs : status[j] = "running"}

\* An orphan's row stays "running" and nobody holds it.
OrphanRows ==
  \A j \in orphans : /\ status[j] = "running"
                     /\ \A w \in Workers : ~Holds(w, j)

\* Nothing runs before the first start.
FirstStart ==
  starts = 0 => /\ server = "down"
                /\ \A j \in Jobs : status[j] \in {"absent", "queued"}

Restarts == IF starts = 0 THEN 0 ELSE starts - 1

\* What is left of the attempts: a job that may be claimed has one to spend,
\* and so has every job while the recovery that may requeue it is under way.
AttemptBudget ==
  \A j \in Jobs :
    /\ attempts[j] <= AttemptLimit(j) + Restarts
    /\ status[j] \in {"absent", "queued"} \/ server = "recovering"
         => attempts[j] < AttemptLimit(j) + Restarts

IInv ==
  /\ Typed
  /\ HeldRows
  /\ ThreadsNeedServer
  /\ StaleRows
  /\ ExclusiveExecution
  /\ OrphanRows
  /\ RunningMeansOwned
  /\ FirstStart
  /\ AttemptBudget

-----------------------------------------------------------------------------
(* Type correctness.                                                       *)

\* A job is allowed at least one attempt: a zero max_attempts reads as three.
LEMMA LimitPositive == \A j \in Jobs : AttemptLimit(j) \in Nat \ {0}
  BY QueueAssumption DEF AttemptLimit

\* The tables and the threads start with values of their types.
LEMMA TypedInit == Init => Typed
  BY QueueAssumption, WorkerAssumption
     DEF Init, Typed, TypeOK, Selected, QueueInit, QueueTypeOK, Statuses, Points, Rows, NoRow

\* No step of a worker's thread takes a variable out of its type.
LEMMA TypedThread ==
  ASSUME Typed, NEW w \in Workers, ThreadStep(w)
  PROVE  Typed'
<1> USE WorkerAssumption DEF Typed, TypeOK, Selected, QueueTypeOK, Statuses, Points, Holding
<1> DEFINE j == job[w]
<1>1. ASSUME NEW k \in Jobs, SelectCandidate(w, k) PROVE Typed'
  BY <1>1 DEF SelectCandidate, Goto, serverVars, queueVars
<1>2. CASE Claim(w)
  <2>1. j \in Jobs /\ attempts[j] \in Nat
    BY <1>2 DEF Claim, Goto
  <2>2. QueueTypeOK'
    BY <1>2, <2>1 DEF Claim, ClaimRow
  <2> QED
    BY <1>2, <2>1, <2>2 DEF Claim, Goto, serverVars
<1>3. CASE LoseClaim(w) \/ ClaimError(w)
  <2>1. Drop(w) /\ UNCHANGED <<queueVars, serverVars, orphans>>
    BY <1>3 DEF LoseClaim, ClaimError
  <2>2. NoRow \in Rows
    BY DEF Rows, NoRow
  <2> QED
    BY <2>1, <2>2 DEF Drop, serverVars, queueVars
<1>4. CASE HandlerReturns(w) \/ HandlerRaises(w)
  BY <1>4 DEF HandlerReturns, HandlerRaises, Goto, serverVars, queueVars
<1>5. CASE ReadRow(w)
  <2>1. j \in Jobs
    BY <1>5 DEF ReadRow, Goto
  <2>2. RowOf(j) \in Rows
    BY <2>1 DEF RowOf, Rows
  <2> QED
    BY <1>5, <2>1, <2>2 DEF ReadRow, Goto, serverVars, queueVars
<1>6. CASE Complete(w) \/ Fail(w) \/ LoseOutcome(w)
  <2>1. j \in Jobs
    BY <1>6 DEF Complete, Fail, LoseOutcome
  <2>2. QueueTypeOK' /\ orphans' \subseteq Jobs
    BY <1>6, <2>1 DEF Complete, Fail, LoseOutcome, SaveStatus, StatusAfterFailure, queueVars
  <2>3. (server \in {"down", "recovering", "up", "stopping"} /\ starts \in 0 .. MaxStarts
         /\ stale \subseteq Jobs)'
    BY <1>6 DEF Complete, Fail, LoseOutcome, serverVars
  <2>4. Drop(w)
    BY <1>6 DEF Complete, Fail, LoseOutcome
  <2> QED
    BY <2>2, <2>3, <2>4 DEF Drop, Rows, NoRow
<1> QED
  BY <1>1, <1>2, <1>3, <1>4, <1>5, <1>6 DEF ThreadStep

\* Nor does an enqueue, or a step of the server process.
LEMMA TypedOther ==
  ASSUME Typed, (\E j \in Jobs : Enqueue(j)) \/ ServerStep \/ UNCHANGED vars
  PROVE  Typed'
<1> USE WorkerAssumption DEF Typed, TypeOK, Selected, QueueTypeOK, Statuses, Points, Holding,
                             serverVars, threadVars, queueVars
<1>1. ASSUME NEW j \in Jobs, Enqueue(j) PROVE Typed'
  BY <1>1 DEF Enqueue, EnqueueRow
<1>2. CASE Start
  BY <1>2 DEF Start
<1>3. CASE Recover
  BY <1>3 DEF Recover, RequeueRows
<1>4. CASE Stop \/ Exit
  BY <1>4 DEF Stop, Exit
<1>5. CASE Crash
  BY <1>5 DEF Crash, Rows, NoRow
<1>6. CASE UNCHANGED vars
  BY <1>6 DEF vars
<1> QED
  BY <1>1, <1>2, <1>3, <1>4, <1>5, <1>6 DEF ServerStep

-----------------------------------------------------------------------------
(* Preservation of the invariant.  Every thread's row is its own: what one  *)
(* thread writes is not what another thread, or an orphan, depends on.      *)

\* A write of j's row by the thread that has it in hand, which then drops it.
LEMMA OutcomeStep ==
  ASSUME IInv, NEW w \in Workers, Complete(w) \/ Fail(w), Typed'
  PROVE  IInv'
<1> DEFINE j == job[w]
<1>1. /\ j \in Jobs /\ status[j] = "running" /\ Holds(w, j) /\ Alive
      /\ seen[w] = RowOf(j)
  BY DEF IInv, Typed, Selected, HeldRows, Holding, Writing, Holds, ThreadsNeedServer, Complete, Fail
<1>2. /\ seen[w].status = "running" /\ seen[w].attempts = attempts[j]
  BY <1>1 DEF RowOf
<1>3. /\ Drop(w) /\ UNCHANGED <<attempts, serverVars, orphans>>
      /\ \E to \in {"completed", "failed", "queued"} :
           /\ status' = [status EXCEPT ![j] = to]
           /\ to = "queued" => attempts[j] < AttemptLimit(j)
  <2>1. attempts[j] \in Nat /\ AttemptLimit(j) \in Nat
    BY <1>1, LimitPositive DEF IInv, Typed, TypeOK, QueueTypeOK
  <2>2. CASE Complete(w)
    BY <1>2, <2>2 DEF Complete, SaveStatus
  <2>3. CASE Fail(w)
    <3>1. StatusAfterFailure(j, attempts[j]) \in {"failed", "queued"}
          /\ (StatusAfterFailure(j, attempts[j]) = "queued" => attempts[j] < AttemptLimit(j))
      BY <2>1 DEF StatusAfterFailure
    <3> QED
      BY <1>2, <2>3, <3>1 DEF Fail, SaveStatus
  <2> QED
    BY <2>2, <2>3
<1>4. PICK to \in {"completed", "failed", "queued"} :
           /\ status' = [status EXCEPT ![j] = to]
           /\ to = "queued" => attempts[j] < AttemptLimit(j)
  BY <1>3
<1> USE DEF IInv, Typed, TypeOK, QueueTypeOK
<1>5. \A v \in Workers : v # w => pc'[v] = pc[v] /\ job'[v] = job[v] /\ seen'[v] = seen[v]
  BY <1>3 DEF Drop
<1>6. pc'[w] = "idle"
  BY <1>3 DEF Drop
<1>7. \A v \in Workers, k \in Jobs : Holds(v, k)' <=> Holds(v, k) /\ v # w
  BY <1>5, <1>6 DEF Holds, Holding
<1>8. \A v \in Workers : v # w /\ pc[v] \in Holding => job[v] # j /\ job[v] \in Jobs
  BY <1>1 DEF ExclusiveExecution, Holds, Selected, Holding
<1>9. HeldRows'
  <2> SUFFICES ASSUME NEW v \in Workers, pc'[v] \in Holding
               PROVE  /\ status'[job'[v]] = "running"
                      /\ pc'[v] \in Writing => seen'[v] = RowOf(job[v])'
    BY <1>5, <1>6 DEF HeldRows, Holding, Writing, RowOf
  <2>1. v # w /\ pc[v] \in Holding /\ job[v] # j /\ job[v] \in Jobs
    BY <1>5, <1>6, <1>8 DEF Holding
  <2>2. status'[job[v]] = status[job[v]] /\ attempts' = attempts /\ job'[v] = job[v]
    BY <2>1, <1>3, <1>4, <1>5
  <2> QED
    BY <2>1, <2>2, <1>5 DEF HeldRows, RowOf
<1>10. ThreadsNeedServer' /\ StaleRows' /\ FirstStart'
  BY <1>1, <1>3 DEF ThreadsNeedServer, StaleRows, FirstStart, Alive, serverVars
<1>11. ExclusiveExecution'
  BY <1>7 DEF ExclusiveExecution
<1>12. OrphanRows'
  BY <1>1, <1>3, <1>4, <1>7 DEF OrphanRows
<1>13. RunningMeansOwned'
  <2> SUFFICES ASSUME NEW k \in Jobs
               PROVE  status'[k] = "running" <=>
                        (\E v \in Workers : Holds(v, k)') \/ k \in orphans'
    BY DEF RunningMeansOwned
  <2>1. CASE k = j
    BY <2>1, <1>1, <1>3, <1>4, <1>7 DEF ExclusiveExecution, OrphanRows
  <2>2. CASE k # j
    <3>1. status'[k] = status[k] /\ orphans' = orphans
      BY <2>2, <1>3, <1>4
    <3>2. ~Holds(w, k)
      BY <2>2 DEF Holds
    <3> QED
      BY <3>1, <3>2, <1>1, <1>7 DEF RunningMeansOwned
  <2> QED
    BY <2>1, <2>2
<1>14. AttemptBudget'
  <2>1. Restarts' = Restarts /\ server' = server /\ Restarts \in Nat
    BY <1>3 DEF Restarts, serverVars
  <2> SUFFICES ASSUME NEW k \in Jobs
               PROVE  /\ attempts[k] <= AttemptLimit(k) + Restarts
                      /\ status'[k] \in {"absent", "queued"} \/ server = "recovering"
                           => attempts[k] < AttemptLimit(k) + Restarts
    BY <1>3, <2>1 DEF AttemptBudget, AttemptLimit
  <2>2. attempts[k] \in Nat /\ AttemptLimit(k) \in Nat
    BY LimitPositive
  <2> QED
    BY <1>1, <1>4, <2>1, <2>2 DEF AttemptBudget, Alive
<1> QED
  BY <1>9, <1>10, <1>11, <1>12, <1>13, <1>14

\* A step of a thread that changes neither the table nor what it holds.
LEMMA QuietStep ==
  ASSUME IInv, Typed', NEW w \in Workers, Alive,
         UNCHANGED <<status, attempts, serverVars, orphans>>,
         \A v \in Workers : v # w => pc'[v] = pc[v] /\ job'[v] = job[v] /\ seen'[v] = seen[v],
         \A k \in Jobs : Holds(w, k)' <=> Holds(w, k),
         pc'[w] \in Writing => seen'[w] = RowOf(job[w]) /\ job'[w] = job[w]
  PROVE  IInv'
<1> USE DEF IInv, Typed, TypeOK, QueueTypeOK, serverVars
<1>1. \A v \in Workers, k \in Jobs : Holds(v, k)' <=> Holds(v, k)
  BY DEF Holds
<1>2. HeldRows'
  <2> SUFFICES ASSUME NEW v \in Workers, pc'[v] \in Holding
               PROVE  /\ status'[job'[v]] = "running"
                      /\ pc'[v] \in Writing => seen'[v] = RowOf(job[v])'
    BY DEF HeldRows, Holding, Writing
  <2>1. job'[v] \in Jobs
    BY DEF Selected, Holding
  <2>2. Holds(v, job'[v])
    BY <1>1, <2>1 DEF Holds
  <2>3. job'[v] = job[v] /\ status[job[v]] = "running"
    BY <2>2 DEF Holds, HeldRows
  <2>4. pc'[v] \in Writing => seen'[v] = RowOf(job[v])
    BY <2>2, <2>3 DEF HeldRows
  <2>5. RowOf(job[v])' = RowOf(job[v])
    BY <2>3 DEF RowOf
  <2> QED
    BY <2>3, <2>4, <2>5
<1>3. ThreadsNeedServer' /\ StaleRows' /\ FirstStart'
  BY DEF ThreadsNeedServer, StaleRows, FirstStart, Alive
<1>4. ExclusiveExecution' /\ OrphanRows'
  BY <1>1 DEF ExclusiveExecution, OrphanRows
<1>5. RunningMeansOwned'
  BY <1>1 DEF RunningMeansOwned
<1>6. AttemptBudget'
  BY DEF AttemptBudget, AttemptLimit, Restarts
<1> QED
  BY <1>2, <1>3, <1>4, <1>5, <1>6

\* The conditional UPDATE: a queued row is nobody's, so it becomes w's alone.
LEMMA ClaimStep ==
  ASSUME IInv, Typed', NEW w \in Workers, Claim(w)
  PROVE  IInv'
<1> DEFINE j == job[w]
<1> USE DEF IInv, Typed, TypeOK, QueueTypeOK, serverVars
<1>1. /\ j \in Jobs /\ status[j] = "queued" /\ Alive
      /\ status' = [status EXCEPT ![j] = "running"]
      /\ attempts' = [attempts EXCEPT ![j] = @ + 1]
      /\ pc' = [pc EXCEPT ![w] = "run"]
      /\ UNCHANGED <<serverVars, job, seen, orphans>>
      /\ pc[w] = "claim"
  BY DEF Claim, ClaimRow, Goto, Selected, ThreadsNeedServer
<1>2. j \notin orphans /\ \A v \in Workers : ~Holds(v, j)
  BY <1>1 DEF OrphanRows, HeldRows, Holds
<1>3. \A v \in Workers, k \in Jobs : Holds(v, k)' <=> Holds(v, k) \/ (v = w /\ k = j)
  BY <1>1 DEF Holds, Holding
<1>4. HeldRows'
  <2> SUFFICES ASSUME NEW v \in Workers, pc'[v] \in Holding
               PROVE  /\ status'[job[v]] = "running"
                      /\ pc'[v] \in Writing => seen[v] = RowOf(job[v])'
    BY <1>1 DEF HeldRows, Holding, Writing, RowOf
  <2>1. CASE v = w
    BY <1>1, <2>1 DEF Writing
  <2>2. CASE v # w
    <3>1. pc[v] \in Holding /\ pc'[v] = pc[v] /\ job[v] \in Jobs /\ job[v] # j
      BY <1>1, <1>2, <2>2 DEF Holds, Selected, Holding
    <3>2. status'[job[v]] = status[job[v]] /\ attempts'[job[v]] = attempts[job[v]]
      BY <1>1, <3>1
    <3> QED
      BY <3>1, <3>2, <1>1 DEF HeldRows, RowOf
  <2> QED
    BY <2>1, <2>2
<1>5. ThreadsNeedServer' /\ StaleRows' /\ FirstStart'
  BY <1>1 DEF ThreadsNeedServer, StaleRows, FirstStart, Alive
<1>6. ExclusiveExecution'
  BY <1>2, <1>3 DEF ExclusiveExecution
<1>7. OrphanRows'
  BY <1>1, <1>2, <1>3 DEF OrphanRows
<1>8. RunningMeansOwned'
  <2> SUFFICES ASSUME NEW k \in Jobs
               PROVE  status'[k] = "running" <=>
                        (\E v \in Workers : Holds(v, k)') \/ k \in orphans
    BY <1>1 DEF RunningMeansOwned
  <2>1. CASE k = j
    BY <2>1, <1>1, <1>3
  <2>2. CASE k # j
    BY <2>2, <1>1, <1>3 DEF RunningMeansOwned
  <2> QED
    BY <2>1, <2>2
<1>9. AttemptBudget'
  <2>1. Restarts' = Restarts /\ Restarts \in Nat
    BY <1>1 DEF Restarts
  <2> SUFFICES ASSUME NEW k \in Jobs
               PROVE  /\ attempts'[k] <= AttemptLimit(k) + Restarts
                      /\ status'[k] \in {"absent", "queued"} \/ server = "recovering"
                           => attempts'[k] < AttemptLimit(k) + Restarts
    BY <1>1, <2>1 DEF AttemptBudget, AttemptLimit
  <2>2. attempts[k] \in Nat /\ AttemptLimit(k) \in Nat
    BY LimitPositive
  <2>3. CASE k = j
    BY <2>3, <1>1, <2>1, <2>2 DEF AttemptBudget, Alive
  <2>4. CASE k # j
    BY <2>4, <1>1, <2>2 DEF AttemptBudget, Alive
  <2> QED
    BY <2>3, <2>4
<1> QED
  BY <1>4, <1>5, <1>6, <1>7, <1>8, <1>9

\* A lost outcome turns the job in hand into an orphan.
LEMMA LoseOutcomeStep ==
  ASSUME IInv, Typed', NEW w \in Workers, LoseOutcome(w)
  PROVE  IInv'
<1> DEFINE j == job[w]
<1> USE DEF IInv, Typed, TypeOK, QueueTypeOK, serverVars, queueVars
<1>1. /\ j \in Jobs /\ status[j] = "running" /\ Holds(w, j) /\ Alive
      /\ Drop(w) /\ orphans' = orphans \cup {j}
      /\ UNCHANGED <<queueVars, serverVars>>
  BY DEF LoseOutcome, HeldRows, Holding, Holds, Selected, ThreadsNeedServer
<1>2. \A v \in Workers : v # w => pc'[v] = pc[v] /\ job'[v] = job[v] /\ seen'[v] = seen[v]
  BY <1>1 DEF Drop
<1>3. pc'[w] = "idle"
  BY <1>1 DEF Drop
<1>4. \A v \in Workers, k \in Jobs : Holds(v, k)' <=> Holds(v, k) /\ v # w
  BY <1>2, <1>3 DEF Holds, Holding
<1>5. HeldRows'
  BY <1>1, <1>2, <1>3 DEF HeldRows, Holding, Writing, RowOf
<1>6. ThreadsNeedServer' /\ StaleRows' /\ FirstStart'
  BY <1>1 DEF ThreadsNeedServer, StaleRows, FirstStart, Alive
<1>7. ExclusiveExecution'
  BY <1>4 DEF ExclusiveExecution
<1>8. OrphanRows'
  BY <1>1, <1>4 DEF OrphanRows, ExclusiveExecution
<1>9. RunningMeansOwned'
  <2> SUFFICES ASSUME NEW k \in Jobs
               PROVE  status[k] = "running" <=>
                        (\E v \in Workers : Holds(v, k)') \/ k \in orphans'
    BY <1>1 DEF RunningMeansOwned
  <2>1. CASE k = j
    BY <2>1, <1>1
  <2>2. CASE k # j
    <3>1. ~Holds(w, k)
      BY <2>2 DEF Holds
    <3> QED
      BY <3>1, <2>2, <1>1, <1>4 DEF RunningMeansOwned
  <2> QED
    BY <2>1, <2>2
<1>10. AttemptBudget'
  BY <1>1 DEF AttemptBudget, AttemptLimit, Restarts
<1> QED
  BY <1>5, <1>6, <1>7, <1>8, <1>9, <1>10

\* Every step of _drain_once keeps the invariant.
LEMMA ThreadKeepsInvariant ==
  ASSUME IInv, NEW w \in Workers, ThreadStep(w)
  PROVE  IInv'
<1> USE DEF IInv, Typed, TypeOK
<1>1. Typed'
  BY TypedThread
<1>2. pc[w] # "idle" => Alive
  BY DEF ThreadsNeedServer
<1>3. ASSUME NEW k \in Jobs, SelectCandidate(w, k) PROVE IInv'
  <2>1. Alive /\ pc[w] = "idle" /\ pc'[w] = "claim"
    BY <1>3 DEF SelectCandidate, Goto, Alive
  <2> QED
    BY <2>1, <1>1, <1>3, QuietStep
       DEF SelectCandidate, Goto, Holds, Holding, Writing, queueVars
<1>4. CASE LoseClaim(w) \/ ClaimError(w)
  <2>1. /\ Drop(w) /\ pc[w] = "claim"
        /\ UNCHANGED <<status, attempts, serverVars, orphans>>
    BY <1>4 DEF LoseClaim, ClaimError, queueVars
  <2>2. pc'[w] = "idle"
        /\ \A v \in Workers : v # w => pc'[v] = pc[v] /\ job'[v] = job[v] /\ seen'[v] = seen[v]
    BY <2>1 DEF Drop
  <2> QED
    BY <2>1, <2>2, <1>1, <1>2, QuietStep DEF Holds, Holding, Writing
<1>5. CASE HandlerReturns(w) \/ HandlerRaises(w)
  <2>1. /\ pc[w] = "run" /\ pc'[w] \in {"settle", "fail"}
        /\ \A v \in Workers : v # w => pc'[v] = pc[v]
        /\ UNCHANGED <<status, attempts, serverVars, job, seen, orphans>>
    BY <1>5 DEF HandlerReturns, HandlerRaises, Goto, queueVars
  <2> QED
    BY <2>1, <1>1, <1>2, QuietStep DEF Holds, Holding, Writing
<1>6. CASE ReadRow(w)
  <2>1. /\ pc[w] \in {"settle", "fail"} /\ pc'[w] \in Writing
        /\ \A v \in Workers : v # w => pc'[v] = pc[v] /\ seen'[v] = seen[v]
        /\ seen'[w] = RowOf(job[w])
        /\ UNCHANGED <<status, attempts, serverVars, job, orphans>>
    BY <1>6 DEF ReadRow, Goto, queueVars, Writing
  <2> QED
    BY <2>1, <1>1, <1>2, QuietStep DEF Holds, Holding, Writing
<1> QED
  BY <1>1, <1>3, <1>4, <1>5, <1>6, ClaimStep, OutcomeStep, LoseOutcomeStep DEF ThreadStep

\* A new row is queued, fresh, and nobody's.
LEMMA EnqueueKeepsInvariant ==
  ASSUME IInv, NEW j \in Jobs, Enqueue(j)
  PROVE  IInv'
<1> USE DEF IInv, Typed, TypeOK, QueueTypeOK, serverVars, threadVars
<1>1. Typed'
  BY TypedOther
<1>2. /\ status[j] = "absent"
      /\ status' = [status EXCEPT ![j] = "queued"]
      /\ attempts' = [attempts EXCEPT ![j] = 0]
      /\ UNCHANGED <<serverVars, threadVars, orphans>>
  BY DEF Enqueue, EnqueueRow
<1>3. j \notin orphans /\ \A w \in Workers : ~Holds(w, j)
  BY <1>2 DEF OrphanRows, HeldRows, Holds
<1>4. \A w \in Workers, k \in Jobs : Holds(w, k)' <=> Holds(w, k)
  BY <1>2 DEF Holds
<1>5. HeldRows'
  <2> SUFFICES ASSUME NEW w \in Workers, pc[w] \in Holding
               PROVE  /\ status'[job[w]] = "running"
                      /\ pc[w] \in Writing => seen[w] = RowOf(job[w])'
    BY <1>2 DEF HeldRows, Holding, Writing, RowOf
  <2>1. job[w] \in Jobs /\ job[w] # j
    BY <1>3 DEF Holds, Selected, Holding
  <2>2. status'[job[w]] = status[job[w]] /\ attempts'[job[w]] = attempts[job[w]]
    BY <1>2, <2>1
  <2> QED
    BY <2>2, <1>2 DEF HeldRows, RowOf
<1>6. ThreadsNeedServer' /\ StaleRows' /\ FirstStart'
  BY <1>2 DEF ThreadsNeedServer, StaleRows, FirstStart, Alive
<1>7. ExclusiveExecution' /\ OrphanRows'
  BY <1>2, <1>3, <1>4 DEF ExclusiveExecution, OrphanRows
<1>8. RunningMeansOwned'
  BY <1>2, <1>3, <1>4 DEF RunningMeansOwned, Alive
<1>9. AttemptBudget'
  <2>1. Restarts' = Restarts /\ Restarts \in Nat
    BY <1>2 DEF Restarts
  <2>2. \A k \in Jobs : AttemptLimit(k) \in Nat \ {0} /\ AttemptLimit(k)' = AttemptLimit(k)
    BY LimitPositive DEF AttemptLimit
  <2> QED
    BY <1>2, <2>1, <2>2 DEF AttemptBudget
<1> QED
  BY <1>1, <1>5, <1>6, <1>7, <1>8, <1>9

\* So does every start, recovery, stop, exit and crash of the server.
LEMMA ServerKeepsInvariant ==
  ASSUME IInv, ServerStep
  PROVE  IInv'
<1> USE WorkerAssumption DEF IInv, Typed, TypeOK, QueueTypeOK, serverVars, threadVars, queueVars
<1>1. Typed'
  BY TypedOther
<1>2. \A k \in Jobs : AttemptLimit(k) \in Nat \ {0} /\ AttemptLimit(k)' = AttemptLimit(k)
  BY LimitPositive DEF AttemptLimit
<1>3. CASE Start
  <2>1. /\ server = "down" /\ server' = "recovering" /\ starts' = starts + 1
        /\ stale' = {j \in Jobs : status[j] = "running"}
        /\ UNCHANGED <<queueVars, threadVars, orphans>>
    BY <1>3 DEF Start
  <2>2. HeldRows' /\ ExclusiveExecution' /\ OrphanRows'
    BY <2>1 DEF HeldRows, RowOf, ExclusiveExecution, OrphanRows, Holds
  <2>3. ThreadsNeedServer' /\ StaleRows' /\ FirstStart' /\ RunningMeansOwned'
    BY <2>1 DEF ThreadsNeedServer, StaleRows, FirstStart, RunningMeansOwned, Alive
  <2>4. AttemptBudget'
    BY <2>1, <1>2 DEF AttemptBudget, FirstStart, Restarts
  <2> QED
    BY <1>1, <2>2, <2>3, <2>4
<1>4. CASE Recover
  <2>1. /\ server = "recovering" /\ server' = "up" /\ orphans' = {}
        /\ status' = [j \in Jobs |-> IF j \in stale THEN "queued" ELSE status[j]]
        /\ UNCHANGED <<attempts, starts, threadVars>>
    BY <1>4 DEF Recover, RequeueRows
  <2>2. \A w \in Workers : pc[w] = "idle"
    BY <2>1 DEF ThreadsNeedServer, Alive
  <2>3. \A w \in Workers, k \in Jobs : ~Holds(w, k) /\ ~Holds(w, k)'
    BY <2>1, <2>2 DEF Holds, Holding
  <2>4. HeldRows' /\ ExclusiveExecution' /\ OrphanRows'
    BY <2>1, <2>2, <2>3 DEF HeldRows, Holding, Writing, ExclusiveExecution, OrphanRows
  <2>5. ThreadsNeedServer' /\ StaleRows' /\ FirstStart'
    BY <2>1, <2>2 DEF ThreadsNeedServer, StaleRows, FirstStart, Alive
  <2>6. RunningMeansOwned'
    BY <2>1, <2>3 DEF RunningMeansOwned, StaleRows
  <2>7. AttemptBudget'
    BY <2>1, <1>2 DEF AttemptBudget, Restarts
  <2> QED
    BY <1>1, <2>4, <2>5, <2>6, <2>7
<1>5. CASE Stop \/ Exit
  <2>1. /\ UNCHANGED <<queueVars, starts, stale, threadVars, orphans>>
        /\ server \in {"up", "stopping"} /\ server' \in {"stopping", "down"}
        /\ server' = "down" => \A w \in Workers : pc[w] = "idle"
    BY <1>5 DEF Stop, Exit
  <2>2. HeldRows' /\ ExclusiveExecution' /\ OrphanRows'
    BY <2>1 DEF HeldRows, RowOf, ExclusiveExecution, OrphanRows, Holds
  <2>3. ThreadsNeedServer' /\ StaleRows' /\ FirstStart'
    BY <2>1 DEF ThreadsNeedServer, StaleRows, FirstStart, Alive
  <2>4. RunningMeansOwned'
    BY <2>1 DEF RunningMeansOwned, Alive, Holds
  <2>5. AttemptBudget'
    BY <2>1, <1>2 DEF AttemptBudget, Restarts
  <2> QED
    BY <1>1, <2>2, <2>3, <2>4, <2>5
<1>6. CASE Crash
  <2>1. /\ server' = "down" /\ server # "down"
        /\ pc' = [w \in Workers |-> "idle"]
        /\ UNCHANGED <<queueVars, starts, orphans>>
    BY <1>6 DEF Crash
  <2>2. \A w \in Workers, k \in Jobs : ~Holds(w, k)'
    BY <2>1 DEF Holds, Holding
  <2>3. HeldRows' /\ ExclusiveExecution' /\ OrphanRows'
    BY <2>1, <2>2 DEF HeldRows, Holding, Writing, ExclusiveExecution, OrphanRows
  <2>4. ThreadsNeedServer' /\ StaleRows' /\ FirstStart' /\ RunningMeansOwned'
    BY <2>1 DEF ThreadsNeedServer, StaleRows, FirstStart, RunningMeansOwned, Alive
  <2>5. AttemptBudget'
    <3>1. Restarts' = Restarts
      BY <2>1 DEF Restarts
    <3> QED
      BY <2>1, <3>1, <1>2 DEF AttemptBudget
  <2> QED
    BY <1>1, <2>3, <2>4, <2>5
<1> QED
  BY <1>3, <1>4, <1>5, <1>6 DEF ServerStep

\* The invariant holds before the server is first started.
LEMMA InitInvariant == Init => IInv
<1> SUFFICES ASSUME Init PROVE IInv
  OBVIOUS
<1>1. Typed
  BY TypedInit
<1> USE DEF Init, QueueInit
<1>2. HeldRows /\ ExclusiveExecution /\ OrphanRows
  BY DEF HeldRows, Holding, Writing, ExclusiveExecution, OrphanRows, Holds
<1>3. ThreadsNeedServer /\ StaleRows /\ FirstStart /\ RunningMeansOwned
  BY DEF ThreadsNeedServer, StaleRows, FirstStart, RunningMeansOwned, Alive
<1>4. AttemptBudget
  <2>1. Restarts = 0 /\ \A j \in Jobs : attempts[j] = 0
    BY DEF Restarts
  <2>2. \A j \in Jobs : AttemptLimit(j) \in Nat \ {0}
    BY LimitPositive
  <2>3. ASSUME NEW j \in Jobs
        PROVE  attempts[j] < AttemptLimit(j) + Restarts /\ attempts[j] <= AttemptLimit(j) + Restarts
    BY <2>1, <2>2
  <2> QED
    BY <2>3 DEF AttemptBudget
<1> QED
  BY <1>1, <1>2, <1>3, <1>4 DEF IInv

\* No step of the system breaks the invariant.
LEMMA StepInvariant == IInv /\ [Next]_vars => IInv'
<1> SUFFICES ASSUME IInv, [Next]_vars PROVE IInv'
  OBVIOUS
<1>1. CASE UNCHANGED vars
  <2>1. Typed'
    BY <1>1, TypedOther DEF IInv
  <2> QED
    BY <1>1, <2>1
       DEF vars, queueVars, serverVars, threadVars, IInv, HeldRows, RowOf,
           ThreadsNeedServer, Alive, StaleRows, ExclusiveExecution, Holds, OrphanRows,
           RunningMeansOwned, FirstStart, AttemptBudget, AttemptLimit, Restarts
<1> QED
  BY <1>1, EnqueueKeepsInvariant, ThreadKeepsInvariant, ServerKeepsInvariant DEF Next

\* The invariant holds in every behaviour of the worker pools.
THEOREM InvariantHolds == Spec => []IInv
  BY InitInvariant, StepInvariant, PTL DEF Spec

-----------------------------------------------------------------------------
(* What follows from it.                                                   *)

\* Every variable keeps its type in every behaviour of the worker pools.
THEOREM TypeCorrect == Spec => []TypeOK
  BY InvariantHolds, PTL DEF IInv, Typed

\* For any number of slots, crashes and restarts, no two threads ever have
\* the same job in hand.
THEOREM Exclusive == Spec => []ExclusiveExecution
  BY InvariantHolds, PTL DEF IInv

\* In a live server a row says "running" exactly while a thread has the job
\* in hand or its outcome was lost.
THEOREM Owned == Spec => []RunningMeansOwned
  BY InvariantHolds, PTL DEF IInv

\* A job is attempted at most max_attempts times, plus once per restart.
THEOREM Budget == Spec => []AttemptsBounded
<1>1. IInv => AttemptsBounded
  BY DEF IInv, AttemptBudget, AttemptsBounded, Restarts
<1> QED
  BY <1>1, InvariantHolds, PTL

-----------------------------------------------------------------------------
(* The lifecycle.                                                          *)

\* Every step of the worker pools is a step of the lifecycle, or leaves the
\* table as it was.
LEMMA StepRefines == IInv /\ [Next]_vars => [Lifecycle!LifecycleNext]_queueVars
<1> SUFFICES ASSUME IInv, [Next]_vars PROVE [Lifecycle!LifecycleNext]_queueVars
  OBVIOUS
<1> USE DEF Lifecycle!LifecycleNext
<1>1. ASSUME NEW j \in Jobs, Enqueue(j) PROVE [Lifecycle!LifecycleNext]_queueVars
  BY <1>1 DEF Enqueue, Lifecycle!Submit, EnqueueRow, Lifecycle!EnqueueRow
<1>2. ASSUME NEW w \in Workers, ThreadStep(w) PROVE [Lifecycle!LifecycleNext]_queueVars
  <2> DEFINE j == job[w]
  <2>1. CASE Claim(w)
    <3>1. j \in Jobs
      BY <2>1 DEF Claim, Goto, IInv, Typed, Selected
    <3> QED
      BY <2>1, <3>1 DEF Claim, ClaimRow, Lifecycle!Begin, Lifecycle!ClaimRow
  <2>2. CASE Complete(w) \/ Fail(w)
    <3>1. j \in Jobs /\ status[j] = "running" /\ seen[w] = RowOf(j)
      BY <2>2 DEF IInv, Typed, Selected, HeldRows, Holding, Writing, Complete, Fail
    <3>2. seen[w].status = "running" /\ seen[w].attempts = attempts[j]
      BY <3>1 DEF RowOf
    <3>3. attempts[j] \in Nat /\ AttemptLimit(j) \in Nat
      BY <3>1, LimitPositive DEF IInv, Typed, TypeOK, QueueTypeOK
    <3>4. CASE Complete(w)
      BY <3>1, <3>2, <3>4
         DEF Complete, SaveStatus, Lifecycle!Succeed, Lifecycle!Move
    <3>5. CASE Fail(w) /\ attempts[j] >= AttemptLimit(j)
      BY <3>1, <3>2, <3>3, <3>5
         DEF Fail, SaveStatus, StatusAfterFailure, AttemptLimit, Lifecycle!AttemptLimit,
             Lifecycle!GiveUp, Lifecycle!Move
    <3>6. CASE Fail(w) /\ ~(attempts[j] >= AttemptLimit(j))
      <4>1. attempts[j] < AttemptLimit(j)
        BY <3>3, <3>6
      <4> QED
        BY <3>1, <3>2, <3>6, <4>1
           DEF Fail, SaveStatus, StatusAfterFailure, AttemptLimit, Lifecycle!AttemptLimit,
               Lifecycle!Retry, Lifecycle!Move
    <3> QED
      BY <2>2, <3>4, <3>5, <3>6
  <2>3. CASE ~(Claim(w) \/ Complete(w) \/ Fail(w))
    BY <1>2, <2>3
       DEF ThreadStep, SelectCandidate, LoseClaim, ClaimError, HandlerReturns, HandlerRaises,
           ReadRow, LoseOutcome
  <2> QED
    BY <2>1, <2>2, <2>3
<1>3. CASE Recover
  BY <1>3 DEF Recover, RequeueRows, Lifecycle!Interrupt, Lifecycle!RequeueRows, IInv, StaleRows
<1>4. CASE Start \/ Stop \/ Exit \/ Crash
  BY <1>4 DEF Start, Stop, Exit, Crash
<1>5. CASE UNCHANGED vars
  BY <1>5 DEF vars
<1> QED
  BY <1>1, <1>2, <1>3, <1>4, <1>5 DEF Next, ServerStep

\* The worker pools implement the lifecycle promised of each job.
THEOREM Refinement == Spec => ImplementsLifecycle
<1>1. Init => Lifecycle!QueueInit
  BY DEF Init, QueueInit, Lifecycle!QueueInit
<1>2. QED
  BY <1>1, StepRefines, InvariantHolds, PTL
     DEF Spec, ImplementsLifecycle, Lifecycle!LifecycleSpec, Lifecycle!queueVars, queueVars

\* In the lifecycle, and therefore in the worker pools, no step touches a
\* job that has completed or failed.
THEOREM Final == Spec => SettledIsFinal
<1> DEFINE Settled == \A j \in Jobs : status[j] \in Terminal =>
                         status'[j] = status[j] /\ attempts'[j] = attempts[j]
<1>1. IInv /\ [Next]_vars => [Settled]_vars
  <2> SUFFICES ASSUME IInv, [Next]_vars, NEW j \in Jobs, status[j] \in Terminal
               PROVE  status'[j] = status[j] /\ attempts'[j] = attempts[j]
    OBVIOUS
  <2>1. status \in [Jobs -> Statuses] /\ attempts \in [Jobs -> Nat]
    BY DEF IInv, Typed, TypeOK, QueueTypeOK
  <2>2. [Lifecycle!LifecycleNext]_queueVars
    BY StepRefines
  <2>3. CASE UNCHANGED queueVars
    BY <2>3 DEF queueVars
  <2>4. ASSUME NEW k \in Jobs,
               \/ Lifecycle!Submit(k) \/ Lifecycle!Begin(k) \/ Lifecycle!Succeed(k)
               \/ Lifecycle!Retry(k) \/ Lifecycle!GiveUp(k)
        PROVE  status'[j] = status[j] /\ attempts'[j] = attempts[j]
    <3>1. status[k] \notin Terminal
      BY <2>4 DEF Lifecycle!Submit, Lifecycle!Begin, Lifecycle!Succeed, Lifecycle!Retry,
                  Lifecycle!GiveUp, Lifecycle!Move, Lifecycle!EnqueueRow, Lifecycle!ClaimRow, Terminal
    <3> QED
      BY <2>1, <2>4, <3>1
         DEF Lifecycle!Submit, Lifecycle!Begin, Lifecycle!Succeed, Lifecycle!Retry,
             Lifecycle!GiveUp, Lifecycle!Move, Lifecycle!EnqueueRow, Lifecycle!ClaimRow
  <2>5. CASE Lifecycle!Interrupt
    BY <2>1, <2>5 DEF Lifecycle!Interrupt, Lifecycle!RequeueRows, Terminal
  <2> QED
    BY <2>2, <2>3, <2>4, <2>5 DEF Lifecycle!LifecycleNext
<1> QED
  BY <1>1, InvariantHolds, PTL DEF Spec, SettledIsFinal

-----------------------------------------------------------------------------
(* The inductive invariant of the pools beside the drains.                 *)

\* A job the drain never reads says "running" while a thread has it in hand,
\* and the thread that is to write its outcome has seen the row as it is.
OtherHeldRows ==
  \A w \in Workers : job[w] \notin LookupJobs =>
    /\ pc[w] \in Holding => status[job[w]] = "running"
    /\ pc[w] \in Writing => seen[w] = RowOf(job[w])

\* The lost outcome of such a job leaves it to nobody.
OtherOrphanRows ==
  \A j \in orphans \ LookupJobs : /\ status[j] = "running"
                                  /\ \A w \in Workers : ~Holds(w, j)

\* The recovery has read every row that says "running"; a commit of the drain
\* may have settled some of the lookups among them since.
StaleCoversRunning ==
  server = "recovering" =>
    /\ \A j \in Jobs : status[j] = "running" => j \in stale
    /\ \A j \in stale \ LookupJobs : status[j] = "running"

\* A thread that has the job, and whose write of an outcome, if it is about
\* to write one, will not be skipped: it has not read that outcome already.
WillWrite(w, j) ==
  /\ Holds(w, j)
  /\ pc[w] \in Writing => seen[w].status = "running"

\* The thread that claimed a running row last is such a thread.
RunningWillEnd ==
  Alive => \A j \in Jobs :
             status[j] = "running" => (\E w \in Workers : WillWrite(w, j))
                                      \/ j \in orphans

DInv ==
  /\ DrainTypeOK
  /\ Selected
  /\ ThreadsNeedServer
  /\ OtherHeldRows
  /\ OtherJobsExclusive
  /\ OtherOrphanRows
  /\ StaleCoversRunning
  /\ RunningWillEnd

-----------------------------------------------------------------------------
(* Type correctness.                                                       *)

\* Whatever the drain decides, it leaves a job a status of the queue.
LEMMA DrainedStatusTyped ==
  ASSUME DrainTypeOK, NEW j \in Jobs, NEW done, NEW flushed
  PROVE  /\ DrainedStatus(j, done, flushed) \in Statuses
         /\ DrainedStatus(j, done, flushed) = "running" => status[j] = "running"
  BY DEF DrainTypeOK, TypeOK, QueueTypeOK, DrainedStatus, StatusAfterFailure, Statuses

\* No step of the drain takes a variable out of its type.
LEMMA DrainStepTyped ==
  ASSUME DrainTypeOK, Selected, DrainStep
  PROVE  DrainTypeOK' /\ Selected'
<1> USE DrainAssumption DEF DrainTypeOK, TypeOK, QueueTypeOK, vars, queueVars, serverVars, threadVars
<1>1. CASE DrainRead
  <2>1. drains' \in 0 .. MaxDrains
    BY <1>1 DEF DrainRead
  <2>2. batch' \subseteq LookupJobs /\ counted' \in [Jobs -> Nat]
    BY <1>1 DEF DrainRead
  <2> QED
    BY <1>1, <2>1, <2>2 DEF DrainRead, Selected
<1>2. CASE DrainCommit
  <2>1. status' \in [Jobs -> Statuses]
    BY <1>2, DrainedStatusTyped DEF DrainCommit
  <2>2. attempts' \in [Jobs -> Nat]
    BY <1>2 DEF DrainCommit
  <2> QED
    BY <1>2, <2>1, <2>2 DEF DrainCommit, EndDrain, NoneCounted, Selected
<1>3. CASE DrainAbort
  BY <1>3 DEF DrainAbort, EndDrain, NoneCounted, Selected
<1> QED
  BY <1>1, <1>2, <1>3 DEF DrainStep

\* Nor does a step of the server or of its threads.
LEMMA PoolStepTyped ==
  ASSUME DrainTypeOK, Selected, Next, UNCHANGED drainVars
  PROVE  DrainTypeOK' /\ Selected'
<1>1. Typed'
  BY TypedThread, TypedOther DEF Next, DrainTypeOK, Typed
<1> QED
  BY <1>1 DEF Typed, DrainTypeOK, drainVars

-----------------------------------------------------------------------------
(* Preservation of the invariant by the threads.                           *)

\* A thread's step leaves the others' hands and the server alone, and only
\* a live server has threads that step.
LEMMA ThreadFrame ==
  ASSUME DInv, NEW w \in Workers, ThreadStep(w)
  PROVE  /\ Alive
         /\ UNCHANGED serverVars
         /\ \A v \in Workers : v # w => pc'[v] = pc[v] /\ job'[v] = job[v] /\ seen'[v] = seen[v]
<1> USE DEF DInv, DrainTypeOK, TypeOK
<1>1. Alive
  BY DEF ThreadStep, SelectCandidate, Claim, LoseClaim, ClaimError, HandlerReturns, HandlerRaises,
         ReadRow, Complete, Fail, LoseOutcome, Goto, ThreadsNeedServer, Alive
<1>2. CASE \E j \in Jobs : SelectCandidate(w, j)
  BY <1>1, <1>2 DEF SelectCandidate, Goto
<1>3. CASE Claim(w) \/ HandlerReturns(w) \/ HandlerRaises(w) \/ ReadRow(w)
  BY <1>1, <1>3 DEF Claim, HandlerReturns, HandlerRaises, ReadRow, Goto
<1>4. CASE LoseClaim(w) \/ ClaimError(w) \/ Complete(w) \/ Fail(w) \/ LoseOutcome(w)
  BY <1>1, <1>4 DEF LoseClaim, ClaimError, Complete, Fail, LoseOutcome, Drop, serverVars
<1> QED
  BY <1>2, <1>3, <1>4 DEF ThreadStep

\* What w writes into the row of a job that is not a lookup, no other thread
\* and no orphan depends on.
LEMMA DrainedOutcomeStep ==
  ASSUME DInv, NEW w \in Workers, ThreadStep(w), Complete(w) \/ Fail(w),
         UNCHANGED drainVars, DrainTypeOK', Selected'
  PROVE  DInv'
<1> DEFINE j == job[w]
<1> USE DEF DInv, DrainTypeOK, TypeOK, QueueTypeOK, serverVars
<1>1. /\ j \in Jobs /\ Holds(w, j) /\ pc[w] \in Writing
      /\ UNCHANGED <<attempts, serverVars, orphans>>
      /\ pc'[w] = "idle"
  BY DEF Complete, Fail, SaveStatus, Drop, Selected, Holds, Holding, Writing
<1>2. \/ status' = status /\ seen[w].status # "running"
      \/ \E to \in {"completed", "failed", "queued"} : status' = [status EXCEPT ![j] = to]
  BY DEF Complete, Fail, SaveStatus, StatusAfterFailure
<1>3. /\ Alive
      /\ \A v \in Workers : v # w => pc'[v] = pc[v] /\ job'[v] = job[v] /\ seen'[v] = seen[v]
  BY ThreadFrame
<1>4. \A k \in Jobs : k # j => status'[k] = status[k]
  BY <1>1, <1>2
<1>5. \A v \in Workers, k \in Jobs : Holds(v, k)' <=> Holds(v, k) /\ v # w
  BY <1>1, <1>3 DEF Holds, Holding
<1>6. ThreadsNeedServer'
  BY <1>1, <1>3 DEF ThreadsNeedServer, Alive
<1>7. OtherHeldRows'
  <2> SUFFICES ASSUME NEW v \in Workers, job'[v] \notin LookupJobs, pc'[v] \in Holding
               PROVE  /\ status'[job'[v]] = "running"
                      /\ pc'[v] \in Writing => seen'[v] = RowOf(job[v])'
    BY DEF OtherHeldRows, Holding, Writing, RowOf
  <2>1. v # w /\ job'[v] = job[v] /\ pc'[v] = pc[v] /\ seen'[v] = seen[v] /\ job[v] \in Jobs
    BY <1>1, <1>3 DEF Holding, Selected
  <2>2. job[v] # j
    BY <1>1, <2>1 DEF OtherJobsExclusive, Holds
  <2> QED
    BY <1>1, <1>4, <2>1, <2>2 DEF OtherHeldRows, RowOf
<1>8. OtherJobsExclusive'
  BY <1>5 DEF OtherJobsExclusive
<1>9. OtherOrphanRows'
  BY <1>1, <1>4, <1>5 DEF OtherOrphanRows
<1>10. StaleCoversRunning'
  BY <1>1, <1>3 DEF StaleCoversRunning, Alive
<1>11. RunningWillEnd'
  <2> SUFFICES ASSUME NEW k \in Jobs, status'[k] = "running", k \notin orphans
               PROVE  \E v \in Workers : WillWrite(v, k)'
    BY <1>1 DEF RunningWillEnd
  <2>1. status[k] = "running" /\ (k = j => seen[w].status # "running")
    BY <1>1, <1>2
  <2>2. PICK v \in Workers : WillWrite(v, k)
    BY <2>1, <1>3 DEF RunningWillEnd
  <2>3. v # w
    BY <1>1, <2>1, <2>2 DEF WillWrite, Holds
  <2>4. WillWrite(v, k)'
    BY <1>3, <2>2, <2>3 DEF WillWrite, Holds
  <2> QED
    BY <2>4
<1> QED
  BY <1>6, <1>7, <1>8, <1>9, <1>10, <1>11

\* A queued row that is not a lookup's is nobody's, so it becomes w's alone;
\* and whoever else has a lookup in hand, w will write it.
LEMMA DrainedClaimStep ==
  ASSUME DInv, NEW w \in Workers, ThreadStep(w), Claim(w),
         UNCHANGED drainVars, DrainTypeOK', Selected'
  PROVE  DInv'
<1> DEFINE j == job[w]
<1> USE DEF DInv, DrainTypeOK, TypeOK, QueueTypeOK, serverVars
<1>1. /\ j \in Jobs /\ status[j] = "queued" /\ pc[w] = "claim"
      /\ status' = [status EXCEPT ![j] = "running"]
      /\ attempts' = [attempts EXCEPT ![j] = @ + 1]
      /\ pc' = [pc EXCEPT ![w] = "run"]
      /\ UNCHANGED <<serverVars, job, seen, orphans>>
  BY DEF Claim, ClaimRow, Goto, Selected
<1>2. Alive /\ server # "recovering"
  BY ThreadFrame DEF Alive
<1>3. j \notin LookupJobs => j \notin orphans /\ \A v \in Workers : ~Holds(v, j)
  BY <1>1 DEF OtherOrphanRows, OtherHeldRows, Holds
<1>4. \A v \in Workers, k \in Jobs : Holds(v, k)' <=> Holds(v, k) \/ (v = w /\ k = j)
  BY <1>1 DEF Holds, Holding
<1>5. ThreadsNeedServer' /\ StaleCoversRunning'
  BY <1>1, <1>2 DEF ThreadsNeedServer, StaleCoversRunning, Alive
<1>6. OtherHeldRows'
  <2> SUFFICES ASSUME NEW v \in Workers, job[v] \notin LookupJobs, pc'[v] \in Holding
               PROVE  /\ status'[job[v]] = "running"
                      /\ pc'[v] \in Writing => seen[v] = RowOf(job[v])'
    BY <1>1 DEF OtherHeldRows, Holding, Writing, RowOf
  <2>1. CASE v = w
    BY <1>1, <2>1 DEF Writing
  <2>2. CASE v # w
    <3>1. pc[v] \in Holding /\ pc'[v] = pc[v] /\ job[v] \in Jobs /\ job[v] # j
      BY <1>1, <1>3, <2>2 DEF Holds, Selected, Holding
    <3>2. status'[job[v]] = status[job[v]] /\ attempts'[job[v]] = attempts[job[v]]
      BY <1>1, <3>1
    <3> QED
      BY <1>1, <3>1, <3>2 DEF OtherHeldRows, RowOf
  <2> QED
    BY <2>1, <2>2
<1>7. OtherJobsExclusive'
  BY <1>3, <1>4 DEF OtherJobsExclusive
<1>8. OtherOrphanRows'
  BY <1>1, <1>3, <1>4 DEF OtherOrphanRows
<1>9. RunningWillEnd'
  <2> SUFFICES ASSUME NEW k \in Jobs, status'[k] = "running", k \notin orphans
               PROVE  \E v \in Workers : WillWrite(v, k)'
    BY <1>1 DEF RunningWillEnd
  <2>1. CASE k = j
    <3>1. WillWrite(w, k)'
      BY <1>1, <1>4, <2>1 DEF WillWrite, Writing
    <3> QED
      BY <3>1
  <2>2. CASE k # j
    <3>1. status[k] = "running"
      BY <1>1, <2>2
    <3>2. PICK v \in Workers : WillWrite(v, k)
      BY <3>1, <1>2 DEF RunningWillEnd
    <3>3. v # w
      BY <1>1, <2>2, <3>2 DEF WillWrite, Holds
    <3>4. WillWrite(v, k)'
      BY <1>1, <3>2, <3>3 DEF WillWrite, Holds
    <3> QED
      BY <3>4
  <2> QED
    BY <2>1, <2>2
<1> QED
  BY <1>5, <1>6, <1>7, <1>8, <1>9

\* A lost outcome turns the job in hand into an orphan.
LEMMA DrainedLoseOutcomeStep ==
  ASSUME DInv, NEW w \in Workers, ThreadStep(w), LoseOutcome(w),
         UNCHANGED drainVars, DrainTypeOK', Selected'
  PROVE  DInv'
<1> DEFINE j == job[w]
<1> USE DEF DInv, DrainTypeOK, TypeOK, QueueTypeOK, serverVars, queueVars
<1>1. /\ j \in Jobs /\ Holds(w, j)
      /\ pc'[w] = "idle" /\ orphans' = orphans \cup {j}
      /\ UNCHANGED <<queueVars, serverVars>>
  BY DEF LoseOutcome, Drop, Holding, Holds, Selected
<1>2. /\ Alive
      /\ \A v \in Workers : v # w => pc'[v] = pc[v] /\ job'[v] = job[v] /\ seen'[v] = seen[v]
  BY ThreadFrame
<1>3. \A v \in Workers, k \in Jobs : Holds(v, k)' <=> Holds(v, k) /\ v # w
  BY <1>1, <1>2 DEF Holds, Holding
<1>4. OtherHeldRows'
  BY <1>1, <1>2 DEF OtherHeldRows, Holding, Writing, RowOf
<1>5. ThreadsNeedServer' /\ StaleCoversRunning'
  BY <1>1, <1>2 DEF ThreadsNeedServer, StaleCoversRunning, Alive
<1>6. OtherJobsExclusive'
  BY <1>3 DEF OtherJobsExclusive
<1>7. OtherOrphanRows'
  BY <1>1, <1>3 DEF OtherOrphanRows, OtherJobsExclusive, OtherHeldRows, Holds
<1>8. RunningWillEnd'
  <2> SUFFICES ASSUME NEW k \in Jobs, status[k] = "running", k \notin orphans, k # j
               PROVE  \E v \in Workers : WillWrite(v, k)'
    BY <1>1 DEF RunningWillEnd
  <2>1. PICK v \in Workers : WillWrite(v, k)
    BY <1>2 DEF RunningWillEnd
  <2>2. WillWrite(v, k)'
    BY <1>2, <2>1 DEF WillWrite, Holds
  <2> QED
    BY <2>2
<1> QED
  BY <1>4, <1>5, <1>6, <1>7, <1>8

\* The other steps of a thread change neither the table nor what it holds.
LEMMA DrainedQuietStep ==
  ASSUME DInv, NEW w \in Workers, ThreadStep(w),
         ~(Claim(w) \/ Complete(w) \/ Fail(w) \/ LoseOutcome(w)),
         UNCHANGED drainVars, DrainTypeOK', Selected'
  PROVE  DInv'
<1> USE DEF DInv, DrainTypeOK, TypeOK, QueueTypeOK, serverVars, queueVars
<1>1. /\ Alive /\ UNCHANGED <<queueVars, serverVars, orphans>>
      /\ \A v \in Workers : v # w => pc'[v] = pc[v] /\ job'[v] = job[v] /\ seen'[v] = seen[v]
  BY ThreadFrame DEF ThreadStep, SelectCandidate, LoseClaim, ClaimError, HandlerReturns,
                     HandlerRaises, ReadRow
<1>2. /\ pc'[w] \in Holding <=> pc[w] \in Holding
      /\ pc'[w] \in Holding => job'[w] = job[w]
      /\ pc'[w] \in Writing => seen'[w] = RowOf(job[w])
  BY DEF ThreadStep, SelectCandidate, LoseClaim, ClaimError, HandlerReturns, HandlerRaises,
         ReadRow, Goto, Drop, Holding, Writing
<1>3. \A v \in Workers, k \in Jobs : Holds(v, k)' <=> Holds(v, k)
  BY <1>1, <1>2 DEF Holds
<1>4. OtherHeldRows'
  <2> SUFFICES ASSUME NEW v \in Workers, job'[v] \notin LookupJobs, pc'[v] \in Holding
               PROVE  /\ status'[job'[v]] = "running"
                      /\ pc'[v] \in Writing => seen'[v] = RowOf(job[v])'
    BY DEF OtherHeldRows, Holding, Writing, RowOf
  <2>1. pc[v] \in Holding /\ job'[v] = job[v]
    BY <1>1, <1>2
  <2>2. RowOf(job[v])' = RowOf(job[v])
    BY <1>1, <2>1 DEF RowOf
  <2> QED
    BY <1>1, <1>2, <2>1, <2>2 DEF OtherHeldRows
<1>5. ThreadsNeedServer' /\ StaleCoversRunning'
  BY <1>1 DEF ThreadsNeedServer, StaleCoversRunning, Alive
<1>6. OtherJobsExclusive' /\ OtherOrphanRows'
  BY <1>1, <1>3 DEF OtherJobsExclusive, OtherOrphanRows
<1>7. RunningWillEnd'
  <2> SUFFICES ASSUME NEW k \in Jobs, status[k] = "running", k \notin orphans
               PROVE  \E v \in Workers : WillWrite(v, k)'
    BY <1>1 DEF RunningWillEnd
  <2>1. PICK v \in Workers : WillWrite(v, k)
    BY <1>1 DEF RunningWillEnd
  <2>2. CASE v = w
    <3>1. pc'[w] \in Writing => seen'[w].status = "running"
      BY <1>2, <2>1, <2>2 DEF RowOf, WillWrite, Holds
    <3>2. WillWrite(v, k)'
      BY <1>3, <2>1, <2>2, <3>1 DEF WillWrite
    <3> QED
      BY <3>2
  <2>3. CASE v # w
    <3>1. WillWrite(v, k)'
      BY <1>1, <2>1, <2>3 DEF WillWrite, Holds
    <3> QED
      BY <3>1
  <2> QED
    BY <2>2, <2>3
<1> QED
  BY <1>4, <1>5, <1>6, <1>7

-----------------------------------------------------------------------------
(* ... by the server, and by the drain.                                    *)

\* A new row is nobody's.
LEMMA DrainedEnqueueStep ==
  ASSUME DInv, NEW j \in Jobs, Enqueue(j), UNCHANGED drainVars, DrainTypeOK', Selected'
  PROVE  DInv'
<1> USE DEF DInv, DrainTypeOK, TypeOK, QueueTypeOK, serverVars, threadVars
<1>1. /\ status[j] = "absent"
      /\ status' = [status EXCEPT ![j] = "queued"]
      /\ attempts' = [attempts EXCEPT ![j] = 0]
      /\ UNCHANGED <<serverVars, threadVars, orphans>>
  BY DEF Enqueue, EnqueueRow
<1>2. \A v \in Workers, k \in Jobs : /\ Holds(v, k)' <=> Holds(v, k)
                                     /\ WillWrite(v, k)' <=> WillWrite(v, k)
  BY <1>1 DEF Holds, WillWrite
<1>3. OtherHeldRows'
  <2> SUFFICES ASSUME NEW v \in Workers, job[v] \notin LookupJobs, pc[v] \in Holding
               PROVE  /\ status'[job[v]] = "running"
                      /\ pc[v] \in Writing => seen[v] = RowOf(job[v])'
    BY <1>1 DEF OtherHeldRows, Holding, Writing, RowOf
  <2>1. job[v] \in Jobs /\ job[v] # j
    BY <1>1 DEF OtherHeldRows, Selected, Holding
  <2> QED
    BY <1>1, <2>1 DEF OtherHeldRows, RowOf
<1>4. ThreadsNeedServer' /\ StaleCoversRunning'
  BY <1>1 DEF ThreadsNeedServer, StaleCoversRunning, Alive
<1>5. OtherJobsExclusive' /\ OtherOrphanRows'
  BY <1>1, <1>2 DEF OtherJobsExclusive, OtherOrphanRows
<1>6. RunningWillEnd'
  BY <1>1, <1>2 DEF RunningWillEnd, Alive
<1> QED
  BY <1>3, <1>4, <1>5, <1>6

\* Only the recovery writes rows: it gives back every row that says
\* "running", when there are no threads.
LEMMA DrainedServerStep ==
  ASSUME DInv, ServerStep, UNCHANGED drainVars, DrainTypeOK', Selected'
  PROVE  DInv'
<1> USE DEF DInv, DrainTypeOK, TypeOK, QueueTypeOK, serverVars, threadVars, queueVars
<1>1. CASE Start
  <2>1. /\ server = "down" /\ server' = "recovering"
        /\ stale' = {j \in Jobs : status[j] = "running"}
        /\ UNCHANGED <<queueVars, threadVars, orphans>>
    BY <1>1 DEF Start
  <2>2. OtherHeldRows' /\ OtherJobsExclusive' /\ OtherOrphanRows'
    BY <2>1 DEF OtherHeldRows, RowOf, OtherJobsExclusive, OtherOrphanRows, Holds
  <2>3. ThreadsNeedServer' /\ StaleCoversRunning' /\ RunningWillEnd'
    BY <2>1 DEF ThreadsNeedServer, StaleCoversRunning, RunningWillEnd, Alive
  <2> QED
    BY <2>2, <2>3
<1>2. CASE Recover
  <2>1. /\ server = "recovering" /\ server' = "up" /\ orphans' = {}
        /\ status' = [j \in Jobs |-> IF j \in stale THEN "queued" ELSE status[j]]
        /\ UNCHANGED <<attempts, threadVars>>
    BY <1>2 DEF Recover, RequeueRows
  <2>2. \A w \in Workers : pc[w] = "idle"
    BY <2>1 DEF ThreadsNeedServer, Alive
  <2>3. OtherHeldRows' /\ OtherJobsExclusive' /\ OtherOrphanRows'
    BY <2>1, <2>2 DEF OtherHeldRows, Holding, Writing, OtherJobsExclusive, OtherOrphanRows, Holds
  <2>4. ThreadsNeedServer' /\ StaleCoversRunning' /\ RunningWillEnd'
    BY <2>1, <2>2 DEF ThreadsNeedServer, StaleCoversRunning, RunningWillEnd, Alive
  <2> QED
    BY <2>3, <2>4
<1>3. CASE Stop \/ Exit
  <2>1. /\ UNCHANGED <<queueVars, stale, threadVars, orphans>>
        /\ server \in {"up", "stopping"} /\ server' \in {"stopping", "down"}
        /\ server' = "down" => \A w \in Workers : pc[w] = "idle"
    BY <1>3 DEF Stop, Exit
  <2>2. OtherHeldRows' /\ OtherJobsExclusive' /\ OtherOrphanRows'
    BY <2>1 DEF OtherHeldRows, RowOf, OtherJobsExclusive, OtherOrphanRows, Holds
  <2>3. ThreadsNeedServer' /\ StaleCoversRunning'
    BY <2>1 DEF ThreadsNeedServer, StaleCoversRunning, Alive
  <2>4. RunningWillEnd'
    BY <2>1 DEF RunningWillEnd, Alive, WillWrite, Holds
  <2> QED
    BY <2>2, <2>3, <2>4
<1>4. CASE Crash
  <2>1. /\ server' = "down"
        /\ pc' = [w \in Workers |-> "idle"]
        /\ UNCHANGED <<queueVars, orphans>>
    BY <1>4 DEF Crash
  <2>2. \A w \in Workers, k \in Jobs : ~Holds(w, k)'
    BY <2>1 DEF Holds, Holding
  <2>3. OtherHeldRows' /\ OtherJobsExclusive' /\ OtherOrphanRows'
    BY <2>1, <2>2 DEF OtherHeldRows, Holding, Writing, OtherJobsExclusive, OtherOrphanRows
  <2>4. ThreadsNeedServer' /\ StaleCoversRunning' /\ RunningWillEnd'
    BY <2>1 DEF ThreadsNeedServer, StaleCoversRunning, RunningWillEnd, Alive
  <2> QED
    BY <2>3, <2>4
<1> QED
  BY <1>1, <1>2, <1>3, <1>4 DEF ServerStep

\* The drain writes the rows of lookups only, and makes none of them run.
LEMMA DrainWrites ==
  ASSUME DInv, DrainStep
  PROVE  /\ \A j \in Jobs \ LookupJobs : status'[j] = status[j] /\ attempts'[j] = attempts[j]
         /\ \A j \in Jobs : status'[j] = "running" => status[j] = "running"
         /\ UNCHANGED <<serverVars, threadVars, orphans>>
<1> USE DEF DInv, DrainTypeOK, TypeOK, QueueTypeOK
<1>1. CASE DrainRead \/ DrainAbort
  BY <1>1 DEF DrainRead, DrainAbort, vars, queueVars
<1>2. CASE DrainCommit
  <2>1. UNCHANGED <<serverVars, threadVars, orphans>>
    BY <1>2 DEF DrainCommit
  <2>2. \A j \in Jobs \ LookupJobs : status'[j] = status[j] /\ attempts'[j] = attempts[j]
    BY <1>2 DEF DrainCommit
  <2>3. \A j \in Jobs : status'[j] = "running" => status[j] = "running"
    BY <1>2, DrainedStatusTyped DEF DrainCommit
  <2> QED
    BY <2>1, <2>2, <2>3
<1> QED
  BY <1>1, <1>2 DEF DrainStep

\* So the drain keeps what is left of the invariant.
LEMMA DrainKeepsInvariant ==
  ASSUME DInv, DrainStep
  PROVE  DInv'
<1> USE DEF DInv, DrainTypeOK, TypeOK, QueueTypeOK, serverVars, threadVars
<1>1. DrainTypeOK' /\ Selected'
  BY DrainStepTyped
<1>2. /\ \A j \in Jobs \ LookupJobs : status'[j] = status[j] /\ attempts'[j] = attempts[j]
      /\ \A j \in Jobs : status'[j] = "running" => status[j] = "running"
      /\ UNCHANGED <<serverVars, threadVars, orphans>>
  BY DrainWrites
<1>3. \A v \in Workers, k \in Jobs : /\ Holds(v, k)' <=> Holds(v, k)
                                     /\ WillWrite(v, k)' <=> WillWrite(v, k)
  BY <1>2 DEF Holds, WillWrite
<1>4. OtherHeldRows'
  <2> SUFFICES ASSUME NEW v \in Workers, job[v] \notin LookupJobs, pc[v] \in Holding
               PROVE  /\ status'[job[v]] = "running"
                      /\ pc[v] \in Writing => seen[v] = RowOf(job[v])'
    BY <1>2 DEF OtherHeldRows, Holding, Writing, RowOf
  <2>1. job[v] \in Jobs \ LookupJobs
    BY DEF Selected, Holding
  <2> QED
    BY <1>2, <2>1 DEF OtherHeldRows, RowOf
<1>5. OtherJobsExclusive' /\ OtherOrphanRows'
  BY <1>2, <1>3 DEF OtherJobsExclusive, OtherOrphanRows
<1>6. ThreadsNeedServer' /\ StaleCoversRunning'
  BY <1>2 DEF ThreadsNeedServer, StaleCoversRunning, Alive
<1>7. RunningWillEnd'
  BY <1>2, <1>3 DEF RunningWillEnd, Alive
<1> QED
  BY <1>1, <1>4, <1>5, <1>6, <1>7

-----------------------------------------------------------------------------
(* The theorems.                                                           *)

\* The invariant holds before anything runs.
LEMMA DrainInitInvariant == DrainInit => DInv
<1> SUFFICES ASSUME DrainInit PROVE DInv
  OBVIOUS
<1>1. Typed
  BY TypedInit DEF DrainInit
<1>2. DrainTypeOK /\ Selected
  BY <1>1, DrainAssumption DEF DrainInit, NoneCounted, DrainTypeOK, Typed
<1>3. OtherHeldRows /\ OtherJobsExclusive /\ OtherOrphanRows
  BY DEF DrainInit, Init, OtherHeldRows, OtherJobsExclusive, OtherOrphanRows, Holds, Holding, Writing
<1>4. ThreadsNeedServer /\ StaleCoversRunning /\ RunningWillEnd
  BY DEF DrainInit, Init, ThreadsNeedServer, StaleCoversRunning, RunningWillEnd, Alive
<1> QED
  BY <1>2, <1>3, <1>4 DEF DInv

\* No step of the server, of its threads or of the drain breaks it.
LEMMA DrainStepInvariant == DInv /\ [DrainNext]_allVars => DInv'
<1> SUFFICES ASSUME DInv, [DrainNext]_allVars PROVE DInv'
  OBVIOUS
<1>1. CASE Next /\ UNCHANGED drainVars
  <2>1. DrainTypeOK' /\ Selected'
    BY <1>1, PoolStepTyped DEF DInv
  <2>2. CASE \E j \in Jobs : Enqueue(j)
    BY <1>1, <2>1, <2>2, DrainedEnqueueStep
  <2>3. ASSUME NEW w \in Workers, ThreadStep(w) PROVE DInv'
    BY <1>1, <2>1, <2>3, DrainedOutcomeStep, DrainedClaimStep, DrainedLoseOutcomeStep, DrainedQuietStep
  <2>4. CASE ServerStep
    BY <1>1, <2>1, <2>4, DrainedServerStep
  <2> QED
    BY <1>1, <2>2, <2>3, <2>4 DEF Next
<1>2. CASE DrainStep
  BY <1>2, DrainKeepsInvariant
<1>3. CASE UNCHANGED allVars
  BY <1>3 DEF allVars, drainVars, vars, queueVars, serverVars, threadVars, DInv, DrainTypeOK, TypeOK,
              QueueTypeOK, Selected, ThreadsNeedServer, Alive, OtherHeldRows, RowOf,
              OtherJobsExclusive, Holds, OtherOrphanRows, StaleCoversRunning, RunningWillEnd, WillWrite
<1> QED
  BY <1>1, <1>2, <1>3 DEF DrainNext

\* The invariant holds in every behaviour of the pools and the drain.
THEOREM DrainInvariantHolds == DrainSpec => []DInv
  BY DrainInitInvariant, DrainStepInvariant, PTL DEF DrainSpec

\* Every variable keeps its type, the drain's among them.
THEOREM DrainTypeCorrect == DrainSpec => []DrainTypeOK
  BY DrainInvariantHolds, PTL DEF DInv

\* However often the drain overwrites their rows, a live server abandons no
\* job: a row that says "running" has a thread on it, or lost its outcome.
THEOREM NoRowAbandoned == DrainSpec => []RunningHasOwner
<1>1. DInv => RunningHasOwner
  BY DEF DInv, RunningWillEnd, WillWrite, RunningHasOwner
<1> QED
  BY <1>1, DrainInvariantHolds, PTL

\* The drain costs the jobs of other types nothing: no two threads have one
\* of them in hand at once.
THEOREM OthersExclusive == DrainSpec => []OtherJobsExclusive
  BY DrainInvariantHolds, PTL DEF DInv

-----------------------------------------------------------------------------
(* The lifecycle of the jobs the drain does not read.                      *)

\* A step that leaves the rows of those jobs as they are is none of theirs.
LEMMA OthersStand ==
  ASSUME \A j \in Others : status'[j] = status[j] /\ attempts'[j] = attempts[j]
  PROVE  UNCHANGED OtherLifecycle!queueVars
BY DEF OtherLifecycle!queueVars

\* A job that is not the drain's is moved, and the others stay.
LEMMA OneOther ==
  ASSUME DInv, NEW j \in Others, NEW to,
         status' = [status EXCEPT ![j] = to]
  PROVE  [k \in Others |-> status[k]]' = [[k \in Others |-> status[k]] EXCEPT ![j] = to]
<1>1. status \in [Jobs -> Statuses]
  BY DEF DInv, DrainTypeOK, TypeOK, QueueTypeOK
<1>2. \A k \in Others : status'[k] = IF k = j THEN to ELSE status[k]
  BY <1>1 DEF Others
<1> QED
  BY <1>2

\* So with its attempts.
LEMMA OneOtherCount ==
  ASSUME DInv, NEW j \in Others, NEW n,
         attempts' = [attempts EXCEPT ![j] = n]
  PROVE  [k \in Others |-> attempts[k]]' = [[k \in Others |-> attempts[k]] EXCEPT ![j] = n]
<1>1. attempts \in [Jobs -> Nat]
  BY DEF DInv, DrainTypeOK, TypeOK, QueueTypeOK
<1>2. \A k \in Others : attempts'[k] = IF k = j THEN n ELSE attempts[k]
  BY <1>1 DEF Others
<1> QED
  BY <1>2

\* Every step is a step of the lifecycle for the jobs the drain does not read,
\* or leaves them alone.
LEMMA OtherStepRefines ==
  DInv /\ [DrainNext]_allVars => [OtherLifecycle!LifecycleNext]_(OtherLifecycle!queueVars)
<1> SUFFICES ASSUME DInv, [DrainNext]_allVars
             PROVE  [OtherLifecycle!LifecycleNext]_(OtherLifecycle!queueVars)
  OBVIOUS
<1> DEFINE Goal == [OtherLifecycle!LifecycleNext]_(OtherLifecycle!queueVars)
<1> USE DEF OtherLifecycle!LifecycleNext
<1>0. status \in [Jobs -> Statuses] /\ attempts \in [Jobs -> Nat]
  BY DEF DInv, DrainTypeOK, TypeOK, QueueTypeOK
<1>1. ASSUME NEW j \in Jobs, Enqueue(j) PROVE Goal
  <2>1. CASE j \in Others
    <3>1. status[j] = "absent" /\ status' = [status EXCEPT ![j] = "queued"]
          /\ attempts' = [attempts EXCEPT ![j] = 0]
      BY <1>1 DEF Enqueue, EnqueueRow
    <3> QED
      BY <2>1, <3>1, OneOther, OneOtherCount DEF OtherLifecycle!Submit, OtherLifecycle!EnqueueRow
  <2>2. CASE j \notin Others
    BY <1>1, <2>2, <1>0, OthersStand DEF Enqueue, EnqueueRow, Others
  <2> QED
    BY <2>1, <2>2
<1>2. ASSUME NEW w \in Workers, ThreadStep(w) PROVE Goal
  <2> DEFINE j == job[w]
  <2>1. CASE Claim(w)
    <3>1. j \in Jobs /\ status[j] = "queued" /\ status' = [status EXCEPT ![j] = "running"]
          /\ attempts' = [attempts EXCEPT ![j] = attempts[j] + 1]
      BY <2>1 DEF Claim, ClaimRow, Goto, DInv, Selected
    <3>2. CASE j \in Others
      BY <3>1, <3>2, OneOther, OneOtherCount DEF OtherLifecycle!Begin, OtherLifecycle!ClaimRow
    <3>3. CASE j \notin Others
      BY <3>1, <3>3, <1>0, OthersStand DEF Others
    <3> QED
      BY <3>2, <3>3
  <2>2. CASE Complete(w) \/ Fail(w)
    <3>1. j \in Jobs /\ pc[w] \in Writing /\ pc[w] \in Holding
          /\ \/ status' = status
             \/ \E to : status' = [status EXCEPT ![j] = to]
          /\ attempts' = attempts
      BY <2>2 DEF DInv, Selected, Complete, Fail, SaveStatus, Holding, Writing
    <3>2. CASE j \notin Others
      BY <3>1, <3>2, <1>0, OthersStand DEF Others
    <3>3. CASE j \in Others
      <4>1. status[j] = "running" /\ seen[w] = RowOf(j)
        BY <3>1, <3>3 DEF DInv, OtherHeldRows, Others
      <4>2. seen[w].status = "running" /\ seen[w].attempts = attempts[j]
        BY <4>1 DEF RowOf
      <4>3. attempts[j] \in Nat /\ AttemptLimit(j) \in Nat
        BY <1>0, <3>1, LimitPositive
      <4>4. OtherLifecycle!AttemptLimit(j) = AttemptLimit(j)
        BY <3>3 DEF AttemptLimit, OtherLifecycle!AttemptLimit
      <4>5. [k \in Others |-> attempts[k]]' = [k \in Others |-> attempts[k]]
        BY <3>1
      <4>6. CASE Complete(w)
        <5>1. status' = [status EXCEPT ![j] = "completed"]
          BY <4>2, <4>6 DEF Complete, SaveStatus
        <5> QED
          BY <3>3, <4>1, <4>5, <5>1, OneOther DEF OtherLifecycle!Succeed, OtherLifecycle!Move
      <4>7. CASE Fail(w) /\ attempts[j] >= AttemptLimit(j)
        <5>1. status' = [status EXCEPT ![j] = "failed"]
          BY <4>2, <4>7 DEF Fail, SaveStatus, StatusAfterFailure
        <5> QED
          BY <3>3, <4>1, <4>4, <4>5, <4>7, <5>1, OneOther
          DEF OtherLifecycle!GiveUp, OtherLifecycle!Move
      <4>8. CASE Fail(w) /\ ~(attempts[j] >= AttemptLimit(j))
        <5>1. status' = [status EXCEPT ![j] = "queued"] /\ attempts[j] < AttemptLimit(j)
          BY <4>2, <4>3, <4>8 DEF Fail, SaveStatus, StatusAfterFailure
        <5> QED
          BY <3>3, <4>1, <4>4, <4>5, <5>1, OneOther DEF OtherLifecycle!Retry, OtherLifecycle!Move
      <4> QED
        BY <2>2, <4>6, <4>7, <4>8
    <3> QED
      BY <3>2, <3>3
  <2>3. CASE ~(Claim(w) \/ Complete(w) \/ Fail(w))
    <3>1. UNCHANGED queueVars
      BY <1>2, <2>3
         DEF ThreadStep, SelectCandidate, LoseClaim, ClaimError, HandlerReturns, HandlerRaises,
             ReadRow, LoseOutcome
    <3> QED
      BY <3>1, OthersStand DEF queueVars
  <2> QED
    BY <2>1, <2>2, <2>3
<1>3. CASE Recover
  <2>1. attempts' = attempts /\ status' = [j \in Jobs |-> IF j \in stale THEN "queued" ELSE status[j]]
        /\ \A j \in Others : j \in stale <=> status[j] = "running"
    BY <1>3 DEF Recover, RequeueRows, DInv, StaleCoversRunning, Others
  <2>2. \A j \in Others : status'[j] = IF status[j] = "running" THEN "queued" ELSE status[j]
    BY <2>1 DEF Others
  <2> QED
    BY <2>1, <2>2 DEF OtherLifecycle!Interrupt, OtherLifecycle!RequeueRows
<1>4. CASE Start \/ Stop \/ Exit \/ Crash
  BY <1>4, OthersStand DEF Start, Stop, Exit, Crash, queueVars
<1>5. CASE DrainStep
  BY <1>5, DrainWrites, OthersStand DEF Others
<1>6. CASE UNCHANGED allVars
  BY <1>6, OthersStand DEF allVars, vars, queueVars
<1> QED
  BY <1>1, <1>2, <1>3, <1>4, <1>5, <1>6 DEF DrainNext, Next, ServerStep

\* However many drains run, and whatever they do to the rows of the lookups,
\* the pools implement the lifecycle promised of every other job.
THEOREM OthersRefine == DrainSpec => OthersImplementLifecycle
<1>1. DrainInit => OtherLifecycle!QueueInit
  <2> SUFFICES ASSUME DrainInit PROVE OtherLifecycle!QueueInit
    OBVIOUS
  <2>1. \A j \in Others : status[j] = "absent" /\ attempts[j] = 0
    BY DEF DrainInit, Init, QueueInit, Others
  <2> QED
    BY <2>1 DEF OtherLifecycle!QueueInit
<1> QED
  BY <1>1, OtherStepRefines, DrainInvariantHolds, PTL
  DEF DrainSpec, OthersImplementLifecycle, OtherLifecycle!LifecycleSpec

\* ... so that no step, of a thread, a recovery or a commit of the drain,
\* touches one of them that has completed or failed.
THEOREM OthersFinal ==
  DrainSpec => [][\A j \in Others : status[j] \in Terminal =>
                    status'[j] = status[j] /\ attempts'[j] = attempts[j]]_allVars
<1> DEFINE Settled == \A j \in Others : status[j] \in Terminal =>
                         status'[j] = status[j] /\ attempts'[j] = attempts[j]
           Quiet(j) == status'[j] = status[j] /\ attempts'[j] = attempts[j]
<1>1. DInv /\ [DrainNext]_allVars => [Settled]_allVars
  <2> SUFFICES ASSUME DInv, [DrainNext]_allVars, NEW j \in Others, status[j] \in Terminal
               PROVE  Quiet(j)
    OBVIOUS
  <2> DEFINE s == [k \in Others |-> status[k]]
             a == [k \in Others |-> attempts[k]]
  <2>1. s'[j] = s[j] /\ a'[j] = a[j] => Quiet(j)
    OBVIOUS
  <2>2. [OtherLifecycle!LifecycleNext]_(OtherLifecycle!queueVars)
    BY OtherStepRefines
  <2>3. CASE UNCHANGED OtherLifecycle!queueVars
    BY <2>1, <2>3 DEF OtherLifecycle!queueVars
  <2>4. ASSUME NEW k \in Others,
               \/ OtherLifecycle!Submit(k) \/ OtherLifecycle!Begin(k) \/ OtherLifecycle!Succeed(k)
               \/ OtherLifecycle!Retry(k) \/ OtherLifecycle!GiveUp(k)
        PROVE  Quiet(j)
    <3>1. k # j
      BY <2>4 DEF OtherLifecycle!Submit, OtherLifecycle!Begin, OtherLifecycle!Succeed,
                  OtherLifecycle!Retry, OtherLifecycle!GiveUp, OtherLifecycle!Move,
                  OtherLifecycle!EnqueueRow, OtherLifecycle!ClaimRow, Terminal
    <3>2. s'[j] = s[j] /\ a'[j] = a[j]
      BY <2>4, <3>1
         DEF OtherLifecycle!Submit, OtherLifecycle!Begin, OtherLifecycle!Succeed,
             OtherLifecycle!Retry, OtherLifecycle!GiveUp, OtherLifecycle!Move,
             OtherLifecycle!EnqueueRow, OtherLifecycle!ClaimRow
    <3> QED
      BY <2>1, <3>2
  <2>5. CASE OtherLifecycle!Interrupt
    BY <2>1, <2>5 DEF OtherLifecycle!Interrupt, OtherLifecycle!RequeueRows, Terminal
  <2> QED
    BY <2>2, <2>3, <2>4, <2>5 DEF OtherLifecycle!LifecycleNext
<1> QED
  BY <1>1, DrainInvariantHolds, PTL DEF DrainSpec
=============================================================================
