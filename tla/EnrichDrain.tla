----------------------------- MODULE EnrichDrain -----------------------------
(***************************************************************************)
(* The worker pools together with `buku enrich`, the command that drains   *)
(* queued metadata_lookup jobs from a process of its own                   *)
(* (process_metadata_jobs in metadata/enrichment.py).                      *)
(*                                                                         *)
(* The drain reads its batch of queued rows, runs each lookup and writes   *)
(* every outcome in one transaction committed at the very end.  Nothing it *)
(* does shows in the table before that commit, and the commit overwrites   *)
(* the rows whatever became of them: the claim is not conditional, and the *)
(* attempt count is the one it read plus one.  What the drain holds of the *)
(* database lock before its commit only delays the workers' writes or      *)
(* makes them fail, which JobWorker allows at any time.                    *)
(***************************************************************************)
EXTENDS JobWorker, FiniteSets

CONSTANTS
  LookupJobs,   \* the jobs of type metadata_lookup
  DrainLimit,   \* --limit
  MaxDrains     \* bound: how often the command is run

ASSUME DrainAssumption ==
  /\ LookupJobs \subseteq Jobs
  /\ DrainLimit \in Nat \ {0}
  /\ MaxDrains \in Nat

VARIABLES
  drains,       \* how often the drain has begun
  batch,        \* the jobs it has read, {} when it does not run
  counted       \* their attempts as it read them

drainVars == <<drains, batch, counted>>
allVars == <<vars, drainVars>>

QueuedLookups == {j \in LookupJobs : status[j] = "queued"}

\* The first DrainLimit of a set of jobs, in queue order.
FirstOf(S, B) ==
  /\ B \subseteq S
  /\ Cardinality(B) = IF Cardinality(S) < DrainLimit THEN Cardinality(S) ELSE DrainLimit
  /\ \A b \in B, k \in S \ B : b < k

NoneCounted == [j \in Jobs |-> 0]

DrainTypeOK ==
  /\ TypeOK
  /\ drains \in 0 .. MaxDrains
  /\ batch \subseteq LookupJobs
  /\ counted \in [Jobs -> Nat]

DrainInit ==
  /\ Init
  /\ drains = 0
  /\ batch = {}
  /\ counted = NoneCounted

DrainRead ==
  /\ batch = {}
  /\ drains < MaxDrains
  /\ \E B \in SUBSET LookupJobs :
       /\ FirstOf(QueuedLookups, B)
       /\ batch' = B
       /\ counted' = [j \in Jobs |-> IF j \in B THEN attempts[j] ELSE 0]
  /\ drains' = drains + 1
  /\ UNCHANGED vars

EndDrain ==
  /\ batch' = {}
  /\ counted' = NoneCounted
  /\ UNCHANGED drains

\* Mutant of DrainedStatus: a lookup to be retried is left "running".
DrainedRunning(j, done, flushed) ==
  LET new == StatusAfterFailure(j, counted[j] + 1) IN
  IF j \in done THEN "completed" ELSE IF new = "queued" THEN "running" ELSE new

\* The status the drain leaves of a job: "done" are the lookups that
\* succeeded, "flushed" the failed ones whose "running" the session had
\* already sent, so that going back to "queued" is a change it writes.
DrainedStatus(j, done, flushed) ==
  LET new == StatusAfterFailure(j, counted[j] + 1) IN
  IF j \in done THEN "completed"
  ELSE IF new = "queued" /\ j \notin flushed THEN status[j]
  ELSE new

DrainCommit ==
  /\ batch # {}
  /\ \E done \in SUBSET batch : \E flushed \in SUBSET (batch \ done) :
       status' = [j \in Jobs |-> IF j \in batch THEN DrainedStatus(j, done, flushed)
                                 ELSE status[j]]
  /\ attempts' = [j \in Jobs |-> IF j \in batch THEN counted[j] + 1 ELSE attempts[j]]
  /\ EndDrain
  /\ UNCHANGED <<serverVars, threadVars, orphans>>

\* The command is killed, or a flush fails and takes the session with it.
DrainAbort ==
  /\ batch # {}
  /\ EndDrain
  /\ UNCHANGED vars

DrainStep == DrainRead \/ DrainCommit \/ DrainAbort

DrainNext ==
  \/ Next /\ UNCHANGED drainVars
  \/ DrainStep

DrainSpec == DrainInit /\ [][DrainNext]_allVars

\* The server's fairness; the command is started or not, and ends.
FairDrainSpec ==
  /\ DrainSpec
  /\ Fairness
  /\ WF_allVars(DrainCommit \/ DrainAbort)

-----------------------------------------------------------------------------
(* Properties.                                                             *)

\* However the drain interferes, a row left "running" in a live server has a
\* thread working on it, or lost its outcome: no row is abandoned.
RunningHasOwner ==
  Alive => \A j \in Jobs :
             status[j] = "running" => (\E w \in Workers : Holds(w, j))
                                      \/ j \in orphans

\* Jobs of the types the drain does not read keep the guarantee that two
\* threads never execute one of them together.
OtherJobsExclusive ==
  \A v, w \in Workers : \A j \in Jobs \ LookupJobs :
    Holds(v, j) /\ Holds(w, j) => v = w

Others == Jobs \ LookupJobs

OtherLifecycle == INSTANCE JobLifecycle WITH
  Jobs <- Others,
  PoolOf <- [j \in Others |-> PoolOf[j]],
  MaxAttempts <- [j \in Others |-> MaxAttempts[j]],
  status <- [j \in Others |-> status[j]],
  attempts <- [j \in Others |-> attempts[j]]

\* ... and the whole lifecycle promised of each of them, whatever the drain
\* does to the rows beside theirs: the attempts counted, the limit kept, an
\* interrupted one taken up again, a settled one left alone for good.
OthersImplementLifecycle == OtherLifecycle!LifecycleSpec
=============================================================================
