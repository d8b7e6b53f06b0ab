SPECIFICATION FairDrainSpec
CONSTANTS
  m0 = m0
  m1 = m1
  metadata = metadata
  NoJob = NoJob
  Jobs = {1, 2}
  LookupJobs = {1}
  Pools = {metadata}
  Workers = {m0, m1}
  PoolOf <- MCPoolOf
  MaxAttempts <- MCMaxAttempts
  ServesPool <- MCServesPool
  MaxStarts = 2
  DrainLimit = 2
  MaxDrains = 2
INVARIANTS
  DrainTypeOK
  RunningHasOwner
  OtherJobsExclusive
PROPERTIES
  OthersImplementLifecycle
  EveryJobSettles
CHECK_DEADLOCK FALSE
