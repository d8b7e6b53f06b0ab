SPECIFICATION DrainSpec
CONSTANTS
  m0 = m0
  m1 = m1
  metadata = metadata
  NoJob = NoJob
  Jobs = {1, 2, 3}
  LookupJobs = {1, 2}
  Pools = {metadata}
  Workers = {m0, m1}
  PoolOf <- MCPoolOf
  MaxAttempts <- MCMaxAttempts
  ServesPool <- MCServesPool
  MaxStarts = 2
  DrainLimit = 2
  MaxDrains = 1
INVARIANT
  ExclusiveExecution
CHECK_DEADLOCK FALSE
