SPECIFICATION FairSpec
CONSTANTS
  m0 = m0
  m1 = m1
  s0 = s0
  metadata = metadata
  scan = scan
  NoJob = NoJob
  Jobs = {1, 2, 3}
  Pools = {metadata, scan}
  Workers = {m0, m1, s0}
  PoolOf <- MCPoolOf
  MaxAttempts <- MCMaxAttempts
  ServesPool <- MCServesPool
  MaxStarts = 2
INVARIANTS
  TypeOK
  ExclusiveExecution
  RunningMeansOwned
  AttemptsBounded
PROPERTIES
  SettledIsFinal
  ImplementsLifecycle
  EveryJobSettles
CHECK_DEADLOCK FALSE
