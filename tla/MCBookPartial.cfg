SPECIFICATION Spec
CONSTANTS
  Parts = {"representation"}
  f1 = f1
  f2 = f2
  v1 = v1
  v2 = v2
  s1 = s1
  s2 = s2
  Empty = Empty
  Keep = Keep
  Nobody = Nobody
  Fields = {f1}
  Values = {v1, v2}
  Sessions = {s1, s2}
  Kinds = {"enrich", "missing", "fields", "edit"}
  h1 = h1
  h2 = h2
  t1 = t1
  t2 = t2
  NoHash = NoHash
  NoId = NoId
  NoFile = NoFile
  NoThread = NoThread
  Mixed = Mixed
  Hashes = {h1, h2}
  Threads = {t1, t2}
  Ids = {1, 2, 3}
  Overlap = TRUE
  MaxReplaced = 0
  MaxCrashes = 0
PROPERTY
  ServedIsWhole
CHECK_DEADLOCK FALSE
