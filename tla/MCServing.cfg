SPECIFICATION Spec
CONSTANTS
  Parts = {"auth", "cache", "session", "feed", "progress"}
  Names = {n1, n2}
  MaxUsers = 2
  Callers = {c1, c2}
  Tokens = {t1, t2}
  NoToken = NoToken
  Lifetime = 1
  MaxClock = 2
  Books = {b1, b2}
  NoBook = NoBook
  Readers = {r1, r2}
  Capacity = 1
  Unsound = {3}
  MaxVersion = 3
  i1 = i1
  i2 = i2
  m1 = m1
  m2 = m2
  Members = {m1, m2}
  Ids = {i1, i2}
  Nowhere = Nowhere
  Packages <- MCPackages
  MaxBooks = 3
  Titles = {1, 2}
  PageSizes = {1, 2}
  OpdsPageSize = 2
  WebPageSize = 1
  MaxMoves = 1
  NoKey = NoKey
  NoRecord = NoRecord
  Keys = {k1, k2}
  Requests = {q1, q2}
  Positions = {a, b}
  Devices = {a, b}
  Times = {1, 2, 3}
  Serial = {k1}
SYMMETRY Alike
INVARIANTS
  TypeOK
  ServedConsistent
  CreatedOnce
PROPERTIES
  AdmittedIsLive
  RevokedStaysDead
  LinksLand
  QuietCrawlExact
  GrowingCrawlComplete
  FreshWriteIsWhole
  ImplementsRegister
CHECK_DEADLOCK FALSE
