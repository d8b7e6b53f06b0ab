SPECIFICATION Spec
CONSTANTS
  Parts = {"scan", "match", "cache", "migrations", "x4"}
  pa = pa
  pb = pb
  pc = pc
  A = A
  AB = AB
  v1 = v1
  v2 = v2
  v3 = v3
  h1 = h1
  h2 = h2
  h3 = h3
  small = small
  large = large
  novel = novel
  Nothing = Nothing
  Unreadable = Unreadable
  Paths = {pa, pb, pc}
  Folders = {A, AB}
  FolderOf <- MCFolderOf
  Under <- MCUnder
  Links <- MCLinks
  Versions = {v1, v2, v3}
  Looks = {small, large}
  Hashes = {h1, h2, h3}
  Titles = {novel}
  LookOf <- MCLookOf
  HashOf <- MCHashOf
  TitleOf <- MCTitleOf
  MaxMishaps = 2
  w1 = w1
  w2 = w2
  isbn1 = isbn1
  isbn2 = isbn2
  title1 = title1
  author1 = author1
  author2 = author2
  NoIsbn = NoIsbn
  NoTitle = NoTitle
  Volumes = {w1, w2}
  VolumeOf <- MCVolumeOf
  Facts <- MCFacts
  Resembling = {}
  MaxFound = 2
  Lookups = {l1, l2}
  Reviewers = {r1}
  MaxRows = 2
  Artifacts = {p1, p2}
  Sizes = {0, 2}
  SidecarSize = 1
  MaxBytes = 2
  Upkeepers = {j1, j2}
  MaxStores = 2
  Migrators = {g1, g2}
  Catalog = {k1, k2}
  e1 = e1
  e2 = e2
  ItemIds = {e1, e2}
  ItemMembers = {q1, q2}
  Editions <- MCEditions
  l1 = l1
  l2 = l2
SYMMETRY Alike
INVARIANTS
  TypeOK
  OnePerPath
  StampedIsWhole
  LocatorsSurvive
PROPERTIES
  QuietScanSyncs
  MovedKeepsRow
  EvictionFits
  RejectedNotPending
  AutoAppliedIsCertain
CHECK_DEADLOCK FALSE
