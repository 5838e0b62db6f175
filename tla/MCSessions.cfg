SPECIFICATION Spec
CONSTANTS
  Proc = {p1, p2}
  Sid = {s1, s2, s3}
  Null = Null
  NoRow = NoRow
  RefreshTTL = 2
  MaxTime = 2
SYMMETRY Symmetry
INVARIANTS
  TypeOK
  LockedCopyIsCurrent
  OneLeaf
  ChainLinks
  RowWaitsStayInFamily
  DeadlocksAreAmongKills
PROPERTIES
  StampsStick
  DeadStaysDead
  SnapshotRevoked
  RevokedAnswerMeansDeadFamily
