SPECIFICATION Spec
CONSTANTS
  Proc = {p1, p2}
  Sid = {s1, s2, s3}
  Null = Null
  NoRow = NoRow
  RefreshTTL = 2
  MaxTime = 1
SYMMETRY Symmetry
PROPERTIES
  ReuseKillsFamily
