SPECIFICATION Spec
CONSTANTS
  Proc = {p1, p2}
  User = {ana, bob}
  Claim = {c1, c2}
  Pid = {x1, x2}
  Tid = {t1, t2}
  Text = {a, b}
  Null = Null
  NoRow = NoRow
SYMMETRY Symmetry
INVARIANTS
  TypeOK
  NoOrphans
  CallerIsMirrored
  DeletedIsFinal
PROPERTIES
  OnlyOwnersWrite
  FirstSightStays
  NotFoundIsTrue
  ImplementsOwnedStore
