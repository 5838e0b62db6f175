SPECIFICATION FairClientSpec
CONSTANTS
  Proc = {p1, p2}
  Sid = {1, 2, 3}
  Client = {c1}
  Null = Null
  NoRow = NoRow
  RefreshTTL = 1
  MaxTime = 1
ACTION_CONSTRAINT
  NumberedInOrder
INVARIANTS
  ClientTypeOK
  PatientClientStaysSignedIn
PROPERTIES
  RefusalIsFinal
  ReleaseIsFinal
  EveryRequestAnswered
  ImplementsTokenChain
