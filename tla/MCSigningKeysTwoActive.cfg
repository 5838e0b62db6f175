SPECIFICATION Spec
CONSTANTS
  Proc = {p1, p2}
  Kid = {k1, k2, k3}
  Secret = {s1, s2}
  Null = Null
  NoKey = NoKey
  ActivePeriod = 2
  Grace = 2
  AccessTTL = 1
  MaxTxTime = 1
  MaxTime = 3
SYMMETRY Symmetry
INVARIANTS
  SingleActiveKey
