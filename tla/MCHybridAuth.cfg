SPECIFICATION FairHybridSpec
CONSTANTS
  Proc = {p1}
  Kid = {k1, k2}
  Req = {r1, r2}
  Secret = {s1}
  Null = Null
  NoKey = NoKey
  NoSet = NoSet
  NoKid = NoKid
  ActivePeriod = 1
  Grace = 2
  AccessTTL = 1
  MaxTxTime = 1
  MaxTime = 2
  Skew = 1
INVARIANTS
  VerifierTypeOK
PROPERTIES
  NoFalseReject
  EveryDecodeAnswered
