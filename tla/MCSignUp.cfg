SPECIFICATION FairSpec
CONSTANTS
  Proc = {p1, p2, p3}
  Id = {i1, i2, i3}
  Null = Null
  ana = ana
  ANA = ANA
  bob = bob
  Spelling <- MCSpelling
  Normal <- MCNormal
INVARIANTS
  TypeOK
  OneAccountPerAddress
  AnswersAreTrue
PROPERTIES
  EverySignUpAnswered
  ImplementsRegistry
