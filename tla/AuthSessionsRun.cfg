SPECIFICATION Spec
CONSTANTS
  Requests = {r1, r2}
  Sessions = {s1, s2}
  Tokens = {t1, t2, t3}
  RefreshTtl = 2
  Grace = 1
  MaxTime = 3
  NoToken = NoToken
  NoSession = NoSession
  Never = Never
SYMMETRY Symmetry
INVARIANTS
  TypeOK
  FamilyIsAChain
PROPERTIES
  ClosingReachesEveryToken
  WindowKeepsSession
  ImplementsRegister
