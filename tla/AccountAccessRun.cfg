SPECIFICATION Spec
CONSTANTS
  Requests = {r1, r2}
  Sessions = {s1, s2}
  Memberships = {m1, m2}
  MaxTokens = 2
  Neutral = Neutral
  NoSession = NoSession
SYMMETRY Symmetry
INVARIANTS
  TypeOK
  TemporaryPasswordReachesNothing
PROPERTIES
  ImplementsAccess
