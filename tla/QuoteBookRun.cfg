SPECIFICATION Spec
CONSTANTS
  Requests = {r1, r2}
  QuoteIds = {q1, q2, q3}
  Contents = {c1}
  AskedStatuses = {"DIAGNOSIS", "QUOTED", "CANCELLED"}
  NoQuote = NoQuote
  NoRequest = NoRequest
SYMMETRY Symmetry
INVARIANTS
  TypeOK
  IndexesNeverNeeded
  DraftIsLatest
  LineageIsAChain
  SupersededHasSuccessor
PROPERTIES
  ImplementsBook
