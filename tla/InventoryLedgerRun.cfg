SPECIFICATION Spec
CONSTANTS
  Requests = {r1, r2}
  Categories = {c1}
  MaxQuantity = 2
  MaxMovements = 3
  NoCategory = NoCategory
  Keep = Keep
  NoRequest = NoRequest
SYMMETRY Symmetry
INVARIANTS
  TypeOK
  LedgerExplainsStock
PROPERTIES
  OnlyLateAssignments
  ImplementsStockAccount
