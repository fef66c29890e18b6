SPECIFICATION Spec
CONSTANTS
  Requests = {r1, r2}
  Technicians = {t1}
  Details = {x1, x2}
  Base = 3
  Width = 1
  MaxCode = 4
  None = None
SYMMETRY Symmetry
INVARIANTS
  TypeOK
  CodesEndAtWidth
PROPERTIES
  ImplementsDesk
  OnlyLateWritesSlipThrough
