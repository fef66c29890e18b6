SPECIFICATION Spec
CONSTANTS
  Requests = {r1, r2}
  Customers = {c1, c2}
  Vehicles = {v1, v2}
  Orders = {o1, o2}
  Diagnoses = {d1}
  Documents = {k1}
  Plates = {p1, p2}
  Texts = {x1, x2}
  None = None
SYMMETRY Symmetry
INVARIANTS
  TypeOK
  OrderVehicleIsCustomers
PROPERTIES
  ImplementsArchive
CHECK_DEADLOCK FALSE
