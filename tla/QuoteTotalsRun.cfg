SPECIFICATION Spec
CONSTANTS
  Scale = 10
  Quantities = {1, 5, 15}
  Prices = {1, 7}
  Amounts = {0, 4, 12}
  MaxMoney = 24
  MaxItems = 2
  MaxVersions = 2
  None = None
CHECK_DEADLOCK FALSE
INVARIANTS
  TypeOK
  FiguresAddUp
  TotalCoversTax
  SubtotalNearExact
