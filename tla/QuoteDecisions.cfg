SPECIFICATION Spec
CONSTANTS
  Requests = {r1, r2}
  QuoteIds = {q1, q2}
  Contents = {c1, c2}
  AskedStatuses = {"RECEIVED", "DIAGNOSIS", "QUOTED", "APPROVED", "IN_PROGRESS",
    "QUALITY_CONTROL", "READY_FOR_DELIVERY", "DELIVERED", "CANCELLED"}
  NoQuote = NoQuote
  NoRequest = NoRequest
SYMMETRY Symmetry
INVARIANTS
  NoOpenQuoteOnCancelledOrder
PROPERTIES
  EveryQuoteMoveIsAllowed
  OnlyDraftsEdited
  ApprovalMovesOrder
  ActivationNeverMovesBack
  StatusIsRecorded
