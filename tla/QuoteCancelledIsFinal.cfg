SPECIFICATION Spec
CONSTANTS
  Requests = {r1, r2}
  QuoteIds = {q1}
  Contents = {c1}
  AskedStatuses = {"DIAGNOSIS", "QUOTED", "CANCELLED"}
  NoQuote = NoQuote
  NoRequest = NoRequest
PROPERTIES
  CancelledIsFinal
