SPECIFICATION FairSpec
CONSTANTS
  Requests = {r1, r2}
  QuoteIds = {q1}
  Contents = {c1}
  AskedStatuses = {"DIAGNOSIS", "CANCELLED"}
  NoQuote = NoQuote
  NoRequest = NoRequest
PROPERTIES
  RequestsEnd
