SPECIFICATION Spec
CONSTANTS
  Requests = {r1, r2}
  Users = {u1, u2, u3}
  NoRequest = NoRequest
  NoUser = NoUser
  Keep = Keep
SYMMETRY Symmetry
PROPERTIES
  OnlyOwnerHandsOver
