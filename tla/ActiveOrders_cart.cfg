SPECIFICATION Spec
CONSTANTS
  NoToken = NoToken
  Sessions = {s1, s2}
  Requests = {r1, r2}
  Variants = {v1, v2}
  LineLimit = 2
  ItemsLimit = 2
  MaxOrders = 2
SYMMETRY ClientSymmetry
INVARIANTS
  TypeOK
  OneActiveOrder
  GuestsHaveTheirOwn
  NoDanglingSession
PROPERTIES
  PlacedIsKept
  SignInKeepsBoth
