SPECIFICATION Spec
CONSTANTS
  NoToken = NoToken
  Sessions = {s1, s2}
  Requests = {r1, r2}
  Variants = {v1, v2}
  LineLimit = 2
  ItemsLimit = 2
  MaxOrders = 2
SYMMETRY ClientSymmetry
PROPERTIES
  SignInMergesBoth
