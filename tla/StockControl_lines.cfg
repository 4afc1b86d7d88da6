SPECIFICATION Spec
CONSTANTS
  Lines = {l1, l2}
  InitialStock = 2
  OutOfStockThreshold = 0
  MaxQuantity = 2
  MaxStock = 0
  MaxAdjusted = 2
  MaxAgain = 1
  MaxFulfillments = 2
  MaxAllocated = 2
SYMMETRY LineSymmetry
INVARIANTS
  TypeOK
  LedgerMatchesLevel
  UnfulfilledUnitsAllocated
PROPERTIES
  CartWithinSaleable
  ShippedInFull
\* A cancelled order without fulfillments is final.
CHECK_DEADLOCK FALSE
