SPECIFICATION Spec
CONSTANTS
  ListPrices <- MCListPrices
  Promotions <- MCPromotions
  Surcharges <- MCSurcharges
  MaxQuantity = 2
INVARIANTS
  ConditionalPricesSettle
\* A cancelled order is final.
CHECK_DEADLOCK FALSE
