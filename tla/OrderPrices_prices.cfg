SPECIFICATION Spec
CONSTANTS
  ListPrices <- MCListPrices
  Promotions <- MCPromotions
  Surcharges <- MCSurcharges
  MaxQuantity = 2
INVARIANTS
  TypeOK
  NoNegativePriceOfPlacedUnits
  DiscountIsDistributed
  TotalsAddUp
  PricesSettle
\* A cancelled order is final.
CHECK_DEADLOCK FALSE
