SPECIFICATION Spec
CONSTANTS
  MaxItems = 1
  MaxPayments = 2
  MaxRefunds = 2
  MaxModifications = 1
  RefundAmounts <- MCRefundAmounts
INVARIANTS
  TypeOK
  PlacedOrAllocatedTogether
  RefundsWithinPayment
PROPERTIES
  PlacedIsFinal
  PaymentCompletesCheckout
  UnderpaidForAReason
\* A cancelled order is final: the system stops there.
CHECK_DEADLOCK FALSE
