------------------------------ MODULE OrderStates ------------------------------
(***************************************************************************)
(* The states and transition tables of the four state machines an order is *)
(* made of: the Order itself, its Payments, its Refunds and its            *)
(* Fulfillments.  Each table is the relation {<<from, to>>} of the         *)
(* `transitions` object of the default process in config/.                 *)
(***************************************************************************)

LOCAL Edges(from, targets) == {from} \X targets

-----------------------------------------------------------------------------
(* Orders: config/order/default-order-process.ts.                          *)

OrderStates ==
  {"Created", "Draft", "AddingItems", "ArrangingPayment",
   "PaymentAuthorized", "PaymentSettled",
   "PartiallyShipped", "Shipped", "PartiallyDelivered", "Delivered",
   "Modifying", "ArrangingAdditionalPayment", "Cancelled"}

FulfilledStates ==
  {"PartiallyShipped", "Shipped", "PartiallyDelivered", "Delivered"}

OrderTransitions ==
  UNION {
    Edges("Created", {"AddingItems", "Draft"}),
    Edges("Draft", {"Cancelled", "ArrangingPayment"}),
    Edges("AddingItems", {"ArrangingPayment", "Cancelled"}),
    Edges("ArrangingPayment",
          {"PaymentAuthorized", "PaymentSettled", "AddingItems", "Cancelled"}),
    Edges("PaymentAuthorized",
          {"PaymentSettled", "Cancelled", "Modifying",
           "ArrangingAdditionalPayment"}),
    Edges("PaymentSettled",
          FulfilledStates \cup
            {"Cancelled", "Modifying", "ArrangingAdditionalPayment"}),
    Edges("PartiallyShipped",
          {"Shipped", "PartiallyDelivered", "Cancelled", "Modifying"}),
    Edges("Shipped",
          {"PartiallyDelivered", "Delivered", "Cancelled", "Modifying"}),
    Edges("PartiallyDelivered", {"Delivered", "Cancelled", "Modifying"}),
    Edges("Delivered", {"Cancelled"}),
    Edges("Modifying",
          {"PaymentAuthorized", "PaymentSettled", "PartiallyShipped",
           "Shipped", "PartiallyDelivered", "ArrangingAdditionalPayment"}),
    Edges("ArrangingAdditionalPayment",
          {"PaymentAuthorized", "PaymentSettled", "PartiallyShipped",
           "Shipped", "PartiallyDelivered", "Cancelled"}) }

-----------------------------------------------------------------------------
(* Payments: config/payment/default-payment-process.ts.                    *)

PaymentStates ==
  {"Created", "Authorized", "Settled", "Declined", "Error", "Cancelled"}

PaymentTransitions ==
  UNION {
    Edges("Created",
          {"Authorized", "Settled", "Declined", "Error", "Cancelled"}),
    Edges("Authorized", {"Settled", "Error", "Cancelled"}),
    {"Settled", "Declined", "Error"} \X {"Cancelled"} }

-----------------------------------------------------------------------------
(* Refunds: config/refund/default-refund-process.ts.                       *)

RefundStates == {"Pending", "Settled", "Failed"}

RefundTransitions == Edges("Pending", {"Settled", "Failed"})

-----------------------------------------------------------------------------
(* Fulfillments: config/fulfillment/default-fulfillment-process.ts.        *)

FulfillmentStates == {"Created", "Pending", "Shipped", "Delivered", "Cancelled"}

FulfillmentTransitions ==
  UNION {
    Edges("Created", {"Pending"}),
    Edges("Pending", {"Shipped", "Delivered", "Cancelled"}),
    Edges("Shipped", {"Delivered", "Cancelled"}),
    Edges("Delivered", {"Cancelled"}) }

=============================================================================
