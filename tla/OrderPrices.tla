------------------------------ MODULE OrderPrices ------------------------------
(***************************************************************************)
(* The prices of one order: OrderCalculator                                *)
(* (service/helpers/order-calculator), the adjustments of OrderLine        *)
(* (entity/order-line), Promotion.test and apply (entity/promotion) and    *)
(* the operations of OrderService and OrderModifier that change what there *)
(* is to pay.                                                              *)
(*                                                                         *)
(* List prices do not change, exclude tax, and the tax rate is 0, so that  *)
(* the prices with and without tax are one.  There is no shipping.  Every  *)
(* promotion has a coupon code and one action; amounts are integers, as    *)
(* DefaultMoneyStrategy stores them, and fractions are exact.              *)
(***************************************************************************)
EXTENDS Integers, Sequences, FiniteSetsExt, Sums

CONSTANTS
  ListPrices,   \* the list price of each order line's variant
  Promotions,   \* the promotions of the channel by priorityScore
  Surcharges,   \* prices that a surcharge may have
  MaxQuantity   \* bound on the quantity of a line

Lines == 1 .. Len(ListPrices)
Codes == 1 .. Len(Promotions)

ASSUME ConstantsAssumption ==
  /\ ListPrices \in Seq(Nat)
  /\ Promotions \in Seq([action: {"item", "line", "fixed", "percentage"},
                         value: Nat, minimum: Nat, on: SUBSET Lines])
  /\ Surcharges \subseteq Int
  /\ MaxQuantity \in Nat \ {0}

VARIABLE
  order   \* the Order with its lines

vars == <<order>>

NewOrder ==
  [state |-> "AddingItems",
   lines |-> {},
   quantity |-> [l \in Lines |-> 0],
   placed |-> [l \in Lines |-> 0],       \* orderPlacedQuantity
   promotion |-> [l \in Lines |-> 0],    \* adjustments of type PROMOTION
   distributed |-> [l \in Lines |-> 0],  \* DISTRIBUTED_ORDER_PROMOTION
   given |-> 0,                          \* what order actions took off in all
   raised |-> {},                        \* lines raised since the order was placed
   coupons |-> {},
   surcharge |-> 0,
   subTotal |-> 0]

Sum(f) == SumOf(f, Lines)

(* Math.round(numerator / denominator) *)
RoundMoney(numerator, denominator) ==
  (2 * numerator + denominator) \div (2 * denominator)

-----------------------------------------------------------------------------
(* OrderLine *)

LinePrice(o, l) == ListPrices[l] * o.quantity[l]

Adjustments(o, l) == o.promotion[l] + o.distributed[l]

(* proratedLinePrice: a unit has its share of the adjustments, of the units
   there are or of those there were when the order was placed. *)
ProratedLinePrice(o, l) ==
  LET units == Max({o.placed[l], o.quantity[l], 1}) IN
  RoundMoney((ListPrices[l] * units + Adjustments(o, l)) * o.quantity[l], units)

(* Mutant of Limited: without a limit. *)
Unlimited(o, l, amount) == amount

(* addAdjustment: the price of the line does not become negative. *)
Limited(o, l, amount) == Max({-ProratedLinePrice(o, l), amount})

-----------------------------------------------------------------------------
(* OrderCalculator *)

CalculateOrderTotals(o) ==
  [o EXCEPT !.subTotal =
     Sum([l \in Lines |-> ProratedLinePrice(o, l)]) + o.surcharge]

(* Promotion.test; a minimum of 0 stands for a promotion without conditions. *)
Test(o, p) ==
  /\ p \in o.coupons
  /\ Promotions[p].minimum # 0 => o.subTotal >= Promotions[p].minimum

(* Promotion.apply to a line. *)
LineAmount(o, p, l) ==
  CASE Promotions[p].action = "item" /\ l \in Promotions[p].on ->
         RoundMoney(-Promotions[p].value * LinePrice(o, l), 100)
    [] Promotions[p].action = "line" -> -Promotions[p].value
    [] OTHER -> 0

(* The totals are calculated only if there is an adjustment. *)
ApplyToLine(o, p, l) ==
  IF Test(o, p) /\ LineAmount(o, p, l) # 0
  THEN CalculateOrderTotals(
         [o EXCEPT !.promotion[l] = @ + Limited(o, l, LineAmount(o, p, l))])
  ELSE o

(* Mutant of ClearAdjustments: distributed discounts stay. *)
ClearOwnAdjustments(o, l) == [o EXCEPT !.promotion[l] = 0]

ClearAdjustments(o, l) ==
  [o EXCEPT !.promotion[l] = 0, !.distributed[l] = 0]

(* A line is cleared, and one promotion after the other applied to it. *)
LinePromotions(o, l) ==
  LET after[p \in 0 .. Len(Promotions)] ==
        IF p = 0 THEN ClearAdjustments(o, l) ELSE ApplyToLine(after[p - 1], p, l)
  IN  after

(* One line after the other. *)
ItemPromotions(o) ==
  LET after[l \in 0 .. Len(ListPrices)] ==
        IF l = 0 THEN o
        ELSE IF l \in o.lines
             THEN CalculateOrderTotals(LinePromotions(after[l - 1], l)[Len(Promotions)])
             ELSE after[l - 1]
  IN  after

ApplyOrderItemPromotions(o) == ItemPromotions(o)[Len(ListPrices)]

(* Promotion.apply to the order. *)
OrderAmount(o, p) ==
  CASE Promotions[p].action = "fixed" -> -Min({Promotions[p].value, o.subTotal})
    [] Promotions[p].action = "percentage" ->
         RoundMoney(-Promotions[p].value * o.subTotal, 100)
    [] OTHER -> 0

(* Mutant of Prorate: every share is rounded for itself. *)
RoundEach(o, amount) ==
  LET total == Sum([l \in Lines |-> ProratedLinePrice(o, l)]) IN
  [l \in o.lines |->
     IF total = 0 THEN RoundMoney(amount, Cardinality(o.lines))
     ELSE RoundMoney(amount * ProratedLinePrice(o, l), total)]

(* prorate: the shares are rounded down, and what is missing is added to those
   that lost most by it. *)
Prorate(o, amount) ==
  LET total == Sum([l \in Lines |-> ProratedLinePrice(o, l)])
      Share(l) == IF total = 0 THEN amount
                  ELSE amount * ProratedLinePrice(o, l)
      whole == IF total = 0 THEN Cardinality(o.lines) ELSE total
      Error(l) == Share(l) % whole
      missing == amount - SumOf([l \in o.lines |-> Share(l) \div whole], o.lines)
      Sooner(k, l) == Error(k) > Error(l) \/ (Error(k) = Error(l) /\ k < l)
  IN [l \in o.lines |->
        (Share(l) \div whole)
        + IF Quantify(o.lines, LAMBDA k : Sooner(k, l)) < missing THEN 1 ELSE 0]

ApplyToOrder(o, p) ==
  IF Test(o, p) /\ OrderAmount(o, p) # 0
  THEN LET amount == OrderAmount(o, p)
           shares == Prorate(o, amount)
       IN CalculateOrderTotals(
            [o EXCEPT !.given = @ + amount,
                      !.distributed = [l \in Lines |->
                        IF l \in o.lines THEN @[l] + Limited(o, l, shares[l])
                        ELSE @[l]]])
  ELSE o

(* Those that pass a test are tested again in turn. *)
OrderPromotions(totalled) ==
  LET after[p \in 0 .. Len(Promotions)] ==
        IF p = 0 THEN totalled
        ELSE IF Test(totalled, p) THEN ApplyToOrder(after[p - 1], p) ELSE after[p - 1]
  IN  after

ApplyOrderPromotions(o) ==
  OrderPromotions(CalculateOrderTotals([o EXCEPT !.given = 0]))[Len(Promotions)]

(* applyPriceAdjustments *)
ApplyPriceAdjustments(o) ==
  IF o.lines = {} THEN CalculateOrderTotals([o EXCEPT !.given = 0])
  ELSE ApplyOrderPromotions(ApplyOrderItemPromotions(CalculateOrderTotals(o)))

-----------------------------------------------------------------------------
Init == order = NewOrder

(* addItemToOrder, adjustOrderLine *)
AdjustOrderLine(l, quantity) ==
  /\ order.state = "AddingItems"
  /\ quantity > 0 /\ quantity # order.quantity[l]
  /\ order' = ApplyPriceAdjustments(
                [order EXCEPT !.lines = @ \cup {l}, !.quantity[l] = quantity])

(* removeItemFromOrder, and adjustOrderLine to 0: the line is deleted with its
   adjustments. *)
RemoveItemFromOrder(l) ==
  /\ order.state = "AddingItems"
  /\ l \in order.lines
  /\ order' = ApplyPriceAdjustments(
                ClearAdjustments([order EXCEPT !.lines = @ \ {l},
                                               !.quantity[l] = 0], l))

(* The coupon codes with one more or one less. *)
OtherCoupons ==
  {order.coupons \cup {code} : code \in Codes}
  \cup {order.coupons \ {code} : code \in Codes}

(* applyCouponCode, removeCouponCode: of the active order of a session. *)
SetCouponCodes(coupons) ==
  /\ order.state = "AddingItems"
  /\ coupons # order.coupons
  /\ order' = ApplyPriceAdjustments([order EXCEPT !.coupons = coupons])

(* addSurchargeToOrder, removeSurchargeFromOrder: likewise. *)
SetSurcharge(surcharge) ==
  /\ order.state = "AddingItems"
  /\ surcharge # order.surcharge
  /\ order' = ApplyPriceAdjustments([order EXCEPT !.surcharge = surcharge])

(* setShippingMethod, setShippingAddress, ...: nothing that the model has is
   changed, and prices are calculated again. *)
SetShipping ==
  /\ order.state = "AddingItems"
  /\ order' = ApplyPriceAdjustments(order)

(* The order is placed: onTransitionEnd of the default order process. *)
Place ==
  /\ order.state = "AddingItems"
  /\ order.lines # {}
  /\ order' = [order EXCEPT !.state = "Placed", !.placed = order.quantity]

(* modifyOrder, with a refund of the difference where one is due. *)
ModifyOrder(l, quantity, coupons, surcharge) ==
  /\ order.state = "Placed"
  /\ l \in order.lines \/ quantity > 0
  /\ order' = ApplyPriceAdjustments(
                [order EXCEPT !.lines = @ \cup {l}, !.quantity[l] = quantity,
                              !.raised = IF quantity > order.placed[l]
                                         THEN @ \cup {l} ELSE @,
                              !.coupons = coupons, !.surcharge = surcharge])

(* Mutant of CancelOrderLine: the totals stay as well. *)
CancelOnlyLine(l, quantity) ==
  /\ order.state = "Placed"
  /\ quantity \in 1 .. order.quantity[l]
  /\ LET cancelled == [order EXCEPT !.quantity[l] = @ - quantity]
     IN order' = [cancelled EXCEPT
                    !.state = IF \A k \in Lines : cancelled.quantity[k] = 0
                              THEN "Cancelled" ELSE @]

(* Mutant of CancelOrderLine: the quantity is not compared with the line's. *)
CancelAnyQuantity(l, quantity) ==
  /\ order.state = "Placed"
  /\ quantity > 0
  /\ order' = CalculateOrderTotals([order EXCEPT !.quantity[l] = @ - quantity])

(* cancelOrderByOrderLines: prices stay, and the totals are added up. *)
CancelOrderLine(l, quantity) ==
  /\ order.state = "Placed"
  /\ quantity \in 1 .. order.quantity[l]
  /\ LET cancelled ==
           CalculateOrderTotals([order EXCEPT !.quantity[l] = @ - quantity])
     IN order' = [cancelled EXCEPT
                    !.state = IF \A k \in Lines : cancelled.quantity[k] = 0
                              THEN "Cancelled" ELSE @]

(* What one modification changes: a line, the coupon codes or a surcharge. *)
ModifyOrderInput(l) ==
  \/ \E quantity \in 0 .. MaxQuantity :
       ModifyOrder(l, quantity, order.coupons, order.surcharge)
  \/ \E coupons \in OtherCoupons :
       ModifyOrder(l, order.quantity[l], coupons, order.surcharge)
  \/ \E surcharge \in Surcharges :
       ModifyOrder(l, order.quantity[l], order.coupons, surcharge)

Next ==
  \/ \E l \in Lines :
       \/ RemoveItemFromOrder(l)
       \/ ModifyOrderInput(l)
       \/ \E quantity \in 0 .. MaxQuantity :
            AdjustOrderLine(l, quantity) \/ CancelOrderLine(l, quantity)
  \/ \E coupons \in OtherCoupons : SetCouponCodes(coupons)
  \/ \E surcharge \in Surcharges : SetSurcharge(surcharge)
  \/ SetShipping
  \/ Place

Spec == Init /\ [][Next]_vars

-----------------------------------------------------------------------------
TypeOK ==
  order \in
    [state: {"AddingItems", "Placed", "Cancelled"},
     lines: SUBSET Lines,
     quantity: [Lines -> 0 .. MaxQuantity],
     placed: [Lines -> 0 .. MaxQuantity],
     promotion: [Lines -> Int],
     distributed: [Lines -> Int],
     given: Int,
     raised: SUBSET Lines,
     coupons: SUBSET Codes,
     surcharge: Int,
     subTotal: Int]

(* "We should not allow adding adjustments which would result in a negative unit
   price": however discounts were added up, limited, rounded, and spread over
   units of which some were cancelled since, no line has a negative price, if
   it never had more units than were placed. *)
NoNegativePriceOfPlacedUnits ==
  \A l \in Lines \ order.raised : ProratedLinePrice(order, l) >= 0

(* What the order actions took off is on the lines to the last cent, unless a
   surcharge raised the subtotal that they go by. *)
DiscountIsDistributed ==
  order.surcharge =< 0 => Sum(order.distributed) = order.given

(* The subtotal of the order is the sum of its lines and surcharges, after
   every operation. *)
TotalsAddUp == order = CalculateOrderTotals(order)

(* "all promotions must be revalidated on any changes to an Order": prices do
   not depend on how an order came about, and to calculate them again changes
   nothing, provided that no promotion of lines has a condition ... *)
PricesSettle ==
  LET conditional == {p \in order.coupons : /\ Promotions[p].minimum # 0
                                            /\ Promotions[p].action \in {"item", "line"}}
  IN order.state = "AddingItems" /\ conditional = {} =>
       ApplyPriceAdjustments(order) = order

(* ... and, if the repository's test "clear previous promotion state before
   testing" is to be true of all of them, even so. *)
ConditionalPricesSettle ==
  order.state = "AddingItems" => ApplyPriceAdjustments(order) = order

=============================================================================
