---------------------------- MODULE OrderPayments ----------------------------
(***************************************************************************)
(* One order, its payments, its refunds and its modifications: the         *)
(* operations of OrderService (service/services/order.service.ts),         *)
(* PaymentService (payment.service.ts) and OrderModifier                   *)
(* (service/helpers/order-modifier) that decide whether an order is        *)
(* placed, paid, changed and cancelled.                                    *)
(*                                                                         *)
(* Every mutation of the API runs in one database transaction and is one   *)
(* action here.  An operation that RETURNS an error result commits what it *)
(* had written before; one that THROWS is rolled back, and is a disabled   *)
(* action.  Prices: every unit of every line costs 1, shipping costs 1,    *)
(* without tax; quantities of all lines are added up in `items`.           *)
(***************************************************************************)
EXTENDS Integers, Sequences, Sums, OrderStates

CONSTANTS
  MaxItems,          \* orderItemsLimit
  MaxPayments,       \* bound on the payments of the order
  MaxRefunds,        \* bound on the refunds of the order
  MaxModifications,  \* bound on the modifications of the order
  RefundAmounts      \* bound on what a caller asks to refund, of either sign

ASSUME BoundsAssumption ==
  /\ MaxItems \in Nat \ {0}
  /\ MaxPayments \in Nat
  /\ MaxRefunds \in Nat
  /\ MaxModifications \in Nat
  /\ RefundAmounts \subseteq Int

VARIABLES
  order,         \* the Order entity, with its lines and shipping line
  payments,      \* sequence of Payment: [state, amount]
  refunds,       \* sequence of Refund: [state, payment, total]
  modifications  \* sequence of OrderModification: [priceChange, settled]

vars == <<order, payments, refunds, modifications>>

(* `placed` stands for orderPlacedAt, `hasLine` for order.lines being non-
   empty (a cancelled line stays, with quantity 0), `claimed` for the units
   for which an Allocation was requested and not taken back since. *)
Orders ==
  [state: OrderStates, active: BOOLEAN, placed: BOOLEAN, hasLine: BOOLEAN,
   items: Int, shipping: {"none", "charged", "cancelled"}, claimed: Int]

NewOrder(active) ==
  [state |-> "Created", active |-> active, placed |-> FALSE, hasLine |-> FALSE,
   items |-> 0, shipping |-> "none", claimed |-> 0]

-----------------------------------------------------------------------------
(* What has been paid.                                                     *)

AtMost(a, b) == IF a =< b THEN a ELSE b

Abs(a) == IF a < 0 THEN -a ELSE a

Total(o) == o.items + IF o.shipping = "charged" THEN 1 ELSE 0

RefundTotal(rs, p, states) ==
  SumOf([r \in DOMAIN rs |-> rs[r].total],
        {r \in DOMAIN rs : rs[r].payment = p /\ rs[r].state \in states})

(* totalCoveredByPayments: what the payments in `states` hold, less the
   refunds already settled, whatever the sign of their total. *)
Covered(ps, rs, states) ==
  SumOf([p \in DOMAIN ps |-> ps[p].amount - Abs(RefundTotal(rs, p, {"Settled"}))],
        {p \in DOMAIN ps : ps[p].state \in states})

LiveStates == PaymentStates \ {"Error", "Declined", "Cancelled"}

IsCovered(o, ps, rs, states) == Covered(ps, rs, states) >= Total(o)

(* The amount still to be paid; negative when too much was paid. *)
Due(o, ps, rs) == Total(o) - Covered(ps, rs, LiveStates)

(* Faulty: forgets the refunds that are still pending. *)
RefundableIgnoringPending(ps, rs, p) ==
  ps[p].amount - RefundTotal(rs, p, {"Settled"})

(* getPaymentRefundTotal and what remains refundable on a payment. *)
Refundable(ps, rs, p) ==
  ps[p].amount - RefundTotal(rs, p, {"Pending", "Settled"})

-----------------------------------------------------------------------------
(* The order state machine with the checks of onTransitionStart.  Whether  *)
(* fulfillments justify a fulfilled state is not this module's question:   *)
(* such a transition is simply possible.                                   *)

ModificationCheck(ms, to) ==
  IF to = "ArrangingAdditionalPayment"
  THEN ms = <<>> \/ \E m \in DOMAIN ms : ~ms[m].settled
  ELSE \A m \in DOMAIN ms : ms[m].settled

PaymentCheck(o, ps, rs, to) ==
  /\ to = "PaymentAuthorized" =>
       /\ IsCovered(o, ps, rs, {"Authorized", "Settled"})
       /\ \E p \in DOMAIN ps : ps[p].state = "Authorized"
  /\ to = "PaymentSettled" => IsCovered(o, ps, rs, {"Settled"})

(* Faulty: checks the payments only, not the transition table. *)
MayEnterFromAnywhere(o, ps, rs, ms, to) ==
  /\ to # o.state
  /\ PaymentCheck(o, ps, rs, to)
  /\ to = "ArrangingPayment" => o.hasLine /\ o.shipping # "none"

MayEnter(o, ps, rs, ms, to) ==
  /\ <<o.state, to>> \in OrderTransitions
  /\ o.state = "Modifying" => ModificationCheck(ms, to)
  /\ o.state = "ArrangingAdditionalPayment" =>
       to = "Cancelled" \/ Due(o, ps, rs) =< 0
  /\ to = "ArrangingPayment" => o.hasLine /\ o.shipping # "none"
  /\ PaymentCheck(o, ps, rs, to)
  /\ (/\ to = "Cancelled"
      /\ o.state \notin {"AddingItems", "ArrangingPayment",
                         "ArrangingAdditionalPayment"}) => o.items = 0

(* DefaultOrderPlacedStrategy and DefaultStockAllocationStrategy agree. *)
Places(from, to) ==
  from = "ArrangingPayment" /\ to \in {"PaymentAuthorized", "PaymentSettled"}

(* The order after the transition and its onTransitionEnd. *)
Entered(o, to) ==
  LET placesOrder == o.active /\ Places(o.state, to)
  IN  [o EXCEPT
        !.state = to,
        !.active = /\ @ \/ (o.state = "Draft" /\ to = "ArrangingPayment")
                   /\ to # "Cancelled" /\ ~placesOrder,
        !.placed = @ \/ placesOrder,
        !.claimed = IF Places(o.state, to) THEN @ + o.items ELSE @]

(* transitionToState: the state asked for, or an error that the callers
   below ignore. *)
Transitioned(o, ps, rs, ms, to) ==
  IF MayEnter(o, ps, rs, ms, to) THEN Entered(o, to) ELSE o

(* Faulty: asks for PaymentAuthorized before PaymentSettled. *)
AfterPaymentAuthorizedFirst(o, ps, rs, ms) ==
  IF IsCovered(o, ps, rs, {"Authorized", "Settled"})
     /\ o.state \notin {"PaymentAuthorized", "ArrangingAdditionalPayment"}
  THEN Transitioned(o, ps, rs, ms, "PaymentAuthorized")
  ELSE o

(* onTransitionEnd of the payment process: a payment that reached its state
   moves the order along. *)
AfterPayment(o, ps, rs, ms) ==
  LET advances(to, states) ==
        /\ IsCovered(o, ps, rs, states)
        /\ o.state \notin {to, "ArrangingAdditionalPayment"}
  IN  IF advances("PaymentSettled", {"Settled"})
      THEN Transitioned(o, ps, rs, ms, "PaymentSettled")
      ELSE IF advances("PaymentAuthorized", {"Authorized", "Settled"})
      THEN Transitioned(o, ps, rs, ms, "PaymentAuthorized")
      ELSE o

-----------------------------------------------------------------------------
(* The cart.  create() and createDraft() take the new order out of `Created`
   in the transaction that inserts it.                                     *)

Init ==
  /\ order \in {Entered(NewOrder(TRUE), "AddingItems"),
                Entered(NewOrder(FALSE), "Draft")}
  /\ payments = <<>>
  /\ refunds = <<>>
  /\ modifications = <<>>

(* applyShipping drops the shipping line of an order without lines and
   charges the others again, whatever adjustments they had. *)
Recharged(o) ==
  [o EXCEPT !.shipping = IF o.shipping = "none" \/ ~o.hasLine
                         THEN "none" ELSE "charged"]

AdjustItems(n) ==
  /\ order.state \in {"AddingItems", "Draft"}
  /\ order' = Recharged([order EXCEPT !.items = n, !.hasLine = n > 0])
  /\ UNCHANGED <<payments, refunds, modifications>>

SetShippingMethod ==
  /\ order.state \in {"AddingItems", "Draft"}
  /\ order' = Recharged([order EXCEPT !.shipping = "charged"])
  /\ UNCHANGED <<payments, refunds, modifications>>

(* transitionOrderToState of both APIs; also what cancelOrderById amounts
   to while the order is active. *)
TransitionOrder(to) ==
  /\ MayEnter(order, payments, refunds, modifications, to)
  /\ order' = Entered(order, to)
  /\ UNCHANGED <<payments, refunds, modifications>>

-----------------------------------------------------------------------------
(* Payments.                                                               *)

CanAddPayment ==
  \/ order.state = "ArrangingPayment"
  \/ {order.state} \X {"PaymentAuthorized", "PaymentSettled"}
       \subseteq OrderTransitions

(* The payment handler answers with a state and with the amount asked for,
   or part of it.  Declined and Error payments are kept. *)
AddPayment(state) ==
  /\ Len(payments) < MaxPayments
  /\ CanAddPayment
  /\ <<"Created", state>> \in PaymentTransitions
  /\ LET amountToPay == Due(order, payments, refunds)
     IN  \E amount \in {amountToPay} \cup 1 .. amountToPay - 1 :
           payments' = Append(payments, [state |-> state, amount |-> amount])
  /\ order' = AfterPayment(order, payments', refunds, modifications)
  /\ UNCHANGED <<refunds, modifications>>

Unsettled == {m \in DOMAIN modifications : ~modifications[m].settled}

Outstanding ==
  SumOf([m \in DOMAIN modifications |-> modifications[m].priceChange], Unsettled)

AddManualPayment ==
  /\ Len(payments) < MaxPayments
  /\ order.state \in {"ArrangingAdditionalPayment", "ArrangingPayment"}
  /\ Unsettled # {} => Outstanding = Due(order, payments, refunds)
  /\ payments' = Append(payments,
       [state |-> "Settled", amount |-> Due(order, payments, refunds)])
  /\ modifications' = [m \in DOMAIN modifications |->
                         [modifications[m] EXCEPT !.settled = TRUE]]
  /\ order' = AfterPayment(order, payments', refunds, modifications)
  /\ UNCHANGED refunds

(* Faulty: saves the payment without its amount. *)
MovePaymentLosingAmount(p, to) ==
  /\ <<payments[p].state, to>> \in PaymentTransitions
  /\ payments' = [payments EXCEPT ![p] = [state |-> to, amount |-> 0]]
  /\ order' = AfterPayment(order, payments', refunds, modifications)
  /\ UNCHANGED <<refunds, modifications>>

(* Faulty: marks a refused payment with the state of a refused refund. *)
MovePaymentAsRefund(p, to) ==
  /\ <<payments[p].state, to>> \in PaymentTransitions
  /\ payments' = [payments EXCEPT ![p].state = IF to = "Error" THEN "Failed" ELSE to]
  /\ order' = AfterPayment(order, payments', refunds, modifications)
  /\ UNCHANGED <<refunds, modifications>>

(* transitionStateAndSave *)
MovePayment(p, to) ==
  /\ <<payments[p].state, to>> \in PaymentTransitions
  /\ payments' = [payments EXCEPT ![p].state = to]
  /\ order' = AfterPayment(order, payments', refunds, modifications)
  /\ UNCHANGED <<refunds, modifications>>

(* The handler settles, or refuses with a state of its own (`Error` when it
   names none). *)
SettlePayment(p) ==
  \E to \in {"Settled", "Error", "Cancelled"} : MovePayment(p, to)

CancelPayment(p) == \E to \in {"Cancelled", "Error"} : MovePayment(p, to)

-----------------------------------------------------------------------------
(* Refunds.                                                                *)

(* The payments createRefund goes through, one per refund: the selected one
   first if it can still be refunded, then the first that is left. *)
RefundPaths(selected, n) ==
  LET refundable == {p \in DOMAIN payments : 0 < Refundable(payments, refunds, p)}
  IN  {path \in [1 .. n -> refundable] :
         \A k \in 1 .. n :
           LET left == refundable \ {path[i] : i \in 1 .. k - 1}
           IN  /\ path[k] \in left
               /\ IF k = 1 /\ selected \in left THEN path[k] = selected
                  ELSE \A p \in left : path[k] =< p}

(* What has been refunded by a request for `total` after each of the first n
   payments of `path`. *)
RefundedAfter(path, n, total) ==
  LET refundMax == SumOf([p \in DOMAIN payments |-> Refundable(payments, refunds, p)],
                         DOMAIN payments)
      asked(k, refunded) == IF k = 1 THEN AtMost(total, refundMax) ELSE total - refunded
      done[k \in 0 .. n] ==
        IF k = 0 THEN 0
        ELSE done[k-1] + AtMost(Refundable(payments, refunds, path[k]),
                                asked(k, done[k-1]))
  IN  done

(* createRefund, when it does not throw: one refund after the other until the
   request is met, in the state the handler answered (Pending also when the
   payment's method no longer exists).  An answer Pending is refused by the
   refund state machine, after the refund was saved: `mayFail` allows the
   loop to end there. *)
CreatesRefunds(selected, total, explicit, mayFail) ==
  /\ explicit => total =< Refundable(payments, refunds, selected)
  /\ \E n \in 1 .. AtMost(MaxRefunds - Len(refunds), Len(payments)) :
       \E path \in RefundPaths(selected, n) :
         LET done == RefundedAfter(path, n, total)
         IN  /\ \A k \in 1 .. n - 1 : done[k] < total
             /\ \E answers \in [1 .. n -> RefundStates] :
                  /\ done[n] >= total \/ (mayFail /\ answers[n] = "Pending")
                  /\ refunds' = refunds \o
                       [k \in 1 .. n |-> [state |-> answers[k], payment |-> path[k],
                                          total |-> done[k] - done[k-1]]]

(* refundOrder: `explicit` when the caller names an amount, which must not
   exceed what the payment can refund; otherwise the total is that of lines,
   shipping and an adjustment.  Neither has to be positive. *)
RefundOrder(p, total, explicit) ==
  /\ explicit => total # 0
  /\ order.state \notin {"AddingItems", "ArrangingPayment", "PaymentAuthorized"}
  /\ CreatesRefunds(p, total, explicit, TRUE)
  /\ UNCHANGED <<order, payments, modifications>>

(* settleRefund and transitionRefundToState *)
TransitionRefund(r, to) ==
  /\ <<refunds[r].state, to>> \in RefundTransitions
  /\ refunds' = [refunds EXCEPT ![r].state = to]
  /\ UNCHANGED <<order, payments, modifications>>

-----------------------------------------------------------------------------
(* Changing and cancelling an order that was placed.                       *)

(* cancelOrderByOrderLines: q units are taken off the lines; what was
   claimed for them is given back. *)
WithoutUnits(o, q, cancelShipping) ==
  [o EXCEPT
    !.items = @ - q,
    !.claimed = @ - AtMost(@, q),
    !.shipping = IF cancelShipping /\ @ = "charged" THEN "cancelled" ELSE @]

(* Faulty: does not allocate the units added to a placed order. *)
WithUnitsUnallocated(o, q) == [o EXCEPT !.items = @ + q, !.hasLine = TRUE]

(* updateOrderLineQuantity allocates the added units of an inactive order. *)
WithUnits(o, q) ==
  [o EXCEPT !.items = @ + q, !.hasLine = TRUE,
            !.claimed = IF o.active THEN @ ELSE @ + q]

Modified(o, n, recalculateShipping) ==
  LET changed == IF n < o.items THEN WithoutUnits(o, o.items - n, FALSE)
                 ELSE IF o.items < n THEN WithUnits(o, n - o.items)
                 ELSE o
  IN  IF recalculateShipping THEN Recharged(changed) ELSE changed

(* A price decrease needs a refund, on a payment p: of the amount the caller
   names, or of the decrease when the caller names none.  A payment that is
   not the order's is passed over, and leaves the modification without a
   refund; a refund that fails rolls back. *)
ModifyOrder(n, recalculateShipping) ==
  /\ Len(modifications) < MaxModifications
  /\ order.state = "Modifying"
  /\ order' = Modified(order, n, recalculateShipping)
  /\ LET delta == Total(order') - Total(order)
         records(settled) ==
           modifications' = Append(modifications,
             [priceChange |-> delta, settled |-> delta = 0 \/ settled])
     IN  \/ /\ records(FALSE)
            /\ UNCHANGED refunds
         \/ /\ delta < 0
            /\ \E p \in DOMAIN payments :
                 \/ \E amount \in RefundAmounts \ {0} :
                      CreatesRefunds(p, amount, TRUE, FALSE)
                 \/ CreatesRefunds(p, -delta, FALSE, FALSE)
            /\ records(TRUE)
  /\ UNCHANGED payments

(* cancelOrder of an inactive order: the lines first, which is committed even
   if the order cannot enter `Cancelled` afterwards. *)
CancelOrder(q, cancelShipping) ==
  /\ ~order.active
  /\ q \in 1 .. order.items
  /\ LET left == WithoutUnits(order, q, cancelShipping)
     IN  order' = IF left.items = 0
                  THEN Transitioned(left, payments, refunds, modifications,
                                    "Cancelled")
                  ELSE left
  /\ UNCHANGED <<payments, refunds, modifications>>

-----------------------------------------------------------------------------
Next ==
  \/ \E n \in 0 .. MaxItems : AdjustItems(n)
  \/ SetShippingMethod
  \/ \E to \in OrderStates : TransitionOrder(to)
  \/ \E state \in PaymentStates : AddPayment(state)
  \/ AddManualPayment
  \/ \E p \in DOMAIN payments : SettlePayment(p)
  \/ \E p \in DOMAIN payments : CancelPayment(p)
  \/ \E p \in DOMAIN payments, total \in RefundAmounts,
        explicit \in BOOLEAN : RefundOrder(p, total, explicit)
  \/ \E r \in DOMAIN refunds, to \in RefundStates : TransitionRefund(r, to)
  \/ \E n \in 0 .. MaxItems, recalculateShipping \in BOOLEAN :
       ModifyOrder(n, recalculateShipping)
  \/ \E q \in 1 .. MaxItems, cancelShipping \in BOOLEAN :
       CancelOrder(q, cancelShipping)

Spec == Init /\ [][Next]_vars

-----------------------------------------------------------------------------
TypeOK ==
  /\ order \in Orders
  /\ payments \in Seq([state: PaymentStates, amount: Int])
  /\ refunds \in Seq([state: RefundStates, payment: DOMAIN payments, total: Int])
  /\ modifications \in Seq([priceChange: Int, settled: BOOLEAN])

PlacedStates ==
  FulfilledStates \cup {"PaymentAuthorized", "PaymentSettled", "Modifying",
                        "ArrangingAdditionalPayment"}

(* An order is in a state of the after-sales process exactly if it was
   placed, and then it is not active; every unit of a placed order was
   allocated exactly once, and nothing is allocated for an order that was not
   placed.  OrderPlacedStrategy, StockAllocationStrategy, order.active and the
   four places that allocate or release must agree on this. *)
PlacedOrAllocatedTogether ==
  /\ order.state \in {"Draft", "AddingItems", "ArrangingPayment"} => ~order.placed
  /\ order.state \in PlacedStates => order.placed
  /\ order.active <=> order.state \in {"AddingItems", "ArrangingPayment"}
  /\ order.claimed = IF order.placed THEN order.items ELSE 0

(* The refunds of p, less those that failed.  A refund of a negative total
   takes money back, and stays in the account even if it failed: what it was
   to bring may have been refunded in the meantime. *)
Refunded(rs, p) ==
  SumOf([r \in DOMAIN rs |-> rs[r].total],
        {r \in DOMAIN rs :
           rs[r].payment = p /\ (rs[r].state # "Failed" \/ rs[r].total < 0)})

(* The refunds of a payment never add up to more than the payment, whichever
   way createRefund spreads them over the payments, except for what failed
   refunds of a negative total had made refundable again. *)
RefundsWithinPayment ==
  \A p \in DOMAIN payments :
    Refunded(refunds, p) =< IF payments[p].amount > 0 THEN payments[p].amount ELSE 0

(* A placed order is never taken back to the checkout, and never becomes the
   customer's active order again. *)
PlacedIsFinal ==
  [][order.placed => order'.placed /\ ~order'.active
                  /\ order'.state \in PlacedStates \cup {"Cancelled"}]_vars

(* The checkout completes with the payment that covers the order: no payment
   operation leaves an order in ArrangingPayment whose settled payments cover
   its total. *)
PaymentCompletesCheckout ==
  [][order.state = "ArrangingPayment" /\ payments' # payments
       => (IsCovered(order, payments', refunds', {"Settled"})
             <=> order'.state = "PaymentSettled")]_vars

(* A placed order that was fully paid becomes underpaid only for one of
   three reasons: it was modified, a payment was lost, a refund was paid out. *)
UnderpaidForAReason ==
  [][(/\ order.placed
      /\ Due(order, payments, refunds) =< 0
      /\ Due(order', payments', refunds') > 0)
     => \/ order.state = "Modifying" /\ modifications' # modifications
        \/ \E p \in DOMAIN payments :
             payments[p].state \in LiveStates /\ payments'[p].state \notin LiveStates
        \/ \E r \in DOMAIN refunds' :
             /\ refunds'[r].state = "Settled"
             /\ r \notin DOMAIN refunds \/ refunds[r].state # "Settled"]_vars

=============================================================================
