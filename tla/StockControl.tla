----------------------------- MODULE StockControl -----------------------------
(***************************************************************************)
(* The stock of one product variant at one stock location, and an order    *)
(* whose lines all hold that variant (lines of one variant differ in their *)
(* custom fields): StockMovementService and StockLevelService              *)
(* (service/services/stock-movement.service.ts, stock-level.service.ts),   *)
(* the MultiChannelStockLocationStrategy, the fulfillment half of          *)
(* OrderService and FulfillmentService, and cancelOrderByOrderLines.       *)
(*                                                                         *)
(* Inventory is tracked, the variant has its StockLevel row, and the       *)
(* location is of the active channel.  The order's payments are in order   *)
(* throughout: OrderPayments models them.                                  *)
(***************************************************************************)
EXTENDS Integers, Sequences, Sums, OrderStates

CONSTANTS
  Lines,                \* the order lines
  InitialStock,         \* stockOnHand at the start
  OutOfStockThreshold,  \* of the variant; negative allows back orders
  MaxQuantity,          \* orderLineItemsLimit
  MaxStock,             \* bound on the stock an adjustment may set
  MaxAdjusted,          \* bound on how far adjustments move the stock, in all
  MaxAgain,             \* bound on the units of the rows that name a line again
  MaxFulfillments,      \* bound on the fulfillments of the order
  MaxAllocated          \* bound on the units ever allocated to a line

ASSUME ConstantsAssumption ==
  /\ IsFiniteSet(Lines) /\ Lines # {}
  /\ InitialStock \in Nat
  /\ OutOfStockThreshold \in Int
  /\ {MaxQuantity, MaxStock, MaxAdjusted, MaxAgain, MaxFulfillments, MaxAllocated} \subseteq Nat

VARIABLES
  state,         \* Order.state
  quantity,      \* OrderLine.quantity of every line; 0: no line, or cancelled
  fulfillments,  \* sequence of Fulfillment: its state, and how many units of every
                 \* line its rows name: first, and again
  stock,         \* StockLevel, and the StockMovements added up per line
  missing,       \* units of every line that an allocation did not get, or a
                 \* cancellation gave back without cancelling them; so far
  adjusted       \* sum of the StockAdjustments

vars == <<state, quantity, fulfillments, stock, missing, adjusted>>

(* Sales have a negative quantity in the code; `sold` counts the units. *)
NoMovements == [allocated |-> 0, sold |-> 0, released |-> 0, cancelled |-> 0]

Init ==
  /\ state = "AddingItems"
  /\ quantity = [l \in Lines |-> 0]
  /\ fulfillments = <<>>
  /\ stock = [onHand |-> InitialStock, allocated |-> 0,
              moves |-> [l \in Lines |-> NoMovements]]
  /\ missing = [l \in Lines |-> 0]
  /\ adjusted = 0

-----------------------------------------------------------------------------
(* StockMovementService.  `units` says how many units of each line.        *)

AtMost(a, b) == IF a =< b THEN a ELSE b
AtLeast(a, b) == IF a >= b THEN a ELSE b

SumOver(f) == SumOf(f, Lines)

Plus(f, g) == [l \in Lines |-> f[l] + g[l]]

(* getSaleableStockLevel, and what forAllocation finds to be available. *)
SaleableOf(s) == s.onHand - s.allocated - OutOfStockThreshold

(* forAllocation: a row gets what is available.  The level is read once per
   request, so that every row finds the same. *)
Granted(s, units) ==
  [l \in Lines |-> AtMost(units[l], AtLeast(SaleableOf(s), 0))]

(* What `granted` lacks of the rows. *)
Cut(units, granted) == [l \in Lines |-> units[l] - granted[l]]

(* createAllocationsForOrderLines *)
Allocate(s, granted) ==
  [s EXCEPT !.allocated = @ + SumOver(granted),
            !.moves = [l \in Lines |->
                         [s.moves[l] EXCEPT !.allocated = @ + granted[l]]]]

(* getLocationsBasedOnAllocations: never more than the Allocations of the
   line add up to, whatever was sold or released since. *)
Located(s, units) == [l \in Lines |-> AtMost(s.moves[l].allocated, units[l])]

(* A movement is recorded with the full quantity, at a location found. *)
Recorded(s, units) ==
  [l \in Lines |-> IF Located(s, units)[l] > 0 THEN units[l] ELSE 0]

(* Mutant of Sell: the sold units stay allocated. *)
SellKeepingAllocated(s, units) ==
  [s EXCEPT !.onHand = @ - SumOver(Located(s, units)),
            !.moves = [l \in Lines |->
                         [s.moves[l] EXCEPT !.sold = @ + Recorded(s, units)[l]]]]

(* createSalesForOrder *)
Sell(s, units) ==
  [s EXCEPT !.allocated = @ - SumOver(Located(s, units)),
            !.onHand = @ - SumOver(Located(s, units)),
            !.moves = [l \in Lines |->
                         [s.moves[l] EXCEPT !.sold = @ + Recorded(s, units)[l]]]]

(* createCancellationsForOrderLines *)
Return(s, units) ==
  [s EXCEPT !.onHand = @ + SumOver(Located(s, units)),
            !.moves = [l \in Lines |->
                         [s.moves[l] EXCEPT !.cancelled = @ + Recorded(s, units)[l]]]]

(* createReleasesForOrderLines *)
Release(s, units) ==
  [s EXCEPT !.allocated = @ - SumOver(Located(s, units)),
            !.moves = [l \in Lines |->
                         [s.moves[l] EXCEPT !.released = @ + Recorded(s, units)[l]]]]

Saleable == SaleableOf(stock)

-----------------------------------------------------------------------------
(* What is fulfilled: order-utils.ts.                                      *)

UnitsIn(fs, l, states) ==
  SumOf([f \in DOMAIN fs |-> fs[f].units[l] + fs[f].again[l]],
        {f \in DOMAIN fs : fs[f].state \in states})

ActiveStates == FulfillmentStates \ {"Cancelled"}

Fulfilled(fs, l) == UnitsIn(fs, l, ActiveStates)

(* Those of them that are of a row which names its line again. *)
NamedAgain(fs, l) ==
  SumOf([f \in DOMAIN fs |-> fs[f].again[l]],
        {f \in DOMAIN fs : fs[f].state \in ActiveStates})

(* getOrderLinesFulfillmentStates: the states of the fulfillments of the
   lines still in the order, and "none" for a line without one. *)
LineStates(fs) ==
  UNION {LET of == {f \in DOMAIN fs : /\ fs[f].state \in ActiveStates
                                      /\ fs[f].units[l] + fs[f].again[l] > 0}
         IN  IF of = {} THEN {"none"} ELSE {fs[f].state : f \in of} :
           l \in {k \in Lines : quantity[k] # 0}}

(* isOrderPartiallyFulfilled; a line without any fulfillment does not count
   (its sum is undefined in the code, and compares as false). *)
PartiallyFulfilled(fs) ==
  \E l \in Lines : Fulfilled(fs, l) \in 1 .. quantity[l] - 1

(* Mutant of AllItems: lines fulfilled in part only count as fulfilled. *)
AllItemsOfSomeUnits(fs, s) == LineStates(fs) \subseteq {s}

(* orderItemsAreShipped / Delivered, orderItemsArePartiallyShipped / Delivered *)
AllItems(fs, s) == LineStates(fs) \subseteq {s} /\ ~PartiallyFulfilled(fs)

SomeItems(fs, s) ==
  s \in LineStates(fs) /\ (LineStates(fs) # {s} \/ PartiallyFulfilled(fs))

(* The order's transition table and the checks of onTransitionStart that
   concern lines and fulfillments. *)
MayEnter(from, to, fs) ==
  /\ <<from, to>> \in OrderTransitions
  /\ to = "Shipped" => AllItems(fs, "Shipped")
  /\ to = "PartiallyShipped" => SomeItems(fs, "Shipped")
  /\ to = "Delivered" => AllItems(fs, "Delivered")
  /\ to = "PartiallyDelivered" => SomeItems(fs, "Delivered")
  /\ to = "Cancelled" => \A l \in Lines : quantity[l] = 0

-----------------------------------------------------------------------------
(* The cart and the checkout.                                              *)

(* Mutants of ConstrainToSaleable: the other lines of the variant are not
   counted; the result may be negative. *)
ConstrainPerLine(n, existing, others) ==
  IF Saleable < n + existing THEN AtLeast(Saleable - existing, 0) ELSE n + existing

ConstrainUnclamped(n, existing, others) ==
  IF Saleable < n + existing + others
  THEN Saleable - existing - others ELSE n + existing

(* constrainQuantityToSaleable: the new quantity of the line; or, when stock
   is short, how many units can be added. *)
ConstrainToSaleable(n, existing, others) ==
  IF Saleable < n + existing + others
  THEN AtLeast(Saleable - existing - others, 0) ELSE n + existing

InOtherLines(l) == SumOver(quantity) - quantity[l]

(* addItemsToOrder, with one item. *)
AddToCart(l, n) ==
  /\ state = "AddingItems"
  /\ n > 0 /\ quantity[l] + n =< MaxQuantity
  /\ LET corrected == ConstrainToSaleable(n, quantity[l], InOtherLines(l))
     IN  /\ corrected # 0
         /\ quantity' = [quantity EXCEPT ![l] =
                           IF corrected < n THEN @ + corrected ELSE corrected]
  /\ UNCHANGED <<state, fulfillments, stock, missing, adjusted>>

(* adjustOrderLines, with one line; 0 removes it. *)
AdjustCart(l, n) ==
  /\ state = "AddingItems"
  /\ quantity[l] > 0
  /\ quantity' = [quantity EXCEPT ![l] = ConstrainToSaleable(n, 0, InOtherLines(l))]
  /\ UNCHANGED <<state, fulfillments, stock, missing, adjusted>>

ToArrangingPayment ==
  /\ state = "AddingItems"
  /\ SumOver(quantity) > 0
  /\ \A l \in Lines : quantity[l] > 0 => quantity[l] =< Saleable
  /\ state' = "ArrangingPayment"
  /\ UNCHANGED <<quantity, fulfillments, stock, missing, adjusted>>

BackToAddingItems ==
  /\ state = "ArrangingPayment"
  /\ state' = "AddingItems"
  /\ UNCHANGED <<quantity, fulfillments, stock, missing, adjusted>>

(* The payment is settled: the order is placed and its lines allocated. *)
Place ==
  /\ state = "ArrangingPayment"
  /\ state' = "PaymentSettled"
  /\ LET granted == Granted(stock, quantity)
     IN  /\ stock' = Allocate(stock, granted)
         /\ missing' = Plus(missing, Cut(quantity, granted))
  /\ UNCHANGED <<quantity, fulfillments, adjusted>>

PlacedStates == FulfilledStates \cup {"PaymentSettled", "Modifying"}

-----------------------------------------------------------------------------
(* Fulfillments.                                                           *)

(* The rows of an input name lines of the order, and may name one again. *)
NamesLines(units, again) ==
  /\ \E l \in Lines : units[l] > 0
  /\ \A l \in Lines : again[l] > 0 => units[l] > 0

(* createFulfillment, and its transition to Pending in the same call.  Every
   row is checked as if it were the only one, and for the stock on hand the
   first of a line is.  The code does not look at the order's state; orders
   that were not placed are left out here. *)
CreateFulfillment(units, again) ==
  /\ Len(fulfillments) < MaxFulfillments
  /\ SumOver(again)
       + SumOf([f \in DOMAIN fulfillments |-> SumOver(fulfillments[f].again)],
               DOMAIN fulfillments) =< MaxAgain
  /\ state \in PlacedStates
  /\ NamesLines(units, again)
  /\ \A l \in Lines, row \in {units, again} : row[l] > 0 =>
       Fulfilled(fulfillments, l) + row[l] =< quantity[l]
  /\ \A l \in Lines : units[l] > 0 => units[l] =< stock.onHand
  /\ fulfillments' = Append(fulfillments,
                            [state |-> "Pending", units |-> units, again |-> again])
  /\ stock' = Sell(Sell(stock, units), again)
  /\ UNCHANGED <<state, quantity, missing, adjusted>>

(* handleFulfillmentStateTransitByOrder: the order state a fulfillment that
   became s asks for. *)
OrderStateFor(s, fs) ==
  IF AllItems(fs, s) THEN s
  ELSE IF s = "Shipped" THEN "PartiallyShipped" ELSE "PartiallyDelivered"

(* The stock of a cancelled fulfillment is returned, of the first row of every
   line, and its units allocated again, of every row. *)
Undo(fulfillment) ==
  LET returned == Return(stock, fulfillment.units)
      first == Granted(returned, fulfillment.units)
      more == Granted(returned, fulfillment.again)
  IN  /\ stock' = Allocate(returned, Plus(first, more))
      /\ missing' = Plus(missing, Plus(Cut(fulfillment.units, first),
                                       Cut(fulfillment.again, more)))

(* An order state that is not a next state is passed over; one that is, but
   is refused, throws and undoes the fulfillment's transition too. *)
TransitionFulfillment(f, to) ==
  /\ <<fulfillments[f].state, to>> \in FulfillmentTransitions
  /\ fulfillments' = [fulfillments EXCEPT ![f].state = to]
  /\ IF to = "Cancelled" THEN Undo(fulfillments[f])
                         ELSE UNCHANGED <<stock, missing>>
  /\ LET next == OrderStateFor(to, fulfillments')
     IN  IF to \in {"Shipped", "Delivered"} /\ <<state, next>> \in OrderTransitions
         THEN MayEnter(state, next, fulfillments') /\ state' = next
         ELSE state' = state
  /\ UNCHANGED <<quantity, adjusted>>

-----------------------------------------------------------------------------
(* After-sales.                                                            *)

(* transitionOrderToState between the states of a placed and paid order. *)
TransitionOrder(to) ==
  /\ state \in PlacedStates
  /\ to \in PlacedStates \cup {"Cancelled"}
  /\ MayEnter(state, to, fulfillments)
  /\ state' = to
  /\ UNCHANGED <<quantity, fulfillments, stock, missing, adjusted>>

(* What cancelOrderByOrderLines thinks is allocated, and fulfilled, of a
   line: the latter counts the lines of cancelled fulfillments too. *)
TotalAllocated(s, l) ==
  s.moves[l].allocated - s.moves[l].sold - s.moves[l].released

TotalFulfilled(s, l) ==
  UnitsIn(fulfillments, l, FulfillmentStates) - s.moves[l].cancelled

(* Mutant of CancelUnits: units are released whether or not they still are
   allocated. *)
CancelUnitsAllocatedOrNot(s, units) ==
  LET fulfilled == [l \in Lines |->
                      AtMost(AtLeast(TotalFulfilled(s, l), 0), units[l])]
  IN  Release(Return(s, fulfilled), units)

(* cancelOrderByOrderLines: up to `units` of each line are returned to stock
   if they were fulfilled, and up to as many released if allocated. *)
CancelUnits(s, units) ==
  LET fulfilled == [l \in Lines |->
                      AtMost(AtLeast(TotalFulfilled(s, l), 0), units[l])]
      allocated == [l \in Lines |->
                      AtMost(AtLeast(TotalAllocated(s, l), 0), units[l])]
  IN  Release(Return(s, fulfilled), allocated)

OnLine(l, n) == [k \in Lines |-> IF k = l THEN n ELSE 0]

(* modifyOrder with one adjusted line: added units must be saleable and are
   allocated, removed ones are cancelled. *)
ModifyLine(l, n) ==
  /\ state = "Modifying"
  /\ quantity' = [quantity EXCEPT ![l] = n]
  /\ \/ /\ n > quantity[l]
        /\ n - quantity[l] =< Saleable
        /\ stock.moves[l].allocated + n - quantity[l] =< MaxAllocated
        /\ stock' = Allocate(stock, Granted(stock, OnLine(l, n - quantity[l])))
     \/ /\ n < quantity[l]
        /\ stock' = CancelUnits(stock, OnLine(l, quantity[l] - n))
  /\ UNCHANGED <<state, fulfillments, missing, adjusted>>

(* cancelOrder: stock is given back for the first row of a line, and the last
   one is taken off its quantity.  When nothing is left the order is cancelled,
   if it may be. *)
CancelLines(units, again) ==
  /\ state \in PlacedStates
  /\ NamesLines(units, again)
  /\ \A l \in Lines : units[l] =< quantity[l] /\ again[l] =< quantity[l]
  /\ LET last == [l \in Lines |-> IF again[l] > 0 THEN again[l] ELSE units[l]]
     IN  /\ quantity' = [l \in Lines |-> quantity[l] - last[l]]
         /\ missing' = [l \in Lines |-> missing[l] + AtLeast(units[l] - last[l], 0)]
         /\ state' = IF /\ last = quantity
                        /\ <<state, "Cancelled">> \in OrderTransitions
                     THEN "Cancelled" ELSE state
  /\ stock' = CancelUnits(stock, units)
  /\ UNCHANGED <<fulfillments, adjusted>>

(* adjustProductVariantStock *)
AdjustStock(n) ==
  /\ n # stock.onHand
  /\ adjusted + n - stock.onHand \in -MaxAdjusted .. MaxAdjusted
  /\ stock' = [stock EXCEPT !.onHand = n]
  /\ adjusted' = adjusted + n - stock.onHand
  /\ UNCHANGED <<state, quantity, fulfillments, missing>>

-----------------------------------------------------------------------------
Next ==
  \/ \E l \in Lines, n \in 0 .. MaxQuantity : AddToCart(l, n) \/ AdjustCart(l, n)
  \/ ToArrangingPayment
  \/ BackToAddingItems
  \/ Place
  \/ \E units \in [Lines -> 0 .. MaxQuantity], again \in [Lines -> 0 .. MaxAgain] :
       CreateFulfillment(units, again) \/ CancelLines(units, again)
  \/ \E f \in DOMAIN fulfillments, to \in FulfillmentStates :
       TransitionFulfillment(f, to)
  \/ \E to \in OrderStates : TransitionOrder(to)
  \/ \E l \in Lines, n \in 0 .. MaxQuantity : ModifyLine(l, n)
  \/ \E n \in 0 .. MaxStock : AdjustStock(n)

Spec == Init /\ [][Next]_vars

-----------------------------------------------------------------------------
TypeOK ==
  /\ state \in {"AddingItems", "ArrangingPayment", "Cancelled"} \cup PlacedStates
  /\ quantity \in [Lines -> Nat]
  /\ fulfillments \in Seq([state: FulfillmentStates \ {"Created"},
                           units: [Lines -> Nat], again: [Lines -> Nat]])
  /\ stock \in [onHand: Int, allocated: Int,
                moves: [Lines -> [allocated: Nat, sold: Nat, released: Nat,
                                  cancelled: Nat]]]
  /\ missing \in [Lines -> Nat]
  /\ adjusted \in Int

(* The two numbers of the StockLevel are what the StockMovement records add
   up to: every movement changes the level by the quantity it records, though
   the one is capped by the line's allocations and the other is not.  Only
   after an allocation was cut can the cap take effect. *)
LedgerMatchesLevel ==
  (\A l \in Lines : missing[l] = 0) =>
    /\ stock.allocated = SumOver([l \in Lines |-> TotalAllocated(stock, l)])
    /\ stock.onHand = InitialStock + adjusted
         + SumOver([l \in Lines |-> stock.moves[l].cancelled - stock.moves[l].sold])

(* Every unit a placed order still has to fulfill is allocated to its line,
   whatever was fulfilled, modified, cancelled and re-allocated before, and a
   line gives back more than it was allocated only by the rows that name it
   again: but for the units that allocations did not get, and those that
   cancellations gave back beyond what they took off the line. *)
UnfulfilledUnitsAllocated ==
  state \in PlacedStates \cup {"Cancelled"} =>
    \A l \in Lines :
      TotalAllocated(stock, l) + missing[l] >=
        AtLeast(quantity[l] - Fulfilled(fulfillments, l), -NamedAgain(fulfillments, l))

(* An order becomes Shipped, or Delivered, only when the fulfillments in that
   state hold every unit left in the order, although the code looks at the
   fulfillments' states and at the quantities one after the other. *)
ShippedInFull ==
  [][state' # state /\ state' \in {"Shipped", "Delivered"} =>
       \A l \in Lines : UnitsIn(fulfillments', l, {state'}) >= quantity'[l]]_vars

(* Whatever is put into the cart is saleable together with what is there:
   the lines of one variant share its stock. *)
CartWithinSaleable ==
  [][state = "AddingItems" /\ SumOver(quantity') > SumOver(quantity) =>
       SumOver(quantity') =< Saleable]_vars

=============================================================================
