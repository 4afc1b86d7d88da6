------------------------ MODULE OrderPayments_proofs ------------------------
(***************************************************************************)
(* For every bound: an order is placed, deactivated and allocated together *)
(* (PlacedOrAllocatedTogether), and stays placed (PlacedIsFinal).          *)
(*                                                                         *)
(* The invariant is about the order alone, and every operation changes the *)
(* order through one of four operators: Entered (a transition), Recharged  *)
(* (the cart), WithUnits and WithoutUnits (after-sales).  One lemma per    *)
(* operator shows that it keeps a consistent order consistent; an action   *)
(* then only says which operator it applies.                               *)
(***************************************************************************)
EXTENDS OrderPayments, SumTheorems

(* PlacedOrAllocatedTogether as a predicate of one order, strengthened with
   the type of the order and with the fact that `Created` is left at once. *)
Consistent(o) ==
  /\ o \in Orders
  /\ o.state # "Created"
  /\ o.state \in {"Draft", "AddingItems", "ArrangingPayment"} => ~o.placed
  /\ o.state \in PlacedStates => o.placed
  /\ o.active <=> o.state \in {"AddingItems", "ArrangingPayment"}
  /\ o.claimed = IF o.placed THEN o.items ELSE 0

(* What a step may do to an order that was placed. *)
StaysPlaced(o, next) == o.placed => next.placed

Kept(o, next) == Consistent(next) /\ StaysPlaced(o, next)

(* The type of an order survives the update of one field. *)
LEMMA FieldUpdates ==
  ASSUME NEW o \in Orders
  PROVE  /\ \A v \in OrderStates : [o EXCEPT !.state = v] \in Orders
         /\ \A v \in BOOLEAN : [o EXCEPT !.active = v] \in Orders
         /\ \A v \in BOOLEAN : [o EXCEPT !.placed = v] \in Orders
         /\ \A v \in BOOLEAN : [o EXCEPT !.hasLine = v] \in Orders
         /\ \A v \in Int : [o EXCEPT !.items = v] \in Orders
         /\ \A v \in Int : [o EXCEPT !.claimed = v] \in Orders
         /\ \A v \in {"none", "charged", "cancelled"} :
              [o EXCEPT !.shipping = v] \in Orders
BY DEF Orders

(* A transition of the table, with its onTransitionEnd, keeps an order
   consistent: placing, allocating and deactivating happen on the same
   edges. *)
LEMMA EnteredKeeps ==
  ASSUME NEW o, Consistent(o), NEW to, <<o.state, to>> \in OrderTransitions
  PROVE  Kept(o, Entered(o, to))
<1> DEFINE places == o.active /\ Places(o.state, to)
           active == /\ o.active \/ (o.state = "Draft" /\ to = "ArrangingPayment")
                     /\ to # "Cancelled"
                     /\ ~places
           claimed == IF Places(o.state, to) THEN o.claimed + o.items
                                             ELSE o.claimed
           o1 == [o EXCEPT !.state = to]
           o2 == [o1 EXCEPT !.active = active]
           o3 == [o2 EXCEPT !.placed = o.placed \/ places]
           o4 == [o3 EXCEPT !.claimed = claimed]
<1>1. /\ to \in OrderStates \ {"Created"}
      /\ o.state \in {"Draft", "AddingItems"} =>
           to \in {"Cancelled", "ArrangingPayment"}
      /\ o.state = "ArrangingPayment" =>
           to \in {"PaymentAuthorized", "PaymentSettled", "AddingItems", "Cancelled"}
      /\ o.state \in PlacedStates => to \in PlacedStates \cup {"Cancelled"}
      /\ o.state \in {"Draft", "AddingItems", "ArrangingPayment"} \cup PlacedStates
  BY DEF Consistent, OrderTransitions, OrderStates, FulfilledStates, PlacedStates
<1>2. Entered(o, to) = o4
  BY DEF Entered
<1>3. /\ o.claimed \in Int /\ o.items \in Int
      /\ o.active \in BOOLEAN /\ o.placed \in BOOLEAN
  BY DEF Consistent, Orders
<1>4. active \in BOOLEAN /\ (o.placed \/ places) \in BOOLEAN /\ claimed \in Int
  BY <1>3
<1>5. o4 \in Orders
  <2>1. o1 \in Orders
    BY <1>1, FieldUpdates DEF Consistent
  <2>2. o2 \in Orders
    BY <2>1, <1>4, FieldUpdates
  <2>3. o3 \in Orders
    BY <2>2, <1>4, FieldUpdates
  <2>. QED
    BY <2>3, <1>4, FieldUpdates
<1>6. /\ o4.state = to
      /\ o4.items = o.items
      /\ o4.claimed = claimed
      /\ o4.placed <=> (o.placed \/ places)
      /\ o4.active <=> active
  BY DEF Consistent, Orders
<1>7. StaysPlaced(o, o4)
  BY <1>6 DEF StaysPlaced
<1>8. Consistent(o4)
  <2> HIDE DEF o4
  <2>1. CASE Places(o.state, to)
    BY <2>1, <1>1, <1>3, <1>5, <1>6
       DEF Consistent, Places, PlacedStates, FulfilledStates
  <2>2. CASE ~Places(o.state, to)
    <3>1. o4.state # "Created" /\ o4.claimed = IF o4.placed THEN o4.items ELSE 0
      BY <2>2, <1>1, <1>3, <1>6 DEF Consistent
    <3>2. CASE o.state = "ArrangingPayment"
      BY <2>2, <3>1, <3>2, <1>1, <1>5, <1>6
         DEF Consistent, Places, PlacedStates, FulfilledStates
    <3>3. CASE o.state \in {"Draft", "AddingItems"}
      BY <2>2, <3>1, <3>3, <1>1, <1>5, <1>6
         DEF Consistent, PlacedStates, FulfilledStates
    <3>4. CASE o.state \in PlacedStates
      BY <2>2, <3>1, <3>4, <1>1, <1>5, <1>6
         DEF Consistent, PlacedStates, FulfilledStates
    <3>. QED
      BY <3>2, <3>3, <3>4, <1>1
  <2>. QED
    BY <2>1, <2>2
<1>. QED
  BY <1>2, <1>7, <1>8 DEF Kept

-----------------------------------------------------------------------------
(* Repricing only touches the shipping line. *)
LEMMA RechargedKeeps ==
  ASSUME NEW o, Consistent(o)
  PROVE  Kept(o, Recharged(o))
<1>1. Recharged(o) \in Orders
  BY FieldUpdates DEF Consistent, Recharged
<1>. QED
  BY <1>1 DEF Kept, StaysPlaced, Consistent, Recharged, Orders

(* The cart of an order that was not placed: nothing is claimed for it. *)
LEMMA CartKeeps ==
  ASSUME NEW o, Consistent(o), o.state \in {"AddingItems", "Draft"},
         NEW n \in Int, NEW line \in BOOLEAN
  PROVE  Kept(o, [o EXCEPT !.items = n, !.hasLine = line])
<1> DEFINE o1 == [o EXCEPT !.items = n]
           o2 == [o1 EXCEPT !.hasLine = line]
<1>1. o1 \in Orders
  BY FieldUpdates DEF Consistent
<1>2. o2 \in Orders
  BY <1>1, FieldUpdates
<1>3. /\ o2.state = o.state /\ o2.claimed = o.claimed
      /\ o2.placed = o.placed /\ o2.active = o.active
  BY DEF Consistent, Orders
<1>. QED
  BY <1>2, <1>3 DEF Kept, StaysPlaced, Consistent, PlacedStates, FulfilledStates

(* Added units are allocated if the order was placed. *)
LEMMA WithUnitsKeeps ==
  ASSUME NEW o, Consistent(o), o.state = "Modifying", NEW q \in Int
  PROVE  Kept(o, WithUnits(o, q)) /\ WithUnits(o, q).state = o.state
<1> DEFINE items == o.items + q
           claimed == IF o.active THEN o.claimed ELSE o.claimed + q
           o1 == [o EXCEPT !.items = items]
           o2 == [o1 EXCEPT !.hasLine = TRUE]
           o3 == [o2 EXCEPT !.claimed = claimed]
<1>1. /\ o.placed /\ ~o.active /\ o.items \in Int
      /\ items \in Int /\ claimed \in Int /\ claimed = items
  BY DEF Consistent, Orders, PlacedStates
<1>2. WithUnits(o, q) = o3
  BY DEF WithUnits
<1>3. o1 \in Orders
  BY <1>1, FieldUpdates DEF Consistent
<1>4. o2 \in Orders
  BY <1>3, FieldUpdates
<1>5. o3 \in Orders
  BY <1>1, <1>4, FieldUpdates
<1>6. /\ o3.state = o.state /\ o3.placed = o.placed /\ o3.active = o.active
      /\ o3.items = items /\ o3.claimed = claimed
  BY DEF Consistent, Orders
<1>. QED
  BY <1>1, <1>2, <1>5, <1>6 DEF Kept, StaysPlaced, Consistent

(* Cancelled units give back exactly what was claimed for them. *)
LEMMA WithoutUnitsKeeps ==
  ASSUME NEW o, Consistent(o), NEW q \in Int, 0 < q, q =< o.items,
         NEW cancelShipping \in BOOLEAN
  PROVE  Kept(o, WithoutUnits(o, q, cancelShipping))
<1> DEFINE items == o.items - q
           claimed == o.claimed - AtMost(o.claimed, q)
           shipping == IF cancelShipping /\ o.shipping = "charged"
                       THEN "cancelled" ELSE o.shipping
           o1 == [o EXCEPT !.items = items]
           o2 == [o1 EXCEPT !.claimed = claimed]
           o3 == [o2 EXCEPT !.shipping = shipping]
<1>1. /\ o.items \in Int /\ o.claimed \in Int
      /\ o.claimed = IF o.placed THEN o.items ELSE 0
      /\ shipping \in {"none", "charged", "cancelled"}
  BY DEF Consistent, Orders
<1>2. items \in Int /\ claimed \in Int /\ claimed = IF o.placed THEN items ELSE 0
  BY <1>1 DEF AtMost
<1>3. WithoutUnits(o, q, cancelShipping) = o3
  BY DEF WithoutUnits
<1>4. o1 \in Orders
  BY <1>2, FieldUpdates DEF Consistent
<1>5. o2 \in Orders
  BY <1>2, <1>4, FieldUpdates
<1>6. o3 \in Orders
  BY <1>1, <1>5, FieldUpdates
<1>7. /\ o3.state = o.state /\ o3.placed = o.placed /\ o3.active = o.active
      /\ o3.items = items /\ o3.claimed = claimed
  BY DEF Consistent, Orders
<1> HIDE DEF items, claimed, o3
<1>. QED
  BY <1>2, <1>3, <1>6, <1>7 DEF Kept, StaysPlaced, Consistent

LEMMA KeptTrans ==
  ASSUME NEW o1, NEW o2, NEW o3, Kept(o1, o2), Kept(o2, o3)
  PROVE  Kept(o1, o3)
BY DEF Kept, StaysPlaced

(* A transition that may be refused, and the one a payment triggers. *)
LEMMA TransitionedKeeps ==
  ASSUME NEW o, Consistent(o), NEW ps, NEW rs, NEW ms, NEW to
  PROVE  Kept(o, Transitioned(o, ps, rs, ms, to))
<1>1. CASE MayEnter(o, ps, rs, ms, to)
  BY <1>1, EnteredKeeps DEF MayEnter, Transitioned
<1>2. CASE ~MayEnter(o, ps, rs, ms, to)
  BY <1>2 DEF Transitioned, Kept, StaysPlaced
<1>. QED
  BY <1>1, <1>2

LEMMA AfterPaymentKeeps ==
  ASSUME NEW o, Consistent(o), NEW ps, NEW rs, NEW ms
  PROVE  Kept(o, AfterPayment(o, ps, rs, ms))
<1>1. Kept(o, o)
  BY DEF Kept, StaysPlaced
<1>. QED
  BY <1>1, TransitionedKeeps DEF AfterPayment

LEMMA ModifiedKeeps ==
  ASSUME NEW o, Consistent(o), o.state = "Modifying",
         NEW n \in Nat, NEW recalculate \in BOOLEAN
  PROVE  Kept(o, Modified(o, n, recalculate))
<1> DEFINE changed == IF n < o.items THEN WithoutUnits(o, o.items - n, FALSE)
                      ELSE IF o.items < n THEN WithUnits(o, n - o.items)
                      ELSE o
<1>1. o.items \in Int
  BY DEF Consistent, Orders
<1>2. Kept(o, changed)
  <2>1. CASE n < o.items
    <3>1. o.items - n \in Int /\ 0 < o.items - n /\ o.items - n =< o.items
      BY <2>1, <1>1
    <3>2. changed = WithoutUnits(o, o.items - n, FALSE)
      BY <2>1
    <3>. QED
      BY <3>1, <3>2, WithoutUnitsKeeps
  <2>2. CASE o.items < n
    <3>1. n - o.items \in Int /\ ~(n < o.items)
      BY <2>2, <1>1
    <3>2. changed = WithUnits(o, n - o.items)
      BY <2>2, <3>1
    <3>. QED
      BY <3>1, <3>2, WithUnitsKeeps
  <2>3. CASE n = o.items
    <3>1. ~(n < o.items) /\ ~(o.items < n)
      BY <2>3, <1>1
    <3>2. changed = o
      BY <3>1
    <3>. QED
      BY <3>2 DEF Kept, StaysPlaced
  <2> HIDE DEF changed
  <2>. QED
    BY <1>1, <2>1, <2>2, <2>3
<1>3. Modified(o, n, recalculate) = IF recalculate THEN Recharged(changed) ELSE changed
  BY DEF Modified
<1> HIDE DEF changed
<1>4. Kept(changed, Recharged(changed))
  BY <1>2, RechargedKeeps DEF Kept
<1>. QED
  BY <1>2, <1>3, <1>4, KeptTrans

(* The new order, in either of its first states. *)
LEMMA InitConsistent == Init => Consistent(order)
<1> SUFFICES ASSUME Init PROVE Consistent(order)
  OBVIOUS
<1> DEFINE fresh(state, active) ==
             [state |-> state, active |-> active, placed |-> FALSE,
              hasLine |-> FALSE, items |-> 0, shipping |-> "none", claimed |-> 0]
<1>1. CASE order = Entered(NewOrder(TRUE), "AddingItems")
  <2>1. order = fresh("AddingItems", TRUE)
    BY <1>1 DEF Entered, NewOrder, Places
  <2>. QED
    BY <2>1 DEF Consistent, Orders, OrderStates, PlacedStates, FulfilledStates
<1>2. CASE order = Entered(NewOrder(FALSE), "Draft")
  <2>1. order = fresh("Draft", FALSE)
    BY <1>2 DEF Entered, NewOrder, Places
  <2>. QED
    BY <2>1 DEF Consistent, Orders, OrderStates, PlacedStates, FulfilledStates
<1>. QED
  BY <1>1, <1>2 DEF Init

(* Every operation keeps the order consistent, and placed if it was. *)
LEMMA NextKeeps ==
  ASSUME Consistent(order), [Next]_vars
  PROVE  Kept(order, order')
<1> USE BoundsAssumption
<1>0. ASSUME UNCHANGED order PROVE Kept(order, order')
  BY <1>0 DEF Kept, StaysPlaced
<1>1. ASSUME NEW n \in 0 .. MaxItems, AdjustItems(n) PROVE Kept(order, order')
  <2> DEFINE cart == [order EXCEPT !.items = n, !.hasLine = n > 0]
  <2>1. Kept(order, cart)
    <3>1. n \in Int /\ (n > 0) \in BOOLEAN /\ order.state \in {"AddingItems", "Draft"}
      BY <1>1 DEF AdjustItems
    <3>. QED
      BY <3>1, CartKeeps
  <2>2. Kept(cart, Recharged(cart))
    BY <2>1, RechargedKeeps DEF Kept
  <2>3. order' = Recharged(cart)
    BY <1>1 DEF AdjustItems
  <2>. QED
    BY <2>1, <2>2, <2>3, KeptTrans
<1>2. ASSUME SetShippingMethod PROVE Kept(order, order')
  <2> DEFINE shipped == [order EXCEPT !.shipping = "charged"]
  <2>1. shipped \in Orders
    BY FieldUpdates DEF Consistent
  <2>2. Kept(order, shipped)
    BY <2>1 DEF Kept, StaysPlaced, Consistent, Orders
  <2>3. Kept(shipped, Recharged(shipped))
    BY <2>2, RechargedKeeps DEF Kept
  <2>4. order' = Recharged(shipped)
    BY <1>2 DEF SetShippingMethod
  <2>. QED
    BY <2>2, <2>3, <2>4, KeptTrans
<1>3. ASSUME NEW to \in OrderStates, TransitionOrder(to) PROVE Kept(order, order')
  BY <1>3, EnteredKeeps DEF TransitionOrder, MayEnter
<1>4. ASSUME NEW state \in PaymentStates, AddPayment(state) PROVE Kept(order, order')
  BY <1>4, AfterPaymentKeeps DEF AddPayment
<1>5. ASSUME AddManualPayment PROVE Kept(order, order')
  BY <1>5, AfterPaymentKeeps DEF AddManualPayment
<1>6. ASSUME NEW p \in DOMAIN payments, SettlePayment(p) \/ CancelPayment(p)
      PROVE  Kept(order, order')
  BY <1>6, AfterPaymentKeeps DEF SettlePayment, CancelPayment, MovePayment
<1>7. ASSUME NEW p \in DOMAIN payments, NEW total \in RefundAmounts,
             NEW explicit \in BOOLEAN, RefundOrder(p, total, explicit)
      PROVE  Kept(order, order')
  BY <1>7, <1>0 DEF RefundOrder
<1>8. ASSUME NEW r \in DOMAIN refunds, NEW to \in RefundStates, TransitionRefund(r, to)
      PROVE  Kept(order, order')
  BY <1>8, <1>0 DEF TransitionRefund
<1>9. ASSUME NEW n \in 0 .. MaxItems, NEW recalculate \in BOOLEAN,
             ModifyOrder(n, recalculate)
      PROVE  Kept(order, order')
  BY <1>9, ModifiedKeeps DEF ModifyOrder
<1>10. ASSUME NEW q \in 1 .. MaxItems, NEW cancelShipping \in BOOLEAN,
              CancelOrder(q, cancelShipping)
       PROVE  Kept(order, order')
  <2> DEFINE left == WithoutUnits(order, q, cancelShipping)
  <2>1. order.items \in Int /\ q \in Int /\ 0 < q /\ q =< order.items
    BY <1>10 DEF CancelOrder, Consistent, Orders
  <2>2. Kept(order, left)
    BY <2>1, WithoutUnitsKeeps
  <2>3. Kept(left, Transitioned(left, payments, refunds, modifications, "Cancelled"))
    BY <2>2, TransitionedKeeps DEF Kept
  <2>4. order' = IF left.items = 0
                 THEN Transitioned(left, payments, refunds, modifications, "Cancelled")
                 ELSE left
    BY <1>10 DEF CancelOrder
  <2> HIDE DEF left
  <2>. QED
    BY <2>2, <2>3, <2>4, KeptTrans
<1>11. CASE UNCHANGED vars
  BY <1>0, <1>11 DEF vars
<1>. QED
  BY <1>1, <1>2, <1>3, <1>4, <1>5, <1>6, <1>7, <1>8, <1>9, <1>10, <1>11 DEF Next

-----------------------------------------------------------------------------
(* In every reachable state the order has its type, and was placed,
   deactivated and allocated together. *)
THEOREM OrderConsistent == Spec => []Consistent(order)
<1>1. Consistent(order) /\ [Next]_vars => Consistent(order)'
  BY NextKeeps DEF Kept
<1>. QED
  BY InitConsistent, <1>1, PTL DEF Spec

(* An order is placed exactly in the states after checkout, is then inactive,
   and holds one allocation for each of its units: PlacedOrAllocatedTogether
   for orders, payments, refunds and modifications of any number. *)
THEOREM PlacedTogether == Spec => []PlacedOrAllocatedTogether
<1>1. Consistent(order) => PlacedOrAllocatedTogether
  BY DEF Consistent, PlacedOrAllocatedTogether
<1>. QED
  BY OrderConsistent, <1>1, PTL

(* No operation takes a placed order back to the checkout. *)
THEOREM PlacedForever == Spec => PlacedIsFinal
<1>1. Consistent(order) /\ [Next]_vars
        => [order.placed => order'.placed /\ ~order'.active
              /\ order'.state \in PlacedStates \cup {"Cancelled"}]_vars
  <2> SUFFICES ASSUME Consistent(order), [Next]_vars, order.placed
               PROVE  order'.placed /\ ~order'.active
                        /\ order'.state \in PlacedStates \cup {"Cancelled"}
    OBVIOUS
  <2>1. Consistent(order') /\ order'.placed
    BY NextKeeps DEF Kept, StaysPlaced
  <2>2. order'.state \notin {"Draft", "AddingItems", "ArrangingPayment"}
    BY <2>1 DEF Consistent
  <2>3. order'.state \in PlacedStates \cup {"Cancelled"}
    BY <2>1, <2>2 DEF Consistent, Orders, OrderStates, PlacedStates, FulfilledStates
  <2>. QED
    BY <2>1, <2>2, <2>3 DEF Consistent
<1>. QED
  BY OrderConsistent, <1>1, PTL DEF Spec, PlacedIsFinal

-----------------------------------------------------------------------------
(* What has been paid and refunded, as sums.                               *)

PaymentRecords == [state: PaymentStates, amount: Int]
RefundRecords(ps) == [state: RefundStates, payment: DOMAIN ps, total: Int]
ModificationRecords == [priceChange: Int, settled: BOOLEAN]

LEMMA PositionsFinite ==
  ASSUME NEW S, NEW s \in Seq(S), NEW T \in SUBSET DOMAIN s
  PROVE  IsFiniteSet(T)
<1>1. IsFiniteSet(1 .. Len(s)) /\ DOMAIN s = 1 .. Len(s)
  BY FS_Interval
<1>. QED
  BY <1>1, FS_Subset

LEMMA RefundTotalType ==
  ASSUME NEW ps, NEW rs \in Seq(RefundRecords(ps)), NEW p, NEW states
  PROVE  RefundTotal(rs, p, states) \in Int
<1> DEFINE of == {r \in DOMAIN rs : rs[r].payment = p /\ rs[r].state \in states}
           total == [r \in DOMAIN rs |-> rs[r].total]
<1>1. IsFiniteSet(of)
  BY PositionsFinite
<1>2. IntegersOn(total, of)
  <2>1. \A r \in DOMAIN rs : rs[r] \in RefundRecords(ps)
    OBVIOUS
  <2>. QED
    BY <2>1 DEF IntegersOn, RefundRecords
<1>3. RefundTotal(rs, p, states) = SumOf(total, of)
  BY DEF RefundTotal
<1> HIDE DEF of, total
<1>. QED
  BY <1>1, <1>2, <1>3, SumType

(* A payment that is not there has no refunds. *)
LEMMA NoPaymentNoRefund ==
  ASSUME NEW ps, NEW rs \in Seq(RefundRecords(ps)), NEW p, p \notin DOMAIN ps,
         NEW states
  PROVE  RefundTotal(rs, p, states) = 0
<1>1. \A r \in DOMAIN rs : rs[r].payment \in DOMAIN ps
  <2>1. \A r \in DOMAIN rs : rs[r] \in RefundRecords(ps)
    OBVIOUS
  <2>. QED
    BY <2>1 DEF RefundRecords
<1>2. {r \in DOMAIN rs : rs[r].payment = p /\ rs[r].state \in states} = {}
  BY <1>1
<1>. QED
  BY <1>2, SumEmpty DEF RefundTotal

LEMMA RefundMoveType ==
  ASSUME NEW ps, NEW rs \in Seq(RefundRecords(ps)), NEW r \in DOMAIN rs,
         NEW to \in RefundStates
  PROVE  LET next == [rs EXCEPT ![r].state = to]
         IN  /\ next \in Seq(RefundRecords(ps)) /\ DOMAIN next = DOMAIN rs
             /\ next[r].state = to
             /\ \A k \in DOMAIN rs : /\ next[k].payment = rs[k].payment
                                     /\ next[k].total = rs[k].total
                                     /\ k # r => next[k].state = rs[k].state
<1> DEFINE one == [rs[r] EXCEPT !.state = to]
           next == [rs EXCEPT ![r] = one]
<1>1. \A k \in DOMAIN rs : rs[k] \in RefundRecords(ps)
  OBVIOUS
<1>2. /\ one \in RefundRecords(ps)
      /\ one.state = to /\ one.payment = rs[r].payment /\ one.total = rs[r].total
  BY <1>1 DEF RefundRecords
<1>3. next = [rs EXCEPT ![r].state = to]
  OBVIOUS
<1>4. /\ next \in Seq(RefundRecords(ps)) /\ DOMAIN next = DOMAIN rs
      /\ next[r] = one /\ \A k \in DOMAIN rs \ {r} : next[k] = rs[k]
  <2> HIDE DEF one
  <2>. QED
    BY <1>2
<1> HIDE DEF next, one
<1>5. \A k \in DOMAIN rs : /\ next[k].payment = rs[k].payment
                          /\ next[k].total = rs[k].total
                          /\ k # r => next[k].state = rs[k].state
  BY <1>2, <1>4
<1>. QED
  BY <1>2, <1>3, <1>4, <1>5

(* A refund that changes its state counts for as much, where both states
   count alike. *)
LEMMA RefundMoves ==
  ASSUME refunds \in Seq(RefundRecords(payments)), NEW r \in DOMAIN refunds,
         NEW to \in RefundStates, NEW states,
         refunds[r].state \in states <=> to \in states,
         refunds' = [refunds EXCEPT ![r].state = to]
  PROVE  \A p : RefundTotal(refunds', p, states) = RefundTotal(refunds, p, states)
<1> TAKE p
<1> DEFINE next == refunds'
           of == {k \in DOMAIN refunds :
                    refunds[k].payment = p /\ refunds[k].state \in states}
           ofNext == {k \in DOMAIN next : next[k].payment = p /\ next[k].state \in states}
           total == [k \in DOMAIN refunds |-> refunds[k].total]
           totalNext == [k \in DOMAIN next |-> next[k].total]
<1>1. /\ DOMAIN next = DOMAIN refunds /\ next[r].state = to
      /\ \A k \in DOMAIN refunds : /\ next[k].payment = refunds[k].payment
                                   /\ next[k].total = refunds[k].total
                                   /\ k # r => next[k].state = refunds[k].state
  BY RefundMoveType
<1> HIDE DEF next
<1>2. ofNext = of /\ totalNext = total
  BY <1>1
<1>3. /\ RefundTotal(refunds, p, states) = SumOf(total, of)
      /\ RefundTotal(next, p, states) = SumOf(totalNext, ofNext)
  BY DEF RefundTotal
<1>. QED
  BY <1>2, <1>3 DEF next

LEMMA AbsType == Abs(0) = 0 /\ \A a \in Int : Abs(a) \in Int
BY DEF Abs

LEMMA CoveredType ==
  ASSUME NEW ps \in Seq(PaymentRecords), NEW rs \in Seq(RefundRecords(ps)), NEW states
  PROVE  Covered(ps, rs, states) \in Int
<1> DEFINE of == {p \in DOMAIN ps : ps[p].state \in states}
           held == [p \in DOMAIN ps |-> ps[p].amount - Abs(RefundTotal(rs, p, {"Settled"}))]
<1>1. \A p \in DOMAIN ps : ps[p].amount \in Int
  <2>1. \A p \in DOMAIN ps : ps[p] \in PaymentRecords
    OBVIOUS
  <2>. QED
    BY <2>1 DEF PaymentRecords
<1>2. \A p : Abs(RefundTotal(rs, p, {"Settled"})) \in Int
  BY RefundTotalType, AbsType
<1>3. IntegersOn(held, of) /\ IsFiniteSet(of)
  BY <1>1, <1>2, PositionsFinite DEF IntegersOn
<1>4. Covered(ps, rs, states) = SumOf(held, of)
  BY DEF Covered
<1> HIDE DEF of, held
<1>. QED
  BY <1>3, <1>4, SumType

(* A new payment adds its amount, if its state counts. *)
LEMMA CoveredAppend ==
  ASSUME NEW ps \in Seq(PaymentRecords), NEW rs \in Seq(RefundRecords(ps)),
         NEW x \in PaymentRecords, NEW states
  PROVE  Covered(Append(ps, x), rs, states)
           = Covered(ps, rs, states) + IF x.state \in states THEN x.amount ELSE 0
<1> DEFINE more == Append(ps, x)
           n == Len(ps) + 1
           of == {p \in DOMAIN ps : ps[p].state \in states}
           ofMore == {p \in DOMAIN more : more[p].state \in states}
           held == [p \in DOMAIN ps |-> ps[p].amount - Abs(RefundTotal(rs, p, {"Settled"}))]
           heldMore == [p \in DOMAIN more |->
                          more[p].amount - Abs(RefundTotal(rs, p, {"Settled"}))]
<1>1. /\ DOMAIN ps = 1 .. Len(ps) /\ Len(ps) \in Nat
      /\ DOMAIN more = 1 .. n /\ more[n] = x
      /\ \A p \in DOMAIN ps : more[p] = ps[p]
  OBVIOUS
<1>2. x.amount \in Int /\ \A p \in DOMAIN ps : ps[p].amount \in Int
  <2>1. \A p \in DOMAIN ps : ps[p] \in PaymentRecords
    OBVIOUS
  <2>. QED
    BY <2>1 DEF PaymentRecords
<1>3. n \notin DOMAIN ps
  BY <1>1
<1>4. /\ \A p : Abs(RefundTotal(rs, p, {"Settled"})) \in Int
      /\ Abs(RefundTotal(rs, n, {"Settled"})) = 0
  BY <1>3, RefundTotalType, NoPaymentNoRefund, AbsType
<1>5. /\ ofMore = of \cup (IF x.state \in states THEN {n} ELSE {})
      /\ n \notin of /\ IsFiniteSet(of)
  <2>1. IsFiniteSet(of)
    BY PositionsFinite
  <2> HIDE DEF more
  <2>. QED
    BY <1>1, <1>3, <2>1
<1>6. /\ \A p \in of : heldMore[p] = held[p]
      /\ heldMore[n] = x.amount
      /\ IntegersOn(held, of)
      /\ IntegersOn(heldMore, of \cup {n})
  <2> HIDE DEF more
  <2>1. /\ \A p \in of : heldMore[p] = held[p] /\ held[p] \in Int
        /\ heldMore[n] = x.amount
    BY <1>1, <1>2, <1>4
  <2>. QED
    BY <1>2, <2>1 DEF IntegersOn
<1>7. /\ Covered(ps, rs, states) = SumOf(held, of)
      /\ Covered(more, rs, states) = SumOf(heldMore, ofMore)
  BY DEF Covered
<1> HIDE DEF more, n, of, ofMore, held, heldMore
<1>8. SumOf(heldMore, of) = SumOf(held, of) /\ SumOf(held, of) \in Int
  BY <1>5, <1>6, SumEqual, SumType
<1>9. SumOf(heldMore, of \cup {n}) = heldMore[n] + SumOf(heldMore, of)
  BY <1>5, <1>6, SumInsert
<1>10. CASE x.state \in states
  BY <1>2, <1>5, <1>6, <1>7, <1>8, <1>9, <1>10 DEF more
<1>11. CASE x.state \notin states
  BY <1>5, <1>7, <1>8, <1>11 DEF more
<1>. QED
  BY <1>10, <1>11

(* A payment that changes its state counts for as much, where both states
   count alike. *)
LEMMA CoveredMoves ==
  ASSUME NEW ps \in Seq(PaymentRecords), NEW rs \in Seq(RefundRecords(ps)),
         NEW p \in DOMAIN ps, NEW to \in PaymentStates, NEW states,
         ps[p].state \in states <=> to \in states
  PROVE  Covered([ps EXCEPT ![p].state = to], rs, states) = Covered(ps, rs, states)
<1> DEFINE one == [ps[p] EXCEPT !.state = to]
           next == [ps EXCEPT ![p] = one]
<1>1. \A k \in DOMAIN ps : ps[k] \in PaymentRecords
  OBVIOUS
<1>2. one.state = to /\ one.amount = ps[p].amount
  BY <1>1 DEF PaymentRecords
<1>3. /\ DOMAIN next = DOMAIN ps
      /\ next[p] = one /\ \A k \in DOMAIN ps \ {p} : next[k] = ps[k]
  OBVIOUS
<1>4. next = [ps EXCEPT ![p].state = to]
  OBVIOUS
<1> HIDE DEF next, one
<1>5. {k \in DOMAIN next : next[k].state \in states}
        = {k \in DOMAIN ps : ps[k].state \in states}
  BY <1>2, <1>3
<1>6. \A k \in DOMAIN ps : next[k].amount = ps[k].amount
  BY <1>2, <1>3
<1>7. [k \in DOMAIN next |-> next[k].amount - Abs(RefundTotal(rs, k, {"Settled"}))]
        = [k \in DOMAIN ps |-> ps[k].amount - Abs(RefundTotal(rs, k, {"Settled"}))]
  BY <1>3, <1>6
<1>. QED
  BY <1>4, <1>5, <1>7 DEF Covered

(* Only what is settled of the refunds counts. *)
LEMMA CoveredSettled ==
  ASSUME NEW ps, NEW rs, NEW next, NEW states,
         \A p : RefundTotal(next, p, {"Settled"}) = RefundTotal(rs, p, {"Settled"})
  PROVE  Covered(ps, next, states) = Covered(ps, rs, states)
BY DEF Covered

-----------------------------------------------------------------------------
(* What createRefund creates.                                              *)

RefundMax ==
  SumOf([p \in DOMAIN payments |-> Refundable(payments, refunds, p)], DOMAIN payments)

(* What the k-th refund is, when x is refunded already. *)
ConstrainedTotal(path, total, k, x) ==
  AtMost(Refundable(payments, refunds, path[k]),
         IF k = 1 THEN AtMost(total, RefundMax) ELSE total - x)

Typed ==
  /\ payments \in Seq(PaymentRecords)
  /\ refunds \in Seq(RefundRecords(payments))
  /\ modifications \in Seq(ModificationRecords)

LEMMA AtMostType ==
  ASSUME NEW a \in Int, NEW b \in Int
  PROVE  AtMost(a, b) \in Int /\ AtMost(a, b) =< a
BY DEF AtMost

LEMMA RefundableType ==
  ASSUME Typed, NEW p \in DOMAIN payments
  PROVE  Refundable(payments, refunds, p) \in Int
<1>1. payments[p].amount \in Int
  <2>1. payments[p] \in PaymentRecords
    BY DEF Typed
  <2>. QED
    BY <2>1 DEF PaymentRecords
<1>2. RefundTotal(refunds, p, {"Pending", "Settled"}) \in Int
  BY RefundTotalType DEF Typed
<1>. QED
  BY <1>1, <1>2 DEF Refundable

LEMMA RefundMaxType ==
  ASSUME Typed
  PROVE  RefundMax \in Int
<1> DEFINE f == [p \in DOMAIN payments |-> Refundable(payments, refunds, p)]
           S == DOMAIN payments
<1>1. IsFiniteSet(S)
  BY PositionsFinite DEF Typed
<1>2. \A p \in S : f[p] \in Int
  BY RefundableType
<1>3. RefundMax = SumOf(f, S)
  BY DEF RefundMax
<1> HIDE DEF f, S
<1>. QED
  BY <1>1, <1>2, <1>3, SumType DEF IntegersOn

(* The payments of a path are different and can all be refunded. *)
LEMMA RefundPathIs ==
  ASSUME NEW selected, NEW n \in Nat, NEW path \in RefundPaths(selected, n)
  PROVE  /\ path \in [1 .. n -> DOMAIN payments]
         /\ \A k \in 1 .. n : 0 < Refundable(payments, refunds, path[k])
         /\ \A i, k \in 1 .. n : path[i] = path[k] => i = k
<1>1. /\ path \in [1 .. n -> {p \in DOMAIN payments : 0 < Refundable(payments, refunds, p)}]
      /\ \A k \in 1 .. n : path[k] \notin {path[i] : i \in 1 .. k - 1}
  BY DEF RefundPaths
<1>2. ASSUME NEW i \in 1 .. n, NEW k \in 1 .. n, i < k
      PROVE  path[i] # path[k]
  <2>1. i \in 1 .. k - 1
    BY <1>2
  <2>. QED
    BY <1>1, <2>1
<1>3. \A i, k \in 1 .. n : path[i] = path[k] => i = k
  <2>1. \A i, k \in 1 .. n : i # k => i < k \/ k < i
    OBVIOUS
  <2>. QED
    BY <1>2, <2>1
<1>. QED
  BY <1>1, <1>3

(* g says what is refunded after each of the first n payments. *)
Refunds(path, total, n, g) ==
  g = [k \in 0 .. n |-> IF k = 0 THEN 0
                        ELSE g[k-1] + ConstrainedTotal(path, total, k, g[k-1])]

LEMMA RefundsExist ==
  ASSUME NEW path, NEW total
  PROVE  \A n \in Nat : \E g : Refunds(path, total, n, g)
<1> DEFINE P == {n \in Nat : \E g : Refunds(path, total, n, g)}
<1>1. 0 \in P
  <2> DEFINE g == [k \in 0 .. 0 |-> 0]
  <2>1. Refunds(path, total, 0, g)
    BY DEF Refunds
  <2>. QED
    BY <2>1
<1>2. ASSUME NEW n \in Nat, n \in P PROVE n + 1 \in P
  <2>1. PICK g : Refunds(path, total, n, g)
    BY <1>2
  <2> DEFINE h == [k \in 0 .. n + 1 |->
                     IF k =< n THEN g[k]
                     ELSE g[n] + ConstrainedTotal(path, total, n + 1, g[n])]
             next == [k \in 0 .. n + 1 |->
                     IF k = 0 THEN 0
                     ELSE h[k-1] + ConstrainedTotal(path, total, k, h[k-1])]
  <2>2. ASSUME NEW k \in 0 .. n + 1 PROVE h[k] = next[k]
    <3>1. CASE k = 0
      BY <2>1, <3>1 DEF Refunds
    <3>2. CASE k \in 1 .. n
      <4>1. k - 1 \in 0 .. n /\ k \in 0 .. n /\ k # 0
        BY <3>2
      <4>2. h[k] = g[k] /\ h[k-1] = g[k-1]
        BY <4>1
      <4>3. g[k] = g[k-1] + ConstrainedTotal(path, total, k, g[k-1])
        BY <2>1, <4>1 DEF Refunds
      <4>. QED
        BY <4>1, <4>2, <4>3
    <3>3. CASE k = n + 1
      <4>1. ~(k =< n) /\ k # 0 /\ k - 1 = n /\ n \in 0 .. n + 1 /\ n =< n
        BY <3>3
      <4>2. h[n] = g[n]
        BY <4>1
      <4>. QED
        BY <3>3, <4>1, <4>2
    <3>. QED
      BY <3>1, <3>2, <3>3
  <2>3. h = next
    <3>1. h = [k \in 0 .. n + 1 |-> h[k]] /\ next = [k \in 0 .. n + 1 |-> next[k]]
      OBVIOUS
    <3> HIDE DEF h, next
    <3>. QED
      BY <2>2, <3>1
  <2>4. Refunds(path, total, n + 1, h)
    BY <2>3 DEF Refunds
  <2>. QED
    BY <2>4
<1> HIDE DEF P
<1>3. \A n \in Nat : n \in P
  BY <1>1, <1>2, NumberInduction
<1>. QED
  BY <1>3 DEF P

LEMMA RefundedUnfolded ==
  ASSUME NEW path, NEW total, NEW n
  PROVE  RefundedAfter(path, n, total) = CHOOSE g : Refunds(path, total, n, g)
BY DEF RefundedAfter, Refunds, ConstrainedTotal, RefundMax

LEMMA RefundedSteps ==
  ASSUME Typed, NEW n \in Nat, NEW path \in [1 .. n -> DOMAIN payments],
         NEW total \in Int
  PROVE  LET done == RefundedAfter(path, n, total)
         IN  /\ \A k \in 0 .. n : done[k] \in Int
             /\ \A k \in 1 .. n :
                  /\ ConstrainedTotal(path, total, k, done[k-1]) \in Int
                  /\ done[k] - done[k-1] = ConstrainedTotal(path, total, k, done[k-1])
<1> DEFINE done == RefundedAfter(path, n, total)
<1>1. Refunds(path, total, n, done)
  <2>1. \E g : Refunds(path, total, n, g)
    BY RefundsExist
  <2>. QED
    BY <2>1, RefundedUnfolded
<1> HIDE DEF done
<1>2. /\ done[0] = 0
      /\ \A k \in 1 .. n :
           done[k] = done[k-1] + ConstrainedTotal(path, total, k, done[k-1])
  <2>1. \A k \in 0 .. n : done[k] = IF k = 0 THEN 0 ELSE
                done[k-1] + ConstrainedTotal(path, total, k, done[k-1])
    BY <1>1 DEF Refunds
  <2>. QED
    BY <2>1
<1>3. ASSUME NEW k \in 1 .. n, NEW x \in Int
      PROVE  ConstrainedTotal(path, total, k, x) \in Int
  <2>1. Refundable(payments, refunds, path[k]) \in Int /\ RefundMax \in Int
    BY RefundableType, RefundMaxType
  <2>2. (IF k = 1 THEN AtMost(total, RefundMax) ELSE total - x) \in Int
    BY <2>1, AtMostType
  <2>. QED
    BY <2>1, <2>2, AtMostType DEF ConstrainedTotal
<1> DEFINE P == {k \in Nat : k =< n => done[k] \in Int}
<1>4. 0 \in P
  BY <1>2
<1>5. ASSUME NEW k \in Nat, k \in P PROVE k + 1 \in P
  <2> SUFFICES ASSUME k + 1 =< n PROVE done[k+1] \in Int
    OBVIOUS
  <2>1. k =< n /\ k + 1 \in 1 .. n /\ (k + 1) - 1 = k
    OBVIOUS
  <2>2. done[k] \in Int
    BY <1>5, <2>1
  <2>3. ConstrainedTotal(path, total, k + 1, done[k]) \in Int
    BY <1>3, <2>1, <2>2
  <2>4. done[k+1] = done[k] + ConstrainedTotal(path, total, k + 1, done[k])
    BY <1>2, <2>1
  <2>. QED
    BY <2>2, <2>3, <2>4
<1> HIDE DEF P
<1>6. \A k \in Nat : k \in P
  BY <1>4, <1>5, NumberInduction
<1>7. \A k \in 0 .. n : done[k] \in Int
  BY <1>6 DEF P
<1>8. ASSUME NEW k \in 1 .. n
      PROVE  /\ ConstrainedTotal(path, total, k, done[k-1]) \in Int
             /\ done[k] - done[k-1] = ConstrainedTotal(path, total, k, done[k-1])
  <2>1. k - 1 \in 0 .. n
    OBVIOUS
  <2>2. done[k-1] \in Int
    BY <1>7, <2>1
  <2>3. ConstrainedTotal(path, total, k, done[k-1]) \in Int
    BY <1>3, <2>2
  <2>4. done[k] = done[k-1] + ConstrainedTotal(path, total, k, done[k-1])
    BY <1>2
  <2>. QED
    BY <2>2, <2>3, <2>4
<1>. QED
  BY <1>7, <1>8 DEF done

(* New refunds after the others. *)
LEMMA Concatenated ==
  ASSUME NEW S, NEW rs \in Seq(S), NEW more \in Seq(S)
  PROVE  /\ rs \o more \in Seq(S)
         /\ DOMAIN rs \subseteq DOMAIN (rs \o more)
         /\ \A r \in DOMAIN rs : (rs \o more)[r] = rs[r]
         /\ \A r \in DOMAIN (rs \o more) \ DOMAIN rs :
              \E k \in DOMAIN more : r = Len(rs) + k /\ (rs \o more)[r] = more[k]
         /\ \A k \in DOMAIN more :
              /\ Len(rs) + k \in DOMAIN (rs \o more) \ DOMAIN rs
              /\ (rs \o more)[Len(rs) + k] = more[k]
<1> DEFINE all == rs \o more
<1>1. /\ all \in Seq(S) /\ Len(all) = Len(rs) + Len(more)
      /\ DOMAIN rs = 1 .. Len(rs) /\ DOMAIN more = 1 .. Len(more)
      /\ DOMAIN all = 1 .. Len(all)
      /\ Len(rs) \in Nat /\ Len(more) \in Nat
  OBVIOUS
<1>2. \A r \in DOMAIN rs : all[r] = rs[r]
  OBVIOUS
<1>3. ASSUME NEW k \in DOMAIN more
      PROVE  Len(rs) + k \in DOMAIN all \ DOMAIN rs /\ all[Len(rs) + k] = more[k]
  <2>1. Len(rs) + k \in 1 .. Len(all) /\ Len(rs) + k \notin 1 .. Len(rs)
    BY <1>1
  <2>2. all[Len(rs) + k] = more[k]
    OBVIOUS
  <2>. QED
    BY <1>1, <2>1, <2>2
<1> HIDE DEF all
<1>4. ASSUME NEW r \in DOMAIN all \ DOMAIN rs
      PROVE  \E k \in DOMAIN more : r = Len(rs) + k /\ all[r] = more[k]
  <2>1. r - Len(rs) \in DOMAIN more /\ r = Len(rs) + (r - Len(rs))
    BY <1>1
  <2>. QED
    BY <1>3, <2>1
<1>5. DOMAIN rs \subseteq DOMAIN all
  BY <1>1
<1>. QED
  BY <1>1, <1>2, <1>3, <1>4, <1>5 DEF all

(* The total of the refunds that are in R. *)
TotalIn(rs, R) == SumOf([r \in DOMAIN rs |-> rs[r].total], {r \in DOMAIN rs : rs[r] \in R})

(* A new refund in R adds its total, if it is the only one; if none is in R,
   the total stays. *)
LEMMA MoreRefunds ==
  ASSUME NEW ps, NEW rs \in Seq(RefundRecords(ps)),
         NEW more \in Seq(RefundRecords(ps)), NEW R
  PROVE  /\ (\A k \in DOMAIN more : more[k] \notin R)
              => TotalIn(rs \o more, R) = TotalIn(rs, R)
         /\ \A k \in DOMAIN more :
              more[k] \in R /\ (\A i \in DOMAIN more : more[i] \in R => i = k)
              => TotalIn(rs \o more, R) = TotalIn(rs, R) + more[k].total
<1> DEFINE all == rs \o more
           of == {r \in DOMAIN rs : rs[r] \in R}
           ofAll == {r \in DOMAIN all : all[r] \in R}
           total == [r \in DOMAIN rs |-> rs[r].total]
           totalAll == [r \in DOMAIN all |-> all[r].total]
<1>1. /\ all \in Seq(RefundRecords(ps))
      /\ DOMAIN rs \subseteq DOMAIN all
      /\ \A r \in DOMAIN rs : all[r] = rs[r]
      /\ \A r \in DOMAIN all \ DOMAIN rs :
           \E k \in DOMAIN more : r = Len(rs) + k /\ all[r] = more[k]
      /\ \A k \in DOMAIN more :
           /\ Len(rs) + k \in DOMAIN all \ DOMAIN rs
           /\ all[Len(rs) + k] = more[k]
  BY Concatenated
<1>2. /\ TotalIn(rs, R) = SumOf(total, of)
      /\ TotalIn(all, R) = SumOf(totalAll, ofAll)
  BY DEF TotalIn
<1>3. \A r \in DOMAIN all : all[r].total \in Int
  <2> HIDE DEF all
  <2>1. \A r \in DOMAIN all : all[r] \in RefundRecords(ps)
    BY <1>1
  <2>. QED
    BY <2>1 DEF RefundRecords
<1>4. IsFiniteSet(of)
  BY PositionsFinite
<1>5. /\ \A r \in of : total[r] = totalAll[r]
      /\ IntegersOn(total, of) /\ IntegersOn(totalAll, DOMAIN all)
      /\ of \subseteq DOMAIN rs /\ of \subseteq DOMAIN all
      /\ \A r \in DOMAIN all : totalAll[r] = all[r].total
      /\ of \subseteq ofAll
      /\ \A r \in ofAll \ of : r \in DOMAIN all \ DOMAIN rs /\ all[r] \in R
  <2> HIDE DEF all
  <2>. QED
    BY <1>1, <1>3 DEF IntegersOn
<1>6. \A r \in DOMAIN all : all[r] \in R => r \in ofAll
  OBVIOUS
<1> HIDE DEF all, of, ofAll, total, totalAll
<1>7. SumOf(totalAll, of) = SumOf(total, of) /\ SumOf(total, of) \in Int
  BY <1>4, <1>5, SumEqual, SumType
<1>8. ASSUME \A k \in DOMAIN more : more[k] \notin R
      PROVE  TotalIn(all, R) = TotalIn(rs, R)
  <2>1. ASSUME NEW r \in ofAll \ of PROVE FALSE
    <3>1. PICK k \in DOMAIN more : all[r] = more[k]
      BY <1>1, <1>5
    <3>. QED
      BY <1>5, <1>8, <3>1
  <2>2. ofAll = of
    BY <1>5, <2>1
  <2>. QED
    BY <1>2, <1>7, <2>2
<1>9. ASSUME NEW k \in DOMAIN more, more[k] \in R,
             \A i \in DOMAIN more : more[i] \in R => i = k
      PROVE  TotalIn(all, R) = TotalIn(rs, R) + more[k].total
  <2> DEFINE x == Len(rs) + k
  <2>1. /\ x \in DOMAIN all \ DOMAIN rs /\ all[x] = more[k] /\ x \in ofAll
        /\ x \notin of
    BY <1>1, <1>5, <1>6, <1>9
  <2>2. \A r \in ofAll \ of : r = x
    BY <1>1, <1>5, <1>9
  <2> HIDE DEF x
  <2>3. ofAll = of \cup {x}
    BY <1>5, <2>1, <2>2
  <2>4. IntegersOn(totalAll, of \cup {x}) /\ totalAll[x] = more[k].total
    BY <1>5, <2>1 DEF IntegersOn
  <2>5. SumOf(totalAll, of \cup {x}) = totalAll[x] + SumOf(totalAll, of)
    BY <1>4, <2>1, <2>4, SumInsert
  <2>6. totalAll[x] \in Int
    BY <2>4 DEF IntegersOn
  <2>. QED
    BY <1>2, <1>7, <2>3, <2>4, <2>5, <2>6
<1>. QED
  BY <1>8, <1>9 DEF all

(* Refunds that are not settled cover as much as before. *)
LEMMA MoreUnsettled ==
  ASSUME NEW ps, NEW rs \in Seq(RefundRecords(ps)),
         NEW more \in Seq(RefundRecords(ps)),
         \A k \in DOMAIN more : more[k].state # "Settled"
  PROVE  \A p : RefundTotal(rs \o more, p, {"Settled"}) = RefundTotal(rs, p, {"Settled"})
<1> TAKE p
<1> DEFINE all == rs \o more
           R == {x \in RefundRecords(ps) : x.payment = p /\ x.state \in {"Settled"}}
<1>1. \A s \in Seq(RefundRecords(ps)) : RefundTotal(s, p, {"Settled"}) = TotalIn(s, R)
  <2> TAKE s \in Seq(RefundRecords(ps))
  <2>1. \A r \in DOMAIN s : s[r] \in RefundRecords(ps)
    OBVIOUS
  <2>2. {r \in DOMAIN s : s[r].payment = p /\ s[r].state \in {"Settled"}}
          = {r \in DOMAIN s : s[r] \in R}
    BY <2>1
  <2>. QED
    BY <2>2 DEF RefundTotal, TotalIn
<1>2. \A k \in DOMAIN more : more[k] \notin R
  OBVIOUS
<1>3. all \in Seq(RefundRecords(ps))
  BY Concatenated
<1> HIDE DEF R
<1>4. TotalIn(all, R) = TotalIn(rs, R)
  BY <1>2, MoreRefunds
<1> HIDE DEF all
<1>5. RefundTotal(all, p, {"Settled"}) = RefundTotal(rs, p, {"Settled"})
  BY <1>1, <1>3, <1>4
<1>. QED
  BY <1>5 DEF all

(* createRefund adds refunds of different payments, each at most what can be
   refunded of its payment. *)
LEMMA RefundsCreated ==
  ASSUME Typed, NEW selected, NEW total \in Int, NEW explicit, NEW mayFail,
         CreatesRefunds(selected, total, explicit, mayFail)
  PROVE  \E more \in Seq(RefundRecords(payments)) :
           /\ refunds' = refunds \o more
           /\ \A i, k \in DOMAIN more : more[i].payment = more[k].payment => i = k
           /\ \A k \in DOMAIN more :
                /\ 0 < Refundable(payments, refunds, more[k].payment)
                /\ more[k].total =< Refundable(payments, refunds, more[k].payment)
<1>1. PICK n \in 1 .. AtMost(MaxRefunds - Len(refunds), Len(payments)) :
        \E path \in RefundPaths(selected, n), answers \in [1 .. n -> RefundStates] :
          LET done == RefundedAfter(path, n, total)
          IN  refunds' = refunds \o
                [k \in 1 .. n |-> [state |-> answers[k], payment |-> path[k],
                                   total |-> done[k] - done[k-1]]]
  BY DEF CreatesRefunds
<1>2. n \in Nat
  OBVIOUS
<1>3. PICK path \in RefundPaths(selected, n), answers \in [1 .. n -> RefundStates] :
        LET done == RefundedAfter(path, n, total)
        IN  refunds' = refunds \o
              [k \in 1 .. n |-> [state |-> answers[k], payment |-> path[k],
                                 total |-> done[k] - done[k-1]]]
  BY <1>1
<1>4. /\ path \in [1 .. n -> DOMAIN payments]
      /\ \A k \in 1 .. n : 0 < Refundable(payments, refunds, path[k])
      /\ \A i, k \in 1 .. n : path[i] = path[k] => i = k
  BY <1>2, RefundPathIs
<1> DEFINE done == RefundedAfter(path, n, total)
           left(k) == IF k = 1 THEN AtMost(total, RefundMax) ELSE total - done[k-1]
           free(k) == Refundable(payments, refunds, path[k])
           more == [k \in 1 .. n |-> [state |-> answers[k], payment |-> path[k],
                                      total |-> done[k] - done[k-1]]]
<1>5. /\ \A k \in 0 .. n : done[k] \in Int
      /\ \A k \in 1 .. n :
           /\ ConstrainedTotal(path, total, k, done[k-1]) \in Int
           /\ done[k] - done[k-1] = ConstrainedTotal(path, total, k, done[k-1])
  BY <1>2, <1>4, RefundedSteps
<1>6. refunds' = refunds \o more
  BY <1>3
<1>7. \A k \in 1 .. n : ConstrainedTotal(path, total, k, done[k-1])
                           = AtMost(free(k), left(k))
  BY DEF ConstrainedTotal
<1> HIDE DEF done
<1>8. more \in Seq(RefundRecords(payments)) /\ DOMAIN more = 1 .. n
  <2>1. \A k \in 1 .. n : [state |-> answers[k], payment |-> path[k],
                           total |-> done[k] - done[k-1]] \in RefundRecords(payments)
    BY <1>4, <1>5 DEF RefundRecords
  <2>. QED
    BY <1>2, <2>1
<1>9. \A k \in 1 .. n : more[k].payment = path[k]
                        /\ more[k].total = done[k] - done[k-1]
  OBVIOUS
<1> HIDE DEF more
<1>10. RefundMax \in Int
  BY RefundMaxType
<1>11. ASSUME NEW k \in 1 .. n
       PROVE  more[k].total =< free(k)
  <2>1. free(k) \in Int
    BY <1>4, RefundableType
  <2>2. left(k) \in Int
    <3>1. CASE k = 1
      BY <1>10, <3>1, AtMostType
    <3>2. CASE k # 1
      <4>1. k - 1 \in 0 .. n
        BY <1>2, <3>2
      <4>2. done[k-1] \in Int
        BY <1>5, <4>1
      <4>. QED
        BY <3>2, <4>2
    <3>. QED
      BY <3>1, <3>2
  <2>3. more[k].total = AtMost(free(k), left(k))
    BY <1>5, <1>7, <1>9
  <2> HIDE DEF free, left
  <2>. QED
    BY <2>1, <2>2, <2>3, AtMostType
<1>12. /\ \A i, k \in DOMAIN more : more[i].payment = more[k].payment => i = k
       /\ \A k \in DOMAIN more :
            /\ 0 < Refundable(payments, refunds, more[k].payment)
            /\ more[k].total =< Refundable(payments, refunds, more[k].payment)
  BY <1>4, <1>8, <1>9, <1>11
<1>. QED
  BY <1>6, <1>8, <1>12

-----------------------------------------------------------------------------
(* The types of payments, refunds and modifications.                       *)

PaymentsInv == Consistent(order) /\ Typed

TypedNext ==
  /\ payments' \in Seq(PaymentRecords)
  /\ refunds' \in Seq(RefundRecords(payments'))
  /\ modifications' \in Seq(ModificationRecords)

(* Refunds of some payments are refunds of more. *)
LEMMA RefundsOfMore ==
  ASSUME NEW ps, NEW qs, DOMAIN ps \subseteq DOMAIN qs,
         NEW rs \in Seq(RefundRecords(ps))
  PROVE  rs \in Seq(RefundRecords(qs))
<1>1. RefundRecords(ps) \subseteq RefundRecords(qs)
  BY DEF RefundRecords
<1>. QED
  BY <1>1

LEMMA PaymentMoves ==
  ASSUME NEW ps \in Seq(PaymentRecords), NEW p \in DOMAIN ps, NEW to,
         <<ps[p].state, to>> \in PaymentTransitions
  PROVE  LET next == [ps EXCEPT ![p].state = to]
         IN  /\ next \in Seq(PaymentRecords)
             /\ DOMAIN next = DOMAIN ps
             /\ next[p].state = to /\ to \in PaymentStates
             /\ \A k \in DOMAIN ps : next[k].amount = ps[k].amount
             /\ ps[p].state \in LiveStates \/ to \notin LiveStates
<1> DEFINE one == [ps[p] EXCEPT !.state = to]
           next == [ps EXCEPT ![p] = one]
<1>1. ps[p] \in PaymentRecords
  OBVIOUS
<1>2. /\ to \in PaymentStates
      /\ ps[p].state \in LiveStates \/ to \notin LiveStates
  BY DEF PaymentTransitions, PaymentStates, LiveStates
<1>3. one \in PaymentRecords /\ one.state = to /\ one.amount = ps[p].amount
  BY <1>1, <1>2 DEF PaymentRecords
<1>4. next = [ps EXCEPT ![p].state = to]
  OBVIOUS
<1>5. /\ next \in Seq(PaymentRecords) /\ DOMAIN next = DOMAIN ps
      /\ next[p] = one /\ \A k \in DOMAIN ps \ {p} : next[k] = ps[k]
  <2> HIDE DEF one
  <2>. QED
    BY <1>3
<1> HIDE DEF next, one
<1>. QED
  BY <1>2, <1>3, <1>4, <1>5

LEMMA TotalType ==
  ASSUME NEW o \in Orders
  PROVE  Total(o) \in Int
BY DEF Total, Orders

LEMMA DueType ==
  ASSUME PaymentsInv
  PROVE  /\ Due(order, payments, refunds) \in Int
         /\ Covered(payments, refunds, LiveStates) \in Int
         /\ Total(order) \in Int
<1>1. Total(order) \in Int
  BY TotalType DEF PaymentsInv, Consistent
<1>2. Covered(payments, refunds, LiveStates) \in Int
  BY CoveredType DEF PaymentsInv, Typed
<1>. QED
  BY <1>1, <1>2 DEF Due

(* The payment that is added, of part or all of the amount due. *)
LEMMA PaymentAdded ==
  ASSUME PaymentsInv, NEW s \in PaymentStates, NEW amount,
         amount \in {Due(order, payments, refunds)}
                      \cup 1 .. Due(order, payments, refunds) - 1
  PROVE  LET x == [state |-> s, amount |-> amount]
         IN  /\ x \in PaymentRecords
             /\ Append(payments, x) \in Seq(PaymentRecords)
             /\ refunds \in Seq(RefundRecords(Append(payments, x)))
             /\ DOMAIN payments \subseteq DOMAIN Append(payments, x)
<1> DEFINE x == [state |-> s, amount |-> amount]
<1>1. amount \in Int
  BY DueType
<1>2. x \in PaymentRecords
  BY <1>1 DEF PaymentRecords
<1>3. payments \in Seq(PaymentRecords) /\ refunds \in Seq(RefundRecords(payments))
  BY DEF PaymentsInv, Typed
<1> HIDE DEF x
<1>4. /\ Append(payments, x) \in Seq(PaymentRecords)
      /\ DOMAIN payments \subseteq DOMAIN Append(payments, x)
  BY <1>2, <1>3
<1>5. refunds \in Seq(RefundRecords(Append(payments, x)))
  BY <1>3, <1>4, RefundsOfMore
<1>. QED
  BY <1>2, <1>4, <1>5 DEF x

LEMMA InitTyped == Init => Typed
BY DEF Init, Typed

LEMMA NextTyped ==
  ASSUME PaymentsInv, [Next]_vars
  PROVE  TypedNext
<1> USE BoundsAssumption
<1>0. /\ payments \in Seq(PaymentRecords)
      /\ refunds \in Seq(RefundRecords(payments))
      /\ modifications \in Seq(ModificationRecords)
  BY DEF PaymentsInv, Typed
<1>1. ASSUME UNCHANGED <<payments, refunds, modifications>> PROVE TypedNext
  BY <1>0, <1>1 DEF TypedNext
<1>2. ASSUME NEW state \in PaymentStates, AddPayment(state) PROVE TypedNext
  <2>1. PICK amount \in {Due(order, payments, refunds)}
                           \cup 1 .. Due(order, payments, refunds) - 1 :
          payments' = Append(payments, [state |-> state, amount |-> amount])
    BY <1>2 DEF AddPayment
  <2>2. UNCHANGED <<refunds, modifications>>
    BY <1>2 DEF AddPayment
  <2>. QED
    BY <1>0, <2>1, <2>2, PaymentAdded DEF TypedNext
<1>3. ASSUME AddManualPayment PROVE TypedNext
  <2>1. /\ payments' = Append(payments, [state |-> "Settled",
                                        amount |-> Due(order, payments, refunds)])
        /\ modifications' = [m \in DOMAIN modifications |->
                                [modifications[m] EXCEPT !.settled = TRUE]]
        /\ UNCHANGED refunds
    BY <1>3 DEF AddManualPayment
  <2>2. "Settled" \in PaymentStates
    BY DEF PaymentStates
  <2>3. payments' \in Seq(PaymentRecords) /\ refunds' \in Seq(RefundRecords(payments'))
    BY <2>1, <2>2, PaymentAdded
  <2>4. \A m \in DOMAIN modifications :
          [modifications[m] EXCEPT !.settled = TRUE] \in ModificationRecords
    <3>1. \A m \in DOMAIN modifications : modifications[m] \in ModificationRecords
      BY <1>0
    <3>. QED
      BY <3>1 DEF ModificationRecords
  <2>5. modifications' \in Seq(ModificationRecords)
    BY <1>0, <2>1, <2>4
  <2>. QED
    BY <2>3, <2>5 DEF TypedNext
<1>4. ASSUME NEW p \in DOMAIN payments, NEW to, MovePayment(p, to) PROVE TypedNext
  <2>1. /\ <<payments[p].state, to>> \in PaymentTransitions
        /\ payments' = [payments EXCEPT ![p].state = to]
        /\ UNCHANGED <<refunds, modifications>>
    BY <1>4 DEF MovePayment
  <2>2. payments' \in Seq(PaymentRecords) /\ DOMAIN payments' = DOMAIN payments
    BY <1>0, <2>1, PaymentMoves
  <2>3. refunds \in Seq(RefundRecords(payments'))
    BY <1>0, <2>2, RefundsOfMore
  <2>. QED
    BY <1>0, <2>1, <2>2, <2>3 DEF TypedNext
<1>5. ASSUME NEW p, NEW total \in Int, NEW explicit, NEW mayFail,
             CreatesRefunds(p, total, explicit, mayFail)
      PROVE  refunds' \in Seq(RefundRecords(payments))
  <2>1. PICK more \in Seq(RefundRecords(payments)) : refunds' = refunds \o more
    BY <1>5, RefundsCreated DEF PaymentsInv
  <2>. QED
    BY <1>0, <2>1
<1>6. ASSUME NEW p \in DOMAIN payments, NEW total \in RefundAmounts,
             NEW explicit \in BOOLEAN, RefundOrder(p, total, explicit)
      PROVE  TypedNext
  <2>1. UNCHANGED <<payments, modifications>>
    BY <1>6 DEF RefundOrder
  <2>2. total \in Int
    OBVIOUS
  <2>3. refunds' \in Seq(RefundRecords(payments))
    BY <1>5, <1>6, <2>2 DEF RefundOrder
  <2>. QED
    BY <1>0, <2>1, <2>3 DEF TypedNext
<1>7. ASSUME NEW r \in DOMAIN refunds, NEW to \in RefundStates, TransitionRefund(r, to)
      PROVE  TypedNext
  <2>1. /\ refunds' = [refunds EXCEPT ![r].state = to]
        /\ UNCHANGED <<payments, modifications>>
    BY <1>7 DEF TransitionRefund
  <2>2. refunds' \in Seq(RefundRecords(payments))
    BY <1>0, <2>1, RefundMoveType
  <2>. QED
    BY <1>0, <2>1, <2>2 DEF TypedNext
<1>8. ASSUME NEW n \in 0 .. MaxItems, NEW recalculate \in BOOLEAN,
             ModifyOrder(n, recalculate)
      PROVE  TypedNext
  <2> DEFINE delta == Total(order') - Total(order)
  <2>1. order' \in Orders /\ order \in Orders
    BY NextKeeps DEF Kept, Consistent, PaymentsInv
  <2>2. delta \in Int
    BY <2>1, TotalType
  <2>3. \A settled \in BOOLEAN :
          [priceChange |-> delta, settled |-> delta = 0 \/ settled]
             \in ModificationRecords
    BY <2>2 DEF ModificationRecords
  <2>4. PICK settled \in BOOLEAN :
          modifications' = Append(modifications,
            [priceChange |-> delta, settled |-> delta = 0 \/ settled])
    BY <1>8 DEF ModifyOrder
  <2>5. modifications' \in Seq(ModificationRecords)
    BY <1>0, <2>3, <2>4
  <2>6. refunds' \in Seq(RefundRecords(payments)) /\ payments' = payments
    <3>1. CASE UNCHANGED refunds
      BY <1>0, <1>8, <3>1 DEF ModifyOrder
    <3>2. CASE \E p \in DOMAIN payments :
                 \/ \E amount \in RefundAmounts \ {0} :
                      CreatesRefunds(p, amount, TRUE, FALSE)
                 \/ CreatesRefunds(p, -delta, FALSE, FALSE)
      <4>1. -delta \in Int /\ \A amount \in RefundAmounts : amount \in Int
        BY <2>2
      <4>2. payments' = payments
        BY <1>8 DEF ModifyOrder
      <4> HIDE DEF delta
      <4>. QED
        BY <1>5, <3>2, <4>1, <4>2
    <3>. QED
      BY <1>8, <3>1, <3>2 DEF ModifyOrder
  <2> HIDE DEF delta
  <2>7. refunds' \in Seq(RefundRecords(payments')) /\ payments' \in Seq(PaymentRecords)
    BY <1>0, <2>6
  <2>. QED
    BY <2>5, <2>7 DEF TypedNext
<1>9. ASSUME NEW n \in 0 .. MaxItems, AdjustItems(n) PROVE TypedNext
  BY <1>1, <1>9 DEF AdjustItems
<1>10. ASSUME SetShippingMethod PROVE TypedNext
  BY <1>1, <1>10 DEF SetShippingMethod
<1>11. ASSUME NEW to \in OrderStates, TransitionOrder(to) PROVE TypedNext
  BY <1>1, <1>11 DEF TransitionOrder
<1>12. ASSUME NEW q \in 1 .. MaxItems, NEW cancelShipping \in BOOLEAN,
              CancelOrder(q, cancelShipping)
       PROVE  TypedNext
  BY <1>1, <1>12 DEF CancelOrder
<1>13. ASSUME NEW p \in DOMAIN payments, SettlePayment(p) \/ CancelPayment(p)
       PROVE  TypedNext
  BY <1>4, <1>13 DEF SettlePayment, CancelPayment
<1>14. CASE UNCHANGED vars
  BY <1>1, <1>14 DEF vars
<1>. QED
  BY <1>2, <1>3, <1>6, <1>7, <1>8, <1>9, <1>10, <1>11, <1>12, <1>13, <1>14 DEF Next

(* Every reachable order is consistent, and its payments, refunds and
   modifications have their types. *)
THEOREM PaymentsSound == Spec => []PaymentsInv
<1>1. Init => PaymentsInv
  BY InitConsistent, InitTyped DEF PaymentsInv
<1>2. PaymentsInv /\ [Next]_vars => PaymentsInv'
  <2> SUFFICES ASSUME PaymentsInv, [Next]_vars PROVE PaymentsInv'
    OBVIOUS
  <2>1. Consistent(order')
    BY NextKeeps DEF PaymentsInv, Kept
  <2>2. TypedNext
    BY NextTyped
  <2>. QED
    BY <2>1, <2>2 DEF PaymentsInv, TypedNext, Typed
<1>. QED
  BY <1>1, <1>2, PTL DEF Spec

(* The entities always have their types; a refund always is one of a payment
   of the order. *)
THEOREM PaymentTypes == Spec => []TypeOK
<1>1. PaymentsInv => TypeOK
  BY DEF PaymentsInv, Consistent, Typed, TypeOK, PaymentRecords, RefundRecords,
         ModificationRecords
<1>. QED
  BY <1>1, PaymentsSound, PTL

-----------------------------------------------------------------------------
(* A payment completes the checkout.                                       *)

LEMMA AfterPaymentCompletes ==
  ASSUME NEW o \in Orders, o.state = "ArrangingPayment", NEW ps, NEW rs, NEW ms
  PROVE  IsCovered(o, ps, rs, {"Settled"})
           <=> AfterPayment(o, ps, rs, ms).state = "PaymentSettled"
<1>1. \A to \in OrderStates : Entered(o, to).state = to
  BY DEF Entered, Orders
<1>2. CASE IsCovered(o, ps, rs, {"Settled"})
  <2>1. <<o.state, "PaymentSettled">> \in OrderTransitions
    BY DEF OrderTransitions
  <2>2. MayEnter(o, ps, rs, ms, "PaymentSettled")
    BY <1>2, <2>1 DEF MayEnter, PaymentCheck
  <2>3. AfterPayment(o, ps, rs, ms) = Entered(o, "PaymentSettled")
    BY <1>2, <2>2 DEF AfterPayment, Transitioned
  <2>4. "PaymentSettled" \in OrderStates
    BY DEF OrderStates
  <2>. QED
    BY <1>1, <1>2, <2>3, <2>4
<1>3. CASE ~IsCovered(o, ps, rs, {"Settled"})
  <2>1. AfterPayment(o, ps, rs, ms) \in {o, Entered(o, "PaymentAuthorized")}
    BY <1>3 DEF AfterPayment, Transitioned
  <2>2. "PaymentAuthorized" \in OrderStates
    BY DEF OrderStates
  <2>. QED
    BY <1>1, <1>3, <2>1, <2>2
<1>. QED
  BY <1>2, <1>3

(* What a payment operation is: payments change, and the order follows. *)
LEMMA PaymentSteps ==
  ASSUME Next, payments' # payments
  PROVE  /\ \E ms : order' = AfterPayment(order, payments', refunds, ms)
         /\ refunds' = refunds
<1>1. ASSUME NEW state \in PaymentStates, AddPayment(state)
      PROVE  order' = AfterPayment(order, payments', refunds, modifications)
               /\ refunds' = refunds
  BY <1>1 DEF AddPayment
<1>2. ASSUME AddManualPayment
      PROVE  order' = AfterPayment(order, payments', refunds, modifications)
               /\ refunds' = refunds
  BY <1>2 DEF AddManualPayment
<1>3. ASSUME NEW p \in DOMAIN payments, SettlePayment(p) \/ CancelPayment(p)
      PROVE  order' = AfterPayment(order, payments', refunds, modifications)
               /\ refunds' = refunds
  BY <1>3 DEF SettlePayment, CancelPayment, MovePayment
<1>4. ASSUME NEW n \in 0 .. MaxItems, AdjustItems(n) PROVE FALSE
  BY <1>4 DEF AdjustItems
<1>5. ASSUME SetShippingMethod PROVE FALSE
  BY <1>5 DEF SetShippingMethod
<1>6. ASSUME NEW to \in OrderStates, TransitionOrder(to) PROVE FALSE
  BY <1>6 DEF TransitionOrder
<1>7. ASSUME NEW p, NEW total, NEW explicit, RefundOrder(p, total, explicit)
      PROVE  FALSE
  BY <1>7 DEF RefundOrder
<1>8. ASSUME NEW r, NEW to, TransitionRefund(r, to) PROVE FALSE
  BY <1>8 DEF TransitionRefund
<1>9. ASSUME NEW n, NEW recalculate, ModifyOrder(n, recalculate) PROVE FALSE
  BY <1>9 DEF ModifyOrder
<1>10. ASSUME NEW q, NEW cancelShipping, CancelOrder(q, cancelShipping) PROVE FALSE
  BY <1>10 DEF CancelOrder
<1>. QED
  BY <1>1, <1>2, <1>3, <1>4, <1>5, <1>6, <1>7, <1>8, <1>9, <1>10 DEF Next

(* No payment operation leaves an order in ArrangingPayment that its settled
   payments cover, and none settles an order that they do not cover. *)
THEOREM CoveredMeansSettled == Spec => PaymentCompletesCheckout
<1>1. PaymentsInv /\ [Next]_vars
        => [order.state = "ArrangingPayment" /\ payments' # payments
              => (IsCovered(order, payments', refunds', {"Settled"})
                    <=> order'.state = "PaymentSettled")]_vars
  <2> SUFFICES ASSUME PaymentsInv, [Next]_vars, order.state = "ArrangingPayment",
                      payments' # payments
               PROVE  IsCovered(order, payments', refunds', {"Settled"})
                        <=> order'.state = "PaymentSettled"
    OBVIOUS
  <2>1. Next
    BY DEF vars
  <2>2. PICK ms : /\ order' = AfterPayment(order, payments', refunds, ms)
                  /\ refunds' = refunds
    BY <2>1, PaymentSteps
  <2>3. order \in Orders
    BY DEF PaymentsInv, Consistent
  <2>4. IsCovered(order, payments', refunds, {"Settled"})
          <=> AfterPayment(order, payments', refunds, ms).state = "PaymentSettled"
    BY <2>3, AfterPaymentCompletes
  <2>. QED
    BY <2>2, <2>4
<1>. QED
  BY <1>1, PaymentsSound, PTL DEF Spec, PaymentCompletesCheckout

-----------------------------------------------------------------------------
(* Why an order becomes underpaid.                                         *)

LEMMA TotalStays ==
  ASSUME NEW o \in Orders, NEW ps, NEW rs, NEW ms, NEW to
  PROVE  /\ Total(Entered(o, to)) = Total(o)
         /\ Total(Transitioned(o, ps, rs, ms, to)) = Total(o)
         /\ Total(AfterPayment(o, ps, rs, ms)) = Total(o)
<1>1. \A s : Total(Entered(o, s)) = Total(o)
  <2>1. \A s : /\ Entered(o, s).items = o.items
              /\ Entered(o, s).shipping = o.shipping
    BY DEF Entered, Orders
  <2>. QED
    BY <2>1 DEF Total
<1>2. \A s : Total(Transitioned(o, ps, rs, ms, s)) = Total(o)
  BY <1>1 DEF Transitioned
<1>3. Total(AfterPayment(o, ps, rs, ms)) = Total(o)
  BY <1>2 DEF AfterPayment
<1>. QED
  BY <1>1, <1>2, <1>3

(* Nothing is due after a payment that was made although nothing was due. *)
AmountsToPay ==
  {Due(order, payments, refunds)} \cup 1 .. Due(order, payments, refunds) - 1

LEMMA DueAfterPayment ==
  ASSUME PaymentsInv, Due(order, payments, refunds) =< 0,
         NEW s \in PaymentStates, NEW amount \in AmountsToPay,
         NEW o, Total(o) = Total(order)
  PROVE  Due(o, Append(payments, [state |-> s, amount |-> amount]), refunds) =< 0
<1> DEFINE x == [state |-> s, amount |-> amount]
           due == Due(order, payments, refunds)
           covered == Covered(payments, refunds, LiveStates)
<1>1. amount = due /\ due \in Int /\ covered \in Int /\ Total(order) \in Int
      /\ due = Total(order) - covered
  BY DueType DEF Due, AmountsToPay
<1>2. x \in PaymentRecords /\ x.amount = amount
  BY PaymentAdded DEF AmountsToPay
<1> HIDE DEF x
<1>3. Covered(Append(payments, x), refunds, LiveStates)
        = covered + IF x.state \in LiveStates THEN x.amount ELSE 0
  BY <1>2, CoveredAppend DEF PaymentsInv, Typed
<1>4. Due(o, Append(payments, x), refunds)
        = Total(order) - Covered(Append(payments, x), refunds, LiveStates)
  BY DEF Due
<1> HIDE DEF due, covered
<1>5. due =< 0
  BY DEF due
<1>6. CASE x.state \in LiveStates
  <2>1. Due(o, Append(payments, x), refunds) = Total(order) - (covered + due)
    BY <1>1, <1>2, <1>3, <1>4, <1>6
  <2>. QED
    BY <1>1, <2>1 DEF x
<1>7. CASE x.state \notin LiveStates
  <2>1. Due(o, Append(payments, x), refunds) = Total(order) - (covered + 0)
    BY <1>3, <1>4, <1>7
  <2>. QED
    BY <1>1, <1>5, <2>1 DEF x
<1>. QED
  BY <1>6, <1>7

Underpaid == Due(order', payments', refunds') > 0

Reason ==
  \/ order.state = "Modifying" /\ modifications' # modifications
  \/ \E p \in DOMAIN payments :
       payments[p].state \in LiveStates /\ payments'[p].state \notin LiveStates
  \/ \E r \in DOMAIN refunds' :
       /\ refunds'[r].state = "Settled"
       /\ r \notin DOMAIN refunds \/ refunds[r].state # "Settled"

(* The refunds of a step that settles none cover as much as before. *)
LEMMA UnsettledRefunds ==
  ASSUME PaymentsInv, UNCHANGED <<order, payments>>,
         Due(order, payments, refunds) =< 0, Underpaid,
         \A p : RefundTotal(refunds', p, {"Settled"})
                  = RefundTotal(refunds, p, {"Settled"})
  PROVE  FALSE
<1>1. Covered(payments, refunds', LiveStates) = Covered(payments, refunds, LiveStates)
  BY CoveredSettled
<1>2. Due(order, payments, refunds') = Due(order, payments, refunds)
  BY <1>1 DEF Due
<1>. QED
  BY <1>2, DueType DEF Underpaid

(* The amount due after a step is a number too. *)
LEMMA NextDueType ==
  ASSUME PaymentsInv, [Next]_vars
  PROVE  Due(order', payments', refunds') \in Int
<1>1. TypedNext /\ order' \in Orders
  BY NextTyped, NextKeeps DEF PaymentsInv, Kept, Consistent
<1>2. Total(order') \in Int /\ Covered(payments', refunds', LiveStates) \in Int
  BY <1>1, TotalType, CoveredType DEF TypedNext
<1>. QED
  BY <1>2 DEF Due

LEMMA StepUnderpaid ==
  ASSUME PaymentsInv, Next, order.placed,
         Due(order, payments, refunds) =< 0, Underpaid
  PROVE  Reason
<1>0. /\ payments \in Seq(PaymentRecords)
      /\ refunds \in Seq(RefundRecords(payments))
      /\ modifications \in Seq(ModificationRecords)
      /\ order \in Orders
      /\ order.state \notin {"AddingItems", "Draft"}
  BY DEF PaymentsInv, Typed, Consistent
<1>1. ASSUME NEW n \in 0 .. MaxItems, AdjustItems(n) PROVE FALSE
  BY <1>0, <1>1 DEF AdjustItems
<1>2. ASSUME SetShippingMethod PROVE FALSE
  BY <1>0, <1>2 DEF SetShippingMethod
<1>3. ASSUME NEW to \in OrderStates, TransitionOrder(to) PROVE FALSE
  <2>1. order' = Entered(order, to) /\ UNCHANGED <<payments, refunds>>
    BY <1>3 DEF TransitionOrder
  <2>2. Total(order') = Total(order)
    BY <1>0, <2>1, TotalStays
  <2>3. Due(order', payments', refunds') = Due(order, payments, refunds)
    BY <2>1, <2>2 DEF Due
  <2>. QED
    BY <2>3, DueType DEF Underpaid
<1>4. ASSUME NEW state \in PaymentStates, AddPayment(state) PROVE FALSE
  <2>1. PICK amount \in AmountsToPay :
          payments' = Append(payments, [state |-> state, amount |-> amount])
    BY <1>4 DEF AddPayment, AmountsToPay
  <2>2. Total(order') = Total(order) /\ refunds' = refunds
    <3> DEFINE next == payments'
    <3>1. order' = AfterPayment(order, next, refunds, modifications) /\ refunds' = refunds
      BY <1>4 DEF AddPayment
    <3> HIDE DEF next
    <3>. QED
      BY <1>0, <3>1, TotalStays
  <2> DEFINE o == order'
  <2>3. Total(o) = Total(order)
    BY <2>2
  <2> HIDE DEF o
  <2>4. Due(o, Append(payments, [state |-> state, amount |-> amount]), refunds) =< 0
    BY <2>3, DueAfterPayment
  <2>5. Due(order', payments', refunds') =< 0
    BY <2>1, <2>2, <2>4 DEF o
  <2>. QED
    BY <2>5, NextDueType DEF Underpaid
<1>5. ASSUME AddManualPayment PROVE FALSE
  <2> DEFINE due == Due(order, payments, refunds)
             o == order'
  <2>1. payments' = Append(payments, [state |-> "Settled", amount |-> due])
    BY <1>5 DEF AddManualPayment
  <2>2. Total(order') = Total(order) /\ refunds' = refunds
    <3> DEFINE next == payments'
    <3>1. order' = AfterPayment(order, next, refunds, modifications) /\ refunds' = refunds
      BY <1>5 DEF AddManualPayment
    <3> HIDE DEF next
    <3>. QED
      BY <1>0, <3>1, TotalStays
  <2>3. Total(o) = Total(order) /\ "Settled" \in PaymentStates /\ due \in AmountsToPay
    BY <2>2 DEF PaymentStates, AmountsToPay
  <2> HIDE DEF o, due
  <2>4. Due(o, Append(payments, [state |-> "Settled", amount |-> due]), refunds) =< 0
    BY <2>3, DueAfterPayment
  <2>5. Due(order', payments', refunds') =< 0
    BY <2>1, <2>2, <2>4 DEF o, due
  <2>. QED
    BY <2>5, NextDueType DEF Underpaid
<1>6. ASSUME NEW p \in DOMAIN payments, NEW to, MovePayment(p, to) PROVE Reason
  <2>1. /\ <<payments[p].state, to>> \in PaymentTransitions
        /\ payments' = [payments EXCEPT ![p].state = to]
        /\ order' = AfterPayment(order, payments', refunds, modifications)
        /\ refunds' = refunds
    BY <1>6 DEF MovePayment
  <2>2. /\ payments'[p].state = to /\ to \in PaymentStates
        /\ payments[p].state \in LiveStates \/ to \notin LiveStates
    BY <1>0, <2>1, PaymentMoves
  <2>3. CASE payments[p].state \in LiveStates /\ to \notin LiveStates
    BY <2>2, <2>3 DEF Reason
  <2>4. CASE payments[p].state \in LiveStates <=> to \in LiveStates
    <3> DEFINE next == payments'
    <3>1. Covered(payments', refunds, LiveStates) = Covered(payments, refunds, LiveStates)
      <4>1. Covered([payments EXCEPT ![p].state = to], refunds, LiveStates)
              = Covered(payments, refunds, LiveStates)
        BY <1>0, <2>2, <2>4, CoveredMoves
      <4>. QED
        BY <2>1, <4>1
    <3>2. Total(order') = Total(order)
      <4>1. order' = AfterPayment(order, next, refunds, modifications)
        BY <2>1
      <4> HIDE DEF next
      <4>. QED
        BY <1>0, <4>1, TotalStays
    <3> HIDE DEF next
    <3>3. Due(order', payments', refunds') = Due(order, payments, refunds)
      BY <2>1, <3>1, <3>2 DEF Due
    <3>. QED
      BY <3>3, DueType DEF Underpaid
  <2>. QED
    BY <2>2, <2>3, <2>4
<1>7. ASSUME NEW p \in DOMAIN payments, SettlePayment(p) \/ CancelPayment(p)
      PROVE  Reason
  BY <1>6, <1>7 DEF SettlePayment, CancelPayment
<1>8. ASSUME NEW p \in DOMAIN payments, NEW total \in RefundAmounts,
             NEW explicit \in BOOLEAN, RefundOrder(p, total, explicit)
      PROVE  Reason
  <2>1. total \in Int /\ UNCHANGED <<order, payments>>
    BY <1>8, BoundsAssumption DEF RefundOrder
  <2>2. PICK more \in Seq(RefundRecords(payments)) : refunds' = refunds \o more
    BY <1>8, <2>1, RefundsCreated DEF PaymentsInv, RefundOrder
  <2>3. CASE \E k \in DOMAIN more : more[k].state = "Settled"
    <3>1. PICK k \in DOMAIN more : more[k].state = "Settled"
      BY <2>3
    <3>2. /\ Len(refunds) + k \in DOMAIN refunds' \ DOMAIN refunds
          /\ refunds'[Len(refunds) + k] = more[k]
      BY <1>0, <2>2, <3>1, Concatenated
    <3>. QED
      BY <3>1, <3>2 DEF Reason
  <2>4. CASE \A k \in DOMAIN more : more[k].state # "Settled"
    <3>1. \A p_1 : RefundTotal(refunds', p_1, {"Settled"})
                     = RefundTotal(refunds, p_1, {"Settled"})
      BY <1>0, <2>2, <2>4, MoreUnsettled
    <3>. QED
      BY <2>1, <3>1, UnsettledRefunds
  <2>. QED
    BY <2>3, <2>4
<1>9. ASSUME NEW r \in DOMAIN refunds, NEW to \in RefundStates, TransitionRefund(r, to)
      PROVE  Reason
  <2>1. /\ <<refunds[r].state, to>> \in RefundTransitions
        /\ refunds' = [refunds EXCEPT ![r].state = to]
        /\ UNCHANGED <<order, payments>>
    BY <1>9 DEF TransitionRefund
  <2>2. refunds[r].state # "Settled"
    BY <2>1 DEF RefundTransitions
  <2>3. DOMAIN refunds' = DOMAIN refunds /\ refunds'[r].state = to
    BY <1>0, <2>1, RefundMoveType
  <2>4. CASE to = "Settled"
    BY <2>2, <2>3, <2>4 DEF Reason
  <2>5. CASE to # "Settled"
    <3>1. \A p : RefundTotal(refunds', p, {"Settled"})
                   = RefundTotal(refunds, p, {"Settled"})
      <4> DEFINE states == {"Settled"}
      <4>1. refunds[r].state \in states <=> to \in states
        BY <2>2, <2>5
      <4> HIDE DEF states
      <4>2. \A p : RefundTotal(refunds', p, states) = RefundTotal(refunds, p, states)
        BY <1>0, <2>1, <4>1, RefundMoves
      <4>. QED
        BY <4>2 DEF states
    <3>. QED
      BY <2>1, <3>1, UnsettledRefunds
  <2>. QED
    BY <2>4, <2>5
<1>10. ASSUME NEW n \in 0 .. MaxItems, NEW recalculate \in BOOLEAN,
              ModifyOrder(n, recalculate)
       PROVE  Reason
  <2>1. order.state = "Modifying"
        /\ \E x : modifications' = Append(modifications, x)
    BY <1>10 DEF ModifyOrder
  <2>2. PICK x : modifications' = Append(modifications, x)
    BY <2>1
  <2>3. Len(modifications') = Len(modifications) + 1 /\ Len(modifications) \in Nat
    BY <1>0, <2>2
  <2>4. modifications' # modifications
    BY <2>3
  <2>. QED
    BY <2>1, <2>4 DEF Reason
<1>11. ASSUME NEW q \in 1 .. MaxItems, NEW cancelShipping \in BOOLEAN,
              CancelOrder(q, cancelShipping)
       PROVE  FALSE
  <2> DEFINE left == WithoutUnits(order, q, cancelShipping)
  <2>1. /\ UNCHANGED <<payments, refunds>>
        /\ q \in 1 .. order.items
        /\ order' = IF left.items = 0
                    THEN Transitioned(left, payments, refunds, modifications, "Cancelled")
                    ELSE left
    BY <1>11 DEF CancelOrder
  <2>2. /\ order.items \in Int /\ 0 < q /\ q =< order.items
        /\ q \in Int
    BY <1>0, <2>1 DEF Orders
  <2>3. left \in Orders
    BY <2>2, WithoutUnitsKeeps DEF PaymentsInv, Kept, Consistent
  <2>4. /\ left.items = order.items - q
        /\ left.shipping = "charged" => order.shipping = "charged"
    BY <1>0 DEF WithoutUnits, Orders
  <2>5. Total(left) =< Total(order)
    BY <2>2, <2>4 DEF Total
  <2> HIDE DEF left
  <2>6. Total(order') = Total(left)
    BY <2>1, <2>3, TotalStays
  <2>7. Due(order', payments', refunds') = Total(left) - Covered(payments, refunds, LiveStates)
    BY <2>1, <2>6 DEF Due
  <2>8. Total(left) \in Int /\ Total(order) \in Int
        /\ Covered(payments, refunds, LiveStates) \in Int
        /\ Total(order) - Covered(payments, refunds, LiveStates) =< 0
    BY <2>3, TotalType, DueType DEF Due
  <2>. QED
    BY <2>5, <2>7, <2>8 DEF Underpaid
<1>. QED
  BY <1>1, <1>2, <1>3, <1>4, <1>5, <1>7, <1>8, <1>9, <1>10, <1>11 DEF Next

(* A placed order that was paid becomes underpaid only when it was modified,
   a payment was lost, or a refund was paid out. *)
THEOREM NeverUnderpaidByItself == Spec => UnderpaidForAReason
<1>1. PaymentsInv /\ [Next]_vars
        => [(/\ order.placed
             /\ Due(order, payments, refunds) =< 0
             /\ Due(order', payments', refunds') > 0)
            => \/ order.state = "Modifying" /\ modifications' # modifications
               \/ \E p \in DOMAIN payments :
                    payments[p].state \in LiveStates /\ payments'[p].state \notin LiveStates
               \/ \E r \in DOMAIN refunds' :
                    /\ refunds'[r].state = "Settled"
                    /\ r \notin DOMAIN refunds \/ refunds[r].state # "Settled"]_vars
  BY StepUnderpaid DEF vars, Underpaid, Reason
<1>. QED
  BY <1>1, PaymentsSound, PTL DEF Spec, UnderpaidForAReason

-----------------------------------------------------------------------------
(* Refunds stay within their payment.                                      *)

RefundsInv == PaymentsInv /\ RefundsWithinPayment

(* Payments are never removed, and their amounts never change. *)
LEMMA AmountsKept ==
  ASSUME PaymentsInv, Next, payments' # payments
  PROVE  /\ DOMAIN payments \subseteq DOMAIN payments'
         /\ \A p \in DOMAIN payments : payments'[p].amount = payments[p].amount
<1>0. payments \in Seq(PaymentRecords)
  BY DEF PaymentsInv, Typed
<1>1. ASSUME NEW x, payments' = Append(payments, x)
      PROVE  /\ DOMAIN payments \subseteq DOMAIN payments'
             /\ \A p \in DOMAIN payments : payments'[p].amount = payments[p].amount
  <2>1. /\ DOMAIN payments \subseteq DOMAIN Append(payments, x)
        /\ \A p \in DOMAIN payments : Append(payments, x)[p] = payments[p]
    BY <1>0
  <2>. QED
    BY <1>1, <2>1
<1>2. ASSUME NEW p \in DOMAIN payments, NEW to, MovePayment(p, to)
      PROVE  /\ DOMAIN payments \subseteq DOMAIN payments'
             /\ \A k \in DOMAIN payments : payments'[k].amount = payments[k].amount
  <2>1. /\ <<payments[p].state, to>> \in PaymentTransitions
        /\ payments' = [payments EXCEPT ![p].state = to]
    BY <1>2 DEF MovePayment
  <2>. QED
    BY <1>0, <2>1, PaymentMoves
<1>3. ASSUME NEW p \in DOMAIN payments, SettlePayment(p) \/ CancelPayment(p)
      PROVE  /\ DOMAIN payments \subseteq DOMAIN payments'
             /\ \A k \in DOMAIN payments : payments'[k].amount = payments[k].amount
  BY <1>2, <1>3 DEF SettlePayment, CancelPayment
<1>4. ASSUME NEW state \in PaymentStates, AddPayment(state)
      PROVE  \E x : payments' = Append(payments, x)
  BY <1>4 DEF AddPayment
<1>5. ASSUME AddManualPayment
      PROVE  \E x : payments' = Append(payments, x)
  BY <1>5 DEF AddManualPayment
<1>6. ASSUME NEW n \in 0 .. MaxItems, AdjustItems(n) PROVE FALSE
  BY <1>6 DEF AdjustItems
<1>7. ASSUME SetShippingMethod PROVE FALSE
  BY <1>7 DEF SetShippingMethod
<1>8. ASSUME NEW to \in OrderStates, TransitionOrder(to) PROVE FALSE
  BY <1>8 DEF TransitionOrder
<1>9. ASSUME NEW p, NEW total, NEW explicit, RefundOrder(p, total, explicit)
      PROVE  FALSE
  BY <1>9 DEF RefundOrder
<1>10. ASSUME NEW r, NEW to, TransitionRefund(r, to) PROVE FALSE
  BY <1>10 DEF TransitionRefund
<1>11. ASSUME NEW n, NEW recalculate, ModifyOrder(n, recalculate) PROVE FALSE
  BY <1>11 DEF ModifyOrder
<1>12. ASSUME NEW q, NEW cancelShipping, CancelOrder(q, cancelShipping) PROVE FALSE
  BY <1>12 DEF CancelOrder
<1>13. \/ \E x : payments' = Append(payments, x)
       \/ \E p \in DOMAIN payments : SettlePayment(p) \/ CancelPayment(p)
  BY <1>4, <1>5, <1>6, <1>7, <1>8, <1>9, <1>10, <1>11, <1>12 DEF Next
<1>. QED
  BY <1>1, <1>3, <1>13

RefundedAs(rs, p) ==
  {r \in DOMAIN rs :
     rs[r].payment = p /\ (rs[r].state # "Failed" \/ rs[r].total < 0)}

TotalsOf(rs) == [r \in DOMAIN rs |-> rs[r].total]

LEMMA RefundedType ==
  ASSUME NEW ps, NEW rs \in Seq(RefundRecords(ps)), NEW p
  PROVE  /\ Refunded(rs, p) = SumOf(TotalsOf(rs), RefundedAs(rs, p))
         /\ Refunded(rs, p) \in Int
         /\ IsFiniteSet(RefundedAs(rs, p))
         /\ IntegersOn(TotalsOf(rs), DOMAIN rs)
         /\ p \notin DOMAIN ps => Refunded(rs, p) = 0
<1>1. Refunded(rs, p) = SumOf(TotalsOf(rs), RefundedAs(rs, p))
  BY DEF Refunded, RefundedAs, TotalsOf
<1>2. \A r \in DOMAIN rs : rs[r].total \in Int /\ rs[r].payment \in DOMAIN ps
  <2>1. \A r \in DOMAIN rs : rs[r] \in RefundRecords(ps)
    OBVIOUS
  <2>. QED
    BY <2>1 DEF RefundRecords
<1>3. IntegersOn(TotalsOf(rs), DOMAIN rs)
  BY <1>2 DEF TotalsOf, IntegersOn
<1>4. RefundedAs(rs, p) \subseteq DOMAIN rs
  BY DEF RefundedAs
<1>5. IsFiniteSet(RefundedAs(rs, p))
  BY <1>4, PositionsFinite
<1>6. SumOf(TotalsOf(rs), RefundedAs(rs, p)) \in Int
  BY <1>3, <1>4, <1>5, SumType DEF IntegersOn
<1>7. ASSUME p \notin DOMAIN ps PROVE Refunded(rs, p) = 0
  <2>1. RefundedAs(rs, p) = {}
    BY <1>2, <1>7 DEF RefundedAs
  <2>. QED
    BY <1>1, <2>1, SumEmpty
<1>. QED
  BY <1>1, <1>3, <1>5, <1>6, <1>7

(* Failed refunds of a negative total only lower what counts. *)
LEMMA RefundedBelowTotal ==
  ASSUME NEW ps, NEW rs \in Seq(RefundRecords(ps)), NEW p
  PROVE  Refunded(rs, p) =< RefundTotal(rs, p, {"Pending", "Settled"})
<1> DEFINE total == TotalsOf(rs)
           all == RefundedAs(rs, p)
           counted == {r \in DOMAIN rs :
                         rs[r].payment = p /\ rs[r].state \in {"Pending", "Settled"}}
           f == [r \in DOMAIN rs |-> IF r \in counted THEN total[r] ELSE 0]
<1>1. \A r \in DOMAIN rs : rs[r].state \in RefundStates /\ total[r] = rs[r].total
  <2>1. \A r \in DOMAIN rs : rs[r] \in RefundRecords(ps)
    OBVIOUS
  <2>. QED
    BY <2>1 DEF RefundRecords, TotalsOf
<1>2. /\ Refunded(rs, p) = SumOf(total, all) /\ IsFiniteSet(all)
      /\ \A r \in DOMAIN rs : total[r] \in Int
  BY RefundedType DEF IntegersOn
<1>3. RefundTotal(rs, p, {"Pending", "Settled"}) = SumOf(total, counted)
  BY DEF RefundTotal, TotalsOf
<1>4. /\ counted \subseteq all /\ all \subseteq DOMAIN rs
      /\ \A r \in all \ counted : total[r] < 0
  BY <1>1 DEF RefundedAs, RefundStates
<1> HIDE DEF total, all, counted
<1>5. /\ \A r \in all : total[r] =< f[r] /\ total[r] \in Int /\ f[r] \in Int
      /\ \A r \in all \ counted : f[r] = 0
      /\ \A r \in counted : total[r] = f[r]
  BY <1>2, <1>4
<1> HIDE DEF f
<1>6. SumOf(total, all) =< SumOf(f, all)
  BY <1>2, <1>5, SumMonotone DEF IntegersOn
<1>7. SumOf(f, all) = SumOf(f, counted)
  BY <1>2, <1>4, <1>5, SumSupport DEF IntegersOn
<1>8. SumOf(total, counted) = SumOf(f, counted)
  <2>1. IsFiniteSet(counted)
    BY <1>2, <1>4, FS_Subset
  <2>2. IntegersOn(total, counted)
    BY <1>4, <1>5 DEF IntegersOn
  <2>. QED
    BY <1>5, <2>1, <2>2, SumEqual
<1>. QED
  BY <1>2, <1>3, <1>6, <1>7, <1>8

(* A refund that settles or fails counts for no more than before. *)
LEMMA RefundMovesDown ==
  ASSUME NEW ps, NEW rs \in Seq(RefundRecords(ps)), NEW r \in DOMAIN rs, NEW to,
         <<rs[r].state, to>> \in RefundTransitions, NEW p
  PROVE  Refunded([rs EXCEPT ![r].state = to], p) =< Refunded(rs, p)
<1> DEFINE next == [rs EXCEPT ![r].state = to]
           total == TotalsOf(rs)
           of == RefundedAs(rs, p)
<1>1. to \in RefundStates /\ rs[r].state = "Pending" /\ to \in {"Settled", "Failed"}
  BY DEF RefundTransitions, RefundStates
<1>2. /\ next \in Seq(RefundRecords(ps))
      /\ DOMAIN next = DOMAIN rs /\ next[r].state = to
      /\ \A k \in DOMAIN rs : /\ next[k].payment = rs[k].payment
                              /\ next[k].total = rs[k].total
                              /\ k # r => next[k].state = rs[k].state
  BY <1>1, RefundMoveType
<1>3. /\ Refunded(rs, p) = SumOf(total, of) /\ Refunded(rs, p) \in Int
      /\ IsFiniteSet(of) /\ IntegersOn(total, DOMAIN rs) /\ of \subseteq DOMAIN rs
  <2>1. of \subseteq DOMAIN rs
    BY DEF RefundedAs
  <2> HIDE DEF of
  <2>. QED
    BY <2>1, RefundedType DEF of
<1> HIDE DEF next
<1>4. TotalsOf(next) = total
  BY <1>2 DEF TotalsOf
<1>5. Refunded(next, p) = SumOf(total, RefundedAs(next, p))
  BY <1>2, <1>4, RefundedType
<1>6. \/ RefundedAs(next, p) = of
      \/ RefundedAs(next, p) = of \ {r} /\ r \in of /\ ~(total[r] < 0)
  BY <1>1, <1>2 DEF RefundedAs, TotalsOf
<1> HIDE DEF total, of
<1>7. CASE RefundedAs(next, p) = of
  BY <1>3, <1>5, <1>7 DEF next
<1>8. CASE RefundedAs(next, p) = of \ {r} /\ r \in of /\ ~(total[r] < 0)
  <2>1. IntegersOn(total, of) /\ IntegersOn(total, of \ {r}) /\ total[r] \in Int
    BY <1>3, <1>8 DEF IntegersOn
  <2>2. SumOf(total, of) = total[r] + SumOf(total, of \ {r})
    BY <1>3, <1>8, <2>1, SumRemove
  <2>3. SumOf(total, of \ {r}) \in Int
    BY <1>3, <2>1, FS_RemoveElement, SumType
  <2>4. SumOf(total, of \ {r}) =< SumOf(total, of)
    BY <1>8, <2>1, <2>2, <2>3
  <2>. QED
    BY <1>3, <1>5, <1>8, <2>4 DEF next
<1>. QED
  BY <1>6, <1>7, <1>8

(* What createRefund creates keeps the refunds within their payments: a
   payment is refunded once per request, and no more than it has left. *)
LEMMA CreatedWithin ==
  ASSUME Typed, RefundsWithinPayment,
         NEW selected, NEW total \in Int, NEW explicit, NEW mayFail,
         CreatesRefunds(selected, total, explicit, mayFail),
         NEW p \in DOMAIN payments
  PROVE  Refunded(refunds', p)
           =< IF payments[p].amount > 0 THEN payments[p].amount ELSE 0
<1> DEFINE next == refunds'
           amount == payments[p].amount
           counted == RefundTotal(refunds, p, {"Pending", "Settled"})
           R == {x \in RefundRecords(payments) :
                   x.payment = p /\ (x.state # "Failed" \/ x.total < 0)}
<1>0. refunds \in Seq(RefundRecords(payments))
  BY DEF Typed
<1>1. PICK more \in Seq(RefundRecords(payments)) :
        /\ next = refunds \o more
        /\ \A i, k \in DOMAIN more : more[i].payment = more[k].payment => i = k
        /\ \A k \in DOMAIN more :
             /\ 0 < Refundable(payments, refunds, more[k].payment)
             /\ more[k].total =< Refundable(payments, refunds, more[k].payment)
  BY RefundsCreated
<1>2. \A s \in Seq(RefundRecords(payments)) : Refunded(s, p) = TotalIn(s, R)
  <2> TAKE s \in Seq(RefundRecords(payments))
  <2>1. \A r \in DOMAIN s : s[r] \in RefundRecords(payments)
    OBVIOUS
  <2>2. {r \in DOMAIN s : s[r].payment = p /\ (s[r].state # "Failed" \/ s[r].total < 0)}
          = {r \in DOMAIN s : s[r] \in R}
    BY <2>1
  <2>. QED
    BY <2>2 DEF Refunded, TotalIn
<1>3. refunds \o more \in Seq(RefundRecords(payments))
  BY <1>0, Concatenated
<1>4. /\ amount \in Int /\ counted \in Int /\ Refunded(refunds, p) \in Int
      /\ Refunded(refunds, p) =< counted
      /\ Refunded(refunds, p) =< IF amount > 0 THEN amount ELSE 0
      /\ Refundable(payments, refunds, p) = amount - counted
  <2>1. payments[p] \in PaymentRecords
    BY DEF Typed
  <2>. QED
    BY <1>0, <2>1, RefundTotalType, RefundedType, RefundedBelowTotal
       DEF PaymentRecords, RefundsWithinPayment, Refundable
<1>5. \A x \in R : x.payment = p /\ x.total \in Int
  BY DEF RefundRecords
<1> HIDE DEF next, amount, counted, R
<1>6. CASE \A k \in DOMAIN more : more[k] \notin R
  <2>1. TotalIn(refunds \o more, R) = TotalIn(refunds, R)
    BY <1>0, <1>6, MoreRefunds
  <2>2. Refunded(next, p) = Refunded(refunds, p)
    BY <1>0, <1>1, <1>2, <1>3, <2>1
  <2>. QED
    BY <1>4, <2>2 DEF next, amount
<1>7. CASE \E k \in DOMAIN more : more[k] \in R
  <2>1. PICK k \in DOMAIN more : more[k] \in R
    BY <1>7
  <2>2. \A i \in DOMAIN more : more[i] \in R => i = k
    BY <1>1, <1>5, <2>1
  <2>3. TotalIn(refunds \o more, R) = TotalIn(refunds, R) + more[k].total
    BY <1>0, <2>1, <2>2, MoreRefunds
  <2>4. Refunded(next, p) = Refunded(refunds, p) + more[k].total
    BY <1>0, <1>1, <1>2, <1>3, <2>3
  <2>5. more[k].total \in Int /\ 0 < amount - counted /\ more[k].total =< amount - counted
    BY <1>1, <1>4, <1>5, <2>1
  <2>6. Refunded(refunds, p) + more[k].total =< IF amount > 0 THEN amount ELSE 0
    BY <1>4, <2>5
  <2>. QED
    BY <2>4, <2>6 DEF next, amount
<1>. QED
  BY <1>6, <1>7

(* Where refunds change: createRefund, or one refund that settles or fails. *)
LEMMA RefundSteps ==
  ASSUME PaymentsInv, Next, refunds' # refunds
  PROVE  /\ payments' = payments
         /\ \/ \E selected \in DOMAIN payments, total \in Int, explicit, mayFail \in BOOLEAN :
                 CreatesRefunds(selected, total, explicit, mayFail)
            \/ \E r \in DOMAIN refunds, to \in RefundStates : TransitionRefund(r, to)
<1> DEFINE Creates == \E selected \in DOMAIN payments, total \in Int,
                         explicit, mayFail \in BOOLEAN :
                        CreatesRefunds(selected, total, explicit, mayFail)
<1> USE BoundsAssumption
<1>1. ASSUME NEW p \in DOMAIN payments, NEW total \in RefundAmounts,
             NEW explicit \in BOOLEAN, RefundOrder(p, total, explicit)
      PROVE  payments' = payments /\ Creates
  <2>1. total \in Int /\ payments' = payments
    BY <1>1 DEF RefundOrder
  <2>2. CreatesRefunds(p, total, explicit, TRUE)
    BY <1>1 DEF RefundOrder
  <2>. QED
    BY <2>1, <2>2
<1>2. ASSUME NEW n \in 0 .. MaxItems, NEW recalculate \in BOOLEAN,
             ModifyOrder(n, recalculate)
      PROVE  payments' = payments /\ Creates
  <2> DEFINE delta == Total(order') - Total(order)
  <2>1. order' \in Orders /\ order \in Orders
    BY NextKeeps DEF Kept, Consistent, PaymentsInv
  <2>2. -delta \in Int /\ \A amount \in RefundAmounts : amount \in Int
    BY <2>1, TotalType
  <2>3. payments' = payments
    BY <1>2 DEF ModifyOrder
  <2>4. \E p \in DOMAIN payments :
          \/ \E amount \in RefundAmounts \ {0} : CreatesRefunds(p, amount, TRUE, FALSE)
          \/ CreatesRefunds(p, -delta, FALSE, FALSE)
    BY <1>2 DEF ModifyOrder
  <2> HIDE DEF delta
  <2>. QED
    BY <2>2, <2>3, <2>4
<1>3. ASSUME NEW r \in DOMAIN refunds, NEW to \in RefundStates, TransitionRefund(r, to)
      PROVE  payments' = payments
  BY <1>3 DEF TransitionRefund
<1>4. ASSUME NEW n \in 0 .. MaxItems, AdjustItems(n) PROVE FALSE
  BY <1>4 DEF AdjustItems
<1>5. ASSUME SetShippingMethod PROVE FALSE
  BY <1>5 DEF SetShippingMethod
<1>6. ASSUME NEW to \in OrderStates, TransitionOrder(to) PROVE FALSE
  BY <1>6 DEF TransitionOrder
<1>7. ASSUME NEW state \in PaymentStates, AddPayment(state) PROVE FALSE
  BY <1>7 DEF AddPayment
<1>8. ASSUME AddManualPayment PROVE FALSE
  BY <1>8 DEF AddManualPayment
<1>9. ASSUME NEW p \in DOMAIN payments, SettlePayment(p) \/ CancelPayment(p) PROVE FALSE
  BY <1>9 DEF SettlePayment, CancelPayment, MovePayment
<1>10. ASSUME NEW q, NEW cancelShipping, CancelOrder(q, cancelShipping) PROVE FALSE
  BY <1>10 DEF CancelOrder
<1> HIDE DEF Creates
<1>11. /\ payments' = payments
       /\ Creates \/ \E r \in DOMAIN refunds, to \in RefundStates : TransitionRefund(r, to)
  BY <1>1, <1>2, <1>3, <1>4, <1>5, <1>6, <1>7, <1>8, <1>9, <1>10 DEF Next
<1>. QED
  BY <1>11 DEF Creates

LEMMA NextWithin ==
  ASSUME RefundsInv, Next
  PROVE  RefundsWithinPayment'
<1>0. PaymentsInv /\ Typed /\ refunds \in Seq(RefundRecords(payments))
  BY DEF RefundsInv, PaymentsInv, Typed
<1>1. CASE refunds' = refunds
  <2>1. /\ DOMAIN payments \subseteq DOMAIN payments'
        /\ \A p \in DOMAIN payments : payments'[p].amount = payments[p].amount
    BY <1>0, AmountsKept
  <2>2. \A p \in DOMAIN payments' : payments'[p].amount \in Int
    <3>1. payments' \in Seq(PaymentRecords)
      BY <1>0, NextTyped DEF TypedNext
    <3>2. \A p \in DOMAIN payments' : payments'[p] \in PaymentRecords
      BY <3>1
    <3>. QED
      BY <3>2 DEF PaymentRecords
  <2>3. ASSUME NEW p \in DOMAIN payments'
        PROVE  Refunded(refunds', p)
                 =< IF payments'[p].amount > 0 THEN payments'[p].amount ELSE 0
    <3>1. CASE p \in DOMAIN payments
      BY <1>1, <2>1, <3>1 DEF RefundsInv, RefundsWithinPayment
    <3>2. CASE p \notin DOMAIN payments
      <4>1. Refunded(refunds, p) = 0
        BY <1>0, <3>2, RefundedType
      <4>. QED
        BY <1>1, <2>2, <4>1
    <3>. QED
      BY <3>1, <3>2
  <2>. QED
    BY <2>3 DEF RefundsWithinPayment
<1>2. CASE refunds' # refunds
  <2>1. payments' = payments
    BY <1>0, <1>2, RefundSteps
  <2>2. ASSUME NEW selected, NEW total \in Int, NEW explicit, NEW mayFail,
               CreatesRefunds(selected, total, explicit, mayFail),
               NEW p \in DOMAIN payments
        PROVE  Refunded(refunds', p)
                 =< IF payments[p].amount > 0 THEN payments[p].amount ELSE 0
    BY <1>0, <2>2, CreatedWithin DEF RefundsInv
  <2>3. ASSUME NEW r \in DOMAIN refunds, NEW to \in RefundStates, TransitionRefund(r, to),
               NEW p \in DOMAIN payments
        PROVE  Refunded(refunds', p)
                 =< IF payments[p].amount > 0 THEN payments[p].amount ELSE 0
    <3> DEFINE after == Refunded(refunds', p)
               before == Refunded(refunds, p)
               bound == IF payments[p].amount > 0 THEN payments[p].amount ELSE 0
    <3>1. /\ <<refunds[r].state, to>> \in RefundTransitions
          /\ refunds' = [refunds EXCEPT ![r].state = to]
      BY <2>3 DEF TransitionRefund
    <3>2. after =< before
      BY <1>0, <3>1, RefundMovesDown
    <3>3. before =< bound
      BY DEF RefundsInv, RefundsWithinPayment
    <3>4. after \in Int /\ before \in Int /\ bound \in Int
      <4>1. refunds' \in Seq(RefundRecords(payments))
        BY <1>0, <2>1, NextTyped DEF TypedNext
      <4>2. payments[p] \in PaymentRecords
        BY <1>0 DEF Typed
      <4>. QED
        BY <1>0, <4>1, <4>2, RefundedType DEF PaymentRecords
    <3> HIDE DEF after, before, bound
    <3>5. after =< bound
      BY <3>2, <3>3, <3>4
    <3>. QED
      BY <3>5 DEF after, bound
  <2>4. \A p \in DOMAIN payments :
          Refunded(refunds', p) =< IF payments[p].amount > 0 THEN payments[p].amount ELSE 0
    BY <1>0, <1>2, <2>2, <2>3, RefundSteps
  <2>. QED
    BY <2>1, <2>4 DEF RefundsWithinPayment
<1>. QED
  BY <1>1, <1>2

(* The refunds of a payment never exceed it, except for what failed refunds
   of a negative total had made refundable again: whatever payments, manual
   ones of a negative amount included, and whatever amounts are asked for. *)
THEOREM RefundsStayWithin == Spec => []RefundsWithinPayment
<1>1. Init => RefundsInv
  <2> SUFFICES ASSUME Init PROVE RefundsInv
    OBVIOUS
  <2>1. PaymentsInv
    BY InitConsistent, InitTyped DEF PaymentsInv
  <2>2. payments = <<>>
    BY DEF Init
  <2>. QED
    BY <2>1, <2>2 DEF RefundsInv, RefundsWithinPayment
<1>2. RefundsInv /\ [Next]_vars => RefundsInv'
  <2> SUFFICES ASSUME RefundsInv, [Next]_vars PROVE RefundsInv'
    OBVIOUS
  <2>1. PaymentsInv'
    <3>1. PaymentsInv
      BY DEF RefundsInv
    <3>2. Consistent(order')
      BY <3>1, NextKeeps DEF PaymentsInv, Kept
    <3>3. TypedNext
      BY <3>1, NextTyped
    <3>. QED
      BY <3>2, <3>3 DEF PaymentsInv, TypedNext, Typed
  <2>2. RefundsWithinPayment'
    <3>1. CASE Next
      BY <3>1, NextWithin
    <3>2. CASE UNCHANGED vars
      BY <3>2 DEF vars, RefundsInv, RefundsWithinPayment
    <3>. QED
      BY <3>1, <3>2
  <2>. QED
    BY <2>1, <2>2 DEF RefundsInv
<1>. QED
  BY <1>1, <1>2, PTL DEF Spec, RefundsInv

=============================================================================
