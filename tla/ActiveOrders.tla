------------------------------ MODULE ActiveOrders ------------------------------
(***************************************************************************)
(* Whose cart is it: the active orders of a shop, the sessions that refer  *)
(* to them, and what happens to both when a customer signs in or out.      *)
(* DefaultActiveOrderStrategy (config/order), ActiveOrderService           *)
(* (service/helpers/active-order), SessionService and AuthService          *)
(* (service/services), OrderService.mergeOrders with OrderMerger and       *)
(* MergeOrdersStrategy.                                                    *)
(*                                                                         *)
(* There is one registered customer, "user"; other customers are guests.   *)
(* A request keeps the session that it came with, as the cache had it,     *)
(* while other requests go on; what it does then is one transaction, and   *)
(* those are taken one after the other.                                    *)
(***************************************************************************)
EXTENDS Integers, FiniteSets, Functions, Sums

CONSTANTS
  Sessions,   \* tokens of sessions
  NoToken,    \* the token of no session
  Requests,   \* requests that are handled at the same time
  Variants,   \* product variants
  LineLimit,  \* orderLineItemsLimit
  ItemsLimit, \* orderItemsLimit
  MaxOrders   \* bound on the orders, numbered as they are created

ASSUME ConstantsAssumption ==
  /\ IsFiniteSet(Variants)
  /\ {LineLimit, ItemsLimit, MaxOrders} \subseteq Nat \ {0}
  /\ NoToken \notin Sessions

OrderIds == 1 .. MaxOrders

VARIABLES
  orders,    \* the orders by id
  created,   \* how many there have been
  session,   \* the session rows by token
  ctx        \* ctx.session of every request

vars == <<orders, created, session, ctx>>

ActiveStates == {"AddingItems", "ArrangingPayment"}

(* paid: there are payments, whatever became of them. *)
OrderRows ==
  [state: ActiveStates \cup {"none", "Placed", "Cancelled"},
   customer: {"none", "guest", "user"},
   lines: [Variants -> 0 .. LineLimit],
   paid: BOOLEAN]

NoOrder ==
  [state |-> "none", customer |-> "none", lines |-> [v \in Variants |-> 0],
   paid |-> FALSE]

SessionRows == [kind: {"none", "anonymous", "user"}, order: 0 .. MaxOrders]

NoSession == [kind |-> "none", order |-> 0]

Contexts == [token: Sessions \cup {NoToken}, row: SessionRows]

(* There is no request. *)
Idle == [token |-> NoToken, row |-> NoSession]

Init ==
  /\ orders = [o \in OrderIds |-> NoOrder]
  /\ created = 0
  /\ session = [s \in Sessions |-> NoSession]
  /\ ctx = [r \in Requests |-> Idle]

-----------------------------------------------------------------------------
Exists(o) == o # 0 /\ orders[o].state # "none"

Active(o) == o # 0 /\ orders[o].state \in ActiveStates

Empty(o) == \A v \in Variants : orders[o].lines[v] = 0

Total(lines) == SumOf(lines, Variants)

(* getActiveOrderForUser: the latest there is. *)
ActiveOrderForUser ==
  Max({0} \cup {o \in OrderIds : Active(o) /\ orders[o].customer = "user"})

(* determineActiveOrder *)
Determined(c) ==
  IF Active(c.row.order) THEN c.row.order
  ELSE IF c.row.kind = "user" THEN ActiveOrderForUser ELSE 0

(* ActiveOrderService.getActiveOrder, which may have to create one ... *)
ActiveOrder(c) ==
  IF Determined(c) # 0 THEN Determined(c) ELSE created + 1

Create(c, o) ==
  IF o =< created THEN UNCHANGED created ELSE o =< MaxOrders /\ created' = o

WithNew(c, o) ==
  IF o =< created THEN orders
  ELSE [orders EXCEPT ![o] = [NoOrder EXCEPT
          !.state = "AddingItems",
          !.customer = IF c.row.kind = "user" THEN "user" ELSE "none"]]

(* ... and has the session refer to it: setActiveOrder and unsetActiveOrder,
   if the session is still there. *)
Refer(c, o) ==
  session' =
    [session EXCEPT ![c.token].order =
       IF session[c.token].kind = "none" THEN @
       ELSE IF o # 0 /\ o # c.row.order THEN o
       ELSE IF Exists(c.row.order) /\ ~Active(c.row.order) THEN 0
       ELSE @]

-----------------------------------------------------------------------------
(* Tokens are not used again, unless nothing is left of the session. *)
Forgotten(s, gone, others) == gone /\ \A r \in others : ctx[r].token # s

(* A session is created for a client that has none, and a request comes with
   one. *)
CreateAnonymousSession(s) ==
  /\ Forgotten(s, session[s].kind = "none", Requests)
  /\ session' = [session EXCEPT ![s].kind = "anonymous"]
  /\ UNCHANGED <<orders, created, ctx>>

Receive(r, s) ==
  /\ ctx[r] = Idle
  /\ session[s].kind # "none"
  /\ ctx' = [ctx EXCEPT ![r] = [token |-> s, row |-> session[s]]]
  /\ UNCHANGED <<orders, created, session>>

Received(r) == ctx[r] # Idle

Respond(r) == ctx' = [ctx EXCEPT ![r] = Idle]

(* An error is thrown, and the transaction is rolled back. *)
Fail(r) ==
  /\ Received(r)
  /\ Respond(r)
  /\ UNCHANGED <<orders, created, session>>

-----------------------------------------------------------------------------
(* Mutations of ShopOrderResolver.  One that is refused with an error result
   has still determined the active order, or created it. *)

(* Mutant of WithItem: an item that is refused is added all the same. *)
WithRefusedItem(order, v) == [order EXCEPT !.lines[v] = @ + 1]

WithItem(order, v) ==
  IF /\ order.state = "AddingItems"
     /\ Total(order.lines) < ItemsLimit
     /\ order.lines[v] < LineLimit
  THEN [order EXCEPT !.lines[v] = @ + 1] ELSE order

(* addItemToOrder, of one unit, for which there must be stock and which an
   interceptor may refuse. *)
AddItemToOrder(r, v, accepted) ==
  LET c == ctx[r]
      o == ActiveOrder(c)
  IN /\ Received(r)
     /\ Create(c, o)
     /\ Refer(c, o)
     /\ orders' = [WithNew(c, o) EXCEPT ![o] = IF accepted THEN WithItem(@, v) ELSE @]
     /\ Respond(r)

(* removeOrderLine, which throws if it is not a line of the order, and which an
   interceptor may refuse *)
RemoveOrderLine(r, v, accepted) ==
  LET c == ctx[r]
      o == Determined(c)
  IN /\ Received(r)
     /\ o # 0
     /\ orders[o].lines[v] > 0
     /\ Refer(c, o)
     /\ orders' = [orders EXCEPT ![o].lines[v] =
                     IF orders[o].state = "AddingItems" /\ accepted THEN 0 ELSE @]
     /\ Respond(r)
     /\ UNCHANGED created

MayEnter(order, state) ==
  /\ state # order.state
  /\ state = "ArrangingPayment" =>
       order.customer # "none" /\ \E v \in Variants : order.lines[v] > 0

(* transitionOrderToState *)
TransitionOrderToState(r, state) ==
  LET c == ctx[r]
      o == ActiveOrder(c)
  IN /\ Received(r)
     /\ Create(c, o)
     /\ Refer(c, o)
     /\ orders' = [WithNew(c, o) EXCEPT ![o].state =
                     IF MayEnter(WithNew(c, o)[o], state) THEN state ELSE @]
     /\ Respond(r)

(* addPaymentToOrder: the payment is stored; it may cover the total.  The order
   that was placed is no longer that of the session it was in. *)
AddPaymentToOrder(r, covers) ==
  LET c == ctx[r]
      o == Determined(c)
      accepted == o # 0 /\ orders[o].state = "ArrangingPayment"
  IN /\ Received(r)
     /\ orders' = IF ~accepted THEN orders
                  ELSE [orders EXCEPT ![o].paid = TRUE,
                                      ![o].state = IF covers THEN "Placed" ELSE @]
     /\ IF accepted /\ covers /\ c.row.order = o
        THEN session' = [session EXCEPT ![c.token].order = 0]
        ELSE Refer(c, o)
     /\ Respond(r)
     /\ UNCHANGED created

(* Mutant of SetCustomerForOrder: the order that the session refers to need not
   be active. *)
SetCustomerWhenPlaced(r) ==
  LET o == IF Exists(ctx[r].row.order) THEN ctx[r].row.order ELSE 0
  IN /\ Received(r)
     /\ orders' = IF o = 0 \/ ctx[r].row.kind = "user" THEN orders
                  ELSE [orders EXCEPT ![o].customer = "guest"]
     /\ Respond(r)
     /\ UNCHANGED <<created, session>>

(* setCustomerForOrder: DefaultGuestCheckoutStrategy lets those do it who have
   not signed in. *)
SetCustomerForOrder(r) ==
  LET c == ctx[r]
      o == Determined(c)
  IN /\ Received(r)
     /\ Refer(c, o)
     /\ orders' = IF o = 0 \/ c.row.kind = "user" THEN orders
                  ELSE [orders EXCEPT ![o].customer = "guest"]
     /\ Respond(r)
     /\ UNCHANGED created

(* The query activeOrder. *)
QueryActiveOrder(r) ==
  /\ Received(r)
  /\ Refer(ctx[r], Determined(ctx[r]))
  /\ Respond(r)
  /\ UNCHANGED <<orders, created>>

-----------------------------------------------------------------------------
(* Signing in: createAuthenticatedSessionForUser and mergeOrders. *)

(* Mutant of Merge: an empty order is not worth deleting. *)
MergeKeepingEmpty(g, e) ==
  IF g # 0 /\ orders[g].customer # "none" THEN [order |-> e, delete |-> 0]
  ELSE IF g # 0 /\ ~Empty(g) /\ (e = 0 \/ Empty(e)) THEN [order |-> g, delete |-> 0]
  ELSE [order |-> e, delete |-> g]

(* Which order remains, and which is to be deleted.  An order that has a
   customer is not merged at all. *)
Merge(g, e) ==
  IF g # 0 /\ orders[g].customer # "none" THEN [order |-> e, delete |-> 0]
  ELSE IF g # 0 /\ ~Empty(g) /\ (e = 0 \/ Empty(e)) THEN [order |-> g, delete |-> e]
  ELSE [order |-> e, delete |-> g]

GuestsOrder(c) == IF Exists(c.row.order) THEN c.row.order ELSE 0

Merging(c) == Merge(GuestsOrder(c), ActiveOrderForUser)

(* MergeOrdersStrategy, getLinesToInsert and getLinesToModify: the guest's
   quantity is to replace the customer's, where they differ. *)
LinesToMerge(g, m) ==
  IF g = 0 \/ m.order = 0 \/ m.delete # g THEN {}
  ELSE {v \in Variants : orders[g].lines[v] \notin {0, orders[m.order].lines[v]}}

(* What the shop answers to lines: how many units are saleable, and which lines
   an interceptor refuses; and in which order it is asked. *)
Answers(lines) ==
  [saleable: [lines -> 0 .. LineLimit],
   vetoed: SUBSET lines,
   queue: Bijection(lines, 1 .. Cardinality(lines))]

AtMost(a, b) == IF a =< b THEN a ELSE b

(* Mutant of MergedLines: the customer's own lines are not asked for. *)
MergedFromGuest(g, e, answer, refused) ==
  [v \in Variants |->
     IF v \in DOMAIN answer.saleable \ refused
     THEN AtMost(orders[g].lines[v], answer.saleable[v])
     ELSE IF DOMAIN answer.saleable # {} THEN orders[g].lines[v]
     ELSE orders[e].lines[v]]

(* A line that is not refused is cut to what is saleable, and is inserted if
   that is something, or removed if it is nothing. *)
MergedLines(g, e, answer, refused) ==
  [v \in Variants |->
     IF v \in DOMAIN answer.saleable \ refused
     THEN AtMost(orders[g].lines[v], answer.saleable[v])
     ELSE orders[e].lines[v]]

(* addItemsToOrder comes before adjustOrderLines; each goes line by line. *)
Precedes(had, queue, u, v) ==
  IF (had[u] = 0) # (had[v] = 0) THEN had[u] = 0 ELSE queue[u] < queue[v]

(* assertNotOverOrderItemsLimit, with the lines as they are when it is v's turn. *)
OverItemsLimit(brought, had, queue, merged, v) ==
  LET now == [u \in Variants |->
                IF u \in DOMAIN queue /\ Precedes(had, queue, u, v)
                THEN merged[u] ELSE had[u]]
  IN  Total(now) + brought[v] - had[v] > ItemsLimit

(* The lines that addItemsToOrder and adjustOrderLines refuse. *)
Refused(g, e, answer, merged) ==
  {v \in DOMAIN answer.saleable :
     \/ orders[e].state # "AddingItems"
     \/ OverItemsLimit(orders[g].lines, orders[e].lines, answer.queue, merged, v)
     \/ v \in answer.vetoed}

(* An order with payments cannot be deleted, and is cancelled. *)
Without(d) ==
  IF d = 0 THEN orders
  ELSE [orders EXCEPT ![d] = IF @.paid THEN [@ EXCEPT !.state = "Cancelled"]
                             ELSE NoOrder]

(* mergeOrders: an order is deleted, lines are added to the other or modified,
   whatever the errors, and it is the customer's. *)
Reconciled(m, lines) ==
  IF m.order = 0 THEN Without(m.delete)
  ELSE [Without(m.delete) EXCEPT ![m.order].lines = lines,
                                 ![m.order].customer = "user"]

(* Mutant of SessionsAfter: the session stays. *)
SessionsStay(c, t, m) == [session EXCEPT ![t] = [kind |-> "user", order |-> m.order]]

(* deleteSessionsByActiveOrderId, with the order of ctx.session *)
Deleted(c, s) == c.row.order # 0 /\ session[s].order = c.row.order

(* Mutant of SessionsAfter: a deleted order is not forgotten. *)
SessionsKeepOrder(c, t, m) ==
  [s \in Sessions |->
     IF s = t THEN [kind |-> "user", order |-> m.order]
     ELSE IF Deleted(c, s) THEN NoSession ELSE session[s]]

(* Sessions are deleted, those of a deleted order forget it, and there is a new
   one. *)
SessionsAfter(c, t, m) ==
  [s \in Sessions |->
     IF s = t THEN [kind |-> "user", order |-> m.order]
     ELSE IF Deleted(c, s) THEN NoSession
     ELSE IF m.delete # 0 /\ ~orders[m.delete].paid /\ session[s].order = m.delete
     THEN [session[s] EXCEPT !.order = 0]
     ELSE session[s]]

(* The customer signs in; `refused` are the guest's lines that were. *)
SignInAnswered(r, t, answer, refused) ==
  LET c == ctx[r]
      g == GuestsOrder(c)
      m == Merging(c)
      merged == MergedLines(g, m.order, answer, refused)
  IN /\ Received(r)
     /\ Forgotten(t, session[t].kind = "none" \/ Deleted(c, t), Requests \ {r})
     /\ m.order = 0 /\ m.delete # 0 => ~orders[m.delete].paid
     /\ refused = Refused(g, m.order, answer, merged)
     /\ orders' = Reconciled(m, merged)
     /\ session' = SessionsAfter(c, t, m)
     /\ Respond(r)
     /\ UNCHANGED created

SignIn(r, t) ==
  LET lines == LinesToMerge(GuestsOrder(ctx[r]), Merging(ctx[r]))
  IN  \E answer \in Answers(lines), refused \in SUBSET lines :
        SignInAnswered(r, t, answer, refused)

(* destroyAuthenticatedSession: all sessions of the user go. *)
SignOut(r) ==
  /\ Received(r)
  /\ session[ctx[r].token].kind = "user"
  /\ session' = [s \in Sessions |-> IF session[s].kind = "user" THEN NoSession
                                    ELSE session[s]]
  /\ Respond(r)
  /\ UNCHANGED <<orders, created>>

(* cleanExpiredSessions *)
Expire(s) ==
  /\ session[s].kind # "none"
  /\ session' = [session EXCEPT ![s] = NoSession]
  /\ UNCHANGED <<orders, created, ctx>>

-----------------------------------------------------------------------------
RequestStep(r) ==
  \/ \E s \in Sessions : Receive(r, s) \/ SignIn(r, s)
  \/ \E v \in Variants, accepted \in BOOLEAN :
       AddItemToOrder(r, v, accepted) \/ RemoveOrderLine(r, v, accepted)
  \/ \E state \in ActiveStates \cup {"Cancelled"} : TransitionOrderToState(r, state)
  \/ \E covers \in BOOLEAN : AddPaymentToOrder(r, covers)
  \/ SetCustomerForOrder(r) \/ QueryActiveOrder(r) \/ SignOut(r) \/ Fail(r)

Next ==
  \/ \E r \in Requests : RequestStep(r)
  \/ \E s \in Sessions : CreateAnonymousSession(s) \/ Expire(s)

Spec == Init /\ [][Next]_vars

-----------------------------------------------------------------------------
TypeOK ==
  /\ orders \in [OrderIds -> OrderRows]
  /\ created \in 0 .. MaxOrders
  /\ session \in [Sessions -> SessionRows]
  /\ ctx \in [Requests -> Contexts]

(* A customer has one cart: signing in from anywhere, with any order or none,
   while other requests go on, never leaves the customer with two. *)
OneActiveOrder ==
  \A o, p \in OrderIds :
    Active(o) /\ Active(p) /\ orders[o].customer = "user" /\ orders[p].customer = "user"
    => o = p

(* The sessions of a guest never have the customer's cart, not even when it
   was the guest's before. *)
GuestsHaveTheirOwn ==
  \A s \in Sessions :
    session[s].kind = "anonymous" /\ Active(session[s].order)
    => orders[session[s].order].customer # "user"

(* No session refers to an order that was deleted. *)
NoDanglingSession ==
  \A s \in Sessions : session[s].order # 0 => Exists(session[s].order)

(* An order that was placed is not touched by the requests of shop clients,
   although sessions, and requests on their way, still refer to it. *)
PlacedIsKept ==
  [][\A o \in OrderIds : orders[o].state = "Placed" => orders'[o] = orders[o]]_vars

SignsIn(r, s) ==
  Received(r) /\ ctx'[r] = Idle /\ session[s].kind # "user" /\ session'[s].kind = "user"

SoldOut(answer) == {v \in DOMAIN answer.saleable : answer.saleable[v] = 0}

FoundIn(s, o, but) ==
  LET cart == session'[s].order IN
  \A v \in Variants \ but : Active(o) /\ orders[o].lines[v] > 0 =>
                             cart # 0 /\ orders'[cart].lines[v] > 0

(* The guest's order has no customer yet, and its units and those of the
   customer's order are not too many for one. *)
GuestsOrderFits(guests, customers) ==
  /\ guests # 0 /\ orders[guests].customer = "none"
  /\ Total(orders[guests].lines)
       + (IF customers = 0 THEN 0 ELSE Total(orders[customers].lines)) =< ItemsLimit

(* "Merges both Orders": when the customer's order is in AddingItems, a guest who
   signs in finds in the cart what was in the customer's, unless the guest brings
   the same variant and it is not saleable any more; and what was in the guest's,
   if that has no customer yet, both fit into one order, the variant is saleable
   and no interceptor refuses it.  Said of all answers that explain the step. *)
SignInKeepsBoth ==
  [][\A r \in Requests, s \in Sessions :
       LET guests == ctx[r].row.order
           customers == ActiveOrderForUser
           lines == LinesToMerge(GuestsOrder(ctx[r]), Merging(ctx[r]))
       IN SignsIn(r, s) /\ (customers # 0 => orders[customers].state = "AddingItems")
          => \A answer \in Answers(lines), refused \in SUBSET lines :
               SignInAnswered(r, s, answer, refused)
               => /\ FoundIn(s, customers, SoldOut(answer))
                  /\ GuestsOrderFits(guests, customers) =>
                       FoundIn(s, guests, SoldOut(answer) \cup answer.vetoed)]_vars

-----------------------------------------------------------------------------
(* What the documentation says, and the code does not keep to.             *)

(* "Merges both Orders", under the same conditions: whatever the state of the
   customer's order. *)
SignInMergesBoth ==
  [][\A r \in Requests, s \in Sessions :
       LET guests == ctx[r].row.order
           lines == LinesToMerge(GuestsOrder(ctx[r]), Merging(ctx[r]))
       IN SignsIn(r, s) /\ GuestsOrderFits(guests, ActiveOrderForUser)
          => \A answer \in Answers(lines), refused \in SUBSET lines :
               SignInAnswered(r, s, answer, refused)
               => FoundIn(s, guests, SoldOut(answer) \cup answer.vetoed)]_vars

=============================================================================
