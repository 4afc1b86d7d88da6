--------------------------- MODULE ActiveOrders_proofs ---------------------------
(***************************************************************************)
(* That a customer has one cart, guests have their own, no session refers  *)
(* to a deleted order, and a placed order is kept: for any number of       *)
(* sessions, requests, variants and orders.                                *)
(***************************************************************************)
EXTENDS ActiveOrders, SumTheorems

(* Orders are numbered as they are created. *)
Unborn == \A o \in OrderIds : o > created => orders[o].state = "none"

(* An order has a customer from ArrangingPayment on. *)
Known(row) == row.state \in {"ArrangingPayment", "Placed"} => row.customer # "none"

CustomersKnown == \A o \in OrderIds : Known(orders[o])

(* A request's copy of its session is stale in everything but its kind. *)
KindsAgree ==
  \A r \in Requests :
    ctx[r] # Idle => /\ ctx[r].token \in Sessions
                     /\ ctx[r].row.kind # "none"
                     /\ session[ctx[r].token].kind \in {"none", ctx[r].row.kind}

(* A session that is not there refers to nothing. *)
NothingLeft == \A s \in Sessions : session[s].kind = "none" => session[s].order = 0

CartInv ==
  /\ TypeOK
  /\ OneActiveOrder
  /\ GuestsHaveTheirOwn
  /\ NoDanglingSession
  /\ Unborn
  /\ CustomersKnown
  /\ KindsAgree
  /\ NothingLeft

PlacedKept == \A o \in OrderIds : orders[o].state = "Placed" => orders'[o] = orders[o]

-----------------------------------------------------------------------------
(* The customer's cart *)

UsersCart(o) == o \in OrderIds /\ Active(o) /\ orders[o].customer = "user"

(* With one cart at most, the latest is the one there is. *)
LEMMA LatestIsTheCart ==
  ASSUME TypeOK, OneActiveOrder
  PROVE  \/ ActiveOrderForUser = 0 /\ \A o \in OrderIds : ~UsersCart(o)
         \/ UsersCart(ActiveOrderForUser)
<1> DEFINE S == {0} \cup {o \in OrderIds : Active(o) /\ orders[o].customer = "user"}
<1>0. OrderIds \subseteq Nat \ {0}
  BY ConstantsAssumption DEF OrderIds
<1>1. CASE \A o \in OrderIds : ~UsersCart(o)
  <2>1. S = {0}
    BY <1>1 DEF UsersCart
  <2>2. Max(S) = 0
    BY <2>1 DEF Max
  <2> QED
    BY <1>1, <2>2 DEF ActiveOrderForUser
<1>2. CASE \E o \in OrderIds : UsersCart(o)
  <2>1. PICK o \in OrderIds : UsersCart(o)
    BY <1>2
  <2>2. S = {0, o}
    BY <2>1 DEF UsersCart, OneActiveOrder
  <2>3. o \in Nat \ {0}
    BY <1>0
  <2> HIDE DEF S
  <2>4. o \in S /\ \A y \in S : o >= y
    BY <2>2, <2>3
  <2>5. \A x \in S : (\A y \in S : x >= y) => x = o
    BY <2>2, <2>3
  <2>6. Max(S) = o
    BY <2>4, <2>5 DEF Max
  <2> QED
    BY <2>1, <2>6 DEF ActiveOrderForUser, S
<1> QED
  BY <1>1, <1>2

-----------------------------------------------------------------------------
(* What all mutations of the shop have in common: one order may change, or be
   created, and the session may refer to it. *)

(* An order that a request may have to do with. *)
Reachable(c, o) ==
  \/ o = 0
  \/ /\ o \in OrderIds /\ o =< created /\ Active(o)
     /\ o # c.row.order => c.row.kind = "user"
  \/ o \in OrderIds /\ o = created + 1

RowOf(c, o, row) ==
  /\ row \in OrderRows
  /\ row.state # "none"
  /\ Known(row)
  /\ row.customer = "user" =>
       \/ o =< created /\ orders[o].customer = "user"
       \/ /\ o = created + 1 /\ c.row.kind = "user"
          /\ \A p \in OrderIds : ~UsersCart(p)

Referred(c, o) ==
  /\ session' \in [Sessions -> SessionRows]
  /\ \A s \in Sessions :
       /\ session'[s].kind = session[s].kind
       /\ \/ session'[s].order \in {0, session[s].order}
          \/ /\ s = c.token /\ session[s].kind # "none"
             /\ session'[s].order = o /\ o # c.row.order

ShopStep(r, o, row) ==
  /\ Received(r)
  /\ Reachable(ctx[r], o)
  /\ o # 0 => RowOf(ctx[r], o, row)
  /\ orders' = [orders EXCEPT ![o] = row]
  /\ created' = IF o =< created THEN created ELSE o
  /\ Referred(ctx[r], o)
  /\ Respond(r)

LEMMA ShopStepTyped ==
  ASSUME CartInv, NEW r \in Requests, NEW o, NEW row, ShopStep(r, o, row)
  PROVE  TypeOK'
<1> USE ConstantsAssumption DEF CartInv
<1>1. orders' \in [OrderIds -> OrderRows]
  <2>1. CASE o \in OrderIds
    <3>1. row \in OrderRows
      BY <2>1 DEF ShopStep, RowOf, OrderIds
    <3> QED
      BY <3>1 DEF ShopStep, TypeOK
  <2>2. CASE o \notin OrderIds
    BY <2>2 DEF ShopStep, TypeOK
  <2> QED
    BY <2>1, <2>2
<1>2. created' \in 0 .. MaxOrders
  BY DEF ShopStep, Reachable, OrderIds, TypeOK
<1>3. session' \in [Sessions -> SessionRows]
  BY DEF ShopStep, Referred
<1>4. ctx' \in [Requests -> Contexts]
  <2>1. Idle \in Contexts
    BY DEF Idle, Contexts, NoSession, SessionRows
  <2> QED
    BY <2>1 DEF ShopStep, Respond, TypeOK
<1> QED
  BY <1>1, <1>2, <1>3, <1>4 DEF TypeOK

LEMMA ShopStepInv ==
  ASSUME CartInv, NEW r \in Requests, NEW o, NEW row, ShopStep(r, o, row)
  PROVE  CartInv' /\ PlacedKept
<1> DEFINE c == ctx[r]
<1>0. TypeOK'
  BY ShopStepTyped
<1>a. OrderIds \subseteq Nat \ {0} /\ created \in Nat
  BY ConstantsAssumption DEF CartInv, TypeOK, OrderIds
<1>b. \A p \in OrderIds : p # o => orders'[p] = orders[p]
  BY DEF ShopStep, CartInv, TypeOK
<1>c. o \in OrderIds => orders'[o] = row /\ RowOf(c, o, row)
  BY <1>a DEF ShopStep, CartInv, TypeOK
<1>d. o \in OrderIds =>
        \/ o =< created /\ Active(o)
        \/ o = created + 1 /\ orders[o].state = "none"
  BY <1>a DEF ShopStep, Reachable, CartInv, Unborn
<1>1. OneActiveOrder'
  <2> SUFFICES ASSUME NEW p \in OrderIds, NEW q \in OrderIds,
                      Active(p)', Active(q)',
                      orders'[p].customer = "user", orders'[q].customer = "user"
               PROVE  p = q
    BY DEF OneActiveOrder
  <2>1. \A x \in OrderIds :
          Active(x)' /\ orders'[x].customer = "user" =>
            \/ UsersCart(x)
            \/ x = o /\ \A y \in OrderIds : ~UsersCart(y)
    BY <1>a, <1>b, <1>c, <1>d DEF RowOf, Active, UsersCart
  <2> QED
    BY <2>1 DEF CartInv, OneActiveOrder, UsersCart
<1>2. NoDanglingSession'
  <2> SUFFICES ASSUME NEW s \in Sessions, session'[s].order # 0
               PROVE  Exists(session[s].order)'
    BY DEF NoDanglingSession
  <2>1. \A p \in OrderIds : Exists(p) => Exists(p)'
    BY <1>b, <1>c DEF Exists, RowOf
  <2>2. session'[s].order \in OrderIds
    BY <1>0 DEF TypeOK, SessionRows, OrderIds
  <2>3. CASE session'[s].order = session[s].order
    BY <2>1, <2>2, <2>3 DEF CartInv, NoDanglingSession
  <2>4. CASE session'[s].order = o
    BY <1>c, <2>2, <2>4 DEF Exists, RowOf
  <2> QED
    BY <2>3, <2>4 DEF ShopStep, Referred
<1>3. GuestsHaveTheirOwn'
  <2> SUFFICES ASSUME NEW s \in Sessions,
                      session'[s].kind = "anonymous",
                      session'[s].order # 0,
                      orders'[session'[s].order].customer = "user",
                      Active(session[s].order)'
               PROVE  FALSE
    BY DEF GuestsHaveTheirOwn, Active
  <2>1. session[s].kind = "anonymous"
    BY DEF ShopStep, Referred
  <2>2. session'[s].order \in OrderIds
    BY <1>0 DEF TypeOK, SessionRows, OrderIds
  <2>3. CASE session'[s].order = session[s].order
    <3>1. Exists(session[s].order)
      BY <2>3 DEF CartInv, NoDanglingSession
    <3>2. session[s].order # o => FALSE
      BY <1>b, <2>1, <2>2, <2>3 DEF CartInv, GuestsHaveTheirOwn, Active
    <3>3. session[s].order = o => FALSE
      BY <1>a, <1>c, <1>d, <2>1, <2>2, <2>3, <3>1
         DEF CartInv, GuestsHaveTheirOwn, Exists, RowOf
    <3> QED
      BY <3>2, <3>3
  <2>4. CASE s = c.token /\ session'[s].order = o /\ o # c.row.order
    <3>1. c.row.kind = "anonymous"
      BY <2>1, <2>4 DEF ShopStep, Received, CartInv, KindsAgree
    <3>2. o = created + 1
      BY <2>2, <2>4, <3>1, <1>a DEF ShopStep, Reachable
    <3> QED
      BY <1>a, <1>c, <2>2, <2>4, <3>1, <3>2 DEF RowOf
  <2> QED
    BY <2>3, <2>4 DEF ShopStep, Referred
<1>4. Unborn'
  BY <1>a, <1>b DEF ShopStep, Reachable, CartInv, Unborn
<1>5. CustomersKnown'
  BY <1>b, <1>c DEF RowOf, CartInv, CustomersKnown
<1>6. KindsAgree'
  BY DEF ShopStep, Respond, Referred, CartInv, TypeOK, KindsAgree
<1>7. NothingLeft'
  BY DEF ShopStep, Referred, CartInv, NothingLeft
<1>8. PlacedKept
  BY <1>b, <1>d DEF PlacedKept, Active, ActiveStates
<1> QED
  BY <1>0, <1>1, <1>2, <1>3, <1>4, <1>5, <1>6, <1>7, <1>8 DEF CartInv

-----------------------------------------------------------------------------
(* The mutations of the shop are such steps. *)

LEMMA DeterminedReachable ==
  ASSUME CartInv, NEW c \in Contexts
  PROVE  /\ Reachable(c, Determined(c))
         /\ Determined(c) # 0 => Determined(c) \in OrderIds /\ Active(Determined(c))
         /\ Determined(c) = 0 /\ c.row.kind = "user" =>
              \A o \in OrderIds : ~UsersCart(o)
<1>1. OrderIds \subseteq Nat \ {0} /\ created \in Nat
  BY ConstantsAssumption DEF CartInv, TypeOK, OrderIds
<1>2. \A o \in OrderIds : Active(o) => o =< created
  BY <1>1 DEF CartInv, Unborn, Active, ActiveStates
<1>3. c.row.order \in {0} \cup OrderIds
  BY ConstantsAssumption DEF Contexts, SessionRows, OrderIds
<1>4. CASE Active(c.row.order)
  BY <1>1, <1>2, <1>3, <1>4 DEF Determined, Reachable, Active
<1>5. CASE ~Active(c.row.order) /\ c.row.kind = "user"
  <2>1. Determined(c) = ActiveOrderForUser
    BY <1>5 DEF Determined
  <2> QED
    BY <1>1, <1>2, <1>5, <2>1, LatestIsTheCart DEF CartInv, UsersCart, Reachable
<1>6. CASE ~Active(c.row.order) /\ c.row.kind # "user"
  BY <1>6 DEF Determined, Reachable
<1> QED
  BY <1>4, <1>5, <1>6

(* The fields of an order. *)
RowStates == ActiveStates \cup {"none", "Placed", "Cancelled"}

LEMMA StateTyped ==
  ASSUME NEW row \in OrderRows, NEW state \in RowStates
  PROVE  /\ [row EXCEPT !.state = state] \in OrderRows
         /\ [row EXCEPT !.state = state].state = state
         /\ [row EXCEPT !.state = state].customer = row.customer
BY DEF OrderRows, RowStates

LEMMA CustomerTyped ==
  ASSUME NEW row \in OrderRows, NEW who \in {"none", "guest", "user"}
  PROVE  /\ [row EXCEPT !.customer = who] \in OrderRows
         /\ [row EXCEPT !.customer = who].state = row.state
         /\ [row EXCEPT !.customer = who].customer = who
         /\ [row EXCEPT !.customer = who].lines = row.lines
BY DEF OrderRows

LEMMA LinesTyped ==
  ASSUME NEW row \in OrderRows, NEW lines \in [Variants -> 0 .. LineLimit]
  PROVE  /\ [row EXCEPT !.lines = lines] \in OrderRows
         /\ [row EXCEPT !.lines = lines].state = row.state
         /\ [row EXCEPT !.lines = lines].customer = row.customer
         /\ [row EXCEPT !.lines = lines].lines = lines
BY DEF OrderRows

LEMMA PaidTyped ==
  ASSUME NEW row \in OrderRows, NEW state \in RowStates
  PROVE  /\ [row EXCEPT !.paid = TRUE, !.state = state] \in OrderRows
         /\ [row EXCEPT !.paid = TRUE, !.state = state].state = state
         /\ [row EXCEPT !.paid = TRUE, !.state = state].customer = row.customer
BY DEF OrderRows, RowStates

LEMMA NoOrderTyped == NoOrder \in OrderRows
BY ConstantsAssumption DEF NoOrder, OrderRows

LEMMA NewTyped ==
  ASSUME NEW who \in {"none", "user"}
  PROVE  LET row == [NoOrder EXCEPT !.state = "AddingItems", !.customer = who]
         IN row \in OrderRows /\ row.state = "AddingItems" /\ row.customer = who
BY NoOrderTyped DEF OrderRows, ActiveStates

(* The order that the request has to do with may be a new one. *)
LEMMA ActiveOrderReachable ==
  ASSUME CartInv, NEW c \in Contexts, Create(c, ActiveOrder(c))
  PROVE  LET o == ActiveOrder(c) IN
         /\ o \in OrderIds
         /\ Reachable(c, o)
         /\ created' = IF o =< created THEN created ELSE o
         /\ \E row : RowOf(c, o, row) /\ WithNew(c, o) = [orders EXCEPT ![o] = row]
         /\ WithNew(c, o)[o].state \in ActiveStates
<1> DEFINE o == ActiveOrder(c)
<1>1. OrderIds \subseteq Nat \ {0} /\ created \in Nat /\ MaxOrders \in Nat
  BY ConstantsAssumption DEF CartInv, TypeOK, OrderIds
<1>2. CASE Determined(c) # 0
  <2>1. o = Determined(c)
    BY <1>2 DEF ActiveOrder
  <2>2. o \in OrderIds /\ Active(o) /\ Reachable(c, o)
    BY <1>2, <2>1, DeterminedReachable
  <2>3. o =< created
    <3>1. \A x \in OrderIds : Active(x) => x =< created
      BY <1>1 DEF CartInv, Unborn, Active, ActiveStates
    <3> QED
      BY <2>2, <3>1
  <2>4. created' = created
    BY <2>3 DEF Create
  <2>5. WithNew(c, o) = orders
    BY <2>3 DEF WithNew
  <2>6. orders = [orders EXCEPT ![o] = orders[o]]
    BY <2>2 DEF CartInv, TypeOK
  <2>7. RowOf(c, o, orders[o])
    BY <2>2, <2>3 DEF RowOf, CartInv, TypeOK, CustomersKnown, Active, ActiveStates
  <2> QED
    BY <2>2, <2>3, <2>4, <2>5, <2>6, <2>7 DEF Active
<1>3. CASE Determined(c) = 0
  <2> DEFINE who == IF c.row.kind = "user" THEN "user" ELSE "none"
             row == [NoOrder EXCEPT !.state = "AddingItems", !.customer = who]
  <2>1. o = created + 1
    BY <1>3 DEF ActiveOrder
  <2>2. o =< MaxOrders /\ created' = o
    BY <1>1, <2>1 DEF Create
  <2>3. o \in OrderIds
    BY <1>1, <2>1, <2>2 DEF OrderIds
  <2>4. WithNew(c, o) = [orders EXCEPT ![o] = row]
    BY <1>1, <2>1 DEF WithNew
  <2>5. row \in OrderRows /\ row.state = "AddingItems"
        /\ (row.customer = "user" => c.row.kind = "user")
    <3>1. who \in {"none", "user"} /\ (who = "user" => c.row.kind = "user")
      OBVIOUS
    <3> HIDE DEF who
    <3>2. row \in OrderRows /\ row.state = "AddingItems" /\ row.customer = who
      BY <3>1, NewTyped
    <3> QED
      BY <3>1, <3>2
  <2> HIDE DEF row
  <2>6. RowOf(c, o, row)
    BY <1>3, <2>1, <2>5, DeterminedReachable DEF RowOf, Known
  <2>7. WithNew(c, o)[o] = row
    BY <2>3, <2>4 DEF CartInv, TypeOK
  <2> QED
    BY <1>1, <2>1, <2>2, <2>3, <2>4, <2>5, <2>6, <2>7 DEF Reachable, ActiveStates
<1> QED
  BY <1>2, <1>3

LEMMA SessionTyped ==
  ASSUME NEW row \in SessionRows, NEW o \in 0 .. MaxOrders
  PROVE  /\ [row EXCEPT !.order = o] \in SessionRows
         /\ [row EXCEPT !.order = o].kind = row.kind
         /\ [row EXCEPT !.order = o].order = o
BY DEF SessionRows

LEMMA ReferReferred ==
  ASSUME TypeOK, NEW c \in Contexts, NEW o \in 0 .. MaxOrders, Refer(c, o)
  PROVE  Referred(c, o)
<1> DEFINE was == session[c.token]
           now == IF was.kind = "none" THEN was.order
                  ELSE IF o # 0 /\ o # c.row.order THEN o
                  ELSE IF Exists(c.row.order) /\ ~Active(c.row.order) THEN 0
                  ELSE was.order
<1>1. session' = [session EXCEPT ![c.token] = [was EXCEPT !.order = now]]
  BY DEF Refer, TypeOK
<1>2. \A s \in Sessions : session[s] \in SessionRows
  BY DEF TypeOK
<1>3. \A s \in Sessions : s # c.token => session'[s] = session[s]
  BY <1>1 DEF TypeOK
<1>4. CASE c.token \in Sessions
  <2>1. was \in SessionRows
    BY <1>2, <1>4
  <2>2. now \in 0 .. MaxOrders
    BY <2>1, ConstantsAssumption DEF SessionRows
  <2>3. \/ now \in {0, was.order}
        \/ was.kind # "none" /\ now = o /\ o # c.row.order
    OBVIOUS
  <2>4. session'[c.token] = [was EXCEPT !.order = now]
    BY <1>1, <1>4 DEF TypeOK
  <2> HIDE DEF now
  <2>5. session'[c.token] \in SessionRows
        /\ session'[c.token].kind = was.kind /\ session'[c.token].order = now
    BY <2>1, <2>2, <2>4, SessionTyped
  <2>6. session' \in [Sessions -> SessionRows]
    <3> HIDE DEF was
    <3>1. [was EXCEPT !.order = now] \in SessionRows
      BY <2>4, <2>5
    <3> QED
      BY <1>1, <3>1 DEF TypeOK
  <2> QED
    BY <1>3, <2>3, <2>5, <2>6 DEF Referred
<1>5. CASE c.token \notin Sessions
  <2>1. session' = session
    BY <1>1, <1>5 DEF TypeOK
  <2> QED
    BY <2>1 DEF Referred, TypeOK
<1> QED
  BY <1>4, <1>5

(* An order that a request did not have to create. *)
LEMMA OwnRow ==
  ASSUME CartInv, NEW c \in Contexts
  PROVE  LET o == Determined(c) IN
         /\ o \in 0 .. MaxOrders
         /\ o # 0 => o \in OrderIds /\ RowOf(c, o, orders[o])
         /\ orders = [orders EXCEPT ![o] = orders[o]]
         /\ created = IF o =< created THEN created ELSE o
<1> DEFINE o == Determined(c)
<1>1. OrderIds \subseteq Nat \ {0} /\ created \in Nat /\ MaxOrders \in Nat
  BY ConstantsAssumption DEF CartInv, TypeOK, OrderIds
<1>2. \A x \in OrderIds : Active(x) => x =< created
  <2> SUFFICES ASSUME NEW x \in OrderIds, Active(x), x > created
               PROVE  FALSE
    BY <1>1
  <2>1. orders[x].state = "none"
    BY DEF CartInv, Unborn
  <2> QED
    BY <2>1 DEF Active, ActiveStates
<1>3. o # 0 => o \in OrderIds /\ Active(o)
  BY DeterminedReachable
<1> HIDE DEF o
<1>4. o \in 0 .. MaxOrders
  BY <1>1, <1>3 DEF OrderIds
<1>5. o # 0 => o =< created /\ RowOf(c, o, orders[o])
  BY <1>2, <1>3 DEF RowOf, CartInv, TypeOK, CustomersKnown, Active, ActiveStates
<1>6. orders = [orders EXCEPT ![o] = orders[o]]
  BY DEF CartInv, TypeOK
<1>7. created = IF o =< created THEN created ELSE o
  BY <1>1, <1>5
<1> QED
  BY <1>3, <1>4, <1>5, <1>6, <1>7 DEF o

LEMMA RowOfSame ==
  ASSUME NEW c, NEW o, NEW row, NEW other, RowOf(c, o, row),
         other \in OrderRows, other.state = row.state, other.customer = row.customer
  PROVE  RowOf(c, o, other)
BY DEF RowOf, Known

LEMMA WithItemTyped ==
  ASSUME NEW row \in OrderRows, NEW v \in Variants
  PROVE  /\ WithItem(row, v) \in OrderRows
         /\ WithItem(row, v).state = row.state
         /\ WithItem(row, v).customer = row.customer
<1> DEFINE lines == [row.lines EXCEPT ![v] = row.lines[v] + 1]
<1>1. row.lines \in [Variants -> 0 .. LineLimit]
  BY DEF OrderRows
<1>2. row.lines[v] < LineLimit => lines \in [Variants -> 0 .. LineLimit]
  BY <1>1, ConstantsAssumption
<1>3. WithItem(row, v) = IF /\ row.state = "AddingItems"
                            /\ Total(row.lines) < ItemsLimit
                            /\ row.lines[v] < LineLimit
                         THEN [row EXCEPT !.lines = lines] ELSE row
  BY DEF WithItem
<1> HIDE DEF lines
<1> QED
  BY <1>2, <1>3, LinesTyped

LEMMA AddIsShopStep ==
  ASSUME CartInv, NEW r \in Requests, NEW v \in Variants, NEW accepted \in BOOLEAN,
         AddItemToOrder(r, v, accepted)
  PROVE  \E o, row : ShopStep(r, o, row)
<1> DEFINE c == ctx[r]
           o == ActiveOrder(c)
<1>1. c \in Contexts
  BY DEF CartInv, TypeOK
<1>2. Create(c, o) /\ Refer(c, o) /\ Received(r) /\ Respond(r)
      /\ orders' = [WithNew(c, o) EXCEPT ![o] =
                       IF accepted THEN WithItem(WithNew(c, o)[o], v)
                       ELSE WithNew(c, o)[o]]
  BY DEF AddItemToOrder
<1>3. /\ o \in OrderIds
      /\ Reachable(c, o)
      /\ created' = IF o =< created THEN created ELSE o
      /\ \E row : RowOf(c, o, row) /\ WithNew(c, o) = [orders EXCEPT ![o] = row]
  BY <1>1, <1>2, ActiveOrderReachable
<1>4. PICK row : RowOf(c, o, row) /\ WithNew(c, o) = [orders EXCEPT ![o] = row]
  BY <1>3
<1> HIDE DEF o
<1> DEFINE next == IF accepted THEN WithItem(row, v) ELSE row
<1>5. orders' = [orders EXCEPT ![o] = next]
  BY <1>2, <1>3, <1>4 DEF CartInv, TypeOK
<1>6. RowOf(c, o, next)
  <2>1. row \in OrderRows
    BY <1>4 DEF RowOf
  <2> QED
    BY <1>4, <2>1, WithItemTyped, RowOfSame
<1>7. Referred(c, o)
  BY <1>1, <1>2, <1>3, ReferReferred DEF OrderIds, CartInv
<1> QED
  BY <1>2, <1>3, <1>5, <1>6, <1>7 DEF ShopStep

LEMMA TransitionIsShopStep ==
  ASSUME CartInv, NEW r \in Requests, NEW state \in ActiveStates \cup {"Cancelled"},
         TransitionOrderToState(r, state)
  PROVE  \E o, row : ShopStep(r, o, row)
<1> DEFINE c == ctx[r]
           o == ActiveOrder(c)
           old == WithNew(c, o)[o]
           next == IF MayEnter(old, state) THEN state ELSE old.state
<1>1. c \in Contexts
  BY DEF CartInv, TypeOK
<1>2. Create(c, o) /\ Refer(c, o) /\ Received(r) /\ Respond(r)
      /\ orders' = [WithNew(c, o) EXCEPT ![o] = [old EXCEPT !.state = next]]
  BY DEF TransitionOrderToState
<1>3. /\ o \in OrderIds
      /\ Reachable(c, o)
      /\ created' = IF o =< created THEN created ELSE o
      /\ \E row : RowOf(c, o, row) /\ WithNew(c, o) = [orders EXCEPT ![o] = row]
  BY <1>1, <1>2, ActiveOrderReachable
<1>4. PICK row : RowOf(c, o, row) /\ WithNew(c, o) = [orders EXCEPT ![o] = row]
  BY <1>3
<1>5. old = row
  BY <1>3, <1>4 DEF CartInv, TypeOK
<1>6. next \in RowStates /\ next # "none"
      /\ (next \in {"ArrangingPayment", "Placed"} => row.customer # "none")
  BY <1>4, <1>5 DEF RowOf, OrderRows, RowStates, ActiveStates, MayEnter, Known
<1> HIDE DEF o, old, next
<1>7. orders' = [orders EXCEPT ![o] = [row EXCEPT !.state = next]]
  BY <1>2, <1>3, <1>4, <1>5 DEF CartInv, TypeOK
<1>8. RowOf(c, o, [row EXCEPT !.state = next])
  BY <1>4, <1>6, StateTyped DEF RowOf, Known
<1>9. Referred(c, o)
  BY <1>1, <1>2, <1>3, ReferReferred DEF OrderIds, CartInv
<1> QED
  BY <1>2, <1>3, <1>7, <1>8, <1>9 DEF ShopStep

LEMMA RemoveIsShopStep ==
  ASSUME CartInv, NEW r \in Requests, NEW v \in Variants, NEW accepted \in BOOLEAN,
         RemoveOrderLine(r, v, accepted)
  PROVE  \E o, row : ShopStep(r, o, row)
<1> DEFINE c == ctx[r]
           o == Determined(c)
           lines == [orders[o].lines EXCEPT ![v] =
                       IF orders[o].state = "AddingItems" /\ accepted THEN 0
                       ELSE orders[o].lines[v]]
           row == [orders[o] EXCEPT !.lines = lines]
<1>1. c \in Contexts
  BY DEF CartInv, TypeOK
<1>2. o # 0 /\ Refer(c, o) /\ Received(r) /\ Respond(r) /\ created' = created
      /\ orders' = [orders EXCEPT ![o] = row]
  BY DEF RemoveOrderLine
<1>3. o \in OrderIds /\ o \in 0 .. MaxOrders /\ RowOf(c, o, orders[o])
      /\ created = IF o =< created THEN created ELSE o
  BY <1>1, <1>2, OwnRow
<1>4. Reachable(c, o)
  BY <1>1, DeterminedReachable
<1> HIDE DEF o
<1>5. orders[o] \in OrderRows
  BY <1>3 DEF RowOf
<1>6. lines \in [Variants -> 0 .. LineLimit]
  BY <1>5, ConstantsAssumption DEF OrderRows
<1> HIDE DEF lines
<1>7. RowOf(c, o, row)
  BY <1>3, <1>5, <1>6, LinesTyped, RowOfSame
<1>8. Referred(c, o)
  BY <1>1, <1>2, <1>3, ReferReferred DEF CartInv
<1> QED
  BY <1>2, <1>3, <1>4, <1>7, <1>8 DEF ShopStep

LEMMA PaymentIsShopStep ==
  ASSUME CartInv, NEW r \in Requests, NEW covers \in BOOLEAN,
         AddPaymentToOrder(r, covers)
  PROVE  \E o, row : ShopStep(r, o, row)
<1> DEFINE c == ctx[r]
           o == Determined(c)
           accepted == o # 0 /\ orders[o].state = "ArrangingPayment"
           next == IF covers THEN "Placed" ELSE orders[o].state
           row == IF accepted THEN [orders[o] EXCEPT !.paid = TRUE, !.state = next]
                  ELSE orders[o]
<1>1. c \in Contexts
  BY DEF CartInv, TypeOK
<1>2. Received(r) /\ Respond(r) /\ created' = created
  BY DEF AddPaymentToOrder
<1>3. /\ o \in 0 .. MaxOrders
      /\ o # 0 => o \in OrderIds /\ RowOf(c, o, orders[o])
      /\ orders = [orders EXCEPT ![o] = orders[o]]
      /\ created = IF o =< created THEN created ELSE o
  BY <1>1, OwnRow
<1>4. Reachable(c, o)
  BY <1>1, DeterminedReachable
<1>5. orders' = IF accepted
                THEN [orders EXCEPT ![o] = [orders[o] EXCEPT !.paid = TRUE, !.state = next]]
                ELSE orders
  <2>1. accepted => o \in OrderIds
    BY <1>3
  <2>2. orders' = IF ~accepted THEN orders
                  ELSE [orders EXCEPT ![o].paid = TRUE,
                                      ![o].state = IF covers THEN "Placed" ELSE @]
    BY DEF AddPaymentToOrder
  <2> HIDE DEF o
  <2>3. ASSUME accepted
        PROVE  [orders EXCEPT ![o].paid = TRUE,
                              ![o].state = IF covers THEN "Placed" ELSE @]
               = [orders EXCEPT ![o] = [orders[o] EXCEPT !.paid = TRUE, !.state = next]]
    BY <2>1, <2>3 DEF CartInv, TypeOK, OrderRows
  <2> QED
    BY <2>2, <2>3
<1>6. Referred(c, o)
  <2>1. CASE Refer(c, o)
    BY <1>1, <1>3, <2>1, ReferReferred DEF CartInv
  <2>2. CASE session' = [session EXCEPT ![c.token].order = 0]
    <3>1. \A s \in Sessions : [session[s] EXCEPT !.order = 0] \in SessionRows
      BY SessionTyped, ConstantsAssumption DEF CartInv, TypeOK
    <3>2. \A s \in Sessions :
            session'[s] = IF s = c.token THEN [session[s] EXCEPT !.order = 0]
                          ELSE session[s]
      BY <2>2 DEF CartInv, TypeOK
    <3>3. session' \in [Sessions -> SessionRows]
      BY <2>2, <3>1 DEF CartInv, TypeOK
    <3> QED
      BY <3>2, <3>3 DEF Referred, CartInv, TypeOK, SessionRows
  <2> QED
    BY <2>1, <2>2 DEF AddPaymentToOrder
<1> HIDE DEF o
<1>7. o # 0 => RowOf(c, o, row)
  <2>1. CASE accepted
    <3>1. next \in {"Placed", "ArrangingPayment"} /\ orders[o].customer # "none"
      BY <1>3, <2>1 DEF RowOf, Known
    <3> HIDE DEF next
    <3> QED
      BY <1>3, <2>1, <3>1, PaidTyped DEF RowOf, Known, RowStates, ActiveStates
  <2>2. CASE ~accepted
    BY <1>3, <2>2
  <2> QED
    BY <2>1, <2>2
<1>8. orders' = [orders EXCEPT ![o] = row]
  BY <1>3, <1>5
<1> HIDE DEF row
<1> QED
  BY <1>2, <1>3, <1>4, <1>6, <1>7, <1>8 DEF ShopStep

LEMMA SetCustomerIsShopStep ==
  ASSUME CartInv, NEW r \in Requests, SetCustomerForOrder(r)
  PROVE  \E o, row : ShopStep(r, o, row)
<1> DEFINE c == ctx[r]
           o == Determined(c)
           refused == o = 0 \/ c.row.kind = "user"
           row == IF refused THEN orders[o]
                  ELSE [orders[o] EXCEPT !.customer = "guest"]
<1>1. c \in Contexts
  BY DEF CartInv, TypeOK
<1>2. Refer(c, o) /\ Received(r) /\ Respond(r) /\ created' = created
      /\ orders' = IF refused THEN orders
                   ELSE [orders EXCEPT ![o] = [orders[o] EXCEPT !.customer = "guest"]]
  BY DEF SetCustomerForOrder
<1>3. /\ o \in 0 .. MaxOrders
      /\ o # 0 => o \in OrderIds /\ RowOf(c, o, orders[o])
      /\ orders = [orders EXCEPT ![o] = orders[o]]
      /\ created = IF o =< created THEN created ELSE o
  BY <1>1, OwnRow
<1>4. Reachable(c, o)
  BY <1>1, DeterminedReachable
<1>5. Referred(c, o)
  BY <1>1, <1>2, <1>3, ReferReferred DEF CartInv
<1> HIDE DEF o
<1>6. o # 0 => RowOf(c, o, row)
  <2>1. CASE refused
    BY <1>3, <2>1
  <2>2. CASE ~refused
    BY <1>3, <2>2, CustomerTyped DEF RowOf, Known
  <2> QED
    BY <2>1, <2>2
<1>7. orders' = [orders EXCEPT ![o] = row]
  BY <1>2, <1>3
<1> HIDE DEF row
<1> QED
  BY <1>2, <1>3, <1>4, <1>5, <1>6, <1>7 DEF ShopStep

LEMMA QueryIsShopStep ==
  ASSUME CartInv, NEW r \in Requests, QueryActiveOrder(r)
  PROVE  \E o, row : ShopStep(r, o, row)
<1> DEFINE c == ctx[r]
           o == Determined(c)
<1>1. c \in Contexts
  BY DEF CartInv, TypeOK
<1>2. Refer(c, o) /\ Received(r) /\ Respond(r) /\ created' = created /\ orders' = orders
  BY DEF QueryActiveOrder
<1>3. /\ o \in 0 .. MaxOrders
      /\ o # 0 => RowOf(c, o, orders[o])
      /\ orders = [orders EXCEPT ![o] = orders[o]]
      /\ created = IF o =< created THEN created ELSE o
  BY <1>1, OwnRow
<1>4. Reachable(c, o)
  BY <1>1, DeterminedReachable
<1>5. Referred(c, o)
  BY <1>1, <1>2, <1>3, ReferReferred DEF CartInv
<1> HIDE DEF o
<1> QED
  BY <1>2, <1>3, <1>4, <1>5 DEF ShopStep

-----------------------------------------------------------------------------
(* Signing in *)

(* What there is to say of the order o that remains, and the order d that is
   to be deleted. *)
Settled(c, o, d) ==
  /\ o \in {0} \cup OrderIds
  /\ d \in {0} \cup OrderIds
  /\ o # 0 => /\ o # d
              /\ Exists(o) /\ orders[o].state # "Placed"
              /\ UsersCart(o) \/ o = c.row.order
  /\ d # 0 => Exists(d) /\ orders[d].state # "Placed"
  /\ \A p \in OrderIds : UsersCart(p) => p \in {o, d}

LEMMA MergeSettles ==
  ASSUME CartInv, NEW c \in Contexts
  PROVE  LET m == Merging(c)
         IN m = [order |-> m.order, delete |-> m.delete] /\ Settled(c, m.order, m.delete)
<1> DEFINE g == GuestsOrder(c)
           e == ActiveOrderForUser
           m == Merge(g, e)
<1>1. c.row.order \in {0} \cup OrderIds
  BY ConstantsAssumption DEF Contexts, SessionRows, OrderIds
<1>2. /\ g \in {0} \cup OrderIds
      /\ g # 0 => g = c.row.order /\ Exists(g)
  BY <1>1 DEF GuestsOrder
<1>3. /\ e \in {0} \cup OrderIds
      /\ e # 0 => UsersCart(e)
      /\ \A p \in OrderIds : UsersCart(p) => p = e
  <2>1. 0 \notin OrderIds
    BY ConstantsAssumption DEF OrderIds
  <2>2. \/ e = 0 /\ \A o \in OrderIds : ~UsersCart(o)
        \/ UsersCart(e)
    BY LatestIsTheCart DEF CartInv
  <2> HIDE DEF e
  <2> QED
    BY <2>1, <2>2 DEF UsersCart, CartInv, OneActiveOrder
<1>4. \/ m = [order |-> e, delete |-> 0]
      \/ g # 0 /\ orders[g].customer = "none" /\ m = [order |-> g, delete |-> e]
      \/ g = 0 /\ m = [order |-> e, delete |-> 0]
      \/ g # 0 /\ orders[g].customer = "none" /\ m = [order |-> e, delete |-> g]
  BY DEF Merge
<1> HIDE DEF g, e, m
<1>5. e # 0 => Exists(e) /\ orders[e].state # "Placed" /\ orders[e].customer = "user"
  BY <1>3 DEF UsersCart, Active, Exists, ActiveStates
<1>6. g # 0 /\ orders[g].customer = "none" => orders[g].state # "Placed"
  BY <1>2 DEF CartInv, CustomersKnown, Known
<1>7. Settled(c, m.order, m.delete)
  BY <1>2, <1>3, <1>4, <1>5, <1>6 DEF Settled
<1>8. m = [order |-> m.order, delete |-> m.delete]
  BY <1>4
<1> QED
  BY <1>7, <1>8 DEF m, g, e, Merging

(* What becomes of the orders ... *)
OrdersSettled(o, d) ==
  /\ orders' \in [OrderIds -> OrderRows]
  /\ \A p \in OrderIds \ {o, d} : orders'[p] = orders[p]
  /\ d # 0 => /\ orders'[d].state \in {"none", "Cancelled"}
              /\ orders[d].paid => orders'[d].state # "none"
  /\ o # 0 => orders'[o].state = orders[o].state /\ orders'[o].customer = "user"

(* ... and of the sessions. *)
SessionsSettled(c, t, o, d) ==
  \A s \in Sessions :
    session'[s] = IF s = t THEN [kind |-> "user", order |-> o]
                  ELSE IF Deleted(c, s) THEN NoSession
                  ELSE IF d # 0 /\ ~orders[d].paid /\ session[s].order = d
                  THEN [session[s] EXCEPT !.order = 0]
                  ELSE session[s]

LEMMA WithoutSettled ==
  ASSUME CartInv, NEW d \in {0} \cup OrderIds
  PROVE  /\ Without(d) \in [OrderIds -> OrderRows]
         /\ \A p \in OrderIds \ {d} : Without(d)[p] = orders[p]
         /\ d # 0 => /\ Without(d)[d].state \in {"none", "Cancelled"}
                     /\ orders[d].paid => Without(d)[d].state # "none"
<1>1. CASE d = 0
  BY <1>1 DEF Without, CartInv, TypeOK
<1>2. CASE d # 0
  <2> DEFINE cancelled == [orders[d] EXCEPT !.state = "Cancelled"]
             row == IF orders[d].paid THEN cancelled ELSE NoOrder
  <2>1. d \in OrderIds /\ orders[d] \in OrderRows
    BY <1>2 DEF CartInv, TypeOK
  <2>2. Without(d) = [orders EXCEPT ![d] = row]
    BY <1>2 DEF Without
  <2>3. cancelled \in OrderRows /\ cancelled.state = "Cancelled"
    BY <2>1, StateTyped DEF RowStates
  <2>4. NoOrder.state = "none"
    BY DEF NoOrder
  <2> HIDE DEF cancelled
  <2>5. /\ row \in OrderRows
        /\ row.state \in {"none", "Cancelled"}
        /\ orders[d].paid => row.state # "none"
    BY <2>3, <2>4, NoOrderTyped
  <2> HIDE DEF row
  <2> QED
    BY <2>1, <2>2, <2>5 DEF CartInv, TypeOK
<1> QED
  BY <1>1, <1>2

LEMMA ReconciledSettled ==
  ASSUME CartInv, NEW c \in Contexts, NEW o, NEW d, Settled(c, o, d), NEW lines,
         o # 0 => lines \in [Variants -> 0 .. LineLimit],
         orders' = Reconciled([order |-> o, delete |-> d], lines)
  PROVE  /\ OrdersSettled(o, d)
         /\ o # 0 => orders'[o].lines = lines
<1> DEFINE kept == Without(d)
<1>1. /\ kept \in [OrderIds -> OrderRows]
      /\ \A p \in OrderIds \ {d} : kept[p] = orders[p]
      /\ d # 0 => /\ kept[d].state \in {"none", "Cancelled"}
                  /\ orders[d].paid => kept[d].state # "none"
  BY WithoutSettled DEF Settled
<1>2. CASE o = 0
  <2>1. orders' = kept
    BY <1>2 DEF Reconciled
  <2> HIDE DEF kept
  <2> QED
    BY <1>1, <1>2, <2>1 DEF OrdersSettled
<1>3. CASE o # 0
  <2>1. o \in OrderIds /\ o # d /\ orders[o] \in OrderRows
    BY <1>3 DEF Settled, CartInv, TypeOK
  <2>2. orders' = [kept EXCEPT ![o].lines = lines, ![o].customer = "user"]
    BY <1>3 DEF Reconciled
  <2>3. lines \in [Variants -> 0 .. LineLimit]
    BY <1>3
  <2> DEFINE merged == [kept[o] EXCEPT !.lines = lines]
             row == [merged EXCEPT !.customer = "user"]
  <2>4. orders' = [kept EXCEPT ![o] = row]
    <3> HIDE DEF kept
    <3> QED
      BY <1>1, <2>1, <2>2 DEF OrderRows
  <2> HIDE DEF kept
  <2>5. merged \in OrderRows /\ merged.state = orders[o].state
        /\ merged.lines = lines
    BY <1>1, <2>1, <2>3, LinesTyped
  <2> HIDE DEF merged
  <2>6. row \in OrderRows /\ row.state = orders[o].state /\ row.customer = "user"
        /\ row.lines = lines
    BY <2>5, CustomerTyped
  <2> HIDE DEF row
  <2>7. orders' \in [OrderIds -> OrderRows]
    BY <1>1, <2>4, <2>6
  <2>8. orders'[o] = row /\ \A p \in OrderIds \ {o} : orders'[p] = kept[p]
    BY <1>1, <2>1, <2>4
  <2>9. d # 0 => d \in OrderIds
    BY DEF Settled
  <2> QED
    BY <1>1, <2>1, <2>3, <2>6, <2>7, <2>8, <2>9 DEF OrdersSettled
<1> QED
  BY <1>2, <1>3

LEMMA AnswerTyped ==
  ASSUME NEW lines, NEW answer \in Answers(lines)
  PROVE  /\ DOMAIN answer.saleable = lines
         /\ \A v \in lines : answer.saleable[v] \in 0 .. LineLimit
         /\ \A v \in lines : answer.queue[v] \in Int
<1>1. answer.saleable \in [lines -> 0 .. LineLimit]
  BY DEF Answers
<1>2. answer.queue \in [lines -> 1 .. Cardinality(lines)]
  BY DEF Answers, Bijection, Injection
<1> QED
  BY <1>1, <1>2

LEMMA AllLinesTyped ==
  ASSUME CartInv, NEW o \in OrderIds
  PROVE  orders[o].lines \in [Variants -> 0 .. LineLimit]
BY DEF CartInv, TypeOK, OrderRows

(* A merged line has what either order had, or less than the guest's. *)
LEMMA MergedTyped ==
  ASSUME CartInv, NEW c \in Contexts, Merging(c).order # 0, NEW refused,
         NEW answer \in Answers(LinesToMerge(GuestsOrder(c), Merging(c)))
  PROVE  MergedLines(GuestsOrder(c), Merging(c).order, answer, refused)
           \in [Variants -> 0 .. LineLimit]
<1> DEFINE g == GuestsOrder(c)
           m == Merging(c)
           L == LinesToMerge(g, m)
<1>1. Settled(c, m.order, m.delete)
  BY MergeSettles
<1>2. orders[m.order].lines \in [Variants -> 0 .. LineLimit]
  BY <1>1, AllLinesTyped DEF Settled
<1>3. L # {} => orders[g].lines \in [Variants -> 0 .. LineLimit]
  BY <1>1, AllLinesTyped DEF Settled, LinesToMerge
<1>4. /\ DOMAIN answer.saleable = L
      /\ \A v \in L : answer.saleable[v] \in 0 .. LineLimit
  BY AnswerTyped
<1> HIDE DEF g, m, L
<1>5. MergedLines(g, m.order, answer, refused) \in [Variants -> 0 .. LineLimit]
  BY <1>2, <1>3, <1>4 DEF MergedLines, AtMost
<1> QED
  BY <1>5 DEF g, m

LEMMA SignInSettles ==
  ASSUME CartInv, NEW r \in Requests, NEW t \in Sessions,
         NEW answer \in Answers(LinesToMerge(GuestsOrder(ctx[r]), Merging(ctx[r]))),
         NEW refused, SignInAnswered(r, t, answer, refused)
  PROVE  LET c == ctx[r]
             o == Merging(c).order
             d == Merging(c).delete
         IN  /\ Settled(c, o, d)
             /\ OrdersSettled(o, d)
             /\ o # 0 =>
                  orders'[o].lines = MergedLines(GuestsOrder(c), o, answer, refused)
             /\ SessionsSettled(c, t, o, d)
             /\ session' \in [Sessions -> SessionRows]
<1> DEFINE c == ctx[r]
           m == Merging(c)
           o == m.order
           d == m.delete
           lines == MergedLines(GuestsOrder(c), o, answer, refused)
<1>1. c \in Contexts
  BY DEF CartInv, TypeOK
<1>2. m = [order |-> o, delete |-> d] /\ Settled(c, o, d)
  BY <1>1, MergeSettles
<1>3. orders' = Reconciled(m, lines) /\ session' = SessionsAfter(c, t, m)
  BY DEF SignInAnswered
<1>a. o # 0 => lines \in [Variants -> 0 .. LineLimit]
  BY <1>1, MergedTyped
<1> HIDE DEF m, lines
<1>4. OrdersSettled(o, d) /\ (o # 0 => orders'[o].lines = lines)
  BY <1>1, <1>2, <1>3, <1>a, ReconciledSettled
<1>5. SessionsSettled(c, t, o, d)
  BY <1>3 DEF SessionsAfter, SessionsSettled
<1>6. session' \in [Sessions -> SessionRows]
  <2>1. [kind |-> "user", order |-> o] \in SessionRows
    BY <1>2, ConstantsAssumption DEF Settled, SessionRows, OrderIds
  <2>2. NoSession \in SessionRows
    BY ConstantsAssumption DEF NoSession, SessionRows
  <2>3. \A s \in Sessions :
          session[s] \in SessionRows /\ [session[s] EXCEPT !.order = 0] \in SessionRows
    BY SessionTyped, ConstantsAssumption DEF CartInv, TypeOK
  <2>4. \A s \in Sessions : session'[s] \in SessionRows
    BY <1>5, <2>1, <2>2, <2>3 DEF SessionsSettled
  <2> QED
    BY <1>3, <2>4 DEF SessionsAfter
<1> QED
  BY <1>2, <1>4, <1>5, <1>6 DEF m, lines

LEMMA SignInInv ==
  ASSUME CartInv, NEW r \in Requests, NEW t \in Sessions, SignIn(r, t)
  PROVE  CartInv' /\ PlacedKept
<1> DEFINE c == ctx[r]
<1>1. PICK o, d : /\ Settled(c, o, d)
                  /\ OrdersSettled(o, d)
                  /\ SessionsSettled(c, t, o, d)
                  /\ session' \in [Sessions -> SessionRows]
  BY SignInSettles DEF SignIn
<1>2. /\ created' = created
      /\ Respond(r)
      /\ Received(r)
      /\ \A q \in Requests \ {r} : ctx[q].token # t
  BY DEF SignIn, SignInAnswered, Forgotten
<1>a. 0 \notin OrderIds
  BY ConstantsAssumption DEF OrderIds
<1>b. \A s \in Sessions : session[s] \in SessionRows
  BY DEF CartInv, TypeOK
<1>c. session'[t] = [kind |-> "user", order |-> o]
  BY <1>1 DEF SessionsSettled
<1>d. \A s \in Sessions \ {t} :
        \/ session'[s] = NoSession
        \/ /\ ~Deleted(c, s)
           /\ session'[s].kind = session[s].kind
           /\ \/ session'[s].order = 0
              \/ /\ session'[s].order = session[s].order
                 /\ session[s].order = d => d = 0 \/ orders[d].paid
  BY <1>1, <1>b DEF SessionsSettled, SessionRows
<1>3. TypeOK'
  <2>1. Idle \in Contexts
    BY ConstantsAssumption DEF Idle, Contexts, NoSession, SessionRows
  <2> QED
    BY <1>1, <1>2, <2>1 DEF OrdersSettled, Respond, CartInv, TypeOK
<1>4. OneActiveOrder'
  <2> SUFFICES ASSUME NEW p \in OrderIds, NEW q \in OrderIds,
                      Active(p)', Active(q)',
                      orders'[p].customer = "user", orders'[q].customer = "user"
               PROVE  p = q
    BY DEF OneActiveOrder
  <2>1. \A x \in OrderIds : Active(x)' /\ orders'[x].customer = "user" => x = o
    BY <1>1, <1>a DEF Settled, OrdersSettled, Active, ActiveStates, UsersCart
  <2> QED
    BY <2>1
<1>5. GuestsHaveTheirOwn'
  <2> SUFFICES ASSUME NEW s \in Sessions,
                      session'[s].kind = "anonymous",
                      session'[s].order # 0,
                      Active(session[s].order)',
                      orders'[session'[s].order].customer = "user"
               PROVE  FALSE
    BY DEF GuestsHaveTheirOwn, Active
  <2> DEFINE p == session[s].order
  <2>1. s # t
    BY <1>c
  <2>2. /\ session'[s].order = p
        /\ p # 0
        /\ session[s].kind = "anonymous"
        /\ ~Deleted(c, s)
    BY <1>d, <2>1 DEF NoSession
  <2>3. p \in OrderIds
    BY <1>b, <2>2 DEF SessionRows, OrderIds
  <2>4. orders'[p].state \in ActiveStates /\ orders'[p].customer = "user"
    BY <2>2 DEF Active
  <2>5. p # c.row.order
    BY <2>2 DEF Deleted
  <2>6. ~UsersCart(p)
    BY <2>2, <2>3 DEF CartInv, GuestsHaveTheirOwn, UsersCart
  <2> HIDE DEF p
  <2>7. p # d
    BY <1>1, <2>3, <2>4, <1>a DEF OrdersSettled, ActiveStates
  <2>8. p # o
    BY <1>1, <1>a, <2>3, <2>5, <2>6 DEF Settled
  <2>9. orders'[p] = orders[p]
    BY <1>1, <2>3, <2>7, <2>8 DEF OrdersSettled
  <2> QED
    BY <1>a, <2>3, <2>4, <2>6, <2>9 DEF UsersCart, Active
<1>6. NoDanglingSession'
  <2> SUFFICES ASSUME NEW s \in Sessions, session'[s].order # 0
               PROVE  Exists(session[s].order)'
    BY DEF NoDanglingSession
  <2>1. o # 0 => orders'[o].state # "none"
    BY <1>1 DEF Settled, OrdersSettled, Exists
  <2>2. CASE s = t
    BY <1>c, <2>1, <2>2 DEF Exists
  <2>3. CASE s # t
    <3> DEFINE p == session[s].order
    <3>1. session'[s].order = p /\ (p = d => d = 0 \/ orders[d].paid)
      BY <1>d, <2>3 DEF NoSession
    <3>2. p # 0 /\ orders[p].state # "none"
      BY <3>1 DEF CartInv, NoDanglingSession, Exists
    <3>3. p \in OrderIds
      BY <1>b, <3>2 DEF SessionRows, OrderIds
    <3> HIDE DEF p
    <3>4. orders'[p].state # "none"
      BY <1>1, <2>1, <3>1, <3>2, <3>3 DEF OrdersSettled
    <3> QED
      BY <3>1, <3>2, <3>4 DEF Exists
  <2> QED
    BY <2>2, <2>3
<1>7. Unborn'
  <2> SUFFICES ASSUME NEW p \in OrderIds, p > created
               PROVE  orders'[p].state = "none"
    BY <1>2 DEF Unborn
  <2>1. orders[p].state = "none"
    BY DEF CartInv, Unborn
  <2>2. p # o /\ p # d
    BY <1>1, <1>a, <2>1 DEF Settled, Exists
  <2> QED
    BY <1>1, <2>1, <2>2 DEF OrdersSettled
<1>8. CustomersKnown'
  <2> SUFFICES ASSUME NEW p \in OrderIds
               PROVE  Known(orders'[p])
    BY DEF CustomersKnown
  <2>1. Known(orders[p])
    BY DEF CartInv, CustomersKnown
  <2> QED
    BY <1>1, <1>a, <2>1 DEF OrdersSettled, Known
<1>9. KindsAgree'
  <2> SUFFICES ASSUME NEW q \in Requests, ctx'[q] # Idle
               PROVE  /\ ctx'[q].token \in Sessions
                      /\ ctx'[q].row.kind # "none"
                      /\ session'[ctx'[q].token].kind \in {"none", ctx'[q].row.kind}
    BY DEF KindsAgree
  <2>1. q # r /\ ctx'[q] = ctx[q]
    BY <1>2 DEF Respond, CartInv, TypeOK
  <2>2. ctx[q].token \in Sessions \ {t} /\ ctx[q].row.kind # "none"
        /\ session[ctx[q].token].kind \in {"none", ctx[q].row.kind}
    BY <1>2, <2>1 DEF CartInv, KindsAgree
  <2> QED
    BY <1>d, <2>1, <2>2 DEF NoSession
<1>10. NothingLeft'
  BY <1>c, <1>d DEF NoSession, CartInv, NothingLeft
<1>11. PlacedKept
  BY <1>1, <1>a DEF Settled, OrdersSettled, PlacedKept
<1> QED
  BY <1>3, <1>4, <1>5, <1>6, <1>7, <1>8, <1>9, <1>10, <1>11
     DEF CartInv

-----------------------------------------------------------------------------
(* What does not concern orders: sessions come and go. *)

LEMMA SessionStepInv ==
  ASSUME CartInv,
         orders' = orders, created' = created,
         session' \in [Sessions -> SessionRows],
         ctx' \in [Requests -> Contexts],
         \A s \in Sessions : session'[s].order \in {0, session[s].order},
         \A s \in Sessions : session'[s].kind # session[s].kind =>
                               session'[s].order = 0,
         \A q \in Requests : ctx'[q] # Idle =>
           /\ ctx'[q].token \in Sessions
           /\ ctx'[q].row.kind # "none"
           /\ session'[ctx'[q].token].kind \in {"none", ctx'[q].row.kind}
  PROVE  CartInv' /\ PlacedKept
<1>1. TypeOK'
  BY DEF CartInv, TypeOK
<1>2. OneActiveOrder'
  BY DEF CartInv, OneActiveOrder, Active
<1>3. GuestsHaveTheirOwn'
  BY DEF CartInv, GuestsHaveTheirOwn, Active
<1>4. NoDanglingSession'
  BY DEF CartInv, NoDanglingSession, Exists
<1>5. Unborn' /\ CustomersKnown' /\ PlacedKept
  BY DEF CartInv, Unborn, CustomersKnown, Known, PlacedKept
<1>6. KindsAgree'
  BY DEF KindsAgree
<1>7. NothingLeft'
  BY DEF CartInv, NothingLeft
<1> QED
  BY <1>1, <1>2, <1>3, <1>4, <1>5, <1>6, <1>7 DEF CartInv

LEMMA Typed ==
  ASSUME TypeOK
  PROVE  /\ NoSession \in SessionRows /\ Idle \in Contexts
         /\ \A s \in Sessions : session[s] \in SessionRows
         /\ \A r \in Requests : ctx[r] \in Contexts
BY ConstantsAssumption DEF TypeOK, NoSession, SessionRows, Idle, Contexts

LEMMA CreateSessionInv ==
  ASSUME CartInv, NEW s \in Sessions, CreateAnonymousSession(s)
  PROVE  CartInv' /\ PlacedKept
<1> DEFINE row == [session[s] EXCEPT !.kind = "anonymous"]
<1>1. /\ session[s].kind = "none"
      /\ \A r \in Requests : ctx[r].token # s
      /\ session' = [session EXCEPT ![s] = row]
      /\ orders' = orders /\ created' = created /\ ctx' = ctx
  BY DEF CreateAnonymousSession, Forgotten
<1>2. row \in SessionRows /\ row.order = 0
  BY <1>1, Typed DEF CartInv, SessionRows, NothingLeft
<1> HIDE DEF row
<1>3. /\ session' \in [Sessions -> SessionRows]
      /\ session'[s] = row
      /\ \A x \in Sessions \ {s} : session'[x] = session[x]
  BY <1>1, <1>2 DEF CartInv, TypeOK
<1>4. \A q \in Requests : ctx'[q] # Idle =>
        /\ ctx'[q].token \in Sessions
        /\ ctx'[q].row.kind # "none"
        /\ session'[ctx'[q].token].kind \in {"none", ctx'[q].row.kind}
  BY <1>1, <1>3 DEF CartInv, KindsAgree
<1>5. ctx' \in [Requests -> Contexts]
  BY <1>1 DEF CartInv, TypeOK
<1> QED
  BY <1>1, <1>2, <1>3, <1>4, <1>5, SessionStepInv

LEMMA ReceiveInv ==
  ASSUME CartInv, NEW r \in Requests, NEW s \in Sessions, Receive(r, s)
  PROVE  CartInv' /\ PlacedKept
<1> DEFINE c == [token |-> s, row |-> session[s]]
<1>1. /\ session[s].kind # "none"
      /\ ctx' = [ctx EXCEPT ![r] = c]
      /\ orders' = orders /\ created' = created /\ session' = session
  BY DEF Receive
<1>2. c \in Contexts
  BY Typed DEF CartInv, Contexts
<1>3. ctx' \in [Requests -> Contexts]
  BY <1>1, <1>2 DEF CartInv, TypeOK
<1>4. \A q \in Requests : ctx'[q] = IF q = r THEN c ELSE ctx[q]
  BY <1>1 DEF CartInv, TypeOK
<1>5. \A q \in Requests : ctx'[q] # Idle =>
        /\ ctx'[q].token \in Sessions
        /\ ctx'[q].row.kind # "none"
        /\ session'[ctx'[q].token].kind \in {"none", ctx'[q].row.kind}
  BY <1>1, <1>4 DEF CartInv, KindsAgree
<1>6. session' \in [Sessions -> SessionRows]
  BY <1>1 DEF CartInv, TypeOK
<1> QED
  BY <1>1, <1>3, <1>5, <1>6, SessionStepInv

(* Sessions that go, and the requests that do not. *)
LEMMA GoneInv ==
  ASSUME CartInv,
         orders' = orders, created' = created,
         session' \in [Sessions -> SessionRows],
         \A s \in Sessions : session'[s] \in {NoSession, session[s]},
         ctx' = ctx \/ \E r \in Requests : Respond(r)
  PROVE  CartInv' /\ PlacedKept
<1>1. \A q \in Requests : ctx'[q] \in {Idle, ctx[q]}
  BY DEF Respond, CartInv, TypeOK
<1>2. ctx' \in [Requests -> Contexts]
  BY Typed DEF Respond, CartInv, TypeOK
<1>3. \A s \in Sessions : /\ session'[s].kind \in {"none", session[s].kind}
                          /\ session'[s].order \in {0, session[s].order}
                          /\ session'[s].kind # session[s].kind => session'[s].order = 0
  BY DEF NoSession
<1>4. \A q \in Requests : ctx'[q] # Idle =>
        /\ ctx'[q].token \in Sessions
        /\ ctx'[q].row.kind # "none"
        /\ session'[ctx'[q].token].kind \in {"none", ctx'[q].row.kind}
  BY <1>1, <1>3 DEF CartInv, KindsAgree
<1> QED
  BY <1>2, <1>3, <1>4, SessionStepInv

LEMMA FailInv ==
  ASSUME CartInv, NEW r \in Requests, Fail(r)
  PROVE  CartInv' /\ PlacedKept
BY GoneInv DEF Fail, CartInv, TypeOK

LEMMA SignOutInv ==
  ASSUME CartInv, NEW r \in Requests, SignOut(r)
  PROVE  CartInv' /\ PlacedKept
<1>1. session' \in [Sessions -> SessionRows]
  BY Typed DEF SignOut, CartInv
<1> QED
  BY <1>1, GoneInv DEF SignOut

LEMMA ExpireInv ==
  ASSUME CartInv, NEW s \in Sessions, Expire(s)
  PROVE  CartInv' /\ PlacedKept
<1>1. session' \in [Sessions -> SessionRows]
  BY Typed DEF Expire, CartInv, TypeOK
<1> QED
  BY <1>1, GoneInv DEF Expire, CartInv, TypeOK

-----------------------------------------------------------------------------
LEMMA InitCartInv == Init => CartInv
<1> SUFFICES ASSUME Init PROVE CartInv
  OBVIOUS
<1>1. NoSession \in SessionRows /\ Idle \in Contexts
  BY ConstantsAssumption DEF NoSession, SessionRows, Idle, Contexts
<1>2. TypeOK
  BY <1>1, NoOrderTyped, ConstantsAssumption DEF Init, TypeOK
<1>3. \A o \in OrderIds : orders[o].state = "none" /\ ~Active(o)
  BY DEF Init, NoOrder, Active, ActiveStates
<1>4. OneActiveOrder /\ Unborn /\ CustomersKnown
  BY <1>3 DEF OneActiveOrder, Unborn, CustomersKnown, Known
<1>5. NoDanglingSession /\ GuestsHaveTheirOwn /\ NothingLeft
  BY DEF Init, NoSession, NoDanglingSession, GuestsHaveTheirOwn, NothingLeft
<1>6. KindsAgree
  BY DEF Init, KindsAgree
<1> QED
  BY <1>2, <1>4, <1>5, <1>6 DEF CartInv

LEMMA NextCartInv == CartInv /\ [Next]_vars => CartInv' /\ PlacedKept
<1> SUFFICES ASSUME CartInv, [Next]_vars
             PROVE  CartInv' /\ PlacedKept
  OBVIOUS
<1>1. ASSUME NEW r \in Requests, NEW s \in Sessions, Receive(r, s)
      PROVE  CartInv' /\ PlacedKept
  BY <1>1, ReceiveInv
<1>2. ASSUME NEW r \in Requests, NEW s \in Sessions, SignIn(r, s)
      PROVE  CartInv' /\ PlacedKept
  BY <1>2, SignInInv
<1>3. ASSUME NEW r \in Requests, NEW v \in Variants, NEW accepted \in BOOLEAN,
             AddItemToOrder(r, v, accepted) \/ RemoveOrderLine(r, v, accepted)
      PROVE  CartInv' /\ PlacedKept
  BY <1>3, AddIsShopStep, RemoveIsShopStep, ShopStepInv
<1>4. ASSUME NEW r \in Requests, NEW state \in ActiveStates \cup {"Cancelled"},
             TransitionOrderToState(r, state)
      PROVE  CartInv' /\ PlacedKept
  BY <1>4, TransitionIsShopStep, ShopStepInv
<1>5. ASSUME NEW r \in Requests, NEW covers \in BOOLEAN, AddPaymentToOrder(r, covers)
      PROVE  CartInv' /\ PlacedKept
  BY <1>5, PaymentIsShopStep, ShopStepInv
<1>6. ASSUME NEW r \in Requests, SetCustomerForOrder(r) \/ QueryActiveOrder(r)
      PROVE  CartInv' /\ PlacedKept
  BY <1>6, SetCustomerIsShopStep, QueryIsShopStep, ShopStepInv
<1>7. ASSUME NEW r \in Requests, SignOut(r) \/ Fail(r)
      PROVE  CartInv' /\ PlacedKept
  BY <1>7, SignOutInv, FailInv
<1>8. ASSUME NEW s \in Sessions, CreateAnonymousSession(s) \/ Expire(s)
      PROVE  CartInv' /\ PlacedKept
  BY <1>8, CreateSessionInv, ExpireInv
<1>9. CASE UNCHANGED vars
  BY <1>9, GoneInv DEF vars, CartInv, TypeOK
<1> QED
  BY <1>1, <1>2, <1>3, <1>4, <1>5, <1>6, <1>7, <1>8, <1>9 DEF Next, RequestStep

LEMMA CartInvariant == Spec => []CartInv
BY InitCartInv, NextCartInv, PTL DEF Spec

(* Orders, sessions and requests are always what TypeOK says of them: no line
   passes the limit, no session is without its kind. *)
THEOREM CartsTyped == Spec => []TypeOK
<1>1. CartInv => TypeOK
  BY DEF CartInv
<1> QED
  BY <1>1, CartInvariant, PTL

(* Signing in, creating orders and moving them on never leaves a customer with
   two active orders: mergeOrders deletes or cancels the one that
   getActiveOrderForUser would no longer find. *)
THEOREM OneCart == Spec => []OneActiveOrder
<1>1. CartInv => OneActiveOrder
  BY DEF CartInv
<1> QED
  BY <1>1, CartInvariant, PTL

(* deleteSessionsByActiveOrderId leaves no anonymous session with the cart of
   the customer that it became. *)
THEOREM GuestsApart == Spec => []GuestsHaveTheirOwn
<1>1. CartInv => GuestsHaveTheirOwn
  BY DEF CartInv
<1> QED
  BY <1>1, CartInvariant, PTL

(* deleteOrder clears the order of the sessions that refer to it, and no request
   with an older session brings it back. *)
THEOREM NoneDangles == Spec => []NoDanglingSession
<1>1. CartInv => NoDanglingSession
  BY DEF CartInv
<1> QED
  BY <1>1, CartInvariant, PTL

(* Nothing a shop client does changes an order that was placed, although its
   session may still refer to it. *)
THEOREM PlacedForGood == Spec => PlacedIsKept
<1>1. CartInv /\ [Next]_vars => [PlacedKept]_vars
  BY NextCartInv
<1>2. Spec => [][PlacedKept]_vars
  BY <1>1, CartInvariant, PTL DEF Spec
<1> QED
  BY <1>2 DEF PlacedIsKept, PlacedKept

-----------------------------------------------------------------------------
(* What a guest, and the customer, had in the cart *)

LEMMA TotalTyped ==
  ASSUME NEW lines \in [Variants -> Nat]
  PROVE  Total(lines) \in Nat
BY SumNatural, ConstantsAssumption DEF Total

(* If both orders fit into one, orderItemsLimit refuses no line, whichever come
   before it: in place of them there is no more than both have. *)
LEMMA FitsTogether ==
  ASSUME NEW brought \in [Variants -> Nat], NEW had \in [Variants -> Nat],
         NEW merged \in [Variants -> Nat],
         \A u \in Variants : merged[u] =< brought[u] + had[u],
         Total(brought) + Total(had) =< ItemsLimit,
         NEW queue, NEW v \in Variants, queue[v] \in Int
  PROVE  ~OverItemsLimit(brought, had, queue, merged, v)
<1> DEFINE now == [u \in Variants |->
                     IF u \in DOMAIN queue /\ Precedes(had, queue, u, v)
                     THEN merged[u] ELSE had[u]]
           then == [now EXCEPT ![v] = brought[v]]
           both == [u \in Variants |-> brought[u] + had[u]]
<1>1. now \in [Variants -> Nat] /\ \A u \in Variants : now[u] =< both[u]
  OBVIOUS
<1>2. now[v] = had[v]
  BY DEF Precedes
<1>3. both \in [Variants -> Nat]
  OBVIOUS
<1> HIDE DEF now
<1>4. then \in [Variants -> Nat] /\ then[v] = brought[v]
      /\ \A u \in Variants \ {v} : then[u] = now[u]
  BY <1>1
<1>5. \A u \in Variants : then[u] =< both[u]
  BY <1>1, <1>4
<1>6. \A u \in Variants : both[u] = brought[u] + had[u]
  OBVIOUS
<1> HIDE DEF then, both
<1>7. SumOf(then, Variants) = SumOf(now, Variants) - now[v] + then[v]
  <2>1. IntegersOn(now, Variants) /\ then[v] \in Int
    BY <1>1, <1>4 DEF IntegersOn
  <2> QED
    BY <1>4, <2>1, SumUpdate, ConstantsAssumption
<1>8. SumOf(both, Variants) = SumOf(brought, Variants) + SumOf(had, Variants)
  <2>1. IntegersOn(brought, Variants) /\ IntegersOn(had, Variants)
    BY DEF IntegersOn
  <2> QED
    BY <1>6, <2>1, SumAdd, ConstantsAssumption
<1>9. SumOf(then, Variants) =< SumOf(both, Variants)
  <2>1. IntegersOn(then, Variants) /\ IntegersOn(both, Variants)
    BY <1>3, <1>4 DEF IntegersOn
  <2> QED
    BY <1>5, <2>1, SumMonotone, ConstantsAssumption
<1>10. Total(now) \in Nat /\ Total(brought) \in Nat /\ Total(had) \in Nat
       /\ SumOf(then, Variants) \in Nat /\ ItemsLimit \in Nat
  BY <1>1, <1>4, TotalTyped, ConstantsAssumption DEF Total
<1>11. Total(now) + brought[v] - had[v] =< ItemsLimit
  BY <1>2, <1>4, <1>7, <1>8, <1>9, <1>10 DEF Total
<1> QED
  BY <1>10, <1>11 DEF OverItemsLimit, now

(* An item of either order is found in the one that remains. *)
LEMMA MergeKeeps ==
  ASSUME CartInv, NEW c \in Contexts, NEW refused,
         NEW answer \in Answers(LinesToMerge(GuestsOrder(c), Merging(c))),
         refused = Refused(GuestsOrder(c), Merging(c).order, answer,
                           MergedLines(GuestsOrder(c), Merging(c).order, answer, refused)),
         ActiveOrderForUser # 0 => orders[ActiveOrderForUser].state = "AddingItems",
         NEW x \in {GuestsOrder(c), ActiveOrderForUser}, x # 0,
         NEW v \in Variants, orders[x].lines[v] > 0, v \notin SoldOut(answer),
         \/ x = ActiveOrderForUser
         \/ GuestsOrderFits(x, ActiveOrderForUser) /\ v \notin answer.vetoed
  PROVE  /\ Merging(c).order # 0
         /\ MergedLines(GuestsOrder(c), Merging(c).order, answer, refused)[v] > 0
<1> DEFINE g == GuestsOrder(c)
           e == ActiveOrderForUser
           m == Merging(c)
           L == LinesToMerge(g, m)
           merged == MergedLines(g, m.order, answer, refused)
<1>1. e # 0 => /\ e \in OrderIds
               /\ orders[e].customer = "user" /\ orders[e].state = "AddingItems"
  BY LatestIsTheCart DEF CartInv, UsersCart
<1>2. DOMAIN answer.saleable = L
      /\ \A u \in L : answer.saleable[u] \in 0 .. LineLimit /\ answer.queue[u] \in Int
  BY AnswerTyped
<1>3. x = g => orders[g].customer = "none" \/ x = e
  BY DEF GuestsOrderFits
<1>4. m = Merge(g, e) /\ x \in {g, e}
  BY DEF Merging
<1>5. m.order # 0 => merged \in [Variants -> 0 .. LineLimit]
  BY MergedTyped
<1>6. \A u \in Variants : merged[u] = IF u \in L \ refused
                                     THEN AtMost(orders[g].lines[u], answer.saleable[u])
                                     ELSE orders[m.order].lines[u]
  BY <1>2 DEF MergedLines
<1>7. refused = Refused(g, m.order, answer, merged)
  OBVIOUS
<1>8. g # 0 => g \in OrderIds
  BY ConstantsAssumption DEF GuestsOrder, Contexts, SessionRows, OrderIds
<1>9. L = IF g = 0 \/ m.order = 0 \/ m.delete # g THEN {}
          ELSE {u \in Variants : orders[g].lines[u] \notin {0, orders[m.order].lines[u]}}
  BY DEF LinesToMerge
<1> HIDE DEF g, e, m, L, merged
<1>10. CASE g # 0 /\ orders[g].customer # "none"
  <2>1. m = [order |-> e, delete |-> 0]
    BY <1>4, <1>10 DEF Merge
  <2>2. L = {} /\ x = e
    BY <1>3, <1>4, <1>9, <1>10, <2>1
  <2> QED
    BY <1>6, <2>1, <2>2 DEF m, g, merged
<1>11. CASE ~(g # 0 /\ orders[g].customer # "none") /\ g # 0 /\ ~Empty(g) /\ (e = 0 \/ Empty(e))
  <2>1. m = [order |-> g, delete |-> e]
    BY <1>4, <1>11 DEF Merge
  <2>2. x = g /\ e # g
    BY <1>1, <1>4, <1>11 DEF Empty
  <2>3. L = {}
    BY <1>9, <2>1, <2>2
  <2> QED
    BY <1>6, <1>11, <2>1, <2>2, <2>3 DEF m, g, merged
<1>12. CASE ~(g # 0 /\ orders[g].customer # "none")
            /\ ~(g # 0 /\ ~Empty(g) /\ (e = 0 \/ Empty(e)))
  <2>1. m = [order |-> e, delete |-> g]
    BY <1>4, <1>12 DEF Merge
  <2>2. e # 0
    BY <1>4, <1>12 DEF Empty
  <2>3. orders[e].lines \in [Variants -> 0 .. LineLimit]
    BY <1>1, <2>2, AllLinesTyped
  <2>4. g # 0 => orders[g].lines \in [Variants -> 0 .. LineLimit]
    BY <1>8, AllLinesTyped
  <2>5. v \in L => answer.saleable[v] > 0 /\ orders[g].lines[v] > 0
    <3> SUFFICES ASSUME v \in L
                 PROVE  answer.saleable[v] > 0 /\ orders[g].lines[v] > 0
      OBVIOUS
    <3>1. answer.saleable[v] \in 0 .. LineLimit /\ answer.saleable[v] # 0
      BY <1>2 DEF SoldOut
    <3>2. orders[g].lines[v] \in 0 .. LineLimit /\ orders[g].lines[v] # 0
      BY <1>9, <2>4
    <3> QED
      BY <3>1, <3>2, ConstantsAssumption
  <2>6. CASE v \in L \ refused
    BY <1>6, <2>1, <2>2, <2>5, <2>6 DEF AtMost, m, g, merged
  <2>7. CASE v \notin L \ refused /\ x = e
    BY <1>6, <2>1, <2>2, <2>7 DEF m, g, merged
  <2>8. CASE v \notin L \ refused /\ x # e
    <3>1. x = g /\ g # 0 /\ GuestsOrderFits(g, e) /\ v \notin answer.vetoed
      BY <1>4, <2>8 DEF e
    <3>2. v \notin L
      <4> SUFFICES ASSUME v \in L PROVE FALSE
        OBVIOUS
      <4>1. Total(orders[g].lines) + Total(orders[e].lines) =< ItemsLimit
        BY <2>2, <3>1 DEF GuestsOrderFits
      <4>2. \A u \in Variants : merged[u] =< orders[g].lines[u] + orders[e].lines[u]
        <5>1. ASSUME NEW u \in Variants
              PROVE  merged[u] =< orders[g].lines[u] + orders[e].lines[u]
          <6>1. orders[g].lines[u] \in Nat /\ orders[e].lines[u] \in Nat
            BY <2>3, <2>4, <3>1, ConstantsAssumption
          <6>2. u \in L => answer.saleable[u] \in Nat
            BY <1>2, ConstantsAssumption
          <6> QED
            BY <1>6, <2>1, <6>1, <6>2 DEF AtMost
        <5> QED
          BY <5>1
      <4>3. /\ orders[g].lines \in [Variants -> Nat]
            /\ orders[e].lines \in [Variants -> Nat]
            /\ merged \in [Variants -> Nat]
        BY <1>5, <2>1, <2>2, <2>3, <2>4, <3>1, ConstantsAssumption
      <4>4. ~OverItemsLimit(orders[g].lines, orders[e].lines, answer.queue, merged, v)
        BY <1>2, <4>1, <4>2, <4>3, FitsTogether
      <4>5. v \notin refused
        BY <1>1, <1>7, <2>1, <2>2, <3>1, <4>4 DEF Refused
      <4> QED
        BY <2>8, <4>5
    <3>3. orders[e].lines[v] = orders[g].lines[v]
      BY <1>9, <2>1, <2>2, <2>4, <3>1, <3>2
    <3> QED
      BY <1>6, <2>1, <2>2, <3>1, <3>2, <3>3 DEF m, g, merged
  <2> QED
    BY <2>6, <2>7, <2>8
<1> QED
  BY <1>10, <1>11, <1>12

KeepsBoth ==
  \A r \in Requests, s \in Sessions :
    LET guests == ctx[r].row.order
        customers == ActiveOrderForUser
        lines == LinesToMerge(GuestsOrder(ctx[r]), Merging(ctx[r]))
    IN SignsIn(r, s) /\ (customers # 0 => orders[customers].state = "AddingItems")
       => \A answer \in Answers(lines), refused \in SUBSET lines :
            SignInAnswered(r, s, answer, refused)
            => /\ FoundIn(s, customers, SoldOut(answer))
               /\ GuestsOrderFits(guests, customers) =>
                    FoundIn(s, guests, SoldOut(answer) \cup answer.vetoed)

LEMMA NextKeepsBoth == CartInv /\ [Next]_vars => [KeepsBoth]_vars
<1> SUFFICES ASSUME CartInv, NEW r \in Requests, NEW s \in Sessions,
                    ActiveOrderForUser # 0 =>
                      orders[ActiveOrderForUser].state = "AddingItems",
                    NEW answer \in Answers(LinesToMerge(GuestsOrder(ctx[r]),
                                                        Merging(ctx[r]))),
                    NEW refused, SignInAnswered(r, s, answer, refused)
             PROVE  /\ FoundIn(s, ActiveOrderForUser, SoldOut(answer))
                    /\ GuestsOrderFits(ctx[r].row.order, ActiveOrderForUser) =>
                         FoundIn(s, ctx[r].row.order, SoldOut(answer) \cup answer.vetoed)
  BY DEF KeepsBoth
<1> DEFINE c == ctx[r]
           g == GuestsOrder(c)
           e == ActiveOrderForUser
           o == Merging(c).order
           merged == MergedLines(g, o, answer, refused)
<1>1. c \in Contexts
  BY DEF CartInv, TypeOK
<1>2. refused = Refused(g, o, answer, merged)
  BY DEF SignInAnswered
<1>3. /\ o # 0 => orders'[o].lines = merged
      /\ session'[s].order = o
  <2>1. o # 0 => orders'[o].lines = merged
    BY SignInSettles
  <2>2. session' = SessionsAfter(c, s, Merging(c))
    BY DEF SignInAnswered
  <2> QED
    BY <2>1, <2>2 DEF SessionsAfter
<1>4. ASSUME NEW x \in {g, e}, x # 0, NEW v \in Variants, orders[x].lines[v] > 0,
             v \notin SoldOut(answer),
             \/ x = e
             \/ GuestsOrderFits(x, e) /\ v \notin answer.vetoed
      PROVE  o # 0 /\ merged[v] > 0
  BY <1>1, <1>2, <1>4, MergeKeeps
<1> HIDE DEF o, merged, g, e
<1>5. FoundIn(s, e, SoldOut(answer))
  <2> SUFFICES ASSUME NEW v \in Variants \ SoldOut(answer),
                      Active(e), orders[e].lines[v] > 0
               PROVE  session'[s].order # 0 /\ orders'[session'[s].order].lines[v] > 0
    BY DEF FoundIn
  <2>1. e # 0
    BY DEF Active
  <2>2. o # 0 /\ merged[v] > 0
    BY <1>4, <2>1
  <2> QED
    BY <1>3, <2>2
<1>6. ASSUME GuestsOrderFits(c.row.order, e)
      PROVE  FoundIn(s, c.row.order, SoldOut(answer) \cup answer.vetoed)
  <2>1. Active(c.row.order) => c.row.order = g /\ g # 0
    BY DEF Active, Exists, ActiveStates, GuestsOrder, g
  <2> SUFFICES ASSUME NEW v \in Variants \ (SoldOut(answer) \cup answer.vetoed),
                      Active(c.row.order), orders[c.row.order].lines[v] > 0
               PROVE  session'[s].order # 0 /\ orders'[session'[s].order].lines[v] > 0
    BY DEF FoundIn
  <2>2. o # 0 /\ merged[v] > 0
    BY <1>4, <1>6, <2>1
  <2> QED
    BY <1>3, <2>2
<1> QED
  BY <1>5, <1>6 DEF e

(* mergeOrders loses nothing that the guest or the customer had in the cart,
   unless the customer's order has left AddingItems, or the shop has a reason to
   refuse the line: there is no stock, an interceptor objects, or both orders are
   too much for one. *)
THEOREM NothingIsLost == Spec => SignInKeepsBoth
<1>1. Spec => [][KeepsBoth]_vars
  BY NextKeepsBoth, CartInvariant, PTL DEF Spec
<1> QED
  BY <1>1 DEF SignInKeepsBoth, KeepsBoth

=============================================================================
