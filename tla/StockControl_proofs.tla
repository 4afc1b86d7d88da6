-------------------------- MODULE StockControl_proofs --------------------------
(***************************************************************************)
(* For every set of lines and every bound: the stock level is what the     *)
(* movement records add up to (LedgerMatchesLevel), the units a placed     *)
(* order has left to fulfill are allocated (UnfulfilledUnitsAllocated), an *)
(* order is shipped or delivered in full only (ShippedInFull), and the     *)
(* cart never outgrows the saleable stock (CartWithinSaleable).            *)
(*                                                                         *)
(* The level moves by the units LOCATED, the records by the units asked    *)
(* for.  The two agree as long as no operation asks a line for more than   *)
(* was ever allocated to it.  What it is asked for beyond that is missing: *)
(* this is what the invariant says besides the properties themselves.      *)
(***************************************************************************)
EXTENDS StockControl, SumTheorems

Moves == [allocated: Nat, sold: Nat, released: Nat, cancelled: Nat]
Stocks == [onHand: Int, allocated: Int, moves: [Lines -> Moves]]
Units == [Lines -> Nat]
FulfillmentRecords ==
  [state: FulfillmentStates \ {"Created"}, units: Units, again: Units]
Fulfillments == Seq(FulfillmentRecords)

(* The properties as predicates of their state, to speak of two states. *)
Ledger(s, adjustments) ==
  /\ s.allocated = SumOver([l \in Lines |-> TotalAllocated(s, l)])
  /\ s.onHand = InitialStock + adjustments
       + SumOver([l \in Lines |-> s.moves[l].cancelled - s.moves[l].sold])

LineBacked(q, fs, s, m, l) ==
  /\ TotalAllocated(s, l) + m[l] >=
       AtLeast(q[l] - Fulfilled(fs, l), -NamedAgain(fs, l))
  /\ q[l] =< s.moves[l].allocated + m[l]

RowsBacked(rows, s, m) == \A l \in Lines : rows[l] =< s.moves[l].allocated + m[l]

FulfillmentsBacked(fs, s, m) ==
  \A f \in DOMAIN fs : RowsBacked(fs[f].units, s, m) /\ RowsBacked(fs[f].again, s, m)

NothingMissing(m) == \A l \in Lines : m[l] = 0

AfterCheckout == PlacedStates \cup {"Cancelled"}

(* The inductive invariant, of an order in state st with quantities q and
   fulfillments fs, and of the stock s, of which m is missing, after adjustments. *)
Sound(st, q, fs, s, m, adjustments) ==
  /\ st \in {"AddingItems", "ArrangingPayment"} \cup AfterCheckout
  /\ q \in Units
  /\ fs \in Fulfillments
  /\ s \in Stocks
  /\ m \in Units
  /\ adjustments \in Int
  /\ st \notin AfterCheckout => fs = <<>> /\ s.moves = [l \in Lines |-> NoMovements]
  /\ st \in AfterCheckout => \A l \in Lines : LineBacked(q, fs, s, m, l)
  /\ FulfillmentsBacked(fs, s, m)
  /\ NothingMissing(m) => Ledger(s, adjustments)

StockInv == Sound(state, quantity, fulfillments, stock, missing, adjusted)

-----------------------------------------------------------------------------
(* The stock operators, one after the other.                               *)

LEMMA MoveUpdates ==
  ASSUME NEW m \in Moves, NEW n \in Nat
  PROVE  /\ [m EXCEPT !.allocated = @ + n] \in Moves
         /\ [m EXCEPT !.sold = @ + n] \in Moves
         /\ [m EXCEPT !.released = @ + n] \in Moves
         /\ [m EXCEPT !.cancelled = @ + n] \in Moves
<1>1. /\ m.allocated + n \in Nat /\ m.sold + n \in Nat
      /\ m.released + n \in Nat /\ m.cancelled + n \in Nat
  BY DEF Moves
<1>2. /\ \A v \in Nat : [m EXCEPT !.allocated = v] \in Moves
      /\ \A v \in Nat : [m EXCEPT !.sold = v] \in Moves
      /\ \A v \in Nat : [m EXCEPT !.released = v] \in Moves
      /\ \A v \in Nat : [m EXCEPT !.cancelled = v] \in Moves
  BY DEF Moves
<1>. QED
  BY <1>1, <1>2

(* The type of a stock survives the update of one field. *)
LEMMA StockUpdates ==
  ASSUME NEW s \in Stocks
  PROVE  /\ \A v \in Int : [s EXCEPT !.onHand = v] \in Stocks
         /\ \A v \in Int : [s EXCEPT !.allocated = v] \in Stocks
         /\ \A v \in [Lines -> Moves] : [s EXCEPT !.moves = v] \in Stocks
BY DEF Stocks

LEMMA UnitsSum ==
  ASSUME NEW u \in [Lines -> Int]
  PROVE  SumOver(u) \in Int
BY ConstantsAssumption, SumType DEF SumOver, IntegersOn

(* No more is asked of a line than was allocated to it. *)
Available(s, units) == \A l \in Lines : units[l] =< s.moves[l].allocated

(* Then what is located, and what is recorded, is what was asked for. *)
LEMMA LocatedInFull ==
  ASSUME NEW s \in Stocks, NEW units \in Units, Available(s, units)
  PROVE  /\ Located(s, units) = units
         /\ Recorded(s, units) = units
<1>1. ASSUME NEW l \in Lines PROVE AtMost(s.moves[l].allocated, units[l]) = units[l]
  <2>1. units[l] \in Nat /\ units[l] =< s.moves[l].allocated /\ s.moves[l].allocated \in Nat
    BY DEF Units, Stocks, Moves, Available
  <2>. QED
    BY <2>1 DEF AtMost
<1>2. Located(s, units) = units
  BY <1>1 DEF Located, Units
<1>3. ASSUME NEW l \in Lines
      PROVE  (IF Located(s, units)[l] > 0 THEN units[l] ELSE 0) = units[l]
  <2>1. units[l] \in Nat
    BY DEF Units
  <2>. QED
    BY <1>2, <2>1
<1>4. Recorded(s, units) = units
  BY <1>3 DEF Recorded, Units
<1>. QED
  BY <1>2, <1>4

(* In any case, no more is located or recorded than was asked for. *)
LEMMA LocatedAtMost ==
  ASSUME NEW s \in Stocks, NEW units \in Units
  PROVE  /\ Located(s, units) \in Units
         /\ Recorded(s, units) \in Units
         /\ \A l \in Lines : Recorded(s, units)[l] =< units[l]
<1>1. ASSUME NEW l \in Lines PROVE AtMost(s.moves[l].allocated, units[l]) \in Nat
  <2>1. units[l] \in Nat /\ s.moves[l].allocated \in Nat
    BY DEF Units, Stocks, Moves
  <2>. QED
    BY <2>1 DEF AtMost
<1>2. Located(s, units) \in Units
  BY <1>1 DEF Located, Units
<1>3. \A l \in Lines : units[l] \in Nat
  BY DEF Units
<1>4. \A l \in Lines : Recorded(s, units)[l] \in {units[l], 0}
  BY DEF Recorded
<1>5. Recorded(s, units) \in Units
  <2>1. \A l \in Lines : (IF Located(s, units)[l] > 0 THEN units[l] ELSE 0) \in Nat
    BY <1>3
  <2>. QED
    BY <2>1 DEF Recorded, Units
<1>. QED
  BY <1>2, <1>3, <1>4, <1>5

(* t is s with more records: a units allocated, b sold, c released and d
   cancelled. *)
Moved(s, t, a, b, c, d) ==
  /\ t \in Stocks
  /\ \A l \in Lines :
       /\ t.moves[l].allocated = s.moves[l].allocated + a[l]
       /\ t.moves[l].sold = s.moves[l].sold + b[l]
       /\ t.moves[l].released = s.moves[l].released + c[l]
       /\ t.moves[l].cancelled = s.moves[l].cancelled + d[l]

(* And the level goes with them. *)
Levelled(s, t, a, b, c, d) ==
  /\ t.onHand = s.onHand + SumOver(d) - SumOver(b)
  /\ t.allocated = s.allocated + SumOver(a) - SumOver(b) - SumOver(c)

None == [l \in Lines |-> 0]

LEMMA NoneSum == None \in Units /\ SumOver(None) = 0
<1>1. None \in Units /\ \A l \in Lines : None[l] = 0
  BY DEF None, Units
<1>. QED
  BY <1>1, ConstantsAssumption, SumZero DEF SumOver

LEMMA AllocateMoves ==
  ASSUME NEW s \in Stocks, NEW units \in Units
  PROVE  /\ Moved(s, Allocate(s, units), units, None, None, None)
         /\ Levelled(s, Allocate(s, units), units, None, None, None)
<1> DEFINE level == s.allocated + SumOver(units)
           moves == [l \in Lines |-> [s.moves[l] EXCEPT !.allocated = @ + units[l]]]
           s1 == [s EXCEPT !.allocated = level]
           s2 == [s1 EXCEPT !.moves = moves]
<1>1. s.allocated \in Int /\ s.onHand \in Int /\ SumOver(units) \in Int
  BY UnitsSum DEF Stocks, Units
<1>2. \A l \in Lines : s.moves[l] \in Moves /\ units[l] \in Nat
  BY DEF Stocks, Units
<1>3. moves \in [Lines -> Moves]
  BY <1>2, MoveUpdates
<1>4. Allocate(s, units) = s2
  BY DEF Allocate
<1>5. s2.onHand = s.onHand /\ s2.allocated = level /\ s2.moves = moves
  BY DEF Stocks
<1>6. s2 \in Stocks
  <2>1. level \in Int
    BY <1>1
  <2> HIDE DEF level, moves
  <2>2. s1 \in Stocks
    BY <2>1, StockUpdates
  <2>. QED
    BY <2>2, <1>3, StockUpdates
<1>7. ASSUME NEW l \in Lines
      PROVE  /\ moves[l].allocated = s.moves[l].allocated + units[l]
             /\ moves[l].sold = s.moves[l].sold + None[l]
             /\ moves[l].released = s.moves[l].released + None[l]
             /\ moves[l].cancelled = s.moves[l].cancelled + None[l]
  BY <1>2 DEF Moves, None
<1> HIDE DEF moves, s2
<1>. QED
  BY <1>1, <1>4, <1>5, <1>6, <1>7, NoneSum DEF Moved, Levelled

LEMMA SellMoves ==
  ASSUME NEW s \in Stocks, NEW units \in Units
  PROVE  /\ Moved(s, Sell(s, units), None, Recorded(s, units), None, None)
         /\ Available(s, units) =>
              Levelled(s, Sell(s, units), None, Recorded(s, units), None, None)
<1> DEFINE located == Located(s, units)
           recorded == Recorded(s, units)
           level == s.allocated - SumOver(located)
           onHand == s.onHand - SumOver(located)
           moves == [l \in Lines |-> [s.moves[l] EXCEPT !.sold = @ + recorded[l]]]
           s1 == [s EXCEPT !.allocated = level]
           s2 == [s1 EXCEPT !.onHand = onHand]
           s3 == [s2 EXCEPT !.moves = moves]
<1>0. located \in Units /\ recorded \in Units
  BY LocatedAtMost
<1>1. s.allocated \in Int /\ s.onHand \in Int /\ SumOver(located) \in Int
  BY <1>0, UnitsSum DEF Stocks, Units
<1>2. \A l \in Lines : s.moves[l] \in Moves /\ recorded[l] \in Nat
  BY <1>0 DEF Stocks, Units
<1>3. moves \in [Lines -> Moves]
  BY <1>2, MoveUpdates
<1>4. Sell(s, units) = s3
  BY DEF Sell
<1>5. s3.onHand = onHand /\ s3.allocated = level /\ s3.moves = moves
  BY DEF Stocks
<1>6. s3 \in Stocks
  <2>1. level \in Int /\ onHand \in Int
    BY <1>1
  <2> HIDE DEF level, onHand, moves
  <2>2. s1 \in Stocks
    BY <2>1, StockUpdates
  <2>3. s2 \in Stocks
    BY <2>1, <2>2, StockUpdates
  <2>. QED
    BY <2>3, <1>3, StockUpdates
<1>7. ASSUME NEW l \in Lines
      PROVE  /\ moves[l].allocated = s.moves[l].allocated + None[l]
             /\ moves[l].sold = s.moves[l].sold + recorded[l]
             /\ moves[l].released = s.moves[l].released + None[l]
             /\ moves[l].cancelled = s.moves[l].cancelled + None[l]
  BY <1>2 DEF Moves, None
<1>8. Available(s, units) => located = recorded
  BY LocatedInFull
<1> HIDE DEF located, recorded, moves, s3
<1>9. Moved(s, Sell(s, units), None, recorded, None, None)
  BY <1>4, <1>5, <1>6, <1>7 DEF Moved
<1>10. Available(s, units) => Levelled(s, Sell(s, units), None, recorded, None, None)
  BY <1>1, <1>4, <1>5, <1>8, NoneSum DEF Levelled
<1>. QED
  BY <1>9, <1>10 DEF recorded

LEMMA ReturnMoves ==
  ASSUME NEW s \in Stocks, NEW units \in Units
  PROVE  /\ Moved(s, Return(s, units), None, None, None, Recorded(s, units))
         /\ Available(s, units) =>
              Levelled(s, Return(s, units), None, None, None, Recorded(s, units))
<1> DEFINE located == Located(s, units)
           recorded == Recorded(s, units)
           onHand == s.onHand + SumOver(located)
           moves == [l \in Lines |-> [s.moves[l] EXCEPT !.cancelled = @ + recorded[l]]]
           s1 == [s EXCEPT !.onHand = onHand]
           s2 == [s1 EXCEPT !.moves = moves]
<1>0. located \in Units /\ recorded \in Units
  BY LocatedAtMost
<1>1. s.allocated \in Int /\ s.onHand \in Int /\ SumOver(located) \in Int
  BY <1>0, UnitsSum DEF Stocks, Units
<1>2. \A l \in Lines : s.moves[l] \in Moves /\ recorded[l] \in Nat
  BY <1>0 DEF Stocks, Units
<1>3. moves \in [Lines -> Moves]
  BY <1>2, MoveUpdates
<1>4. Return(s, units) = s2
  BY DEF Return
<1>5. s2.onHand = onHand /\ s2.allocated = s.allocated /\ s2.moves = moves
  BY DEF Stocks
<1>6. s2 \in Stocks
  <2>1. onHand \in Int
    BY <1>1
  <2> HIDE DEF onHand, moves
  <2>2. s1 \in Stocks
    BY <2>1, StockUpdates
  <2>. QED
    BY <2>2, <1>3, StockUpdates
<1>7. ASSUME NEW l \in Lines
      PROVE  /\ moves[l].allocated = s.moves[l].allocated + None[l]
             /\ moves[l].sold = s.moves[l].sold + None[l]
             /\ moves[l].released = s.moves[l].released + None[l]
             /\ moves[l].cancelled = s.moves[l].cancelled + recorded[l]
  BY <1>2 DEF Moves, None
<1>8. Available(s, units) => located = recorded
  BY LocatedInFull
<1> HIDE DEF located, recorded, moves, s2
<1>9. Moved(s, Return(s, units), None, None, None, recorded)
  BY <1>4, <1>5, <1>6, <1>7 DEF Moved
<1>10. Available(s, units) => Levelled(s, Return(s, units), None, None, None, recorded)
  BY <1>1, <1>4, <1>5, <1>8, NoneSum DEF Levelled
<1>. QED
  BY <1>9, <1>10 DEF recorded

LEMMA ReleaseMoves ==
  ASSUME NEW s \in Stocks, NEW units \in Units
  PROVE  /\ Moved(s, Release(s, units), None, None, Recorded(s, units), None)
         /\ Available(s, units) =>
              Levelled(s, Release(s, units), None, None, Recorded(s, units), None)
<1> DEFINE located == Located(s, units)
           recorded == Recorded(s, units)
           level == s.allocated - SumOver(located)
           moves == [l \in Lines |-> [s.moves[l] EXCEPT !.released = @ + recorded[l]]]
           s1 == [s EXCEPT !.allocated = level]
           s2 == [s1 EXCEPT !.moves = moves]
<1>0. located \in Units /\ recorded \in Units
  BY LocatedAtMost
<1>1. s.allocated \in Int /\ s.onHand \in Int /\ SumOver(located) \in Int
  BY <1>0, UnitsSum DEF Stocks, Units
<1>2. \A l \in Lines : s.moves[l] \in Moves /\ recorded[l] \in Nat
  BY <1>0 DEF Stocks, Units
<1>3. moves \in [Lines -> Moves]
  BY <1>2, MoveUpdates
<1>4. Release(s, units) = s2
  BY DEF Release
<1>5. s2.onHand = s.onHand /\ s2.allocated = level /\ s2.moves = moves
  BY DEF Stocks
<1>6. s2 \in Stocks
  <2>1. level \in Int
    BY <1>1
  <2> HIDE DEF level, moves
  <2>2. s1 \in Stocks
    BY <2>1, StockUpdates
  <2>. QED
    BY <2>2, <1>3, StockUpdates
<1>7. ASSUME NEW l \in Lines
      PROVE  /\ moves[l].allocated = s.moves[l].allocated + None[l]
             /\ moves[l].sold = s.moves[l].sold + None[l]
             /\ moves[l].released = s.moves[l].released + recorded[l]
             /\ moves[l].cancelled = s.moves[l].cancelled + None[l]
  BY <1>2 DEF Moves, None
<1>8. Available(s, units) => located = recorded
  BY LocatedInFull
<1> HIDE DEF located, recorded, moves, s2
<1>9. Moved(s, Release(s, units), None, None, recorded, None)
  BY <1>4, <1>5, <1>6, <1>7 DEF Moved
<1>10. Available(s, units) => Levelled(s, Release(s, units), None, None, recorded, None)
  BY <1>1, <1>4, <1>5, <1>8, NoneSum DEF Levelled
<1>. QED
  BY <1>9, <1>10 DEF recorded

(* Records and level move together. *)
LEMMA MovedLedger ==
  ASSUME NEW s \in Stocks, NEW t, NEW adjustments \in Int, Ledger(s, adjustments),
         NEW a \in Units, NEW b \in Units, NEW c \in Units, NEW d \in Units,
         Moved(s, t, a, b, c, d), Levelled(s, t, a, b, c, d)
  PROVE  Ledger(t, adjustments)
<1> DEFINE before == [l \in Lines |-> TotalAllocated(s, l)]
           after == [l \in Lines |-> TotalAllocated(t, l)]
           out == [l \in Lines |-> s.moves[l].cancelled - s.moves[l].sold]
           outAfter == [l \in Lines |-> t.moves[l].cancelled - t.moves[l].sold]
           ab == [l \in Lines |-> a[l] - b[l]]
           abc == [l \in Lines |-> ab[l] - c[l]]
           db == [l \in Lines |-> d[l] - b[l]]
<1>1. \A l \in Lines : /\ a[l] \in Nat /\ b[l] \in Nat /\ c[l] \in Nat /\ d[l] \in Nat
                       /\ s.moves[l].allocated \in Nat /\ s.moves[l].sold \in Nat
                       /\ s.moves[l].released \in Nat /\ s.moves[l].cancelled \in Nat
  BY DEF Units, Stocks, Moves
<1>2. /\ IntegersOn(a, Lines) /\ IntegersOn(b, Lines)
      /\ IntegersOn(c, Lines) /\ IntegersOn(d, Lines)
  BY <1>1 DEF IntegersOn
<1>3. /\ IntegersOn(before, Lines) /\ IntegersOn(out, Lines)
      /\ IntegersOn(ab, Lines) /\ IntegersOn(abc, Lines) /\ IntegersOn(db, Lines)
  BY <1>1 DEF IntegersOn, TotalAllocated
<1>4. \A l \in Lines : after[l] = before[l] + abc[l]
  BY <1>1 DEF Moved, TotalAllocated
<1>5. \A l \in Lines : outAfter[l] = out[l] + db[l]
  BY <1>1 DEF Moved
<1>6. /\ \A l \in Lines : ab[l] = a[l] - b[l]
      /\ \A l \in Lines : abc[l] = ab[l] - c[l]
      /\ \A l \in Lines : db[l] = d[l] - b[l]
  OBVIOUS
<1>7. /\ s.allocated = SumOver(before)
      /\ s.onHand = InitialStock + adjustments + SumOver(out)
  BY DEF Ledger
<1>8. Ledger(t, adjustments) <=>
        /\ t.allocated = SumOver(after)
        /\ t.onHand = InitialStock + adjustments + SumOver(outAfter)
  BY DEF Ledger
<1> HIDE DEF before, after, out, outAfter, ab, abc, db
<1>9. /\ SumOver(after) = SumOver(before) + SumOver(abc)
      /\ SumOver(outAfter) = SumOver(out) + SumOver(db)
  BY <1>3, <1>4, <1>5, ConstantsAssumption, SumAdd DEF SumOver
<1>10. /\ SumOver(ab) = SumOver(a) - SumOver(b)
       /\ SumOver(abc) = SumOver(ab) - SumOver(c)
       /\ SumOver(db) = SumOver(d) - SumOver(b)
  BY <1>2, <1>3, <1>6, ConstantsAssumption, SumSubtract DEF SumOver
<1>11. /\ SumOver(a) \in Int /\ SumOver(b) \in Int /\ SumOver(c) \in Int
       /\ SumOver(d) \in Int /\ SumOver(before) \in Int /\ SumOver(out) \in Int
  BY <1>2, <1>3, ConstantsAssumption, SumType DEF SumOver
<1>12. /\ t.onHand = s.onHand + SumOver(d) - SumOver(b)
       /\ t.allocated = s.allocated + SumOver(a) - SumOver(b) - SumOver(c)
  BY DEF Levelled
<1>13. InitialStock \in Int
  BY ConstantsAssumption
<1>14. t.allocated = SumOver(after)
  BY <1>7, <1>9, <1>10, <1>11, <1>12
<1>15. t.onHand = InitialStock + adjustments + SumOver(outAfter)
  BY <1>7, <1>9, <1>10, <1>11, <1>12, <1>13
<1>. QED
  BY <1>8, <1>14, <1>15

-----------------------------------------------------------------------------
(* What is fulfilled.                                                      *)

LEMMA FulfillmentType ==
  ASSUME NEW fs \in Fulfillments, NEW f \in DOMAIN fs
  PROVE  /\ fs[f] \in FulfillmentRecords
         /\ fs[f].units \in Units
         /\ fs[f].again \in Units
         /\ \A l \in Lines : fs[f].units[l] \in Nat /\ fs[f].again[l] \in Nat
<1>1. fs[f] \in FulfillmentRecords
  BY DEF Fulfillments
<1>2. fs[f].units \in Units /\ fs[f].again \in Units
  BY <1>1 DEF FulfillmentRecords
<1>. QED
  BY <1>1, <1>2 DEF Units

LEMMA SomeAreFinite ==
  ASSUME NEW fs \in Fulfillments, NEW of \in SUBSET DOMAIN fs
  PROVE  IsFiniteSet(of)
<1>1. IsFiniteSet(1 .. Len(fs)) /\ of \in SUBSET (1 .. Len(fs))
  BY FS_Interval DEF Fulfillments
<1>. QED
  BY <1>1, FS_Subset

LEMMA UnitsInType ==
  ASSUME NEW fs \in Fulfillments, NEW l \in Lines, NEW states
  PROVE  /\ UnitsIn(fs, l, states) \in Nat
         /\ \A f \in DOMAIN fs : fs[f].state \in states
              => fs[f].units[l] + fs[f].again[l] =< UnitsIn(fs, l, states)
<1> DEFINE of == {f \in DOMAIN fs : fs[f].state \in states}
           units == [f \in DOMAIN fs |-> fs[f].units[l] + fs[f].again[l]]
<1>1. IsFiniteSet(of)
  BY SomeAreFinite
<1>2. \A f \in of : units[f] \in Nat
  BY FulfillmentType
<1>3. /\ UnitsIn(fs, l, states) = SumOf(units, of)
      /\ \A f \in DOMAIN fs : fs[f].state \in states => f \in of
      /\ \A f \in DOMAIN fs : units[f] = fs[f].units[l] + fs[f].again[l]
  BY DEF UnitsIn
<1> HIDE DEF units, of
<1>4. SumOf(units, of) \in Nat /\ \A f \in of : units[f] =< SumOf(units, of)
  BY <1>1, <1>2, SumNatural
<1>. QED
  BY <1>3, <1>4

Active(fs) == {f \in DOMAIN fs : fs[f].state \in ActiveStates}

LEMMA NamedAgainType ==
  ASSUME NEW fs \in Fulfillments, NEW l \in Lines
  PROVE  NamedAgain(fs, l) \in Nat
<1> DEFINE again == [f \in DOMAIN fs |-> fs[f].again[l]]
<1>1. IsFiniteSet(Active(fs))
  BY SomeAreFinite DEF Active
<1>2. \A f \in Active(fs) : again[f] \in Nat
  BY FulfillmentType DEF Active
<1>3. NamedAgain(fs, l) = SumOf(again, Active(fs))
  BY DEF NamedAgain, Active
<1> HIDE DEF again
<1>. QED
  BY <1>1, <1>2, <1>3, SumNatural

(* A sum over the active fulfillments: g before, h after.  A new fulfillment
   counts at once. *)
LEMMA ActiveAppend ==
  ASSUME NEW fs \in Fulfillments, NEW new \in FulfillmentRecords,
         new.state \in ActiveStates, NEW g, NEW h,
         \A f \in DOMAIN fs : g[f] \in Int /\ h[f] = g[f],
         h[Len(fs) + 1] \in Int
  PROVE  SumOf(h, Active(Append(fs, new))) = SumOf(g, Active(fs)) + h[Len(fs) + 1]
<1> DEFINE more == Append(fs, new)
           n == Len(fs) + 1
           of == Active(fs)
           ofMore == Active(more)
<1>1. /\ DOMAIN fs = 1 .. Len(fs) /\ Len(fs) \in Nat
      /\ DOMAIN more = 1 .. n /\ more[n] = new
      /\ \A f \in DOMAIN fs : more[f] = fs[f]
  BY DEF Fulfillments
<1>2. ofMore = of \cup {n} /\ n \notin of
  <2> HIDE DEF more
  <2>. QED
    BY <1>1 DEF Active
<1>3. IsFiniteSet(of) /\ of \subseteq DOMAIN fs
  BY SomeAreFinite DEF Active
<1>4. h[n] \in Int /\ \A f \in of : g[f] \in Int /\ h[f] = g[f]
  BY <1>3
<1> HIDE DEF of, ofMore, n, more
<1>5. IntegersOn(h, of \cup {n}) /\ IntegersOn(g, of) /\ IntegersOn(h, of)
  BY <1>4 DEF IntegersOn
<1>6. SumOf(h, of \cup {n}) = h[n] + SumOf(h, of)
  BY <1>2, <1>3, <1>5, SumInsert
<1>7. SumOf(h, of) = SumOf(g, of) /\ SumOf(g, of) \in Int
  BY <1>3, <1>4, <1>5, SumEqual, SumType
<1>8. SumOf(h, ofMore) = SumOf(g, of) + h[n]
  BY <1>2, <1>4, <1>6, <1>7
<1>. QED
  BY <1>8 DEF of, ofMore, n, more

LEMMA FulfilledAppend ==
  ASSUME NEW fs \in Fulfillments, NEW units \in Units, NEW again \in Units, NEW l \in Lines
  PROVE  LET new == [state |-> "Pending", units |-> units, again |-> again]
             more == Append(fs, new)
         IN  /\ more \in Fulfillments
             /\ Fulfilled(more, l) = Fulfilled(fs, l) + units[l] + again[l]
             /\ NamedAgain(more, l) = NamedAgain(fs, l) + again[l]
<1> DEFINE new == [state |-> "Pending", units |-> units, again |-> again]
           more == Append(fs, new)
           n == Len(fs) + 1
           g == [f \in DOMAIN fs |-> fs[f].units[l] + fs[f].again[l]]
           h == [f \in DOMAIN more |-> more[f].units[l] + more[f].again[l]]
           ga == [f \in DOMAIN fs |-> fs[f].again[l]]
           ha == [f \in DOMAIN more |-> more[f].again[l]]
<1>1. /\ new \in FulfillmentRecords
      /\ new.state \in ActiveStates /\ new.units = units /\ new.again = again
  BY DEF FulfillmentStates, ActiveStates, FulfillmentRecords
<1>2. more \in Fulfillments
  BY <1>1 DEF Fulfillments
<1>3. /\ DOMAIN fs \subseteq DOMAIN more /\ n \in DOMAIN more
      /\ more[n] = new
      /\ \A f \in DOMAIN fs : more[f] = fs[f]
  BY <1>1 DEF Fulfillments
<1>4. /\ Fulfilled(fs, l) = SumOf(g, Active(fs))
      /\ Fulfilled(more, l) = SumOf(h, Active(more))
      /\ NamedAgain(fs, l) = SumOf(ga, Active(fs))
      /\ NamedAgain(more, l) = SumOf(ha, Active(more))
  BY DEF Fulfilled, UnitsIn, NamedAgain, Active
<1>5. units[l] \in Nat /\ again[l] \in Nat
  BY DEF Units
<1>6. \A f \in DOMAIN fs : fs[f].units[l] \in Nat /\ fs[f].again[l] \in Nat
  BY FulfillmentType
<1> HIDE DEF new, more, n
<1>7. /\ \A f \in DOMAIN fs : g[f] \in Int /\ h[f] = g[f]
      /\ h[n] = units[l] + again[l]
      /\ \A f \in DOMAIN fs : ga[f] \in Int /\ ha[f] = ga[f]
      /\ ha[n] = again[l]
  BY <1>1, <1>3, <1>6
<1> HIDE DEF g, h, ga, ha
<1>8. SumOf(h, Active(more)) = SumOf(g, Active(fs)) + h[n]
  BY <1>1, <1>5, <1>7, ActiveAppend DEF more, n
<1>9. SumOf(ha, Active(more)) = SumOf(ga, Active(fs)) + ha[n]
  BY <1>1, <1>5, <1>7, ActiveAppend DEF more, n
<1>10. Fulfilled(fs, l) \in Nat
  BY UnitsInType DEF Fulfilled
<1>11. Fulfilled(more, l) = Fulfilled(fs, l) + units[l] + again[l]
  BY <1>4, <1>5, <1>7, <1>8, <1>10
<1>12. NamedAgain(more, l) = NamedAgain(fs, l) + again[l]
  BY <1>4, <1>7, <1>9
<1>. QED
  BY <1>2, <1>11, <1>12 DEF more, new

(* A cancelled fulfillment counts no more; other transitions change nothing. *)
LEMMA TransitionRecords ==
  ASSUME NEW fs \in Fulfillments, NEW f \in DOMAIN fs, NEW to,
         <<fs[f].state, to>> \in FulfillmentTransitions
  PROVE  LET next == [fs EXCEPT ![f].state = to]
         IN  /\ next \in Fulfillments
             /\ DOMAIN next = DOMAIN fs
             /\ \A k \in DOMAIN fs : /\ next[k].units = fs[k].units
                                     /\ next[k].again = fs[k].again
             /\ f \in Active(fs)
             /\ Active(next) = IF to = "Cancelled" THEN Active(fs) \ {f} ELSE Active(fs)
<1> DEFINE one == [fs[f] EXCEPT !.state = to]
           next == [fs EXCEPT ![f] = one]
<1>1. /\ to \in FulfillmentStates \ {"Created"}
      /\ fs[f].state \in ActiveStates
      /\ to \in ActiveStates <=> to # "Cancelled"
  BY DEF FulfillmentTransitions, FulfillmentStates, ActiveStates
<1>2. fs[f] \in FulfillmentRecords
  BY FulfillmentType
<1>3. /\ one \in FulfillmentRecords
      /\ one.state = to /\ one.units = fs[f].units /\ one.again = fs[f].again
  BY <1>1, <1>2 DEF FulfillmentRecords
<1>4. /\ next \in Fulfillments /\ DOMAIN next = DOMAIN fs
      /\ next[f] = one /\ \A k \in DOMAIN fs \ {f} : next[k] = fs[k]
  <2> HIDE DEF one
  <2>. QED
    BY <1>3 DEF Fulfillments
<1>5. next = [fs EXCEPT ![f].state = to]
  OBVIOUS
<1> HIDE DEF next, one
<1>6. \A k \in DOMAIN fs : next[k].units = fs[k].units /\ next[k].again = fs[k].again
  BY <1>3, <1>4
<1>7. /\ f \in Active(fs)
      /\ Active(next) = IF to = "Cancelled" THEN Active(fs) \ {f} ELSE Active(fs)
  BY <1>1, <1>3, <1>4 DEF Active
<1>. QED
  BY <1>4, <1>5, <1>6, <1>7

LEMMA ActiveTransition ==
  ASSUME NEW fs \in Fulfillments, NEW f \in DOMAIN fs, NEW to,
         <<fs[f].state, to>> \in FulfillmentTransitions, NEW g, NEW h,
         \A k \in DOMAIN fs : g[k] \in Int /\ h[k] = g[k]
  PROVE  SumOf(h, Active([fs EXCEPT ![f].state = to]))
           = SumOf(g, Active(fs)) - IF to = "Cancelled" THEN g[f] ELSE 0
<1> DEFINE next == [fs EXCEPT ![f].state = to]
           of == Active(fs)
<1>1. /\ f \in of
      /\ Active(next) = IF to = "Cancelled" THEN of \ {f} ELSE of
  BY TransitionRecords
<1>2. IsFiniteSet(of) /\ of \subseteq DOMAIN fs
  BY SomeAreFinite DEF Active
<1>3. g[f] \in Int /\ h[f] = g[f] /\ \A k \in of : g[k] \in Int /\ h[k] = g[k]
  BY <1>2
<1> HIDE DEF of, next
<1>4. IntegersOn(g, of) /\ IntegersOn(h, of) /\ IntegersOn(h, of \ {f})
  BY <1>3 DEF IntegersOn
<1>5. SumOf(h, of) = SumOf(g, of) /\ SumOf(g, of) \in Int
  BY <1>2, <1>3, <1>4, SumEqual, SumType
<1>6. /\ SumOf(h, of) = h[f] + SumOf(h, of \ {f})
      /\ SumOf(h, of \ {f}) \in Int
  <2>1. IsFiniteSet(of \ {f})
    BY <1>2, FS_RemoveElement
  <2>. QED
    BY <1>1, <1>2, <1>4, <2>1, SumRemove, SumType
<1>7. SumOf(h, Active(next))
        = SumOf(g, of) - IF to = "Cancelled" THEN g[f] ELSE 0
  <2>1. CASE to = "Cancelled"
    BY <1>1, <1>3, <1>5, <1>6, <2>1
  <2>2. CASE to # "Cancelled"
    BY <1>1, <1>5, <2>2
  <2>. QED
    BY <2>1, <2>2
<1>. QED
  BY <1>7 DEF of, next

LEMMA FulfilledTransition ==
  ASSUME NEW fs \in Fulfillments, NEW f \in DOMAIN fs, NEW l \in Lines, NEW to,
         <<fs[f].state, to>> \in FulfillmentTransitions
  PROVE  LET next == [fs EXCEPT ![f].state = to]
         IN  /\ Fulfilled(next, l) = Fulfilled(fs, l)
                  - IF to = "Cancelled" THEN fs[f].units[l] + fs[f].again[l] ELSE 0
             /\ NamedAgain(next, l) = NamedAgain(fs, l)
                  - IF to = "Cancelled" THEN fs[f].again[l] ELSE 0
<1> DEFINE next == [fs EXCEPT ![f].state = to]
           g == [k \in DOMAIN fs |-> fs[k].units[l] + fs[k].again[l]]
           h == [k \in DOMAIN next |-> next[k].units[l] + next[k].again[l]]
           ga == [k \in DOMAIN fs |-> fs[k].again[l]]
           ha == [k \in DOMAIN next |-> next[k].again[l]]
<1>1. /\ DOMAIN next = DOMAIN fs
      /\ \A k \in DOMAIN fs : next[k].units = fs[k].units /\ next[k].again = fs[k].again
  BY TransitionRecords
<1>2. \A k \in DOMAIN fs : fs[k].units[l] \in Nat /\ fs[k].again[l] \in Nat
  BY FulfillmentType
<1>3. /\ Fulfilled(fs, l) = SumOf(g, Active(fs))
      /\ Fulfilled(next, l) = SumOf(h, Active(next))
      /\ NamedAgain(fs, l) = SumOf(ga, Active(fs))
      /\ NamedAgain(next, l) = SumOf(ha, Active(next))
  BY DEF Fulfilled, UnitsIn, NamedAgain, Active
<1> HIDE DEF next
<1>4. /\ \A k \in DOMAIN fs : g[k] \in Int /\ h[k] = g[k]
      /\ g[f] = fs[f].units[l] + fs[f].again[l]
      /\ \A k \in DOMAIN fs : ga[k] \in Int /\ ha[k] = ga[k]
      /\ ga[f] = fs[f].again[l]
  BY <1>1, <1>2
<1> HIDE DEF g, h, ga, ha
<1>5. SumOf(h, Active(next)) = SumOf(g, Active(fs)) - IF to = "Cancelled" THEN g[f] ELSE 0
  BY <1>4, ActiveTransition DEF next
<1>6. SumOf(ha, Active(next))
        = SumOf(ga, Active(fs)) - IF to = "Cancelled" THEN ga[f] ELSE 0
  BY <1>4, ActiveTransition DEF next
<1>. QED
  BY <1>3, <1>4, <1>5, <1>6 DEF next

-----------------------------------------------------------------------------
(* Cancelling units.                                                       *)

(* The allocations that are left, after records were added. *)
LEMMA MovedTotal ==
  ASSUME NEW s \in Stocks, NEW t, NEW a \in Units, NEW b \in Units,
         NEW c \in Units, NEW d \in Units, Moved(s, t, a, b, c, d), NEW l \in Lines
  PROVE  /\ TotalAllocated(s, l) \in Int
         /\ TotalAllocated(t, l) = TotalAllocated(s, l) + a[l] - b[l] - c[l]
         /\ s.moves[l].allocated \in Nat
         /\ t.moves[l].allocated = s.moves[l].allocated + a[l]
         /\ TotalAllocated(s, l) =< s.moves[l].allocated
<1>1. /\ a[l] \in Nat /\ b[l] \in Nat /\ c[l] \in Nat
      /\ s.moves[l].allocated \in Nat /\ s.moves[l].sold \in Nat
      /\ s.moves[l].released \in Nat
  BY DEF Units, Stocks, Moves
<1>2. /\ t.moves[l].allocated = s.moves[l].allocated + a[l]
      /\ t.moves[l].sold = s.moves[l].sold + b[l]
      /\ t.moves[l].released = s.moves[l].released + c[l]
  BY DEF Moved
<1>. QED
  BY <1>1, <1>2 DEF TotalAllocated

(* What the rest of the proof needs to know of the four operators. *)
LEMMA AllocateKeeps ==
  ASSUME NEW s \in Stocks, NEW units \in Units, NEW adjustments \in Int
  PROVE  /\ Allocate(s, units) \in Stocks
         /\ Ledger(s, adjustments)
              => Ledger(Allocate(s, units), adjustments)
         /\ \A l \in Lines :
              /\ Allocate(s, units).moves[l].allocated = s.moves[l].allocated + units[l]
              /\ TotalAllocated(s, l) \in Int
              /\ TotalAllocated(Allocate(s, units), l) \in Int
              /\ TotalAllocated(Allocate(s, units), l) = TotalAllocated(s, l) + units[l]
<1> DEFINE t == Allocate(s, units)
<1>1. Moved(s, t, units, None, None, None) /\ Levelled(s, t, units, None, None, None)
  BY AllocateMoves
<1>2. None \in Units
  BY NoneSum
<1> HIDE DEF t
<1>3. t \in Stocks
  BY <1>1 DEF Moved
<1>4. Ledger(s, adjustments) => Ledger(t, adjustments)
  BY <1>1, <1>2, MovedLedger
<1>5. ASSUME NEW l \in Lines
      PROVE  /\ t.moves[l].allocated = s.moves[l].allocated + units[l]
             /\ TotalAllocated(s, l) \in Int
             /\ TotalAllocated(t, l) \in Int
             /\ TotalAllocated(t, l) = TotalAllocated(s, l) + units[l]
  <2>1. /\ TotalAllocated(s, l) \in Int
        /\ TotalAllocated(t, l)
             = TotalAllocated(s, l) + units[l] - None[l] - None[l]
        /\ s.moves[l].allocated \in Nat
        /\ t.moves[l].allocated = s.moves[l].allocated + units[l]
    BY <1>1, <1>2, MovedTotal
  <2>2. None[l] = 0 /\ units[l] \in Nat
    BY <1>2 DEF None, Units
  <2>. QED
    BY <1>2, <2>1, <2>2
<1>. QED
  BY <1>3, <1>4, <1>5 DEF t

LEMMA SellKeeps ==
  ASSUME NEW s \in Stocks, NEW units \in Units, NEW adjustments \in Int
  PROVE  /\ Sell(s, units) \in Stocks
         /\ Available(s, units) /\ Ledger(s, adjustments)
              => Ledger(Sell(s, units), adjustments)
         /\ \A l \in Lines :
              /\ Sell(s, units).moves[l].allocated = s.moves[l].allocated
              /\ TotalAllocated(s, l) \in Int
              /\ TotalAllocated(Sell(s, units), l) \in Int
              /\ TotalAllocated(Sell(s, units), l) >= TotalAllocated(s, l) - units[l]
<1> DEFINE t == Sell(s, units)
           recorded == Recorded(s, units)
<1>1. /\ Moved(s, t, None, recorded, None, None)
      /\ Available(s, units) => Levelled(s, t, None, recorded, None, None)
  BY SellMoves
<1>2. /\ None \in Units /\ recorded \in Units
      /\ \A l \in Lines : recorded[l] =< units[l]
  BY NoneSum, LocatedAtMost
<1> HIDE DEF t, recorded
<1>3. t \in Stocks
  BY <1>1 DEF Moved
<1>4. Available(s, units) /\ Ledger(s, adjustments) => Ledger(t, adjustments)
  BY <1>1, <1>2, MovedLedger
<1>5. ASSUME NEW l \in Lines
      PROVE  /\ t.moves[l].allocated = s.moves[l].allocated
             /\ TotalAllocated(s, l) \in Int
             /\ TotalAllocated(t, l) \in Int
             /\ TotalAllocated(t, l) >= TotalAllocated(s, l) - units[l]
  <2>1. /\ TotalAllocated(s, l) \in Int
        /\ TotalAllocated(t, l)
             = TotalAllocated(s, l) + None[l] - recorded[l] - None[l]
        /\ s.moves[l].allocated \in Nat
        /\ t.moves[l].allocated = s.moves[l].allocated + None[l]
    <3>1. None \in Units /\ recorded \in Units /\ Moved(s, t, None, recorded, None, None)
      BY <1>1, <1>2
    <3>. QED
      BY <3>1, MovedTotal
  <2>2. None[l] = 0 /\ units[l] \in Nat /\ recorded[l] \in Nat
    BY <1>2 DEF None, Units
  <2>. QED
    BY <1>2, <2>1, <2>2
<1>. QED
  BY <1>3, <1>4, <1>5 DEF t

LEMMA ReturnKeeps ==
  ASSUME NEW s \in Stocks, NEW units \in Units, NEW adjustments \in Int
  PROVE  /\ Return(s, units) \in Stocks
         /\ Available(s, units) /\ Ledger(s, adjustments)
              => Ledger(Return(s, units), adjustments)
         /\ \A l \in Lines :
              /\ Return(s, units).moves[l].allocated = s.moves[l].allocated
              /\ TotalAllocated(s, l) \in Int
              /\ TotalAllocated(Return(s, units), l) \in Int
              /\ TotalAllocated(Return(s, units), l) = TotalAllocated(s, l)
<1> DEFINE t == Return(s, units)
           recorded == Recorded(s, units)
<1>1. /\ Moved(s, t, None, None, None, recorded)
      /\ Available(s, units) => Levelled(s, t, None, None, None, recorded)
  BY ReturnMoves
<1>2. /\ None \in Units /\ recorded \in Units
      /\ \A l \in Lines : recorded[l] =< units[l]
  BY NoneSum, LocatedAtMost
<1> HIDE DEF t, recorded
<1>3. t \in Stocks
  BY <1>1 DEF Moved
<1>4. Available(s, units) /\ Ledger(s, adjustments) => Ledger(t, adjustments)
  BY <1>1, <1>2, MovedLedger
<1>5. ASSUME NEW l \in Lines
      PROVE  /\ t.moves[l].allocated = s.moves[l].allocated
             /\ TotalAllocated(s, l) \in Int
             /\ TotalAllocated(t, l) \in Int
             /\ TotalAllocated(t, l) = TotalAllocated(s, l)
  <2>1. /\ TotalAllocated(s, l) \in Int
        /\ TotalAllocated(t, l)
             = TotalAllocated(s, l) + None[l] - None[l] - None[l]
        /\ s.moves[l].allocated \in Nat
        /\ t.moves[l].allocated = s.moves[l].allocated + None[l]
    <3>1. None \in Units /\ recorded \in Units /\ Moved(s, t, None, None, None, recorded)
      BY <1>1, <1>2
    <3>. QED
      BY <3>1, MovedTotal
  <2>2. None[l] = 0 /\ units[l] \in Nat /\ recorded[l] \in Nat
    BY <1>2 DEF None, Units
  <2>. QED
    BY <1>2, <2>1, <2>2
<1>. QED
  BY <1>3, <1>4, <1>5 DEF t

LEMMA ReleaseKeeps ==
  ASSUME NEW s \in Stocks, NEW units \in Units, NEW adjustments \in Int
  PROVE  /\ Release(s, units) \in Stocks
         /\ Available(s, units) /\ Ledger(s, adjustments)
              => Ledger(Release(s, units), adjustments)
         /\ \A l \in Lines :
              /\ Release(s, units).moves[l].allocated = s.moves[l].allocated
              /\ TotalAllocated(s, l) \in Int
              /\ TotalAllocated(Release(s, units), l) \in Int
              /\ TotalAllocated(Release(s, units), l) >= TotalAllocated(s, l) - units[l]
<1> DEFINE t == Release(s, units)
           recorded == Recorded(s, units)
<1>1. /\ Moved(s, t, None, None, recorded, None)
      /\ Available(s, units) => Levelled(s, t, None, None, recorded, None)
  BY ReleaseMoves
<1>2. /\ None \in Units /\ recorded \in Units
      /\ \A l \in Lines : recorded[l] =< units[l]
  BY NoneSum, LocatedAtMost
<1> HIDE DEF t, recorded
<1>3. t \in Stocks
  BY <1>1 DEF Moved
<1>4. Available(s, units) /\ Ledger(s, adjustments) => Ledger(t, adjustments)
  BY <1>1, <1>2, MovedLedger
<1>5. ASSUME NEW l \in Lines
      PROVE  /\ t.moves[l].allocated = s.moves[l].allocated
             /\ TotalAllocated(s, l) \in Int
             /\ TotalAllocated(t, l) \in Int
             /\ TotalAllocated(t, l) >= TotalAllocated(s, l) - units[l]
  <2>1. /\ TotalAllocated(s, l) \in Int
        /\ TotalAllocated(t, l)
             = TotalAllocated(s, l) + None[l] - None[l] - recorded[l]
        /\ s.moves[l].allocated \in Nat
        /\ t.moves[l].allocated = s.moves[l].allocated + None[l]
    <3>1. None \in Units /\ recorded \in Units /\ Moved(s, t, None, None, recorded, None)
      BY <1>1, <1>2
    <3>. QED
      BY <3>1, MovedTotal
  <2>2. None[l] = 0 /\ units[l] \in Nat /\ recorded[l] \in Nat
    BY <1>2 DEF None, Units
  <2>. QED
    BY <1>2, <2>1, <2>2
<1>. QED
  BY <1>3, <1>4, <1>5 DEF t

LEMMA CancelUnitsMoves ==
  ASSUME NEW s \in Stocks, NEW adjustments \in Int,
         fulfillments \in Fulfillments, NEW units \in Units
  PROVE  LET t == CancelUnits(s, units)
         IN  /\ t \in Stocks
             /\ Available(s, units) /\ Ledger(s, adjustments) => Ledger(t, adjustments)
             /\ \A l \in Lines :
                  /\ t.moves[l].allocated = s.moves[l].allocated
                  /\ TotalAllocated(s, l) \in Int
                  /\ TotalAllocated(t, l) \in Int
                  /\ TotalAllocated(t, l) >=
                       TotalAllocated(s, l)
                       - AtMost(AtLeast(TotalAllocated(s, l), 0), units[l])
<1> DEFINE fulfilled == [l \in Lines |->
                           AtMost(AtLeast(TotalFulfilled(s, l), 0), units[l])]
           allocated == [l \in Lines |->
                           AtMost(AtLeast(TotalAllocated(s, l), 0), units[l])]
           r == Return(s, fulfilled)
           t == Release(r, allocated)
<1>1. \A l \in Lines : /\ units[l] \in Nat
                       /\ s.moves[l] \in Moves
  BY DEF Units, Stocks
<1>2. \A l \in Lines : TotalFulfilled(s, l) \in Int /\ TotalAllocated(s, l) \in Int
  <2>1. \A l \in Lines : UnitsIn(fulfillments, l, FulfillmentStates) \in Nat
    BY UnitsInType
  <2>. QED
    BY <1>1, <2>1 DEF TotalFulfilled, TotalAllocated, Moves
<1>3. ASSUME NEW x \in Int, NEW n \in Nat
      PROVE  AtMost(AtLeast(x, 0), n) \in Nat /\ AtMost(AtLeast(x, 0), n) =< n
  BY DEF AtMost, AtLeast
<1>4. /\ fulfilled \in Units /\ allocated \in Units
      /\ \A l \in Lines : fulfilled[l] =< units[l] /\ allocated[l] =< units[l]
  BY <1>1, <1>2, <1>3 DEF Units
<1>5. \A l \in Lines : fulfilled[l] \in Nat /\ allocated[l] \in Nat
  BY <1>4 DEF Units
<1>6. CancelUnits(s, units) = t
  BY DEF CancelUnits
<1>7. \A l \in Lines :
        allocated[l] = AtMost(AtLeast(TotalAllocated(s, l), 0), units[l])
  OBVIOUS
<1> HIDE DEF fulfilled, allocated, r, t
<1>8. Available(s, units) => Available(s, fulfilled) /\ Available(s, allocated)
  BY <1>1, <1>4, <1>5 DEF Available, Moves
<1>9. /\ r \in Stocks
      /\ Available(s, fulfilled) /\ Ledger(s, adjustments) => Ledger(r, adjustments)
      /\ \A l \in Lines : /\ r.moves[l].allocated = s.moves[l].allocated
                          /\ TotalAllocated(r, l) = TotalAllocated(s, l)
  BY <1>4, ReturnKeeps DEF r
<1>10. Available(s, allocated) => Available(r, allocated)
  BY <1>9 DEF Available
<1>11. /\ t \in Stocks
       /\ Available(r, allocated) /\ Ledger(r, adjustments) => Ledger(t, adjustments)
       /\ \A l \in Lines :
            /\ t.moves[l].allocated = r.moves[l].allocated
            /\ TotalAllocated(t, l) \in Int
            /\ TotalAllocated(t, l) >= TotalAllocated(r, l) - allocated[l]
  BY <1>4, <1>9, ReleaseKeeps DEF t
<1>. QED
  BY <1>2, <1>6, <1>7, <1>8, <1>9, <1>10, <1>11

-----------------------------------------------------------------------------
(* Every operation keeps the invariant.                                    *)

SoundNext == Sound(state', quantity', fulfillments', stock', missing', adjusted')

(* What is granted and what is cut are the units asked for. *)
LEMMA GrantedAndCut ==
  ASSUME NEW s \in Stocks, NEW units \in Units
  PROVE  /\ Granted(s, units) \in Units
         /\ Cut(units, Granted(s, units)) \in Units
         /\ \A l \in Lines :
              Granted(s, units)[l] + Cut(units, Granted(s, units))[l] = units[l]
<1> DEFINE granted == Granted(s, units)
           cut == Cut(units, granted)
           free == AtLeast(SaleableOf(s), 0)
<1>1. free \in Nat
  <2>1. SaleableOf(s) \in Int
    BY ConstantsAssumption DEF SaleableOf, Stocks
  <2>. QED
    BY <2>1 DEF AtLeast
<1>2. \A l \in Lines : granted[l] = AtMost(units[l], free) /\ cut[l] = units[l] - granted[l]
  BY DEF Granted, Cut
<1>3. granted = [l \in Lines |-> granted[l]] /\ cut = [l \in Lines |-> cut[l]]
  BY DEF Granted, Cut
<1> HIDE DEF granted, cut, free
<1>4. ASSUME NEW l \in Lines
      PROVE  granted[l] \in Nat /\ cut[l] \in Nat /\ granted[l] + cut[l] = units[l]
  <2>1. units[l] \in Nat
    BY DEF Units
  <2>. QED
    BY <1>1, <1>2, <2>1 DEF AtMost
<1>5. granted \in Units /\ cut \in Units
  BY <1>3, <1>4 DEF Units
<1>. QED
  BY <1>4, <1>5 DEF granted, cut

LEMMA PlusUnits ==
  ASSUME NEW f \in Units, NEW g \in Units
  PROVE  Plus(f, g) \in Units /\ \A l \in Lines : Plus(f, g)[l] = f[l] + g[l]
<1>1. \A l \in Lines : f[l] + g[l] \in Nat
  BY DEF Units
<1>. QED
  BY <1>1 DEF Plus, Units

(* The numbers the invariant is about. *)
LEMMA SoundTypes ==
  ASSUME StockInv, NEW l \in Lines
  PROVE  /\ quantity[l] \in Nat /\ missing[l] \in Nat
         /\ stock.moves[l].allocated \in Nat
         /\ TotalAllocated(stock, l) \in Int
         /\ Fulfilled(fulfillments, l) \in Nat
         /\ NamedAgain(fulfillments, l) \in Nat
BY UnitsInType, NamedAgainType
   DEF StockInv, Sound, Units, Stocks, Moves, Fulfilled, TotalAllocated

LEMMA InitSound == Init => StockInv
<1> SUFFICES ASSUME Init PROVE StockInv
  OBVIOUS
<1> USE DEF Init
<1>1. /\ quantity \in Units /\ fulfillments \in Fulfillments /\ adjusted \in Int
      /\ missing \in Units
      /\ state \notin AfterCheckout
  BY DEF Units, Fulfillments, AfterCheckout, PlacedStates, FulfilledStates
<1>2. stock \in Stocks
  <2>1. NoMovements \in Moves
    BY DEF NoMovements, Moves
  <2>2. [l \in Lines |-> NoMovements] \in [Lines -> Moves]
    BY <2>1
  <2>. QED
    BY <2>2, ConstantsAssumption DEF Stocks
<1>3. Ledger(stock, adjusted)
  <2> DEFINE f == [l \in Lines |-> TotalAllocated(stock, l)]
             g == [l \in Lines |-> stock.moves[l].cancelled - stock.moves[l].sold]
  <2>1. \A l \in Lines : f[l] = 0 /\ g[l] = 0
    BY DEF TotalAllocated, NoMovements
  <2>2. stock.allocated = 0 /\ stock.onHand = InitialStock
    OBVIOUS
  <2>3. Ledger(stock, adjusted) <=>
          /\ stock.allocated = SumOver(f)
          /\ stock.onHand = InitialStock + adjusted + SumOver(g)
    BY DEF Ledger
  <2> HIDE DEF f, g
  <2>4. SumOver(f) = 0 /\ SumOver(g) = 0
    BY <2>1, ConstantsAssumption, SumZero DEF SumOver
  <2>. QED
    BY <2>2, <2>3, <2>4, ConstantsAssumption
<1>4. FulfillmentsBacked(fulfillments, stock, missing)
  BY DEF FulfillmentsBacked
<1>. QED
  BY <1>1, <1>2, <1>3, <1>4 DEF StockInv, Sound

(* The cart: quantities change before anything is allocated. *)
LEMMA CartSound ==
  ASSUME StockInv, NEW l \in Lines, NEW n \in 0 .. MaxQuantity,
         AddToCart(l, n) \/ AdjustCart(l, n)
  PROVE  SoundNext
<1>1. /\ state \notin AfterCheckout
      /\ UNCHANGED <<state, fulfillments, stock, missing, adjusted>>
  BY DEF AddToCart, AdjustCart, AfterCheckout, PlacedStates, FulfilledStates
<1>2. quantity \in [Lines -> Nat] /\ stock.onHand \in Int /\ stock.allocated \in Int
  BY DEF StockInv, Sound, Units, Stocks
<1>3. Saleable \in Int /\ InOtherLines(l) \in Int /\ n \in Nat
  BY <1>2, ConstantsAssumption, UnitsSum DEF Saleable, SaleableOf, InOtherLines
<1>4. ASSUME NEW existing \in Nat
      PROVE  ConstrainToSaleable(n, existing, InOtherLines(l)) \in Nat
  <2> DEFINE others == InOtherLines(l)
             free == Saleable
  <2>1. /\ free \in Int /\ others \in Int /\ n \in Nat
        /\ ConstrainToSaleable(n, existing, others) =
             IF free < n + existing + others
             THEN AtLeast(free - existing - others, 0) ELSE n + existing
    BY <1>3 DEF ConstrainToSaleable
  <2> HIDE DEF others, free
  <2>2. ConstrainToSaleable(n, existing, others) \in Nat
    BY <2>1 DEF AtLeast
  <2>. QED
    BY <2>2 DEF others
<1>5. quantity' \in [Lines -> Nat]
  <2>1. quantity[l] \in Nat
    BY <1>2
  <2>2. CASE AddToCart(l, n)
    <3> DEFINE c == ConstrainToSaleable(n, quantity[l], InOtherLines(l))
    <3>1. c \in Nat
      BY <1>4, <2>1
    <3>2. quantity' = [quantity EXCEPT ![l] = IF c < n THEN quantity[l] + c ELSE c]
      BY <2>2 DEF AddToCart
    <3> HIDE DEF c
    <3>. QED
      BY <1>2, <2>1, <3>1, <3>2
  <2>3. CASE AdjustCart(l, n)
    <3>1. ConstrainToSaleable(n, 0, InOtherLines(l)) \in Nat
      BY <1>4
    <3>. QED
      BY <1>2, <2>3, <3>1 DEF AdjustCart
  <2>. QED
    BY <2>2, <2>3
<1>. QED
  BY <1>1, <1>5 DEF StockInv, Sound, SoundNext, Units

(* Placing the order allocates what is in the cart and can be had. *)
LEMMA PlaceSound ==
  ASSUME StockInv, Place
  PROVE  SoundNext
<1> DEFINE granted == Granted(stock, quantity)
           cut == Cut(quantity, granted)
<1>1. /\ state \notin AfterCheckout /\ state' \in AfterCheckout
      /\ stock' = Allocate(stock, granted)
      /\ missing' = Plus(missing, cut)
      /\ UNCHANGED <<quantity, fulfillments, adjusted>>
  BY DEF Place, AfterCheckout, PlacedStates, FulfilledStates
<1>2. /\ quantity \in Units /\ stock \in Stocks /\ fulfillments = <<>>
      /\ missing \in Units /\ adjusted \in Int
      /\ NothingMissing(missing) => Ledger(stock, adjusted)
      /\ stock.moves = [l \in Lines |-> NoMovements]
  BY <1>1 DEF StockInv, Sound
<1>3. /\ granted \in Units /\ cut \in Units
      /\ \A l \in Lines : granted[l] + cut[l] = quantity[l]
  BY <1>2, GrantedAndCut
<1> HIDE DEF granted, cut
<1>4. /\ stock' \in Stocks
      /\ Ledger(stock, adjusted) => Ledger(stock', adjusted)
      /\ \A l \in Lines :
           /\ stock'.moves[l].allocated = stock.moves[l].allocated + granted[l]
           /\ TotalAllocated(stock', l) = TotalAllocated(stock, l) + granted[l]
  BY <1>1, <1>2, <1>3, AllocateKeeps
<1>5. missing' \in Units /\ \A l \in Lines : missing'[l] = missing[l] + cut[l]
  BY <1>1, <1>2, <1>3, PlusUnits
<1>6. \A l \in Lines : /\ granted[l] \in Nat /\ cut[l] \in Nat
                       /\ stock.moves[l].allocated = 0
                       /\ TotalAllocated(stock, l) = 0
  BY <1>2, <1>3 DEF NoMovements, TotalAllocated, Units
<1>7. ASSUME NEW l \in Lines
      PROVE  LineBacked(quantity, fulfillments, stock', missing', l)
  BY <1>3, <1>4, <1>5, <1>6, SoundTypes DEF LineBacked, AtLeast
<1>8. NothingMissing(missing') => Ledger(stock', adjusted)
  <2>1. NothingMissing(missing') => NothingMissing(missing)
    BY <1>5, <1>6, SoundTypes DEF NothingMissing
  <2>. QED
    BY <1>2, <1>4, <2>1
<1>9. FulfillmentsBacked(fulfillments, stock', missing')
  BY <1>2 DEF FulfillmentsBacked
<1>10. fulfillments \in Fulfillments
  BY DEF StockInv, Sound
<1>. QED
  BY <1>1, <1>2, <1>4, <1>5, <1>7, <1>8, <1>9, <1>10 DEF Sound, SoundNext

(* Every row takes no more than the order still needs, but a line may have two
   rows: the first is backed by an allocation, or missing. *)
LEMMA CreateFulfillmentSound ==
  ASSUME StockInv, NEW units \in [Lines -> 0 .. MaxQuantity],
         NEW again \in [Lines -> 0 .. MaxAgain], CreateFulfillment(units, again)
  PROVE  SoundNext
<1> DEFINE once == Sell(stock, units)
           new == [state |-> "Pending", units |-> units, again |-> again]
<1>1. /\ state \in AfterCheckout
      /\ fulfillments' = Append(fulfillments, new)
      /\ stock' = Sell(once, again)
      /\ UNCHANGED <<state, quantity, missing, adjusted>>
      /\ \A l \in Lines : again[l] > 0 => units[l] > 0
  BY DEF CreateFulfillment, NamesLines, AfterCheckout
<1>2. \A l \in Lines :
        /\ units[l] > 0 => Fulfilled(fulfillments, l) + units[l] =< quantity[l]
        /\ again[l] > 0 => Fulfilled(fulfillments, l) + again[l] =< quantity[l]
  BY DEF CreateFulfillment
<1>3. /\ quantity \in Units /\ stock \in Stocks /\ fulfillments \in Fulfillments
      /\ missing \in Units /\ adjusted \in Int
      /\ NothingMissing(missing) => Ledger(stock, adjusted)
      /\ FulfillmentsBacked(fulfillments, stock, missing)
      /\ \A l \in Lines : LineBacked(quantity, fulfillments, stock, missing, l)
  BY <1>1 DEF StockInv, Sound
<1>4. units \in Units /\ again \in Units
  BY DEF Units
<1>5. \A l \in Lines : units[l] \in Nat /\ again[l] \in Nat
  BY <1>4 DEF Units
<1>6. RowsBacked(units, stock, missing) /\ RowsBacked(again, stock, missing)
  <2> SUFFICES ASSUME NEW l \in Lines
               PROVE  /\ units[l] =< stock.moves[l].allocated + missing[l]
                      /\ again[l] =< stock.moves[l].allocated + missing[l]
    BY DEF RowsBacked
  <2>1. quantity[l] =< stock.moves[l].allocated + missing[l]
    BY <1>3 DEF LineBacked
  <2>2. /\ units[l] > 0 => Fulfilled(fulfillments, l) + units[l] =< quantity[l]
        /\ again[l] > 0 => Fulfilled(fulfillments, l) + again[l] =< quantity[l]
    BY <1>2
  <2>3. units[l] \in Nat /\ again[l] \in Nat
    BY <1>5
  <2>. QED
    BY <2>1, <2>2, <2>3, SoundTypes
<1>7. /\ once \in Stocks
      /\ Available(stock, units) /\ Ledger(stock, adjusted) => Ledger(once, adjusted)
      /\ \A l \in Lines :
           /\ once.moves[l].allocated = stock.moves[l].allocated
           /\ TotalAllocated(once, l) \in Int
           /\ TotalAllocated(once, l) >= TotalAllocated(stock, l) - units[l]
  BY <1>3, <1>4, SellKeeps
<1> HIDE DEF once
<1>8. /\ stock' \in Stocks
      /\ Available(once, again) /\ Ledger(once, adjusted) => Ledger(stock', adjusted)
      /\ \A l \in Lines :
           /\ stock'.moves[l].allocated = once.moves[l].allocated
           /\ TotalAllocated(stock', l) \in Int
           /\ TotalAllocated(stock', l) >= TotalAllocated(once, l) - again[l]
  BY <1>1, <1>3, <1>4, <1>7, SellKeeps
<1>9. NothingMissing(missing) => Ledger(stock', adjusted)
  <2> SUFFICES ASSUME NothingMissing(missing) PROVE Ledger(stock', adjusted)
    OBVIOUS
  <2>1. ASSUME NEW l \in Lines
        PROVE  units[l] =< stock.moves[l].allocated /\ again[l] =< stock.moves[l].allocated
    BY <1>6, SoundTypes DEF RowsBacked, NothingMissing
  <2>2. Available(stock, units) /\ Available(once, again)
    BY <1>7, <2>1 DEF Available
  <2>. QED
    BY <1>3, <1>7, <1>8, <2>2
<1>10. /\ fulfillments' \in Fulfillments
       /\ \A l \in Lines :
            /\ Fulfilled(fulfillments', l)
                 = Fulfilled(fulfillments, l) + units[l] + again[l]
            /\ NamedAgain(fulfillments', l) = NamedAgain(fulfillments, l) + again[l]
  BY <1>1, <1>3, <1>4, FulfilledAppend, ConstantsAssumption
<1>11. ASSUME NEW l \in Lines
       PROVE  LineBacked(quantity, fulfillments', stock', missing, l)
  <2>1. /\ TotalAllocated(stock, l) + missing[l] >=
             AtLeast(quantity[l] - Fulfilled(fulfillments, l),
                     -NamedAgain(fulfillments, l))
        /\ quantity[l] =< stock.moves[l].allocated + missing[l]
    BY <1>3 DEF LineBacked
  <2>2. /\ units[l] > 0 => Fulfilled(fulfillments, l) + units[l] =< quantity[l]
        /\ again[l] > 0 => units[l] > 0
        /\ units[l] \in Nat /\ again[l] \in Nat
    BY <1>1, <1>2, <1>5
  <2>3. /\ TotalAllocated(stock', l) \in Int
        /\ TotalAllocated(stock', l) >= TotalAllocated(stock, l) - units[l] - again[l]
    BY <1>7, <1>8, <2>2, SoundTypes
  <2>4. TotalAllocated(stock', l) + missing[l] >=
          AtLeast(quantity[l] - Fulfilled(fulfillments', l),
                  -NamedAgain(fulfillments', l))
    BY <1>10, <2>1, <2>2, <2>3, SoundTypes DEF AtLeast
  <2>. QED
    BY <1>7, <1>8, <2>1, <2>4 DEF LineBacked
<1>12. FulfillmentsBacked(fulfillments', stock', missing)
  <2>1. \A rows : RowsBacked(rows, stock, missing) => RowsBacked(rows, stock', missing)
    BY <1>7, <1>8 DEF RowsBacked
  <2> SUFFICES ASSUME NEW f \in DOMAIN fulfillments'
               PROVE  /\ RowsBacked(fulfillments'[f].units, stock, missing)
                      /\ RowsBacked(fulfillments'[f].again, stock, missing)
    BY <2>1 DEF FulfillmentsBacked
  <2>2. CASE f \in DOMAIN fulfillments
    <3>1. fulfillments'[f] = fulfillments[f]
      BY <1>1, <1>3, <2>2 DEF Fulfillments
    <3>. QED
      BY <1>3, <2>2, <3>1 DEF FulfillmentsBacked
  <2>3. CASE f \notin DOMAIN fulfillments
    <3>1. fulfillments'[f] = new
      BY <1>1, <1>3, <2>3 DEF Fulfillments
    <3>. QED
      BY <1>6, <3>1
  <2>. QED
    BY <2>2, <2>3
<1>13. SoundNext <=> Sound(state, quantity, fulfillments', stock', missing, adjusted)
  BY <1>1 DEF SoundNext
<1>. QED
  BY <1>1, <1>3, <1>8, <1>9, <1>10, <1>11, <1>12, <1>13 DEF Sound

(* The order state that a fulfillment asks for. *)
LEMMA OrderStateForType ==
  ASSUME NEW s, NEW fs
  PROVE  s \in {"Shipped", "Delivered"} => OrderStateFor(s, fs) \in PlacedStates
BY DEF OrderStateFor, PlacedStates, FulfilledStates

(* A cancelled fulfillment is returned and its units are allocated again, as
   far as they can be had: they are to be fulfilled once more. *)
LEMMA UndoMoves ==
  ASSUME StockInv, NEW f \in DOMAIN fulfillments, Undo(fulfillments[f]),
         adjusted' = adjusted
  PROVE  /\ stock' \in Stocks /\ missing' \in Units
         /\ NothingMissing(missing') => Ledger(stock', adjusted)
         /\ \A l \in Lines :
              /\ stock'.moves[l].allocated + missing'[l]
                   = stock.moves[l].allocated + missing[l]
                       + fulfillments[f].units[l] + fulfillments[f].again[l]
              /\ TotalAllocated(stock', l) + missing'[l]
                   = TotalAllocated(stock, l) + missing[l]
                       + fulfillments[f].units[l] + fulfillments[f].again[l]
<1> DEFINE units == fulfillments[f].units
           again == fulfillments[f].again
           returned == Return(stock, units)
           first == Granted(returned, units)
           more == Granted(returned, again)
           firstCut == Cut(units, first)
           moreCut == Cut(again, more)
<1>1. /\ stock' = Allocate(returned, Plus(first, more))
      /\ missing' = Plus(missing, Plus(firstCut, moreCut))
  BY DEF Undo
<1>2. /\ stock \in Stocks /\ fulfillments \in Fulfillments
      /\ missing \in Units /\ adjusted \in Int
      /\ NothingMissing(missing) => Ledger(stock, adjusted)
      /\ RowsBacked(units, stock, missing)
  BY DEF StockInv, Sound, FulfillmentsBacked
<1>3. units \in Units /\ again \in Units
  BY <1>2, FulfillmentType
<1> HIDE DEF units, again
<1>4. /\ returned \in Stocks
      /\ Available(stock, units) /\ Ledger(stock, adjusted) => Ledger(returned, adjusted)
      /\ \A l \in Lines : /\ returned.moves[l].allocated = stock.moves[l].allocated
                          /\ TotalAllocated(returned, l) = TotalAllocated(stock, l)
  BY <1>2, <1>3, ReturnKeeps
<1> HIDE DEF returned
<1>5. /\ first \in Units /\ firstCut \in Units
      /\ \A l \in Lines : first[l] + firstCut[l] = units[l]
  BY <1>3, <1>4, GrantedAndCut
<1>6. /\ more \in Units /\ moreCut \in Units
      /\ \A l \in Lines : more[l] + moreCut[l] = again[l]
  BY <1>3, <1>4, GrantedAndCut
<1> HIDE DEF first, more, firstCut, moreCut
<1>7. /\ Plus(first, more) \in Units
      /\ \A l \in Lines : Plus(first, more)[l] = first[l] + more[l]
  BY <1>5, <1>6, PlusUnits
<1>8. /\ Plus(firstCut, moreCut) \in Units
      /\ \A l \in Lines : Plus(firstCut, moreCut)[l] = firstCut[l] + moreCut[l]
  BY <1>5, <1>6, PlusUnits
<1>9. /\ missing' \in Units
      /\ \A l \in Lines : missing'[l] = missing[l] + Plus(firstCut, moreCut)[l]
  BY <1>1, <1>2, <1>8, PlusUnits
<1>10. /\ stock' \in Stocks
       /\ Ledger(returned, adjusted) => Ledger(stock', adjusted)
       /\ \A l \in Lines :
            /\ stock'.moves[l].allocated
                 = returned.moves[l].allocated + Plus(first, more)[l]
            /\ TotalAllocated(stock', l)
                 = TotalAllocated(returned, l) + Plus(first, more)[l]
  BY <1>1, <1>2, <1>4, <1>7, AllocateKeeps
<1>11. \A l \in Lines : /\ first[l] \in Nat /\ more[l] \in Nat
                        /\ firstCut[l] \in Nat /\ moreCut[l] \in Nat
  BY <1>5, <1>6 DEF Units
<1>12. NothingMissing(missing') => Ledger(stock', adjusted)
  <2> SUFFICES ASSUME NothingMissing(missing') PROVE Ledger(stock', adjusted)
    OBVIOUS
  <2>1. NothingMissing(missing)
    BY <1>8, <1>9, <1>11, SoundTypes DEF NothingMissing
  <2>2. Available(stock, units)
    BY <1>2, <2>1, SoundTypes DEF RowsBacked, NothingMissing, Available
  <2>. QED
    BY <1>2, <1>4, <1>10, <2>1, <2>2
<1>13. ASSUME NEW l \in Lines
       PROVE  /\ stock'.moves[l].allocated + missing'[l]
                   = stock.moves[l].allocated + missing[l] + units[l] + again[l]
              /\ TotalAllocated(stock', l) + missing'[l]
                   = TotalAllocated(stock, l) + missing[l] + units[l] + again[l]
  BY <1>4, <1>5, <1>6, <1>7, <1>8, <1>9, <1>10, <1>11, SoundTypes
<1>. QED
  BY <1>9, <1>10, <1>12, <1>13 DEF units, again

LEMMA TransitionFulfillmentSound ==
  ASSUME StockInv, NEW f \in DOMAIN fulfillments, NEW to \in FulfillmentStates,
         TransitionFulfillment(f, to)
  PROVE  SoundNext
<1> DEFINE units == fulfillments[f].units
           again == fulfillments[f].again
           back(l) == IF to = "Cancelled" THEN units[l] + again[l] ELSE 0
<1>1. /\ <<fulfillments[f].state, to>> \in FulfillmentTransitions
      /\ fulfillments' = [fulfillments EXCEPT ![f].state = to]
      /\ UNCHANGED <<quantity, adjusted>>
  BY DEF TransitionFulfillment
<1>2. /\ quantity \in Units /\ stock \in Stocks /\ fulfillments \in Fulfillments
      /\ missing \in Units /\ adjusted \in Int
      /\ NothingMissing(missing) => Ledger(stock, adjusted)
      /\ FulfillmentsBacked(fulfillments, stock, missing)
  BY DEF StockInv, Sound
<1>3. state \in AfterCheckout
  <2>1. fulfillments # <<>>
    OBVIOUS
  <2>. QED
    BY <2>1 DEF StockInv, Sound
<1>4. state' \in AfterCheckout
  BY <1>3, OrderStateForType DEF TransitionFulfillment, AfterCheckout
<1>5. /\ fulfillments' \in Fulfillments
      /\ DOMAIN fulfillments' = DOMAIN fulfillments
      /\ \A k \in DOMAIN fulfillments : /\ fulfillments'[k].units = fulfillments[k].units
                                        /\ fulfillments'[k].again = fulfillments[k].again
  <2> DEFINE next == [fulfillments EXCEPT ![f].state = to]
  <2>1. next \in Fulfillments
    BY <1>1, <1>2, TransitionRecords
  <2>2. /\ DOMAIN next = DOMAIN fulfillments
        /\ \A k \in DOMAIN fulfillments : /\ next[k].units = fulfillments[k].units
                                          /\ next[k].again = fulfillments[k].again
    BY <1>1, <1>2, TransitionRecords
  <2>3. fulfillments' = next
    BY <1>1
  <2> HIDE DEF next
  <2>. QED
    BY <2>1, <2>2, <2>3
<1>6. \A l \in Lines :
        /\ Fulfilled(fulfillments', l) = Fulfilled(fulfillments, l)
             - IF to = "Cancelled" THEN units[l] + again[l] ELSE 0
        /\ NamedAgain(fulfillments', l) = NamedAgain(fulfillments, l)
             - IF to = "Cancelled" THEN again[l] ELSE 0
  BY <1>1, <1>2, FulfilledTransition
<1>7. \A l \in Lines : units[l] \in Nat /\ again[l] \in Nat
  BY <1>2, FulfillmentType
<1> HIDE DEF units, again
<1>8. /\ stock' \in Stocks /\ missing' \in Units
      /\ NothingMissing(missing') => Ledger(stock', adjusted)
      /\ \A l \in Lines :
           /\ stock'.moves[l].allocated + missing'[l]
                = stock.moves[l].allocated + missing[l] + back(l)
           /\ TotalAllocated(stock', l) + missing'[l]
                = TotalAllocated(stock, l) + missing[l] + back(l)
           /\ missing'[l] \in Nat /\ stock'.moves[l].allocated \in Nat
           /\ TotalAllocated(stock', l) \in Int
  <2>1. CASE to = "Cancelled"
    <3>1. Undo(fulfillments[f])
      BY <2>1 DEF TransitionFulfillment
    <3>2. /\ stock' \in Stocks /\ missing' \in Units
          /\ NothingMissing(missing') => Ledger(stock', adjusted)
          /\ \A l \in Lines :
               /\ stock'.moves[l].allocated + missing'[l]
                    = stock.moves[l].allocated + missing[l] + units[l] + again[l]
               /\ TotalAllocated(stock', l) + missing'[l]
                    = TotalAllocated(stock, l) + missing[l] + units[l] + again[l]
      BY <1>1, <3>1, UndoMoves DEF units, again
    <3>3. \A l \in Lines : /\ missing'[l] \in Nat /\ stock'.moves[l].allocated \in Nat
                           /\ TotalAllocated(stock', l) \in Int
      BY <3>2 DEF Units, Stocks, Moves, TotalAllocated
    <3>. QED
      BY <1>7, <2>1, <3>2, <3>3, SoundTypes
  <2>2. CASE to # "Cancelled"
    <3>1. stock' = stock /\ missing' = missing
      BY <2>2 DEF TransitionFulfillment
    <3>2. \A l \in Lines : TotalAllocated(stock', l) = TotalAllocated(stock, l)
      BY <3>1
    <3>. QED
      BY <1>2, <2>2, <3>1, <3>2, SoundTypes
  <2>. QED
    BY <2>1, <2>2
<1>9. ASSUME NEW l \in Lines
      PROVE  LineBacked(quantity, fulfillments', stock', missing', l)
  <2>1. LineBacked(quantity, fulfillments, stock, missing, l)
    BY <1>3 DEF StockInv, Sound
  <2>2. TotalAllocated(stock', l) + missing'[l] >=
          AtLeast(quantity[l] - Fulfilled(fulfillments', l),
                  -NamedAgain(fulfillments', l))
    BY <1>6, <1>7, <1>8, <2>1, SoundTypes DEF LineBacked, AtLeast
  <2>3. quantity[l] =< stock'.moves[l].allocated + missing'[l]
    BY <1>7, <1>8, <2>1, SoundTypes DEF LineBacked
  <2>. QED
    BY <2>2, <2>3 DEF LineBacked
<1>10. FulfillmentsBacked(fulfillments', stock', missing')
  <2>1. ASSUME NEW rows \in Units, RowsBacked(rows, stock, missing)
        PROVE  RowsBacked(rows, stock', missing')
    <3> SUFFICES ASSUME NEW l \in Lines
                 PROVE  rows[l] =< stock'.moves[l].allocated + missing'[l]
      BY DEF RowsBacked
    <3>1. rows[l] =< stock.moves[l].allocated + missing[l] /\ rows[l] \in Nat
      BY <2>1 DEF RowsBacked, Units
    <3>. QED
      BY <1>7, <1>8, <3>1, SoundTypes
  <2> SUFFICES ASSUME NEW k \in DOMAIN fulfillments
               PROVE  /\ RowsBacked(fulfillments[k].units, stock', missing')
                      /\ RowsBacked(fulfillments[k].again, stock', missing')
    BY <1>5 DEF FulfillmentsBacked
  <2>2. fulfillments[k].units \in Units /\ fulfillments[k].again \in Units
    BY <1>2, FulfillmentType
  <2>. QED
    BY <1>2, <2>1, <2>2 DEF FulfillmentsBacked
<1>11. SoundNext <=> Sound(state', quantity, fulfillments', stock', missing', adjusted)
  BY <1>1 DEF SoundNext
<1>. QED
  BY <1>2, <1>4, <1>5, <1>8, <1>9, <1>10, <1>11 DEF Sound

(* cancelOrder, and the half of modifyOrder that takes units away: stock is
   given back for the units, and `last` is taken off the quantities.  What is
   left to fulfill stays allocated, whatever was released. *)
LEMMA CancelSound ==
  ASSUME StockInv, state \in AfterCheckout, state' \in AfterCheckout,
         NEW units \in Units, \A l \in Lines : units[l] =< quantity[l],
         NEW last \in Units,
         quantity' \in Units,
         \A l \in Lines : quantity'[l] = quantity[l] - last[l],
         missing' \in Units,
         \A l \in Lines : missing'[l] = missing[l] + AtLeast(units[l] - last[l], 0),
         stock' = CancelUnits(stock, units),
         UNCHANGED <<fulfillments, adjusted>>
  PROVE  SoundNext
<1>1. /\ quantity \in Units /\ stock \in Stocks /\ fulfillments \in Fulfillments
      /\ missing \in Units /\ adjusted \in Int
      /\ NothingMissing(missing) => Ledger(stock, adjusted)
      /\ FulfillmentsBacked(fulfillments, stock, missing)
      /\ \A l \in Lines : LineBacked(quantity, fulfillments, stock, missing, l)
  BY DEF StockInv, Sound
<1>2. ASSUME NEW l \in Lines
      PROVE  /\ units[l] \in Nat /\ last[l] \in Nat /\ units[l] =< quantity[l]
             /\ missing'[l] \in Nat
             /\ missing'[l] >= missing[l]
             /\ missing'[l] >= missing[l] + units[l] - last[l]
  <2>1. units[l] \in Nat /\ last[l] \in Nat /\ units[l] =< quantity[l]
    BY DEF Units
  <2>2. missing'[l] = missing[l] + AtLeast(units[l] - last[l], 0)
    OBVIOUS
  <2>. QED
    BY <2>1, <2>2, SoundTypes DEF AtLeast
<1>3. /\ stock' \in Stocks
      /\ Available(stock, units) /\ Ledger(stock, adjusted) => Ledger(stock', adjusted)
      /\ \A l \in Lines :
           /\ stock'.moves[l].allocated = stock.moves[l].allocated
           /\ TotalAllocated(stock', l) \in Int
           /\ TotalAllocated(stock', l) >= TotalAllocated(stock, l)
                - AtMost(AtLeast(TotalAllocated(stock, l), 0), units[l])
  BY <1>1, CancelUnitsMoves
<1>4. NothingMissing(missing') => Ledger(stock', adjusted)
  <2> SUFFICES ASSUME NothingMissing(missing') PROVE Ledger(stock', adjusted)
    OBVIOUS
  <2>1. NothingMissing(missing)
    BY <1>2, SoundTypes DEF NothingMissing
  <2>2. Available(stock, units)
    <3> SUFFICES ASSUME NEW l \in Lines PROVE units[l] =< stock.moves[l].allocated
      BY DEF Available
    <3>1. quantity[l] =< stock.moves[l].allocated + missing[l] /\ missing[l] = 0
      BY <1>1, <2>1 DEF LineBacked, NothingMissing
    <3>. QED
      BY <1>2, <3>1, SoundTypes
  <2>. QED
    BY <1>1, <1>3, <2>1, <2>2
<1>5. ASSUME NEW l \in Lines
      PROVE  LineBacked(quantity', fulfillments, stock', missing', l)
  <2>1. LineBacked(quantity, fulfillments, stock, missing, l)
    BY <1>1
  <2>2. quantity'[l] = quantity[l] - last[l]
    OBVIOUS
  <2>3. quantity'[l] =< stock'.moves[l].allocated + missing'[l]
    BY <1>2, <1>3, <2>1, <2>2, SoundTypes DEF LineBacked
  <2>4. TotalAllocated(stock', l) + missing'[l] >=
          AtLeast(quantity'[l] - Fulfilled(fulfillments, l),
                  -NamedAgain(fulfillments, l))
    BY <1>2, <1>3, <2>1, <2>2, SoundTypes DEF LineBacked, AtLeast, AtMost
  <2>. QED
    BY <2>3, <2>4 DEF LineBacked
<1>6. FulfillmentsBacked(fulfillments, stock', missing')
  <2>1. ASSUME NEW rows \in Units, RowsBacked(rows, stock, missing)
        PROVE  RowsBacked(rows, stock', missing')
    <3> SUFFICES ASSUME NEW l \in Lines
                 PROVE  rows[l] =< stock'.moves[l].allocated + missing'[l]
      BY DEF RowsBacked
    <3>1. rows[l] =< stock.moves[l].allocated + missing[l] /\ rows[l] \in Nat
      BY <2>1 DEF RowsBacked, Units
    <3>. QED
      BY <1>2, <1>3, <3>1, SoundTypes
  <2> SUFFICES ASSUME NEW f \in DOMAIN fulfillments
               PROVE  /\ RowsBacked(fulfillments[f].units, stock', missing')
                      /\ RowsBacked(fulfillments[f].again, stock', missing')
    BY DEF FulfillmentsBacked
  <2>2. fulfillments[f].units \in Units /\ fulfillments[f].again \in Units
    BY <1>1, FulfillmentType
  <2>. QED
    BY <1>1, <2>1, <2>2 DEF FulfillmentsBacked
<1>7. SoundNext <=> Sound(state', quantity', fulfillments, stock', missing', adjusted)
  BY DEF SoundNext
<1>. QED
  BY <1>1, <1>3, <1>4, <1>5, <1>6, <1>7 DEF Sound

LEMMA ModifyLineSound ==
  ASSUME StockInv, NEW l \in Lines, NEW n \in 0 .. MaxQuantity, ModifyLine(l, n)
  PROVE  SoundNext
<1>1. /\ state \in AfterCheckout /\ state' \in AfterCheckout
      /\ quantity' = [quantity EXCEPT ![l] = n]
      /\ UNCHANGED <<state, fulfillments, missing, adjusted>>
  BY DEF ModifyLine, AfterCheckout, PlacedStates
<1>2. /\ quantity \in Units /\ stock \in Stocks /\ fulfillments \in Fulfillments
      /\ missing \in Units /\ adjusted \in Int
      /\ NothingMissing(missing) => Ledger(stock, adjusted)
      /\ FulfillmentsBacked(fulfillments, stock, missing)
      /\ \A k \in Lines : LineBacked(quantity, fulfillments, stock, missing, k)
  BY <1>1 DEF StockInv, Sound
<1>3. n \in Nat /\ quantity[l] \in Nat
  BY <1>2, ConstantsAssumption DEF Units
<1>4. /\ quantity' \in Units /\ quantity'[l] = n
      /\ \A k \in Lines \ {l} : quantity'[k] = quantity[k]
  BY <1>1, <1>2, <1>3 DEF Units
<1>5. CASE n > quantity[l]
  <2> DEFINE units == OnLine(l, n - quantity[l])
             granted == Granted(stock, units)
  <2>1. /\ n - quantity[l] \in Nat /\ ~(n < quantity[l])
        /\ n - quantity[l] =< Saleable
    BY <1>3, <1>5 DEF ModifyLine
  <2>2. /\ units \in Units /\ units[l] = n - quantity[l]
        /\ \A k \in Lines \ {l} : units[k] = 0
    BY <2>1 DEF OnLine, Units
  <2>3. stock' = Allocate(stock, granted)
    BY <2>1 DEF ModifyLine
  <2>4. \A k \in Lines : granted[k] = AtMost(units[k], AtLeast(Saleable, 0))
    BY DEF Granted, Saleable
  <2>5. granted \in Units
    BY <1>2, <2>2, GrantedAndCut
  <2>6. Saleable \in Int
    BY <1>2, ConstantsAssumption DEF Saleable, SaleableOf, Stocks
  <2> HIDE DEF units, granted
  <2>7. \A k \in Lines : granted[k] = units[k]
    <3>1. granted[l] = units[l]
      BY <2>1, <2>2, <2>4, <2>6 DEF AtMost, AtLeast
    <3>2. \A k \in Lines \ {l} : granted[k] = units[k]
      BY <2>2, <2>4, <2>6 DEF AtMost, AtLeast
    <3>. QED
      BY <3>1, <3>2
  <2>8. /\ stock' \in Stocks
        /\ Ledger(stock, adjusted) => Ledger(stock', adjusted)
        /\ \A k \in Lines :
             /\ stock'.moves[k].allocated = stock.moves[k].allocated + granted[k]
             /\ TotalAllocated(stock', k) = TotalAllocated(stock, k) + granted[k]
    BY <1>2, <2>3, <2>5, AllocateKeeps
  <2>9. \A k \in Lines : units[k] \in Nat /\ quantity'[k] = quantity[k] + units[k]
    <3>1. units[l] \in Nat /\ quantity'[l] = quantity[l] + units[l]
      BY <1>3, <1>4, <2>1, <2>2
    <3>2. \A k \in Lines \ {l} : units[k] \in Nat /\ quantity'[k] = quantity[k] + units[k]
      BY <1>4, <2>2, SoundTypes
    <3>. QED
      BY <3>1, <3>2
  <2>10. ASSUME NEW k \in Lines
         PROVE  LineBacked(quantity', fulfillments, stock', missing, k)
    <3>1. LineBacked(quantity, fulfillments, stock, missing, k)
      BY <1>2
    <3>. QED
      BY <2>7, <2>8, <2>9, <3>1, SoundTypes DEF LineBacked, AtLeast
  <2>11. FulfillmentsBacked(fulfillments, stock', missing)
    <3>1. ASSUME NEW rows \in Units, RowsBacked(rows, stock, missing)
          PROVE  RowsBacked(rows, stock', missing)
      <4> SUFFICES ASSUME NEW k \in Lines
                   PROVE  rows[k] =< stock'.moves[k].allocated + missing[k]
        BY DEF RowsBacked
      <4>1. rows[k] =< stock.moves[k].allocated + missing[k] /\ rows[k] \in Nat
        BY <3>1 DEF RowsBacked, Units
      <4>. QED
        BY <2>7, <2>8, <2>9, <4>1, SoundTypes
    <3> SUFFICES ASSUME NEW f \in DOMAIN fulfillments
                 PROVE  /\ RowsBacked(fulfillments[f].units, stock', missing)
                        /\ RowsBacked(fulfillments[f].again, stock', missing)
      BY DEF FulfillmentsBacked
    <3>2. fulfillments[f].units \in Units /\ fulfillments[f].again \in Units
      BY <1>2, FulfillmentType
    <3>. QED
      BY <1>2, <3>1, <3>2 DEF FulfillmentsBacked
  <2>12. SoundNext <=> Sound(state, quantity', fulfillments, stock', missing, adjusted)
    BY <1>1 DEF SoundNext
  <2>. QED
    BY <1>1, <1>2, <1>4, <2>8, <2>10, <2>11, <2>12 DEF Sound
<1>6. CASE n < quantity[l]
  <2> DEFINE units == OnLine(l, quantity[l] - n)
  <2>1. quantity[l] - n \in Nat /\ ~(n > quantity[l])
    BY <1>3, <1>6
  <2>2. /\ units \in Units /\ units[l] = quantity[l] - n
        /\ \A k \in Lines \ {l} : units[k] = 0
    BY <2>1 DEF OnLine, Units
  <2>3. stock' = CancelUnits(stock, units)
    BY <2>1 DEF ModifyLine
  <2> HIDE DEF units
  <2>4. \A k \in Lines : quantity[k] \in Nat
    BY <1>2 DEF Units
  <2>5. \A k \in Lines : /\ units[k] =< quantity[k]
                         /\ quantity'[k] = quantity[k] - units[k]
    <3>1. units[l] =< quantity[l] /\ quantity'[l] = quantity[l] - units[l]
      BY <1>3, <1>4, <2>2
    <3>2. \A k \in Lines \ {l} : /\ units[k] =< quantity[k]
                                 /\ quantity'[k] = quantity[k] - units[k]
      BY <1>4, <2>2, <2>4
    <3>. QED
      BY <3>1, <3>2
  <2>6. ASSUME NEW k \in Lines
        PROVE  missing'[k] = missing[k] + AtLeast(units[k] - units[k], 0)
    <3>1. units[k] \in Nat /\ missing'[k] = missing[k]
      BY <1>1, <2>2 DEF Units
    <3>. QED
      BY <3>1, SoundTypes DEF AtLeast
  <2>7. missing' \in Units
    BY <1>1, <1>2
  <2>. QED
    BY <1>1, <1>4, <2>2, <2>3, <2>5, <2>6, <2>7, CancelSound
<1>7. n > quantity[l] \/ n < quantity[l]
  BY DEF ModifyLine
<1>. QED
  BY <1>5, <1>6, <1>7

LEMMA CancelLinesSound ==
  ASSUME StockInv, NEW units \in [Lines -> 0 .. MaxQuantity],
         NEW again \in [Lines -> 0 .. MaxAgain], CancelLines(units, again)
  PROVE  SoundNext
<1> DEFINE last == [l \in Lines |-> IF again[l] > 0 THEN again[l] ELSE units[l]]
<1>1. /\ state \in AfterCheckout /\ state' \in AfterCheckout
      /\ \A l \in Lines : units[l] =< quantity[l] /\ again[l] =< quantity[l]
      /\ quantity' = [l \in Lines |-> quantity[l] - last[l]]
      /\ missing' = [l \in Lines |-> missing[l] + AtLeast(units[l] - last[l], 0)]
      /\ stock' = CancelUnits(stock, units)
      /\ UNCHANGED <<fulfillments, adjusted>>
  BY DEF CancelLines, AfterCheckout
<1>2. ASSUME NEW l \in Lines
      PROVE  units[l] \in Nat /\ last[l] \in Nat /\ last[l] =< quantity[l]
  <2>1. units[l] \in Nat /\ again[l] \in Nat
    OBVIOUS
  <2>. QED
    BY <1>1, <2>1
<1>3. units \in Units /\ last \in Units
  BY <1>2 DEF Units
<1> HIDE DEF last
<1>4. /\ quantity' \in Units
      /\ \A l \in Lines : quantity'[l] = quantity[l] - last[l]
  <2>1. \A l \in Lines : quantity[l] - last[l] \in Nat
    BY <1>2, SoundTypes
  <2>. QED
    BY <1>1, <2>1 DEF Units
<1>5. /\ missing' \in Units
      /\ \A l \in Lines : missing'[l] = missing[l] + AtLeast(units[l] - last[l], 0)
  <2>1. \A l \in Lines : missing[l] + AtLeast(units[l] - last[l], 0) \in Nat
    BY <1>2, SoundTypes DEF AtLeast
  <2>. QED
    BY <1>1, <2>1 DEF Units
<1>. QED
  BY <1>1, <1>3, <1>4, <1>5, CancelSound

LEMMA AdjustStockSound ==
  ASSUME StockInv, NEW n \in 0 .. MaxStock, AdjustStock(n)
  PROVE  SoundNext
<1>1. /\ stock' = [stock EXCEPT !.onHand = n]
      /\ adjusted' = adjusted + n - stock.onHand
      /\ UNCHANGED <<state, quantity, fulfillments, missing>>
  BY DEF AdjustStock
<1>2. /\ stock \in Stocks /\ adjusted \in Int /\ n \in Int
      /\ NothingMissing(missing) => Ledger(stock, adjusted)
  BY ConstantsAssumption DEF StockInv, Sound
<1>3. /\ stock' \in Stocks
      /\ stock'.onHand = n /\ stock'.allocated = stock.allocated
      /\ stock'.moves = stock.moves
  BY <1>1, <1>2, StockUpdates DEF Stocks
<1>4. \A l \in Lines : TotalAllocated(stock', l) = TotalAllocated(stock, l)
  BY <1>3 DEF TotalAllocated
<1>5. ASSUME Ledger(stock, adjusted) PROVE Ledger(stock', adjusted')
  <2> DEFINE out == SumOver([l \in Lines |-> stock.moves[l].cancelled - stock.moves[l].sold])
  <2>1. out \in Int
    <3>1. [l \in Lines |-> stock.moves[l].cancelled - stock.moves[l].sold]
             \in [Lines -> Int]
      BY <1>2 DEF Stocks, Moves
    <3>. QED
      BY <3>1, UnitsSum
  <2>2. stock.onHand = InitialStock + adjusted + out
    BY <1>5 DEF Ledger
  <2>3. stock.onHand \in Int /\ InitialStock \in Int
    BY <1>2, ConstantsAssumption DEF Stocks
  <2> HIDE DEF out
  <2>4. stock'.onHand = InitialStock + adjusted' + out
    BY <1>1, <1>2, <1>3, <2>1, <2>2, <2>3
  <2>5. [l \in Lines |-> TotalAllocated(stock', l)]
          = [l \in Lines |-> TotalAllocated(stock, l)]
    BY <1>4
  <2>6. stock'.allocated = SumOver([l \in Lines |-> TotalAllocated(stock', l)])
    BY <1>3, <1>5, <2>5 DEF Ledger
  <2>7. [l \in Lines |-> stock'.moves[l].cancelled - stock'.moves[l].sold]
          = [l \in Lines |-> stock.moves[l].cancelled - stock.moves[l].sold]
    BY <1>3
  <2>. QED
    BY <2>4, <2>6, <2>7 DEF Ledger, out
<1>6. adjusted' \in Int
  BY <1>1, <1>2 DEF Stocks
<1>7. /\ \A l \in Lines : LineBacked(quantity, fulfillments, stock, missing, l)
                            <=> LineBacked(quantity, fulfillments, stock', missing, l)
      /\ FulfillmentsBacked(fulfillments, stock, missing)
                            <=> FulfillmentsBacked(fulfillments, stock', missing)
  BY <1>3, <1>4 DEF LineBacked, FulfillmentsBacked, RowsBacked
<1>8. SoundNext <=> Sound(state, quantity, fulfillments, stock', missing, adjusted')
  BY <1>1 DEF SoundNext
<1>. QED
  BY <1>3, <1>5, <1>6, <1>7, <1>8 DEF StockInv, Sound

LEMMA NextSound ==
  ASSUME StockInv, [Next]_vars
  PROVE  SoundNext
<1>1. ASSUME ToArrangingPayment \/ BackToAddingItems PROVE SoundNext
  BY <1>1 DEF ToArrangingPayment, BackToAddingItems, StockInv, Sound, SoundNext,
              AfterCheckout, PlacedStates, FulfilledStates
<1>2. ASSUME NEW to \in OrderStates, TransitionOrder(to) PROVE SoundNext
  BY <1>2 DEF TransitionOrder, StockInv, Sound, SoundNext, AfterCheckout
<1>3. CASE UNCHANGED vars
  BY <1>3 DEF vars, StockInv, SoundNext
<1>. QED
  BY <1>1, <1>2, <1>3, CartSound, PlaceSound, CreateFulfillmentSound,
     TransitionFulfillmentSound, ModifyLineSound, CancelLinesSound, AdjustStockSound
     DEF Next

-----------------------------------------------------------------------------
(* The theorems.                                                           *)

(* At every moment the invariant holds: what is left to fulfill is allocated
   or missing, no line is asked for more than these two, and as long as nothing
   is missing the records account for the level. *)
THEOREM StockIsSound == Spec => []StockInv
<1>1. StockInv /\ [Next]_vars => StockInv'
  BY NextSound DEF StockInv, SoundNext
<1>. QED
  BY InitSound, <1>1, PTL DEF Spec

(* The order, its fulfillments and the stock always have their type: no
   quantity and no movement record becomes negative. *)
THEOREM StockTypes == Spec => []TypeOK
<1>1. StockInv => TypeOK
  BY DEF StockInv, Sound, TypeOK, Units, Fulfillments, FulfillmentRecords, Stocks,
         Moves, AfterCheckout
<1>. QED
  BY <1>1, StockIsSound, PTL

(* StockLevel.stockOnHand and stockAllocated are what the StockMovement rows add
   up to, as long as no allocation was cut and no cancellation gave back more
   than it took off a line. *)
THEOREM LevelIsTheLedger == Spec => []LedgerMatchesLevel
<1>1. StockInv => LedgerMatchesLevel
  BY DEF StockInv, Sound, Ledger, NothingMissing, LedgerMatchesLevel
<1>. QED
  BY <1>1, StockIsSound, PTL

(* What a placed order still has to fulfill is always allocated to its lines,
   but for what its allocations did not get or its cancellations gave back too
   much; and a line gives back no more than it was allocated, but for the rows
   of a fulfillment that name it again. *)
THEOREM LeftToFulfillIsAllocated == Spec => []UnfulfilledUnitsAllocated
<1>1. StockInv => UnfulfilledUnitsAllocated
  BY DEF StockInv, Sound, LineBacked, AfterCheckout, UnfulfilledUnitsAllocated
<1>. QED
  BY <1>1, StockIsSound, PTL

-----------------------------------------------------------------------------
(* The action properties.                                                  *)

(* When the fulfillments of every line left are in state s, and no line is
   partially fulfilled, those in s hold all of its units. *)
LEMMA AllItemsInFull ==
  ASSUME NEW fs \in Fulfillments, quantity \in Units,
         NEW s \in {"Shipped", "Delivered"}, AllItems(fs, s), NEW l \in Lines
  PROVE  UnitsIn(fs, l, {s}) >= quantity[l]
<1> DEFINE units == [f \in DOMAIN fs |-> fs[f].units[l] + fs[f].again[l]]
           active == {f \in DOMAIN fs : fs[f].state \in ActiveStates}
           inS == {f \in DOMAIN fs : fs[f].state \in {s}}
           of == {f \in DOMAIN fs : /\ fs[f].state \in ActiveStates
                                    /\ fs[f].units[l] + fs[f].again[l] > 0}
           states == IF of = {} THEN {"none"} ELSE {fs[f].state : f \in of}
<1>1. UnitsIn(fs, l, {s}) \in Nat /\ Fulfilled(fs, l) \in Nat /\ quantity[l] \in Nat
  BY UnitsInType DEF Fulfilled, Units
<1>2. CASE quantity[l] = 0
  BY <1>1, <1>2
<1>3. CASE quantity[l] # 0
  <2>1. states \subseteq LineStates(fs)
    BY <1>3 DEF LineStates
  <2>2. states \subseteq {s}
    BY <2>1 DEF AllItems
  <2>3. of # {} /\ \A f \in of : fs[f].state = s
    BY <2>2
  <2>4. IsFiniteSet(active)
    BY SomeAreFinite
  <2>5. \A f \in DOMAIN fs : units[f] \in Nat /\ units[f] = fs[f].units[l] + fs[f].again[l]
    BY FulfillmentType
  <2>6. s \in ActiveStates
    BY DEF ActiveStates, FulfillmentStates
  <2>7. inS \in SUBSET active
    BY <2>6
  <2>8. /\ IntegersOn(units, active)
        /\ \A f \in active \ inS : units[f] = 0
    BY <2>3, <2>5 DEF IntegersOn
  <2>9. /\ Fulfilled(fs, l) = SumOf(units, active)
        /\ UnitsIn(fs, l, {s}) = SumOf(units, inS)
    BY DEF Fulfilled, UnitsIn
  <2>10. Fulfilled(fs, l) > 0
    <3>1. PICK f \in of : TRUE
      BY <2>3
    <3>2. /\ fs[f].units[l] + fs[f].again[l] =< Fulfilled(fs, l)
          /\ fs[f].units[l] \in Nat /\ fs[f].again[l] \in Nat
      BY <3>1, UnitsInType, FulfillmentType DEF Fulfilled
    <3>. QED
      BY <1>1, <3>1, <3>2
  <2> HIDE DEF units, active, inS
  <2>11. Fulfilled(fs, l) = UnitsIn(fs, l, {s})
    BY <2>4, <2>7, <2>8, <2>9, SumSupport
  <2>12. ~(Fulfilled(fs, l) \in 1 .. quantity[l] - 1)
    BY DEF AllItems, PartiallyFulfilled
  <2>. QED
    BY <1>1, <2>10, <2>11, <2>12
<1>. QED
  BY <1>2, <1>3

LEMMA StepShipsInFull ==
  ASSUME StockInv, Next, state' # state, state' \in {"Shipped", "Delivered"},
         NEW l \in Lines
  PROVE  UnitsIn(fulfillments', l, {state'}) >= quantity'[l]
<1>1. quantity \in Units /\ fulfillments' \in Fulfillments
  BY NextSound DEF StockInv, Sound, SoundNext
<1>2. ASSUME NEW f \in DOMAIN fulfillments, NEW to \in FulfillmentStates,
             TransitionFulfillment(f, to)
      PROVE  AllItems(fulfillments', state') /\ quantity' = quantity
  <2>1. MayEnter(state, state', fulfillments') /\ quantity' = quantity
    BY <1>2 DEF TransitionFulfillment
  <2>. QED
    BY <2>1 DEF MayEnter
<1>3. ASSUME NEW to \in OrderStates, TransitionOrder(to)
      PROVE  AllItems(fulfillments', state') /\ quantity' = quantity
  BY <1>3 DEF TransitionOrder, MayEnter
<1>4. AllItems(fulfillments', state') /\ quantity' = quantity
  <2>1. ASSUME NEW k \in Lines, NEW n \in 0 .. MaxQuantity,
               AddToCart(k, n) \/ AdjustCart(k, n) \/ ModifyLine(k, n)
        PROVE  FALSE
    BY <2>1 DEF AddToCart, AdjustCart, ModifyLine
  <2>2. ASSUME ToArrangingPayment \/ BackToAddingItems \/ Place PROVE FALSE
    BY <2>2 DEF ToArrangingPayment, BackToAddingItems, Place
  <2>3. ASSUME NEW units \in [Lines -> 0 .. MaxQuantity],
               NEW again \in [Lines -> 0 .. MaxAgain],
               CreateFulfillment(units, again) \/ CancelLines(units, again)
        PROVE  FALSE
    BY <2>3 DEF CreateFulfillment, CancelLines
  <2>4. ASSUME NEW n \in 0 .. MaxStock, AdjustStock(n) PROVE FALSE
    BY <2>4 DEF AdjustStock
  <2>. QED
    BY <1>2, <1>3, <2>1, <2>2, <2>3, <2>4 DEF Next
<1>5. UnitsIn(fulfillments', l, {state'}) >= quantity[l]
  <2> DEFINE fs == fulfillments'
             s == state'
  <2>1. fs \in Fulfillments /\ s \in {"Shipped", "Delivered"} /\ AllItems(fs, s)
    BY <1>1, <1>4
  <2> HIDE DEF fs, s
  <2>2. UnitsIn(fs, l, {s}) >= quantity[l]
    BY <1>1, <2>1, AllItemsInFull
  <2>. QED
    BY <2>2 DEF fs, s
<1>. QED
  BY <1>4, <1>5

(* Whatever the lines, quantities and fulfillments: an order that becomes
   Shipped or Delivered has all of its units in fulfillments of that state. *)
THEOREM ShippedMeansInFull == Spec => ShippedInFull
<1>1. StockInv /\ [Next]_vars
        => [state' # state /\ state' \in {"Shipped", "Delivered"} =>
              \A l \in Lines : UnitsIn(fulfillments', l, {state'}) >= quantity'[l]]_vars
  BY StepShipsInFull DEF vars
<1>. QED
  BY <1>1, StockIsSound, PTL DEF Spec, ShippedInFull

(* The sum of the cart after one line changed. *)
LEMMA CartSum ==
  ASSUME NEW q \in Units, NEW l \in Lines, NEW n \in Nat
  PROVE  /\ SumOver([q EXCEPT ![l] = n]) = SumOver(q) - q[l] + n
         /\ SumOver(q) \in Int /\ q[l] \in Int
<1> DEFINE r == [q EXCEPT ![l] = n]
<1>1. /\ IntegersOn(q, Lines) /\ r[l] = n
      /\ \A k \in Lines \ {l} : r[k] = q[k]
  BY DEF Units, IntegersOn
<1>2. q[l] \in Int /\ SumOver(q) \in Int
  BY UnitsSum DEF Units
<1> HIDE DEF r
<1>3. SumOver(r) = SumOver(q) - q[l] + n
  BY <1>1, ConstantsAssumption, SumUpdate DEF SumOver
<1>. QED
  BY <1>2, <1>3 DEF r

LEMMA StepWithinSaleable ==
  ASSUME StockInv, Next, state = "AddingItems", SumOver(quantity') > SumOver(quantity)
  PROVE  SumOver(quantity') =< Saleable
<1> DEFINE all == SumOver(quantity)
           free == Saleable
<1>1. quantity \in Units /\ all \in Int /\ free \in Int
  BY ConstantsAssumption, UnitsSum
     DEF StockInv, Sound, Stocks, Units, Saleable, SaleableOf
<1>2. \A m, e, o : ConstrainToSaleable(m, e, o) =
                    IF free < m + e + o THEN AtLeast(free - e - o, 0) ELSE m + e
  BY DEF ConstrainToSaleable
<1>3. \A l : InOtherLines(l) = all - quantity[l]
  BY DEF InOtherLines
<1> HIDE DEF all, free
<1>4. ASSUME NEW l \in Lines, NEW n \in 0 .. MaxQuantity, AddToCart(l, n)
      PROVE  SumOver(quantity') =< Saleable
  <2> DEFINE c == ConstrainToSaleable(n, quantity[l], InOtherLines(l))
             m == IF c < n THEN quantity[l] + c ELSE c
  <2>1. n \in Nat /\ quantity[l] \in Nat
    BY <1>1, ConstantsAssumption DEF Units
  <2>2. c # 0 /\ n > 0 /\ quantity' = [quantity EXCEPT ![l] = m]
    BY <1>4 DEF AddToCart
  <2>3. c = IF free < n + quantity[l] + (all - quantity[l])
            THEN AtLeast(free - quantity[l] - (all - quantity[l]), 0)
            ELSE n + quantity[l]
    BY <1>2, <1>3
  <2> HIDE DEF c
  <2>4. c = IF free < n + all THEN AtLeast(free - all, 0) ELSE n + quantity[l]
    BY <1>1, <2>1, <2>3
  <2>5. m \in Nat /\ all - quantity[l] + m =< free
    BY <1>1, <2>1, <2>2, <2>4 DEF AtLeast
  <2> HIDE DEF m
  <2>6. SumOver(quantity') = all - quantity[l] + m
    BY <1>1, <2>2, <2>5, CartSum DEF all
  <2>. QED
    BY <2>5, <2>6 DEF free
<1>5. ASSUME NEW l \in Lines, NEW n \in 0 .. MaxQuantity, AdjustCart(l, n)
      PROVE  SumOver(quantity') =< Saleable
  <2> DEFINE c == ConstrainToSaleable(n, 0, InOtherLines(l))
  <2>1. n \in Nat /\ quantity[l] \in Nat
    BY <1>1, ConstantsAssumption DEF Units
  <2>2. quantity' = [quantity EXCEPT ![l] = c]
    BY <1>5 DEF AdjustCart
  <2>3. c = IF free < n + 0 + (all - quantity[l])
            THEN AtLeast(free - 0 - (all - quantity[l]), 0) ELSE n + 0
    BY <1>2, <1>3
  <2> HIDE DEF c
  <2>4. c \in Nat
    BY <1>1, <2>1, <2>3 DEF AtLeast
  <2>5. SumOver(quantity') = all - quantity[l] + c
    BY <1>1, <2>2, <2>4, CartSum DEF all
  <2>6. all - quantity[l] + c > all
    BY <2>5 DEF all
  <2>7. all - quantity[l] + c =< free
    BY <1>1, <2>1, <2>3, <2>4, <2>6 DEF AtLeast
  <2>. QED
    BY <2>5, <2>7 DEF free
<1>6. quantity' # quantity
  BY <1>1 DEF all
<1>7. \E l \in Lines, n \in 0 .. MaxQuantity : AddToCart(l, n) \/ AdjustCart(l, n)
  <2>1. ASSUME NEW k \in Lines, NEW n \in 0 .. MaxQuantity, ModifyLine(k, n)
        PROVE  FALSE
    BY <2>1 DEF ModifyLine
  <2>2. ASSUME ToArrangingPayment \/ BackToAddingItems \/ Place PROVE FALSE
    BY <1>6, <2>2 DEF ToArrangingPayment, BackToAddingItems, Place
  <2>3. ASSUME NEW units \in [Lines -> 0 .. MaxQuantity],
               NEW again \in [Lines -> 0 .. MaxAgain],
               CreateFulfillment(units, again) \/ CancelLines(units, again)
        PROVE  FALSE
    BY <2>3 DEF CreateFulfillment, CancelLines, PlacedStates, FulfilledStates
  <2>4. ASSUME NEW n \in 0 .. MaxStock, AdjustStock(n) PROVE FALSE
    BY <1>6, <2>4 DEF AdjustStock
  <2>5. ASSUME NEW f \in DOMAIN fulfillments, NEW to \in FulfillmentStates,
               TransitionFulfillment(f, to)
        PROVE  FALSE
    BY <1>6, <2>5 DEF TransitionFulfillment
  <2>6. ASSUME NEW to \in OrderStates, TransitionOrder(to) PROVE FALSE
    BY <1>6, <2>6 DEF TransitionOrder
  <2>. QED
    BY <2>1, <2>2, <2>3, <2>4, <2>5, <2>6 DEF Next
<1>. QED
  BY <1>4, <1>5, <1>7

(* Whatever the thresholds and the other lines of the variant: a cart that
   grows stays within the saleable stock. *)
THEOREM CartStaysSaleable == Spec => CartWithinSaleable
<1>1. StockInv /\ [Next]_vars
        => [state = "AddingItems" /\ SumOver(quantity') > SumOver(quantity) =>
              SumOver(quantity') =< Saleable]_vars
  BY StepWithinSaleable DEF vars
<1>. QED
  BY <1>1, StockIsSound, PTL DEF Spec, CartWithinSaleable

=============================================================================
