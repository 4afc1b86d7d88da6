-------------------------- MODULE OrderPrices_proofs --------------------------
(***************************************************************************)
(* The prices of an order have their types, add up, are not negative,      *)
(* contain the whole of the discounts, and do not change when they are     *)
(* calculated again: for any lines, prices, promotions and surcharges.     *)
(***************************************************************************)
EXTENDS OrderPrices, SumTheorems

-----------------------------------------------------------------------------
(* Numbers.                                                                *)

LEMMA Divided ==
  ASSUME NEW n \in Int, NEW d \in Int, d > 0
  PROVE  /\ n \div d \in Int
         /\ n % d \in 0 .. d - 1
         /\ n = d * (n \div d) + (n % d)
OBVIOUS

LEMMA Cancelled ==
  ASSUME NEW d \in Int, d > 0, NEW x \in Int, NEW y \in Int, d * x < d * y
  PROVE  x < y
OBVIOUS

(* Rounding keeps whole bounds. *)
LEMMA RoundBounds ==
  ASSUME NEW n \in Int, NEW d \in Int, d > 0, NEW k \in Int
  PROVE  /\ RoundMoney(n, d) \in Int
         /\ k * d =< n => k =< RoundMoney(n, d)
         /\ n =< k * d => RoundMoney(n, d) =< k
<1> DEFINE r == (2 * n + d) \div (2 * d)
           e == (2 * n + d) % (2 * d)
<1>1. /\ r \in Int /\ e \in 0 .. 2 * d - 1
      /\ 2 * n + d = (2 * d) * r + e
  BY Divided
<1>2. RoundMoney(n, d) = r
  BY DEF RoundMoney
<1> HIDE DEF r, e
<1>3. ASSUME k * d =< n PROVE k =< r
  <2>1. d * k = k * d /\ d * k \in Int /\ d * r \in Int
    BY <1>1
  <2>2. (2 * d) * r = 2 * (d * r) /\ d * (r + 1) = d * r + d
    BY <1>1
  <2>3. d * k < d * (r + 1)
    BY <1>1, <1>3, <2>1, <2>2
  <2>4. k < r + 1
    BY <1>1, <2>3, Cancelled
  <2>. QED
    BY <1>1, <2>4
<1>4. ASSUME n =< k * d PROVE r =< k
  <2>1. d * k = k * d /\ d * k \in Int /\ d * r \in Int
    BY <1>1
  <2>2. (2 * d) * r = 2 * (d * r) /\ d * (k + 1) = d * k + d
    BY <1>1
  <2>3. d * r < d * (k + 1)
    BY <1>1, <1>4, <2>1, <2>2
  <2>4. r < k + 1
    BY <1>1, <2>3, Cancelled
  <2>. QED
    BY <1>1, <2>4
<1>. QED
  BY <1>1, <1>2, <1>3, <1>4

LEMMA Products ==
  ASSUME NEW x \in Int, NEW y \in Int, NEW z \in Int, 0 =< z, x =< y
  PROVE  x * z =< y * z
OBVIOUS

(* A part of an amount is between nothing and all of it. *)
LEMMA RoundPart ==
  ASSUME NEW x \in Nat, NEW q \in Nat, NEW u \in Nat, 1 =< u, q =< u
  PROVE  RoundMoney(x * q, u) \in 0 .. x
<1>1. x * q \in Int /\ 0 * u =< x * q
  <2>1. 0 * q =< x * q
    BY Products
  <2>. QED
    BY <2>1
<1>2. x * q =< x * u
  <2>1. q * x =< u * x
    BY Products
  <2>. QED
    BY <2>1
<1>3. 0 =< RoundMoney(x * q, u) /\ RoundMoney(x * q, u) =< x /\ RoundMoney(x * q, u) \in Int
  BY <1>1, <1>2, RoundBounds
<1>. QED
  BY <1>3

-----------------------------------------------------------------------------
(* Recursion: the results of a number of steps exist, if every step is one *)
(* from S to S.                                                            *)

Follows(f, S, b, N, step) ==
  /\ f \in [0 .. N -> S]
  /\ f[0] = b
  /\ \A n \in 1 .. N : f[n] = step[<<n, f[n - 1]>>]

LEMMA StepsExist ==
  ASSUME NEW S, NEW b \in S, NEW N \in Nat, NEW step \in [(1 .. N) \X S -> S]
  PROVE  \E f : Follows(f, S, b, N, step)
<1> DEFINE P == {n \in Nat : n =< N =>
                   \E f \in [0 .. n -> S] :
                     f[0] = b /\ \A k \in 1 .. n : f[k] = step[<<k, f[k - 1]>>]}
<1>1. 0 \in P
  <2> DEFINE f == [n \in 0 .. 0 |-> b]
  <2>1. f \in [0 .. 0 -> S] /\ f[0] = b
    OBVIOUS
  <2>2. 1 .. 0 = {}
    OBVIOUS
  <2> HIDE DEF f
  <2>. QED
    BY <2>1, <2>2
<1>2. ASSUME NEW n \in Nat, n \in P PROVE n + 1 \in P
  <2> SUFFICES ASSUME n + 1 =< N
               PROVE  \E f \in [0 .. n + 1 -> S] :
                        f[0] = b /\ \A k \in 1 .. n + 1 : f[k] = step[<<k, f[k - 1]>>]
    OBVIOUS
  <2>1. PICK f \in [0 .. n -> S] :
          f[0] = b /\ \A k \in 1 .. n : f[k] = step[<<k, f[k - 1]>>]
    BY <1>2
  <2> DEFINE g == [k \in 0 .. n + 1 |-> IF k =< n THEN f[k] ELSE step[<<n + 1, f[n]>>]]
  <2>2. step[<<n + 1, f[n]>>] \in S
    BY <2>1
  <2>3. g \in [0 .. n + 1 -> S]
    BY <2>2
  <2>4. g[0] = b /\ g[n] = f[n] /\ g[n + 1] = step[<<n + 1, f[n]>>]
    BY <2>1
  <2>5. ASSUME NEW k \in 1 .. n PROVE g[k] = step[<<k, g[k - 1]>>]
    <3>1. k \in 0 .. n + 1 /\ k - 1 \in 0 .. n + 1 /\ k =< n /\ k - 1 =< n
      OBVIOUS
    <3>2. g[k] = f[k] /\ g[k - 1] = f[k - 1]
      BY <3>1
    <3>3. f[k] = step[<<k, f[k - 1]>>]
      BY <2>1
    <3> HIDE DEF g
    <3>. QED
      BY <3>2, <3>3
  <2> HIDE DEF g
  <2>6. ASSUME NEW k \in 1 .. n + 1 PROVE g[k] = step[<<k, g[k - 1]>>]
    <3>1. CASE k \in 1 .. n
      BY <2>5, <3>1
    <3>2. CASE k = n + 1
      <4>1. k - 1 = n
        BY <3>2
      <4>. QED
        BY <2>4, <3>2, <4>1
    <3>. QED
      BY <3>1, <3>2
  <2>. QED
    BY <2>3, <2>4, <2>6
<1>3. N \in P
  <2> HIDE DEF P
  <2>. QED
    BY <1>1, <1>2, NumberInduction
<1>. QED
  BY <1>3 DEF Follows

LEMMA StepsStay ==
  ASSUME NEW S, NEW N \in Nat, NEW f, f[0] \in S,
         \A n \in 1 .. N : f[n - 1] \in S => f[n] \in S
  PROVE  \A n \in 0 .. N : f[n] \in S
<1> DEFINE P == {n \in Nat : n =< N => f[n] \in S}
<1>1. 0 \in P
  OBVIOUS
<1>2. ASSUME NEW n \in Nat, n \in P PROVE n + 1 \in P
  <2> SUFFICES ASSUME n + 1 =< N PROVE f[n + 1] \in S
    OBVIOUS
  <2>1. f[n] \in S /\ n + 1 \in 1 .. N /\ (n + 1) - 1 = n
    BY <1>2
  <2>. QED
    BY <2>1
<1>3. \A n \in Nat : n \in P
  <2> HIDE DEF P
  <2>. QED
    BY <1>1, <1>2, NumberInduction
<1>. QED
  BY <1>3

-----------------------------------------------------------------------------
(* Ranks: of the elements of a finite set in a strict order, m have fewer  *)
(* than m before them.                                                     *)

StrictOrder(R, S) ==
  /\ \A x \in S : <<x, x>> \notin R
  /\ \A x, y, z \in S : <<x, y>> \in R /\ <<y, z>> \in R => <<x, z>> \in R
  /\ \A x, y \in S : x # y => <<x, y>> \in R \/ <<y, x>> \in R

Before(R, S, x) == {y \in S : <<y, x>> \in R}

Rank(R, S, x) == Cardinality(Before(R, S, x))

LEMMA FirstExists ==
  ASSUME NEW S, IsFiniteSet(S), S # {}, NEW R, StrictOrder(R, S)
  PROVE  \E x \in S : \A y \in S : <<y, x>> \notin R
<1> DEFINE P == {T \in SUBSET S : T # {} => \E x \in T : \A y \in T : <<y, x>> \notin R}
<1>1. {} \in P
  OBVIOUS
<1>2. ASSUME NEW T \in SUBSET S, NEW x \in S, T \in P, x \notin T
      PROVE  T \cup {x} \in P
  <2>1. CASE T = {}
    BY <2>1 DEF StrictOrder
  <2>2. CASE T # {}
    <3>1. PICK t \in T : \A y \in T : <<y, t>> \notin R
      BY <1>2, <2>2
    <3>2. CASE <<x, t>> \in R
      <4>1. \A y \in T \cup {x} : <<y, x>> \notin R
        BY <3>1, <3>2 DEF StrictOrder
      <4>. QED
        BY <4>1
    <3>3. CASE <<x, t>> \notin R
      <4>1. \A y \in T \cup {x} : <<y, t>> \notin R
        BY <3>1, <3>3
      <4>. QED
        BY <4>1
    <3>. QED
      BY <3>2, <3>3
  <2>. QED
    BY <2>1, <2>2
<1>3. S \in P
  <2> HIDE DEF P
  <2>. QED
    BY <1>1, <1>2, ElementInduction
<1>. QED
  BY <1>3

LEMMA RankType ==
  ASSUME NEW S, IsFiniteSet(S), NEW R
  PROVE  \A x \in S : IsFiniteSet(Before(R, S, x)) /\ Rank(R, S, x) \in Nat
<1> SUFFICES ASSUME NEW x \in S
             PROVE  IsFiniteSet(Before(R, S, x)) /\ Rank(R, S, x) \in Nat
  OBVIOUS
<1>1. Before(R, S, x) \in SUBSET S
  BY DEF Before
<1>. QED
  BY <1>1, FS_Subset, FS_CardinalityType DEF Rank

(* More come before what comes later. *)
LEMMA RankGrows ==
  ASSUME NEW S, IsFiniteSet(S), NEW R, StrictOrder(R, S),
         NEW x \in S, NEW y \in S, <<x, y>> \in R
  PROVE  Rank(R, S, x) < Rank(R, S, y)
<1>1. Before(R, S, x) \subseteq Before(R, S, y)
  BY DEF Before, StrictOrder
<1>2. x \in Before(R, S, y) /\ x \notin Before(R, S, x)
  BY DEF Before, StrictOrder
<1>3. IsFiniteSet(Before(R, S, y)) /\ IsFiniteSet(Before(R, S, x))
  BY RankType
<1>4. /\ Cardinality(Before(R, S, x)) =< Cardinality(Before(R, S, y))
      /\ (Cardinality(Before(R, S, x)) = Cardinality(Before(R, S, y))
            => Before(R, S, x) = Before(R, S, y))
  BY <1>1, <1>3, FS_Subset
<1>. QED
  BY <1>2, <1>4, RankType DEF Rank

LEMMA FirstOnes ==
  ASSUME NEW S, IsFiniteSet(S), NEW R, StrictOrder(R, S),
         NEW m \in Nat, m =< Cardinality(S)
  PROVE  Cardinality({x \in S : Rank(R, S, x) < m}) = m
<1> DEFINE First(n) == {x \in S : Rank(R, S, x) < n}
           P == {n \in Nat : n =< Cardinality(S) => Cardinality(First(n)) = n}
<1>1. 0 \in P
  <2>1. First(0) = {}
    BY RankType
  <2>. QED
    BY <2>1, FS_EmptySet
<1>2. ASSUME NEW n \in Nat, n \in P PROVE n + 1 \in P
  <2> SUFFICES ASSUME n + 1 =< Cardinality(S) PROVE Cardinality(First(n + 1)) = n + 1
    OBVIOUS
  <2>0. Cardinality(S) \in Nat
    BY FS_CardinalityType
  <2>1. Cardinality(First(n)) = n
    BY <1>2, <2>0
  <2> DEFINE rest == S \ First(n)
  <2>2. IsFiniteSet(First(n)) /\ IsFiniteSet(rest)
    BY FS_Subset
  <2>3. rest # {}
    <3>1. First(n) = S => Cardinality(S) = n
      BY <2>1
    <3>. QED
      BY <2>0, <3>1
  <2>4. StrictOrder(R, rest)
    BY DEF StrictOrder
  <2>5. PICK x \in rest : \A y \in rest : <<y, x>> \notin R
    <3> HIDE DEF rest
    <3>. QED
      BY <2>2, <2>3, <2>4, FirstExists
  <2>6. Before(R, S, x) = First(n)
    <3>1. ASSUME NEW y \in S, <<y, x>> \in R PROVE y \in First(n)
      BY <2>5, <3>1
    <3>2. ASSUME NEW y \in First(n) PROVE <<y, x>> \in R
      <4>1. ~(<<x, y>> \in R)
        <5>1. <<x, y>> \in R => Rank(R, S, x) < Rank(R, S, y)
          BY RankGrows
        <5>2. Rank(R, S, x) \in Nat /\ Rank(R, S, y) \in Nat
          BY RankType
        <5>. QED
          BY <5>1, <5>2
      <4>. QED
        BY <4>1 DEF StrictOrder
    <3>. QED
      BY <3>1, <3>2 DEF Before
  <2>7. Rank(R, S, x) = n
    BY <2>1, <2>6 DEF Rank
  <2>8. First(n + 1) = First(n) \cup {x}
    <3>1. ASSUME NEW y \in S, Rank(R, S, y) = n PROVE y = x
      <4>1. <<x, y>> \in R => Rank(R, S, x) < Rank(R, S, y)
        BY RankGrows
      <4>2. <<y, x>> \in R => Rank(R, S, y) < Rank(R, S, x)
        BY RankGrows
      <4>. QED
        BY <2>7, <3>1, <4>1, <4>2 DEF StrictOrder
    <3>2. \A y \in S : Rank(R, S, y) \in Nat
      BY RankType
    <3>3. \A y \in S : Rank(R, S, y) < n + 1 <=> (Rank(R, S, y) < n \/ y = x)
      BY <2>7, <3>1, <3>2
    <3>. QED
      BY <3>3
  <2>. QED
    BY <2>1, <2>2, <2>8, FS_AddElement
<1>3. m \in P
  <2> HIDE DEF P
  <2>. QED
    BY <1>1, <1>2, NumberInduction
<1>. QED
  BY <1>3

-----------------------------------------------------------------------------
(* Lines and prices.                                                       *)

Orders ==
  [state: {"AddingItems", "Placed", "Cancelled"},
   lines: SUBSET Lines,
   quantity: [Lines -> 0 .. MaxQuantity],
   placed: [Lines -> 0 .. MaxQuantity],
   promotion: [Lines -> Int],
   distributed: [Lines -> Int],
   given: Int,
   raised: SUBSET Lines,
   coupons: SUBSET Codes,
   surcharge: Int,
   subTotal: Int]

LEMMA Constants ==
  /\ Len(ListPrices) \in Nat /\ IsFiniteSet(Lines)
  /\ \A l \in Lines : ListPrices[l] \in Nat
  /\ Len(Promotions) \in Nat
  /\ \A p \in Codes : /\ Promotions[p].action \in {"item", "line", "fixed", "percentage"}
                      /\ Promotions[p].value \in Nat
                      /\ Promotions[p].minimum \in Nat
  /\ MaxQuantity \in Nat /\ Surcharges \subseteq Int
<1>1. Len(ListPrices) \in Nat /\ \A l \in Lines : ListPrices[l] \in Nat
  BY ConstantsAssumption DEF Lines
<1>2. /\ Len(Promotions) \in Nat
      /\ \A p \in Codes : Promotions[p] \in
           [action: {"item", "line", "fixed", "percentage"},
            value: Nat, minimum: Nat, on: SUBSET Lines]
  <2> DEFINE R == [action: {"item", "line", "fixed", "percentage"},
                   value: Nat, minimum: Nat, on: SUBSET Lines]
  <2>1. Promotions \in Seq(R)
    BY ConstantsAssumption
  <2> HIDE DEF R
  <2>2. Len(Promotions) \in Nat /\ \A p \in Codes : Promotions[p] \in R
    BY <2>1 DEF Codes
  <2>. QED
    BY <2>2 DEF R
<1>3. IsFiniteSet(Lines)
  BY <1>1, FS_Interval DEF Lines
<1>. QED
  BY <1>1, <1>2, <1>3, ConstantsAssumption

LEMMA MaxOfTwo ==
  ASSUME NEW a \in Int, NEW b \in Int
  PROVE  /\ Max({a, b}) \in {a, b} /\ a =< Max({a, b}) /\ b =< Max({a, b})
         /\ Min({a, b}) \in {a, b} /\ Min({a, b}) =< a /\ Min({a, b}) =< b
<1>1. \E x \in {a, b} : \A y \in {a, b} : x >= y
  <2>1. a >= b \/ b >= a
    OBVIOUS
  <2>. QED
    BY <2>1
<1>2. \E x \in {a, b} : \A y \in {a, b} : x =< y
  <2>1. a =< b \/ b =< a
    OBVIOUS
  <2>. QED
    BY <2>1
<1>3. Max({a, b}) \in {a, b} /\ \A y \in {a, b} : Max({a, b}) >= y
  BY <1>1 DEF Max
<1>4. Min({a, b}) \in {a, b} /\ \A y \in {a, b} : Min({a, b}) =< y
  BY <1>2 DEF Min
<1>. QED
  BY <1>3, <1>4

LEMMA MaxWithOne ==
  ASSUME NEW a \in Int, NEW b \in Int
  PROVE  /\ Max({a, b, 1}) \in {a, b, 1}
         /\ a =< Max({a, b, 1}) /\ b =< Max({a, b, 1}) /\ 1 =< Max({a, b, 1})
<1>1. \E x \in {a, b, 1} : \A y \in {a, b, 1} : x >= y
  <2>1. \/ a >= b /\ a >= 1
        \/ b >= a /\ b >= 1
        \/ 1 >= a /\ 1 >= b
    OBVIOUS
  <2>. QED
    BY <2>1
<1>2. Max({a, b, 1}) \in {a, b, 1} /\ \A y \in {a, b, 1} : Max({a, b, 1}) >= y
  BY <1>1 DEF Max
<1>. QED
  BY <1>2

(* The units that share the adjustments of a line, and what they cost. *)
Units(o, l) == Max({o.placed[l], o.quantity[l], 1})

Worth(o, l) == ListPrices[l] * Units(o, l) + Adjustments(o, l)

LEMMA UnitsAre ==
  ASSUME NEW o \in Orders, NEW l \in Lines
  PROVE  /\ Units(o, l) \in Nat /\ 1 =< Units(o, l)
         /\ Units(o, l) \in {o.placed[l], o.quantity[l], 1}
         /\ o.quantity[l] \in Nat /\ o.quantity[l] =< Units(o, l)
         /\ o.placed[l] \in Nat /\ o.placed[l] =< Units(o, l)
<1>1. o.quantity[l] \in Nat /\ o.placed[l] \in Nat
  BY Constants DEF Orders
<1> DEFINE a == o.placed[l]
           b == o.quantity[l]
<1>2. a \in Int /\ b \in Int
  BY <1>1
<1> HIDE DEF a, b
<1>3. /\ Max({a, b, 1}) \in {a, b, 1}
      /\ a =< Max({a, b, 1}) /\ b =< Max({a, b, 1}) /\ 1 =< Max({a, b, 1})
  BY <1>2, MaxWithOne
<1>4. Units(o, l) = Max({a, b, 1})
  BY DEF Units, a, b
<1>5. a \in Nat /\ b \in Nat
  BY <1>1 DEF a, b
<1> DEFINE u == Units(o, l)
<1>6. u \in {a, b, 1} /\ a =< u /\ b =< u /\ 1 =< u
  BY <1>3, <1>4
<1> HIDE DEF u
<1>7. u \in Nat
  BY <1>5, <1>6
<1>. QED
  BY <1>5, <1>6, <1>7 DEF a, b, u

LEMMA WorthType ==
  ASSUME NEW o \in Orders, NEW l \in Lines
  PROVE  Worth(o, l) \in Int
<1>1. o.promotion[l] \in Int /\ o.distributed[l] \in Int
  BY DEF Orders
<1>2. ListPrices[l] \in Nat /\ Units(o, l) \in Nat
  BY Constants, UnitsAre
<1>3. ListPrices[l] * Units(o, l) \in Int
  BY <1>2
<1>. QED
  BY <1>1, <1>3 DEF Worth, Adjustments

LEMMA PriceIs ==
  ASSUME NEW o \in Orders, NEW l \in Lines
  PROVE  /\ ProratedLinePrice(o, l) \in Int
         /\ Worth(o, l) >= 0 => ProratedLinePrice(o, l) \in 0 .. Worth(o, l)
         /\ o.quantity[l] = 0 => ProratedLinePrice(o, l) = 0
<1>1. ProratedLinePrice(o, l) = RoundMoney(Worth(o, l) * o.quantity[l], Units(o, l))
  BY DEF ProratedLinePrice, Worth, Units
<1>2. /\ Worth(o, l) \in Int /\ o.quantity[l] \in Nat
      /\ Units(o, l) \in Nat /\ 1 =< Units(o, l) /\ o.quantity[l] =< Units(o, l)
  BY WorthType, UnitsAre
<1>3. Worth(o, l) * o.quantity[l] \in Int
  BY <1>2
<1>4. ProratedLinePrice(o, l) \in Int
  BY <1>1, <1>2, <1>3, RoundBounds
<1>5. ASSUME Worth(o, l) >= 0 PROVE ProratedLinePrice(o, l) \in 0 .. Worth(o, l)
  BY <1>1, <1>2, <1>5, RoundPart
<1>6. ASSUME o.quantity[l] = 0 PROVE ProratedLinePrice(o, l) = 0
  <2>1. Worth(o, l) * o.quantity[l] = 0 /\ 0 * Units(o, l) = 0
    BY <1>2, <1>6
  <2>2. RoundMoney(0, Units(o, l)) = 0
    BY <1>2, <2>1, RoundBounds
  <2>. QED
    BY <1>1, <2>1, <2>2
<1>. QED
  BY <1>4, <1>5, <1>6

LEMMA LimitedIs ==
  ASSUME NEW o \in Orders, NEW l \in Lines, NEW amount \in Int
  PROVE  /\ Limited(o, l, amount) \in Int
         /\ Worth(o, l) >= 0 => Worth(o, l) + Limited(o, l, amount) >= 0
         /\ amount >= -ProratedLinePrice(o, l) => Limited(o, l, amount) = amount
<1>1. ProratedLinePrice(o, l) \in Int /\ Worth(o, l) \in Int
  BY PriceIs, WorthType
<1>2. /\ Limited(o, l, amount) \in {-ProratedLinePrice(o, l), amount}
      /\ -ProratedLinePrice(o, l) =< Limited(o, l, amount)
      /\ amount =< Limited(o, l, amount)
  <2> DEFINE a == -ProratedLinePrice(o, l)
  <2>1. a \in Int
    BY <1>1
  <2>2. Limited(o, l, amount) = Max({a, amount})
    BY DEF Limited
  <2> HIDE DEF a
  <2>3. Max({a, amount}) \in {a, amount} /\ a =< Max({a, amount}) /\ amount =< Max({a, amount})
    BY <2>1, MaxOfTwo
  <2>. QED
    BY <2>2, <2>3 DEF a
<1>3. Worth(o, l) >= 0 => ProratedLinePrice(o, l) =< Worth(o, l)
  BY <1>1, PriceIs
<1>. QED
  BY <1>1, <1>2, <1>3

-----------------------------------------------------------------------------
(* What a calculation leaves alone, and totals.                            *)

(* q is the order o with other adjustments and totals. *)
Frame(o, q) ==
  /\ q.state = o.state /\ q.lines = o.lines /\ q.quantity = o.quantity
  /\ q.placed = o.placed /\ q.raised = o.raised /\ q.coupons = o.coupons
  /\ q.surcharge = o.surcharge

SameLine(o, q, l) ==
  q.promotion[l] = o.promotion[l] /\ q.distributed[l] = o.distributed[l]

LEMMA SamePrice ==
  ASSUME NEW o, NEW q, NEW l, Frame(o, q), SameLine(o, q, l)
  PROVE  /\ ProratedLinePrice(q, l) = ProratedLinePrice(o, l)
         /\ Worth(q, l) = Worth(o, l)
BY DEF Frame, SameLine, ProratedLinePrice, Worth, Units, Adjustments

Prices(o) == [l \in Lines |-> ProratedLinePrice(o, l)]

LEMMA SumOfPrices ==
  ASSUME NEW o \in Orders
  PROVE  Sum(Prices(o)) \in Int /\ IntegersOn(Prices(o), Lines)
<1>1. IntegersOn(Prices(o), Lines)
  BY PriceIs DEF IntegersOn, Prices
<1>. QED
  BY <1>1, Constants, SumType DEF Sum

LEMMA TotalsAre ==
  ASSUME NEW o \in Orders
  PROVE  LET q == CalculateOrderTotals(o)
         IN  /\ q \in Orders /\ Frame(o, q)
             /\ q.promotion = o.promotion /\ q.distributed = o.distributed
             /\ q.given = o.given
             /\ q.subTotal = Sum(Prices(o)) + o.surcharge
             /\ \A l \in Lines : Worth(q, l) = Worth(o, l)
             /\ Prices(q) = Prices(o)
<1> DEFINE q == CalculateOrderTotals(o)
           total == Sum(Prices(o)) + o.surcharge
<1>1. total \in Int
  <2>1. o.surcharge \in Int
    BY DEF Orders
  <2>. QED
    BY <2>1, SumOfPrices
<1>2. q = [o EXCEPT !.subTotal = total]
  BY DEF CalculateOrderTotals, Prices
<1> HIDE DEF q, total
<1>3. /\ q \in Orders /\ Frame(o, q)
      /\ q.promotion = o.promotion /\ q.distributed = o.distributed
      /\ q.given = o.given /\ q.subTotal = total
  BY <1>1, <1>2 DEF Orders, Frame
<1>4. \A l \in Lines : SameLine(o, q, l)
  BY <1>3 DEF SameLine
<1>5. \A l \in Lines : /\ Worth(q, l) = Worth(o, l)
                       /\ ProratedLinePrice(q, l) = ProratedLinePrice(o, l)
  BY <1>3, <1>4, SamePrice
<1>6. Prices(q) = Prices(o)
  BY <1>5 DEF Prices
<1>. QED
  BY <1>3, <1>5, <1>6 DEF q, total

-----------------------------------------------------------------------------
(* The promotions of one line.                                             *)

LEMMA LineAmountType ==
  ASSUME NEW o \in Orders, NEW p \in Codes, NEW l \in Lines
  PROVE  LineAmount(o, p, l) \in Int
<1>1. Promotions[p].value \in Nat /\ ListPrices[l] \in Nat
  BY Constants
<1>2. o.quantity[l] \in Nat
  BY UnitsAre
<1>3. LinePrice(o, l) \in Int
  BY <1>1, <1>2 DEF LinePrice
<1>4. -Promotions[p].value * LinePrice(o, l) \in Int
  BY <1>1, <1>3
<1>5. RoundMoney(-Promotions[p].value * LinePrice(o, l), 100) \in Int
  BY <1>4, RoundBounds
<1>6. -Promotions[p].value \in Int
  BY <1>1
<1>. QED
  BY <1>5, <1>6 DEF LineAmount

(* The orders in which the promotions of line l of o are calculated. *)
LineOrders(o, l) ==
  {q \in Orders : /\ Frame(o, q) /\ q.given = o.given
                  /\ \A k \in Lines \ {l} : SameLine(o, q, k)
                  /\ q.distributed[l] = 0
                  /\ Worth(q, l) >= 0}

LEMMA ClearedLine ==
  ASSUME NEW o \in Orders, NEW l \in Lines
  PROVE  ClearAdjustments(o, l) \in LineOrders(o, l)
<1> DEFINE q == ClearAdjustments(o, l)
<1>1. /\ q \in Orders /\ Frame(o, q) /\ q.given = o.given
      /\ q.promotion = [o.promotion EXCEPT ![l] = 0]
      /\ q.distributed = [o.distributed EXCEPT ![l] = 0]
  <2> DEFINE promotion == [o.promotion EXCEPT ![l] = 0]
             distributed == [o.distributed EXCEPT ![l] = 0]
  <2>1. promotion \in [Lines -> Int] /\ distributed \in [Lines -> Int]
    BY DEF Orders
  <2>2. q = [o EXCEPT !.promotion = promotion, !.distributed = distributed]
    BY DEF ClearAdjustments, Orders
  <2> HIDE DEF promotion, distributed, q
  <2>3. /\ q \in Orders /\ Frame(o, q) /\ q.given = o.given
        /\ q.promotion = promotion /\ q.distributed = distributed
    BY <2>1, <2>2 DEF Orders, Frame
  <2>. QED
    BY <2>3 DEF promotion, distributed
<1> HIDE DEF q
<1>2. /\ q.promotion[l] = 0 /\ q.distributed[l] = 0
      /\ \A k \in Lines \ {l} : SameLine(o, q, k)
  BY <1>1 DEF SameLine, Orders
<1>3. Worth(q, l) >= 0
  <2>1. Units(q, l) \in Nat /\ ListPrices[l] \in Nat
    BY <1>1, UnitsAre, Constants
  <2>2. ListPrices[l] * Units(q, l) \in Nat
    BY <2>1
  <2>. QED
    BY <1>2, <2>2 DEF Worth, Adjustments
<1>. QED
  BY <1>1, <1>2, <1>3 DEF LineOrders, q

LEMMA AppliedToLine ==
  ASSUME NEW o \in Orders, NEW l \in Lines, NEW p \in Codes,
         NEW b \in LineOrders(o, l)
  PROVE  ApplyToLine(b, p, l) \in LineOrders(o, l)
<1> DEFINE amount == Limited(b, l, LineAmount(b, p, l))
           c == [b EXCEPT !.promotion[l] = @ + amount]
           q == CalculateOrderTotals(c)
<1>0. b \in Orders /\ Frame(o, b) /\ b.given = o.given /\ b.distributed[l] = 0
      /\ Worth(b, l) >= 0 /\ \A k \in Lines \ {l} : SameLine(o, b, k)
  BY DEF LineOrders
<1>1. amount \in Int /\ Worth(b, l) + amount >= 0
  BY <1>0, LineAmountType, LimitedIs
<1>2. ApplyToLine(b, p, l) \in {b, q}
  BY DEF ApplyToLine
<1> HIDE DEF amount
<1>3. /\ c \in Orders /\ Frame(b, c) /\ c.given = b.given
      /\ c.promotion = [b.promotion EXCEPT ![l] = b.promotion[l] + amount]
      /\ c.distributed = b.distributed
  BY <1>0, <1>1 DEF Orders, Frame
<1> HIDE DEF c
<1>4. /\ c.promotion[l] = b.promotion[l] + amount
      /\ \A k \in Lines \ {l} : SameLine(b, c, k)
  BY <1>0, <1>3 DEF SameLine, Orders
<1>5. Worth(c, l) = Worth(b, l) + amount
  <2>1. Units(c, l) = Units(b, l)
    BY <1>3 DEF Units, Frame
  <2>2. ListPrices[l] * Units(b, l) \in Int
    BY <1>0, UnitsAre, Constants
  <2>3. b.promotion[l] \in Int /\ b.distributed[l] \in Int
    BY <1>0 DEF Orders
  <2>. QED
    BY <1>1, <1>3, <1>4, <2>1, <2>2, <2>3 DEF Worth, Adjustments
<1>6. /\ q \in Orders /\ Frame(c, q) /\ q.given = c.given
      /\ q.promotion = c.promotion /\ q.distributed = c.distributed
      /\ Worth(q, l) = Worth(c, l)
  BY <1>3, TotalsAre
<1> HIDE DEF q
<1>7. Frame(o, q) /\ \A k \in Lines \ {l} : SameLine(o, q, k)
  BY <1>0, <1>3, <1>4, <1>6 DEF Frame, SameLine
<1>8. q \in LineOrders(o, l)
  BY <1>0, <1>1, <1>3, <1>5, <1>6, <1>7 DEF LineOrders
<1>. QED
  BY <1>2, <1>8

LineSteps(o, l, g) ==
  g = [p \in 0 .. Len(Promotions) |->
         IF p = 0 THEN ClearAdjustments(o, l) ELSE ApplyToLine(g[p - 1], p, l)]

LEMMA LinePromotionsAre ==
  ASSUME NEW o \in Orders, NEW l \in Lines
  PROVE  LET f == LinePromotions(o, l)
         IN  /\ f[0] = ClearAdjustments(o, l)
             /\ \A p \in Codes : f[p] = ApplyToLine(f[p - 1], p, l)
             /\ \A p \in 0 .. Len(Promotions) : f[p] \in LineOrders(o, l)
<1> DEFINE S == LineOrders(o, l)
           N == Len(Promotions)
           b == ClearAdjustments(o, l)
           step == [x \in (1 .. N) \X S |-> ApplyToLine(x[2], x[1], l)]
           f == LinePromotions(o, l)
<1>1. N \in Nat /\ Codes = 1 .. N
  BY Constants DEF Codes
<1>2. b \in S
  BY ClearedLine
<1>3. \A p \in 1 .. N, q \in S : ApplyToLine(q, p, l) \in S
  BY <1>1, AppliedToLine
<1> HIDE DEF S, N, b
<1>4. step \in [(1 .. N) \X S -> S]
  BY <1>3
<1>5. \A p \in 1 .. N, q \in S : step[<<p, q>>] = ApplyToLine(q, p, l)
  OBVIOUS
<1> HIDE DEF step
<1>6. PICK g : Follows(g, S, b, N, step)
  BY <1>1, <1>2, <1>4, StepsExist
<1>7. LineSteps(o, l, g)
  <2>1. \A p \in 1 .. N : g[p] = ApplyToLine(g[p - 1], p, l)
    <3>1. \A p \in 1 .. N : p - 1 \in 0 .. N
      BY <1>1
    <3>. QED
      BY <1>5, <1>6, <3>1 DEF Follows
  <2>2. g = [p \in 0 .. N |-> g[p]]
    BY <1>6 DEF Follows
  <2>3. \A p \in 0 .. N : g[p] = IF p = 0 THEN b ELSE ApplyToLine(g[p - 1], p, l)
    <3>1. \A p \in 0 .. N : p = 0 \/ p \in 1 .. N
      BY <1>1
    <3>. QED
      BY <1>6, <2>1, <3>1 DEF Follows
  <2>. QED
    BY <2>2, <2>3 DEF LineSteps, N, b
<1>8. f = CHOOSE h : LineSteps(o, l, h)
  BY DEF LinePromotions, LineSteps
<1>9. LineSteps(o, l, f)
  BY <1>7, <1>8, Zenon
<1> HIDE DEF f
<1>10. f[0] = b /\ \A p \in 1 .. N : f[p] = ApplyToLine(f[p - 1], p, l)
  <2>1. f = [p \in 0 .. N |-> IF p = 0 THEN b ELSE ApplyToLine(f[p - 1], p, l)]
    BY <1>9, Zenon DEF LineSteps, N, b
  <2>2. 0 \in 0 .. N /\ \A p \in 1 .. N : p \in 0 .. N /\ p # 0
    BY <1>1
  <2>. QED
    BY <2>1, <2>2
<1>11. \A p \in 0 .. N : f[p] \in S
  <2>1. \A p \in 1 .. N : f[p - 1] \in S => f[p] \in S
    BY <1>3, <1>10
  <2>. QED
    BY <1>1, <1>2, <1>10, <2>1, StepsStay
<1>. QED
  BY <1>1, <1>10, <1>11 DEF f, S, N, b

-----------------------------------------------------------------------------
(* The promotions of all lines.                                            *)

ItemOrders(o) == {q \in Orders : Frame(o, q) /\ q.given = o.given}

ItemStep(o, b, l) ==
  IF l \in o.lines THEN CalculateOrderTotals(LinePromotions(b, l)[Len(Promotions)])
  ELSE b

ItemSteps(o, g) ==
  g = [l \in 0 .. Len(ListPrices) |-> IF l = 0 THEN o ELSE ItemStep(o, g[l - 1], l)]

LEMMA ItemStepIs ==
  ASSUME NEW o \in Orders, NEW b \in ItemOrders(o), NEW l \in Lines
  PROVE  LET q == ItemStep(o, b, l)
         IN  /\ q \in ItemOrders(o)
             /\ \A k \in Lines \ {l} : SameLine(b, q, k)
             /\ IF l \in o.lines THEN q.distributed[l] = 0 /\ Worth(q, l) >= 0
                ELSE SameLine(b, q, l)
<1> DEFINE c == LinePromotions(b, l)[Len(Promotions)]
           q == CalculateOrderTotals(c)
<1>0. b \in Orders /\ Frame(o, b) /\ b.given = o.given
  BY DEF ItemOrders
<1>1. c \in LineOrders(b, l)
  <2>1. Len(Promotions) \in 0 .. Len(Promotions)
    BY Constants
  <2>. QED
    BY <1>0, <2>1, LinePromotionsAre
<1> HIDE DEF c
<1>2. /\ c \in Orders /\ Frame(b, c) /\ c.given = b.given
      /\ \A k \in Lines \ {l} : SameLine(b, c, k)
      /\ c.distributed[l] = 0 /\ Worth(c, l) >= 0
  BY <1>1 DEF LineOrders
<1>3. /\ q \in Orders /\ Frame(c, q) /\ q.given = c.given
      /\ q.promotion = c.promotion /\ q.distributed = c.distributed
      /\ Worth(q, l) = Worth(c, l)
  BY <1>2, TotalsAre
<1> HIDE DEF q
<1>4. /\ q \in ItemOrders(o)
      /\ \A k \in Lines \ {l} : SameLine(b, q, k)
      /\ q.distributed[l] = 0 /\ Worth(q, l) >= 0
  BY <1>0, <1>2, <1>3 DEF ItemOrders, Frame, SameLine
<1>5. CASE l \in o.lines
  BY <1>4, <1>5 DEF ItemStep, q, c
<1>6. CASE l \notin o.lines
  BY <1>6 DEF ItemStep, SameLine
<1>. QED
  BY <1>5, <1>6

LEMMA ItemPromotionsAre ==
  ASSUME NEW o \in Orders
  PROVE  LET f == ItemPromotions(o)
         IN  /\ f[0] = o
             /\ \A l \in Lines : f[l] = ItemStep(o, f[l - 1], l)
             /\ \A l \in 0 .. Len(ListPrices) : f[l] \in ItemOrders(o)
<1> DEFINE S == ItemOrders(o)
           N == Len(ListPrices)
           step == [x \in (1 .. N) \X S |-> ItemStep(o, x[2], x[1])]
           f == ItemPromotions(o)
<1>1. N \in Nat /\ Lines = 1 .. N
  BY Constants DEF Lines
<1>2. o \in S
  BY DEF ItemOrders, Frame
<1>3. \A l \in 1 .. N, q \in S : ItemStep(o, q, l) \in S
  BY <1>1, ItemStepIs
<1> HIDE DEF S, N
<1>4. step \in [(1 .. N) \X S -> S]
  BY <1>3
<1>5. \A l \in 1 .. N, q \in S : step[<<l, q>>] = ItemStep(o, q, l)
  OBVIOUS
<1> HIDE DEF step
<1>6. PICK g : Follows(g, S, o, N, step)
  BY <1>1, <1>2, <1>4, StepsExist
<1>7. ItemSteps(o, g)
  <2>1. \A l \in 1 .. N : g[l] = ItemStep(o, g[l - 1], l)
    <3>1. \A l \in 1 .. N : l - 1 \in 0 .. N
      BY <1>1
    <3>. QED
      BY <1>5, <1>6, <3>1 DEF Follows
  <2>2. g = [l \in 0 .. N |-> g[l]]
    BY <1>6 DEF Follows
  <2>3. \A l \in 0 .. N : g[l] = IF l = 0 THEN o ELSE ItemStep(o, g[l - 1], l)
    <3>1. \A l \in 0 .. N : l = 0 \/ l \in 1 .. N
      BY <1>1
    <3>. QED
      BY <1>6, <2>1, <3>1 DEF Follows
  <2>. QED
    BY <2>2, <2>3 DEF ItemSteps, N
<1>8. f = CHOOSE h : ItemSteps(o, h)
  BY DEF ItemPromotions, ItemSteps, ItemStep
<1>9. ItemSteps(o, f)
  BY <1>7, <1>8, Zenon
<1> HIDE DEF f
<1>10. f[0] = o /\ \A l \in 1 .. N : f[l] = ItemStep(o, f[l - 1], l)
  <2>1. f = [l \in 0 .. N |-> IF l = 0 THEN o ELSE ItemStep(o, f[l - 1], l)]
    BY <1>9, Zenon DEF ItemSteps, N
  <2>2. 0 \in 0 .. N /\ \A l \in 1 .. N : l \in 0 .. N /\ l # 0
    BY <1>1
  <2>. QED
    BY <2>1, <2>2
<1>11. \A l \in 0 .. N : f[l] \in S
  <2>1. \A l \in 1 .. N : f[l - 1] \in S => f[l] \in S
    BY <1>3, <1>10
  <2>. QED
    BY <1>1, <1>2, <1>10, <2>1, StepsStay
<1>. QED
  BY <1>1, <1>10, <1>11 DEF f, S, N

(* Every line in the order is cleared and keeps some worth; what is not in it
   stays as it is. *)
LEMMA ItemsApplied ==
  ASSUME NEW o \in Orders
  PROVE  LET q == ApplyOrderItemPromotions(o)
         IN  /\ q \in ItemOrders(o)
             /\ \A l \in Lines :
                  IF l \in o.lines THEN q.distributed[l] = 0 /\ Worth(q, l) >= 0
                  ELSE SameLine(o, q, l)
<1> DEFINE N == Len(ListPrices)
           f == ItemPromotions(o)
           Done(q, l) == IF l \in o.lines THEN q.distributed[l] = 0 /\ Worth(q, l) >= 0
                         ELSE SameLine(o, q, l)
           P == {n \in Nat : n =< N =>
                   \A l \in Lines : IF l =< n THEN Done(f[n], l) ELSE SameLine(o, f[n], l)}
<1>1. N \in Nat /\ Lines = 1 .. N
  BY Constants DEF Lines
<1>2. /\ f[0] = o /\ \A l \in Lines : f[l] = ItemStep(o, f[l - 1], l)
      /\ \A l \in 0 .. N : f[l] \in ItemOrders(o)
  BY ItemPromotionsAre
<1> HIDE DEF f, N
<1>3. 0 \in P
  BY <1>1, <1>2 DEF SameLine
<1>4. ASSUME NEW n \in Nat, n \in P PROVE n + 1 \in P
  <2> SUFFICES ASSUME n + 1 =< N, NEW l \in Lines
               PROVE  IF l =< n + 1 THEN Done(f[n + 1], l) ELSE SameLine(o, f[n + 1], l)
    OBVIOUS
  <2>1. n + 1 \in Lines /\ (n + 1) - 1 = n /\ n \in 0 .. N /\ n =< N
    BY <1>1
  <2>2. f[n] \in ItemOrders(o) /\ f[n + 1] = ItemStep(o, f[n], n + 1)
    BY <1>2, <2>1
  <2>3. /\ f[n + 1] \in ItemOrders(o)
        /\ \A k \in Lines \ {n + 1} : SameLine(f[n], f[n + 1], k)
        /\ IF n + 1 \in o.lines
           THEN f[n + 1].distributed[n + 1] = 0 /\ Worth(f[n + 1], n + 1) >= 0
           ELSE SameLine(f[n], f[n + 1], n + 1)
    BY <2>1, <2>2, ItemStepIs
  <2>4. IF l =< n THEN Done(f[n], l) ELSE SameLine(o, f[n], l)
    BY <1>4, <2>1
  <2>5. CASE l = n + 1
    <3>1. SameLine(o, f[n], l)
      BY <1>1, <2>4, <2>5
    <3>. QED
      BY <2>3, <2>5, <3>1 DEF SameLine
  <2>6. CASE l # n + 1
    <3>1. SameLine(f[n], f[n + 1], l) /\ Frame(f[n], f[n + 1])
      BY <2>2, <2>3, <2>6 DEF ItemOrders, Frame
    <3>2. Worth(f[n + 1], l) = Worth(f[n], l)
      BY <3>1, SamePrice
    <3>3. l =< n + 1 <=> l =< n
      BY <1>1, <2>6
    <3>. QED
      BY <2>4, <3>1, <3>2, <3>3 DEF SameLine
  <2>. QED
    BY <2>5, <2>6
<1>5. N \in P
  <2> HIDE DEF P
  <2>. QED
    BY <1>1, <1>3, <1>4, NumberInduction
<1>6. /\ f[N] \in ItemOrders(o)
      /\ \A l \in Lines : Done(f[N], l)
  BY <1>1, <1>2, <1>5
<1>. QED
  BY <1>6 DEF ApplyOrderItemPromotions, f, N

-----------------------------------------------------------------------------
(* The shares of a discount.                                               *)

(* The orders that discounts are distributed over. *)
Priced(o) ==
  /\ o \in Orders /\ o.lines # {}
  /\ \A l \in Lines : Worth(o, l) >= 0
  /\ \A l \in Lines \ o.lines : o.quantity[l] = 0

LEMMA PricedTotal ==
  ASSUME NEW o, Priced(o)
  PROVE  /\ o.lines \in SUBSET Lines /\ IsFiniteSet(o.lines)
         /\ \A l \in Lines : Prices(o)[l] \in Nat
         /\ Sum(Prices(o)) \in Nat
         /\ SumOf(Prices(o), o.lines) = Sum(Prices(o))
<1>1. o.lines \in SUBSET Lines /\ IsFiniteSet(o.lines)
  BY Constants, FS_Subset DEF Priced, Orders
<1>2. \A l \in Lines : Prices(o)[l] \in Nat
  BY PriceIs, WorthType DEF Priced, Prices
<1>3. \A l \in Lines \ o.lines : Prices(o)[l] = 0
  BY PriceIs DEF Priced, Prices
<1>4. Sum(Prices(o)) \in Nat
  BY <1>2, Constants, SumNatural DEF Sum
<1>5. SumOf(Prices(o), o.lines) = Sum(Prices(o))
  <2>1. IntegersOn(Prices(o), Lines)
    BY <1>2 DEF IntegersOn
  <2>. QED
    BY <1>1, <1>3, <2>1, Constants, SumSupport DEF Sum
<1>. QED
  BY <1>1, <1>2, <1>4, <1>5

Share(o, amount, l) ==
  IF Sum(Prices(o)) = 0 THEN amount ELSE amount * ProratedLinePrice(o, l)

Whole(o) == IF Sum(Prices(o)) = 0 THEN Cardinality(o.lines) ELSE Sum(Prices(o))

Floors(o, amount) == [l \in o.lines |-> Share(o, amount, l) \div Whole(o)]

Errors(o, amount) == [l \in o.lines |-> Share(o, amount, l) % Whole(o)]

Missing(o, amount) == amount - SumOf(Floors(o, amount), o.lines)

Sooner(o, amount) ==
  {x \in o.lines \X o.lines :
     \/ Errors(o, amount)[x[1]] > Errors(o, amount)[x[2]]
     \/ Errors(o, amount)[x[1]] = Errors(o, amount)[x[2]] /\ x[1] < x[2]}

LEMMA ProrateIs ==
  ASSUME NEW o, NEW amount
  PROVE  Prorate(o, amount)
           = [l \in o.lines |->
                Floors(o, amount)[l]
                + IF Rank(Sooner(o, amount), o.lines, l) < Missing(o, amount)
                  THEN 1 ELSE 0]
<1>1. \A l \in o.lines :
        Before(Sooner(o, amount), o.lines, l)
          = {k \in o.lines :
               \/ Errors(o, amount)[k] > Errors(o, amount)[l]
               \/ Errors(o, amount)[k] = Errors(o, amount)[l] /\ k < l}
  BY DEF Before, Sooner
<1>2. Prorate(o, amount)
        = [l \in o.lines |->
             Floors(o, amount)[l]
             + IF Cardinality({k \in o.lines :
                    \/ Errors(o, amount)[k] > Errors(o, amount)[l]
                    \/ Errors(o, amount)[k] = Errors(o, amount)[l] /\ k < l})
                  < Missing(o, amount)
               THEN 1 ELSE 0]
  BY DEF Prorate, Quantify, Floors, Errors, Missing, Share, Whole, Prices
<1>. QED
  BY <1>1, <1>2 DEF Rank

LEMMA SharesDivided ==
  ASSUME NEW o, Priced(o), NEW amount \in Int
  PROVE  /\ Whole(o) \in Nat /\ 1 =< Whole(o)
         /\ \A l \in o.lines :
              /\ Share(o, amount, l) \in Int
              /\ Floors(o, amount)[l] \in Int
              /\ Errors(o, amount)[l] \in 0 .. Whole(o) - 1
              /\ Share(o, amount, l)
                   = Whole(o) * Floors(o, amount)[l] + Errors(o, amount)[l]
<1>1. Whole(o) \in Nat /\ 1 =< Whole(o)
  <2>1. Cardinality(o.lines) \in Nat /\ Cardinality(o.lines) # 0
    BY PricedTotal, FS_CardinalityType, FS_EmptySet DEF Priced
  <2>. QED
    BY <2>1, PricedTotal DEF Whole
<1>2. ASSUME NEW l \in o.lines
      PROVE  /\ Share(o, amount, l) \in Int
             /\ Floors(o, amount)[l] \in Int
             /\ Errors(o, amount)[l] \in 0 .. Whole(o) - 1
             /\ Share(o, amount, l)
                  = Whole(o) * Floors(o, amount)[l] + Errors(o, amount)[l]
  <2>1. ProratedLinePrice(o, l) \in Int
    BY PricedTotal, PriceIs DEF Priced
  <2>2. amount * ProratedLinePrice(o, l) \in Int
    BY <2>1
  <2>3. Share(o, amount, l) \in Int
    BY <2>2 DEF Share
  <2> DEFINE n == Share(o, amount, l)
             d == Whole(o)
  <2>4. Floors(o, amount)[l] = n \div d /\ Errors(o, amount)[l] = n % d
    BY DEF Floors, Errors
  <2>5. n \in Int /\ d \in Int /\ d > 0
    BY <1>1, <2>3
  <2> HIDE DEF n, d
  <2>6. /\ n \div d \in Int /\ n % d \in 0 .. d - 1
        /\ n = d * (n \div d) + (n % d)
    BY <2>5, Divided
  <2>. QED
    BY <2>4, <2>5, <2>6 DEF n, d
<1>. QED
  BY <1>1, <1>2

(* The shares are the amount, before rounding ... *)
LEMMA SharesAreAmount ==
  ASSUME NEW o, Priced(o), NEW amount \in Int
  PROVE  SumOf([l \in o.lines |-> Share(o, amount, l)], o.lines) = Whole(o) * amount
<1> DEFINE shares == [l \in o.lines |-> Share(o, amount, l)]
<1>1. CASE Sum(Prices(o)) = 0
  <2>1. \A l \in o.lines : shares[l] = amount
    BY <1>1 DEF Share
  <2>2. Whole(o) = Cardinality(o.lines)
    BY <1>1 DEF Whole
  <2>3. Cardinality(o.lines) \in Nat
    BY PricedTotal, FS_CardinalityType
  <2> HIDE DEF shares
  <2>4. SumOf(shares, o.lines) = amount * Cardinality(o.lines)
    BY <2>1, PricedTotal, SumConstant
  <2>. QED
    BY <2>2, <2>3, <2>4 DEF shares
<1>2. CASE Sum(Prices(o)) # 0
  <2>1. \A l \in o.lines : shares[l] = amount * Prices(o)[l]
    BY <1>2, PricedTotal DEF Share, Prices
  <2>2. Whole(o) = SumOf(Prices(o), o.lines) /\ Whole(o) \in Int
    BY <1>2, PricedTotal DEF Whole
  <2>3. IntegersOn(Prices(o), o.lines)
    BY PricedTotal DEF IntegersOn
  <2> HIDE DEF shares
  <2>4. SumOf(shares, o.lines) = amount * SumOf(Prices(o), o.lines)
    BY <2>1, <2>3, PricedTotal, SumScale
  <2>. QED
    BY <2>2, <2>4 DEF shares
<1>. QED
  BY <1>1, <1>2

(* ... and what rounding down leaves is at most one for every line. *)
LEMMA MissingIs ==
  ASSUME NEW o, Priced(o), NEW amount \in Int
  PROVE  /\ Missing(o, amount) \in 0 .. Cardinality(o.lines)
         /\ SumOf(Floors(o, amount), o.lines) \in Int
<1> DEFINE S == o.lines
           w == Whole(o)
           n == Cardinality(S)
           floors == Floors(o, amount)
           errors == Errors(o, amount)
           shares == [l \in S |-> Share(o, amount, l)]
           multiples == [l \in S |-> w * floors[l]]
           ones == [l \in S |-> w]
<1>1. IsFiniteSet(S) /\ n \in Nat
  BY PricedTotal, FS_CardinalityType
<1>2. /\ w \in Nat /\ 1 =< w
      /\ \A l \in S : /\ floors[l] \in Int /\ errors[l] \in Nat /\ errors[l] =< w
                      /\ shares[l] = w * floors[l] + errors[l]
  BY SharesDivided
<1>3. SumOf(shares, S) = w * amount
  BY SharesAreAmount
<1>3a. Missing(o, amount) = amount - SumOf(floors, S)
  BY DEF Missing
<1> HIDE DEF S, w, n, floors, errors, shares
<1>4. /\ \A l \in S : w * floors[l] \in Int
      /\ \A l \in S : shares[l] = multiples[l] + errors[l]
      /\ \A l \in S : multiples[l] = w * floors[l] /\ ones[l] = w
  BY <1>2
<1>5. /\ IntegersOn(floors, S) /\ IntegersOn(errors, S)
      /\ IntegersOn(multiples, S) /\ IntegersOn(ones, S)
  BY <1>2, <1>4 DEF IntegersOn
<1> HIDE DEF multiples, ones
<1>6. SumOf(floors, S) \in Int /\ SumOf(multiples, S) = w * SumOf(floors, S)
  BY <1>1, <1>2, <1>4, <1>5, SumType, SumScale
<1>7. SumOf(shares, S) = SumOf(multiples, S) + SumOf(errors, S)
  BY <1>1, <1>4, <1>5, SumAdd
<1>8. SumOf(errors, S) \in Nat
  BY <1>1, <1>2, SumNatural
<1>9. SumOf(errors, S) =< SumOf(ones, S) /\ SumOf(ones, S) = w * n
  <2>1. \A l \in S : errors[l] =< ones[l]
    BY <1>2, <1>4
  <2>2. SumOf(ones, S) = w * Cardinality(S)
    BY <1>1, <1>2, <1>4, SumConstant
  <2>. QED
    BY <1>1, <1>5, <2>1, <2>2, SumMonotone DEF n
<1> DEFINE m == amount - SumOf(floors, S)
<1>10. m \in Int /\ w * m = SumOf(errors, S)
  <2>1. w * (amount - SumOf(floors, S)) = w * amount - w * SumOf(floors, S)
    BY <1>2, <1>6
  <2>2. w * amount \in Int /\ w * SumOf(floors, S) \in Int
    BY <1>2, <1>6
  <2>. QED
    BY <1>3, <1>6, <1>7, <1>8, <2>1, <2>2
<1> HIDE DEF m
<1>11. 0 =< m
  <2>1. w * (-1) < w * m
    BY <1>2, <1>8, <1>10
  <2>2. -1 < m
    BY <1>2, <1>10, <2>1, Cancelled
  <2>. QED
    BY <1>10, <2>2
<1>12. m =< n
  <2>1. w * (n + 1) = w * n + w /\ w * n \in Int
    BY <1>1, <1>2
  <2>2. w * m < w * (n + 1)
    BY <1>2, <1>8, <1>9, <1>10, <2>1
  <2>3. m < n + 1
    BY <1>1, <1>2, <1>10, <2>2, Cancelled
  <2>. QED
    BY <1>1, <1>10, <2>3
<1>. QED
  BY <1>1, <1>3a, <1>6, <1>10, <1>11, <1>12 DEF m, n, S, floors

LEMMA SoonerIsOrder ==
  ASSUME NEW o, Priced(o), NEW amount \in Int
  PROVE  StrictOrder(Sooner(o, amount), o.lines)
<1> DEFINE e == Errors(o, amount)
           S == o.lines
           R == Sooner(o, amount)
<1>1. \A l \in S : e[l] \in Int /\ l \in Int
  <2>1. S \subseteq Lines /\ Lines \subseteq Int
    BY PricedTotal, Constants DEF Lines
  <2>2. Whole(o) \in Nat /\ \A l \in S : e[l] \in 0 .. Whole(o) - 1
    BY SharesDivided
  <2> HIDE DEF e, S
  <2>. QED
    BY <2>1, <2>2
<1>2. \A k, l \in S : <<k, l>> \in R <=> e[k] > e[l] \/ (e[k] = e[l] /\ k < l)
  BY DEF Sooner
<1> HIDE DEF e, S, R
<1>3. \A x \in S : <<x, x>> \notin R
  BY <1>1, <1>2
<1>4. \A x, y, z \in S : <<x, y>> \in R /\ <<y, z>> \in R => <<x, z>> \in R
  BY <1>1, <1>2
<1>5. \A x, y \in S : x # y => <<x, y>> \in R \/ <<y, x>> \in R
  BY <1>1, <1>2
<1>. QED
  BY <1>3, <1>4, <1>5 DEF StrictOrder, R, S

(* What is missing is added to as many lines, so that nothing gets lost. *)
LEMMA ProrateAddsUp ==
  ASSUME NEW o, Priced(o), NEW amount \in Int
  PROVE  LET shares == Prorate(o, amount)
         IN  /\ \A l \in o.lines :
                  /\ shares[l] \in Int
                  /\ Floors(o, amount)[l] \in Int /\ Floors(o, amount)[l] =< shares[l]
             /\ SumOf(shares, o.lines) = amount
<1> DEFINE S == o.lines
           floors == Floors(o, amount)
           m == Missing(o, amount)
           R == Sooner(o, amount)
           first == {l \in S : Rank(R, S, l) < m}
           extra == [l \in S |-> IF l \in first THEN 1 ELSE 0]
           shares == Prorate(o, amount)
<1>1. /\ IsFiniteSet(S) /\ m \in 0 .. Cardinality(S) /\ StrictOrder(R, S)
      /\ \A l \in S : floors[l] \in Int
      /\ SumOf(floors, S) \in Int /\ m = amount - SumOf(floors, S)
  BY PricedTotal, MissingIs, SoonerIsOrder, SharesDivided DEF Missing
<1>2. \A l \in S : shares[l] = floors[l] + extra[l]
  BY ProrateIs
<1> HIDE DEF S, floors, m, R, shares
<1>3. Cardinality(first) = m
  BY <1>1, FirstOnes, FS_CardinalityType
<1>4. SumOf(extra, S) = m
  <2>1. first \in SUBSET S /\ IsFiniteSet(first)
    BY <1>1, FS_Subset
  <2>2. /\ \A l \in S : extra[l] \in Int
        /\ \A l \in first : extra[l] = 1
        /\ \A l \in S \ first : extra[l] = 0
    OBVIOUS
  <2> HIDE DEF first, extra
  <2>3. SumOf(extra, S) = SumOf(extra, first)
    BY <1>1, <2>1, <2>2, SumSupport DEF IntegersOn
  <2>4. SumOf(extra, first) = 1 * Cardinality(first)
    <3> DEFINE c == 1
    <3>1. c \in Int /\ \A l \in first : extra[l] = c
      BY <2>2
    <3> HIDE DEF c
    <3>2. SumOf(extra, first) = c * Cardinality(first)
      BY <2>1, <3>1, SumConstant
    <3>. QED
      BY <3>2 DEF c
  <2>. QED
    BY <1>1, <1>3, <2>3, <2>4, FS_CardinalityType
<1>5. \A l \in S : extra[l] \in {0, 1}
  OBVIOUS
<1> HIDE DEF first, extra
<1>6. SumOf(shares, S) = SumOf(floors, S) + SumOf(extra, S)
  BY <1>1, <1>2, <1>5, SumAdd DEF IntegersOn
<1>7. SumOf(shares, S) = amount
  BY <1>1, <1>4, <1>6
<1>8. \A l \in S : shares[l] \in Int /\ floors[l] \in Int /\ floors[l] =< shares[l]
  BY <1>1, <1>2, <1>5
<1>. QED
  BY <1>7, <1>8 DEF S, floors, shares

-----------------------------------------------------------------------------
(* Discounts of the order.                                                 *)

PercentagesAreParts ==
  \A p \in Codes : Promotions[p].action = "percentage" => Promotions[p].value =< 100

LEMMA OrderAmountIs ==
  ASSUME NEW o \in Orders, NEW p \in Codes
  PROVE  /\ OrderAmount(o, p) \in Int
         /\ (PercentagesAreParts /\ o.subTotal >= 0) => OrderAmount(o, p) >= -o.subTotal
         /\ o.subTotal =< 0 => OrderAmount(o, p) >= 0
<1> DEFINE v == Promotions[p].value
           s == o.subTotal
<1>1. v \in Nat /\ s \in Int
  BY Constants DEF Orders
<1>2. PercentagesAreParts /\ Promotions[p].action = "percentage" => v =< 100
  BY DEF PercentagesAreParts
<1>3. OrderAmount(o, p) = CASE Promotions[p].action = "fixed" -> -Min({v, s})
                            [] Promotions[p].action = "percentage" -> RoundMoney(-v * s, 100)
                            [] OTHER -> 0
  BY DEF OrderAmount
<1> HIDE DEF v, s
<1>4. CASE Promotions[p].action = "fixed"
  <2>1. Min({v, s}) \in {v, s} /\ Min({v, s}) =< s
    BY <1>1, MaxOfTwo
  <2>2. OrderAmount(o, p) = -Min({v, s})
    BY <1>3, <1>4
  <2>. QED
    BY <1>1, <2>1, <2>2 DEF s
<1>5. CASE Promotions[p].action = "percentage"
  <2>1. OrderAmount(o, p) = RoundMoney(-v * s, 100) /\ -v * s \in Int
    BY <1>1, <1>3, <1>5
  <2>2. ASSUME PercentagesAreParts, s >= 0 PROVE OrderAmount(o, p) >= -s
    <3>1. v =< 100
      BY <1>2, <1>5, <2>2
    <3>2. v * s =< 100 * s
      BY <1>1, <2>2, <3>1, Products
    <3>3. -v * s = -(v * s) /\ (-s) * 100 = -(100 * s) /\ v * s \in Int
      BY <1>1
    <3>4. (-s) * 100 =< -v * s
      BY <1>1, <3>2, <3>3
    <3>5. -s \in Int /\ -v * s \in Int
      BY <1>1
    <3> DEFINE n == -v * s
               k == -s
    <3>6. n \in Int /\ k \in Int /\ k * 100 =< n
      BY <3>4, <3>5
    <3>7. OrderAmount(o, p) = RoundMoney(n, 100)
      BY <2>1
    <3> HIDE DEF n, k
    <3>8. RoundMoney(n, 100) \in Int /\ k =< RoundMoney(n, 100)
      BY <3>6, RoundBounds
    <3>. QED
      BY <3>6, <3>7, <3>8 DEF k
  <2>3. ASSUME s =< 0 PROVE OrderAmount(o, p) >= 0
    <3>1. s * v =< 0 * v
      BY <1>1, <2>3, Products
    <3>2. -v * s = -(s * v) /\ s * v \in Int
      BY <1>1
    <3>3. 0 * 100 =< -v * s
      BY <1>1, <3>1, <3>2
    <3>. QED
      BY <2>1, <3>3, RoundBounds
  <2>4. OrderAmount(o, p) \in Int
    BY <2>1, RoundBounds
  <2>. QED
    BY <2>2, <2>3, <2>4 DEF s
<1>6. CASE Promotions[p].action \notin {"fixed", "percentage"}
  <2>1. OrderAmount(o, p) = 0
    BY <1>3, <1>6
  <2>. QED
    BY <1>1, <2>1 DEF s
<1>. QED
  BY <1>4, <1>5, <1>6

(* A discount of no more than all lines takes no more than all of a line. *)
LEMMA ShareWithinLine ==
  ASSUME NEW o, Priced(o), NEW amount \in Int, -Sum(Prices(o)) =< amount,
         Sum(Prices(o)) = 0 => 0 =< amount, NEW l \in o.lines
  PROVE  Prorate(o, amount)[l] >= -ProratedLinePrice(o, l)
<1> DEFINE w == Whole(o)
           f == Floors(o, amount)[l]
           e == Errors(o, amount)[l]
           price == ProratedLinePrice(o, l)
           total == Sum(Prices(o))
<1>1. /\ w \in Nat /\ 1 =< w /\ f \in Int /\ e \in 0 .. w - 1
      /\ Share(o, amount, l) = w * f + e
  BY SharesDivided
<1>2. price \in Nat /\ total \in Nat
  BY PricedTotal DEF Prices
<1>3. total = 0 => Share(o, amount, l) = amount
  BY DEF Share
<1>4. total # 0 => Share(o, amount, l) = amount * price /\ w = total
  BY DEF Share, Whole
<1>5. Prorate(o, amount)[l] \in Int /\ f =< Prorate(o, amount)[l]
  BY ProrateAddsUp
<1>6. -total =< amount /\ (total = 0 => 0 =< amount)
  OBVIOUS
<1> HIDE DEF w, f, e, total, price
<1>7. w * (f + 1) = w * f + w /\ w * f \in Int
  BY <1>1
<1>8. w * (-price) < w * (f + 1)
  <2>1. CASE total = 0
    <3>1. w * (-price) =< 0
      <4>1. (-price) * w =< 0 * w
        BY <1>1, <1>2, Products
      <4>. QED
        BY <1>1, <1>2, <4>1
    <3>. QED
      BY <1>1, <1>2, <1>3, <1>6, <1>7, <2>1, <3>1
  <2>2. CASE total # 0
    <3>1. (-w) * price =< amount * price
      BY <1>1, <1>2, <1>4, <1>6, <2>2, Products
    <3>2. (-w) * price = w * (-price) /\ w * (-price) \in Int /\ amount * price \in Int
      BY <1>1, <1>2
    <3>. QED
      BY <1>1, <1>4, <1>7, <2>2, <3>1, <3>2
  <2>. QED
    BY <2>1, <2>2
<1>9. -price < f + 1
  BY <1>1, <1>2, <1>8, Cancelled
<1>. QED
  BY <1>1, <1>2, <1>5, <1>9 DEF price

(* What the discounts took off is on the lines. *)
Balanced(o) == PercentagesAreParts /\ o.surcharge =< 0 => Sum(o.distributed) = o.given

Totalled(o) == o.subTotal = Sum(Prices(o)) + o.surcharge

(* The orders in which the discounts of the order o are calculated. *)
DiscountOrders(o) ==
  {q \in Orders : /\ Frame(o, q) /\ q.promotion = o.promotion
                  /\ \A l \in Lines : Worth(q, l) >= 0
                  /\ \A l \in Lines \ o.lines : q.distributed[l] = o.distributed[l]
                  /\ Totalled(q)
                  /\ Balanced(q)}

WithUnitsOnlyInLines(o) == \A l \in Lines \ o.lines : o.quantity[l] = 0

(* Nothing of a discount is cut off, if there is no surcharge. *)
LEMMA NothingIsCutOff ==
  ASSUME NEW b, Priced(b), Totalled(b), NEW p \in Codes,
         PercentagesAreParts, b.surcharge =< 0, NEW l \in b.lines
  PROVE  Limited(b, l, Prorate(b, OrderAmount(b, p))[l])
           = Prorate(b, OrderAmount(b, p))[l]
<1> DEFINE amount == OrderAmount(b, p)
           total == Sum(Prices(b))
<1>1. b \in Orders /\ l \in Lines /\ total \in Nat
  BY PricedTotal DEF Priced
<1>2. b.surcharge \in Int /\ b.subTotal = total + b.surcharge
  BY <1>1 DEF Orders, Totalled
<1>3. /\ amount \in Int
      /\ b.subTotal >= 0 => amount >= -b.subTotal
      /\ b.subTotal =< 0 => amount >= 0
  BY <1>1, OrderAmountIs
<1> HIDE DEF amount, total
<1>4. -total =< amount /\ (total = 0 => 0 =< amount)
  BY <1>1, <1>2, <1>3
<1>5. /\ Prorate(b, amount)[l] >= -ProratedLinePrice(b, l)
      /\ Prorate(b, amount)[l] \in Int
  BY <1>3, <1>4, ShareWithinLine, ProrateAddsUp DEF total
<1>6. Limited(b, l, Prorate(b, amount)[l]) = Prorate(b, amount)[l]
  BY <1>1, <1>5, LimitedIs
<1>. QED
  BY <1>6 DEF amount

LEMMA AppliedToOrder ==
  ASSUME NEW o \in Orders, o.lines # {}, WithUnitsOnlyInLines(o),
         NEW b \in DiscountOrders(o), NEW p \in Codes
  PROVE  ApplyToOrder(b, p) \in DiscountOrders(o)
<1> DEFINE amount == OrderAmount(b, p)
           shares == Prorate(b, amount)
           added == [l \in Lines |->
                       IF l \in b.lines THEN Limited(b, l, shares[l]) ELSE 0]
           distributed == [l \in Lines |->
                             IF l \in b.lines
                             THEN b.distributed[l] + Limited(b, l, shares[l])
                             ELSE b.distributed[l]]
           c == [b EXCEPT !.given = @ + amount, !.distributed = distributed]
           q == CalculateOrderTotals(c)
<1>0. /\ b \in Orders /\ Frame(o, b) /\ b.promotion = o.promotion
      /\ \A l \in Lines : Worth(b, l) >= 0
      /\ \A l \in Lines \ o.lines : b.distributed[l] = o.distributed[l]
      /\ Totalled(b) /\ Balanced(b)
  BY DEF DiscountOrders
<1>1. Priced(b) /\ b.lines = o.lines
  BY <1>0 DEF Priced, WithUnitsOnlyInLines, Frame
<1>2. b.lines \in SUBSET Lines /\ IsFiniteSet(b.lines) /\ IsFiniteSet(Lines)
  BY <1>1, PricedTotal, Constants
<1>3. amount \in Int /\ \A l \in b.lines : shares[l] \in Int
  BY <1>0, <1>1, OrderAmountIs, ProrateAddsUp
<1>4. \A l \in b.lines : /\ Limited(b, l, shares[l]) \in Int
                         /\ Worth(b, l) + Limited(b, l, shares[l]) >= 0
  BY <1>0, <1>2, <1>3, LimitedIs
<1>5. ApplyToOrder(b, p) \in {b, q}
  <2>1. ApplyToOrder(b, p)
          = IF Test(b, p) /\ amount # 0
            THEN CalculateOrderTotals(
                   [b EXCEPT !.given = @ + amount,
                             !.distributed = [l \in Lines |->
                               IF l \in b.lines THEN @[l] + Limited(b, l, shares[l])
                               ELSE @[l]]])
            ELSE b
    BY Zenon DEF ApplyToOrder
  <2>2. [b EXCEPT !.given = @ + amount,
                  !.distributed = [l \in Lines |->
                    IF l \in b.lines THEN @[l] + Limited(b, l, shares[l]) ELSE @[l]]]
          = c
    <3> HIDE DEF amount, shares
    <3>. QED
      BY <1>0 DEF Orders
  <2> HIDE DEF amount, shares, distributed, c
  <2>. QED
    BY <2>1, <2>2
<1>6. \A l \in Lines : /\ added[l] \in Int /\ b.distributed[l] \in Int
                       /\ distributed[l] = b.distributed[l] + added[l]
                       /\ Worth(b, l) + added[l] >= 0
                       /\ l \notin o.lines => added[l] = 0
  BY <1>0, <1>1, <1>4, WorthType DEF Orders
<1>7. distributed \in [Lines -> Int]
  <2>1. \A l \in Lines : distributed[l] \in Int
    BY <1>6
  <2>. QED
    BY <2>1
<1>8. PercentagesAreParts /\ b.surcharge =< 0 => Sum(added) = amount
  <2> SUFFICES ASSUME PercentagesAreParts, b.surcharge =< 0 PROVE Sum(added) = amount
    OBVIOUS
  <2>1. \A l \in b.lines : added[l] = shares[l]
    BY <1>0, <1>1, <1>2, NothingIsCutOff
  <2>2. SumOf(shares, b.lines) = amount
    BY <1>1, <1>3, ProrateAddsUp
  <2>3. \A l \in Lines \ b.lines : added[l] = 0
    OBVIOUS
  <2> HIDE DEF added, shares, amount
  <2>4. Sum(added) = SumOf(added, b.lines)
    BY <1>2, <1>6, <2>3, SumSupport DEF Sum, IntegersOn
  <2>5. SumOf(added, b.lines) = SumOf(shares, b.lines)
    BY <1>2, <1>6, <2>1, SumEqual DEF IntegersOn
  <2>. QED
    BY <2>2, <2>4, <2>5
<1> HIDE DEF amount, shares, added, distributed
<1>9. Sum(distributed) = Sum(b.distributed) + Sum(added)
  BY <1>2, <1>6, SumAdd DEF Sum, IntegersOn
<1>10. /\ c \in Orders /\ Frame(b, c) /\ c.promotion = b.promotion
       /\ c.distributed = distributed /\ c.given = b.given + amount
  <2> DEFINE given == b.given + amount
  <2>1. given \in Int /\ b \in Orders
    BY <1>0, <1>3 DEF Orders
  <2>2. c = [b EXCEPT !.given = given, !.distributed = distributed]
    BY <2>1 DEF Orders
  <2> HIDE DEF given, c
  <2>3. c \in Orders
    BY <1>7, <2>1, <2>2 DEF Orders
  <2>4. Frame(b, c) /\ c.promotion = b.promotion
        /\ c.distributed = distributed /\ c.given = given
    BY <2>1, <2>2 DEF Orders, Frame
  <2>. QED
    BY <2>3, <2>4 DEF given
<1> HIDE DEF c
<1>11. ASSUME NEW l \in Lines PROVE Worth(c, l) = Worth(b, l) + added[l]
  <2>1. Units(c, l) = Units(b, l)
    BY <1>10 DEF Units, Frame
  <2>2. ListPrices[l] * Units(b, l) \in Int
    BY <1>0, UnitsAre, Constants
  <2>3. b.promotion[l] \in Int
    BY <1>0 DEF Orders
  <2>. QED
    BY <1>6, <1>10, <2>1, <2>2, <2>3 DEF Worth, Adjustments
<1>12. /\ q \in Orders /\ Frame(c, q) /\ q.given = c.given
       /\ q.promotion = c.promotion /\ q.distributed = c.distributed
       /\ q.subTotal = Sum(Prices(c)) + c.surcharge /\ Prices(q) = Prices(c)
       /\ \A l \in Lines : Worth(q, l) = Worth(c, l)
  BY <1>10, TotalsAre
<1> HIDE DEF q
<1>13. Frame(o, q) /\ q.promotion = o.promotion /\ Totalled(q)
  BY <1>0, <1>10, <1>12 DEF Frame, Totalled
<1>14. \A l \in Lines : Worth(q, l) >= 0
  BY <1>6, <1>11, <1>12
<1>15. \A l \in Lines \ o.lines : q.distributed[l] = o.distributed[l]
  BY <1>0, <1>6, <1>10, <1>12
<1>16. Balanced(q)
  <2>1. q.surcharge = b.surcharge
    BY <1>10, <1>12 DEF Frame
  <2>. QED
    BY <1>0, <1>8, <1>9, <1>10, <1>12, <2>1 DEF Balanced
<1>17. q \in DiscountOrders(o)
  BY <1>12, <1>13, <1>14, <1>15, <1>16 DEF DiscountOrders
<1>. QED
  BY <1>5, <1>17


-----------------------------------------------------------------------------
(* All that is calculated.                                                 *)

DiscountSteps(b, g) ==
  g = [p \in 0 .. Len(Promotions) |->
         IF p = 0 THEN b
         ELSE IF Test(b, p) THEN ApplyToOrder(g[p - 1], p) ELSE g[p - 1]]

LEMMA OrderPromotionsAre ==
  ASSUME NEW o \in Orders, o.lines # {}, WithUnitsOnlyInLines(o),
         NEW b \in DiscountOrders(o)
  PROVE  OrderPromotions(b)[Len(Promotions)] \in DiscountOrders(o)
<1> DEFINE S == DiscountOrders(o)
           N == Len(Promotions)
           Step(q, p) == IF Test(b, p) THEN ApplyToOrder(q, p) ELSE q
           step == [x \in (1 .. N) \X S |-> Step(x[2], x[1])]
           f == OrderPromotions(b)
<1>1. N \in Nat /\ Codes = 1 .. N
  BY Constants DEF Codes
<1>2. b \in S
  OBVIOUS
<1>3. \A p \in 1 .. N, q \in S : Step(q, p) \in S
  BY <1>1, AppliedToOrder
<1> HIDE DEF S, N, Step
<1>4. step \in [(1 .. N) \X S -> S]
  BY <1>3
<1>5. \A p \in 1 .. N, q \in S : step[<<p, q>>] = Step(q, p)
  OBVIOUS
<1> HIDE DEF step
<1>6. PICK g : Follows(g, S, b, N, step)
  BY <1>1, <1>2, <1>4, StepsExist
<1>7. DiscountSteps(b, g)
  <2>1. \A p \in 1 .. N : g[p] = Step(g[p - 1], p)
    <3>1. \A p \in 1 .. N : p - 1 \in 0 .. N
      BY <1>1
    <3>. QED
      BY <1>5, <1>6, <3>1 DEF Follows
  <2>2. g = [p \in 0 .. N |-> g[p]]
    BY <1>6 DEF Follows
  <2>3. \A p \in 0 .. N : g[p] = IF p = 0 THEN b ELSE Step(g[p - 1], p)
    <3>1. \A p \in 0 .. N : p = 0 \/ p \in 1 .. N
      BY <1>1
    <3>. QED
      BY <1>6, <2>1, <3>1 DEF Follows
  <2>. QED
    BY <2>2, <2>3 DEF DiscountSteps, N, Step
<1>8. f = CHOOSE h : DiscountSteps(b, h)
  BY DEF OrderPromotions, DiscountSteps
<1>9. DiscountSteps(b, f)
  BY <1>7, <1>8, Zenon
<1> HIDE DEF f
<1>10. f[0] = b /\ \A p \in 1 .. N : f[p] = Step(f[p - 1], p)
  <2>1. f = [p \in 0 .. N |-> IF p = 0 THEN b ELSE Step(f[p - 1], p)]
    BY <1>9, Zenon DEF DiscountSteps, N, Step
  <2>2. 0 \in 0 .. N /\ \A p \in 1 .. N : p \in 0 .. N /\ p # 0
    BY <1>1
  <2>. QED
    BY <2>1, <2>2
<1>11. \A p \in 0 .. N : f[p] \in S
  <2>1. \A p \in 1 .. N : f[p - 1] \in S => f[p] \in S
    BY <1>3, <1>10
  <2>. QED
    BY <1>1, <1>2, <1>10, <2>1, StepsStay
<1>. QED
  BY <1>1, <1>11 DEF f, S, N

(* A line that is not in the order has neither units nor adjustments. *)
Clean(o) ==
  \A l \in Lines \ o.lines :
    o.quantity[l] = 0 /\ o.promotion[l] = 0 /\ o.distributed[l] = 0

LEMMA WorthOfUnits ==
  ASSUME NEW o \in Orders, NEW l \in Lines, o.promotion[l] = 0, o.distributed[l] = 0
  PROVE  Worth(o, l) >= 0
<1>1. Units(o, l) \in Nat /\ ListPrices[l] \in Nat
  BY UnitsAre, Constants
<1>2. ListPrices[l] * Units(o, l) \in Nat
  BY <1>1
<1>. QED
  BY <1>2 DEF Worth, Adjustments

(* Without discounts, the totals are the prices of the lines. *)
LEMMA NothingGiven ==
  ASSUME NEW o \in Orders, \A l \in Lines : o.distributed[l] = 0 /\ Worth(o, l) >= 0
  PROVE  CalculateOrderTotals([o EXCEPT !.given = 0]) \in DiscountOrders(o)
<1> DEFINE c == [o EXCEPT !.given = 0]
           q == CalculateOrderTotals(c)
<1>1. /\ c \in Orders /\ Frame(o, c) /\ c.given = 0
      /\ c.promotion = o.promotion /\ c.distributed = o.distributed
  BY DEF Orders, Frame
<1> HIDE DEF c
<1>2. \A l \in Lines : Worth(c, l) = Worth(o, l)
  BY <1>1, SamePrice DEF SameLine
<1>3. /\ q \in Orders /\ Frame(c, q) /\ q.given = 0
      /\ q.promotion = o.promotion /\ q.distributed = o.distributed
      /\ q.subTotal = Sum(Prices(c)) + c.surcharge /\ Prices(q) = Prices(c)
      /\ \A l \in Lines : Worth(q, l) = Worth(c, l)
  BY <1>1, TotalsAre
<1> HIDE DEF q
<1>4. Sum(q.distributed) = 0
  BY <1>3, Constants, SumZero DEF Sum
<1>5. Balanced(q)
  BY <1>3, <1>4 DEF Balanced
<1>6. Totalled(q) /\ Frame(o, q)
  BY <1>1, <1>3 DEF Totalled, Frame
<1>. QED
  BY <1>2, <1>3, <1>5, <1>6 DEF DiscountOrders, q, c

Calculated(q) ==
  /\ q \in Orders /\ Clean(q) /\ Totalled(q) /\ Balanced(q)
  /\ \A l \in Lines : Worth(q, l) >= 0

LEMMA PricesApplied ==
  ASSUME NEW o \in Orders, Clean(o)
  PROVE  Calculated(ApplyPriceAdjustments(o)) /\ Frame(o, ApplyPriceAdjustments(o))
<1>1. CASE o.lines = {}
  <2> DEFINE q == CalculateOrderTotals([o EXCEPT !.given = 0])
  <2>1. \A l \in Lines : /\ o.promotion[l] = 0 /\ o.distributed[l] = 0
                         /\ o.quantity[l] = 0 /\ Worth(o, l) >= 0
    BY <1>1, WorthOfUnits DEF Clean
  <2>2. q \in DiscountOrders(o)
    BY <2>1, NothingGiven
  <2>3. ApplyPriceAdjustments(o) = q
    BY <1>1 DEF ApplyPriceAdjustments
  <2> HIDE DEF q
  <2>. QED
    BY <1>1, <2>1, <2>2, <2>3 DEF DiscountOrders, Calculated, Clean, Frame
<1>2. CASE o.lines # {}
  <2> DEFINE t == CalculateOrderTotals(o)
             i == ApplyOrderItemPromotions(t)
             b == CalculateOrderTotals([i EXCEPT !.given = 0])
             q == ApplyOrderPromotions(i)
  <2>0. ApplyPriceAdjustments(o) = q
    BY <1>2 DEF ApplyPriceAdjustments
  <2>1. /\ t \in Orders /\ Frame(o, t) /\ t.promotion = o.promotion
        /\ t.distributed = o.distributed
    BY TotalsAre
  <2> HIDE DEF t
  <2>2. /\ i \in Orders /\ Frame(t, i)
        /\ \A l \in Lines : IF l \in t.lines THEN i.distributed[l] = 0 /\ Worth(i, l) >= 0
                            ELSE SameLine(t, i, l)
    BY <2>1, ItemsApplied DEF ItemOrders
  <2> HIDE DEF i
  <2>3. Frame(o, i) /\ i.lines = o.lines /\ i.lines # {}
    BY <1>2, <2>1, <2>2 DEF Frame
  <2>4. \A l \in Lines \ i.lines :
          i.quantity[l] = 0 /\ i.promotion[l] = 0 /\ i.distributed[l] = 0
    BY <2>1, <2>2, <2>3 DEF Frame, SameLine, Clean
  <2>5. \A l \in Lines : i.distributed[l] = 0 /\ Worth(i, l) >= 0
    BY <2>1, <2>2, <2>4, WorthOfUnits DEF Frame
  <2>6. b \in DiscountOrders(i)
    BY <2>2, <2>5, NothingGiven
  <2>7. q = OrderPromotions(b)[Len(Promotions)]
    BY DEF ApplyOrderPromotions
  <2>8. q \in DiscountOrders(i)
    <3> HIDE DEF b, q
    <3>. QED
      BY <2>2, <2>3, <2>4, <2>6, <2>7, OrderPromotionsAre DEF WithUnitsOnlyInLines
  <2> HIDE DEF q, b
  <2>9. /\ q \in Orders /\ Frame(i, q) /\ Totalled(q) /\ Balanced(q)
        /\ q.promotion = i.promotion
        /\ \A l \in Lines : Worth(q, l) >= 0
        /\ \A l \in Lines \ i.lines : q.distributed[l] = i.distributed[l]
    BY <2>8 DEF DiscountOrders
  <2>10. Clean(q)
    BY <2>4, <2>9 DEF Clean, Frame
  <2>11. Frame(o, q)
    BY <2>3, <2>9 DEF Frame
  <2>. QED
    BY <2>0, <2>9, <2>10, <2>11 DEF Calculated
<1>. QED
  BY <1>1, <1>2


-----------------------------------------------------------------------------
(* Calculated again, prices are the same.                                  *)

(* No promotion of lines that is asked for has a condition. *)
Unconditional(o) ==
  {p \in o.coupons : /\ Promotions[p].minimum # 0
                     /\ Promotions[p].action \in {"item", "line"}} = {}

(* A line is discounted by what it has itself, whatever the totals are. *)
LEMMA SameLineApplied ==
  ASSUME NEW o \in Orders, NEW q \in Orders, Frame(o, q), Unconditional(o),
         NEW l \in Lines, SameLine(o, q, l), NEW p \in Codes
  PROVE  SameLine(ApplyToLine(o, p, l), ApplyToLine(q, p, l), l)
<1>1. o.coupons = q.coupons /\ o.quantity = q.quantity
  BY DEF Frame
<1>2. LineAmount(o, p, l) = LineAmount(q, p, l)
  BY <1>1 DEF LineAmount, LinePrice
<1>3. Limited(o, l, LineAmount(o, p, l)) = Limited(q, l, LineAmount(q, p, l))
  BY <1>2, SamePrice DEF Limited
<1>4. LineAmount(o, p, l) # 0 => (Test(o, p) <=> Test(q, p))
  <2> SUFFICES ASSUME LineAmount(o, p, l) # 0 PROVE Test(o, p) <=> Test(q, p)
    OBVIOUS
  <2>1. Promotions[p].action \in {"item", "line"}
    BY DEF LineAmount
  <2>2. p \in o.coupons => Promotions[p].minimum = 0
    BY <2>1 DEF Unconditional
  <2>. QED
    BY <1>1, <2>2 DEF Test
<1> DEFINE a == Limited(o, l, LineAmount(o, p, l))
           c(b) == [b EXCEPT !.promotion[l] = @ + a]
<1>5. ASSUME NEW b \in Orders
      PROVE  /\ CalculateOrderTotals(c(b)).promotion[l] = b.promotion[l] + a
             /\ CalculateOrderTotals(c(b)).distributed = b.distributed
  <2> HIDE DEF a
  <2>1. c(b).promotion[l] = b.promotion[l] + a /\ c(b).distributed = b.distributed
    BY DEF Orders
  <2>2. /\ CalculateOrderTotals(c(b)).promotion = c(b).promotion
        /\ CalculateOrderTotals(c(b)).distributed = c(b).distributed
    BY DEF CalculateOrderTotals, Orders
  <2>. QED
    BY <2>1, <2>2
<1>6. CASE Test(o, p) /\ LineAmount(o, p, l) # 0
  <2>1. ApplyToLine(o, p, l) = CalculateOrderTotals(c(o))
    BY <1>6 DEF ApplyToLine
  <2>2. ApplyToLine(q, p, l) = CalculateOrderTotals(c(q))
    BY <1>2, <1>3, <1>4, <1>6 DEF ApplyToLine
  <2> HIDE DEF c, a
  <2>. QED
    BY <1>5, <2>1, <2>2 DEF SameLine
<1>7. CASE ~(Test(o, p) /\ LineAmount(o, p, l) # 0)
  <2>1. ApplyToLine(o, p, l) = o /\ ApplyToLine(q, p, l) = q
    BY <1>2, <1>4, <1>7 DEF ApplyToLine
  <2>. QED
    BY <2>1
<1>. QED
  BY <1>6, <1>7

LEMMA SameLinePromotions ==
  ASSUME NEW o \in Orders, NEW q \in Orders, Frame(o, q), Unconditional(o),
         NEW l \in Lines
  PROVE  SameLine(LinePromotions(o, l)[Len(Promotions)],
                  LinePromotions(q, l)[Len(Promotions)], l)
<1> DEFINE N == Len(Promotions)
           f == LinePromotions(o, l)
           g == LinePromotions(q, l)
           P == {n \in Nat : n =< N => SameLine(f[n], g[n], l)}
<1>1. N \in Nat /\ Codes = 1 .. N
  BY Constants DEF Codes
<1>2. /\ f[0] = ClearAdjustments(o, l)
      /\ \A p \in Codes : f[p] = ApplyToLine(f[p - 1], p, l)
      /\ \A p \in 0 .. N : f[p] \in LineOrders(o, l)
  BY LinePromotionsAre
<1>3. /\ g[0] = ClearAdjustments(q, l)
      /\ \A p \in Codes : g[p] = ApplyToLine(g[p - 1], p, l)
      /\ \A p \in 0 .. N : g[p] \in LineOrders(q, l)
  BY LinePromotionsAre
<1> HIDE DEF f, g, N
<1>4. 0 \in P
  <2>1. /\ ClearAdjustments(o, l).promotion[l] = 0 /\ ClearAdjustments(o, l).distributed[l] = 0
        /\ ClearAdjustments(q, l).promotion[l] = 0 /\ ClearAdjustments(q, l).distributed[l] = 0
    BY DEF ClearAdjustments, Orders
  <2>. QED
    BY <1>2, <1>3, <2>1 DEF SameLine
<1>5. ASSUME NEW n \in Nat, n \in P PROVE n + 1 \in P
  <2> SUFFICES ASSUME n + 1 =< N PROVE SameLine(f[n + 1], g[n + 1], l)
    OBVIOUS
  <2>1. n + 1 \in Codes /\ (n + 1) - 1 = n /\ n \in 0 .. N /\ n =< N
    BY <1>1
  <2>2. /\ f[n] \in Orders /\ Frame(o, f[n]) /\ f[n + 1] = ApplyToLine(f[n], n + 1, l)
        /\ g[n] \in Orders /\ Frame(q, g[n]) /\ g[n + 1] = ApplyToLine(g[n], n + 1, l)
    BY <1>2, <1>3, <2>1 DEF LineOrders
  <2>3. Frame(f[n], g[n]) /\ Unconditional(f[n])
    BY <2>2 DEF Frame, Unconditional
  <2>4. SameLine(f[n], g[n], l)
    BY <1>5, <2>1
  <2>. QED
    BY <2>1, <2>2, <2>3, <2>4, SameLineApplied
<1>6. N \in P
  <2> HIDE DEF P
  <2>. QED
    BY <1>1, <1>4, <1>5, NumberInduction
<1>. QED
  BY <1>1, <1>6 DEF f, g, N

LEMMA SameItems ==
  ASSUME NEW o \in Orders, NEW q \in Orders, Frame(o, q), Unconditional(o)
  PROVE  \A l \in o.lines :
           SameLine(ApplyOrderItemPromotions(o), ApplyOrderItemPromotions(q), l)
<1> DEFINE N == Len(ListPrices)
           f == ItemPromotions(o)
           g == ItemPromotions(q)
           P == {n \in Nat : n =< N =>
                   \A l \in o.lines : l =< n => SameLine(f[n], g[n], l)}
<1>1. N \in Nat /\ Lines = 1 .. N /\ o.lines \subseteq Lines /\ o.lines = q.lines
  BY Constants DEF Lines, Orders, Frame
<1>2. /\ \A l \in Lines : f[l] = ItemStep(o, f[l - 1], l)
      /\ \A l \in 0 .. N : f[l] \in ItemOrders(o)
  BY ItemPromotionsAre
<1>3. /\ \A l \in Lines : g[l] = ItemStep(q, g[l - 1], l)
      /\ \A l \in 0 .. N : g[l] \in ItemOrders(q)
  BY ItemPromotionsAre
<1> HIDE DEF f, g, N
<1>4. 0 \in P
  BY <1>1
<1>5. ASSUME NEW n \in Nat, n \in P PROVE n + 1 \in P
  <2> SUFFICES ASSUME n + 1 =< N, NEW l \in o.lines, l =< n + 1
               PROVE  SameLine(f[n + 1], g[n + 1], l)
    OBVIOUS
  <2>1. n + 1 \in Lines /\ (n + 1) - 1 = n /\ n \in 0 .. N /\ n =< N /\ l \in Lines
    BY <1>1
  <2>2. /\ f[n] \in ItemOrders(o) /\ f[n + 1] = ItemStep(o, f[n], n + 1)
        /\ g[n] \in ItemOrders(q) /\ g[n + 1] = ItemStep(q, g[n], n + 1)
    BY <1>2, <1>3, <2>1
  <2>3. /\ f[n] \in Orders /\ Frame(o, f[n]) /\ g[n] \in Orders /\ Frame(q, g[n])
    BY <2>2 DEF ItemOrders
  <2>4. Frame(f[n], g[n]) /\ Unconditional(f[n])
    BY <2>3 DEF Frame, Unconditional
  <2>5. CASE l = n + 1
    <3> DEFINE c == LinePromotions(f[n], l)[Len(Promotions)]
               d == LinePromotions(g[n], l)[Len(Promotions)]
    <3>1. f[n + 1] = CalculateOrderTotals(c) /\ g[n + 1] = CalculateOrderTotals(d)
      BY <1>1, <2>2, <2>5 DEF ItemStep
    <3>2. SameLine(c, d, l)
      BY <2>1, <2>3, <2>4, SameLinePromotions
    <3>3. c \in Orders /\ d \in Orders
      <4>1. Len(Promotions) \in 0 .. Len(Promotions)
        BY Constants
      <4>. QED
        BY <2>1, <2>3, <4>1, LinePromotionsAre DEF LineOrders
    <3> HIDE DEF c, d
    <3>4. /\ f[n + 1].promotion = c.promotion /\ f[n + 1].distributed = c.distributed
          /\ g[n + 1].promotion = d.promotion /\ g[n + 1].distributed = d.distributed
      BY <3>1, <3>3, TotalsAre
    <3>. QED
      BY <3>2, <3>4 DEF SameLine
  <2>6. CASE l # n + 1
    <3>1. SameLine(f[n], g[n], l)
      BY <1>1, <1>5, <2>1, <2>6
    <3>2. SameLine(f[n], f[n + 1], l) /\ SameLine(g[n], g[n + 1], l)
      BY <2>1, <2>2, <2>6, ItemStepIs
    <3>. QED
      BY <3>1, <3>2 DEF SameLine
  <2>. QED
    BY <2>5, <2>6
<1>6. N \in P
  <2> HIDE DEF P
  <2>. QED
    BY <1>1, <1>4, <1>5, NumberInduction
<1>7. \A l \in o.lines : l =< N
  BY <1>1
<1>. QED
  BY <1>1, <1>6, <1>7 DEF ApplyOrderItemPromotions, f, g, N

(* Orders with the same lines are the same once discounts are taken back. *)
LEMMA SameTotals ==
  ASSUME NEW o \in Orders, NEW q \in Orders, Frame(o, q),
         \A l \in Lines : SameLine(o, q, l)
  PROVE  CalculateOrderTotals([o EXCEPT !.given = 0])
           = CalculateOrderTotals([q EXCEPT !.given = 0])
<1> DEFINE c == [o EXCEPT !.given = 0]
           d == [q EXCEPT !.given = 0]
<1>1. /\ c \in Orders /\ Frame(o, c) /\ c.given = 0
      /\ c.promotion = o.promotion /\ c.distributed = o.distributed
  BY DEF Orders, Frame
<1>2. /\ d \in Orders /\ Frame(q, d) /\ d.given = 0
      /\ d.promotion = q.promotion /\ d.distributed = q.distributed
  BY DEF Orders, Frame
<1> HIDE DEF c, d
<1>3. o.promotion = q.promotion /\ o.distributed = q.distributed
  BY DEF Orders, SameLine
<1>4. Frame(c, d) /\ \A l \in Lines : SameLine(c, d, l)
  BY <1>1, <1>2, <1>3 DEF Frame, SameLine
<1>5. Prices(c) = Prices(d)
  BY <1>4, SamePrice DEF Prices
<1> DEFINE e == CalculateOrderTotals(c)
           f == CalculateOrderTotals(d)
<1>6. /\ e \in Orders /\ Frame(c, e) /\ e.promotion = c.promotion
      /\ e.distributed = c.distributed /\ e.given = 0
      /\ e.subTotal = Sum(Prices(c)) + c.surcharge
  BY <1>1, TotalsAre
<1>7. /\ f \in Orders /\ Frame(d, f) /\ f.promotion = d.promotion
      /\ f.distributed = d.distributed /\ f.given = 0
      /\ f.subTotal = Sum(Prices(d)) + d.surcharge
  BY <1>2, TotalsAre
<1> HIDE DEF e, f
<1>8. /\ e.state = f.state /\ e.lines = f.lines /\ e.quantity = f.quantity
      /\ e.placed = f.placed /\ e.raised = f.raised /\ e.coupons = f.coupons
      /\ e.surcharge = f.surcharge /\ e.given = f.given /\ e.subTotal = f.subTotal
      /\ e.promotion = f.promotion /\ e.distributed = f.distributed
  BY <1>1, <1>2, <1>3, <1>4, <1>5, <1>6, <1>7 DEF Frame
<1>9. e = f
  BY <1>6, <1>7, <1>8 DEF Orders
<1>. QED
  BY <1>9 DEF c, d, e, f

LEMMA SamePrices ==
  ASSUME NEW o \in Orders, NEW q \in Orders, Frame(o, q), Unconditional(o),
         Clean(o), Clean(q)
  PROVE  ApplyPriceAdjustments(o) = ApplyPriceAdjustments(q)
<1>0. o.lines = q.lines
  BY DEF Frame
<1>1. CASE o.lines = {}
  <2>1. \A l \in Lines : SameLine(o, q, l)
    BY <1>0, <1>1 DEF Clean, SameLine
  <2>2. CalculateOrderTotals([o EXCEPT !.given = 0])
          = CalculateOrderTotals([q EXCEPT !.given = 0])
    BY <2>1, SameTotals
  <2>. QED
    BY <1>0, <1>1, <2>2 DEF ApplyPriceAdjustments
<1>2. CASE o.lines # {}
  <2> DEFINE s == CalculateOrderTotals(o)
             t == CalculateOrderTotals(q)
             i == ApplyOrderItemPromotions(s)
             j == ApplyOrderItemPromotions(t)
  <2>0. /\ ApplyPriceAdjustments(o) = ApplyOrderPromotions(i)
        /\ ApplyPriceAdjustments(q) = ApplyOrderPromotions(j)
    BY <1>0, <1>2 DEF ApplyPriceAdjustments
  <2>1. /\ s \in Orders /\ Frame(o, s) /\ s.promotion = o.promotion
        /\ s.distributed = o.distributed
        /\ t \in Orders /\ Frame(q, t) /\ t.promotion = q.promotion
        /\ t.distributed = q.distributed
    BY TotalsAre
  <2> HIDE DEF s, t
  <2>2. Frame(s, t) /\ Unconditional(s) /\ s.lines = o.lines /\ t.lines = o.lines
    BY <2>1 DEF Frame, Unconditional
  <2>3. /\ i \in Orders /\ Frame(s, i)
        /\ \A l \in Lines \ s.lines : SameLine(s, i, l)
    BY <2>1, ItemsApplied DEF ItemOrders
  <2>4. /\ j \in Orders /\ Frame(t, j)
        /\ \A l \in Lines \ t.lines : SameLine(t, j, l)
    BY <2>1, ItemsApplied DEF ItemOrders
  <2>5. \A l \in s.lines : SameLine(i, j, l)
    BY <2>1, <2>2, SameItems
  <2> HIDE DEF i, j
  <2>6. \A l \in Lines \ s.lines : SameLine(i, j, l)
    BY <1>0, <2>1, <2>2, <2>3, <2>4 DEF SameLine, Clean
  <2>7. Frame(i, j)
    BY <2>2, <2>3, <2>4 DEF Frame
  <2>8. CalculateOrderTotals([i EXCEPT !.given = 0])
          = CalculateOrderTotals([j EXCEPT !.given = 0])
    BY <2>3, <2>4, <2>5, <2>6, <2>7, SameTotals
  <2>. QED
    BY <2>0, <2>8 DEF ApplyOrderPromotions
<1>. QED
  BY <1>1, <1>2

Settled(o) == o.state = "AddingItems" /\ Unconditional(o) => ApplyPriceAdjustments(o) = o

LEMMA CalculatedIsSettled ==
  ASSUME NEW o \in Orders, Clean(o)
  PROVE  Settled(ApplyPriceAdjustments(o))
<1> DEFINE q == ApplyPriceAdjustments(o)
<1>1. q \in Orders /\ Clean(q) /\ Frame(o, q)
  BY PricesApplied DEF Calculated
<1> SUFFICES ASSUME Unconditional(q) PROVE ApplyPriceAdjustments(q) = q
  BY DEF Settled
<1> HIDE DEF q
<1>2. Unconditional(o)
  BY <1>1 DEF Unconditional, Frame
<1>. QED
  BY <1>1, <1>2, SamePrices DEF q

-----------------------------------------------------------------------------
(* The invariant.                                                          *)

(* Before the order is placed no quantity was; after, only the lines that a
   modification raised have more units than were placed. *)
PlacedQuantities(o) ==
  IF o.state = "AddingItems"
  THEN o.raised = {} /\ \A l \in Lines : o.placed[l] = 0
  ELSE \A l \in Lines \ o.raised : o.quantity[l] =< o.placed[l]

PricesInv ==
  /\ order \in Orders /\ Clean(order) /\ Totalled(order) /\ Balanced(order)
  /\ PlacedQuantities(order) /\ Settled(order)
  /\ \A l \in Lines \ order.raised : Worth(order, l) >= 0

(* The units of a line do not change if it is placed or some are cancelled. *)
LEMMA SameUnits ==
  ASSUME NEW o \in Orders, NEW q \in Orders, NEW l \in Lines,
         \/ o.placed[l] = 0 /\ q.placed[l] = o.quantity[l] /\ q.quantity[l] = o.quantity[l]
         \/ /\ q.placed[l] = o.placed[l] /\ o.quantity[l] =< o.placed[l]
            /\ q.quantity[l] =< o.placed[l]
  PROVE  Units(q, l) = Units(o, l)
<1>1. /\ o.placed[l] \in Nat /\ o.quantity[l] \in Nat
      /\ q.placed[l] \in Nat /\ q.quantity[l] \in Nat
  BY UnitsAre
<1>2. /\ Units(o, l) \in {o.placed[l], o.quantity[l], 1} /\ 1 =< Units(o, l)
      /\ o.quantity[l] =< Units(o, l) /\ o.placed[l] =< Units(o, l)
  BY UnitsAre
<1>3. /\ Units(q, l) \in {q.placed[l], q.quantity[l], 1} /\ 1 =< Units(q, l)
      /\ q.quantity[l] =< Units(q, l) /\ q.placed[l] =< Units(q, l)
  BY UnitsAre
<1> DEFINE u == Units(o, l)
           v == Units(q, l)
<1> HIDE DEF u, v
<1>4. u \in {o.placed[l], o.quantity[l], 1} /\ 1 =< u /\ o.quantity[l] =< u /\ o.placed[l] =< u
  BY <1>2 DEF u
<1>5. v \in {q.placed[l], q.quantity[l], 1} /\ 1 =< v /\ q.quantity[l] =< v /\ q.placed[l] =< v
  BY <1>3 DEF v
<1>6. v = u
  BY <1>1, <1>4, <1>5
<1>. QED
  BY <1>6 DEF u, v

(* Totals that are right are not changed by adding them up again. *)
LEMMA TotalledIsFixed ==
  ASSUME NEW o \in Orders, Totalled(o)
  PROVE  CalculateOrderTotals(o) = o
<1>1. CalculateOrderTotals(o) = [o EXCEPT !.subTotal = Sum(Prices(o)) + o.surcharge]
  BY DEF CalculateOrderTotals, Prices
<1>2. o = [o EXCEPT !.subTotal = o.subTotal]
  BY DEF Orders
<1>. QED
  BY <1>1, <1>2 DEF Totalled

LEMMA NewOrderIsPriced == Init => PricesInv
<1> SUFFICES ASSUME order = NewOrder PROVE PricesInv
  BY DEF Init
<1>1. order \in Orders
  BY Constants DEF NewOrder, Orders
<1>2. /\ order.lines = {} /\ order.state = "AddingItems" /\ order.raised = {}
      /\ order.surcharge = 0 /\ order.given = 0 /\ order.subTotal = 0
      /\ \A l \in Lines : /\ order.quantity[l] = 0 /\ order.placed[l] = 0
                          /\ order.promotion[l] = 0 /\ order.distributed[l] = 0
  BY DEF NewOrder
<1>3. Clean(order) /\ PlacedQuantities(order)
  BY <1>2 DEF Clean, PlacedQuantities
<1>4. \A l \in Lines : Worth(order, l) >= 0
  BY <1>1, <1>2, WorthOfUnits
<1>5. Balanced(order)
  <2>1. Sum(order.distributed) = 0
    BY <1>2, Constants, SumZero DEF Sum
  <2>. QED
    BY <1>2, <2>1 DEF Balanced
<1>6. Totalled(order)
  <2>1. \A l \in Lines : Prices(order)[l] = 0
    BY <1>1, <1>2, PriceIs DEF Prices
  <2>2. Sum(Prices(order)) = 0
    BY <2>1, Constants, SumZero DEF Sum
  <2>. QED
    BY <1>2, <2>2 DEF Totalled
<1>7. Settled(order)
  <2>1. [order EXCEPT !.given = 0] = order
    BY <1>1, <1>2 DEF Orders
  <2>2. ApplyPriceAdjustments(order) = order
    BY <1>1, <1>2, <1>6, <2>1, TotalledIsFixed DEF ApplyPriceAdjustments
  <2>. QED
    BY <2>2 DEF Settled
<1>. QED
  BY <1>1, <1>3, <1>4, <1>5, <1>6, <1>7 DEF PricesInv

(* The operations end with a calculation of what they changed. *)
LEMMA CalculatedInv ==
  ASSUME NEW o \in Orders, Clean(o), PlacedQuantities(o),
         order' = ApplyPriceAdjustments(o)
  PROVE  PricesInv'
<1>1. Calculated(order') /\ Frame(o, order')
  BY PricesApplied
<1>2. PlacedQuantities(order')
  BY <1>1 DEF Frame, PlacedQuantities
<1>3. Settled(order')
  BY CalculatedIsSettled
<1>. QED
  BY <1>1, <1>2, <1>3 DEF Calculated, PricesInv

LEMMA AdjustOrderLineStep ==
  ASSUME PricesInv, NEW l \in Lines, NEW quantity \in 0 .. MaxQuantity,
         AdjustOrderLine(l, quantity)
  PROVE  PricesInv'
<1> DEFINE o == [order EXCEPT !.lines = @ \cup {l}, !.quantity[l] = quantity]
<1>1. order \in Orders /\ Clean(order) /\ PlacedQuantities(order)
  BY DEF PricesInv
<1>2. /\ o \in Orders
      /\ o.state = order.state /\ o.raised = order.raised /\ o.placed = order.placed
      /\ o.lines = order.lines \cup {l} /\ o.promotion = order.promotion
      /\ o.distributed = order.distributed
      /\ \A k \in Lines \ {l} : o.quantity[k] = order.quantity[k]
  BY <1>1 DEF Orders
<1>3. order.state = "AddingItems" /\ order' = ApplyPriceAdjustments(o)
  BY DEF AdjustOrderLine
<1> HIDE DEF o
<1>4. Clean(o) /\ PlacedQuantities(o)
  BY <1>1, <1>2, <1>3 DEF Clean, PlacedQuantities
<1>. QED
  BY <1>2, <1>3, <1>4, CalculatedInv

LEMMA RemoveItemStep ==
  ASSUME PricesInv, NEW l \in Lines, RemoveItemFromOrder(l)
  PROVE  PricesInv'
<1> DEFINE c == [order EXCEPT !.lines = @ \ {l}, !.quantity[l] = 0]
           o == ClearAdjustments(c, l)
<1>1. order \in Orders /\ Clean(order) /\ PlacedQuantities(order)
  BY DEF PricesInv
<1>2. /\ c \in Orders
      /\ c.state = order.state /\ c.raised = order.raised /\ c.placed = order.placed
      /\ c.lines = order.lines \ {l} /\ c.promotion = order.promotion
      /\ c.distributed = order.distributed /\ c.quantity[l] = 0
      /\ \A k \in Lines \ {l} : c.quantity[k] = order.quantity[k]
  <2>1. 0 \in 0 .. MaxQuantity
    BY Constants
  <2>. QED
    BY <1>1, <2>1 DEF Orders
<1>3. order.state = "AddingItems" /\ order' = ApplyPriceAdjustments(o)
  BY DEF RemoveItemFromOrder
<1> HIDE DEF c
<1>4. o \in Orders /\ Frame(c, o)
  BY <1>2, ClearedLine DEF LineOrders
<1>5. /\ o.promotion[l] = 0 /\ o.distributed[l] = 0
      /\ \A k \in Lines \ {l} : SameLine(c, o, k)
  BY <1>2 DEF Orders, ClearAdjustments, SameLine
<1> HIDE DEF o
<1>6. Clean(o) /\ PlacedQuantities(o)
  BY <1>1, <1>2, <1>3, <1>4, <1>5 DEF Clean, PlacedQuantities, Frame, SameLine
<1>. QED
  BY <1>3, <1>4, <1>6, CalculatedInv

LEMMA OtherInputStep ==
  ASSUME PricesInv,
         NEW coupons \in SUBSET Codes, NEW surcharge \in Int,
         order.state = "AddingItems",
         order' = ApplyPriceAdjustments(
                    [order EXCEPT !.coupons = coupons, !.surcharge = surcharge])
  PROVE  PricesInv'
<1> DEFINE o == [order EXCEPT !.coupons = coupons, !.surcharge = surcharge]
<1>1. order \in Orders /\ Clean(order) /\ PlacedQuantities(order)
  BY DEF PricesInv
<1>2. /\ o \in Orders
      /\ o.state = order.state /\ o.raised = order.raised /\ o.placed = order.placed
      /\ o.lines = order.lines /\ o.promotion = order.promotion
      /\ o.distributed = order.distributed /\ o.quantity = order.quantity
  BY <1>1 DEF Orders
<1> HIDE DEF o
<1>3. Clean(o) /\ PlacedQuantities(o)
  BY <1>1, <1>2 DEF Clean, PlacedQuantities
<1>. QED
  BY <1>2, <1>3, CalculatedInv DEF o

LEMMA CouponsAre == ASSUME order \in Orders PROVE OtherCoupons \subseteq SUBSET Codes
BY DEF Orders, OtherCoupons

LEMMA SetCouponCodesStep ==
  ASSUME PricesInv, NEW coupons \in OtherCoupons, SetCouponCodes(coupons)
  PROVE  PricesInv'
<1>1. order \in Orders /\ coupons \in SUBSET Codes /\ order.surcharge \in Int
  BY CouponsAre DEF PricesInv, Orders
<1>2. [order EXCEPT !.coupons = coupons]
        = [order EXCEPT !.coupons = coupons, !.surcharge = order.surcharge]
  BY <1>1 DEF Orders
<1>. QED
  BY <1>1, <1>2, OtherInputStep DEF SetCouponCodes

LEMMA SetSurchargeStep ==
  ASSUME PricesInv, NEW surcharge \in Surcharges, SetSurcharge(surcharge)
  PROVE  PricesInv'
<1>1. order \in Orders /\ surcharge \in Int /\ order.coupons \in SUBSET Codes
  BY Constants DEF PricesInv, Orders
<1>2. [order EXCEPT !.surcharge = surcharge]
        = [order EXCEPT !.coupons = order.coupons, !.surcharge = surcharge]
  BY <1>1 DEF Orders
<1>. QED
  BY <1>1, <1>2, OtherInputStep DEF SetSurcharge

LEMMA SetShippingStep ==
  ASSUME PricesInv, SetShipping
  PROVE  PricesInv'
BY CalculatedInv DEF PricesInv, SetShipping

LEMMA PlaceStep ==
  ASSUME PricesInv, Place
  PROVE  PricesInv'
<1> DEFINE q == [order EXCEPT !.state = "Placed", !.placed = order.quantity]
<1>1. /\ order \in Orders /\ Clean(order) /\ Totalled(order) /\ Balanced(order)
      /\ order.state = "AddingItems" /\ order.raised = {}
      /\ \A l \in Lines : order.placed[l] = 0 /\ Worth(order, l) >= 0
  BY DEF PricesInv, Place, PlacedQuantities
<1>2. order' = q
  BY DEF Place
<1>3. /\ q \in Orders
      /\ q.state = "Placed" /\ q.placed = order.quantity /\ q.quantity = order.quantity
      /\ q.lines = order.lines /\ q.promotion = order.promotion
      /\ q.distributed = order.distributed /\ q.given = order.given
      /\ q.raised = order.raised /\ q.surcharge = order.surcharge
      /\ q.subTotal = order.subTotal
  BY <1>1 DEF Orders
<1> HIDE DEF q
<1>4. ASSUME NEW l \in Lines
      PROVE  /\ Worth(q, l) = Worth(order, l)
             /\ ProratedLinePrice(q, l) = ProratedLinePrice(order, l)
  <2>1. Units(q, l) = Units(order, l)
    BY <1>1, <1>3, SameUnits
  <2>. QED
    BY <1>3, <2>1 DEF Worth, ProratedLinePrice, Units, Adjustments
<1>5. Prices(q) = Prices(order)
  BY <1>4 DEF Prices
<1>6. Clean(q) /\ Totalled(q) /\ Balanced(q)
  BY <1>1, <1>3, <1>5 DEF Clean, Totalled, Balanced
<1>7. PlacedQuantities(q)
  <2>1. \A l \in Lines : order.quantity[l] \in Nat
    BY <1>1, UnitsAre
  <2>. QED
    BY <1>3, <2>1 DEF PlacedQuantities
<1>8. Settled(q)
  BY <1>3 DEF Settled
<1>. QED
  BY <1>1, <1>2, <1>3, <1>4, <1>6, <1>7, <1>8 DEF PricesInv

LEMMA ModifyOrderStep ==
  ASSUME PricesInv, NEW l \in Lines, NEW quantity \in 0 .. MaxQuantity,
         NEW coupons \in SUBSET Codes, NEW surcharge \in Int,
         ModifyOrder(l, quantity, coupons, surcharge)
  PROVE  PricesInv'
<1> DEFINE raised == IF quantity > order.placed[l] THEN order.raised \cup {l}
                     ELSE order.raised
           o == [order EXCEPT !.lines = @ \cup {l}, !.quantity[l] = quantity,
                              !.raised = IF quantity > order.placed[l]
                                         THEN @ \cup {l} ELSE @,
                              !.coupons = coupons, !.surcharge = surcharge]
<1>1. order \in Orders /\ Clean(order) /\ PlacedQuantities(order)
  BY DEF PricesInv
<1>2. /\ o \in Orders
      /\ o.state = order.state /\ o.raised = raised /\ o.placed = order.placed
      /\ o.lines = order.lines \cup {l} /\ o.promotion = order.promotion
      /\ o.distributed = order.distributed /\ o.quantity[l] = quantity
      /\ \A k \in Lines \ {l} : o.quantity[k] = order.quantity[k]
  BY <1>1 DEF Orders
<1>3. order.state = "Placed" /\ order' = ApplyPriceAdjustments(o)
  BY DEF ModifyOrder
<1> HIDE DEF o
<1>4. Clean(o)
  BY <1>1, <1>2 DEF Clean
<1>5. PlacedQuantities(o)
  <2>1. quantity \in Int /\ \A k \in Lines : order.placed[k] \in Int
    BY <1>1, UnitsAre, Constants
  <2>2. /\ order.raised \subseteq raised
        /\ l \notin raised => quantity =< order.placed[l]
    BY <2>1
  <2> HIDE DEF raised
  <2>. QED
    BY <1>1, <1>2, <1>3, <2>2 DEF PlacedQuantities
<1>. QED
  BY <1>2, <1>3, <1>4, <1>5, CalculatedInv

LEMMA ModifyOrderInputStep ==
  ASSUME PricesInv, NEW l \in Lines, ModifyOrderInput(l)
  PROVE  PricesInv'
<1>1. /\ order.quantity[l] \in 0 .. MaxQuantity
      /\ order.coupons \in SUBSET Codes /\ order.surcharge \in Int
      /\ OtherCoupons \subseteq SUBSET Codes /\ Surcharges \subseteq Int
  BY Constants, CouponsAre DEF PricesInv, Orders
<1>. QED
  BY <1>1, ModifyOrderStep DEF ModifyOrderInput

LEMMA CancelOrderLineStep ==
  ASSUME PricesInv, NEW l \in Lines, NEW quantity \in 0 .. MaxQuantity,
         CancelOrderLine(l, quantity)
  PROVE  PricesInv'
<1> DEFINE less == order.quantity[l] - quantity
           c == [order EXCEPT !.quantity[l] = @ - quantity]
           t == CalculateOrderTotals(c)
           state == IF \A k \in Lines : t.quantity[k] = 0 THEN "Cancelled" ELSE t.state
           q == [t EXCEPT !.state = state]
<1>1. /\ order \in Orders /\ Clean(order) /\ Balanced(order)
      /\ order.state = "Placed" /\ PlacedQuantities(order)
      /\ \A k \in Lines \ order.raised : Worth(order, k) >= 0
      /\ order.quantity[l] \in 0 .. MaxQuantity /\ quantity \in 1 .. order.quantity[l]
  BY DEF PricesInv, CancelOrderLine, Orders
<1>2. order' = q
  BY DEF CancelOrderLine
<1>3. less \in 0 .. MaxQuantity /\ less =< order.quantity[l]
  BY <1>1, Constants
<1>4. l \in order.lines
  BY <1>1 DEF Clean
<1> HIDE DEF less
<1>5. /\ c \in Orders
      /\ c.state = "Placed" /\ c.placed = order.placed
      /\ c.lines = order.lines /\ c.promotion = order.promotion
      /\ c.distributed = order.distributed /\ c.given = order.given
      /\ c.raised = order.raised /\ c.surcharge = order.surcharge
      /\ c.quantity[l] = less /\ \A k \in Lines \ {l} : c.quantity[k] = order.quantity[k]
  <2>1. c = [order EXCEPT !.quantity[l] = less]
    BY <1>1 DEF less, Orders
  <2> HIDE DEF c
  <2>. QED
    BY <1>1, <1>3, <2>1 DEF Orders
<1> HIDE DEF c
<1>6. /\ t \in Orders /\ Frame(c, t) /\ t.promotion = c.promotion
      /\ t.distributed = c.distributed /\ t.given = c.given
      /\ t.subTotal = Sum(Prices(c)) + c.surcharge /\ Prices(t) = Prices(c)
      /\ \A k \in Lines : Worth(t, k) = Worth(c, k)
  BY <1>5, TotalsAre
<1> HIDE DEF t
<1>7. state \in {"Placed", "Cancelled"}
  BY <1>5, <1>6 DEF Frame
<1> HIDE DEF state
<1>8. /\ q \in Orders /\ q.state = state /\ q.subTotal = t.subTotal
      /\ q.placed = order.placed /\ q.quantity = c.quantity
      /\ q.lines = order.lines /\ q.promotion = order.promotion
      /\ q.distributed = order.distributed /\ q.given = order.given
      /\ q.raised = order.raised /\ q.surcharge = order.surcharge
  BY <1>5, <1>6, <1>7 DEF Orders, Frame
<1> HIDE DEF q
<1>9. ASSUME NEW k \in Lines
      PROVE  /\ Worth(q, k) = Worth(c, k)
             /\ ProratedLinePrice(q, k) = ProratedLinePrice(c, k)
  BY <1>5, <1>8 DEF Worth, ProratedLinePrice, Units, Adjustments
<1>10. Clean(q) /\ Balanced(q)
  BY <1>1, <1>4, <1>5, <1>8 DEF Clean, Balanced
<1>11. Totalled(q)
  <2>1. Prices(q) = Prices(c)
    BY <1>9 DEF Prices
  <2>. QED
    BY <1>5, <1>6, <1>8, <2>1 DEF Totalled
<1>12. \A k \in Lines \ order.raised :
         /\ order.quantity[k] =< order.placed[k] /\ q.quantity[k] =< order.placed[k]
  <2>1. \A k \in Lines \ order.raised : order.quantity[k] =< order.placed[k]
    BY <1>1 DEF PlacedQuantities
  <2>2. \A k \in Lines : /\ order.quantity[k] \in Int /\ order.placed[k] \in Int
                         /\ less \in Int
    BY <1>1, <1>3, UnitsAre
  <2>. QED
    BY <1>3, <1>5, <1>8, <2>1, <2>2
<1>13. PlacedQuantities(q)
  BY <1>7, <1>8, <1>12 DEF PlacedQuantities
<1>14. ASSUME NEW k \in Lines \ q.raised PROVE Worth(q, k) >= 0
  <2>1. Units(q, k) = Units(order, k)
    BY <1>1, <1>8, <1>12, SameUnits
  <2>2. Worth(q, k) = Worth(order, k)
    BY <1>8, <2>1 DEF Worth, Adjustments
  <2>. QED
    BY <1>1, <1>8, <2>2
<1>15. Settled(q)
  BY <1>7, <1>8 DEF Settled
<1>. QED
  BY <1>2, <1>8, <1>10, <1>11, <1>13, <1>14, <1>15 DEF PricesInv

LEMMA PricesStay == PricesInv /\ [Next]_vars => PricesInv'
<1> SUFFICES ASSUME PricesInv, [Next]_vars PROVE PricesInv'
  OBVIOUS
<1>1. ASSUME NEW l \in Lines, RemoveItemFromOrder(l) PROVE PricesInv'
  BY <1>1, RemoveItemStep
<1>2. ASSUME NEW l \in Lines, ModifyOrderInput(l) PROVE PricesInv'
  BY <1>2, ModifyOrderInputStep
<1>3. ASSUME NEW l \in Lines, NEW quantity \in 0 .. MaxQuantity,
             AdjustOrderLine(l, quantity)
      PROVE  PricesInv'
  BY <1>3, AdjustOrderLineStep
<1>4. ASSUME NEW l \in Lines, NEW quantity \in 0 .. MaxQuantity,
             CancelOrderLine(l, quantity)
      PROVE  PricesInv'
  BY <1>4, CancelOrderLineStep
<1>5. ASSUME NEW coupons \in OtherCoupons, SetCouponCodes(coupons) PROVE PricesInv'
  BY <1>5, SetCouponCodesStep
<1>6. ASSUME NEW surcharge \in Surcharges, SetSurcharge(surcharge) PROVE PricesInv'
  BY <1>6, SetSurchargeStep
<1>7. CASE SetShipping
  BY <1>7, SetShippingStep
<1>8. CASE Place
  BY <1>8, PlaceStep
<1>9. CASE UNCHANGED vars
  BY <1>9 DEF vars, PricesInv
<1>. QED
  BY <1>1, <1>2, <1>3, <1>4, <1>5, <1>6, <1>7, <1>8, <1>9 DEF Next

LEMMA PricesHold == Spec => []PricesInv
<1>. QED
  BY NewOrderIsPriced, PricesStay, PTL DEF Spec


-----------------------------------------------------------------------------
(* The theorems.                                                           *)

(* The order has its type: quantities within the bound, and amounts that are
   integers whatever was rounded and distributed. *)
THEOREM PricesTyped == Spec => []TypeOK
<1>1. PricesInv => TypeOK
  BY DEF PricesInv, Orders, TypeOK
<1>. QED
  BY <1>1, PricesHold, PTL

(* The subtotal is that of the lines and the surcharges after every operation,
   of OrderCalculator and of the cancellation that adds up by itself. *)
THEOREM SubTotalIsSum == Spec => []TotalsAddUp
<1>1. PricesInv => TotalsAddUp
  BY TotalledIsFixed DEF PricesInv, TotalsAddUp
<1>. QED
  BY <1>1, PricesHold, PTL

(* No line that never had more units than were placed has a negative price: the
   adjustments that addAdjustment lets through are less than what its units
   cost, and those units stay the same when the order is placed and when some
   of them are cancelled. *)
THEOREM PricesNotNegative == Spec => []NoNegativePriceOfPlacedUnits
<1>1. PricesInv => NoNegativePriceOfPlacedUnits
  <2> SUFFICES ASSUME PricesInv, NEW l \in Lines \ order.raised
               PROVE  ProratedLinePrice(order, l) >= 0
    BY DEF NoNegativePriceOfPlacedUnits
  <2>1. order \in Orders /\ Worth(order, l) >= 0
    BY DEF PricesInv
  <2>2. Worth(order, l) \in Int /\ ProratedLinePrice(order, l) \in 0 .. Worth(order, l)
    BY <2>1, WorthType, PriceIs
  <2>. QED
    BY <2>2
<1>. QED
  BY <1>1, PricesHold, PTL

(* What promotions of the order took off is on its lines to the last cent, if no
   surcharge raised the subtotal and no percentage is more than all of it: the
   shares that prorate gives add up to the amount, and addAdjustment cuts none
   of them off. *)
THEOREM DiscountOnLines ==
  ASSUME PercentagesAreParts
  PROVE  Spec => []DiscountIsDistributed
<1>1. PricesInv => DiscountIsDistributed
  BY DEF PricesInv, Balanced, DiscountIsDistributed
<1>. QED
  BY <1>1, PricesHold, PTL

(* Prices that are calculated again do not change while items are added, if no
   promotion of lines has a condition: every line is cleared first, and then
   depends on nothing that the calculation itself changes. *)
THEOREM PricesAreSettled == Spec => []PricesSettle
<1>1. PricesInv => PricesSettle
  BY DEF PricesInv, Settled, Unconditional, PricesSettle
<1>. QED
  BY <1>1, PricesHold, PTL

=============================================================================
