----------------------------- MODULE SumTheorems -----------------------------
(***************************************************************************)
(* What a sum over a finite set is, whatever the set: the lemmas that the  *)
(* proofs about stock levels and payments use in place of SumOf.           *)
(*                                                                         *)
(* SumOf folds over the set, element by element, with a recursive function *)
(* on its subsets.  That this function exists, and that the order of the   *)
(* elements does not matter, is proved by induction on the subsets of a    *)
(* finite set.  The induction principle takes the property as the SET of   *)
(* the subsets that have it, never as an operator.                         *)
(***************************************************************************)
EXTENDS Sums, FiniteSetTheorems, TLAPS

(* A property that every subset has if all smaller ones do, all have. *)
LEMMA SubsetInduction ==
  ASSUME NEW S, IsFiniteSet(S), NEW P,
         \A T \in SUBSET S : (\A U \in SUBSET T : U # T => U \in P) => T \in P
  PROVE  \A T \in SUBSET S : T \in P
<1> DEFINE bad == {T \in SUBSET S : T \notin P}
           R == StrictSubsetOrdering(S)
<1> SUFFICES ASSUME bad # {} PROVE FALSE
  OBVIOUS
<1>1. IsWellFoundedOn(R, SUBSET S)
  <2>1. IsWellFoundedOn(StrictSubsetOrdering(S), FiniteSubsetsOf(S))
    BY FS_StrictSubsetOrderingWellFounded
  <2>2. FiniteSubsetsOf(S) = SUBSET S
    BY FS_FiniteSubsetsOfFinite
  <2>. QED
    BY <2>1, <2>2
<1>2. bad \subseteq SUBSET S
  OBVIOUS
<1>3. PICK T \in bad : \A U \in bad : <<U, T>> \notin R
  <2> HIDE DEF R, bad
  <2>. QED
    BY <1>1, <1>2, WFMin
<1>4. ASSUME NEW U \in SUBSET T, U # T PROVE U \in P
  <2>1. U \in SUBSET S /\ T \in SUBSET S
    BY <1>2
  <2>2. <<U, T>> \in R
    BY <2>1, <1>4 DEF StrictSubsetOrdering
  <2>. QED
    BY <2>1, <2>2, <1>3
<1>. QED
  BY <1>2, <1>3, <1>4

(* Induction over the natural numbers, for the set of those that have the
   property. *)
LEMMA NumberInduction ==
  ASSUME NEW P, 0 \in P, \A n \in Nat : n \in P => n + 1 \in P
  PROVE  \A n \in Nat : n \in P
<1> DEFINE bad == {n \in Nat : n \notin P}
           R == {mn \in Nat \X Nat : mn[1] < mn[2]}
<1> SUFFICES ASSUME bad # {} PROVE FALSE
  OBVIOUS
<1>1. PICK n \in bad : \A m \in bad : <<m, n>> \notin R
  <2>1. bad \subseteq Nat
    OBVIOUS
  <2>2. IsWellFoundedOn(R, Nat)
    BY Zenon, NatLessThanWellFounded DEF OpToRel
  <2> HIDE DEF R, bad
  <2>. QED
    BY <2>1, <2>2, WFMin
<1>2. n \in Nat \ {0} /\ n - 1 \in Nat
  OBVIOUS
<1>3. <<n - 1, n>> \in R
  BY <1>2
<1>4. n - 1 \in P
  BY <1>1, <1>2, <1>3
<1>5. (n - 1) + 1 \in P
  BY <1>2, <1>4
<1>. QED
  BY <1>2, <1>5

-----------------------------------------------------------------------------
(* The recursive function.                                                 *)

Chosen(s) == CHOOSE x \in s : TRUE

(* g adds up f over every subset of S. *)
Adds(f, S, g) ==
  g = [s \in SUBSET S |->
        IF s = {} THEN 0 ELSE f[CHOOSE x \in s : TRUE] + g[s \ {CHOOSE x \in s : TRUE}]]

LEMMA SumUnfolded ==
  ASSUME NEW f, NEW S
  PROVE  SumOf(f, S) = (CHOOSE g : Adds(f, S, g))[S]
BY DEF SumOf, MapThenSumSet, MapThenFoldSet, Adds

LEMMA AddsAt ==
  ASSUME NEW f, NEW S, NEW g, Adds(f, S, g)
  PROVE  /\ g[{}] = 0
         /\ \A s \in SUBSET S : s # {} => g[s] = f[Chosen(s)] + g[s \ {Chosen(s)}]
BY Zenon DEF Adds, Chosen

(* There is at most one such function. *)
LEMMA AddsUnique ==
  ASSUME NEW f, NEW S, IsFiniteSet(S), NEW g, NEW h, Adds(f, S, g), Adds(f, S, h)
  PROVE  g = h
<1> DEFINE P == {T \in SUBSET S : g[T] = h[T]}
<1>1. ASSUME NEW T \in SUBSET S, \A U \in SUBSET T : U # T => U \in P
      PROVE  T \in P
  <2>1. CASE T = {}
    BY <2>1, AddsAt
  <2>2. CASE T # {}
    <3>1. Chosen(T) \in T
      BY <2>2 DEF Chosen
    <3>2. T \ {Chosen(T)} \in P
      BY <1>1, <3>1
    <3>. QED
      BY <2>2, <3>2, AddsAt
  <2>. QED
    BY <2>1, <2>2
<1>2. \A T \in SUBSET S : T \in P
  <2> HIDE DEF P
  <2>. QED
    BY <1>1, SubsetInduction
<1>3. /\ g = [s \in SUBSET S |-> g[s]]
      /\ h = [s \in SUBSET S |-> h[s]]
  BY Zenon DEF Adds
<1>. QED
  BY <1>2, <1>3

(* On every finite set there is one: the sums themselves. *)
LEMMA SumsAdd ==
  ASSUME NEW f, NEW S, IsFiniteSet(S)
  PROVE  Adds(f, S, [s \in SUBSET S |-> SumOf(f, s)])
<1> DEFINE P == {T \in SUBSET S : Adds(f, T, [s \in SUBSET T |-> SumOf(f, s)])}
<1>1. ASSUME NEW T \in SUBSET S, \A U \in SUBSET T : U # T => U \in P
      PROVE  T \in P
  <2> DEFINE h == [s \in SUBSET T |->
                     IF s = {} THEN 0 ELSE f[Chosen(s)] + SumOf(f, s \ {Chosen(s)})]
  <2>1. IsFiniteSet(T)
    BY FS_Subset
  <2>2. ASSUME NEW U \in SUBSET T, U # T PROVE h[U] = SumOf(f, U)
    <3> DEFINE g == [s \in SUBSET U |-> SumOf(f, s)]
    <3>1. Adds(f, U, g)
      BY <1>1, <2>2
    <3>2. g[U] = SumOf(f, U)
      OBVIOUS
    <3>3. U # {} => g[U \ {Chosen(U)}] = SumOf(f, U \ {Chosen(U)})
      OBVIOUS
    <3>4. U \in SUBSET U
      OBVIOUS
    <3>5. g[{}] = 0 /\ (U # {} => g[U] = f[Chosen(U)] + g[U \ {Chosen(U)}])
      <4> HIDE DEF g
      <4>. QED
        BY <3>1, <3>4, AddsAt
    <3>. QED
      BY <3>2, <3>3, <3>5
  <2>3. Adds(f, T, h)
    <3>1. ASSUME NEW s \in SUBSET T, s # {}
          PROVE  h[s \ {Chosen(s)}] = SumOf(f, s \ {Chosen(s)})
      <4>1. Chosen(s) \in s
        BY <3>1 DEF Chosen
      <4>2. s \ {Chosen(s)} \in SUBSET T /\ s \ {Chosen(s)} # T
        BY <4>1
      <4> HIDE DEF h
      <4>. QED
        BY <4>2, <2>2
    <3>2. h = [s \in SUBSET T |->
                 IF s = {} THEN 0 ELSE f[Chosen(s)] + h[s \ {Chosen(s)}]]
      BY <3>1
    <3> HIDE DEF h
    <3>. QED
      BY <3>2, Zenon DEF Adds, Chosen
  <2>4. (CHOOSE g : Adds(f, T, g)) = h
    <3> DEFINE c == CHOOSE g : Adds(f, T, g)
    <3> HIDE DEF h
    <3>1. Adds(f, T, c)
      BY <2>3, Zenon
    <3> HIDE DEF c
    <3>2. c = h
      BY <2>1, <2>3, <3>1, AddsUnique
    <3>. QED
      BY <3>2 DEF c
  <2>5. SumOf(f, T) = h[T]
    BY <2>4, SumUnfolded
  <2>6. h = [s \in SUBSET T |-> SumOf(f, s)]
    <3>1. h = [s \in SUBSET T |-> h[s]]
      OBVIOUS
    <3> HIDE DEF h
    <3>. QED
      BY <2>2, <2>5, <3>1
  <2> HIDE DEF h
  <2>. QED
    BY <2>3, <2>6
<1>2. \A T \in SUBSET S : T \in P
  <2> HIDE DEF P
  <2>. QED
    BY <1>1, SubsetInduction
<1>. QED
  BY <1>2

(* The equation of the fold. *)
LEMMA SumStep ==
  ASSUME NEW f, NEW S, IsFiniteSet(S)
  PROVE  IF S = {} THEN SumOf(f, S) = 0
         ELSE SumOf(f, S) = f[Chosen(S)] + SumOf(f, S \ {Chosen(S)})
<1> DEFINE g == [s \in SUBSET S |-> SumOf(f, s)]
<1>1. Adds(f, S, g)
  BY SumsAdd
<1>2. /\ g[S] = SumOf(f, S)
      /\ g[S \ {Chosen(S)}] = SumOf(f, S \ {Chosen(S)})
      /\ S \in SUBSET S
  OBVIOUS
<1>3. g[{}] = 0 /\ (S # {} => g[S] = f[Chosen(S)] + g[S \ {Chosen(S)}])
  <2> HIDE DEF g
  <2>. QED
    BY <1>1, <1>2, AddsAt
<1>. QED
  BY <1>2, <1>3

-----------------------------------------------------------------------------
(* What a user of SumOf needs.                                             *)

IntegersOn(f, S) == \A x \in S : f[x] \in Int

LEMMA SumEmpty == \A f : SumOf(f, {}) = 0
BY SumStep, FS_EmptySet

(* A sum of integers is an integer. *)
LEMMA SumType ==
  ASSUME NEW f, NEW S, IsFiniteSet(S), IntegersOn(f, S)
  PROVE  SumOf(f, S) \in Int
<1> DEFINE P == {T \in SUBSET S : SumOf(f, T) \in Int}
<1>1. ASSUME NEW T \in SUBSET S, \A U \in SUBSET T : U # T => U \in P
      PROVE  T \in P
  <2>1. IsFiniteSet(T)
    BY FS_Subset
  <2>2. CASE T = {}
    BY <2>2, SumEmpty
  <2>3. CASE T # {}
    <3>1. Chosen(T) \in T
      BY <2>3 DEF Chosen
    <3>2. SumOf(f, T \ {Chosen(T)}) \in Int
      BY <1>1, <3>1
    <3>3. f[Chosen(T)] \in Int
      BY <3>1 DEF IntegersOn
    <3>4. SumOf(f, T) = f[Chosen(T)] + SumOf(f, T \ {Chosen(T)})
      BY <2>1, <2>3, SumStep
    <3>. QED
      BY <3>2, <3>3, <3>4
  <2>. QED
    BY <2>2, <2>3
<1>2. \A T \in SUBSET S : T \in P
  <2> HIDE DEF P
  <2>. QED
    BY <1>1, SubsetInduction
<1>. QED
  BY <1>2

(* Any element may be taken out first. *)
LEMMA SumRemove ==
  ASSUME NEW f, NEW S, IsFiniteSet(S), IntegersOn(f, S), NEW x \in S
  PROVE  SumOf(f, S) = f[x] + SumOf(f, S \ {x})
<1> DEFINE P == {T \in SUBSET S :
                   \A y \in T : SumOf(f, T) = f[y] + SumOf(f, T \ {y})}
<1>1. ASSUME NEW T \in SUBSET S, \A U \in SUBSET T : U # T => U \in P
      PROVE  T \in P
  <2> SUFFICES ASSUME NEW y \in T PROVE SumOf(f, T) = f[y] + SumOf(f, T \ {y})
    OBVIOUS
  <2> DEFINE c == Chosen(T)
  <2>1. c \in T
    BY DEF Chosen
  <2>2. IsFiniteSet(T) /\ IsFiniteSet(T \ {y})
    BY FS_Subset
  <2>3. SumOf(f, T) = f[c] + SumOf(f, T \ {c})
    BY <2>2, SumStep
  <2>4. CASE y = c
    BY <2>3, <2>4
  <2>5. CASE y # c
    <3> HIDE DEF c
    <3>1. /\ T \ {c} \in P
          /\ T \ {y} \in P
      BY <1>1, <2>1
    <3>2. SumOf(f, T \ {c}) = f[y] + SumOf(f, (T \ {c}) \ {y})
      BY <3>1, <2>5
    <3>3. SumOf(f, T \ {y}) = f[c] + SumOf(f, (T \ {y}) \ {c})
      BY <3>1, <2>1, <2>5
    <3>4. (T \ {c}) \ {y} = (T \ {y}) \ {c}
      OBVIOUS
    <3>5. /\ f[c] \in Int /\ f[y] \in Int
          /\ SumOf(f, (T \ {y}) \ {c}) \in Int
      <4>1. IsFiniteSet((T \ {y}) \ {c}) /\ IntegersOn(f, (T \ {y}) \ {c})
        BY <2>2, FS_RemoveElement DEF IntegersOn
      <4>. QED
        BY <4>1, <2>1, SumType DEF IntegersOn
    <3>6. SumOf(f, T) = f[c] + (f[y] + SumOf(f, (T \ {y}) \ {c}))
      BY <2>3, <3>2, <3>4
    <3> HIDE DEF P
    <3>. QED
      BY <3>3, <3>5, <3>6
  <2>. QED
    BY <2>4, <2>5
<1>2. \A T \in SUBSET S : T \in P
  <2> HIDE DEF P
  <2>. QED
    BY <1>1, SubsetInduction
<1>. QED
  BY <1>2

(* An induction step for sums: a statement about all subsets of S that holds
   of {} and, with a set T, of T and one more element. *)
LEMMA ElementInduction ==
  ASSUME NEW S, IsFiniteSet(S), NEW P, {} \in P,
         \A T \in SUBSET S, x \in S : T \in P /\ x \notin T => T \cup {x} \in P
  PROVE  S \in P
<1>1. ASSUME NEW T \in SUBSET S, \A U \in SUBSET T : U # T => U \in P
      PROVE  T \in P
  <2>1. CASE T = {}
    BY <2>1
  <2>2. CASE T # {}
    <3>1. PICK x \in T : TRUE
      BY <2>2
    <3>2. T \ {x} \in P /\ x \notin T \ {x} /\ T \ {x} \in SUBSET S /\ x \in S
      BY <1>1, <3>1
    <3>3. (T \ {x}) \cup {x} = T
      BY <3>1
    <3>. QED
      BY <3>2, <3>3
  <2>. QED
    BY <2>1, <2>2
<1>. QED
  BY <1>1, SubsetInduction

LEMMA SumInsert ==
  ASSUME NEW f, NEW S, IsFiniteSet(S), NEW x, x \notin S,
         IntegersOn(f, S \cup {x})
  PROVE  SumOf(f, S \cup {x}) = f[x] + SumOf(f, S)
<1>1. IsFiniteSet(S \cup {x})
  BY FS_AddElement
<1>2. (S \cup {x}) \ {x} = S
  OBVIOUS
<1>. QED
  BY <1>1, <1>2, SumRemove

(* Only the values on the set count. *)
LEMMA SumEqual ==
  ASSUME NEW f, NEW g, NEW S, IsFiniteSet(S), \A x \in S : f[x] = g[x],
         IntegersOn(f, S)
  PROVE  SumOf(f, S) = SumOf(g, S)
<1> DEFINE P == {T \in SUBSET S : SumOf(f, T) = SumOf(g, T)}
<1>1. {} \in P
  BY SumEmpty
<1>2. ASSUME NEW T \in SUBSET S, NEW x \in S, T \in P, x \notin T
      PROVE  T \cup {x} \in P
  <2>1. IsFiniteSet(T)
    BY FS_Subset
  <2>2. IntegersOn(f, T \cup {x}) /\ IntegersOn(g, T \cup {x})
    BY DEF IntegersOn
  <2>3. /\ SumOf(f, T \cup {x}) = f[x] + SumOf(f, T)
        /\ SumOf(g, T \cup {x}) = g[x] + SumOf(g, T)
    BY <1>2, <2>1, <2>2, SumInsert
  <2>. QED
    BY <1>2, <2>3
<1>3. S \in P
  <2> HIDE DEF P
  <2>. QED
    BY <1>1, <1>2, ElementInduction
<1>. QED
  BY <1>3

(* The sum of pointwise sums. *)
LEMMA SumAdd ==
  ASSUME NEW f, NEW g, NEW h, NEW S, IsFiniteSet(S),
         IntegersOn(f, S), IntegersOn(g, S), \A x \in S : h[x] = f[x] + g[x]
  PROVE  SumOf(h, S) = SumOf(f, S) + SumOf(g, S)
<1> DEFINE P == {T \in SUBSET S : SumOf(h, T) = SumOf(f, T) + SumOf(g, T)}
<1>1. {} \in P
  BY SumEmpty
<1>2. ASSUME NEW T \in SUBSET S, NEW x \in S, T \in P, x \notin T
      PROVE  T \cup {x} \in P
  <2>1. IsFiniteSet(T)
    BY FS_Subset
  <2>2. /\ IntegersOn(f, T \cup {x}) /\ IntegersOn(f, T)
        /\ IntegersOn(g, T \cup {x}) /\ IntegersOn(g, T)
        /\ IntegersOn(h, T \cup {x})
    BY DEF IntegersOn
  <2>3. /\ SumOf(f, T \cup {x}) = f[x] + SumOf(f, T)
        /\ SumOf(g, T \cup {x}) = g[x] + SumOf(g, T)
        /\ SumOf(h, T \cup {x}) = h[x] + SumOf(h, T)
    BY <1>2, <2>1, <2>2, SumInsert
  <2>4. SumOf(f, T) \in Int /\ SumOf(g, T) \in Int
    BY <2>1, <2>2, SumType
  <2>5. f[x] \in Int /\ g[x] \in Int
    BY DEF IntegersOn
  <2>. QED
    BY <1>2, <2>3, <2>4, <2>5
<1>3. S \in P
  <2> HIDE DEF P
  <2>. QED
    BY <1>1, <1>2, ElementInduction
<1>. QED
  BY <1>3

(* The same with a difference. *)
LEMMA SumSubtract ==
  ASSUME NEW f, NEW g, NEW h, NEW S, IsFiniteSet(S),
         IntegersOn(f, S), IntegersOn(g, S), \A x \in S : h[x] = f[x] - g[x]
  PROVE  SumOf(h, S) = SumOf(f, S) - SumOf(g, S)
<1>1. IntegersOn(h, S) /\ \A x \in S : f[x] = h[x] + g[x]
  BY DEF IntegersOn
<1>2. SumOf(f, S) = SumOf(h, S) + SumOf(g, S)
  BY <1>1, SumAdd
<1>3. SumOf(h, S) \in Int /\ SumOf(g, S) \in Int
  BY <1>1, SumType
<1>. QED
  BY <1>2, <1>3

(* One value changed. *)
LEMMA SumUpdate ==
  ASSUME NEW f, NEW g, NEW S, IsFiniteSet(S), IntegersOn(f, S), NEW x \in S,
         g[x] \in Int, \A y \in S \ {x} : g[y] = f[y]
  PROVE  SumOf(g, S) = SumOf(f, S) - f[x] + g[x]
<1>1. IntegersOn(g, S) /\ IntegersOn(f, S \ {x}) /\ f[x] \in Int
  BY DEF IntegersOn
<1>2. IsFiniteSet(S \ {x})
  BY FS_RemoveElement
<1>3. SumOf(f, S \ {x}) = SumOf(g, S \ {x})
  BY <1>1, <1>2, SumEqual
<1>4. SumOf(f, S \ {x}) \in Int
  BY <1>1, <1>2, SumType
<1>5. /\ SumOf(f, S) = f[x] + SumOf(f, S \ {x})
      /\ SumOf(g, S) = g[x] + SumOf(g, S \ {x})
  BY <1>1, SumRemove
<1>. QED
  BY <1>1, <1>3, <1>4, <1>5

LEMMA SumMonotone ==
  ASSUME NEW f, NEW g, NEW S, IsFiniteSet(S),
         IntegersOn(f, S), IntegersOn(g, S), \A x \in S : f[x] =< g[x]
  PROVE  SumOf(f, S) =< SumOf(g, S)
<1> DEFINE P == {T \in SUBSET S : SumOf(f, T) =< SumOf(g, T)}
<1>1. {} \in P
  BY SumEmpty
<1>2. ASSUME NEW T \in SUBSET S, NEW x \in S, T \in P, x \notin T
      PROVE  T \cup {x} \in P
  <2>1. IsFiniteSet(T)
    BY FS_Subset
  <2>2. /\ IntegersOn(f, T \cup {x}) /\ IntegersOn(f, T)
        /\ IntegersOn(g, T \cup {x}) /\ IntegersOn(g, T)
    BY DEF IntegersOn
  <2>3. /\ SumOf(f, T \cup {x}) = f[x] + SumOf(f, T)
        /\ SumOf(g, T \cup {x}) = g[x] + SumOf(g, T)
    BY <1>2, <2>1, <2>2, SumInsert
  <2>4. SumOf(f, T) \in Int /\ SumOf(g, T) \in Int
    BY <2>1, <2>2, SumType
  <2>5. f[x] \in Int /\ g[x] \in Int /\ f[x] =< g[x]
    BY DEF IntegersOn
  <2>. QED
    BY <1>2, <2>3, <2>4, <2>5
<1>3. S \in P
  <2> HIDE DEF P
  <2>. QED
    BY <1>1, <1>2, ElementInduction
<1>. QED
  BY <1>3

(* A sum of zeros; and of naturals, none of which exceeds the sum. *)
LEMMA SumZero ==
  ASSUME NEW f, NEW S, IsFiniteSet(S), \A x \in S : f[x] = 0
  PROVE  SumOf(f, S) = 0
<1> DEFINE P == {T \in SUBSET S : SumOf(f, T) = 0}
<1>1. {} \in P
  BY SumEmpty
<1>2. ASSUME NEW T \in SUBSET S, NEW x \in S, T \in P, x \notin T
      PROVE  T \cup {x} \in P
  <2>1. IsFiniteSet(T)
    BY FS_Subset
  <2>2. IntegersOn(f, T \cup {x})
    BY DEF IntegersOn
  <2>3. SumOf(f, T \cup {x}) = f[x] + SumOf(f, T)
    BY <1>2, <2>1, <2>2, SumInsert
  <2>. QED
    BY <1>2, <2>3
<1>3. S \in P
  <2> HIDE DEF P
  <2>. QED
    BY <1>1, <1>2, ElementInduction
<1>. QED
  BY <1>3

LEMMA SumNatural ==
  ASSUME NEW f, NEW S, IsFiniteSet(S), \A x \in S : f[x] \in Nat
  PROVE  SumOf(f, S) \in Nat /\ \A x \in S : f[x] =< SumOf(f, S)
<1> DEFINE zero == [x \in S |-> 0]
<1>1. ASSUME NEW T \in SUBSET S PROVE SumOf(f, T) \in Nat
  <2>1. IsFiniteSet(T)
    BY FS_Subset
  <2>2. IntegersOn(f, T) /\ IntegersOn(zero, T) /\ \A x \in T : zero[x] =< f[x]
    BY DEF IntegersOn
  <2>3. \A x \in T : zero[x] = 0
    OBVIOUS
  <2> HIDE DEF zero
  <2>4. SumOf(zero, T) = 0 /\ SumOf(zero, T) =< SumOf(f, T) /\ SumOf(f, T) \in Int
    BY <2>1, <2>2, <2>3, SumZero, SumMonotone, SumType
  <2>. QED
    BY <2>4
<1>2. ASSUME NEW x \in S PROVE f[x] =< SumOf(f, S)
  <2>1. SumOf(f, S) = f[x] + SumOf(f, S \ {x})
    BY SumRemove DEF IntegersOn
  <2>2. SumOf(f, S \ {x}) \in Nat
    BY <1>1
  <2>. QED
    BY <2>1, <2>2
<1>. QED
  BY <1>1, <1>2

(* Elements that count nothing may be left out. *)
LEMMA SumSupport ==
  ASSUME NEW f, NEW S, IsFiniteSet(S), IntegersOn(f, S), NEW T \in SUBSET S,
         \A x \in S \ T : f[x] = 0
  PROVE  SumOf(f, S) = SumOf(f, T)
<1> DEFINE P == {U \in SUBSET (S \ T) : SumOf(f, T \cup U) = SumOf(f, T)}
<1>1. {} \in P
  OBVIOUS
<1>2. ASSUME NEW U \in SUBSET (S \ T), NEW x \in S \ T, U \in P, x \notin U
      PROVE  U \cup {x} \in P
  <2>1. IsFiniteSet(T \cup U)
    <3>1. T \cup U \in SUBSET S
      OBVIOUS
    <3>. QED
      BY <3>1, FS_Subset
  <2>2. x \notin T \cup U /\ T \cup (U \cup {x}) = (T \cup U) \cup {x} /\ f[x] = 0
    BY <1>2
  <2>3. IntegersOn(f, (T \cup U) \cup {x}) /\ IntegersOn(f, T)
    BY DEF IntegersOn
  <2>4. SumOf(f, (T \cup U) \cup {x}) = f[x] + SumOf(f, T \cup U)
    BY <2>1, <2>2, <2>3, SumInsert
  <2>5. SumOf(f, T) \in Int
    BY <2>3, FS_Subset, SumType
  <2>6. SumOf(f, T \cup U) = SumOf(f, T)
    BY <1>2
  <2>7. SumOf(f, (T \cup U) \cup {x}) = SumOf(f, T)
    BY <2>2, <2>4, <2>5, <2>6
  <2>8. SumOf(f, T \cup (U \cup {x})) = SumOf(f, T)
    BY <2>2, <2>7
  <2>. QED
    BY <2>8
<1>3. S \ T \in P
  <2>1. IsFiniteSet(S \ T)
    BY FS_Subset
  <2> HIDE DEF P
  <2>. QED
    BY <2>1, <1>1, <1>2, ElementInduction
<1>4. T \cup (S \ T) = S
  OBVIOUS
<1>. QED
  BY <1>3, <1>4

(* A multiple of every value, and the same value everywhere. *)
LEMMA SumScale ==
  ASSUME NEW f, NEW g, NEW c \in Int, NEW S, IsFiniteSet(S), IntegersOn(f, S),
         \A x \in S : g[x] = c * f[x]
  PROVE  SumOf(g, S) = c * SumOf(f, S)
<1> DEFINE P == {T \in SUBSET S : SumOf(g, T) = c * SumOf(f, T)}
<1>1. {} \in P
  BY SumEmpty
<1>2. ASSUME NEW T \in SUBSET S, NEW x \in S, T \in P, x \notin T
      PROVE  T \cup {x} \in P
  <2>1. IsFiniteSet(T)
    BY FS_Subset
  <2>2. f[x] \in Int /\ g[x] = c * f[x] /\ c * f[x] \in Int
    BY DEF IntegersOn
  <2>3. \A y \in S : g[y] \in Int
    BY DEF IntegersOn
  <2>4. /\ IntegersOn(f, T \cup {x}) /\ IntegersOn(f, T)
        /\ IntegersOn(g, T \cup {x})
    BY <2>3 DEF IntegersOn
  <2>5. /\ SumOf(f, T \cup {x}) = f[x] + SumOf(f, T)
        /\ SumOf(g, T \cup {x}) = g[x] + SumOf(g, T)
    BY <1>2, <2>1, <2>4, SumInsert
  <2>6. SumOf(f, T) \in Int
    BY <2>1, <2>4, SumType
  <2>7. c * (f[x] + SumOf(f, T)) = c * f[x] + c * SumOf(f, T)
    BY <2>2, <2>6
  <2>. QED
    BY <1>2, <2>2, <2>5, <2>7
<1>3. S \in P
  <2> HIDE DEF P
  <2>. QED
    BY <1>1, <1>2, ElementInduction
<1>. QED
  BY <1>3

LEMMA SumConstant ==
  ASSUME NEW f, NEW c \in Int, NEW S, IsFiniteSet(S), \A x \in S : f[x] = c
  PROVE  SumOf(f, S) = c * Cardinality(S)
<1> DEFINE P == {T \in SUBSET S : SumOf(f, T) = c * Cardinality(T)}
<1>1. {} \in P
  BY SumEmpty, FS_EmptySet
<1>2. ASSUME NEW T \in SUBSET S, NEW x \in S, T \in P, x \notin T
      PROVE  T \cup {x} \in P
  <2>1. IsFiniteSet(T)
    BY FS_Subset
  <2>2. IntegersOn(f, T \cup {x})
    BY DEF IntegersOn
  <2>3. SumOf(f, T \cup {x}) = c + SumOf(f, T)
    BY <1>2, <2>1, <2>2, SumInsert
  <2>4. Cardinality(T \cup {x}) = Cardinality(T) + 1 /\ Cardinality(T) \in Nat
    BY <1>2, <2>1, FS_AddElement, FS_CardinalityType
  <2>5. c * (Cardinality(T) + 1) = c + c * Cardinality(T)
    BY <2>4
  <2>. QED
    BY <1>2, <2>3, <2>4, <2>5
<1>3. S \in P
  <2> HIDE DEF P
  <2>. QED
    BY <1>1, <1>2, ElementInduction
<1>. QED
  BY <1>3

=============================================================================
