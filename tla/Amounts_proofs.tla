--------------------------- MODULE Amounts_proofs ---------------------------
(* Facts about amounts that the proofs about the templates share: what       *)
(* truncation to a grid and the ledger's half-up rounding return, and how    *)
(* the sum of a book of records changes with the book; for every amount,     *)
(* grid and finite set of keys.                                              *)
EXTENDS Grid, Functions, FiniteSets, FiniteSetTheorems, WellFoundedInduction, TLAPS

-----------------------------------------------------------------------------
(* Grids.                                                                    *)

LEMMA QuotientRemainder ==
    ASSUME NEW q \in Nat, NEW g \in Nat \ {0}
    PROVE  /\ q \div g \in Nat
           /\ q % g \in 0..g - 1
           /\ q = g * (q \div g) + (q % g)
  OBVIOUS

\* A multiple of g that is less than g away from 0 is 0.
LEMMA SmallMultiple ==
    ASSUME NEW g \in Nat \ {0}, NEW n \in Int, g * n < g, -g < g * n
    PROVE  n = 0
<1>1. CASE n >= 1
  <2>1. PICK m \in Nat : n = m + 1
    BY <1>1
  <2>2. g * n = g * m + g /\ g * m \in Nat
    BY <2>1
  <2> QED
    BY <2>2
<1>2. CASE n <= -1
  <2>1. PICK m \in Nat : n = -(m + 1)
    <3>1. -n - 1 \in Nat
      BY <1>2
    <3> QED
      BY <3>1
  <2>2. g * n = -(g * m) - g /\ g * m \in Nat
    BY <2>1
  <2> QED
    BY <2>2
<1> QED
  BY <1>1, <1>2

LEMMA DivisionIsUnique ==
    ASSUME NEW g \in Nat \ {0}, NEW k \in Nat, NEW r \in 0..g - 1
    PROVE  /\ (g * k + r) % g = r
           /\ (g * k + r) \div g = k
<1> DEFINE q == g * k + r
           n == k - (q \div g)
<1>1. q \in Nat
  OBVIOUS
<1>2. /\ q \div g \in Nat /\ q % g \in 0..g - 1
      /\ q = g * (q \div g) + (q % g)
  BY <1>1, QuotientRemainder
<1>3. n \in Int /\ g * n = (q % g) - r
  <2>1. g * n = g * k - g * (q \div g)
    BY <1>2
  <2> QED
    BY <1>2, <2>1
<1>4. n = 0
  <2>1. g * n < g /\ -g < g * n
    BY <1>2, <1>3
  <2> HIDE DEF n
  <2> QED
    BY <1>3, <2>1, SmallMultiple
<1> QED
  BY <1>2, <1>3, <1>4

(* floorToDecimals() never adds, and what it drops is less than a base unit. *)
LEMMA FloorToBounds ==
    ASSUME NEW q \in Nat, NEW g \in Nat \ {0}
    PROVE  /\ FloorTo(q, g) \in 0..q
           /\ q - FloorTo(q, g) < g
  BY QuotientRemainder DEF FloorTo

LEMMA FloorToMultiple ==
    ASSUME NEW q \in Nat, NEW g \in Nat \ {0}
    PROVE  FloorTo(q, g) = g * (q \div g)
  BY QuotientRemainder DEF FloorTo

LEMMA MultipleOnGrid ==
    ASSUME NEW k \in Nat, NEW g \in Nat \ {0}
    PROVE  OnGrid(g * k, g)
<1>1. (g * k + 0) % g = 0
  BY DivisionIsUnique
<1> QED
  BY <1>1 DEF OnGrid, FloorTo

(* Truncating twice truncates once.                                          *)
LEMMA FloorToOnGrid ==
    ASSUME NEW q \in Nat, NEW g \in Nat \ {0}
    PROVE  OnGrid(FloorTo(q, g), g)
  BY FloorToMultiple, MultipleOnGrid, QuotientRemainder

(* Sums and differences of whole base units are whole base units.            *)

LEMMA GridSum ==
    ASSUME NEW p \in Nat, NEW q \in Nat, NEW g \in Nat \ {0},
           OnGrid(p, g), OnGrid(q, g)
    PROVE  OnGrid(p + q, g)
<1>1. PICK k \in Nat : p = g * k
  BY FloorToMultiple, QuotientRemainder DEF OnGrid
<1>2. PICK m \in Nat : q = g * m
  BY FloorToMultiple, QuotientRemainder DEF OnGrid
<1>3. p + q = g * (k + m) /\ k + m \in Nat
  BY <1>1, <1>2
<1> QED
  BY <1>3, MultipleOnGrid

LEMMA GridDifference ==
    ASSUME NEW p \in Nat, NEW q \in 0..p, NEW g \in Nat \ {0},
           OnGrid(p, g), OnGrid(q, g)
    PROVE  OnGrid(p - q, g)
<1>1. PICK k \in Nat : p = g * k
  BY FloorToMultiple, QuotientRemainder DEF OnGrid
<1>2. PICK m \in Nat : q = g * m
  <2>1. q \in Nat
    OBVIOUS
  <2> QED
    BY <2>1, FloorToMultiple, QuotientRemainder DEF OnGrid
<1>3. k >= m
  <2>1. SUFFICES ASSUME k < m PROVE FALSE
    OBVIOUS
  <2>2. PICK d \in Nat : m = k + d + 1
    <3>1. m - k - 1 \in Nat
      BY <2>1
    <3> QED
      BY <3>1
  <2>3. g * m = g * k + g * d + g /\ g * d \in Nat /\ g * k \in Nat
    BY <2>2
  <2> QED
    BY <1>1, <1>2, <2>3
<1>4. p - q = g * (k - m) /\ k - m \in Nat
  BY <1>1, <1>2, <1>3
<1> QED
  BY <1>4, MultipleOnGrid

LEMMA ZeroOnGrid == ASSUME NEW g \in Nat \ {0} PROVE OnGrid(0, g)
<1>1. OnGrid(g * 0, g)
  BY MultipleOnGrid
<1> QED
  BY <1>1

(* Whole numbers of whole base units are whole base units.                   *)
LEMMA GridOfGrid ==
    ASSUME NEW q \in Nat, NEW h \in Nat \ {0}, NEW g \in Nat \ {0},
           OnGrid(q, h), OnGrid(h, g)
    PROVE  OnGrid(q, g)
<1>1. PICK k \in Nat : q = h * k
  BY FloorToMultiple, QuotientRemainder DEF OnGrid
<1>2. PICK m \in Nat : h = g * m
  <2>1. h \in Nat
    OBVIOUS
  <2> QED
    BY <2>1, FloorToMultiple, QuotientRemainder DEF OnGrid
<1>3. m * k \in Nat
  OBVIOUS
<1>4. (g * m) * k = g * (m * k)
  OBVIOUS
<1> QED
  BY <1>1, <1>2, <1>3, <1>4, MultipleOnGrid

(* Less than a base unit, on the grid, is nothing.                           *)
LEMMA SmallOnGrid ==
    ASSUME NEW q \in Nat, NEW g \in Nat \ {0}, q < g, OnGrid(q, g)
    PROVE  q = 0
<1>1. (g * 0 + q) % g = q
  BY DivisionIsUnique
<1>2. q % g = q
  BY <1>1
<1> QED
  BY <1>2 DEF OnGrid, FloorTo

(* Division keeps the order.                                                 *)
LEMMA DivisionMonotone ==
    ASSUME NEW p \in Nat, NEW q \in Nat, NEW g \in Nat \ {0}, p <= q
    PROVE  p \div g <= q \div g
<1> DEFINE u == p \div g
           v == q \div g
<1>1. /\ u \in Nat /\ p % g \in 0..g - 1 /\ p = g * u + (p % g)
      /\ v \in Nat /\ q % g \in 0..g - 1 /\ q = g * v + (q % g)
  BY QuotientRemainder
<1> HIDE DEF u, v
<1>2. SUFFICES ASSUME v + 1 <= u PROVE FALSE
  BY <1>1 DEF u, v
<1>3. PICK d \in Nat : u = v + 1 + d
  <2>1. u - (v + 1) \in Nat
    BY <1>1, <1>2
  <2> QED
    BY <1>1, <2>1
<1>4. g * u = g * v + g + g * d /\ g * d \in Nat /\ g * v \in Nat
  BY <1>1, <1>3
<1> QED
  BY <1>1, <1>4

(* Truncation keeps the order.                                               *)
LEMMA FloorToMonotone ==
    ASSUME NEW p \in Nat, NEW q \in Nat, NEW g \in Nat \ {0}, p <= q
    PROVE  FloorTo(p, g) <= FloorTo(q, g)
<1>1. SUFFICES ASSUME FloorTo(q, g) < FloorTo(p, g) PROVE FALSE
  BY FloorToBounds
<1>2. /\ FloorTo(p, g) \in 0..p /\ OnGrid(FloorTo(p, g), g)
      /\ FloorTo(q, g) \in 0..q /\ OnGrid(FloorTo(q, g), g)
      /\ q - FloorTo(q, g) < g
  BY FloorToBounds, FloorToOnGrid
<1> DEFINE d == FloorTo(p, g) - FloorTo(q, g)
<1>3. d \in Nat /\ d < g /\ d > 0
  BY <1>1, <1>2
<1>4. OnGrid(d, g)
  BY <1>1, <1>2, GridDifference
<1> HIDE DEF d
<1>5. PICK k \in Nat : d = g * k
  <2>1. d = g * (d \div g)
    BY <1>3, <1>4, FloorToMultiple DEF OnGrid
  <2>2. d \div g \in Nat
    BY <1>3, QuotientRemainder
  <2> QED
    BY <2>1, <2>2
<1>6. k = 0
  BY <1>3, <1>5, SmallMultiple
<1> QED
  BY <1>3, <1>5, <1>6

(* Why the templates truncate what they emit: the ledger moves an amount on  *)
(* the tick's grid as it stands.                                             *)
THEOREM LedgerKeepsGrid ==
    ASSUME NEW q \in Nat, NEW g \in Nat \ {0}, OnGrid(q, g)
    PROVE  HalfUp(q, g) = q
<1>1. PICK k \in Nat : q = g * k
  BY FloorToMultiple, QuotientRemainder DEF OnGrid
<1> DEFINE h == 2 * g
           s == h * k + g
<1>2. 2 * q + g = s
  BY <1>1
<1>3. h \in Nat \ {0} /\ g \in 0..h - 1 /\ s \in Nat /\ h * k \in Nat
  <2>1. h \in Nat \ {0} /\ g \in 0..h - 1
    OBVIOUS
  <2> HIDE DEF h
  <2> QED
    BY <2>1
<1>4. s % h = g
  <2> HIDE DEF h
  <2> QED
    BY <1>3, DivisionIsUnique
<1>5. FloorTo(s, h) = h * k
  <2> HIDE DEF h
  <2> QED
    BY <1>3, <1>4 DEF FloorTo
<1>6. h * k = 2 * q
  BY <1>1
<1> QED
  BY <1>2, <1>5, <1>6 DEF HalfUp

(* What the ledger moves for any amount at all is a whole number of base     *)
(* units, at most half a unit above it and less than half a unit below.      *)
THEOREM LedgerRounds ==
    ASSUME NEW q \in Nat, NEW g \in Nat \ {0}
    PROVE  /\ HalfUp(q, g) \in Nat
           /\ OnGrid(HalfUp(q, g), g)
           /\ 2 * HalfUp(q, g) <= 2 * q + g
           /\ 2 * HalfUp(q, g) > 2 * q - g
<1> DEFINE h == 2 * g
           s == 2 * q + g
           k == s \div h
<1>1. h \in Nat \ {0} /\ s \in Nat
  OBVIOUS
<1>2. k \in Nat /\ FloorTo(s, h) = h * k /\ FloorTo(s, h) \in 0..s /\ s - FloorTo(s, h) < h
  <2> HIDE DEF h, s
  <2> QED
    BY <1>1, QuotientRemainder, FloorToMultiple, FloorToBounds
<1>3. h * k = 2 * (g * k) /\ g * k \in Nat
  <2> HIDE DEF k
  <2> QED
    BY <1>2
<1>4. HalfUp(q, g) = g * k
  <2> HIDE DEF k
  <2> QED
    BY <1>2, <1>3 DEF HalfUp
<1>5. OnGrid(g * k, g)
  <2> HIDE DEF k
  <2> QED
    BY <1>2, MultipleOnGrid
<1> QED
  <2>1. 2 * (g * k) <= s /\ s - 2 * (g * k) < h
    BY <1>2, <1>3
  <2> HIDE DEF k
  <2> QED
    BY <1>3, <1>4, <1>5, <2>1

(* Products keep and reflect the order.                                      *)
LEMMA ProductMonotone ==
    ASSUME NEW k \in Nat, NEW p \in Nat, NEW q \in Nat, p <= q
    PROVE  /\ k * p \in Nat /\ k * q \in Nat
           /\ k * p <= k * q
           /\ p * k = k * p /\ q * k = k * q
<1>1. PICK d \in Nat : q = p + d
  <2>1. q - p \in Nat
    OBVIOUS
  <2> QED
    BY <2>1
<1>2. k * q = k * p + k * d /\ k * d \in Nat /\ k * p \in Nat
  BY <1>1
<1> QED
  BY <1>2

LEMMA ProductCancels ==
    ASSUME NEW k \in Nat \ {0}, NEW p \in Nat, NEW q \in Nat, k * p <= k * q
    PROVE  p <= q
<1>1. SUFFICES ASSUME q + 1 <= p PROVE FALSE
  OBVIOUS
<1>2. k * (q + 1) <= k * p
  BY <1>1, ProductMonotone
<1>3. k * (q + 1) = k * q + k /\ k * q \in Nat /\ k * p \in Nat
  OBVIOUS
<1> QED
  BY <1>2, <1>3

(* The product of two inequalities.                                          *)
LEMMA ProductOfBounds ==
    ASSUME NEW p \in Nat, NEW q \in Nat, NEW r \in Nat, NEW s \in Nat, p >= q, r >= s
    PROVE  p * r >= q * s /\ p * r \in Nat /\ q * s \in Nat
<1>1. p * s <= p * r /\ p * s \in Nat /\ p * r \in Nat
  BY ProductMonotone
<1>2. s * q <= s * p /\ s * q = q * s /\ s * p = p * s /\ q * s \in Nat
  BY ProductMonotone
<1> QED
  BY <1>1, <1>2

(* A quotient, times what it was divided by, is no more than the dividend.   *)
LEMMA QuotientBound ==
    ASSUME NEW x \in Nat, NEW g \in Nat \ {0}
    PROVE  x \div g \in Nat /\ (x \div g) * g <= x
<1>1. x = g * (x \div g) + (x % g) /\ x % g \in 0..g - 1 /\ x \div g \in Nat
  BY QuotientRemainder
<1>2. (x \div g) * g = g * (x \div g) /\ g * (x \div g) \in Nat
  BY <1>1
<1> QED
  BY <1>1, <1>2

-----------------------------------------------------------------------------
(* Sums.                                                                     *)

(* Among subsets of a finite set there is a smallest one: induction as the
   provers can use it, on sets of what is so and not on a predicate. *)
LEMMA MinimalSubset ==
  ASSUME NEW S, IsFiniteSet(S), NEW C, C \subseteq SUBSET S, C # {}
  PROVE \E T \in C : \A U \in C : U \subseteq T => U = T
<1>1. C \subseteq FiniteSubsetsOf(S)
  BY FS_Subset DEF FiniteSubsetsOf
<1>2. PICK R : R = StrictSubsetOrdering(S)
  OBVIOUS
<1>3. IsWellFoundedOn(R, FiniteSubsetsOf(S))
  BY FS_StrictSubsetOrderingWellFounded, <1>2
<1>4. \E T \in C : \A U \in C : ~ (<<U, T>> \in R)
  BY <1>1, <1>3, WFMin
<1>5. \A T, U \in C : U \subseteq T /\ U # T => <<U, T>> \in R
  BY <1>2 DEF StrictSubsetOrdering
<1> QED
  BY <1>4, <1>5

(* What holds of the empty set and is kept by adding an element holds of
   the whole of a finite set. *)
LEMMA SubsetInduction ==
  ASSUME NEW S, IsFiniteSet(S), NEW B, {} \in B,
         \A T \in SUBSET S, x \in S : T \in B /\ x \notin T => T \cup {x} \in B
  PROVE S \in B
<1>1. SUFFICES ASSUME S \notin B PROVE FALSE
  OBVIOUS
<1> DEFINE C == (SUBSET S) \ B
<1>2. \E T \in C : \A U \in C : U \subseteq T => U = T
  <2>1. C \subseteq SUBSET S /\ C # {}
    BY <1>1
  <2> HIDE DEF C
  <2> QED
    BY <2>1, MinimalSubset
<1>3. PICK T \in C : \A U \in C : U \subseteq T => U = T
  BY <1>2
<1>4. PICK x \in T : TRUE
  OBVIOUS
<1>5. T \ {x} \in B
  BY <1>3
<1>6. (T \ {x}) \cup {x} = T
  OBVIOUS
<1> QED
  BY <1>5, <1>6

(* Induction on the natural numbers, of a set. *)
LEMMA CountingUp ==
  ASSUME NEW B, 0 \in B, \A n \in Nat : n \in B => n + 1 \in B
  PROVE  Nat \subseteq B
<1>1. SUFFICES ASSUME NEW n \in Nat, n \notin B PROVE FALSE
  OBVIOUS
<1> DEFINE C == {0..k : k \in (0..n) \ B}
<1>2. \E T \in C : \A U \in C : U \subseteq T => U = T
  <2>2. PICK S : S = 0..n
    OBVIOUS
  <2>1. C \subseteq SUBSET S /\ C # {}
    BY <1>1, <2>2
  <2>3. IsFiniteSet(S)
    BY FS_Interval, <2>2
  <2> HIDE DEF C
  <2>4. PICK D : D = C
    OBVIOUS
  <2>5. D \subseteq SUBSET S /\ D # {}
    BY <2>1, <2>4
  <2>6. \E T \in D : \A U \in D : U \subseteq T => U = T
    BY <2>3, <2>5, MinimalSubset
  <2> QED
    BY <2>4, <2>6
<1>3. PICK k \in (0..n) \ B : \A U \in C : U \subseteq 0..k => U = 0..k
  BY <1>2
<1>4. k # 0
  BY <1>3
<1>5. k - 1 \in B
  <2>1. SUFFICES ASSUME k - 1 \notin B PROVE FALSE
    OBVIOUS
  <2>2. 0..(k-1) \in C
    BY <2>1, <1>4
  <2>4. 0..(k-1) \subseteq 0..k
    BY <1>4
  <2>3. 0..(k-1) = 0..k
    <3> HIDE DEF C
    <3> QED
      BY <2>2, <1>3, <2>4
  <2> QED
    BY <2>3
<1>6. k - 1 + 1 \in B
  BY <1>4, <1>5
<1> QED
  BY <1>6, <1>3

(* One step of the recursive function behind SumFunctionOnSet.               *)
AnyOf(s) == CHOOSE x \in s : TRUE

SumStep(f, g, s) == IF s = {} THEN 0 ELSE f[AnyOf(s)] + g[s \ {AnyOf(s)}]

Summing(f, S, g) == g = [s \in SUBSET S |-> SumStep(f, g, s)]

(* The recursive function that SumFunctionOnSet chooses exists. *)
LEMMA SumExists ==
  ASSUME NEW f, NEW S, IsFiniteSet(S)
  PROVE  \E g : Summing(f, S, g)
<1> DEFINE Small(n) == {s \in SUBSET S : Cardinality(s) <= n}
           B == {n \in Nat : \E g : g = [s \in Small(n) |-> SumStep(f, g, s)]}
<1>0. \A s \in SUBSET S : IsFiniteSet(s) /\ Cardinality(s) \in Nat
  BY FS_Subset, FS_CardinalityType
<1>1. 0 \in B
  <2>1. \A s \in Small(0) : s = {}
    BY <1>0, FS_EmptySet
  <2>2. [s \in Small(0) |-> 0] = [s \in Small(0) |-> SumStep(f, [t \in Small(0) |-> 0], s)]
    BY <2>1 DEF SumStep
  <2> QED
    BY <2>2
<1>2. \A n \in Nat : n \in B => n + 1 \in B
  <2>1. SUFFICES ASSUME NEW n \in Nat, NEW g, g = [s \in Small(n) |-> SumStep(f, g, s)]
                 PROVE  \E h : h = [s \in Small(n + 1) |-> SumStep(f, h, s)]
    <3> HIDE DEF Small
    <3> QED
      OBVIOUS
  <2> DEFINE h == [s \in Small(n + 1) |-> SumStep(f, g, s)]
  <2>2. \A s \in Small(n + 1) : s # {} => s \ {AnyOf(s)} \in Small(n)
    <3>1. SUFFICES ASSUME NEW s \in SUBSET S, Cardinality(s) <= n + 1, s # {}
                   PROVE s \ {AnyOf(s)} \in SUBSET S /\ Cardinality(s \ {AnyOf(s)}) <= n
      OBVIOUS
    <3>2. AnyOf(s) \in s
      BY <3>1 DEF AnyOf
    <3>3. Cardinality(s \ {AnyOf(s)}) = Cardinality(s) - 1
      BY <3>2, <1>0, FS_RemoveElement
    <3> QED
      BY <3>1, <3>3, <1>0
  <2>3. \A s \in Small(n) : s \in Small(n + 1) /\ h[s] = g[s]
    <3>1. SUFFICES ASSUME NEW s \in Small(n) PROVE s \in Small(n + 1) /\ h[s] = g[s]
      OBVIOUS
    <3>2. s \in Small(n+1)
      BY <1>0
    <3>3. h[s] = SumStep(f, g, s)
      BY <3>2
    <3>4. g[s] = SumStep(f, g, s)
      <4> HIDE DEF Small
      <4> QED
        BY <2>1
    <3> QED
      BY <3>2, <3>3, <3>4
  <2>4. \A s \in Small(n + 1) : SumStep(f, h, s) = SumStep(f, g, s)
    <3> HIDE DEF h, Small
    <3> QED
      BY <2>2, <2>3 DEF SumStep
  <2>5. h = [s \in Small(n + 1) |-> SumStep(f, h, s)]
    <3> HIDE DEF Small
    <3>1. PICK k : k = h
      OBVIOUS
    <3>2. \A s \in Small(n + 1) : SumStep(f, k, s) = SumStep(f, g, s)
      BY <3>1, <2>4
    <3>3. k = [s \in Small(n + 1) |-> SumStep(f, k, s)]
      BY <3>1, <3>2
    <3> QED
      BY <3>1, <3>3
  <2> HIDE DEF h
  <2> QED
    BY <2>5
<1>3. Cardinality(S) \in B
  <2> HIDE DEF B
  <2> QED
    BY <1>1, <1>2, CountingUp, <1>0
<1>4. Small(Cardinality(S)) = SUBSET S
  BY FS_Subset
<1>5. PICK g : g = [s \in Small(Cardinality(S)) |-> SumStep(f, g, s)]
  BY <1>3
<1> QED
  <2> HIDE DEF Small
  <2> QED
    BY <1>4, <1>5 DEF Summing

(* What of that function the rest relies on.                                 *)
Sums(f, S, g) == /\ g[{}] = 0
                 /\ \A T \in SUBSET S : T # {} =>
                      AnyOf(T) \in T /\ g[T] = f[AnyOf(T)] + g[T \ {AnyOf(T)}]

LEMMA SummingSums == ASSUME NEW f, NEW S, NEW g, Summing(f, S, g) PROVE Sums(f, S, g)
<1>1. \A T \in SUBSET S : g[T] = SumStep(f, g, T)
  BY DEF Summing
<1>2. \A T \in SUBSET S : T # {} => AnyOf(T) \in T
  BY DEF AnyOf
<1> QED
  BY <1>1, <1>2 DEF SumStep, Sums

(* The sum over S is its last value.                                         *)
LEMMA SumIsLast ==
  ASSUME NEW f, NEW S, IsFiniteSet(S)
  PROVE  \E g : Sums(f, S, g) /\ SumFunctionOnSet(f, S) = g[S]
<1>1. \E g : g = [s \in SUBSET S |->
                   IF s = {} THEN 0
                   ELSE f[CHOOSE x \in s : TRUE] + g[s \ {CHOOSE x \in s : TRUE}]]
  <2>1. PICK g : Summing(f, S, g)
    BY SumExists
  <2> QED
    BY <2>1 DEF Summing, SumStep, AnyOf
<1> DEFINE i == CHOOSE g : g = [s \in SUBSET S |->
                   IF s = {} THEN 0
                   ELSE f[CHOOSE x \in s : TRUE] + g[s \ {CHOOSE x \in s : TRUE}]]
<1>2. i = [s \in SUBSET S |->
             IF s = {} THEN 0
             ELSE f[CHOOSE x \in s : TRUE] + i[s \ {CHOOSE x \in s : TRUE}]]
  BY <1>1
<1>3. SumFunctionOnSet(f, S) = i[S]
  BY DEF SumFunctionOnSet, FoldFunctionOnSet, MapThenFoldSet
<1> HIDE DEF i
<1>4. Summing(f, S, i)
  BY <1>2 DEF Summing, SumStep, AnyOf
<1> QED
  BY <1>3, <1>4, SummingSums

(* It only depends on the values summed, not on the set around them. *)
LEMMA SumsAgree ==
  ASSUME NEW f, NEW S, NEW g, Sums(f, S, g),
         NEW ff, NEW SS, NEW gg, Sums(ff, SS, gg),
         NEW T \in SUBSET (S \cap SS), IsFiniteSet(T),
         \A a \in T : f[a] = ff[a]
  PROVE  g[T] = gg[T]
<1> DEFINE C == {U \in SUBSET T : g[U] # gg[U]}
<1>1. SUFFICES ASSUME C # {} PROVE FALSE
  OBVIOUS
<1>2. PICK U \in C : \A V \in C : V \subseteq U => V = U
  <2>1. C \subseteq SUBSET T
    OBVIOUS
  <2> HIDE DEF C
  <2> QED
    BY <1>1, <2>1, MinimalSubset
<1>3. U # {}
  BY DEF Sums
<1>4. /\ AnyOf(U) \in U /\ g[U] = f[AnyOf(U)] + g[U \ {AnyOf(U)}]
      /\ gg[U] = ff[AnyOf(U)] + gg[U \ {AnyOf(U)}]
  <2>1. U \in SUBSET S /\ U \in SUBSET SS
    OBVIOUS
  <2> QED
    BY <1>3, <2>1 DEF Sums
<1>5. g[U \ {AnyOf(U)}] = gg[U \ {AnyOf(U)}]
  BY <1>2, <1>4
<1> QED
  BY <1>4, <1>5

LEMMA SumsType ==
  ASSUME NEW f, NEW S, IsFiniteSet(S), NEW g, Sums(f, S, g),
         NEW T \in SUBSET S, \A a \in S : f[a] \in Int
  PROVE  g[T] \in Int
<1> DEFINE C == {U \in SUBSET S : g[U] \notin Int}
<1>1. SUFFICES ASSUME C # {} PROVE FALSE
  OBVIOUS
<1>2. PICK U \in C : \A V \in C : V \subseteq U => V = U
  <2>1. C \subseteq SUBSET S
    OBVIOUS
  <2> HIDE DEF C
  <2> QED
    BY <1>1, <2>1, MinimalSubset
<1>3. U # {}
  <2>1. g[{}] \in Int
    BY DEF Sums
  <2> QED
    BY <2>1
<1>4. AnyOf(U) \in U /\ g[U] = f[AnyOf(U)] + g[U \ {AnyOf(U)}]
  BY <1>3 DEF Sums
<1>5. g[U \ {AnyOf(U)}] \in Int
  BY <1>2, <1>4
<1> QED
  BY <1>4, <1>5

(* Any element may be taken out first, not only the one that is chosen. *)
LEMMA SumsRemove ==
  ASSUME NEW f, NEW S, IsFiniteSet(S), NEW g, Sums(f, S, g),
         NEW T \in SUBSET S, NEW x \in T, \A a \in S : f[a] \in Int
  PROVE  g[T] = f[x] + g[T \ {x}]
<1> DEFINE C == {U \in SUBSET S : \E y \in U : g[U] # f[y] + g[U \ {y}]}
<1>1. SUFFICES ASSUME C # {} PROVE FALSE
  OBVIOUS
<1>2. PICK U \in C : \A V \in C : V \subseteq U => V = U
  <2>1. C \subseteq SUBSET S
    OBVIOUS
  <2> HIDE DEF C
  <2> QED
    BY <1>1, <2>1, MinimalSubset
<1>3. PICK y \in U : g[U] # f[y] + g[U \ {y}]
  OBVIOUS
<1>4. PICK z \in U : z = AnyOf(U) /\ g[U] = f[z] + g[U \ {z}]
  <2>1. U # {} /\ U \in SUBSET S
    BY <1>3
  <2>2. AnyOf(U) \in U /\ g[U] = f[AnyOf(U)] + g[U \ {AnyOf(U)}]
    BY <2>1 DEF Sums
  <2> QED
    BY <2>2
<1>5. z # y
  BY <1>3, <1>4
<1>6. g[U \ {z}] = f[y] + g[(U \ {z}) \ {y}]
  <2>1. U \ {z} \notin C /\ U \ {z} \in SUBSET S /\ y \in U \ {z}
    BY <1>2, <1>5
  <2> QED
    BY <2>1
<1>7. g[U \ {y}] = f[z] + g[(U \ {y}) \ {z}]
  <2>1. U \ {y} \notin C /\ U \ {y} \in SUBSET S /\ z \in U \ {y}
    BY <1>2, <1>5
  <2> QED
    BY <2>1
<1>8. (U \ {y}) \ {z} = (U \ {z}) \ {y}
  OBVIOUS
<1>9. f[y] \in Int /\ f[z] \in Int
  OBVIOUS
<1>10. g[(U \ {z}) \ {y}] \in Int
  <2>1. (U \ {z}) \ {y} \in SUBSET S
    OBVIOUS
  <2> QED
    BY <2>1, SumsType
<1>11. f[z] + (f[y] + g[(U \ {z}) \ {y}]) = f[y] + (f[z] + g[(U \ {z}) \ {y}])
  BY <1>9, <1>10
<1> QED
  BY <1>3, <1>4, <1>6, <1>7, <1>8, <1>11

-----------------------------------------------------------------------------
(* What the proofs about the templates use of sums.  The sum of nothing is 0; *)
LEMMA SumEmpty == ASSUME NEW f PROVE SumFunctionOnSet(f, {}) = 0
<1>1. PICK g : Sums(f, {}, g) /\ SumFunctionOnSet(f, {}) = g[{}]
  BY SumIsLast, FS_EmptySet
<1> QED
  BY <1>1 DEF Sums

(* a sum of integers is an integer;                                          *)
LEMMA SumType ==
  ASSUME NEW S, IsFiniteSet(S), NEW f, \A a \in S : f[a] \in Int
  PROVE  SumFunctionOnSet(f, S) \in Int
<1>1. PICK g : Sums(f, S, g) /\ SumFunctionOnSet(f, S) = g[S]
  BY SumIsLast
<1>2. g[S] \in Int
  BY <1>1, SumsType
<1> QED
  BY <1>1, <1>2

(* it depends on the values summed alone; *)
LEMMA SumAgrees ==
  ASSUME NEW S, IsFiniteSet(S), NEW f, NEW h, \A a \in S : f[a] = h[a]
  PROVE  SumFunctionOnSet(f, S) = SumFunctionOnSet(h, S)
<1>1. PICK g : Sums(f, S, g) /\ SumFunctionOnSet(f, S) = g[S]
  BY SumIsLast
<1>2. PICK k : Sums(h, S, k) /\ SumFunctionOnSet(h, S) = k[S]
  BY SumIsLast
<1>3. g[S] = k[S]
  <2>1. S \in SUBSET (S \cap S)
    OBVIOUS
  <2> QED
    BY <1>1, <1>2, <2>1, SumsAgree
<1> QED
  BY <1>1, <1>2, <1>3

(* it is any one value and the sum of the rest; *)
LEMMA SumRemove ==
  ASSUME NEW S, IsFiniteSet(S), NEW f, \A a \in S : f[a] \in Int, NEW x \in S
  PROVE  SumFunctionOnSet(f, S) = f[x] + SumFunctionOnSet(f, S \ {x})
<1>1. PICK g : Sums(f, S, g) /\ SumFunctionOnSet(f, S) = g[S]
  BY SumIsLast
<1>2. PICK T : T = S \ {x}
  OBVIOUS
<1>3. IsFiniteSet(T) /\ T \in SUBSET (S \cap T)
  BY <1>2, FS_RemoveElement
<1>4. PICK k : Sums(f, T, k) /\ SumFunctionOnSet(f, T) = k[T]
  BY <1>3, SumIsLast
<1>5. g[S] = f[x] + g[S \ {x}]
  <2>1. S \in SUBSET S
    OBVIOUS
  <2> QED
    BY <1>1, <2>1, SumsRemove
<1>6. g[T] = k[T]
  BY <1>1, <1>3, <1>4, SumsAgree
<1> QED
  BY <1>1, <1>2, <1>4, <1>5, <1>6

(* a new key adds its value; *)
LEMMA SumAdd ==
  ASSUME NEW S, IsFiniteSet(S), NEW f, NEW x, x \notin S,
         \A a \in S \cup {x} : f[a] \in Int
  PROVE  SumFunctionOnSet(f, S \cup {x}) = SumFunctionOnSet(f, S) + f[x]
<1>1. PICK T : T = S \cup {x}
  OBVIOUS
<1>2. IsFiniteSet(T) /\ x \in T /\ \A a \in T : f[a] \in Int
  BY <1>1, FS_AddElement
<1>3. SumFunctionOnSet(f, T) = f[x] + SumFunctionOnSet(f, T \ {x})
  BY <1>2, SumRemove
<1>4. T \ {x} = S
  BY <1>1
<1>5. SumFunctionOnSet(f, S) \in Int /\ f[x] \in Int
  BY SumType
<1>6. SumFunctionOnSet(f, T) = f[x] + SumFunctionOnSet(f, S)
  BY <1>3, <1>4
<1>7. f[x] + SumFunctionOnSet(f, S) = SumFunctionOnSet(f, S) + f[x]
  BY <1>5
<1> QED
  BY <1>1, <1>6, <1>7

(* a step that changes one key's value changes the sum by as much; *)
LEMMA SumUpdate ==
  ASSUME NEW S, IsFiniteSet(S), NEW f, NEW h, NEW x \in S,
         \A a \in S : f[a] \in Int, h[x] \in Int,
         \A a \in S \ {x} : h[a] = f[a]
  PROVE  SumFunctionOnSet(h, S) = SumFunctionOnSet(f, S) - f[x] + h[x]
<1>1. PICK T : T = S \ {x}
  OBVIOUS
<1>2. IsFiniteSet(T)
  BY <1>1, FS_RemoveElement
<1>3. SumFunctionOnSet(f, S) = f[x] + SumFunctionOnSet(f, T)
  BY <1>1, SumRemove
<1>4. SumFunctionOnSet(h, S) = h[x] + SumFunctionOnSet(h, T)
  <2>1. \A a \in S : h[a] \in Int
    OBVIOUS
  <2> QED
    BY <1>1, <2>1, SumRemove
<1>5. SumFunctionOnSet(h, T) = SumFunctionOnSet(f, T)
  BY <1>1, <1>2, SumAgrees
<1>6. SumFunctionOnSet(f, T) \in Int
  BY <1>1, <1>2, SumType
<1> QED
  BY <1>3, <1>4, <1>5, <1>6

(* amounts sum to an amount, *)
LEMMA SumNat ==
  ASSUME NEW S, IsFiniteSet(S), NEW f, \A a \in S : f[a] \in Nat
  PROVE  SumFunctionOnSet(f, S) \in Nat
<1> DEFINE B == {T \in SUBSET S : SumFunctionOnSet(f, T) \in Nat}
<1>1. {} \in B
  BY SumEmpty
<1>2. \A T \in SUBSET S, x \in S : T \in B /\ x \notin T => T \cup {x} \in B
  <2>1. SUFFICES ASSUME NEW T \in SUBSET S, NEW x \in S, T \in B, x \notin T
                 PROVE  SumFunctionOnSet(f, T \cup {x}) \in Nat
    OBVIOUS
  <2>2. IsFiniteSet(T) /\ \A a \in T \cup {x} : f[a] \in Int
    BY FS_Subset
  <2>3. SumFunctionOnSet(f, T \cup {x}) = SumFunctionOnSet(f, T) + f[x]
    BY <2>1, <2>2, SumAdd
  <2> QED
    BY <2>1, <2>3
<1>3. S \in B
  <2> HIDE DEF B
  <2> QED
    BY <1>1, <1>2, SubsetInduction
<1> QED
  BY <1>3

(* that is no less than any one of them; *)
LEMMA SumBound ==
  ASSUME NEW S, IsFiniteSet(S), NEW f, \A a \in S : f[a] \in Nat, NEW x \in S
  PROVE  f[x] <= SumFunctionOnSet(f, S)
<1>1. PICK T : T = S \ {x}
  OBVIOUS
<1>2. IsFiniteSet(T)
  BY <1>1, FS_RemoveElement
<1>3. SumFunctionOnSet(f, S) = f[x] + SumFunctionOnSet(f, T)
  <2>1. \A a \in S : f[a] \in Int
    OBVIOUS
  <2> QED
    BY <1>1, <2>1, SumRemove
<1>4. SumFunctionOnSet(f, T) \in Nat
  BY <1>1, <1>2, SumNat
<1> QED
  BY <1>3, <1>4

(* and empty books sum to nothing. *)
LEMMA SumZero ==
  ASSUME NEW S, IsFiniteSet(S), NEW f, \A a \in S : f[a] = 0
  PROVE  SumFunctionOnSet(f, S) = 0
<1> DEFINE B == {T \in SUBSET S : SumFunctionOnSet(f, T) = 0}
<1>1. {} \in B
  BY SumEmpty
<1>2. \A T \in SUBSET S, x \in S : T \in B /\ x \notin T => T \cup {x} \in B
  <2>1. SUFFICES ASSUME NEW T \in SUBSET S, NEW x \in S, T \in B, x \notin T
                 PROVE  SumFunctionOnSet(f, T \cup {x}) = 0
    OBVIOUS
  <2>2. IsFiniteSet(T) /\ \A a \in T \cup {x} : f[a] \in Int
    BY FS_Subset
  <2>3. SumFunctionOnSet(f, T \cup {x}) = SumFunctionOnSet(f, T) + f[x]
    <3> HIDE DEF B
    <3> QED
      BY <2>1, <2>2, SumAdd
  <2> QED
    BY <2>1, <2>3
<1>3. S \in B
  <2> HIDE DEF B
  <2> QED
    BY <1>1, <1>2, SubsetInduction
<1> QED
  BY <1>3

(* Two books without a key in common sum to the sum of their sums; *)
LEMMA SumUnion ==
  ASSUME NEW S, IsFiniteSet(S), NEW T, IsFiniteSet(T), S \cap T = {},
         NEW f, \A a \in S \cup T : f[a] \in Int
  PROVE  SumFunctionOnSet(f, S \cup T) = SumFunctionOnSet(f, S) + SumFunctionOnSet(f, T)
<1> DEFINE Splits(U) == SumFunctionOnSet(f, S \cup U)
                          = SumFunctionOnSet(f, S) + SumFunctionOnSet(f, U)
           B == {U \in SUBSET T : Splits(U)}
<1>1. {} \in B
  <2>1. S \cup {} = S /\ SumFunctionOnSet(f, {}) = 0
    BY SumEmpty
  <2>2. SumFunctionOnSet(f, S) \in Int
    BY SumType
  <2>3. SumFunctionOnSet(f, S) = SumFunctionOnSet(f, S) + 0
    BY <2>2
  <2> QED
    BY <2>1, <2>3
<1>2. \A U \in SUBSET T, x \in T : U \in B /\ x \notin U => U \cup {x} \in B
  <2>1. SUFFICES ASSUME NEW U \in SUBSET T, NEW x \in T, Splits(U), x \notin U
                 PROVE  Splits(U \cup {x})
    OBVIOUS
  <2> DEFINE SU == S \cup U
             Ux == U \cup {x}
  <2>2. IsFiniteSet(U) /\ IsFiniteSet(SU)
    BY FS_Subset, FS_Union
  <2>3. SumFunctionOnSet(f, Ux) = SumFunctionOnSet(f, U) + f[x]
    <3>1. \A a \in U \cup {x} : f[a] \in Int
      OBVIOUS
    <3> QED
      BY <2>1, <2>2, <3>1, SumAdd
  <2>4. SumFunctionOnSet(f, SU \cup {x}) = SumFunctionOnSet(f, SU) + f[x]
    <3>1. x \notin SU /\ \A a \in SU \cup {x} : f[a] \in Int
      BY <2>1
    <3> HIDE DEF SU
    <3> QED
      BY <2>2, <3>1, SumAdd
  <2>5. /\ SumFunctionOnSet(f, S) \in Int /\ SumFunctionOnSet(f, U) \in Int
        /\ f[x] \in Int
    BY <2>2, SumType
  <2>6. SU \cup {x} = S \cup Ux
    OBVIOUS
  <2>7. SumFunctionOnSet(f, SU) = SumFunctionOnSet(f, S) + SumFunctionOnSet(f, U)
    BY <2>1
  <2> HIDE DEF SU, Ux
  <2>8. SumFunctionOnSet(f, S \cup Ux) = SumFunctionOnSet(f, S) + SumFunctionOnSet(f, Ux)
    <3>1. SumFunctionOnSet(f, S \cup Ux) = SumFunctionOnSet(f, SU) + f[x]
      BY <2>4, <2>6
    <3>2. ASSUME NEW p \in Int, NEW q \in Int, NEW r \in Int
          PROVE  (p + q) + r = p + (q + r)
      OBVIOUS
    <3>3. (SumFunctionOnSet(f, S) + SumFunctionOnSet(f, U)) + f[x]
            = SumFunctionOnSet(f, S) + (SumFunctionOnSet(f, U) + f[x])
      BY <2>5, <3>2
    <3> QED
      BY <2>3, <2>7, <3>1, <3>3
  <2> QED
    BY <2>8 DEF Ux
<1>3. T \in B
  <2> HIDE DEF B
  <2> QED
    BY <1>1, <1>2, SubsetInduction
<1> QED
  BY <1>3

(* and whole base units sum to whole base units.                             *)
LEMMA SumOnGrid ==
  ASSUME NEW S, IsFiniteSet(S), NEW g \in Nat \ {0}, NEW f,
         \A a \in S : f[a] \in Nat /\ OnGrid(f[a], g)
  PROVE  SumFunctionOnSet(f, S) \in Nat /\ OnGrid(SumFunctionOnSet(f, S), g)
<1> DEFINE Whole(q) == q \in Nat /\ OnGrid(q, g)
           B == {T \in SUBSET S : Whole(SumFunctionOnSet(f, T))}
<1>1. {} \in B
  BY SumEmpty, ZeroOnGrid
<1>2. \A T \in SUBSET S, x \in S : T \in B /\ x \notin T => T \cup {x} \in B
  <2>1. SUFFICES ASSUME NEW T \in SUBSET S, NEW x \in S,
                        Whole(SumFunctionOnSet(f, T)), x \notin T
                 PROVE  Whole(SumFunctionOnSet(f, T \cup {x}))
    OBVIOUS
  <2>2. IsFiniteSet(T) /\ \A a \in T \cup {x} : f[a] \in Int
    BY FS_Subset
  <2>3. SumFunctionOnSet(f, T \cup {x}) = SumFunctionOnSet(f, T) + f[x]
    <3> HIDE DEF B, Whole
    <3> QED
      BY <2>1, <2>2, SumAdd
  <2>4. Whole(f[x])
    OBVIOUS
  <2>5. ASSUME NEW p, NEW q, Whole(p), Whole(q) PROVE Whole(p + q)
    BY <2>5, GridSum
  <2>6. Whole(SumFunctionOnSet(f, T) + f[x])
    <3> HIDE DEF Whole
    <3> QED
      BY <2>1, <2>4, <2>5
  <2> QED
    BY <2>3, <2>6
<1>3. S \in B
  <2> HIDE DEF B
  <2> QED
    BY <1>1, <1>2, SubsetInduction
<1> QED
  BY <1>3
=============================================================================
