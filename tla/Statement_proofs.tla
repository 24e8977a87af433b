-------------------------- MODULE Statement_proofs --------------------------
(***************************************************************************)
(* Proofs about the loading of a broker statement: the matching of trades  *)
(* (StockFifo) and the merging of its files (Loading).                     *)
(***************************************************************************)
EXTENDS StockFifo, Loading, SumTheorems, SequenceTheorems, WellFoundedInduction, TLAPS


-----------------------------------------------------------------------------
(* The order of a list.                                                     *)
Timed(list, n) ==
  /\ DOMAIN list = 1 .. n
  /\ \A i \in 1 .. n : list[i].time \in Int

Ahead(list, j) == {i \in DOMAIN list : Before(list, i, j)}

(* An item has as many items ahead of it as nobody else has.                *)
LEMMA RankIsUnique ==
  ASSUME NEW n \in Nat, NEW list, Timed(list, n)
  PROVE  /\ \A j \in 1 .. n : Cardinality(Ahead(list, j)) \in 0 .. n - 1
         /\ \A j, k \in 1 .. n : Before(list, j, k) =>
              Cardinality(Ahead(list, j)) < Cardinality(Ahead(list, k))
         /\ \A j, k \in 1 .. n : j = k \/ Before(list, j, k) \/ Before(list, k, j)
<1>1. IsFiniteSet(1 .. n) /\ Cardinality(1 .. n) = n
  BY FS_Interval
<1>2. \A j \in 1 .. n : IsFiniteSet(Ahead(list, j)) /\ Ahead(list, j) \subseteq (1 .. n) \ {j}
  BY <1>1, FS_Subset DEF Ahead, Before, Timed
<1>3. ASSUME NEW j \in 1 .. n
      PROVE  Cardinality(Ahead(list, j)) \in 0 .. n - 1
  <2>1. IsFiniteSet((1 .. n) \ {j}) /\ Cardinality((1 .. n) \ {j}) = n - 1
    BY <1>1, FS_RemoveElement
  <2>2. Cardinality(Ahead(list, j)) <= n - 1 /\ Cardinality(Ahead(list, j)) \in Nat
    BY <1>2, <2>1, FS_Subset, FS_CardinalityType
  <2> QED
    BY <2>2
<1>4. ASSUME NEW j \in 1 .. n, NEW k \in 1 .. n, Before(list, j, k)
      PROVE  Cardinality(Ahead(list, j)) < Cardinality(Ahead(list, k))
  <2>1. \A i \in 1 .. n : Before(list, i, j) => Before(list, i, k)
    BY <1>4 DEF Before, Timed
  <2>2. Ahead(list, j) \subseteq Ahead(list, k) /\ j \in Ahead(list, k) /\ j \notin Ahead(list, j)
    BY <1>2, <1>4, <2>1 DEF Ahead, Timed
  <2>3. /\ Cardinality(Ahead(list, j)) <= Cardinality(Ahead(list, k))
        /\ Cardinality(Ahead(list, j)) # Cardinality(Ahead(list, k))
    BY <1>2, <2>2, FS_Subset
  <2> QED
    BY <1>3, <2>3
<1>5. \A j, k \in 1 .. n : j = k \/ Before(list, j, k) \/ Before(list, k, j)
  BY DEF Before, Timed
<1> QED
  BY <1>3, <1>4, <1>5

(* Sorting rearranges a list and puts it in the order of its times.         *)
LEMMA NthIsRanked ==
  ASSUME NEW n \in Nat, NEW list, Timed(list, n)
  PROVE  /\ \A k \in 1 .. n : Nth(list, k) \in 1 .. n
         /\ \A k, l \in 1 .. n : Nth(list, k) = Nth(list, l) => k = l
         /\ \A j \in 1 .. n : \E k \in 1 .. n : Nth(list, k) = j
         /\ \A k, l \in 1 .. n : k < l => Before(list, Nth(list, k), Nth(list, l))
<1> DEFINE rank == [j \in 1 .. n |-> Cardinality(Ahead(list, j))]
           ranks == {rank[j] : j \in 1 .. n}
<1>1. /\ \A j \in 1 .. n : rank[j] \in 0 .. n - 1
      /\ \A j, k \in 1 .. n : rank[j] = rank[k] => j = k
  BY RankIsUnique
<1> HIDE DEF rank
<1>2. IsFiniteSet(1 .. n) /\ Cardinality(1 .. n) = n
  BY FS_Interval
<1>3. IsFiniteSet(0 .. n - 1) /\ Cardinality(0 .. n - 1) = n
  BY FS_Interval
<1>4. Cardinality(ranks) = n /\ ranks \subseteq 0 .. n - 1
  <2>1. Cardinality({rank[j] : j \in 1 .. n}) = Cardinality(1 .. n)
    <3>1. \A j, k \in 1 .. n : rank[j] = rank[k] => j = k
      BY <1>1
    <3> HIDE DEF ranks
    <3> QED
      BY ONLY <1>2, <3>1, AsMany
  <2> QED
    BY <1>1, <1>2, <2>1
<1>5. ranks = 0 .. n - 1
  BY <1>3, <1>4, FS_Subset
<1>6. ASSUME NEW k \in 1 .. n
      PROVE  Nth(list, k) \in 1 .. n /\ rank[Nth(list, k)] = k - 1
  <2>1. PICK j \in 1 .. n : rank[j] = k - 1
    BY <1>5
  <2>2. Cardinality({i \in DOMAIN list : Before(list, i, j)}) = k - 1 /\ j \in DOMAIN list
    BY <2>1 DEF rank, Ahead, Timed
  <2>3. /\ Nth(list, k) \in DOMAIN list
        /\ Cardinality({i \in DOMAIN list : Before(list, i, Nth(list, k))}) = k - 1
    BY <2>2 DEF Nth
  <2> QED
    BY <2>3 DEF rank, Ahead, Timed
<1>7. ASSUME NEW j \in 1 .. n
      PROVE  \E k \in 1 .. n : Nth(list, k) = j
  <2>1. rank[j] + 1 \in 1 .. n
    BY <1>1
  <2>2. rank[Nth(list, rank[j] + 1)] = rank[j]
    BY <1>1, <1>6, <2>1
  <2> QED
    BY <1>1, <1>6, <2>1, <2>2
<1>8. ASSUME NEW k \in 1 .. n, NEW l \in 1 .. n, k < l
      PROVE  Before(list, Nth(list, k), Nth(list, l))
  <2>1. rank[Nth(list, k)] < rank[Nth(list, l)]
    BY <1>6, <1>8
  <2>2. ~ Before(list, Nth(list, l), Nth(list, k)) /\ Nth(list, l) # Nth(list, k)
    BY <1>1, <1>6, <2>1, RankIsUnique DEF rank
  <2> QED
    BY <1>6, <2>2, RankIsUnique
<1>9. \A k, l \in 1 .. n : Nth(list, k) = Nth(list, l) => k = l
  <2>1. SUFFICES ASSUME NEW k \in 1 .. n, NEW l \in 1 .. n, Nth(list, k) = Nth(list, l)
                 PROVE  k = l
    OBVIOUS
  <2>2. k - 1 = l - 1
    BY <1>6, <2>1
  <2> QED
    BY <2>2
<1>10. \A k \in 1 .. n : Nth(list, k) \in 1 .. n
  BY <1>6
<1>11. \A k, l \in 1 .. n : k < l => Before(list, Nth(list, k), Nth(list, l))
  BY <1>8
<1>12. \A j \in 1 .. n : \E k \in 1 .. n : Nth(list, k) = j
  BY <1>7
<1> QED
  BY <1>9, <1>10, <1>11, <1>12

(* A sorted list holds the items of the list by their times.                *)
LEMMA SortedList ==
  ASSUME NEW S, NEW list \in Seq(S), \A x \in S : x.time \in Int
  PROVE  /\ InOrder(list) \in Seq(S) /\ Len(InOrder(list)) = Len(list)
         /\ Timed(list, Len(list))
         /\ \A k \in 1 .. Len(list) :
              Nth(list, k) \in 1 .. Len(list) /\ InOrder(list)[k] = list[Nth(list, k)]
         /\ \A k, l \in 1 .. Len(list) :
              k < l => InOrder(list)[k].time <= InOrder(list)[l].time
<1>1. Timed(list, Len(list)) /\ Len(list) \in Nat /\ DOMAIN list = 1 .. Len(list)
  BY DEF Timed
<1>2. \A k \in 1 .. Len(list) :
        Nth(list, k) \in 1 .. Len(list) /\ InOrder(list)[k] = list[Nth(list, k)]
  BY <1>1, NthIsRanked DEF InOrder
<1>3. InOrder(list) \in Seq(S) /\ Len(InOrder(list)) = Len(list)
  <2>1. InOrder(list) = [k \in 1 .. Len(list) |-> list[Nth(list, k)]]
    BY <1>1 DEF InOrder
  <2>2. \A k \in 1 .. Len(list) : list[Nth(list, k)] \in S
    BY <1>1, <1>2
  <2> QED
    BY <1>1, <2>1, <2>2
<1>4. ASSUME NEW k \in 1 .. Len(list), NEW l \in 1 .. Len(list), k < l
      PROVE  InOrder(list)[k].time <= InOrder(list)[l].time
  <2>1. Before(list, Nth(list, k), Nth(list, l))
    BY <1>1, <1>4, NthIsRanked
  <2>2. list[Nth(list, k)].time <= list[Nth(list, l)].time
    <3>1. Nth(list, k) \in 1 .. Len(list) /\ Nth(list, l) \in 1 .. Len(list)
      BY <1>2
    <3>2. list[Nth(list, k)].time \in Int /\ list[Nth(list, l)].time \in Int
      BY <1>1, <3>1 DEF Timed
    <3> QED
      BY <2>1, <3>2 DEF Before
  <2> QED
    BY <1>2, <2>2
<1> QED
  BY <1>1, <1>2, <1>3, <1>4

(* Sorting does not change what the items add up to.                        *)
LEMMA SortedSum ==
  ASSUME NEW n \in Nat, NEW list, Timed(list, n), NEW f, \A i \in 1 .. n : f[i] \in Int,
         NEW g, \A k \in 1 .. n : g[k] = f[Nth(list, k)]
  PROVE  SumFunctionOnSet(g, 1 .. n) = SumFunctionOnSet(f, 1 .. n)
<1> DEFINE h == [k \in 1 .. n |-> Nth(list, k)]
<1>1. /\ \A k \in 1 .. n : h[k] \in 1 .. n
      /\ \A k, l \in 1 .. n : h[k] = h[l] => k = l
      /\ \A j \in 1 .. n : \E k \in 1 .. n : h[k] = j
      /\ \A k \in 1 .. n : g[k] = f[h[k]]
  BY NthIsRanked
<1> HIDE DEF h
<1>2. {h[k] : k \in 1 .. n} = 1 .. n
  BY <1>1
<1>3. \A k \in 1 .. n : g[k] \in Int
  BY <1>1
<1>4. Summable(g, 1 .. n)
  BY <1>3, FS_Interval DEF Summable
<1>5. SumFunctionOnSet(f, {h[k] : k \in 1 .. n}) = SumFunctionOnSet(g, 1 .. n)
  <2> DEFINE D == 1 .. n
  <2>1. /\ Summable(g, D)
        /\ \A k, l \in D : h[k] = h[l] => k = l
        /\ \A k \in D : f[h[k]] = g[k]
    BY <1>1, <1>4
  <2> HIDE DEF D
  <2>2. SumFunctionOnSet(f, {h[k] : k \in D}) = SumFunctionOnSet(g, D)
    BY ONLY <2>1, SumReindexed
  <2> QED
    BY <2>2 DEF D
<1> QED
  BY <1>2, <1>5

-----------------------------------------------------------------------------
(* The product of divisors, by the function that its definition recurs by.  *)
Divisible(S) == IsFiniteSet(S) /\ \A d \in S : d[2] \in Nat \ {0}

ProductStep(g, T) == IF T = {} THEN 1 ELSE Chosen(T)[2] * g[T \ {Chosen(T)}]

IsProduct(g, S) == g = [T \in SUBSET S |-> ProductStep(g, T)]

(* There is one.                                                            *)
LEMMA ProductExists ==
  ASSUME NEW S, Divisible(S)
  PROVE  \E g : IsProduct(g, S)
<1> USE DEF Divisible
<1> DEFINE Products(n) ==
             {g \in [SUBSET S -> Nat] :
                \A T \in SUBSET S : Cardinality(T) <= n => g[T] = ProductStep(g, T)}
           Q == {n \in Nat : Products(n) # {}}
<1>1. 0 \in Q
  <2> DEFINE g == [T \in SUBSET S |-> 1]
  <2>1. \A T \in SUBSET S : Cardinality(T) <= 0 => T = {}
    BY FS_Subset, FS_EmptySet, FS_CardinalityType
  <2>2. g \in Products(0)
    BY <2>1 DEF ProductStep
  <2> QED
    BY <2>2
<1>2. ASSUME NEW n \in Nat, n \in Q
      PROVE  n + 1 \in Q
  <2>1. PICK g \in Products(n) : TRUE
    BY <1>2
  <2> DEFINE h == [T \in SUBSET S |-> ProductStep(g, T)]
  <2>2. h \in [SUBSET S -> Nat]
    <3>1. ASSUME NEW T \in SUBSET S
          PROVE  ProductStep(g, T) \in Nat
      <4>1. CASE T = {}
        BY <4>1 DEF ProductStep
      <4>2. CASE T # {}
        <5>1. Chosen(T) \in S /\ T \ {Chosen(T)} \in SUBSET S
          BY <4>2, ChosenIn
        <5>2. Chosen(T)[2] \in Nat /\ g[T \ {Chosen(T)}] \in Nat
          BY <5>1, <2>1
        <5> QED
          BY <4>2, <5>2 DEF ProductStep
      <4> QED
        BY <4>1, <4>2
    <3> QED
      BY <3>1
  <2>3. ASSUME NEW T \in SUBSET S, Cardinality(T) <= n + 1
        PROVE  h[T] = ProductStep(h, T)
    <3>1. CASE T = {}
      BY <3>1 DEF ProductStep
    <3>2. CASE T # {}
      <4> DEFINE U == T \ {Chosen(T)}
      <4>1. U \in SUBSET S /\ Cardinality(U) = Cardinality(T) - 1
        BY <3>2, ChosenIn, FS_Subset, FS_RemoveElement
      <4>2. Cardinality(U) <= n
        BY <2>3, <4>1, FS_Subset, FS_CardinalityType
      <4>3. h[U] = g[U]
        BY <2>1, <4>1, <4>2
      <4> QED
        BY <3>2, <4>3 DEF ProductStep
    <3> QED
      BY <3>1, <3>2
  <2>4. h \in Products(n + 1)
    BY <2>2, <2>3
  <2>5. Products(n + 1) # {}
    BY <2>4
  <2> QED
    BY <2>5
<1>3. Cardinality(S) \in Q
  <2> HIDE DEF Q
  <2> QED
    BY <1>1, <1>2, NumberInduction, FS_CardinalityType
<1>4. PICK g \in Products(Cardinality(S)) : TRUE
  BY <1>3
<1>5. \A T \in SUBSET S : g[T] = ProductStep(g, T)
  BY <1>4, FS_Subset
<1>6. IsProduct(g, S)
  BY <1>4, <1>5 DEF IsProduct
<1> QED
  BY <1>6

(* Its values are positive.                                                 *)
LEMMA ProductPositive ==
  ASSUME NEW S, Divisible(S), NEW g, IsProduct(g, S)
  PROVE  \A T \in SUBSET S : g[T] \in Nat \ {0}
<1> USE DEF Divisible
<1> DEFINE Q == {n \in Nat : \A T \in SUBSET S : Cardinality(T) <= n => g[T] \in Nat \ {0}}
<1>0. \A T \in SUBSET S : g[T] = ProductStep(g, T)
  BY DEF IsProduct
<1>1. 0 \in Q
  <2>1. \A T \in SUBSET S : Cardinality(T) <= 0 => T = {}
    BY FS_Subset, FS_EmptySet, FS_CardinalityType
  <2>2. g[{}] = 1
    BY <1>0 DEF ProductStep
  <2> QED
    BY <2>1, <2>2
<1>2. ASSUME NEW n \in Nat, n \in Q
      PROVE  n + 1 \in Q
  <2>1. ASSUME NEW T \in SUBSET S, Cardinality(T) <= n + 1
        PROVE  g[T] \in Nat \ {0}
    <3>1. CASE T = {}
      BY <1>0, <3>1 DEF ProductStep
    <3>2. CASE T # {}
      <4> DEFINE U == T \ {Chosen(T)}
      <4>1. U \in SUBSET S /\ Cardinality(U) = Cardinality(T) - 1 /\ Chosen(T) \in S
        BY <3>2, ChosenIn, FS_Subset, FS_RemoveElement
      <4>2. Cardinality(U) <= n
        BY <2>1, <4>1, FS_Subset, FS_CardinalityType
      <4>3. g[U] \in Nat \ {0} /\ Chosen(T)[2] \in Nat \ {0}
        BY <1>2, <4>1, <4>2
      <4>4. g[T] = Chosen(T)[2] * g[U]
        BY <1>0, <3>2 DEF ProductStep
      <4>5. \A a, b \in Nat \ {0} : a * b \in Nat \ {0}
        OBVIOUS
      <4> QED
        BY <4>3, <4>4, <4>5
    <3> QED
      BY <3>1, <3>2
  <2> QED
    BY <2>1
<1>3. Cardinality(S) \in Q
  <2> HIDE DEF Q
  <2> QED
    BY <1>1, <1>2, NumberInduction, FS_CardinalityType
<1> QED
  BY <1>3, FS_Subset, FS_CardinalityType

(* A multiplier is positive; that of one split is its divisor.              *)
LEMMA DivisorProductPositive ==
  ASSUME NEW S, Divisible(S)
  PROVE  /\ DivisorProduct(S) \in Nat \ {0}
         /\ \A d : S = {d} => DivisorProduct(S) = d[2]
<1> DEFINE g == CHOOSE g : IsProduct(g, S)
<1>1. IsProduct(g, S)
  BY ProductExists
<1>2. DivisorProduct(S) = g[S]
  BY DEF DivisorProduct, FoldSet, MapThenFoldSet, IsProduct, ProductStep, Chosen
<1> HIDE DEF g
<1>3. g[S] \in Nat \ {0}
  BY <1>1, ProductPositive
<1>4. ASSUME NEW d, S = {d}
      PROVE  g[S] = d[2]
  <2>1. Chosen(S) = d /\ S \ {d} = {} /\ S # {} /\ d[2] \in Nat
    BY <1>4 DEF Chosen, Divisible
  <2>2. g[{}] = 1
    BY <1>1 DEF IsProduct, ProductStep
  <2>3. g[S] = d[2] * g[{}]
    BY <1>1, <2>1 DEF IsProduct, ProductStep
  <2> QED
    BY <2>1, <2>2, <2>3
<1> QED
  BY <1>2, <1>3, <1>4

(* The least number of a set is one of its elements.                        *)
LEMMA FirstIn ==
  ASSUME NEW S \in SUBSET Nat, S # {}
  PROVE  Min(S) \in S
<1>1. PICK m \in S : \A y \in S : ~ (<<y, m>> \in OpToRel(<, Nat))
  BY WFMin, NatLessThanWellFounded
<1>2. \A y \in S : ~ (y < m)
  BY <1>1 DEF OpToRel
<1>3. \A y \in S : m <= y
  BY <1>2
<1> QED
  BY <1>3 DEF Min

(* The parts that leave a lot and those that stay are what it held.         *)
LEMMA PartsAdd ==
  ASSUME NEW o \in Nat, NEW q \in Nat \ {0}, NEW u \in Nat, NEW t \in 0 .. u, (o * t) % q = 0
  PROVE  /\ (o * u) \div q = (o * (u - t)) \div q + (o * t) \div q
         /\ (o * u) \div q \in Nat /\ (o * (u - t)) \div q \in Nat /\ (o * t) \div q \in Nat
<1>1. /\ o * u \in Nat /\ o * t \in Nat /\ o * (u - t) \in Nat
      /\ o * (u - t) = o * u - o * t /\ o * t <= o * u
  OBVIOUS
<1>2. \A x, y \in Nat : y <= x /\ y % q = 0 =>
        /\ x \div q = (x - y) \div q + y \div q
        /\ x \div q \in Nat /\ (x - y) \div q \in Nat /\ y \div q \in Nat
  <2>1. SUFFICES ASSUME NEW x \in Nat, NEW y \in Nat, y <= x, y % q = 0
                 PROVE  /\ x \div q = (x - y) \div q + y \div q
                        /\ x \div q \in Nat /\ (x - y) \div q \in Nat /\ y \div q \in Nat
    OBVIOUS
  <2> DEFINE k == y \div q
             m == (x - y) \div q
             r == (x - y) % q
  <2>2. k \in Nat /\ y = q * k
    BY <2>1
  <2>3. m \in Nat /\ r \in 0 .. q - 1 /\ x - y = q * m + r
    BY <2>1
  <2>4. x = q * (m + k) + r
    BY <2>2, <2>3
  <2>5. x \div q = m + k
    BY <2>2, <2>3, <2>4
  <2> QED
    BY <2>2, <2>3, <2>5
<1>3. /\ (o * u) \div q = (o * u - o * t) \div q + (o * t) \div q
      /\ (o * u) \div q \in Nat /\ (o * u - o * t) \div q \in Nat /\ (o * t) \div q \in Nat
  <2> DEFINE x == o * u
             y == o * t
  <2>1. x \in Nat /\ y \in Nat /\ y <= x /\ y % q = 0
    BY <1>1
  <2> HIDE DEF x, y
  <2>2. /\ x \div q = (x - y) \div q + y \div q
        /\ x \div q \in Nat /\ (x - y) \div q \in Nat /\ y \div q \in Nat
    BY <1>2, <2>1
  <2> QED
    BY <2>2 DEF x, y
<1> QED
  BY <1>1, <1>3


(* If they are no whole numbers, less is left of it.                        *)
LEMMA PartsAtMost ==
  ASSUME NEW o \in Nat, NEW q \in Nat \ {0}, NEW u \in Nat, NEW t \in 0 .. u
  PROVE  /\ (o * (u - t)) \div q + (o * t) \div q <= (o * u) \div q
         /\ (o * u) \div q \in Nat /\ (o * (u - t)) \div q \in Nat /\ (o * t) \div q \in Nat
<1>1. /\ o * u \in Nat /\ o * t \in Nat /\ o * (u - t) \in Nat
      /\ o * (u - t) = o * u - o * t /\ o * t <= o * u
  OBVIOUS
<1>2. \A x, y \in Nat : y <= x =>
        /\ (x - y) \div q + y \div q <= x \div q
        /\ x \div q \in Nat /\ (x - y) \div q \in Nat /\ y \div q \in Nat
  <2>1. SUFFICES ASSUME NEW x \in Nat, NEW y \in Nat, y <= x
                 PROVE  /\ (x - y) \div q + y \div q <= x \div q
                        /\ x \div q \in Nat /\ (x - y) \div q \in Nat /\ y \div q \in Nat
    OBVIOUS
  <2> DEFINE k == y \div q
             m == (x - y) \div q
             l == x \div q
  <2>2. k \in Nat /\ q * k <= y
    BY <2>1
  <2>3. m \in Nat /\ q * m <= x - y
    BY <2>1
  <2>4. l \in Nat /\ x < q * (l + 1)
    BY <2>1
  <2> HIDE DEF k, l, m
  <2>5. q * (m + k) < q * (l + 1)
    <3>1. q * (m + k) = q * m + q * k
      BY <2>2, <2>3
    <3>2. q * m \in Nat /\ q * k \in Nat /\ q * (l + 1) \in Nat
      BY <2>2, <2>3, <2>4
    <3> QED
      BY <2>1, <2>2, <2>3, <2>4, <3>1, <3>2
  <2>6. m + k < l + 1
    <3>1. \A a, b \in Nat : q * a < q * b => a < b
      OBVIOUS
    <3> QED
      BY <2>2, <2>3, <2>4, <2>5, <3>1
  <2>7. m + k <= l
    BY <2>2, <2>3, <2>4, <2>6
  <2> QED
    BY <2>2, <2>3, <2>4, <2>7 DEF k, l, m
<1>3. /\ (o * u - o * t) \div q + (o * t) \div q <= (o * u) \div q
      /\ (o * u) \div q \in Nat /\ (o * u - o * t) \div q \in Nat /\ (o * t) \div q \in Nat
  <2> DEFINE x == o * u
             y == o * t
  <2>1. x \in Nat /\ y \in Nat /\ y <= x
    BY <1>1
  <2> HIDE DEF x, y
  <2>2. /\ (x - y) \div q + y \div q <= x \div q
        /\ x \div q \in Nat /\ (x - y) \div q \in Nat /\ y \div q \in Nat
    BY <1>2, <2>1
  <2> QED
    BY <2>2 DEF x, y
<1> QED
  BY <1>1, <1>3

-----------------------------------------------------------------------------
(* What the items of a list add up to, w telling what each counts for.      *)
Weights(list, w) == [i \in 1 .. Len(list) |-> w[list[i]]]

WeightOf(list, w) == SumFunctionOnSet(Weights(list, w), 1 .. Len(list))

(* The items of a list are of the type of the list, and every one of them   *)
(* counts.                                                                  *)
Weighed(list, w, S) ==
  /\ Len(list) \in Nat /\ DOMAIN list = 1 .. Len(list)
  /\ ToSet(list) = {list[i] : i \in 1 .. Len(list)} /\ ToSet(list) \subseteq S
  /\ Summable(Weights(list, w), 1 .. Len(list))
  /\ \A i \in 1 .. Len(list) : Weights(list, w)[i] = w[list[i]] /\ w[list[i]] \in Nat
  /\ WeightOf(list, w) \in Nat

(* What the items of a list weigh is a natural number.                      *)
LEMMA Weighing ==
  ASSUME NEW S, NEW list \in Seq(S), NEW w \in [S -> Nat]
  PROVE  Weighed(list, w, S)
<1>1. Len(list) \in Nat /\ DOMAIN list = 1 .. Len(list)
  OBVIOUS
<1>2. \A i \in 1 .. Len(list) : list[i] \in S
  OBVIOUS
<1>3. ToSet(list) = {list[i] : i \in 1 .. Len(list)} /\ ToSet(list) \subseteq S
  BY <1>1, <1>2 DEF ToSet
<1>4. \A i \in 1 .. Len(list) : Weights(list, w)[i] = w[list[i]] /\ w[list[i]] \in Nat
  BY <1>2 DEF Weights
<1>5. IsFiniteSet(1 .. Len(list))
  BY <1>1, FS_Interval
<1>6. Summable(Weights(list, w), 1 .. Len(list))
  BY <1>4, <1>5 DEF Summable
<1>7. WeightOf(list, w) \in Nat
  BY <1>4, <1>5, SumNatural DEF WeightOf
<1> QED
  BY <1>1, <1>3, <1>4, <1>6, <1>7 DEF Weighed

(* An item that is appended adds what it weighs ...                         *)
LEMMA WeightOfAppended ==
  ASSUME NEW S, NEW list \in Seq(S), NEW x \in S, NEW w \in [S -> Nat]
  PROVE  /\ Append(list, x) \in Seq(S) /\ ToSet(Append(list, x)) = ToSet(list) \cup {x}
         /\ WeightOf(Append(list, x), w) = WeightOf(list, w) + w[x]
<1> DEFINE new == Append(list, x)
           n == Len(list)
<1>1. /\ new \in Seq(S) /\ Len(new) = n + 1 /\ n \in Nat
      /\ \A i \in 1 .. n : new[i] = list[i]
      /\ new[n + 1] = x
  OBVIOUS
<1> HIDE DEF new, n
<1>9. Weighed(list, w, S) /\ Weighed(new, w, S)
  BY <1>1, Weighing
<1>2. /\ \A i \in 1 .. n : Weights(list, w)[i] = w[list[i]] /\ w[list[i]] \in Int
      /\ \A i \in 1 .. n + 1 : Weights(new, w)[i] = w[new[i]]
      /\ w[x] \in Int
  BY <1>1, <1>9 DEF Weighed, n
<1>3. WeightOf(new, w) = WeightOf(list, w) + w[x]
  <2>1. SumFunctionOnSet(Weights(new, w), 1 .. n + 1)
          = SumFunctionOnSet(Weights(list, w), 1 .. n) + Weights(new, w)[n + 1]
    <3>1. /\ \A i \in 1 .. n : Weights(list, w)[i] \in Int
          /\ \A i \in 1 .. n : Weights(new, w)[i] = Weights(list, w)[i]
          /\ Weights(new, w)[n + 1] \in Int
      <4> DEFINE D == 1 .. n
                 E == 1 .. n + 1
      <4>1. n + 1 \in E /\ \A i \in D : i \in E
        BY <1>1
      <4>2. /\ \A i \in D : Weights(list, w)[i] = w[list[i]] /\ w[list[i]] \in Int
            /\ \A i \in E : Weights(new, w)[i] = w[new[i]]
            /\ \A i \in D : new[i] = list[i]
            /\ new[n + 1] = x /\ w[x] \in Int
        BY <1>1, <1>2
      <4> HIDE DEF D, E, Weights
      <4>3. /\ \A i \in D : Weights(list, w)[i] \in Int
            /\ \A i \in D : Weights(new, w)[i] = Weights(list, w)[i]
            /\ Weights(new, w)[n + 1] \in Int
        BY ONLY <4>1, <4>2
      <4> QED
        BY <4>3 DEF D
    <3> QED
      BY <1>1, <3>1, SumAppended
  <2> QED
    BY <1>1, <1>2, <2>1 DEF WeightOf, n
<1>4. ToSet(new) = ToSet(list) \cup {x}
  <2>1. /\ ToSet(new) = {new[i] : i \in 1 .. n + 1}
        /\ ToSet(list) = {list[i] : i \in 1 .. n}
    BY <1>1, <1>9 DEF Weighed, n
  <2>2. 1 .. n + 1 = (1 .. n) \cup {n + 1}
    BY <1>1
  <2>3. \A i \in 1 .. n + 1 : new[i] \in ToSet(list) \cup {x}
    BY <1>1, <2>1, <2>2
  <2>4. \A i \in 1 .. n : list[i] \in ToSet(new)
    BY <1>1, <2>1, <2>2
  <2>5. x \in ToSet(new)
    BY <1>1, <2>1, <2>2
  <2> QED
    BY <2>1, <2>3, <2>4, <2>5
<1> QED
  BY <1>1, <1>3, <1>4 DEF new

(* ... and so does one that is put first.                                   *)
LEMMA WeightOfPrepended ==
  ASSUME NEW S, NEW list \in Seq(S), NEW x \in S, NEW w \in [S -> Nat]
  PROVE  /\ <<x>> \o list \in Seq(S) /\ ToSet(<<x>> \o list) = ToSet(list) \cup {x}
         /\ WeightOf(<<x>> \o list, w) = WeightOf(list, w) + w[x]
         /\ Len(<<x>> \o list) = Len(list) + 1 /\ (<<x>> \o list)[1] = x
         /\ \A i \in 1 .. Len(list) : (<<x>> \o list)[i + 1] = list[i]
<1> DEFINE new == <<x>> \o list
           n == Len(list)
<1>1. /\ new \in Seq(S) /\ Len(new) = n + 1 /\ n \in Nat
      /\ \A i \in 1 .. n : new[i + 1] = list[i]
      /\ new[1] = x
  OBVIOUS
<1> HIDE DEF new, n
<1>9. Weighed(list, w, S) /\ Weighed(new, w, S)
  BY <1>1, Weighing
<1>2. /\ \A i \in 1 .. n : Weights(list, w)[i] = w[list[i]] /\ w[list[i]] \in Int
      /\ \A i \in 1 .. n + 1 : Weights(new, w)[i] = w[new[i]] /\ w[new[i]] \in Int
      /\ w[x] \in Int
  BY <1>1, <1>9 DEF Weighed, n
<1>3. WeightOf(new, w) = WeightOf(list, w) + w[x]
  <2>1. /\ \A i \in 1 .. n : Weights(list, w)[i] = Weights(new, w)[i + 1]
        /\ \A i \in 1 .. n + 1 : Weights(new, w)[i] \in Int
    <3> DEFINE D == 1 .. n
               E == 1 .. n + 1
    <3>1. \A i \in D : i + 1 \in E
      BY <1>1
    <3>2. /\ \A i \in D : Weights(list, w)[i] = w[list[i]] /\ new[i + 1] = list[i]
          /\ \A i \in E : Weights(new, w)[i] = w[new[i]] /\ w[new[i]] \in Int
      BY <1>1, <1>2
    <3> HIDE DEF D, E, Weights
    <3>3. /\ \A i \in D : Weights(list, w)[i] = Weights(new, w)[i + 1]
          /\ \A i \in E : Weights(new, w)[i] \in Int
      BY ONLY <3>1, <3>2
    <3> QED
      BY <3>3 DEF D, E
  <2>2. SumFunctionOnSet(Weights(new, w), 1 .. n + 1)
          = Weights(new, w)[1] + SumFunctionOnSet(Weights(list, w), 1 .. n)
    BY <1>1, <2>1, SumOfTail
  <2>3. SumFunctionOnSet(Weights(list, w), 1 .. n) \in Int
    BY <1>9, SumInteger DEF Weighed, n
  <2> QED
    BY <1>1, <1>2, <2>2, <2>3 DEF WeightOf, n
<1>4. ToSet(new) = ToSet(list) \cup {x}
  <2>1. /\ ToSet(new) = {new[i] : i \in 1 .. n + 1}
        /\ ToSet(list) = {list[i] : i \in 1 .. n}
    BY <1>1, <1>9 DEF Weighed, n
  <2>2. \A i \in 1 .. n + 1 : i = 1 \/ i - 1 \in 1 .. n
    BY <1>1
  <2>3. \A i \in 1 .. n : i + 1 \in 1 .. n + 1
    BY <1>1
  <2>4. ASSUME NEW i \in 1 .. n + 1
        PROVE  new[i] \in ToSet(list) \cup {x}
    <3>1. CASE i = 1
      BY <1>1, <3>1
    <3>2. CASE i # 1
      <4>1. i - 1 \in 1 .. n /\ (i - 1) + 1 = i
        BY <2>2, <3>2
      <4>2. new[i] = list[i - 1]
        BY <1>1, <4>1
      <4> QED
        BY <2>1, <4>1, <4>2
    <3> QED
      BY <3>1, <3>2
  <2>5. ASSUME NEW i \in 1 .. n
        PROVE  list[i] \in ToSet(new)
    BY <1>1, <2>1, <2>3
  <2>6. x \in ToSet(new)
    BY <1>1, <2>1
  <2> QED
    BY <2>1, <2>4, <2>5, <2>6
<1> QED
  BY <1>1, <1>3, <1>4 DEF new, n

(* A statement lists an event at its beginning or at its end.               *)
LEMMA WeightOfPut ==
  ASSUME NEW S, NEW list \in Seq(S), NEW x \in S, NEW w \in [S -> Nat]
  PROVE  /\ Put(list, x) \in Seq(S) /\ ToSet(Put(list, x)) = ToSet(list) \cup {x}
         /\ WeightOf(Put(list, x), w) = WeightOf(list, w) + w[x]
  BY WeightOfAppended, WeightOfPrepended DEF Put

(* Sorting keeps the items and what they weigh.                             *)
LEMMA WeightOfSorted ==
  ASSUME NEW S, NEW list \in Seq(S), \A x \in S : x.time \in Int, NEW w \in [S -> Nat]
  PROVE  /\ InOrder(list) \in Seq(S) /\ ToSet(InOrder(list)) = ToSet(list)
         /\ WeightOf(InOrder(list), w) = WeightOf(list, w)
<1> DEFINE new == InOrder(list)
           n == Len(list)
<1>1. /\ new \in Seq(S) /\ Len(new) = n /\ n \in Nat /\ Timed(list, n)
      /\ \A k \in 1 .. n : Nth(list, k) \in 1 .. n /\ new[k] = list[Nth(list, k)]
      /\ \A j \in 1 .. n : \E k \in 1 .. n : Nth(list, k) = j
  <2>1. /\ new \in Seq(S) /\ Len(new) = n /\ n \in Nat /\ Timed(list, n)
        /\ \A k \in 1 .. n : Nth(list, k) \in 1 .. n /\ new[k] = list[Nth(list, k)]
    <3>1. n \in Nat
      OBVIOUS
    <3>2. /\ InOrder(list) \in Seq(S) /\ Len(InOrder(list)) = Len(list)
          /\ Timed(list, Len(list))
          /\ \A k \in 1 .. Len(list) :
               Nth(list, k) \in 1 .. Len(list) /\ InOrder(list)[k] = list[Nth(list, k)]
      BY SortedList
    <3> QED
      BY <3>1, <3>2
  <2>2. \A j \in 1 .. n : \E k \in 1 .. n : Nth(list, k) = j
    BY <2>1, NthIsRanked
  <2> QED
    BY <2>1, <2>2
<1> HIDE DEF new, n
<1>9. Weighed(list, w, S) /\ Weighed(new, w, S)
  BY <1>1, Weighing
<1>2. /\ \A i \in 1 .. n : Weights(list, w)[i] = w[list[i]] /\ w[list[i]] \in Int
      /\ \A i \in 1 .. n : Weights(new, w)[i] = w[new[i]]
      /\ ToSet(new) = {new[i] : i \in 1 .. n}
      /\ ToSet(list) = {list[i] : i \in 1 .. n}
  BY <1>1, <1>9 DEF Weighed, n
<1>3. SumFunctionOnSet(Weights(new, w), 1 .. n) = SumFunctionOnSet(Weights(list, w), 1 .. n)
  <2>1. ASSUME NEW k \in 1 .. n
        PROVE  Weights(new, w)[k] = Weights(list, w)[Nth(list, k)]
    <3>1. Nth(list, k) \in 1 .. n /\ new[k] = list[Nth(list, k)]
      BY <1>1
    <3>2. Weights(new, w)[k] = w[new[k]]
      BY <1>2
    <3>3. Weights(list, w)[Nth(list, k)] = w[list[Nth(list, k)]]
      BY <1>2, <3>1
    <3> QED
      BY <3>1, <3>2, <3>3
  <2>2. \A i \in 1 .. n : Weights(list, w)[i] \in Int
    BY <1>2
  <2> HIDE DEF Weights
  <2> QED
    BY ONLY <1>1, <2>1, <2>2, SortedSum
<1>4. ToSet(new) = ToSet(list)
  <2> DEFINE D == 1 .. n
  <2>1. /\ \A k \in D : Nth(list, k) \in D /\ new[k] = list[Nth(list, k)]
        /\ \A j \in D : \E k \in D : Nth(list, k) = j
        /\ ToSet(new) = {new[i] : i \in D} /\ ToSet(list) = {list[i] : i \in D}
    BY <1>1, <1>2
  <2> HIDE DEF D
  <2>2. ToSet(new) \subseteq ToSet(list)
    BY ONLY <2>1
  <2>3. ToSet(list) \subseteq ToSet(new)
    BY ONLY <2>1
  <2> QED
    BY <2>2, <2>3
<1> QED
  BY <1>1, <1>3, <1>4 DEF WeightOf, new, n

(* A list of which no item changes what it counts for.                      *)
LEMMA WeightOfSame ==
  ASSUME NEW S, NEW list \in Seq(S), NEW w \in [S -> Nat],
         NEW new \in Seq(S), Len(new) = Len(list),
         \A i \in 1 .. Len(list) : w[new[i]] = w[list[i]]
  PROVE  WeightOf(new, w) = WeightOf(list, w)
<1>1. \A i \in 1 .. Len(list) : Weights(new, w)[i] = Weights(list, w)[i]
  BY DEF Weights
<1>2. Weighed(list, w, S)
  BY Weighing
<1> DEFINE D == 1 .. Len(list)
<1>3. /\ \A i \in D : Weights(new, w)[i] = Weights(list, w)[i]
      /\ Summable(Weights(list, w), D)
  BY <1>1, <1>2 DEF Weighed
<1> HIDE DEF D
<1>4. SumFunctionOnSet(Weights(new, w), D) = SumFunctionOnSet(Weights(list, w), D)
  BY ONLY <1>3, SumSame
<1> QED
  BY <1>4 DEF WeightOf, D

(* A list of which one item changes.                                        *)
LEMMA WeightOfChanged ==
  ASSUME NEW S, NEW list \in Seq(S), NEW w \in [S -> Nat], NEW i \in 1 .. Len(list), NEW y \in S
  PROVE  /\ [list EXCEPT ![i] = y] \in Seq(S) /\ Len([list EXCEPT ![i] = y]) = Len(list)
         /\ ToSet([list EXCEPT ![i] = y]) \subseteq ToSet(list) \cup {y}
         /\ WeightOf([list EXCEPT ![i] = y], w) = WeightOf(list, w) - w[list[i]] + w[y]
<1> DEFINE new == [list EXCEPT ![i] = y]
           n == Len(list)
<1>1. /\ new \in Seq(S) /\ Len(new) = n /\ n \in Nat /\ i \in 1 .. n
      /\ \A j \in 1 .. n : new[j] = IF j = i THEN y ELSE list[j]
  BY ExceptSeq
<1> HIDE DEF new, n
<1>9. Weighed(list, w, S) /\ Weighed(new, w, S)
  BY <1>1, Weighing
<1>2. /\ \A j \in 1 .. n : Weights(list, w)[j] = w[list[j]]
      /\ \A j \in 1 .. n : Weights(new, w)[j] = w[new[j]]
      /\ Summable(Weights(list, w), 1 .. n)
      /\ w[y] \in Int
      /\ ToSet(new) = {new[j] : j \in 1 .. n}
      /\ ToSet(list) = {list[j] : j \in 1 .. n}
  BY <1>1, <1>9 DEF Weighed, n
<1>3. SumFunctionOnSet(Weights(new, w), 1 .. n)
        = SumFunctionOnSet(Weights(list, w), 1 .. n) - w[list[i]] + w[y]
  <2>1. /\ Weights(new, w)[i] \in Int
        /\ \A j \in (1 .. n) \ {i} : Weights(new, w)[j] = Weights(list, w)[j]
        /\ Weights(new, w)[i] = w[y] /\ Weights(list, w)[i] = w[list[i]]
    <3>1. /\ new[i] = y /\ i \in 1 .. n
          /\ \A j \in (1 .. n) \ {i} : new[j] = list[j]
      BY <1>1
    <3>2. /\ \A j \in 1 .. n : Weights(list, w)[j] = w[list[j]]
          /\ \A j \in 1 .. n : Weights(new, w)[j] = w[new[j]]
          /\ w[y] \in Int
      BY <1>2
    <3> HIDE DEF Weights
    <3> QED
      BY ONLY <3>1, <3>2
  <2>2. Summable(Weights(list, w), 1 .. n)
    BY <1>2
  <2>3. SumFunctionOnSet(Weights(new, w), 1 .. n)
          = SumFunctionOnSet(Weights(list, w), 1 .. n) - Weights(list, w)[i] + Weights(new, w)[i]
    <3> DEFINE f == Weights(list, w)
               g == Weights(new, w)
               D == 1 .. n
    <3>1. i \in D
      BY <1>1
    <3>2. Summable(f, D) /\ g[i] \in Int /\ \A j \in D \ {i} : g[j] = f[j]
      BY <2>1, <2>2
    <3> HIDE DEF f, g, D
    <3>3. /\ \A x \in D : g[x] \in Int /\ (\A j \in D \ {x} : g[j] = f[j]) =>
               SumFunctionOnSet(g, D) = SumFunctionOnSet(f, D) - f[x] + g[x]
      <4>1. Summable(f, D)
        BY <3>2
      <4> QED
        BY ONLY <4>1, SumChange
    <3> QED
      BY <3>1, <3>2, <3>3 DEF f, g, D
  <2> QED
    BY <2>1, <2>3
<1>4. ToSet(new) \subseteq ToSet(list) \cup {y}
  BY <1>1, <1>2
<1> QED
  BY <1>1, <1>3, <1>4 DEF WeightOf, new, n

-----------------------------------------------------------------------------
(* The inductive invariant.                                                 *)
Lots == {b \in Buy : b.sold <= b.qty}

Sales == {s \in Sell : s.left <= s.qty /\ (s.created => s.left = 0)}

Actions ==
  [kind : {"spinoff", "delisting"}, time : 1 .. MaxEvents, id : 1 .. MaxEvents,
   symbol : Symbol, qty : Nat \ {0}]
  \cup [kind : {"rename"}, time : 1 .. MaxEvents, symbol : Symbol, to : Symbol]
  \cup [kind : {"split"}, time : 1 .. MaxEvents, symbol : Symbol,
        ratio : (Nat \ {0}) \X (Nat \ {0}), deposit : Nat]

Queued(O) == [qty : Nat, origin : O]

LedgerTypes == \E O : holding \in [Symbol -> Seq(Queued(O))]

Clocks ==
  /\ clock \in Nat /\ count \in 0 .. MaxEvents + MaxSells /\ clock <= count
  /\ stage = "trading" => count <= MaxEvents
  /\ stage = "emulated" => clock > 0

Lists ==
  /\ buys \in Seq(Lots) /\ sells \in Seq(Sales) /\ actions \in Seq(Actions)
  /\ splits \in [Symbol -> SUBSET ((1 .. MaxEvents) \X Exact)]
  /\ \A s \in Symbol : IsFiniteSet(splits[s])
  /\ positions \in [Symbol -> Nat] /\ until \in 1 .. Never
  /\ stage \in {"trading", "acting", "matching", "splitting", "ready", "emulated",
                "failed"}

(* The corporate actions are processed in the order of their times, and the *)
(* program is in the middle of a split while it is at the first of them.    *)
StockPhases ==
  /\ stage = "trading" =>
       /\ splits = [s \in Symbol |-> {}]
       /\ \A i \in 1 .. Len(actions) : actions[i].time <= clock
       /\ \A i, j \in 1 .. Len(actions) : actions[i].time = actions[j].time => i = j
  /\ stage # "trading" =>
       /\ \A i, j \in 1 .. Len(actions) : i < j => actions[i].time < actions[j].time
       /\ \A s \in Symbol : \A d \in splits[s] : \A i \in 1 .. Len(actions) :
            d[1] < actions[i].time
  /\ stage \in {"trading", "acting", "ready", "emulated"} => until = Never
  /\ stage = "splitting" \/ (stage = "matching" /\ until # Never) =>
       actions # <<>> /\ Head(actions).kind = "split"

(* No acquisition happens twice: a spinoff is not a purchase yet, and no    *)
(* other spinoff or purchase is known by its number.                        *)
Acquired(list) == {b.id : b \in ToSet(list)}

Ids ==
  /\ \A b \in ToSet(buys) : b.id <= count
  /\ \A a \in ToSet(actions) : a.kind = "spinoff" => a.id <= count /\ a.id \notin Acquired(buys)
  /\ \A a, b \in ToSet(actions) : a.kind = "spinoff" /\ b.kind = "spinoff" /\ a.id = b.id => a = b

(* What the lots keep of an acquisition, and the sales have used of it.     *)
KeptBy(e) == [b \in Lots |-> Kept(b)[e]]

UsedBy(e) == [s \in Sales |-> IF s.created THEN 0 ELSE s.origin[e]]

(* What has got lost of it: rounding may lose, nothing may gain.            *)
Lost(lots, sales, e) ==
  (IF e \in Acquired(lots) THEN Unit ELSE 0)
    - WeightOf(lots, KeptBy(e)) - WeightOf(sales, UsedBy(e))

StockBase == LedgerTypes /\ Clocks /\ Lists /\ StockPhases /\ Ids

IInv == StockBase /\ \A e \in Event : Lost(buys, sells, e) \in Nat

LosesNothing == \A e \in Event : Lost(buys', sells', e) = Lost(buys, sells, e)

-----------------------------------------------------------------------------
(* The ledger's sums and numbers are those of the other modules.            *)
LEMMA LedgerSum ==
  ASSUME NEW f, NEW S
  PROVE  Ledger!SumFunctionOnSet(f, S) = SumFunctionOnSet(f, S)
  BY DEF Ledger!SumFunctionOnSet, Ledger!FoldFunctionOnSet, Ledger!MapThenFoldSet,
         SumFunctionOnSet, FoldFunctionOnSet, MapThenFoldSet

(* The ledger counts as this module does.                                   *)
LEMMA LedgerCardinality ==
  ASSUME NEW S
  PROVE  Ledger!Cardinality(S) = Cardinality(S)
  BY DEF Ledger!Cardinality, Cardinality

(* The ledger holds numbers of shares.                                      *)
LEMMA LotsOfQueue ==
  ASSUME NEW O, NEW queue \in Seq(Queued(O))
  PROVE  /\ Len(queue) \in Nat /\ DOMAIN queue = 1 .. Len(queue)
         /\ \A i \in 1 .. Len(queue) : queue[i] \in Queued(O) /\ queue[i].qty \in Nat
         /\ \A n \in 0 .. Len(queue) : Ledger!QtyUpTo(queue, n) \in Nat
         /\ Ledger!TotalQty(queue) \in Nat
<1>1. /\ Len(queue) \in Nat /\ DOMAIN queue = 1 .. Len(queue)
      /\ \A i \in 1 .. Len(queue) : queue[i] \in Queued(O)
  BY LenProperties, ElementOfSeq
<1>2. \A i \in 1 .. Len(queue) : queue[i].qty \in Nat
  BY <1>1 DEF Queued
<1>3. ASSUME NEW n \in 0 .. Len(queue)
      PROVE  Ledger!QtyUpTo(queue, n) \in Nat
  <2> DEFINE f == [i \in DOMAIN queue |-> queue[i].qty]
  <2>1. IsFiniteSet(1 .. n) /\ \A i \in 1 .. n : f[i] \in Nat
    BY <1>1, <1>2, FS_Interval
  <2>2. SumFunctionOnSet(f, 1 .. n) \in Nat
    BY <2>1, SumNatural
  <2> QED
    BY <2>2, LedgerSum DEF Ledger!QtyUpTo
<1>4. Ledger!TotalQty(queue) \in Nat
  BY <1>1, <1>3 DEF Ledger!TotalQty
<1> QED
  BY <1>1, <1>2, <1>3, <1>4

(* What is held of a symbol is a number.                                    *)
LEMMA HeldIsNumber ==
  ASSUME LedgerTypes, NEW s \in Symbol
  PROVE  Held(s) \in Nat
<1>1. PICK O : holding \in [Symbol -> Seq(Queued(O))]
  BY DEF LedgerTypes
<1> QED
  BY <1>1, LotsOfQueue DEF Held

(* An acquisition keeps the ledger's types.                                 *)
LEMMA AcquireTypes ==
  ASSUME LedgerTypes, NEW s \in Symbol, NEW e, NEW q \in Nat, Ledger!Acquire(s, e, q)
  PROVE  LedgerTypes'
<1>1. PICK O : holding \in [Symbol -> Seq(Queued(O))]
  BY DEF LedgerTypes
<1> DEFINE lot == [qty |-> q, origin |-> Ledger!Whole(e)]
           P == O \cup {Ledger!Whole(e)}
<1>2. Queued(O) \subseteq Queued(P) /\ lot \in Queued(P)
  BY DEF Queued
<1>3. ASSUME NEW r \in Symbol
      PROVE  holding[r] \in Seq(Queued(P))
  <2>1. holding[r] \in Seq(Queued(O))
    BY <1>1
  <2> QED
    BY <1>2, <2>1, SeqMonotonic
<1>4. Append(holding[s], lot) \in Seq(Queued(P))
  BY <1>2, <1>3, AppendProperties
<1>5. holding' = [holding EXCEPT ![s] = Append(holding[s], lot)]
  BY DEF Ledger!Acquire
<1>6. holding' \in [Symbol -> Seq(Queued(P))]
  <2> HIDE DEF lot, P
  <2> QED
    BY <1>1, <1>3, <1>4, <1>5
<1> QED
  BY <1>6 DEF LedgerTypes

(* A disposal takes at most what a lot has.                                 *)
LEMMA TakenIsPart ==
  ASSUME NEW O, NEW queue \in Seq(Queued(O)), NEW q \in Nat,
         NEW i \in 1 .. Len(queue)
  PROVE  Ledger!Taken(queue, q, i) \in 0 .. queue[i].qty
<1>1. queue[i].qty \in Nat /\ Ledger!QtyUpTo(queue, i - 1) \in Nat
  BY LotsOfQueue
<1> QED
  BY <1>1 DEF Ledger!Taken, Ledger!Least

(* What a disposal leaves are lots.                                         *)
LEMMA LeftLotsTypes ==
  ASSUME NEW O, NEW queue \in Seq(Queued(O)), NEW q \in Nat
  PROVE  \E P : Ledger!LeftLots(queue, q) \in Seq(Queued(P))
<1> DEFINE sold == {i \in DOMAIN queue : Ledger!Taken(queue, q, i) = queue[i].qty}
           left(i) == queue[i].qty - Ledger!Taken(queue, q, i)
           lot(i) == [qty |-> left(i), origin |-> Ledger!Part(queue[i].origin, left(i), queue[i].qty)]
           rest == [i \in DOMAIN queue |-> lot(i)]
           P == {lot(i).origin : i \in DOMAIN queue}
           n == Len(queue)
<1>1. n \in Nat /\ DOMAIN queue = 1 .. n
  BY LotsOfQueue
<1>2. ASSUME NEW i \in 1 .. n
      PROVE  left(i) \in Nat
  <2>1. Ledger!Taken(queue, q, i) \in 0 .. queue[i].qty /\ queue[i].qty \in Nat
    BY TakenIsPart, LotsOfQueue
  <2> QED
    BY <2>1
<1>3. \A i \in 1 .. n : lot(i) \in Queued(P)
  BY <1>1, <1>2 DEF Queued
<1>4. rest \in Seq(Queued(P)) /\ Len(rest) = n
  <2> HIDE DEF P, lot
  <2> QED
    BY <1>1, <1>3
<1>5. Cardinality(sold) \in 0 .. n
  <2> DEFINE D == 1 .. n
  <2>1. IsFiniteSet(D) /\ Cardinality(D) = n
    BY <1>1, FS_Interval
  <2>2. sold \in SUBSET D
    BY <1>1
  <2> HIDE DEF sold, D
  <2>3. IsFiniteSet(sold) /\ Cardinality(sold) <= n
    BY <2>1, <2>2, FS_Subset
  <2>4. Cardinality(sold) \in Nat
    BY <2>3, FS_CardinalityType
  <2> QED
    BY <1>1, <2>3, <2>4
<1>6. Ledger!LeftLots(queue, q) = SubSeq(rest, Cardinality(sold) + 1, n)
  BY LedgerCardinality DEF Ledger!LeftLots
<1>7. SubSeq(rest, Cardinality(sold) + 1, n) \in Seq(Queued(P))
  <2> HIDE DEF rest, sold, P, n
  <2>1. Cardinality(sold) + 1 \in 1 .. Len(rest) + 1 /\ n \in Cardinality(sold) .. Len(rest)
    BY <1>1, <1>4, <1>5
  <2> QED
    BY <1>1, <1>4, <1>5, <2>1, SubSeqProperties
<1> QED
  BY <1>6, <1>7

(* A disposal keeps the ledger's types.                                     *)
LEMMA DisposeTypes ==
  ASSUME LedgerTypes, NEW s \in Symbol, NEW e, NEW q \in Nat, Ledger!Dispose(s, e, q)
  PROVE  LedgerTypes'
<1>1. PICK O : holding \in [Symbol -> Seq(Queued(O))]
  BY DEF LedgerTypes
<1>2. PICK L : Ledger!LeftLots(holding[s], q) \in Seq(Queued(L))
  BY <1>1, LeftLotsTypes
<1> DEFINE P == O \cup L
<1>3. Queued(O) \subseteq Queued(P) /\ Queued(L) \subseteq Queued(P)
  BY DEF Queued
<1>4. /\ \A r \in Symbol : holding[r] \in Seq(Queued(P))
      /\ Ledger!LeftLots(holding[s], q) \in Seq(Queued(P))
  <2>1. Ledger!LeftLots(holding[s], q) \in Seq(Queued(P))
    BY <1>2, <1>3, SeqMonotonic
  <2>2. ASSUME NEW r \in Symbol
        PROVE  holding[r] \in Seq(Queued(P))
    <3>1. holding[r] \in Seq(Queued(O))
      BY <1>1
    <3> QED
      BY <1>3, <3>1, SeqMonotonic
  <2> QED
    BY <2>1, <2>2
<1>5. holding' = [holding EXCEPT ![s] = Ledger!LeftLots(holding[s], q)]
  BY DEF Ledger!Dispose
<1>6. holding' \in [Symbol -> Seq(Queued(P))]
  <2> HIDE DEF P
  <2> QED
    BY <1>1, <1>4, <1>5
<1> QED
  BY <1>6 DEF LedgerTypes

(* A split that keeps the lots keeps the ledger's types.                    *)
LEMMA SplitLotsTypes ==
  ASSUME LedgerTypes, NEW s \in Symbol, NEW n \in Nat, Ledger!SplitLots(s, n)
  PROVE  LedgerTypes'
<1>1. PICK O : holding \in [Symbol -> Seq(Queued(O))]
  BY DEF LedgerTypes
<1> DEFINE queue == holding[s]
           lot(i) == [qty |-> n * queue[i].qty, origin |-> queue[i].origin]
<1>2. queue \in Seq(Queued(O))
  BY <1>1
<1>3. /\ Len(queue) \in Nat /\ DOMAIN queue = 1 .. Len(queue)
      /\ \A i \in 1 .. Len(queue) : queue[i] \in Queued(O) /\ queue[i].qty \in Nat
  <2> HIDE DEF queue
  <2> QED
    BY <1>2, LotsOfQueue
<1>4. \A i \in 1 .. Len(queue) : lot(i) \in Queued(O)
  <2> HIDE DEF queue
  <2>1. \A i \in 1 .. Len(queue) : n * queue[i].qty \in Nat
    BY <1>3
  <2> QED
    BY <1>3, <2>1 DEF Queued
<1>5. holding' = [holding EXCEPT ![s] = [i \in DOMAIN queue |-> lot(i)]]
  BY DEF Ledger!SplitLots
<1>6. [i \in DOMAIN queue |-> lot(i)] \in Seq(Queued(O))
  <2> HIDE DEF queue, lot
  <2> QED
    BY <1>3, <1>4
<1>7. holding' \in [Symbol -> Seq(Queued(O))]
  <2> HIDE DEF lot, queue
  <2> QED
    BY <1>1, <1>5, <1>6
<1> QED
  BY <1>7 DEF LedgerTypes

(* A split that pools the lots keeps the ledger's types.                    *)
LEMMA PoolLotsTypes ==
  ASSUME LedgerTypes, NEW s \in Symbol, NEW q \in Nat, Ledger!PoolLots(s, q)
  PROVE  LedgerTypes'
<1>1. PICK O : holding \in [Symbol -> Seq(Queued(O))]
  BY DEF LedgerTypes
<1> DEFINE lot == [qty |-> q, origin |-> Ledger!Pooled(holding[s])]
           P == O \cup {Ledger!Pooled(holding[s])}
<1>2. Queued(O) \subseteq Queued(P) /\ lot \in Queued(P)
  BY DEF Queued
<1>3. ASSUME NEW r \in Symbol
      PROVE  holding[r] \in Seq(Queued(P))
  <2>1. holding[r] \in Seq(Queued(O))
    BY <1>1
  <2> QED
    BY <1>2, <2>1, SeqMonotonic
<1>4. <<lot>> \in Seq(Queued(P))
  <2> HIDE DEF lot, P
  <2> QED
    BY <1>2
<1>5. holding' = [holding EXCEPT ![s] = <<lot>>]
  BY DEF Ledger!PoolLots
<1>6. holding' \in [Symbol -> Seq(Queued(P))]
  <2> HIDE DEF lot, P
  <2> QED
    BY <1>1, <1>3, <1>4, <1>5
<1> QED
  BY <1>6 DEF LedgerTypes

(* A rename keeps the ledger's types.                                       *)
LEMMA RenameLotsTypes ==
  ASSUME LedgerTypes, NEW s \in Symbol, NEW t \in Symbol, Ledger!RenameLots(s, t)
  PROVE  LedgerTypes'
<1>1. PICK O : holding \in [Symbol -> Seq(Queued(O))]
  BY DEF LedgerTypes
<1>2. <<>> \in Seq(Queued(O)) /\ holding[s] \in Seq(Queued(O))
  BY <1>1, EmptySeq
<1>3. holding' = [holding EXCEPT ![s] = <<>>, ![t] = holding[s]]
  BY DEF Ledger!RenameLots
<1>4. holding' \in [Symbol -> Seq(Queued(O))]
  BY <1>1, <1>2, <1>3
<1> QED
  BY <1>4 DEF LedgerTypes

-----------------------------------------------------------------------------
(* The items of the lists.                                                  *)
LEMMA LotIs ==
  ASSUME NEW list \in Seq(Lots)
  PROVE  /\ Len(list) \in Nat /\ DOMAIN list = 1 .. Len(list)
         /\ \A i \in 1 .. Len(list) : list[i] \in Lots /\ list[i] \in ToSet(list)
         /\ \A b \in ToSet(list) :
              /\ b \in Lots /\ b.id \in Nat /\ b.time \in Int
              /\ \E i \in 1 .. Len(list) : b = list[i]
<1>1. /\ Len(list) \in Nat /\ DOMAIN list = 1 .. Len(list)
      /\ \A i \in 1 .. Len(list) : list[i] \in Lots
  BY LenProperties, ElementOfSeq
<1>2. \A b \in Lots : b.id \in Nat /\ b.time \in Int
  BY StockFifoAssumption DEF Lots, Buy, Never
<1> QED
  BY <1>1, <1>2 DEF ToSet

(* The sells of a list.                                                     *)
LEMMA SaleIs ==
  ASSUME NEW list \in Seq(Sales)
  PROVE  /\ Len(list) \in Nat /\ DOMAIN list = 1 .. Len(list)
         /\ \A i \in 1 .. Len(list) : list[i] \in Sales /\ list[i] \in ToSet(list)
         /\ \A s \in ToSet(list) :
              /\ s \in Sales /\ s.time \in Int
              /\ \E i \in 1 .. Len(list) : s = list[i]
<1>1. /\ Len(list) \in Nat /\ DOMAIN list = 1 .. Len(list)
      /\ \A i \in 1 .. Len(list) : list[i] \in Sales
  BY LenProperties, ElementOfSeq
<1>2. \A s \in Sales : s.time \in Int
  BY StockFifoAssumption DEF Sales, Sell, Never
<1> QED
  BY <1>1, <1>2 DEF ToSet

(* The corporate actions of a list.                                         *)
LEMMA ActionIs ==
  ASSUME NEW list \in Seq(Actions)
  PROVE  /\ Len(list) \in Nat /\ DOMAIN list = 1 .. Len(list)
         /\ \A i \in 1 .. Len(list) :
              /\ list[i] \in Actions
              /\ list[i] \in ToSet(list)
              /\ list[i].time \in Int
         /\ \A a \in ToSet(list) :
              /\ a \in Actions
              /\ a.time \in 1 .. MaxEvents
              /\ (a.kind = "spinoff" => a.id \in 1 .. MaxEvents)
              /\ \E i \in 1 .. Len(list) : a = list[i]
<1>1. /\ Len(list) \in Nat /\ DOMAIN list = 1 .. Len(list)
      /\ \A i \in 1 .. Len(list) : list[i] \in Actions
  BY LenProperties, ElementOfSeq
<1>2. \A a \in Actions :
        /\ a.time \in 1 .. MaxEvents
        /\ a.time \in Int
        /\ (a.kind = "spinoff" => a.id \in 1 .. MaxEvents)
  BY StockFifoAssumption DEF Actions
<1> QED
  BY <1>1, <1>2 DEF ToSet

(* What the invariant says of the lists and of what is in them.             *)
LEMMA StockBaseIs ==
  ASSUME StockBase
  PROVE  /\ clock \in Nat /\ count \in Nat
         /\ buys \in Seq(Lots) /\ sells \in Seq(Sales) /\ actions \in Seq(Actions)
         /\ \A b \in ToSet(buys) : b \in Lots /\ b.id \in Nat /\ b.id <= count
         /\ \A s \in ToSet(sells) : s \in Sales
         /\ \A a \in ToSet(actions) :
              /\ a \in Actions /\ a.time \in 1 .. MaxEvents /\ a.time \in Nat
              /\ a.kind = "spinoff" =>
                   /\ a.id \in 1 .. MaxEvents /\ a.id \in Nat
                   /\ a.id <= count /\ a.id \notin Acquired(buys)
<1>1. /\ clock \in Nat /\ count \in Nat
      /\ buys \in Seq(Lots) /\ sells \in Seq(Sales) /\ actions \in Seq(Actions)
  BY DEF StockBase, Clocks, Lists
<1>2. \A b \in ToSet(buys) : b \in Lots /\ b.id \in Nat /\ b.id <= count
  BY <1>1, LotIs DEF StockBase, Ids
<1>3. \A s \in ToSet(sells) : s \in Sales
  BY <1>1, SaleIs
<1>4. \A a \in ToSet(actions) :
        /\ a \in Actions
        /\ a.time \in 1 .. MaxEvents
        /\ (a.kind = "spinoff" => a.id \in 1 .. MaxEvents)
  BY <1>1, ActionIs
<1>5. \A a \in ToSet(actions) :
        a.kind = "spinoff" => a.id <= count /\ a.id \notin Acquired(buys)
  BY DEF StockBase, Ids
<1>6. \A x \in 1 .. MaxEvents : x \in Nat
  OBVIOUS
<1>7. ASSUME NEW a \in ToSet(actions)
      PROVE  /\ a \in Actions /\ a.time \in 1 .. MaxEvents /\ a.time \in Nat
             /\ a.kind = "spinoff" =>
                  /\ a.id \in 1 .. MaxEvents /\ a.id \in Nat
                  /\ a.id <= count /\ a.id \notin Acquired(buys)
  <2>1. a \in Actions /\ a.time \in 1 .. MaxEvents
    BY <1>4
  <2>2. a.time \in Nat
    BY <1>6, <2>1
  <2>3. ASSUME a.kind = "spinoff"
        PROVE  /\ a.id \in 1 .. MaxEvents /\ a.id \in Nat
               /\ a.id <= count /\ a.id \notin Acquired(buys)
    <3>1. a.id \in 1 .. MaxEvents
      BY <1>4, <2>3
    <3> QED
      BY <1>5, <1>6, <2>3, <3>1
  <2> QED
    BY <2>1, <2>2, <2>3
<1> QED
  BY <1>1, <1>2, <1>3, <1>7

-----------------------------------------------------------------------------
(* What a lot keeps and a sale has used.                                    *)
LEMMA KeptIs ==
  ASSUME NEW e \in Event
  PROVE  /\ KeptBy(e) \in [Lots -> Nat] /\ UsedBy(e) \in [Sales -> Nat]
         /\ \A b \in Lots : KeptBy(e)[b] = (b.origin[e] * (b.qty - b.sold)) \div b.qty
         /\ \A s \in Sales : UsedBy(e)[s] = IF s.created THEN 0 ELSE s.origin[e]
<1>1. ASSUME NEW b \in Lots
      PROVE  /\ Kept(b)[e] = (b.origin[e] * (b.qty - b.sold)) \div b.qty
             /\ Kept(b)[e] \in Nat
  <2>1. b.origin[e] \in Nat /\ b.qty \in Nat \ {0} /\ b.qty - b.sold \in Nat
    BY StockFifoAssumption DEF Lots, Buy, Origins
  <2>2. b.origin[e] * (b.qty - b.sold) \in Nat
    BY <2>1
  <2>3. (b.origin[e] * (b.qty - b.sold)) \div b.qty \in Nat
    <3> DEFINE x == b.origin[e] * (b.qty - b.sold)
    <3>1. x \in Nat /\ b.qty \in Nat \ {0}
      BY <2>1, <2>2
    <3> HIDE DEF x
    <3>2. x \div b.qty \in Nat
      BY <3>1
    <3> QED
      BY <3>2 DEF x
  <2>4. Kept(b)[e] = (b.origin[e] * (b.qty - b.sold)) \div b.qty
    BY DEF Kept, Ledger!Part, Unsold
  <2> QED
    BY <2>3, <2>4
<1>2. ASSUME NEW s \in Sales
      PROVE  s.origin[e] \in Nat
  BY StockFifoAssumption DEF Sales, Sell, Origins
<1> QED
  BY <1>1, <1>2 DEF KeptBy, UsedBy

(* A new lot keeps all that it comes from.                                  *)
LEMMA NewBuyIs ==
  ASSUME NEW id \in 0 .. MaxEvents, NEW s \in Symbol, NEW time \in 1 .. Never,
         NEW q \in Nat \ {0}, NEW origin \in Origins, NEW created \in BOOLEAN
  PROVE  /\ NewBuy(id, s, time, q, origin, created) \in Lots
         /\ \A e \in Event : KeptBy(e)[NewBuy(id, s, time, q, origin, created)] = origin[e]
<1> DEFINE b == NewBuy(id, s, time, q, origin, created)
<1>1. /\ b \in Lots
      /\ b.origin = origin /\ b.qty = q /\ b.sold = 0
  BY DEF NewBuy, Lots, Buy
<1> HIDE DEF b
<1>2. ASSUME NEW e \in Event
      PROVE  KeptBy(e)[b] = origin[e]
  <2>1. KeptBy(e)[b] = (origin[e] * (q - 0)) \div q
    BY <1>1, KeptIs
  <2>2. origin[e] \in Nat
    BY StockFifoAssumption DEF Origins
  <2>3. \A x \in Nat : (x * (q - 0)) \div q = x
    OBVIOUS
  <2> QED
    BY <2>1, <2>2, <2>3
<1> QED
  BY <1>1, <1>2 DEF b

(* A new sell has used nothing.                                             *)
LEMMA NewSellIs ==
  ASSUME NEW id \in Event, NEW s \in Symbol, NEW time \in 1 .. Never, NEW q \in Nat \ {0}
  PROVE  /\ NewSell(id, s, time, q, FALSE) \in Sales
         /\ NewSell(id, s, time, q, FALSE).created = FALSE
         /\ NewSell(id, s, time, q, FALSE).left = q
         /\ \A e \in Event : UsedBy(e)[NewSell(id, s, time, q, FALSE)] = 0
<1> DEFINE b == NewSell(id, s, time, q, FALSE)
<1>1. Ledger!Nothing \in Origins /\ \A e \in Event : Ledger!Nothing[e] = 0
  BY StockFifoAssumption DEF Ledger!Nothing, Origins
<1>2. b \in Sales /\ b.created = FALSE /\ b.origin = Ledger!Nothing /\ b.left = q
  BY <1>1 DEF NewSell, Sales, Sell
<1> HIDE DEF b
<1>3. \A e \in Event : UsedBy(e)[b] = 0
  BY <1>1, <1>2, KeptIs
<1> QED
  BY <1>2, <1>3 DEF b

(* An acquisition comes from itself alone.                                  *)
LEMMA WholeIs ==
  ASSUME NEW e \in Event
  PROVE  /\ Ledger!Whole(e) \in Origins
         /\ \A d \in Event : Ledger!Whole(e)[d] = IF d = e THEN Unit ELSE 0
BY StockFifoAssumption DEF Ledger!Whole, Ledger!Nothing, Origins

-----------------------------------------------------------------------------
(* The world.                                                               *)
LEMMA TradeTimesAre ==
  ASSUME StockBase, NEW t \in TradeTimes
  PROVE  t \in 1 .. clock + 1 /\ clock <= t
<1>1. clock \in Nat
  BY DEF StockBase, Clocks
<1>2. CASE t = clock + 1
  BY <1>1, <1>2
<1>3. CASE t # clock + 1
  <2>1. PICK a \in ToSet(actions) : a.time = clock /\ t = clock
    BY <1>3 DEF TradeTimes
  <2>2. \A i \in DOMAIN actions : actions[i] \in Actions
    BY DEF StockBase, Lists
  <2>3. a.time \in 1 .. MaxEvents
    BY <2>1, <2>2 DEF ToSet, Actions
  <2> QED
    BY <1>1, <2>1, <2>3
<1> QED
  BY <1>2, <1>3

(* An event is counted and has its time.                                    *)
LEMMA HappensKeeps ==
  ASSUME StockBase, NEW kind, NEW time \in Int, clock <= time, time <= clock + 1,
         Happens(kind, time)
  PROVE  /\ Clocks' /\ count' = count + 1 /\ count' \in 1 .. MaxEvents /\ count' \in Event
         /\ count' \in 0 .. MaxEvents /\ clock' = time /\ time <= MaxEvents
         /\ MaxEvents \in Nat /\ MaxEvents <= Never
         /\ stage = "trading" /\ stage' = stage /\ splits' = splits
         /\ positions' = positions /\ until' = until
  BY StockFifoAssumption DEF StockBase, Clocks, Happens, Event, Never

(* A purchase is owed in full and kept in full.                             *)
LEMMA BuySharesKeeps ==
  ASSUME IInv, NEW s \in Symbol, NEW n \in Quantities, NEW t \in TradeTimes,
         BuyShares(s, n, t)
  PROVE  IInv' /\ LosesNothing
<1>1. t \in 1 .. clock + 1 /\ clock <= t /\ StockBase
  BY TradeTimesAre DEF IInv
<1>2. /\ Clocks' /\ count' = count + 1 /\ count' \in 1 .. MaxEvents /\ count' \in Event
      /\ count' \in 0 .. MaxEvents /\ clock' = t /\ t \in 1 .. Never
      /\ stage = "trading" /\ stage' = stage /\ splits' = splits
      /\ positions' = positions /\ until' = until
  <2>1. Happens("buy", t) /\ t \in Int /\ t <= clock + 1
    BY <1>1 DEF BuyShares, StockBase, Clocks
  <2>2. /\ Clocks' /\ count' = count + 1 /\ count' \in 1 .. MaxEvents /\ count' \in Event
        /\ count' \in 0 .. MaxEvents /\ clock' = t /\ t <= MaxEvents
        /\ MaxEvents \in Nat /\ MaxEvents <= Never
        /\ stage = "trading" /\ stage' = stage /\ splits' = splits
        /\ positions' = positions /\ until' = until
    BY <1>1, <2>1, HappensKeeps
  <2>3. t \in 1 .. Never
    BY <1>1, <2>2, StockFifoAssumption DEF Never, StockBase, Clocks
  <2> QED
    BY <2>2, <2>3
<1>3. n * Scale \in Nat \ {0}
  BY StockFifoAssumption
<1>4. LedgerTypes'
  BY <1>1, <1>3, AcquireTypes DEF BuyShares, StockBase
<1> DEFINE b == NewBuy(count', s, t, n * Scale, Ledger!Whole(count'), FALSE)
<1>5. /\ b \in Lots /\ b.id = count'
      /\ \A e \in Event : KeptBy(e)[b] = IF e = count' THEN Unit ELSE 0
  <2>1. b.id = count'
    BY DEF NewBuy
  <2>2. /\ Ledger!Whole(count') \in Origins
        /\ \A e \in Event : Ledger!Whole(count')[e] = IF e = count' THEN Unit ELSE 0
    BY <1>2, WholeIs
  <2>3. b \in Lots /\ \A e \in Event : KeptBy(e)[b] = Ledger!Whole(count')[e]
    <3> DEFINE id == count'
               q == n * Scale
               origin == Ledger!Whole(id)
               time == t
    <3>1. /\ id \in 0 .. MaxEvents /\ time \in 1 .. Never /\ q \in Nat \ {0}
          /\ origin \in Origins /\ FALSE \in BOOLEAN
      BY <1>2, <1>3, <2>2
    <3> HIDE DEF id, q, origin, time
    <3>2. /\ NewBuy(id, s, time, q, origin, FALSE) \in Lots
          /\ \A e \in Event : KeptBy(e)[NewBuy(id, s, time, q, origin, FALSE)] = origin[e]
      BY <3>1, NewBuyIs
    <3> QED
      BY <3>2 DEF id, q, origin, time
  <2> QED
    BY <2>1, <2>2, <2>3
<1>6. buys' = Put(buys, b) /\ sells' = sells /\ actions' = actions
  BY DEF BuyShares
<1> HIDE DEF b
<1>7. buys \in Seq(Lots)
  BY <1>1 DEF StockBase, Lists
<1>8. /\ buys' \in Seq(Lots) /\ ToSet(buys') = ToSet(buys) \cup {b}
      /\ \A e \in Event : WeightOf(buys', KeptBy(e)) = WeightOf(buys, KeptBy(e)) + KeptBy(e)[b]
  <2>1. buys' \in Seq(Lots) /\ ToSet(buys') = ToSet(buys) \cup {b}
    <3> DEFINE w == [x \in Lots |-> 0]
    <3>1. w \in [Lots -> Nat] /\ b \in Lots
      BY <1>5
    <3> HIDE DEF w
    <3>2. /\ Put(buys, b) \in Seq(Lots)
          /\ ToSet(Put(buys, b)) = ToSet(buys) \cup {b}
      BY ONLY <1>7, <3>1, WeightOfPut
    <3> QED
      BY <1>6, <3>2
  <2>2. ASSUME NEW e \in Event
        PROVE  WeightOf(buys', KeptBy(e)) = WeightOf(buys, KeptBy(e)) + KeptBy(e)[b]
    <3>1. KeptBy(e) \in [Lots -> Nat]
      BY KeptIs
    <3> QED
      BY <1>5, <1>6, <1>7, <3>1, WeightOfPut
  <2> QED
    BY <2>1, <2>2
<1>9. Lists'
  BY <1>1, <1>2, <1>6, <1>8 DEF StockBase, Lists
<1>10. StockPhases'
  <2>1. \A i \in 1 .. Len(actions) : actions[i].time \in Int
    BY <1>1, ActionIs DEF StockBase, Lists
  <2> QED
    BY <1>1, <1>2, <1>6, <2>1 DEF StockBase, StockPhases, Clocks
<1>11. /\ Acquired(buys') = Acquired(buys) \cup {count'}
       /\ count' \notin Acquired(buys)
       /\ \A a \in ToSet(actions) : a.kind = "spinoff" => a.id # count'
  BY <1>1, <1>2, <1>5, <1>8 DEF Acquired, StockBase, Ids, Clocks
<1>12. Ids'
  <2>1. \A c \in ToSet(buys') : c.id <= count'
    BY <1>1, <1>2, <1>5, <1>7, <1>8, LotIs DEF StockBase, Ids, Clocks
  <2>2. \A a \in ToSet(actions') :
          a.kind = "spinoff" => a.id <= count' /\ a.id \notin Acquired(buys')
    <3>1. \A a \in ToSet(actions) : a.kind = "spinoff" => a.id \in Nat /\ a.id <= count
      BY <1>1, StockBaseIs
    <3>2. \A a \in ToSet(actions) : a.kind = "spinoff" => a.id \notin Acquired(buys)
      BY <1>1 DEF StockBase, Ids
    <3>3. count \in Nat
      BY <1>1 DEF StockBase, Clocks
    <3> QED
      BY <1>2, <1>6, <1>11, <3>1, <3>2, <3>3
  <2> QED
    BY <1>1, <1>6, <2>1, <2>2 DEF StockBase, Ids
<1>13. LosesNothing
  <2>1. SUFFICES ASSUME NEW e \in Event
                 PROVE  Lost(buys', sells', e) = Lost(buys, sells, e)
    BY DEF LosesNothing
  <2>3. WeightOf(buys, KeptBy(e)) \in Nat /\ WeightOf(sells, UsedBy(e)) \in Nat
    BY <1>1, KeptIs, Weighing DEF StockBase, Lists, Weighed
  <2> QED
    BY <1>5, <1>6, <1>8, <1>11, <2>3, StockFifoAssumption DEF Lost
<1> QED
  BY <1>2, <1>4, <1>9, <1>10, <1>12, <1>13 DEF IInv, StockBase, LosesNothing


(* A sale is not an acquisition and takes nothing yet.                      *)
LEMMA SellSharesKeeps ==
  ASSUME IInv, NEW s \in Symbol, NEW n \in Quantities, NEW t \in TradeTimes,
         SellShares(s, n, t)
  PROVE  IInv' /\ LosesNothing
<1>1. t \in 1 .. clock + 1 /\ clock <= t /\ StockBase
  BY TradeTimesAre DEF IInv
<1>2. /\ Clocks' /\ count' = count + 1 /\ count' \in 1 .. MaxEvents /\ count' \in Event
      /\ count' \in 0 .. MaxEvents /\ clock' = t /\ t \in 1 .. Never
      /\ stage = "trading" /\ stage' = stage /\ splits' = splits
      /\ positions' = positions /\ until' = until
  <2>1. Happens("sell", t) /\ t \in Int /\ t <= clock + 1
    BY <1>1 DEF SellShares, StockBase, Clocks
  <2>2. /\ Clocks' /\ count' = count + 1 /\ count' \in 1 .. MaxEvents /\ count' \in Event
        /\ count' \in 0 .. MaxEvents /\ clock' = t /\ t <= MaxEvents
        /\ MaxEvents \in Nat /\ MaxEvents <= Never
        /\ stage = "trading" /\ stage' = stage /\ splits' = splits
        /\ positions' = positions /\ until' = until
    BY <1>1, <2>1, HappensKeeps
  <2>3. t \in 1 .. Never
    BY <1>1, <2>2, StockFifoAssumption DEF Never, StockBase, Clocks
  <2> QED
    BY <2>2, <2>3
<1>3. n * Scale \in Nat \ {0}
  BY StockFifoAssumption
<1>4. LedgerTypes'
  BY <1>1, <1>3, DisposeTypes DEF SellShares, StockBase
<1> DEFINE b == NewSell(count', s, t, n * Scale, FALSE)
<1>5. b \in Sales /\ \A e \in Event : UsedBy(e)[b] = 0
  <2> DEFINE id == count'
             q == n * Scale
             time == t
  <2>1. id \in Event /\ time \in 1 .. Never /\ q \in Nat \ {0} /\ FALSE \in BOOLEAN
    BY <1>2, <1>3
  <2> HIDE DEF id, q, time
  <2>2. /\ NewSell(id, s, time, q, FALSE) \in Sales
        /\ \A e \in Event : UsedBy(e)[NewSell(id, s, time, q, FALSE)] = 0
    BY <2>1, NewSellIs
  <2> QED
    BY <2>2 DEF id, q, time
<1>6. sells' = Put(sells, b) /\ buys' = buys /\ actions' = actions
  BY DEF SellShares
<1> HIDE DEF b
<1>7. sells \in Seq(Sales) /\ buys \in Seq(Lots)
  BY <1>1, StockBaseIs
<1>8. /\ sells' \in Seq(Sales)
      /\ \A e \in Event : WeightOf(sells', UsedBy(e)) = WeightOf(sells, UsedBy(e))
  <2>1. sells' \in Seq(Sales)
    <3>1. [x \in Sales |-> 0] \in [Sales -> Nat]
      OBVIOUS
    <3> QED
      BY <1>5, <1>6, <1>7, <3>1, WeightOfPut
  <2>2. ASSUME NEW e \in Event
        PROVE  WeightOf(sells', UsedBy(e)) = WeightOf(sells, UsedBy(e))
    <3>1. UsedBy(e) \in [Sales -> Nat]
      BY KeptIs
    <3>2. WeightOf(sells', UsedBy(e)) = WeightOf(sells, UsedBy(e)) + UsedBy(e)[b]
      BY <1>5, <1>6, <1>7, <3>1, WeightOfPut
    <3>3. WeightOf(sells, UsedBy(e)) \in Nat
      BY <1>7, <3>1, Weighing DEF Weighed
    <3> QED
      BY <1>5, <3>2, <3>3
  <2> QED
    BY <2>1, <2>2
<1>9. Lists'
  BY <1>1, <1>2, <1>6, <1>8 DEF StockBase, Lists
<1>10. StockPhases'
  <2>1. \A i \in 1 .. Len(actions) : actions[i].time \in Int
    BY <1>1, ActionIs DEF StockBase, Lists
  <2> QED
    BY <1>1, <1>2, <1>6, <2>1 DEF StockBase, StockPhases, Clocks
<1>11. Ids'
  BY <1>1, <1>2, <1>6, StockBaseIs DEF StockBase, Ids, Acquired
<1>12. LosesNothing
  BY <1>6, <1>8 DEF LosesNothing, Lost
<1> QED
  BY <1>2, <1>4, <1>9, <1>10, <1>11, <1>12 DEF IInv, StockBase, LosesNothing

(* A corporate action is only written down.                                 *)
LEMMA OccursKeeps ==
  ASSUME IInv, NEW a \in Actions, a.time = clock + 1, a.kind = "spinoff" => a.id = count + 1,
         Occurs(a), LedgerTypes'
  PROVE  IInv' /\ LosesNothing
<1>1. StockBase
  BY DEF IInv
<1>2. /\ Clocks' /\ count' = count + 1 /\ clock' = clock + 1
      /\ stage = "trading" /\ stage' = stage /\ splits' = splits
      /\ positions' = positions /\ until' = until
  <2>1. Happens(a.kind, a.time) /\ a.time \in Int /\ clock <= a.time /\ a.time <= clock + 1
    BY <1>1 DEF Occurs, StockBase, Clocks
  <2> QED
    BY <1>1, <2>1, HappensKeeps
<1>3. actions' = Put(actions, a) /\ buys' = buys /\ sells' = sells
  BY DEF Occurs
<1>4. actions \in Seq(Actions) /\ clock \in Nat /\ count \in Nat
  BY <1>1, StockBaseIs
<1>5. actions' \in Seq(Actions) /\ ToSet(actions') = ToSet(actions) \cup {a}
  <2> DEFINE w == [x \in Actions |-> 0]
  <2>1. w \in [Actions -> Nat]
    OBVIOUS
  <2> HIDE DEF w
  <2>2. Put(actions, a) \in Seq(Actions) /\ ToSet(Put(actions, a)) = ToSet(actions) \cup {a}
    BY <1>4, <2>1, WeightOfPut
  <2> QED
    BY <1>3, <2>2
<1>6. Lists'
  BY <1>1, <1>2, <1>3, <1>5 DEF StockBase, Lists
<1>7. StockPhases'
  <2>1. /\ Len(actions) \in Nat
        /\ \A i \in 1 .. Len(actions) : actions[i].time \in Int /\ actions[i].time <= clock
        /\ \A i, j \in 1 .. Len(actions) : actions[i].time = actions[j].time => i = j
    BY <1>1, <1>2, <1>4, ActionIs DEF StockBase, StockPhases
  <2>2. /\ \A i \in 1 .. Len(actions') : actions'[i].time <= clock'
        /\ \A i, j \in 1 .. Len(actions') : actions'[i].time = actions'[j].time => i = j
    <3> DEFINE n == Len(actions)
    <3>1. CASE NewestFirst
      <4>1. /\ Len(actions') = n + 1 /\ actions'[1] = a
            /\ \A i \in 1 .. n : actions'[i + 1] = actions[i]
        <5>1. [x \in Actions |-> 0] \in [Actions -> Nat]
          OBVIOUS
        <5>2. actions' = <<a>> \o actions
          BY <1>3, <3>1 DEF Put
        <5> QED
          BY <1>4, <5>1, <5>2, WeightOfPrepended
      <4>2. \A i \in 2 .. n + 1 : i - 1 \in 1 .. n /\ actions'[i] = actions[i - 1]
        <5>1. ASSUME NEW i \in 2 .. n + 1
              PROVE  i - 1 \in 1 .. n /\ actions'[i] = actions[i - 1]
          <6>1. i - 1 \in 1 .. n /\ (i - 1) + 1 = i
            BY <2>1
          <6> QED
            BY <4>1, <6>1
        <5> QED
          BY <5>1
      <4> HIDE DEF n
      <4>3. \A i \in 1 .. n + 1 : i = 1 \/ i \in 2 .. n + 1
        BY <2>1 DEF n
      <4>4. \A i \in 2 .. n + 1 : actions'[i].time \in Int /\ actions'[i].time <= clock
        BY <2>1, <4>2 DEF n
      <4>5. \A i \in 1 .. n + 1 : actions'[i].time <= clock'
        BY <1>2, <1>4, <4>1, <4>3, <4>4
      <4>6. ASSUME NEW i \in 1 .. n + 1, NEW j \in 1 .. n + 1,
                   actions'[i].time = actions'[j].time
            PROVE  i = j
        <5>1. CASE i = 1 /\ j \in 2 .. n + 1
          BY <1>4, <4>1, <4>4, <4>6, <5>1
        <5>2. CASE j = 1 /\ i \in 2 .. n + 1
          BY <1>4, <4>1, <4>4, <4>6, <5>2
        <5>3. CASE i \in 2 .. n + 1 /\ j \in 2 .. n + 1
          <6>1. /\ i - 1 \in 1 .. n /\ j - 1 \in 1 .. n
                /\ actions[i - 1].time = actions[j - 1].time
            BY <4>2, <4>6, <5>3
          <6>2. i - 1 = j - 1
            BY <2>1, <6>1 DEF n
          <6> QED
            BY <5>3, <6>2
        <5> QED
          BY <4>3, <5>1, <5>2, <5>3
      <4> QED
        BY <4>1, <4>5, <4>6
    <3>2. CASE ~ NewestFirst
      <4>1. /\ Len(actions') = n + 1 /\ actions'[n + 1] = a
            /\ \A i \in 1 .. n : actions'[i] = actions[i]
        BY <1>3, <1>4, <3>2 DEF Put
      <4>2. \A i \in 1 .. n + 1 : i = n + 1 \/ i \in 1 .. n
        BY <2>1
      <4>3. \A i \in 1 .. n : actions'[i].time \in Int /\ actions'[i].time <= clock
        BY <2>1, <4>1
      <4>4. \A i \in 1 .. n + 1 : actions'[i].time <= clock'
        BY <1>2, <1>4, <4>1, <4>2, <4>3
      <4>5. ASSUME NEW i \in 1 .. n + 1, NEW j \in 1 .. n + 1,
                   actions'[i].time = actions'[j].time
            PROVE  i = j
        <5>1. CASE i = n + 1 /\ j \in 1 .. n
          BY <1>4, <4>1, <4>3, <4>5, <5>1
        <5>2. CASE j = n + 1 /\ i \in 1 .. n
          BY <1>4, <4>1, <4>3, <4>5, <5>2
        <5>3. CASE i \in 1 .. n /\ j \in 1 .. n
          BY <2>1, <4>1, <4>5, <5>3
        <5> QED
          BY <4>2, <5>1, <5>2, <5>3
      <4> QED
        BY <4>1, <4>4, <4>5
    <3> QED
      BY <3>1, <3>2
  <2> QED
    BY <1>1, <1>2, <2>2 DEF StockBase, StockPhases
<1>8. Ids'
  <2>1. \A c \in ToSet(actions') : c = a \/ c \in ToSet(actions)
    BY <1>5
  <2>2. a.kind = "spinoff" => a.id = count + 1 /\ a.id \notin Acquired(buys)
    BY <1>1, <1>4, StockBaseIs DEF Acquired
  <2>3. \A c \in ToSet(actions) : c.kind = "spinoff" =>
          c.id \in Nat /\ c.id <= count /\ c.id \notin Acquired(buys)
    BY <1>1, StockBaseIs
  <2>4. \A b \in ToSet(buys') : b.id <= count'
    BY <1>1, <1>2, <1>3, <1>4, StockBaseIs
  <2>5. \A c \in ToSet(actions') : c.kind = "spinoff" => c.id <= count' /\ c.id \notin Acquired(buys')
    BY <1>2, <1>3, <1>4, <2>1, <2>2, <2>3
  <2>6. \A c, d \in ToSet(actions') :
          c.kind = "spinoff" /\ d.kind = "spinoff" /\ c.id = d.id => c = d
    BY <1>1, <1>4, <2>1, <2>2, <2>3 DEF StockBase, Ids
  <2> QED
    BY <2>4, <2>5, <2>6 DEF Ids
<1>9. LosesNothing
  BY <1>3 DEF LosesNothing, Lost
<1> QED
  BY <1>2, <1>6, <1>7, <1>8, <1>9 DEF IInv, StockBase, LosesNothing


(* The time and the number of what happens next.                            *)
LEMMA NextEvent ==
  ASSUME StockBase, NEW a, Occurs(a)
  PROVE  /\ clock + 1 \in 1 .. MaxEvents /\ count + 1 \in 1 .. MaxEvents
         /\ count' = count + 1 /\ MaxEvents \in Nat
BY StockFifoAssumption DEF StockBase, Clocks, Occurs, Happens

(* A spinoff is written to the list of corporate actions.                   *)
LEMMA SpinoffKeeps ==
  ASSUME IInv, NEW s \in Symbol, NEW n \in Quantities, Spinoff(s, n)
  PROVE  IInv' /\ LosesNothing
<1> DEFINE a == [kind |-> "spinoff", time |-> clock + 1, id |-> count + 1, symbol |-> s,
                 qty |-> n * Scale]
<1>1. StockBase /\ Occurs(a) /\ Ledger!Acquire(s, count', n * Scale)
  BY DEF IInv, Spinoff
<1>2. clock + 1 \in 1 .. MaxEvents /\ count + 1 \in 1 .. MaxEvents
  <2> HIDE DEF a
  <2> QED
    BY <1>1, NextEvent
<1>3. n * Scale \in Nat \ {0} /\ n * Scale \in Nat
  BY StockFifoAssumption
<1>4. a \in Actions /\ a.time = clock + 1 /\ a.id = count + 1
  BY <1>2, <1>3 DEF Actions
<1>5. LedgerTypes'
  <2> DEFINE q == n * Scale
  <2>1. q \in Nat /\ Ledger!Acquire(s, count', q) /\ LedgerTypes
    BY <1>1, <1>3 DEF StockBase
  <2> HIDE DEF q
  <2> QED
    BY <2>1, AcquireTypes
<1> HIDE DEF a
<1> QED
  BY <1>1, <1>4, <1>5, OccursKeeps

(* So is a delisting,                                                       *)
LEMMA DelistingKeeps ==
  ASSUME IInv, NEW s \in Symbol, Delisting(s)
  PROVE  IInv' /\ LosesNothing
<1> DEFINE q == Held(s)
           a == [kind |-> "delisting", time |-> clock + 1, id |-> count + 1, symbol |-> s,
                 qty |-> q]
<1>1. StockBase /\ Occurs(a) /\ Ledger!Dispose(s, count', q) /\ q > 0
  BY DEF IInv, Delisting
<1>2. q \in Nat /\ LedgerTypes
  BY <1>1, HeldIsNumber DEF StockBase
<1> HIDE DEF q
<1>3. clock + 1 \in 1 .. MaxEvents /\ count + 1 \in 1 .. MaxEvents
  <2> HIDE DEF a
  <2> QED
    BY <1>1, NextEvent
<1>4. a \in Actions /\ a.time = clock + 1 /\ a.kind # "spinoff"
  BY <1>1, <1>2, <1>3 DEF Actions
<1>5. LedgerTypes'
  BY <1>1, <1>2, DisposeTypes
<1> HIDE DEF a
<1> QED
  BY <1>1, <1>4, <1>5, OccursKeeps

(* a rename,                                                                *)
LEMMA RenameSymbolKeeps ==
  ASSUME IInv, NEW s \in Symbol, NEW t \in Symbol, RenameSymbol(s, t)
  PROVE  IInv' /\ LosesNothing
<1> DEFINE a == [kind |-> "rename", time |-> clock + 1, symbol |-> s, to |-> t]
<1>1. StockBase /\ Occurs(a) /\ Ledger!RenameLots(s, t)
  BY DEF IInv, RenameSymbol
<1>2. clock + 1 \in 1 .. MaxEvents
  <2> HIDE DEF a
  <2> QED
    BY <1>1, NextEvent
<1>3. a \in Actions /\ a.time = clock + 1 /\ a.kind # "spinoff"
  BY <1>2 DEF Actions
<1>4. LedgerTypes'
  BY <1>1, RenameLotsTypes DEF StockBase
<1> HIDE DEF a
<1> QED
  BY <1>1, <1>3, <1>4, OccursKeeps

(* and a split, whose new quantity is a number of shares.                   *)
LEMMA SplitKeeps ==
  ASSUME IInv, NEW s \in Symbol, NEW ratio \in Ratios, NEW reported \in BOOLEAN,
         Split(s, ratio, reported)
  PROVE  IInv' /\ LosesNothing
<1> DEFINE q == (Held(s) * ratio[2]) \div ratio[1]
           deposit == IF reported THEN q ELSE 0
           a == [kind |-> "split", time |-> clock + 1, symbol |-> s, ratio |-> ratio,
                 deposit |-> deposit]
<1>1. /\ StockBase /\ Occurs(a)
      /\ Ledger!SplitLots(s, ratio[2]) \/ Ledger!PoolLots(s, q)
  BY DEF IInv, Split
<1>2. ratio \in (Nat \ {0}) \X (Nat \ {0}) /\ ratio[1] \in Nat \ {0} /\ ratio[2] \in Nat
  BY StockFifoAssumption
<1>3. q \in Nat
  <2>1. Held(s) \in Nat
    BY <1>1, HeldIsNumber DEF StockBase
  <2>2. \A x, y \in Nat, z \in Nat \ {0} : (x * y) \div z \in Nat
    <3>1. \A x, y \in Nat : x * y \in Nat
      OBVIOUS
    <3>2. \A x \in Nat, z \in Nat \ {0} : x \div z \in Nat
      OBVIOUS
    <3> QED
      BY <3>1, <3>2
  <2> QED
    BY <1>2, <2>1, <2>2
<1> HIDE DEF q
<1>4. deposit \in Nat
  BY <1>3
<1> HIDE DEF deposit
<1>5. clock + 1 \in 1 .. MaxEvents
  <2> HIDE DEF a
  <2> QED
    BY <1>1, NextEvent
<1>6. a \in Actions /\ a.time = clock + 1 /\ a.kind # "spinoff"
  BY <1>2, <1>4, <1>5 DEF Actions
<1>7. LedgerTypes'
  BY <1>1, <1>2, <1>3, SplitLotsTypes, PoolLotsTypes DEF StockBase
<1> HIDE DEF a
<1> QED
  BY <1>1, <1>6, <1>7, OccursKeeps


-----------------------------------------------------------------------------
(* Loading.                                                                 *)

(* Sorting changes neither the items of the lists nor what they add up to.  *)
LEMMA SortedLots ==
  ASSUME NEW list \in Seq(Lots)
  PROVE  /\ InOrder(list) \in Seq(Lots) /\ ToSet(InOrder(list)) = ToSet(list)
         /\ \A e \in Event : WeightOf(InOrder(list), KeptBy(e)) = WeightOf(list, KeptBy(e))
<1>1. \A x \in Lots : x.time \in Int
  BY StockFifoAssumption DEF Lots, Buy, Never
<1>2. InOrder(list) \in Seq(Lots) /\ ToSet(InOrder(list)) = ToSet(list)
  <2> DEFINE w == [x \in Lots |-> 0]
  <2>1. w \in [Lots -> Nat]
    OBVIOUS
  <2> HIDE DEF w
  <2> QED
    BY <1>1, <2>1, WeightOfSorted
<1>3. ASSUME NEW e \in Event
      PROVE  WeightOf(InOrder(list), KeptBy(e)) = WeightOf(list, KeptBy(e))
  BY <1>1, KeptIs, WeightOfSorted
<1> QED
  BY <1>2, <1>3

(* The sells are sorted.                                                    *)
LEMMA SortedSales ==
  ASSUME NEW list \in Seq(Sales)
  PROVE  /\ InOrder(list) \in Seq(Sales) /\ ToSet(InOrder(list)) = ToSet(list)
         /\ \A e \in Event : WeightOf(InOrder(list), UsedBy(e)) = WeightOf(list, UsedBy(e))
<1>1. \A x \in Sales : x.time \in Int
  BY StockFifoAssumption DEF Sales, Sell, Never
<1>2. InOrder(list) \in Seq(Sales) /\ ToSet(InOrder(list)) = ToSet(list)
  <2> DEFINE w == [x \in Sales |-> 0]
  <2>1. w \in [Sales -> Nat]
    OBVIOUS
  <2> HIDE DEF w
  <2> QED
    BY <1>1, <2>1, WeightOfSorted
<1>3. ASSUME NEW e \in Event
      PROVE  WeightOf(InOrder(list), UsedBy(e)) = WeightOf(list, UsedBy(e))
  BY <1>1, KeptIs, WeightOfSorted
<1> QED
  BY <1>2, <1>3

(* What happens at different times is put in the strict order of the times. *)
LEMMA SortedActions ==
  ASSUME NEW list \in Seq(Actions),
         \A i, j \in 1 .. Len(list) : list[i].time = list[j].time => i = j
  PROVE  /\ InOrder(list) \in Seq(Actions) /\ ToSet(InOrder(list)) = ToSet(list)
         /\ \A i, j \in 1 .. Len(InOrder(list)) :
              i < j => InOrder(list)[i].time < InOrder(list)[j].time
<1>1. \A x \in Actions : x.time \in Int
  BY StockFifoAssumption DEF Actions
<1>2. InOrder(list) \in Seq(Actions) /\ ToSet(InOrder(list)) = ToSet(list)
  <2> DEFINE w == [x \in Actions |-> 0]
  <2>1. w \in [Actions -> Nat]
    OBVIOUS
  <2> HIDE DEF w
  <2> QED
    BY <1>1, <2>1, WeightOfSorted
<1> DEFINE n == Len(list)
<1>3. /\ n \in Nat /\ Len(InOrder(list)) = n /\ Timed(list, n)
      /\ \A k \in 1 .. n : Nth(list, k) \in 1 .. n /\ InOrder(list)[k] = list[Nth(list, k)]
  <2>1. n \in Nat
    OBVIOUS
  <2> HIDE DEF n
  <2> QED
    BY <1>1, <2>1, SortedList DEF n
<1>4. ASSUME NEW i \in 1 .. n, NEW j \in 1 .. n, i < j
      PROVE  InOrder(list)[i].time < InOrder(list)[j].time
  <2> HIDE DEF n
  <2>1. Before(list, Nth(list, i), Nth(list, j))
    BY <1>3, <1>4, NthIsRanked
  <2>2. Nth(list, i) \in 1 .. n /\ Nth(list, j) \in 1 .. n
    BY <1>3
  <2>3. ~ (list[Nth(list, i)].time = list[Nth(list, j)].time)
    <3>1. list[Nth(list, i)].time = list[Nth(list, j)].time => Nth(list, i) = Nth(list, j)
      BY <2>2 DEF n
    <3>2. ~ (list[Nth(list, i)].time = list[Nth(list, j)].time /\ Nth(list, i) = Nth(list, j))
      <4> DEFINE x == Nth(list, i)
                 y == Nth(list, j)
      <4>1. Before(list, x, y) /\ x \in 1 .. n /\ y \in 1 .. n /\ list[x].time \in Int
        BY <1>3, <2>1, <2>2 DEF Timed
      <4> HIDE DEF x, y
      <4>2. x = y => FALSE
        BY <4>1 DEF Before
      <4> QED
        BY <4>2 DEF x, y
    <3> QED
      BY <2>1, <3>1, <3>2 DEF Before
  <2> QED
    BY <1>3, <2>1, <2>3 DEF Before
<1> QED
  BY <1>2, <1>3, <1>4

(* Sorting the statement neither adds nor loses anything.                   *)
LEMMA LoadKeeps ==
  ASSUME IInv, Load
  PROVE  IInv' /\ LosesNothing
<1>1. /\ StockBase /\ stage = "trading" /\ stage' = "acting" /\ splits' = splits
      /\ until' = until /\ clock' = clock /\ count' = count /\ holding' = holding
      /\ buys' = InOrder(buys) /\ sells' = InOrder(sells) /\ actions' = InOrder(actions)
      /\ positions' = [s \in Symbol |-> Held(s)]
  BY DEF IInv, Load
<1>2. /\ buys \in Seq(Lots) /\ sells \in Seq(Sales) /\ actions \in Seq(Actions)
      /\ \A i, j \in 1 .. Len(actions) : actions[i].time = actions[j].time => i = j
  BY <1>1, StockBaseIs DEF StockBase, StockPhases
<1>3. buys' \in Seq(Lots) /\ ToSet(buys') = ToSet(buys)
  BY <1>1, <1>2, SortedLots
<1>4. sells' \in Seq(Sales) /\ ToSet(sells') = ToSet(sells)
  BY <1>1, <1>2, SortedSales
<1>5. /\ actions' \in Seq(Actions) /\ ToSet(actions') = ToSet(actions)
      /\ \A i, j \in 1 .. Len(actions') : i < j => actions'[i].time < actions'[j].time
  BY <1>1, <1>2, SortedActions
<1>6. positions' \in [Symbol -> Nat]
  <2>1. \A s \in Symbol : Held(s) \in Nat
    BY <1>1, HeldIsNumber DEF StockBase
  <2> HIDE DEF Held
  <2> QED
    BY <1>1, <2>1
<1>7. LedgerTypes' /\ Clocks'
  BY <1>1 DEF StockBase, LedgerTypes, Clocks
<1>8. Lists'
  BY <1>1, <1>3, <1>4, <1>5, <1>6 DEF StockBase, Lists, Never
<1>9. StockPhases'
  <2>1. \A s \in Symbol : splits'[s] = {}
    BY <1>1 DEF StockBase, StockPhases
  <2>2. until' = Never
    BY <1>1 DEF StockBase, StockPhases
  <2> QED
    BY <1>1, <1>5, <2>1, <2>2 DEF StockPhases, Never
<1>10. Ids'
  BY <1>1, <1>3, <1>5 DEF StockBase, Ids, Acquired
<1>11. LosesNothing
  <2>1. Acquired(buys') = Acquired(buys)
    BY <1>3 DEF Acquired
  <2>2. \A e \in Event : /\ WeightOf(buys', KeptBy(e)) = WeightOf(buys, KeptBy(e))
                         /\ WeightOf(sells', UsedBy(e)) = WeightOf(sells, UsedBy(e))
    BY <1>1, <1>2, SortedLots, SortedSales
  <2> QED
    BY <2>1, <2>2 DEF LosesNothing, Lost
<1> QED
  BY <1>7, <1>8, <1>9, <1>10, <1>11 DEF IInv, StockBase, LosesNothing


-----------------------------------------------------------------------------
(* Corporate actions.                                                       *)

(* The first action is the earliest one.                                    *)
LEMMA FirstAction ==
  ASSUME StockBase, stage # "trading", actions # <<>>
  PROVE  /\ Head(actions) \in Actions /\ Head(actions) \in ToSet(actions)
         /\ Head(actions).time \in 1 .. MaxEvents
         /\ Tail(actions) \in Seq(Actions) /\ ToSet(Tail(actions)) \subseteq ToSet(actions)
         /\ \A a \in ToSet(Tail(actions)) : Head(actions).time < a.time
         /\ \A i \in 1 .. Len(Tail(actions)) : Head(actions).time < Tail(actions)[i].time
         /\ \A i, j \in 1 .. Len(Tail(actions)) :
              i < j => Tail(actions)[i].time < Tail(actions)[j].time
         /\ \A s \in Symbol : \A d \in splits[s] : d[1] < Head(actions).time
<1> DEFINE n == Len(actions)
           D == 1 .. n
           T == 1 .. n - 1
<1>1. /\ actions \in Seq(Actions) /\ n \in Nat /\ n > 0
      /\ DOMAIN actions = D /\ \A i \in D : actions[i] \in Actions
      /\ \A i, j \in D : i < j => actions[i].time < actions[j].time
      /\ \A s \in Symbol : \A d \in splits[s] : \A i \in D : d[1] < actions[i].time
  <2>1. actions \in Seq(Actions)
    BY StockBaseIs
  <2>2. n \in Nat /\ n > 0 /\ DOMAIN actions = D /\ \A i \in D : actions[i] \in Actions
    BY <2>1
  <2> QED
    BY <2>1, <2>2 DEF StockBase, StockPhases
<1>2. /\ Head(actions) = actions[1] /\ 1 \in D
      /\ Tail(actions) \in Seq(Actions) /\ Len(Tail(actions)) = n - 1
      /\ DOMAIN Tail(actions) = T
      /\ \A i \in T : Tail(actions)[i] = actions[i + 1] /\ i + 1 \in D /\ 1 < i + 1
  <2>1. Head(actions) = actions[1] /\ 1 \in D
    BY <1>1
  <2>2. /\ Tail(actions) \in Seq(Actions) /\ Len(Tail(actions)) = n - 1
        /\ DOMAIN Tail(actions) = T
        /\ \A i \in T : Tail(actions)[i] = actions[i + 1]
    BY <1>1, HeadTailProperties
  <2>3. \A i \in T : i + 1 \in D /\ 1 < i + 1
    BY <1>1
  <2> QED
    BY <2>1, <2>2, <2>3
<1>3. \A i, j \in T : i < j => i + 1 < j + 1
  OBVIOUS
<1> HIDE DEF n, D, T
<1>4. \A i \in T : Head(actions).time < Tail(actions)[i].time
  BY <1>1, <1>2
<1>5. \A i, j \in T : i < j => Tail(actions)[i].time < Tail(actions)[j].time
  BY <1>1, <1>2, <1>3
<1>6. ToSet(Tail(actions)) \subseteq ToSet(actions) /\ Head(actions) \in ToSet(actions)
  BY <1>1, <1>2 DEF ToSet
<1>7. \A a \in ToSet(Tail(actions)) : Head(actions).time < a.time
  BY <1>2, <1>4 DEF ToSet
<1>8. T = 1 .. Len(Tail(actions))
  BY <1>2 DEF T
<1>9. Head(actions) \in Actions /\ Head(actions).time \in 1 .. MaxEvents
  BY <1>1, <1>2 DEF Actions
<1> QED
  BY <1>1, <1>2, <1>4, <1>5, <1>6, <1>7, <1>8, <1>9

(* When it is processed the next one is to be processed.                    *)
LEMMA NextAction ==
  ASSUME StockBase, stage # "trading", actions # <<>>, actions' = Tail(actions),
         stage' = "acting", until' = Never,
         \A s \in Symbol : \A d \in splits'[s] :
           d[1] \in Int /\ d[1] <= Head(actions).time
  PROVE  StockPhases' /\ actions' \in Seq(Actions) /\ ToSet(actions') \subseteq ToSet(actions)
<1>1. /\ Head(actions).time \in Int
      /\ actions' \in Seq(Actions) /\ ToSet(actions') \subseteq ToSet(actions)
      /\ \A i \in 1 .. Len(actions') : Head(actions).time < actions'[i].time
      /\ \A i, j \in 1 .. Len(actions') : i < j => actions'[i].time < actions'[j].time
  <2>1. Head(actions).time \in 1 .. MaxEvents
    BY FirstAction
  <2> QED
    BY <2>1, FirstAction
<1>2. \A i \in 1 .. Len(actions') : actions'[i].time \in Int
  BY <1>1, ActionIs
<1>3. \A s \in Symbol : \A d \in splits'[s] : \A i \in 1 .. Len(actions') :
        d[1] < actions'[i].time
  BY <1>1, <1>2
<1> QED
  BY <1>1, <1>3 DEF StockPhases, Never


(* What a corporate action says.                                            *)
LEMMA ActionFields ==
  ASSUME NEW a \in Actions
  PROVE  /\ a.symbol \in Symbol /\ a.time \in 1 .. MaxEvents
         /\ a.time \in 1 .. Never /\ a.time \in Nat
         /\ a.kind \in {"spinoff", "delisting"} =>
              a.id \in 1 .. MaxEvents /\ a.id \in Event /\ a.qty \in Nat \ {0}
         /\ a.kind = "rename" => a.to \in Symbol
         /\ a.kind = "split" =>
              a.ratio[1] \in Nat \ {0} /\ a.ratio[2] \in Nat \ {0} /\ a.deposit \in Nat
BY StockFifoAssumption DEF Actions, Never, Event

(* The free shares become a purchase.                                       *)
LEMMA ProcessSpinoffKeeps ==
  ASSUME IInv, ProcessSpinoff
  PROVE  IInv' /\ LosesNothing
<1> DEFINE a == Head(actions)
           b == NewBuy(a.id, a.symbol, a.time, a.qty, Ledger!Whole(a.id), FALSE)
<1>1. /\ StockBase /\ stage = "acting" /\ stage' = "acting" /\ actions # <<>>
      /\ a.kind = "spinoff"
      /\ buys' = InOrder(Append(buys, b)) /\ actions' = Tail(actions)
      /\ holding' = holding /\ clock' = clock /\ count' = count /\ sells' = sells
      /\ splits' = splits /\ positions' = positions /\ until' = until
  BY DEF IInv, ProcessSpinoff, Processing
<1>2. a \in Actions /\ a \in ToSet(actions)
  BY <1>1, FirstAction
<1>3. /\ a.id \in 0 .. MaxEvents /\ a.id \in Event /\ a.symbol \in Symbol
      /\ a.time \in 1 .. Never /\ a.qty \in Nat \ {0} /\ a.id \in Nat
      /\ a.id <= count /\ a.id \notin Acquired(buys)
  <2> HIDE DEF a
  <2>1. a.id \in 1 .. MaxEvents
    BY <1>1, <1>2, ActionFields
  <2>2. a.id \in 0 .. MaxEvents
    BY <2>1, StockFifoAssumption
  <2> QED
    BY <1>1, <1>2, <2>1, <2>2, ActionFields, StockBaseIs
<1>4. /\ b \in Lots /\ b.id = a.id
      /\ \A e \in Event : KeptBy(e)[b] = IF e = a.id THEN Unit ELSE 0
  <2> DEFINE id == a.id
             q == a.qty
             origin == Ledger!Whole(id)
             time == a.time
             s == a.symbol
  <2>1. /\ id \in 0 .. MaxEvents /\ s \in Symbol /\ time \in 1 .. Never /\ q \in Nat \ {0}
        /\ origin \in Origins /\ FALSE \in BOOLEAN
        /\ \A e \in Event : origin[e] = IF e = id THEN Unit ELSE 0
    BY <1>3, WholeIs
  <2>2. b.id = id
    BY DEF NewBuy
  <2> HIDE DEF id, q, origin, time, s
  <2>3. /\ NewBuy(id, s, time, q, origin, FALSE) \in Lots
        /\ \A e \in Event : KeptBy(e)[NewBuy(id, s, time, q, origin, FALSE)] = origin[e]
    BY <2>1, NewBuyIs
  <2> QED
    BY <2>1, <2>2, <2>3 DEF id, q, origin, time, s
<1> HIDE DEF b
<1>5. buys \in Seq(Lots) /\ sells \in Seq(Sales) /\ count \in Nat
  BY <1>1, StockBaseIs
<1>6. /\ Append(buys, b) \in Seq(Lots) /\ ToSet(Append(buys, b)) = ToSet(buys) \cup {b}
      /\ \A e \in Event :
           WeightOf(Append(buys, b), KeptBy(e)) = WeightOf(buys, KeptBy(e)) + KeptBy(e)[b]
  <2>1. Append(buys, b) \in Seq(Lots) /\ ToSet(Append(buys, b)) = ToSet(buys) \cup {b}
    <3> DEFINE w == [x \in Lots |-> 0]
    <3>1. w \in [Lots -> Nat]
      OBVIOUS
    <3> HIDE DEF w
    <3> QED
      BY <1>4, <1>5, <3>1, WeightOfAppended
  <2>2. ASSUME NEW e \in Event
        PROVE  WeightOf(Append(buys, b), KeptBy(e)) = WeightOf(buys, KeptBy(e)) + KeptBy(e)[b]
    <3>1. KeptBy(e) \in [Lots -> Nat]
      BY KeptIs
    <3> QED
      BY <1>4, <1>5, <3>1, WeightOfAppended
  <2> QED
    BY <2>1, <2>2
<1>7. /\ buys' \in Seq(Lots) /\ ToSet(buys') = ToSet(buys) \cup {b}
      /\ \A e \in Event : WeightOf(buys', KeptBy(e)) = WeightOf(buys, KeptBy(e)) + KeptBy(e)[b]
  <2> DEFINE list == Append(buys, b)
  <2> HIDE DEF list
  <2>1. /\ InOrder(list) \in Seq(Lots) /\ ToSet(InOrder(list)) = ToSet(list)
        /\ \A e \in Event : WeightOf(InOrder(list), KeptBy(e)) = WeightOf(list, KeptBy(e))
    BY <1>6, SortedLots DEF list
  <2> QED
    BY <1>1, <1>6, <2>1 DEF list
<1>8. StockPhases' /\ actions' \in Seq(Actions) /\ ToSet(actions') \subseteq ToSet(actions)
  <2>1. until' = Never
    BY <1>1 DEF StockBase, StockPhases
  <2>2. \A s \in Symbol : \A d \in splits'[s] : d[1] \in Int /\ d[1] <= a.time
    <3>1. \A s \in Symbol : \A d \in splits[s] : d[1] < a.time
      BY <1>1, FirstAction
    <3>2. \A s \in Symbol : \A d \in splits[s] : d[1] \in Int
      BY <1>1 DEF StockBase, Lists
    <3>3. a.time \in Int
      BY <1>3
    <3> HIDE DEF a
    <3> QED
      BY <1>1, <3>1, <3>2, <3>3
  <2> QED
    BY <1>1, <2>1, <2>2, NextAction
<1>9. LedgerTypes' /\ Clocks'
  BY <1>1 DEF StockBase, LedgerTypes, Clocks
<1>10. Lists'
  BY <1>1, <1>7, <1>8 DEF StockBase, Lists
<1>11. Acquired(buys') = Acquired(buys) \cup {a.id}
  BY <1>4, <1>7 DEF Acquired
<1>12. Ids'
  <2>1. \A c \in ToSet(buys') : c.id <= count'
    BY <1>1, <1>3, <1>4, <1>7 DEF StockBase, Ids
  <2>2. ASSUME NEW c \in ToSet(actions'), c.kind = "spinoff"
        PROVE  c.id <= count' /\ c.id \notin Acquired(buys')
    <3>1. c \in ToSet(actions) /\ c.id <= count /\ c.id \notin Acquired(buys)
      BY <1>1, <1>8, <2>2 DEF StockBase, Ids
    <3>2. a.time < c.time
      BY <1>1, <2>2, FirstAction
    <3>3. c # a
      BY <1>3, <3>2
    <3>4. c.id # a.id
      BY <1>1, <1>2, <2>2, <3>1, <3>3 DEF StockBase, Ids
    <3> QED
      BY <1>1, <1>11, <3>1, <3>4
  <2>3. \A c, d \in ToSet(actions') :
          c.kind = "spinoff" /\ d.kind = "spinoff" /\ c.id = d.id => c = d
    BY <1>1, <1>8 DEF StockBase, Ids
  <2> QED
    BY <2>1, <2>2, <2>3 DEF Ids
<1>13. LosesNothing
  <2>1. SUFFICES ASSUME NEW e \in Event
                 PROVE  Lost(buys', sells', e) = Lost(buys, sells, e)
    BY DEF LosesNothing
  <2>3. WeightOf(buys, KeptBy(e)) \in Nat /\ WeightOf(sells, UsedBy(e)) \in Nat
    BY <1>5, KeptIs, Weighing DEF Weighed
  <2> HIDE DEF a
  <2>4. WeightOf(buys', KeptBy(e))
          = WeightOf(buys, KeptBy(e)) + (IF e = a.id THEN Unit ELSE 0)
    BY <1>4, <1>7
  <2>5. (e \in Acquired(buys')) <=> (e \in Acquired(buys) \/ e = a.id)
    BY <1>11
  <2>6. sells' = sells /\ a.id \notin Acquired(buys) /\ Unit \in Nat
    BY <1>1, <1>3, StockFifoAssumption
  <2> QED
    BY ONLY <2>3, <2>4, <2>5, <2>6 DEF Lost
<1> QED
  BY <1>9, <1>8, <1>10, <1>12, <1>13 DEF IInv, StockBase, LosesNothing


(* No purchase but the exchange of a position appears.                      *)
LEMMA NoNewIds ==
  ASSUME StockBase, ToSet(actions') \subseteq ToSet(actions), count <= count', count' \in Nat,
         Acquired(buys') \subseteq Acquired(buys) \cup {0}
  PROVE  Ids'
<1>1. count \in Nat /\ \A x \in Acquired(buys) : x \in Nat /\ x <= count
  BY StockBaseIs DEF Acquired
<1>2. \A c \in ToSet(buys') : c.id <= count'
  <2>1. \A c \in ToSet(buys') : c.id \in Acquired(buys) \cup {0}
    BY DEF Acquired
  <2> QED
    BY <1>1, <2>1
<1>3. \A a \in ToSet(actions) : a.kind = "spinoff" =>
        a.id \in Nat /\ a.id # 0 /\ a.id <= count /\ a.id \notin Acquired(buys)
  BY StockBaseIs
<1>4. \A a \in ToSet(actions') :
        a.kind = "spinoff" => a.id <= count' /\ a.id \notin Acquired(buys')
  BY <1>1, <1>3
<1>5. \A c, d \in ToSet(actions') :
        c.kind = "spinoff" /\ d.kind = "spinoff" /\ c.id = d.id => c = d
  BY DEF StockBase, Ids
<1> QED
  BY <1>2, <1>4, <1>5 DEF Ids

(* The shares that are taken away become a sale, which is not matched yet.  *)
LEMMA ProcessDelistingKeeps ==
  ASSUME IInv, ProcessDelisting
  PROVE  IInv' /\ LosesNothing
<1> DEFINE a == Head(actions)
           b == NewSell(a.id, a.symbol, a.time, a.qty, FALSE)
<1>1. /\ StockBase /\ stage = "acting" /\ stage' = "acting" /\ actions # <<>>
      /\ a.kind = "delisting"
      /\ sells' = InOrder(Append(sells, b)) /\ actions' = Tail(actions)
      /\ holding' = holding /\ clock' = clock /\ count' = count /\ buys' = buys
      /\ splits' = splits /\ positions' = positions /\ until' = until
  BY DEF IInv, ProcessDelisting, Processing
<1>2. a \in Actions /\ a \in ToSet(actions)
  BY <1>1, FirstAction
<1>3. /\ a.id \in Event /\ a.symbol \in Symbol
      /\ a.time \in 1 .. Never /\ a.qty \in Nat \ {0} /\ a.time \in Int
  <2> HIDE DEF a
  <2> QED
    BY <1>1, <1>2, ActionFields
<1>4. b \in Sales /\ \A e \in Event : UsedBy(e)[b] = 0
  <2> DEFINE id == a.id
             s == a.symbol
             time == a.time
             q == a.qty
  <2>1. id \in Event /\ s \in Symbol /\ time \in 1 .. Never /\ q \in Nat \ {0}
    BY <1>3
  <2> HIDE DEF id, s, time, q
  <2>2. /\ NewSell(id, s, time, q, FALSE) \in Sales
        /\ \A e \in Event : UsedBy(e)[NewSell(id, s, time, q, FALSE)] = 0
    BY <2>1, NewSellIs
  <2> QED
    BY <2>2 DEF id, s, time, q
<1> HIDE DEF b
<1>5. buys \in Seq(Lots) /\ sells \in Seq(Sales) /\ count \in Nat
  BY <1>1, StockBaseIs
<1>6. /\ Append(sells, b) \in Seq(Sales)
      /\ \A e \in Event : WeightOf(Append(sells, b), UsedBy(e)) = WeightOf(sells, UsedBy(e))
  <2>1. Append(sells, b) \in Seq(Sales)
    BY <1>4, <1>5, AppendProperties
  <2>2. ASSUME NEW e \in Event
        PROVE  WeightOf(Append(sells, b), UsedBy(e)) = WeightOf(sells, UsedBy(e))
    <3>1. UsedBy(e) \in [Sales -> Nat]
      BY KeptIs
    <3>2. WeightOf(Append(sells, b), UsedBy(e)) = WeightOf(sells, UsedBy(e)) + UsedBy(e)[b]
      BY <1>4, <1>5, <3>1, WeightOfAppended
    <3>3. WeightOf(sells, UsedBy(e)) \in Nat
      BY <1>5, <3>1, Weighing DEF Weighed
    <3> QED
      BY <1>4, <3>2, <3>3
  <2> QED
    BY <2>1, <2>2
<1>7. /\ sells' \in Seq(Sales)
      /\ \A e \in Event : WeightOf(sells', UsedBy(e)) = WeightOf(sells, UsedBy(e))
  <2> DEFINE list == Append(sells, b)
  <2> HIDE DEF list
  <2>1. /\ InOrder(list) \in Seq(Sales)
        /\ \A e \in Event : WeightOf(InOrder(list), UsedBy(e)) = WeightOf(list, UsedBy(e))
    BY <1>6, SortedSales DEF list
  <2> QED
    BY <1>1, <1>6, <2>1 DEF list
<1>8. StockPhases' /\ actions' \in Seq(Actions) /\ ToSet(actions') \subseteq ToSet(actions)
  <2>1. until' = Never
    BY <1>1 DEF StockBase, StockPhases
  <2>2. \A s \in Symbol : \A d \in splits'[s] : d[1] \in Int /\ d[1] <= a.time
    <3>1. \A s \in Symbol : \A d \in splits[s] : d[1] < a.time
      BY <1>1, FirstAction
    <3>2. \A s \in Symbol : \A d \in splits[s] : d[1] \in Int
      BY <1>1 DEF StockBase, Lists
    <3> HIDE DEF a
    <3> QED
      BY <1>1, <1>3, <3>1, <3>2
  <2> QED
    BY <1>1, <2>1, <2>2, NextAction
<1>9. LedgerTypes' /\ Clocks'
  BY <1>1 DEF StockBase, LedgerTypes, Clocks
<1>10. Lists'
  BY <1>1, <1>7, <1>8 DEF StockBase, Lists
<1>11. Ids'
  BY <1>1, <1>5, <1>8, NoNewIds
<1>12. LosesNothing
  BY <1>1, <1>7 DEF LosesNothing, Lost
<1> QED
  BY <1>8, <1>9, <1>10, <1>11, <1>12 DEF IInv, StockBase, LosesNothing

-----------------------------------------------------------------------------
(* The steps that only change the stage.                                    *)
LEMMA StageKeeps ==
  ASSUME IInv, stage # "trading",
         StartComplexSplit \/ StartMatching \/ FinishMatching \/ ProcessEmulated \/ Refuse
  PROVE  IInv' /\ LosesNothing
<1>1. /\ holding' = holding /\ clock' = clock /\ count' = count /\ buys' = buys
      /\ sells' = sells /\ splits' = splits /\ positions' = positions
      /\ actions' = actions /\ StockBase
  BY DEF IInv, StartComplexSplit, StartMatching, FinishMatching, ProcessEmulated, Refuse
<1>2. until' \in 1 .. Never /\ stage' \in {"matching", "splitting", "ready", "failed"}
  <2>1. CASE StartComplexSplit
    <3>1. Head(actions).time \in 1 .. Never
      BY <1>1, <2>1, FirstAction, ActionFields DEF StartComplexSplit, Processing
    <3> QED
      BY <2>1, <3>1 DEF StartComplexSplit
  <2>2. CASE ~ StartComplexSplit
    BY <1>1, <2>2 DEF StockBase, Lists, StartMatching, FinishMatching, ProcessEmulated, Refuse
  <2> QED
    BY <2>1, <2>2
<1>3. LedgerTypes' /\ Clocks' /\ Lists'
  BY <1>1, <1>2 DEF StockBase, LedgerTypes, Clocks, Lists, Never
<1>4. StockPhases'
  <2>1. /\ \A i, j \in 1 .. Len(actions) : i < j => actions[i].time < actions[j].time
        /\ \A s \in Symbol : \A d \in splits[s] : \A i \in 1 .. Len(actions) :
             d[1] < actions[i].time
    BY <1>1 DEF StockBase, StockPhases
  <2>2. stage' \in {"trading", "acting", "ready", "emulated"} => until' = Never
    BY <1>1 DEF StockBase, StockPhases, StartComplexSplit, StartMatching, FinishMatching,
                ProcessEmulated, Refuse
  <2>3. stage' = "splitting" \/ (stage' = "matching" /\ until' # Never) =>
          actions' # <<>> /\ Head(actions').kind = "split"
    BY <1>1 DEF StockBase, StockPhases, StartComplexSplit, Processing, StartMatching, FinishMatching,
                ProcessEmulated, Refuse
  <2> QED
    BY <1>1, <1>2, <2>1, <2>2, <2>3 DEF StockPhases, Never
<1>5. Ids'
  BY <1>1 DEF StockBase, Ids, Acquired
<1>6. LosesNothing
  BY <1>1 DEF LosesNothing, Lost
<1> QED
  BY <1>3, <1>4, <1>5, <1>6 DEF IInv, StockBase, LosesNothing


-----------------------------------------------------------------------------
(* Renames: a trade under another name is the same trade.                   *)
LEMMA RenamedLots ==
  ASSUME NEW list \in Seq(Lots), NEW a, a.to \in Symbol
  PROVE  /\ Renamed(list, a) \in Seq(Lots) /\ Acquired(Renamed(list, a)) = Acquired(list)
         /\ \A e \in Event : WeightOf(Renamed(list, a), KeptBy(e)) = WeightOf(list, KeptBy(e))
<1> DEFINE new == Renamed(list, a)
           n == Len(list)
<1>1. /\ n \in Nat /\ DOMAIN list = 1 .. n /\ \A i \in 1 .. n : list[i] \in Lots
      /\ ToSet(list) = {list[i] : i \in 1 .. n}
  BY DEF ToSet
<1> HIDE DEF n
<1>2. /\ DOMAIN new = 1 .. n
      /\ \A i \in 1 .. n : \/ new[i] = list[i]
                           \/ new[i] = [list[i] EXCEPT !.symbol = a.to]
  BY <1>1 DEF Renamed
<1>3. new = [i \in 1 .. n |-> new[i]]
  BY <1>1 DEF Renamed
<1> HIDE DEF new
<1>4. ASSUME NEW b \in Lots
      PROVE  LET c == [b EXCEPT !.symbol = a.to]
             IN  /\ c \in Lots /\ c.id = b.id /\ c.origin = b.origin
                 /\ c.qty = b.qty /\ c.sold = b.sold
  BY <1>4 DEF Lots, Buy
<1>5. \A i \in 1 .. n : /\ new[i] \in Lots /\ new[i].id = list[i].id
                        /\ new[i].origin = list[i].origin
                        /\ new[i].qty = list[i].qty /\ new[i].sold = list[i].sold
  BY <1>1, <1>2, <1>4
<1>6. new \in Seq(Lots) /\ Len(new) = n
  BY <1>1, <1>3, <1>5
<1>7. ToSet(new) = {new[i] : i \in 1 .. n}
  BY <1>2 DEF ToSet
<1>8. Acquired(new) = Acquired(list)
  <2>1. Acquired(new) = {new[i].id : i \in 1 .. n}
    BY <1>7 DEF Acquired
  <2>2. Acquired(list) = {list[i].id : i \in 1 .. n}
    BY <1>1 DEF Acquired
  <2> QED
    BY <1>5, <2>1, <2>2
<1>9. ASSUME NEW e \in Event
      PROVE  WeightOf(new, KeptBy(e)) = WeightOf(list, KeptBy(e))
  <2> DEFINE w == KeptBy(e)
  <2>1. w \in [Lots -> Nat]
    BY KeptIs
  <2>2. \A i \in 1 .. n : w[new[i]] = w[list[i]]
    BY <1>1, <1>5, KeptIs
  <2> HIDE DEF w
  <2>3. WeightOf(new, w) = WeightOf(list, w)
    BY <1>6, <2>1, <2>2, WeightOfSame DEF n
  <2> QED
    BY <2>3 DEF w
<1> QED
  BY <1>6, <1>8, <1>9 DEF new

(* A sell that is renamed has used what it had used.                        *)
LEMMA RenamedSales ==
  ASSUME NEW list \in Seq(Sales), NEW a, a.to \in Symbol
  PROVE  /\ Renamed(list, a) \in Seq(Sales)
         /\ \A e \in Event : WeightOf(Renamed(list, a), UsedBy(e)) = WeightOf(list, UsedBy(e))
<1> DEFINE new == Renamed(list, a)
           n == Len(list)
<1>1. n \in Nat /\ DOMAIN list = 1 .. n /\ \A i \in 1 .. n : list[i] \in Sales
  OBVIOUS
<1> HIDE DEF n
<1>2. /\ DOMAIN new = 1 .. n
      /\ \A i \in 1 .. n : \/ new[i] = list[i]
                           \/ new[i] = [list[i] EXCEPT !.symbol = a.to]
  BY <1>1 DEF Renamed
<1>3. new = [i \in 1 .. n |-> new[i]]
  BY <1>1 DEF Renamed
<1> HIDE DEF new
<1>4. ASSUME NEW b \in Sales
      PROVE  LET c == [b EXCEPT !.symbol = a.to]
             IN  c \in Sales /\ c.origin = b.origin /\ c.created = b.created
  BY <1>4 DEF Sales, Sell
<1>5. \A i \in 1 .. n : /\ new[i] \in Sales
                        /\ new[i].origin = list[i].origin
                        /\ new[i].created = list[i].created
  BY <1>1, <1>2, <1>4
<1>6. new \in Seq(Sales) /\ Len(new) = n
  BY <1>1, <1>3, <1>5
<1>7. ASSUME NEW e \in Event
      PROVE  WeightOf(new, UsedBy(e)) = WeightOf(list, UsedBy(e))
  <2> DEFINE w == UsedBy(e)
  <2>1. /\ w \in [Sales -> Nat]
        /\ \A s \in Sales : w[s] = IF s.created THEN 0 ELSE s.origin[e]
    BY KeptIs
  <2> HIDE DEF w
  <2>2. \A i \in 1 .. n : w[new[i]] = w[list[i]]
    BY <1>1, <1>5, <2>1
  <2>3. WeightOf(new, w) = WeightOf(list, w)
    BY <1>6, <2>1, <2>2, WeightOfSame DEF n
  <2> QED
    BY <2>3 DEF w
<1> QED
  BY <1>6, <1>7 DEF new

(* Renaming the trades neither adds nor loses anything.                     *)
LEMMA ProcessRenameKeeps ==
  ASSUME IInv, ProcessRename
  PROVE  IInv' /\ LosesNothing
<1> DEFINE a == Head(actions)
<1>1. CASE Refuse
  BY <1>1, StageKeeps DEF ProcessRename, Processing
<1>2. CASE ~ Refuse
  <2>1. /\ StockBase /\ stage = "acting" /\ stage' = "acting" /\ actions # <<>>
        /\ a.kind = "rename"
        /\ buys' = Renamed(buys, a) /\ sells' = Renamed(sells, a)
        /\ splits' = MovedSplits(a.symbol, a.to) /\ actions' = Tail(actions)
        /\ holding' = holding /\ clock' = clock /\ count' = count
        /\ positions' = positions /\ until' = until
    BY <1>2 DEF IInv, ProcessRename, Processing
  <2>2. a.symbol \in Symbol /\ a.to \in Symbol /\ a.time \in Int
    <3>1. a \in Actions
      BY <2>1, FirstAction
    <3> HIDE DEF a
    <3> QED
      BY <2>1, <3>1, ActionFields
  <2> HIDE DEF a
  <2>3. buys \in Seq(Lots) /\ sells \in Seq(Sales) /\ count \in Nat
    BY <2>1, StockBaseIs
  <2>4. /\ buys' \in Seq(Lots) /\ Acquired(buys') = Acquired(buys)
        /\ \A e \in Event : WeightOf(buys', KeptBy(e)) = WeightOf(buys, KeptBy(e))
    BY <2>1, <2>2, <2>3, RenamedLots
  <2>5. /\ sells' \in Seq(Sales)
        /\ \A e \in Event : WeightOf(sells', UsedBy(e)) = WeightOf(sells, UsedBy(e))
    BY <2>1, <2>2, <2>3, RenamedSales
  <2>6. /\ splits \in [Symbol -> SUBSET ((1 .. MaxEvents) \X Exact)]
        /\ \A s \in Symbol : IsFiniteSet(splits[s])
    BY <2>1 DEF StockBase, Lists
  <2>7. /\ splits' \in [Symbol -> SUBSET ((1 .. MaxEvents) \X Exact)]
        /\ \A s \in Symbol : \/ splits'[s] = splits[s]
                             \/ splits'[s] = {}
                             \/ splits'[s] = splits[a.to] \cup splits[a.symbol]
    BY <2>1, <2>2, <2>6 DEF MovedSplits
  <2>8. \A s \in Symbol : IsFiniteSet(splits'[s])
    <3>1. IsFiniteSet(splits[a.to] \cup splits[a.symbol])
      BY <2>2, <2>6, FS_Union
    <3> QED
      BY <2>6, <2>7, <3>1, FS_EmptySet
  <2>9. StockPhases' /\ actions' \in Seq(Actions) /\ ToSet(actions') \subseteq ToSet(actions)
    <3>1. until' = Never
      BY <2>1 DEF StockBase, StockPhases
    <3>2. \A s \in Symbol : \A d \in splits[s] : d[1] \in Int /\ d[1] <= a.time
      <4>1. \A s \in Symbol : \A d \in splits[s] : d[1] < a.time
        BY <2>1, FirstAction DEF a
      <4>2. \A s \in Symbol : \A d \in splits[s] : d[1] \in Int
        BY <2>6
      <4> QED
        BY <2>2, <4>1, <4>2
    <3>3. \A s \in Symbol : \A d \in splits'[s] : d[1] \in Int /\ d[1] <= a.time
      BY <2>2, <2>7, <3>2
    <3> QED
      BY <2>1, <3>1, <3>3, NextAction DEF a
  <2>10. LedgerTypes' /\ Clocks'
    BY <2>1 DEF StockBase, LedgerTypes, Clocks
  <2>11. Lists'
    BY <2>1, <2>4, <2>5, <2>7, <2>8, <2>9 DEF StockBase, Lists
  <2>12. Ids'
    BY <2>1, <2>3, <2>4, <2>9, NoNewIds
  <2>13. LosesNothing
    BY <2>4, <2>5 DEF LosesNothing, Lost
  <2> QED
    BY <2>9, <2>10, <2>11, <2>12, <2>13 DEF IInv, StockBase, LosesNothing
<1> QED
  BY <1>1, <1>2


-----------------------------------------------------------------------------
(* Splits whose divisor is remembered.                                      *)
LEMMA ProcessSimpleSplitKeeps ==
  ASSUME IInv, ProcessSimpleSplit
  PROVE  IInv' /\ LosesNothing
<1> DEFINE a == Head(actions)
           S == WithDivisor(a)
<1>1. CASE Refuse
  BY <1>1, StageKeeps DEF ProcessSimpleSplit, Processing
<1>2. CASE ~ Refuse
  <2>1. /\ StockBase /\ stage = "acting" /\ stage' = "acting" /\ actions # <<>>
        /\ a.kind = "split" /\ Supported(a)
        /\ splits' = [splits EXCEPT ![a.symbol] = S] /\ actions' = Tail(actions)
        /\ holding' = holding /\ clock' = clock /\ count' = count
        /\ buys' = buys /\ sells' = sells
        /\ positions' = positions /\ until' = until
    BY <1>2 DEF IInv, ProcessSimpleSplit, Processing
  <2>2. /\ a.symbol \in Symbol /\ a.time \in 1 .. MaxEvents /\ a.time \in Int
        /\ a.ratio[2] \in Nat \ {0}
    <3>1. a \in Actions
      BY <2>1, FirstAction
    <3> HIDE DEF a
    <3> QED
      BY <2>1, <3>1, ActionFields
  <2>3. /\ splits \in [Symbol -> SUBSET ((1 .. MaxEvents) \X Exact)]
        /\ \A s \in Symbol : IsFiniteSet(splits[s])
        /\ \A s \in Symbol : \A d \in splits[s] : d[1] \in Int /\ d[1] < a.time
    <3>1. \A s \in Symbol : \A d \in splits[s] : d[1] < a.time
      BY <2>1, FirstAction
    <3>2. /\ splits \in [Symbol -> SUBSET ((1 .. MaxEvents) \X Exact)]
          /\ \A s \in Symbol : IsFiniteSet(splits[s])
      BY <2>1 DEF StockBase, Lists
    <3>3. \A s \in Symbol : \A d \in splits[s] : d[1] \in Int
      BY <3>2
    <3> QED
      BY <3>1, <3>2, <3>3
  <2>4. /\ a \in Actions /\ S = splits[a.symbol] \cup {<<a.time, a.ratio[2]>>}
        /\ \A first \in S : DivisorProduct({d \in S : d[1] >= first[1]}) \in Exact
    BY <2>1, FirstAction DEF WithDivisor, Supported
  <2> HIDE DEF a, S
  <2>5. a.ratio[2] \in Exact
    <3> DEFINE x == <<a.time, a.ratio[2]>>
               L == {d \in S : d[1] >= a.time}
    <3>1. x \in S /\ x[1] = a.time /\ x[2] = a.ratio[2]
      BY <2>4
    <3>2. L = {x}
      <4>1. \A d \in splits[a.symbol] : ~ (d[1] >= a.time)
        BY <2>2, <2>3
      <4>2. a.time >= a.time
        BY <2>2
      <4> QED
        BY <2>4, <3>1, <4>1, <4>2
    <3>3. DivisorProduct(L) \in Exact
      BY <2>4, <3>1
    <3> HIDE DEF L, x
    <3>4. Divisible(L)
      BY <2>2, <3>1, <3>2, FS_Singleton DEF Divisible
    <3>5. DivisorProduct(L) = x[2]
      BY <3>2, <3>4, DivisorProductPositive
    <3> QED
      BY <3>1, <3>3, <3>5
  <2>6. /\ splits' \in [Symbol -> SUBSET ((1 .. MaxEvents) \X Exact)]
        /\ \A s \in Symbol : splits'[s] = IF s = a.symbol THEN S ELSE splits[s]
    <3>1. S \in SUBSET ((1 .. MaxEvents) \X Exact)
      BY <2>2, <2>3, <2>4, <2>5
    <3> QED
      BY <2>1, <2>2, <2>3, <3>1 DEF a
  <2>7. \A s \in Symbol : IsFiniteSet(splits'[s])
    <3>1. IsFiniteSet(S)
      BY <2>2, <2>3, <2>4, FS_Singleton, FS_Union
    <3> QED
      BY <2>3, <2>6, <3>1
  <2>8. StockPhases' /\ actions' \in Seq(Actions) /\ ToSet(actions') \subseteq ToSet(actions)
    <3>1. until' = Never
      BY <2>1 DEF StockBase, StockPhases
    <3>2. \A s \in Symbol : \A d \in splits'[s] : d[1] \in Int /\ d[1] <= a.time
      <4>1. \A d \in S : d \in splits[a.symbol] \/ d[1] = a.time
        BY <2>4
      <4>2. \A s \in Symbol : \A d \in splits'[s] : d \in splits[s] \/ d[1] = a.time
        BY <2>6, <4>1
      <4> QED
        BY <2>2, <2>3, <4>2
    <3> QED
      BY <2>1, <3>1, <3>2, NextAction DEF a
  <2>9. LedgerTypes' /\ Clocks'
    BY <2>1 DEF StockBase, LedgerTypes, Clocks
  <2>10. Lists'
    BY <2>1, <2>6, <2>7, <2>8 DEF StockBase, Lists
  <2>11. Ids'
    <3>1. Acquired(buys') = Acquired(buys) /\ count \in Nat
      BY <2>1, StockBaseIs
    <3> QED
      BY <2>1, <2>8, <3>1, NoNewIds
  <2>12. LosesNothing
    BY <2>1 DEF LosesNothing, Lost
  <2> QED
    BY <2>8, <2>9, <2>10, <2>11, <2>12 DEF IInv, StockBase, LosesNothing
<1> QED
  BY <1>1, <1>2

-----------------------------------------------------------------------------
(* A simulated sale takes nothing until it is matched.                      *)
LEMMA EmulateSellKeeps ==
  ASSUME IInv, NEW s \in Symbol, NEW n \in Quantities, EmulateSell(s, n)
  PROVE  IInv' /\ LosesNothing
<1> DEFINE b == NewSell(count', s, clock', n * Scale, FALSE)
<1>1. /\ StockBase /\ stage \in {"ready", "emulated"} /\ stage' \in {"emulated", "failed"}
      /\ count < MaxEvents + MaxSells /\ count' = count + 1
      /\ clock' = IF stage = "ready" THEN clock + 1 ELSE clock
      /\ Ledger!Dispose(s, count', n * Scale)
      /\ buys' = buys /\ actions' = actions /\ splits' = splits /\ until' = until
  BY DEF IInv, EmulateSell
<1>2. n * Scale \in Nat \ {0} /\ n * Scale \in Nat
  BY StockFifoAssumption
<1>3. /\ clock \in Nat /\ count \in Nat /\ clock <= count /\ (stage = "emulated" => clock > 0)
      /\ buys \in Seq(Lots) /\ sells \in Seq(Sales)
      /\ positions \in [Symbol -> Nat]
  BY <1>1 DEF StockBase, Clocks, Lists
<1>4. Clocks' /\ count' \in Event /\ clock' \in 1 .. Never
  BY <1>1, <1>3, StockFifoAssumption DEF Clocks, Event, Never
<1>5. LedgerTypes'
  BY <1>1, <1>2, DisposeTypes DEF StockBase
<1>6. b \in Sales /\ \A e \in Event : UsedBy(e)[b] = 0
  <2> DEFINE q == n * Scale
  <2>1. q \in Nat \ {0}
    BY <1>2
  <2> HIDE DEF q
  <2>2. /\ NewSell(count', s, clock', q, FALSE) \in Sales
        /\ \A e \in Event : UsedBy(e)[NewSell(count', s, clock', q, FALSE)] = 0
    BY <1>4, <2>1, NewSellIs
  <2> QED
    BY <2>2 DEF q
<1>7. /\ sells' = sells \/ sells' = Append(sells, b)
      /\ positions' = positions \/ positions' = [positions EXCEPT ![s] = @ - n * Scale]
      /\ ~ (positions[s] < n * Scale) \/ positions' = positions
  BY DEF EmulateSell
<1> HIDE DEF b
<1>8. positions' \in [Symbol -> Nat]
  BY <1>2, <1>3, <1>7
<1>9. /\ sells' \in Seq(Sales)
      /\ \A e \in Event : WeightOf(sells', UsedBy(e)) = WeightOf(sells, UsedBy(e))
  <2>1. CASE sells' = sells
    BY <1>3, <2>1
  <2>2. CASE sells' = Append(sells, b)
    <3>1. sells' \in Seq(Sales)
      BY <1>3, <1>6, <2>2, AppendProperties
    <3>2. ASSUME NEW e \in Event
          PROVE  WeightOf(sells', UsedBy(e)) = WeightOf(sells, UsedBy(e))
      <4>1. UsedBy(e) \in [Sales -> Nat]
        BY KeptIs
      <4>2. WeightOf(sells', UsedBy(e)) = WeightOf(sells, UsedBy(e)) + UsedBy(e)[b]
        BY <1>3, <1>6, <2>2, <4>1, WeightOfAppended
      <4>3. WeightOf(sells, UsedBy(e)) \in Nat
        BY <1>3, <4>1, Weighing DEF Weighed
      <4> QED
        BY <1>6, <4>2, <4>3
    <3> QED
      BY <3>1, <3>2
  <2> QED
    BY <1>7, <2>1, <2>2
<1>10. Lists'
  BY <1>1, <1>8, <1>9 DEF StockBase, Lists, Never
<1>11. StockPhases'
  BY <1>1 DEF StockBase, StockPhases, Never
<1>12. Ids'
  <2>1. /\ count <= count' /\ count' \in Nat
        /\ Acquired(buys') = Acquired(buys) /\ ToSet(actions') = ToSet(actions)
    BY <1>1, <1>3
  <2> QED
    BY <1>1, <2>1, NoNewIds
<1>13. LosesNothing
  BY <1>1, <1>9 DEF LosesNothing, Lost
<1> QED
  BY <1>4, <1>5, <1>10, <1>11, <1>12, <1>13 DEF IInv, StockBase, LosesNothing


-----------------------------------------------------------------------------
(* Matching.                                                                *)

(* Part of a list weighs no more than all of it.                            *)
LEMMA WeightOfPart ==
  ASSUME NEW S, NEW list \in Seq(S), NEW w \in [S -> Nat],
         NEW T \in SUBSET (1 .. Len(list))
  PROVE  /\ SumFunctionOnSet(Weights(list, w), T) \in Nat
         /\ SumFunctionOnSet(Weights(list, w), (1 .. Len(list)) \ T) \in Nat
         /\ WeightOf(list, w) = SumFunctionOnSet(Weights(list, w), T)
              + SumFunctionOnSet(Weights(list, w), (1 .. Len(list)) \ T)
         /\ WeightOf(list, w) \in Nat
<1> DEFINE f == Weights(list, w)
           D == 1 .. Len(list)
           R == D \ T
<1>1. Weighed(list, w, S)
  BY Weighing
<1>2. Summable(f, D) /\ \A i \in D : f[i] \in Nat
  BY <1>1 DEF Weighed
<1>3. T \in SUBSET D /\ R \in SUBSET D /\ T \cap R = {} /\ T \cup R = D
  OBVIOUS
<1>4. WeightOf(list, w) = SumFunctionOnSet(f, D)
  BY DEF WeightOf
<1> HIDE DEF f, D, R
<1>5. SumFunctionOnSet(f, T \cup R) = SumFunctionOnSet(f, T) + SumFunctionOnSet(f, R)
  <2>1. Summable(f, D)
    BY <1>2
  <2>2. \A A, B \in SUBSET D : A \cap B = {} =>
          SumFunctionOnSet(f, A \cup B) = SumFunctionOnSet(f, A) + SumFunctionOnSet(f, B)
    BY ONLY <2>1, SumUnion
  <2> QED
    BY <1>3, <2>2
<1>6. IsFiniteSet(T) /\ IsFiniteSet(R)
  BY <1>2, <1>3, FS_Subset DEF Summable
<1>7. SumFunctionOnSet(f, T) \in Nat /\ SumFunctionOnSet(f, R) \in Nat
  BY <1>2, <1>3, <1>6, SumNatural
<1>8. WeightOf(list, w) = SumFunctionOnSet(f, T) + SumFunctionOnSet(f, R)
  BY <1>3, <1>4, <1>5
<1>9. WeightOf(list, w) \in Nat
  BY <1>7, <1>8
<1> QED
  BY <1>7, <1>8, <1>9 DEF f, D, R

(* One item weighs no more than the list.                                   *)
LEMMA WeightOfItem ==
  ASSUME NEW S, NEW list \in Seq(S), NEW w \in [S -> Nat], NEW i \in 1 .. Len(list)
  PROVE  w[list[i]] \in Nat /\ WeightOf(list, w) \in Nat /\ w[list[i]] <= WeightOf(list, w)
<1>1. Weighed(list, w, S)
  BY Weighing
<1>2. /\ Weights(list, w)[i] = w[list[i]] /\ w[list[i]] \in Nat
      /\ Summable(Weights(list, w), 1 .. Len(list))
      /\ WeightOf(list, w) \in Nat
  BY <1>1 DEF Weighed
<1>3. {i} \in SUBSET (1 .. Len(list))
  OBVIOUS
<1>4. SumFunctionOnSet(Weights(list, w), {i}) = w[list[i]]
  <2> DEFINE f == Weights(list, w)
  <2>1. f[i] \in Int /\ f[i] = w[list[i]]
    BY <1>2
  <2> HIDE DEF f
  <2> DEFINE X == {i}
  <2>2. Summable(f, X) /\ i \in X /\ \A y \in X \ {i} : f[y] = 0
    BY <2>1, FS_Singleton DEF Summable
  <2> HIDE DEF X
  <2>3. SumFunctionOnSet(f, X) = f[i]
    BY ONLY <2>2, SumSingle
  <2> QED
    BY <2>1, <2>3 DEF f, X
<1> DEFINE T == {i}
<1>5. T \in SUBSET (1 .. Len(list))
  BY <1>3
<1> HIDE DEF T
<1>6. /\ SumFunctionOnSet(Weights(list, w), (1 .. Len(list)) \ T) \in Nat
      /\ WeightOf(list, w) = SumFunctionOnSet(Weights(list, w), T)
           + SumFunctionOnSet(Weights(list, w), (1 .. Len(list)) \ T)
  BY <1>5, WeightOfPart
<1>7. \A x, y, z \in Nat : x = y + z => y <= x
  OBVIOUS
<1> QED
  BY <1>2, <1>4, <1>6, <1>7 DEF T

(* A multiplier and its inverse.                                            *)
LEMMA MultiplierIs ==
  ASSUME StockBase, NEW s \in Symbol, NEW from \in Int, NEW to \in Int
  PROVE  /\ Multiplier(s, from, to)[1] \in Nat \ {0}
         /\ Multiplier(s, from, to)[2] \in Nat \ {0}
         /\ Multiplier(s, from, to)[1] = 1 \/ Multiplier(s, from, to)[2] = 1
         /\ from <= to => Multiplier(s, from, to)[2] = 1
<1>1. ASSUME NEW x \in Int, NEW y \in Int
      PROVE  DivisorProduct(Divisors(s, x, y)) \in Nat \ {0}
  <2>1. splits[s] \in SUBSET ((1 .. MaxEvents) \X Exact) /\ IsFiniteSet(splits[s])
    BY DEF StockBase, Lists
  <2>2. Divisors(s, x, y) \subseteq splits[s]
    BY DEF Divisors
  <2>3. Divisible(Divisors(s, x, y))
    BY <2>1, <2>2, FS_Subset, StockFifoAssumption DEF Divisible
  <2> HIDE DEF Divisors
  <2> QED
    BY <2>3, DivisorProductPositive
<1>2. CASE from <= to
  BY <1>1, <1>2 DEF Multiplier
<1>3. CASE ~ (from <= to)
  BY <1>1, <1>3 DEF Multiplier
<1> QED
  BY <1>2, <1>3

(* A match takes neither more than the sale asks for nor more than is left. *)
LEMMA MatchedQuantity ==
  ASSUME NEW m, m[1] \in Nat \ {0}, m[2] \in Nat \ {0}, m[1] = 1 \/ m[2] = 1,
         NEW left \in Nat, NEW u \in Nat
  PROVE  /\ Ledger!Least(left, Times(m, u)) \in 0 .. left
         /\ DividedBy(Ledger!Least(left, Times(m, u)), m) \in 0 .. u
<1> DEFINE x == Times(m, u)
           q == Ledger!Least(left, x)
<1>1. \A y, z \in Nat : y * z \in Nat
  OBVIOUS
<1>2. x \in Nat /\ q \in 0 .. left /\ q <= x
  <2>1. x \in Nat
    <3>1. m[1] * u \in Nat
      BY <1>1
    <3> DEFINE y == m[1] * u
    <3>2. y \in Nat
      BY <3>1
    <3> HIDE DEF y
    <3>3. y \div m[2] \in Nat
      BY <3>2
    <3> QED
      BY <3>3 DEF y, Times
  <2> HIDE DEF x
  <2> QED
    BY <2>1 DEF Ledger!Least
<1>3. CASE m[2] = 1
  <2> DEFINE y == m[1] * u
  <2>1. x = y /\ y \in Nat
    BY <1>1, <1>3 DEF Times
  <2> HIDE DEF x, q
  <2>2. DividedBy(q, m) = q \div m[1]
    BY <1>2, <1>3 DEF DividedBy
  <2>3. q \in Nat /\ q <= m[1] * u
    BY <1>2, <2>1
  <2>4. \A p \in Nat \ {0} : q <= p * u => q \div p \in 0 .. u
    <3>1. SUFFICES ASSUME NEW p \in Nat \ {0}, q <= p * u
                   PROVE  q \div p \in 0 .. u
      OBVIOUS
    <3> DEFINE k == q \div p
    <3>2. k \in Nat /\ p * k <= q
      BY <2>3
    <3> HIDE DEF k
    <3>3. p * k <= p * u
      <4>1. p * k \in Nat /\ p * u \in Nat
        BY <1>1, <3>2
      <4> QED
        BY <2>3, <3>1, <3>2, <4>1
    <3>4. k <= u
      BY <3>2, <3>3
    <3> QED
      BY <3>2, <3>4 DEF k
  <2> QED
    BY <1>2, <2>2, <2>3, <2>4 DEF q, x
<1>4. CASE m[1] = 1
  <2> HIDE DEF q
  <2>1. x = u \div m[2]
    BY <1>4 DEF Times
  <2>2. DividedBy(q, m) = q * m[2]
    <3>1. q * m[2] \in Nat
      BY <1>1, <1>2
    <3> DEFINE z == q * m[2]
    <3>2. z \in Nat
      BY <3>1
    <3> HIDE DEF z
    <3>3. z \div 1 = z
      BY <3>2
    <3> QED
      BY <1>4, <3>3 DEF z, DividedBy
  <2>3. x * m[2] <= u
    <3> DEFINE p == m[2]
    <3>1. p \in Nat \ {0}
      OBVIOUS
    <3> HIDE DEF p
    <3>2. (u \div p) * p <= u
      BY <3>1
    <3> QED
      BY <2>1, <3>2 DEF p
  <2> HIDE DEF x
  <2>4. q * m[2] \in Nat /\ q * m[2] <= x * m[2] /\ x * m[2] \in Nat
    <3>1. \A c, d, p \in Nat : c <= d => c * p <= d * p
      OBVIOUS
    <3> QED
      BY <1>1, <1>2, <3>1
  <2>5. DividedBy(q, m) \in 0 .. u
    BY <2>2, <2>3, <2>4
  <2> QED
    BY <1>2, <2>5 DEF q, x
<1> QED
  BY <1>3, <1>4


(* What is matched leaves the lot and is used by the sale.                  *)
LEMMA MatchSourceKeeps ==
  ASSUME IInv, MatchSource
  PROVE  IInv' /\ (WholeParts => LosesNothing)
<1> DEFINE i == Min(Pending)
           j == Source(sells[i].symbol)
           b == buys[j]
           s == sells[i]
           m == Multiplier(s.symbol, b.time, s.time)
           u == Unsold(b)
           q == Ledger!Least(s.left, Times(m, u))
           taken == DividedBy(q, m)
           part == Ledger!Part(b.origin, taken, b.qty)
           y == [b EXCEPT !.sold = b.sold + taken]
           z == [s EXCEPT !.left = s.left - q, !.origin = Ledger!Sum2(s.origin, part)]
<1>1. CASE Refuse
  BY <1>1, StageKeeps DEF MatchSource
<1>2. CASE ~ Refuse
  <2>1. /\ StockBase /\ stage = "matching" /\ Pending # {} /\ Sources(s.symbol) # {}
        /\ holding' = holding /\ clock' = clock /\ count' = count /\ actions' = actions
        /\ splits' = splits /\ positions' = positions /\ until' = until /\ stage' = stage
    BY <1>2 DEF MatchSource, IInv
  <2>2. /\ buys' = [buys EXCEPT ![j].sold = @ + taken]
        /\ sells' = [sells EXCEPT ![i].left = @ - q, ![i].origin = Ledger!Sum2(@, part)]
    BY <1>2 DEF MatchSource
  <2>3. /\ buys \in Seq(Lots) /\ DOMAIN buys = 1 .. Len(buys) /\ Len(buys) \in Nat
        /\ sells \in Seq(Sales) /\ DOMAIN sells = 1 .. Len(sells) /\ Len(sells) \in Nat
    BY <2>1, StockBaseIs, LotIs, SaleIs
  <2>4. i \in Pending /\ i \in 1 .. Len(sells) /\ s \in Sales /\ s.left > 0
    <3>1. Pending \in SUBSET Nat /\ Pending \subseteq 1 .. Len(sells)
      BY <2>3 DEF Pending
    <3>2. i \in Pending
      <4> HIDE DEF Pending
      <4> QED
        BY <2>1, <3>1, FirstIn
    <3> HIDE DEF i
    <3> QED
      BY <2>3, <3>1, <3>2, SaleIs DEF Pending
  <2>5. j \in Sources(s.symbol) /\ j \in 1 .. Len(buys) /\ b \in Lots
    <3> HIDE DEF i
    <3>1. Sources(s.symbol) \in SUBSET Nat /\ Sources(s.symbol) \subseteq 1 .. Len(buys)
      BY <2>3 DEF Sources
    <3>2. j \in Sources(s.symbol)
      <4> DEFINE S == Sources(s.symbol)
      <4>1. S \in SUBSET Nat /\ S # {}
        BY <2>1, <3>1
      <4> HIDE DEF S
      <4>2. Min(S) \in S
        BY <4>1, FirstIn
      <4> QED
        BY <4>2 DEF S, Source
    <3> HIDE DEF j
    <3> QED
      BY <2>3, <3>1, <3>2, LotIs
  <2>6. WholeParts => \A e \in Event : (b.origin[e] * taken) % b.qty = 0
    BY <2>1 DEF WholeParts
  <2> HIDE DEF i, j
  <2>7. /\ s.left \in Nat /\ s.symbol \in Symbol /\ s.time \in Int
        /\ s.origin \in Origins /\ ~ s.created
    BY <2>4, StockFifoAssumption DEF Sales, Sell, Never
  <2>8. /\ b.time \in Int /\ b.qty \in Nat \ {0} /\ b.sold \in Nat /\ b.sold <= b.qty
        /\ b.origin \in Origins /\ u = b.qty - b.sold /\ u \in Nat
    BY <2>5, StockFifoAssumption DEF Lots, Buy, Never, Unsold
  <2> HIDE DEF u, b, s
  <2>9. /\ m[1] \in Nat \ {0} /\ m[2] \in Nat \ {0}
        /\ m[1] = 1 \/ m[2] = 1
    BY <2>1, <2>7, <2>8, MultiplierIs
  <2> HIDE DEF m
  <2>10. q \in 0 .. s.left /\ taken \in 0 .. u
    <3> DEFINE left == s.left
    <3>1. left \in Nat
      BY <2>7
    <3> HIDE DEF left
    <3>2. /\ Ledger!Least(left, Times(m, u)) \in 0 .. left
          /\ DividedBy(Ledger!Least(left, Times(m, u)), m) \in 0 .. u
      BY <2>8, <2>9, <3>1, MatchedQuantity
    <3> QED
      BY <3>2 DEF left
  <2> HIDE DEF q, taken
  <2>11. y \in Lots /\ y.id = b.id /\ y.origin = b.origin /\ y.qty = b.qty
         /\ y.sold = b.sold + taken
    BY <2>5, <2>8, <2>10 DEF Lots, Buy, b
  <2>12. ASSUME NEW e \in Event
         PROVE  /\ part[e] \in Nat /\ KeptBy(e)[y] \in Nat /\ KeptBy(e)[b] \in Nat
                /\ KeptBy(e)[y] + part[e] <= KeptBy(e)[b]
                /\ WholeParts => KeptBy(e)[b] = KeptBy(e)[y] + part[e]
    <3> DEFINE o == b.origin[e]
    <3>1. o \in Nat /\ b \in Lots
      BY <2>5, <2>8, StockFifoAssumption DEF Origins, b
    <3>2. /\ KeptBy(e)[b] = (o * (b.qty - b.sold)) \div b.qty
          /\ KeptBy(e)[y] = (o * (b.qty - (b.sold + taken))) \div b.qty
          /\ part[e] = (o * taken) \div b.qty
      <4>1. KeptBy(e)[b] = (b.origin[e] * (b.qty - b.sold)) \div b.qty
        BY <3>1, KeptIs
      <4>2. KeptBy(e)[y] = (y.origin[e] * (y.qty - y.sold)) \div y.qty
        BY <2>11, KeptIs
      <4>3. part[e] = (b.origin[e] * taken) \div b.qty
        BY DEF Ledger!Part
      <4> HIDE DEF part, y
      <4> QED
        BY <2>11, <4>1, <4>2, <4>3
    <3>3. b.qty - (b.sold + taken) = u - taken /\ b.qty - b.sold = u
      BY <2>8, <2>10
    <3>4. WholeParts => (o * taken) % b.qty = 0
      BY <2>6
    <3> HIDE DEF o, y, part
    <3>5. /\ (o * (u - taken)) \div b.qty + (o * taken) \div b.qty <= (o * u) \div b.qty
          /\ (o * u) \div b.qty \in Nat /\ (o * (u - taken)) \div b.qty \in Nat
          /\ (o * taken) \div b.qty \in Nat
          /\ WholeParts =>
               (o * u) \div b.qty = (o * (u - taken)) \div b.qty + (o * taken) \div b.qty
      <4> DEFINE p == b.qty
      <4>1. /\ p \in Nat \ {0} /\ u \in Nat /\ taken \in 0 .. u
            /\ WholeParts => (o * taken) % p = 0
        BY <2>8, <2>10, <3>4
      <4> HIDE DEF p
      <4>2. /\ (o * (u - taken)) \div p + (o * taken) \div p <= (o * u) \div p
            /\ (o * u) \div p \in Nat /\ (o * (u - taken)) \div p \in Nat
            /\ (o * taken) \div p \in Nat
        BY <3>1, <4>1, PartsAtMost
      <4>3. (o * taken) % p = 0 => (o * u) \div p = (o * (u - taken)) \div p + (o * taken) \div p
        BY <3>1, <4>1, PartsAdd
      <4> QED
        BY <4>1, <4>2, <4>3 DEF p
    <3> QED
      BY <3>2, <3>3, <3>5
  <2> HIDE DEF y, part
  <2>13. ASSUME NEW e \in Event
         PROVE  s.origin[e] \in Nat /\ s.origin[e] + part[e] <= Unit
    <3>1. KeptBy(e) \in [Lots -> Nat] /\ UsedBy(e) \in [Sales -> Nat]
      BY KeptIs
    <3>2. UsedBy(e)[s] = s.origin[e] /\ s \in Sales /\ s.origin[e] \in Nat
      BY <2>4, <2>7, KeptIs, StockFifoAssumption DEF s, Origins
    <3>3. /\ UsedBy(e)[s] <= WeightOf(sells, UsedBy(e)) /\ WeightOf(sells, UsedBy(e)) \in Nat
      BY <2>3, <2>4, <3>1, WeightOfItem DEF s
    <3>4. /\ KeptBy(e)[b] <= WeightOf(buys, KeptBy(e)) /\ WeightOf(buys, KeptBy(e)) \in Nat
      BY <2>3, <2>5, <3>1, WeightOfItem DEF b
    <3>5. WeightOf(buys, KeptBy(e)) + WeightOf(sells, UsedBy(e)) <= Unit
      BY <3>3, <3>4, StockFifoAssumption DEF IInv, Lost
    <3>6. part[e] \in Nat /\ part[e] <= KeptBy(e)[b] /\ KeptBy(e)[b] \in Nat
      BY <2>12
    <3> QED
      BY <3>2, <3>3, <3>4, <3>5, <3>6, StockFifoAssumption
  <2>14. /\ z \in Sales /\ \A e \in Event : UsedBy(e)[z] = s.origin[e] + part[e]
    <3>1. Ledger!Sum2(s.origin, part) \in Origins
      BY <2>12, <2>13, StockFifoAssumption DEF Ledger!Sum2, Origins
    <3>2. s \in Sell /\ s.left <= s.qty /\ s.qty \in Nat
      BY <2>4 DEF s, Sales, Sell
    <3>3. s.left - q \in Nat /\ s.left - q <= s.qty
      BY <2>7, <2>10, <3>2
    <3>4. /\ z \in Sales /\ z.created = s.created
          /\ z.origin = Ledger!Sum2(s.origin, part)
      BY <2>7, <3>1, <3>2, <3>3 DEF Sales, Sell
    <3> HIDE DEF z
    <3>5. ASSUME NEW e \in Event
          PROVE  UsedBy(e)[z] = s.origin[e] + part[e]
      <4>1. UsedBy(e)[z] = z.origin[e]
        BY <2>7, <3>4, KeptIs
      <4> QED
        BY <3>4, <4>1 DEF Ledger!Sum2
    <3> QED
      BY <3>4, <3>5
  <2>15. /\ buys' = [buys EXCEPT ![j] = y]
    BY <2>2, <2>3, <2>5 DEF y, b
  <2>16. sells' = [sells EXCEPT ![i] = z]
    BY <2>2, <2>3, <2>4 DEF z, s
  <2> HIDE DEF z
  <2>17. /\ buys' \in Seq(Lots)
         /\ \A e \in Event :
              WeightOf(buys', KeptBy(e)) = WeightOf(buys, KeptBy(e)) - KeptBy(e)[b] + KeptBy(e)[y]
    <3> DEFINE w == [x \in Lots |-> 0]
    <3>1. w \in [Lots -> Nat]
      OBVIOUS
    <3> HIDE DEF w
    <3>2. [buys EXCEPT ![j] = y] \in Seq(Lots)
      BY <2>3, <2>5, <2>11, <3>1, WeightOfChanged
    <3>3. ASSUME NEW e \in Event
          PROVE  WeightOf(buys', KeptBy(e))
                   = WeightOf(buys, KeptBy(e)) - KeptBy(e)[b] + KeptBy(e)[y]
      <4> DEFINE v == KeptBy(e)
      <4>1. v \in [Lots -> Nat]
        BY KeptIs
      <4> HIDE DEF v
      <4>2. WeightOf([buys EXCEPT ![j] = y], v) = WeightOf(buys, v) - v[buys[j]] + v[y]
        <5>1. buys \in Seq(Lots) /\ j \in 1 .. Len(buys) /\ y \in Lots
          BY <2>3, <2>5, <2>11
        <5> QED
          BY ONLY <4>1, <5>1, WeightOfChanged
      <4> QED
        BY <2>15, <4>2 DEF v, b
    <3> QED
      BY <2>15, <3>2, <3>3
  <2>18. /\ sells' \in Seq(Sales)
         /\ \A e \in Event :
              WeightOf(sells', UsedBy(e)) = WeightOf(sells, UsedBy(e)) - UsedBy(e)[s] + UsedBy(e)[z]
    <3> DEFINE w == [x \in Sales |-> 0]
    <3>1. w \in [Sales -> Nat]
      OBVIOUS
    <3> HIDE DEF w
    <3>2. [sells EXCEPT ![i] = z] \in Seq(Sales)
      BY <2>3, <2>4, <2>14, <3>1, WeightOfChanged
    <3>3. ASSUME NEW e \in Event
          PROVE  WeightOf(sells', UsedBy(e))
                   = WeightOf(sells, UsedBy(e)) - UsedBy(e)[s] + UsedBy(e)[z]
      <4> DEFINE v == UsedBy(e)
      <4>1. v \in [Sales -> Nat]
        BY KeptIs
      <4> HIDE DEF v
      <4>2. WeightOf([sells EXCEPT ![i] = z], v) = WeightOf(sells, v) - v[sells[i]] + v[z]
        <5>1. sells \in Seq(Sales) /\ i \in 1 .. Len(sells) /\ z \in Sales
          BY <2>3, <2>4, <2>14
        <5> QED
          BY ONLY <4>1, <5>1, WeightOfChanged
      <4> QED
        BY <2>16, <4>2 DEF v, s
    <3> QED
      BY <2>16, <3>2, <3>3
  <2>19. Acquired(buys') = Acquired(buys)
    <3> DEFINE n == Len(buys)
    <3>1. /\ \A k \in 1 .. n : buys'[k] = IF k = j THEN y ELSE buys[k]
          /\ DOMAIN buys' = 1 .. n
      BY <2>3, <2>15
    <3>2. \A k \in 1 .. n : buys'[k].id = buys[k].id
      BY <2>11, <3>1 DEF b
    <3>3. ToSet(buys') = {buys'[k] : k \in 1 .. n} /\ ToSet(buys) = {buys[k] : k \in 1 .. n}
      BY <2>3, <3>1 DEF ToSet
    <3>4. /\ Acquired(buys') = {buys'[k].id : k \in 1 .. n}
          /\ Acquired(buys) = {buys[k].id : k \in 1 .. n}
      BY <3>3 DEF Acquired
    <3> QED
      BY <3>2, <3>4
  <2>20. LedgerTypes' /\ Clocks' /\ Lists'
    BY <2>1, <2>17, <2>18 DEF StockBase, LedgerTypes, Clocks, Lists, Never
  <2>21. StockPhases'
    BY <2>1 DEF StockBase, StockPhases, Never
  <2>22. Ids'
    <3>1. count <= count' /\ count' \in Nat
      BY <2>1, StockBaseIs
    <3> QED
      BY <2>1, <2>19, <3>1, NoNewIds
  <2>23. ASSUME NEW e \in Event
         PROVE  /\ Lost(buys, sells, e) \in Nat => Lost(buys', sells', e) \in Nat
                /\ WholeParts => Lost(buys', sells', e) = Lost(buys, sells, e)
    <3>3. WeightOf(buys, KeptBy(e)) \in Nat /\ WeightOf(sells, UsedBy(e)) \in Nat
      BY <2>3, KeptIs, Weighing DEF Weighed
    <3>4. /\ part[e] \in Nat /\ KeptBy(e)[y] \in Nat /\ KeptBy(e)[b] \in Nat
          /\ KeptBy(e)[y] + part[e] <= KeptBy(e)[b]
          /\ WholeParts => KeptBy(e)[b] = KeptBy(e)[y] + part[e]
      BY <2>12
    <3>5. UsedBy(e)[s] = s.origin[e] /\ UsedBy(e)[z] = s.origin[e] + part[e]
          /\ s.origin[e] \in Nat
      BY <2>4, <2>7, <2>13, <2>14, KeptIs DEF s
    <3>6. /\ WeightOf(buys', KeptBy(e)) = WeightOf(buys, KeptBy(e)) - KeptBy(e)[b] + KeptBy(e)[y]
          /\ WeightOf(sells', UsedBy(e)) = WeightOf(sells, UsedBy(e)) - UsedBy(e)[s] + UsedBy(e)[z]
      BY <2>17, <2>18
    <3>7. Lost(buys', sells', e)
            = Lost(buys, sells, e) + (KeptBy(e)[b] - (KeptBy(e)[y] + part[e]))
      BY <2>19, <3>3, <3>4, <3>5, <3>6, StockFifoAssumption DEF Lost
    <3>8. Lost(buys, sells, e) \in Int
      BY <3>3, StockFifoAssumption DEF Lost
    <3>9. CASE WholeParts
      BY <3>4, <3>7, <3>8, <3>9
    <3>10. CASE ~ WholeParts
      BY <3>4, <3>7, <3>8, <3>10
    <3> QED
      BY <3>9, <3>10
  <2> QED
    BY <2>20, <2>21, <2>22, <2>23 DEF IInv, StockBase, LosesNothing
<1> QED
  BY <1>1, <1>2


-----------------------------------------------------------------------------
(* Conversions.                                                             *)

(* Lots are known by their numbers.                                         *)
LEMMA SameAcquired ==
  ASSUME NEW D, NEW list, DOMAIN list = D, NEW new, DOMAIN new = D,
         \A i \in D : new[i].id = list[i].id
  PROVE  Acquired(new) = Acquired(list)
<1>1. ASSUME NEW x \in Acquired(new)
      PROVE  x \in Acquired(list)
  <2>1. PICK i \in D : x = new[i].id
    BY DEF Acquired, ToSet
  <2> QED
    BY <2>1 DEF Acquired, ToSet
<1>2. ASSUME NEW x \in Acquired(list)
      PROVE  x \in Acquired(new)
  <2>1. PICK i \in D : x = list[i].id
    BY DEF Acquired, ToSet
  <2>2. x = new[i].id
    BY <2>1
  <2> QED
    BY <2>1, <2>2 DEF Acquired, ToSet
<1> QED
  BY <1>1, <1>2

(* Lots that are sold keep nothing.                                         *)
LEMMA ClosedLots ==
  ASSUME NEW list \in Seq(Lots), NEW open \in SUBSET (1 .. Len(list)), NEW closed,
         closed = [i \in DOMAIN list |->
                     IF i \in open THEN [list[i] EXCEPT !.sold = @ + Unsold(list[i])]
                                   ELSE list[i]]
  PROVE  /\ closed \in Seq(Lots) /\ Acquired(closed) = Acquired(list)
         /\ \A e \in Event :
              WeightOf(closed, KeptBy(e)) = WeightOf(list, KeptBy(e))
                - SumFunctionOnSet(Weights(list, KeptBy(e)), open)
<1> DEFINE n == Len(list)
           D == 1 .. n
           R == D \ open
<1>1. n \in Nat /\ DOMAIN list = D /\ (\A i \in D : list[i] \in Lots)
  BY LotIs
<1>2. /\ DOMAIN closed = D
      /\ \A i \in D \ open : closed[i] = list[i]
      /\ \A i \in open : closed[i] = [list[i] EXCEPT !.sold = @ + Unsold(list[i])]
  BY <1>1
<1>3. ASSUME NEW b \in Lots
      PROVE  LET c == [b EXCEPT !.sold = @ + Unsold(b)]
             IN  c \in Lots /\ c.id = b.id /\ c.sold = c.qty
  <2>1. b \in Buy /\ b.sold \in Nat /\ b.qty \in Nat \ {0} /\ b.sold <= b.qty
    BY DEF Lots, Buy
  <2>2. b.sold + Unsold(b) = b.qty
    BY <2>1 DEF Unsold
  <2> DEFINE c == [b EXCEPT !.sold = b.qty]
  <2>3. c \in Lots /\ c.id = b.id /\ c.sold = c.qty
    BY <2>1 DEF Lots, Buy
  <2>4. [b EXCEPT !.sold = @ + Unsold(b)] = c
    BY <2>2
  <2> QED
    BY <2>3, <2>4
<1>4. /\ \A i \in open : /\ closed[i] \in Lots /\ closed[i].id = list[i].id
                         /\ closed[i].sold = closed[i].qty
      /\ \A i \in D : closed[i] \in Lots /\ closed[i].id = list[i].id
  <2>1. ASSUME NEW i \in open
        PROVE  /\ closed[i] \in Lots /\ closed[i].id = list[i].id
               /\ closed[i].sold = closed[i].qty
    <3> DEFINE b == list[i]
               c == [b EXCEPT !.sold = @ + Unsold(b)]
    <3>1. b \in Lots
      BY <1>1
    <3>2. closed[i] = c
      BY <1>2
    <3> HIDE DEF b
    <3>3. c \in Lots /\ c.id = b.id /\ c.sold = c.qty
      BY <1>3, <3>1
    <3> QED
      BY <3>2, <3>3 DEF b
  <2>2. ASSUME NEW i \in D
        PROVE  closed[i] \in Lots /\ closed[i].id = list[i].id
    BY <1>1, <1>2, <2>1
  <2> QED
    BY <2>1, <2>2
<1>5. closed \in Seq(Lots) /\ Len(closed) = n
  <2>1. closed = [i \in D |-> closed[i]]
    BY <1>1
  <2> QED
    BY <1>1, <1>4, <2>1
<1>6. Acquired(closed) = Acquired(list)
  <2>1. /\ DOMAIN closed = D /\ DOMAIN list = D
        /\ \A i \in D : closed[i].id = list[i].id
    BY <1>1, <1>2, <1>4
  <2> QED
    BY ONLY <2>1, SameAcquired
<1>7. ASSUME NEW e \in Event
      PROVE  WeightOf(closed, KeptBy(e)) = WeightOf(list, KeptBy(e))
               - SumFunctionOnSet(Weights(list, KeptBy(e)), open)
  <2> DEFINE w == KeptBy(e)
             f == Weights(list, w)
             g == Weights(closed, w)
  <2>1. w \in [Lots -> Nat]
    BY KeptIs
  <2>2. ASSUME NEW c \in Lots, c.sold = c.qty
        PROVE  w[c] = 0
    <3>1. w[c] = (c.origin[e] * (c.qty - c.sold)) \div c.qty
      BY KeptIs
    <3>2. c.qty \in Nat \ {0} /\ c.origin[e] \in Nat
      BY StockFifoAssumption DEF Lots, Buy, Origins
    <3>3. c.origin[e] * (c.qty - c.sold) = 0
      BY <2>2, <3>2
    <3>4. \A p \in Nat \ {0} : 0 \div p = 0
      OBVIOUS
    <3> QED
      BY <3>1, <3>2, <3>3, <3>4
  <2> HIDE DEF w
  <2>3. /\ Weighed(list, w, Lots) /\ Weighed(closed, w, Lots)
    BY <1>5, <2>1, Weighing
  <2>4. /\ Summable(f, D) /\ \A i \in D : f[i] = w[list[i]]
    BY <2>3 DEF Weighed
  <2>5. /\ Summable(g, D) /\ \A i \in D : g[i] = w[closed[i]]
    BY <1>5, <2>3 DEF Weighed
  <2>6. \A i \in open : g[i] = 0
    BY <1>4, <2>2, <2>5
  <2>7. \A i \in R : g[i] = f[i]
    BY <1>2, <2>4, <2>5
  <2>8. /\ SumFunctionOnSet(f, open) \in Nat /\ SumFunctionOnSet(f, R) \in Nat
        /\ WeightOf(list, w) = SumFunctionOnSet(f, open) + SumFunctionOnSet(f, R)
    BY <2>1, WeightOfPart
  <2>9. WeightOf(closed, w) = SumFunctionOnSet(g, open) + SumFunctionOnSet(g, R)
    <3>1. open \in SUBSET (1 .. Len(closed))
      BY <1>5
    <3>2. WeightOf(closed, w) = SumFunctionOnSet(Weights(closed, w), open)
            + SumFunctionOnSet(Weights(closed, w), (1 .. Len(closed)) \ open)
      <4>1. closed \in Seq(Lots)
        BY <1>5
      <4> QED
        BY ONLY <2>1, <3>1, <4>1, WeightOfPart
    <3> QED
      BY <1>5, <3>2
  <2> HIDE DEF f, g
  <2>10. SumFunctionOnSet(g, open) = 0
    <3>1. IsFiniteSet(open)
      <4>1. n \in Nat
        BY <1>1
      <4> HIDE DEF n
      <4>2. IsFiniteSet(1 .. n)
        BY ONLY <4>1, FS_Interval
      <4>3. open \in SUBSET (1 .. n)
        BY DEF n
      <4> QED
        BY ONLY <4>2, <4>3, FS_Subset
    <3> QED
      BY <2>6, <3>1, SumZero
  <2>11. SumFunctionOnSet(g, R) = SumFunctionOnSet(f, R)
    <3>1. R \in SUBSET D
      OBVIOUS
    <3> HIDE DEF R, D
    <3>2. Summable(f, R)
      BY <2>4, <3>1, SummableSubset
    <3> QED
      BY ONLY <2>7, <3>2, SumSame
  <2> QED
    BY <2>8, <2>9, <2>10, <2>11 DEF w, f
<1> QED
  BY <1>5, <1>6, <1>7

(* Something is exchanged, and for something.                               *)
LEMMA SumPositive ==
  ASSUME NEW S, IsFiniteSet(S), S # {}, NEW f, \A x \in S : f[x] \in Nat \ {0}
  PROVE  SumFunctionOnSet(f, S) \in Nat \ {0}
<1>1. PICK x \in S : TRUE
  OBVIOUS
<1>2. Summable(f, S)
  BY DEF Summable
<1> DEFINE R == S \ {x}
<1>3. IsFiniteSet(R) /\ \A y \in R : f[y] \in Nat
  BY FS_RemoveElement
<1>4. SumFunctionOnSet(f, S) = f[x] + SumFunctionOnSet(f, R)
  BY <1>2, SumElement
<1> HIDE DEF R
<1>5. SumFunctionOnSet(f, R) \in Nat
  BY <1>3, SumNatural
<1> QED
  BY <1>4, <1>5

(* A valid split leaves a positive quantity.                                *)
LEMMA NewQuantityIs ==
  ASSUME NEW a \in Actions, a.kind = "split", NEW q \in Nat \ {0}, ValidSplit(q, a)
  PROVE  NewQuantity(q, a) \in Nat \ {0}
<1>1. /\ a.ratio[1] \in Nat \ {0} /\ a.ratio[2] \in Nat \ {0} /\ a.deposit \in Nat
      /\ Scale \in Nat \ {0}
  BY ActionFields, StockFifoAssumption
<1>2. CASE a.deposit # 0
  BY <1>1, <1>2 DEF NewQuantity
<1>3. CASE a.deposit = 0
  <2> DEFINE m == a.ratio[1]
             k == a.ratio[2]
  <2>1. \A x, y \in Nat \ {0} : x * y \in Nat \ {0}
    OBVIOUS
  <2>2. m \in Nat \ {0} /\ k \in Nat \ {0} /\ q * k \in Nat \ {0}
    BY <1>1, <2>1
  <2>3. m = 1 \/ q % (Scale * m) = 0
    BY <1>3 DEF ValidSplit
  <2>4. NewQuantity(q, a) = (q * k) \div m
    BY <1>3 DEF NewQuantity
  <2> HIDE DEF m, k
  <2>5. CASE m = 1
    <3> DEFINE x == q * k
    <3>1. x \in Nat \ {0}
      BY <2>2
    <3> HIDE DEF x
    <3>2. x \div m = x
      BY <2>5, <3>1
    <3> QED
      BY <2>4, <3>1, <3>2 DEF x
  <2>6. CASE m # 1
    <3> DEFINE p == Scale * m
               r == q \div p
    <3>1. p \in Nat \ {0}
      BY <1>1, <2>1, <2>2
    <3>2. q % p = 0
      BY <2>3, <2>6
    <3> HIDE DEF p
    <3>3. r \in Nat /\ q = p * r
      BY <3>1, <3>2
    <3> HIDE DEF r
    <3>4. r # 0
      BY <3>1, <3>3
    <3> DEFINE z == Scale * r * k
    <3>5. z \in Nat \ {0}
      BY <1>1, <2>1, <2>2, <3>3, <3>4
    <3>6. q * k = m * z
      BY <1>1, <2>2, <3>3 DEF p
    <3> HIDE DEF z
    <3>7. (m * z) \div m = z
      BY <2>2, <3>5
    <3> QED
      BY <2>4, <3>5, <3>6, <3>7
  <2> QED
    BY <2>5, <2>6
<1> QED
  BY <1>2, <1>3


(* The position is sold and bought back: the new lot keeps what the old     *)
(* ones kept.                                                               *)
LEMMA ConvertPositionKeeps ==
  ASSUME IInv, ConvertPosition
  PROVE  IInv' /\ LosesNothing
<1> DEFINE a == Head(actions)
           open == OpenAt(a.symbol, a.time)
           q == ConvertedQty(open, a)
           origin == ConvertedOrigin(open)
           closed == [i \in DOMAIN buys |->
                        IF i \in open THEN [buys[i] EXCEPT !.sold = @ + Unsold(buys[i])]
                                      ELSE buys[i]]
           sell == [NewSell(0, a.symbol, a.time, q, TRUE) EXCEPT !.left = 0, !.origin = origin]
           new == NewQuantity(q, a)
           buy == NewBuy(0, a.symbol, a.time, new, origin, TRUE)
           n == Len(buys)
<1>1. CASE Refuse
  BY <1>1, StageKeeps DEF ConvertPosition
<1>2. CASE ~ Refuse
  <2>1. /\ StockBase /\ stage = "splitting" /\ open # {} /\ ValidSplit(q, a)
        /\ holding' = holding /\ clock' = clock /\ count' = count
        /\ splits' = splits /\ positions' = positions
        /\ until' = Never /\ stage' = "acting" /\ actions' = Tail(actions)
        /\ buys' = InOrder(<<buy>> \o closed) /\ sells' = InOrder(<<sell>> \o sells)
    BY <1>2 DEF ConvertPosition, IInv
  <2>2. /\ actions # <<>> /\ a.kind = "split" /\ a \in Actions
    BY <2>1, FirstAction DEF StockBase, StockPhases
  <2>3. /\ a.symbol \in Symbol /\ a.time \in 1 .. Never /\ a.time \in Int
    BY <2>2, ActionFields
  <2>4. /\ buys \in Seq(Lots) /\ n \in Nat /\ DOMAIN buys = 1 .. n
        /\ \A i \in 1 .. n : buys[i] \in Lots
        /\ sells \in Seq(Sales) /\ count \in Nat
    BY <2>1, StockBaseIs, LotIs
  <2>5. /\ open \in SUBSET (1 .. n)
        /\ \A i \in open : /\ buys[i] \in Lots /\ Unsold(buys[i]) \in Nat \ {0}
                           /\ buys[i].time \in Int /\ buys[i].time < a.time
    <3>1. \A b \in Lots : ~ IsSold(b) => Unsold(b) \in Nat \ {0} /\ b.time \in Int
      BY StockFifoAssumption DEF Lots, Buy, IsSold, Unsold, Never
    <3> QED
      BY <2>4, <3>1 DEF OpenAt
  <2>6. IsFiniteSet(open)
    <3> DEFINE D == 1 .. n
    <3>1. IsFiniteSet(D) /\ open \in SUBSET D
      BY <2>4, <2>5, FS_Interval
    <3> HIDE DEF D, open
    <3> QED
      BY <3>1, FS_Subset
  <2> HIDE DEF a, open
  <2>7. q \in Nat \ {0}
    <3> DEFINE f == [i \in open |-> Times(Multiplier(a.symbol, buys[i].time, a.time),
                                          Unsold(buys[i]))]
    <3>1. ASSUME NEW i \in open
          PROVE  f[i] \in Nat \ {0}
      <4> DEFINE m == Multiplier(a.symbol, buys[i].time, a.time)
                 u == Unsold(buys[i])
      <4>1. u \in Nat \ {0}
        BY <2>5
      <4>2. m[1] \in Nat \ {0} /\ m[2] = 1
        <5> DEFINE t == buys[i].time
        <5>1. t \in Int /\ t <= a.time
          BY <2>3, <2>5
        <5> HIDE DEF t
        <5>2. /\ Multiplier(a.symbol, t, a.time)[1] \in Nat \ {0}
              /\ Multiplier(a.symbol, t, a.time)[2] = 1
          BY <2>1, <2>3, <5>1, MultiplierIs
        <5> QED
          BY <5>2 DEF t
      <4>3. f[i] = (m[1] * u) \div m[2]
        BY DEF Times
      <4> HIDE DEF m, u, f
      <4>4. \A x, y \in Nat \ {0} : x * y \in Nat \ {0}
        OBVIOUS
      <4> DEFINE y == m[1] * u
      <4>5. y \in Nat \ {0}
        BY <4>1, <4>2, <4>4
      <4> HIDE DEF y
      <4>6. y \div 1 = y
        BY <4>5
      <4> QED
        BY <4>2, <4>3, <4>5, <4>6 DEF y
    <3> HIDE DEF f
    <3>2. SumFunctionOnSet(f, open) \in Nat \ {0}
      BY <2>1, <2>6, <3>1, SumPositive
    <3> QED
      BY <3>2 DEF f, ConvertedQty
  <2> HIDE DEF q
  <2>8. new \in Nat \ {0}
    BY <2>1, <2>2, <2>7, NewQuantityIs
  <2> HIDE DEF new
  <2>9. ASSUME NEW e \in Event
        PROVE  /\ origin[e] = SumFunctionOnSet(Weights(buys, KeptBy(e)), open)
               /\ origin[e] \in Nat /\ origin[e] <= Unit
    <3> DEFINE w == KeptBy(e)
               f == Weights(buys, w)
               kept == [i \in open |-> Kept(buys[i])]
               g == [i \in open |-> kept[i][e]]
    <3>1. origin[e] = SumFunctionOnSet(g, open)
      BY DEF ConvertedOrigin
    <3>2. \A i \in open : g[i] = f[i]
      BY <2>5 DEF Weights, KeptBy
    <3>3. w \in [Lots -> Nat]
      BY KeptIs
    <3> HIDE DEF w, g, kept
    <3>4. Summable(f, 1 .. n)
      BY <2>4, <3>3, Weighing DEF Weighed
    <3>5. SumFunctionOnSet(g, open) = SumFunctionOnSet(f, open)
      <4> DEFINE D == 1 .. n
      <4>1. Summable(f, D) /\ open \in SUBSET D
        BY <2>5, <3>4
      <4> HIDE DEF D, f
      <4> QED
        BY ONLY <3>2, <4>1, SumOfPart
    <3>6. /\ SumFunctionOnSet(f, open) \in Nat
          /\ SumFunctionOnSet(f, (1 .. n) \ open) \in Nat
          /\ WeightOf(buys, w) = SumFunctionOnSet(f, open) + SumFunctionOnSet(f, (1 .. n) \ open)
      BY <2>4, <2>5, <3>3, WeightOfPart
    <3>7. WeightOf(sells, UsedBy(e)) \in Nat
      BY <2>4, KeptIs, Weighing DEF Weighed
    <3>8. WeightOf(buys, w) + WeightOf(sells, UsedBy(e)) <= Unit
      BY <3>6, <3>7, StockFifoAssumption DEF IInv, Lost, w
    <3> HIDE DEF f
    <3>9. SumFunctionOnSet(f, open) <= Unit
      BY <3>6, <3>7, <3>8, StockFifoAssumption
    <3> QED
      BY <3>1, <3>5, <3>6, <3>9 DEF f, w
  <2>10. origin \in Origins
    <3>1. origin = [e \in Event |-> origin[e]]
      BY DEF ConvertedOrigin
    <3> HIDE DEF origin
    <3> QED
      BY <2>9, <3>1, StockFifoAssumption DEF Origins
  <2> HIDE DEF origin
  <2>11. /\ closed \in Seq(Lots) /\ Acquired(closed) = Acquired(buys)
         /\ \A e \in Event : WeightOf(closed, KeptBy(e)) = WeightOf(buys, KeptBy(e)) - origin[e]
    <3>1. /\ closed \in Seq(Lots) /\ Acquired(closed) = Acquired(buys)
          /\ \A e \in Event : WeightOf(closed, KeptBy(e)) = WeightOf(buys, KeptBy(e))
                                - SumFunctionOnSet(Weights(buys, KeptBy(e)), open)
      BY <2>4, <2>5, ClosedLots
    <3> QED
      BY <2>9, <3>1
  <2> HIDE DEF closed
  <2>12. /\ buy \in Lots /\ buy.id = 0
         /\ \A e \in Event : KeptBy(e)[buy] = origin[e]
    <3> DEFINE s == a.symbol
               t == a.time
    <3>1. /\ 0 \in 0 .. MaxEvents /\ s \in Symbol /\ t \in 1 .. Never /\ TRUE \in BOOLEAN
      BY <2>3, StockFifoAssumption
    <3>2. buy.id = 0
      BY DEF NewBuy
    <3> HIDE DEF s, t
    <3>4. new \in Nat \ {0} /\ origin \in Origins
      BY <2>8, <2>10
    <3> HIDE DEF new, origin
    <3>3. /\ NewBuy(0, s, t, new, origin, TRUE) \in Lots
          /\ \A e \in Event : KeptBy(e)[NewBuy(0, s, t, new, origin, TRUE)] = origin[e]
      BY <3>1, <3>4, NewBuyIs
    <3> QED
      BY <3>2, <3>3 DEF s, t
  <2> HIDE DEF buy
  <2>13. sell \in Sales /\ \A e \in Event : UsedBy(e)[sell] = 0
    <3> DEFINE r == NewSell(0, a.symbol, a.time, q, TRUE)
    <3>1. /\ r \in [id : {0}, symbol : Symbol, time : 1 .. Never, qty : Nat \ {0},
                   left : Nat, origin : {Ledger!Nothing}, created : {TRUE}]
      BY <2>3, <2>7 DEF NewSell
    <3>4. sell = [r EXCEPT !.left = 0, !.origin = origin]
      OBVIOUS
    <3> HIDE DEF r, sell
    <3>2. sell \in Sell /\ sell.left <= sell.qty /\ sell.created = TRUE /\ sell.left = 0
      <4>1. r \in Sell /\ r.created = TRUE /\ r.qty \in Nat
        <5>1. Ledger!Nothing \in Origins
          BY StockFifoAssumption DEF Ledger!Nothing, Origins
        <5> QED
          BY <3>1, <5>1 DEF Sell
      <4>2. sell.left = 0 /\ sell.qty = r.qty /\ sell.created = r.created
        BY <3>4, <4>1 DEF Sell
      <4>3. sell \in Sell
        BY <2>10, <3>4, <4>1 DEF Sell
      <4> QED
        BY <4>1, <4>2, <4>3
    <3>3. sell \in Sales /\ sell.created = TRUE
      BY <3>2 DEF Sales
    <3> HIDE DEF sell
    <3> QED
      BY <3>3, KeptIs
  <2> HIDE DEF sell
  <2>14. /\ buys' \in Seq(Lots) /\ Acquired(buys') = Acquired(buys) \cup {0}
         /\ \A e \in Event : WeightOf(buys', KeptBy(e)) = WeightOf(buys, KeptBy(e))
    <3> DEFINE list == <<buy>> \o closed
    <3>1. list \in Seq(Lots) /\ ToSet(list) = ToSet(closed) \cup {buy}
      <4> DEFINE w == [x \in Lots |-> 0]
      <4>1. w \in [Lots -> Nat]
        OBVIOUS
      <4> HIDE DEF w
      <4> QED
        BY <2>11, <2>12, <4>1, WeightOfPrepended
    <3>2. ASSUME NEW e \in Event
          PROVE  WeightOf(list, KeptBy(e)) = WeightOf(buys, KeptBy(e))
      <4>1. KeptBy(e) \in [Lots -> Nat]
        BY KeptIs
      <4>2. WeightOf(list, KeptBy(e)) = WeightOf(closed, KeptBy(e)) + KeptBy(e)[buy]
        BY <2>11, <2>12, <4>1, WeightOfPrepended
      <4>3. WeightOf(buys, KeptBy(e)) \in Nat /\ origin[e] \in Nat
        BY <2>4, <2>9, <4>1, Weighing DEF Weighed
      <4> QED
        BY <2>11, <2>12, <4>2, <4>3
    <3> HIDE DEF list
    <3>3. /\ InOrder(list) \in Seq(Lots) /\ ToSet(InOrder(list)) = ToSet(list)
          /\ \A e \in Event : WeightOf(InOrder(list), KeptBy(e)) = WeightOf(list, KeptBy(e))
      BY <3>1, SortedLots
    <3>4. buys' = InOrder(list)
      BY <2>1 DEF list
    <3>5. Acquired(buys') = Acquired(buys) \cup {0}
      <4>1. ToSet(buys') = ToSet(closed) \cup {buy}
        BY <3>1, <3>3, <3>4
      <4>2. Acquired(buys') = Acquired(closed) \cup {0}
        BY <2>12, <4>1 DEF Acquired
      <4> QED
        BY <2>11, <4>2
    <3> QED
      BY <3>2, <3>3, <3>4, <3>5
  <2>15. /\ sells' \in Seq(Sales)
         /\ \A e \in Event : WeightOf(sells', UsedBy(e)) = WeightOf(sells, UsedBy(e))
    <3> DEFINE list == <<sell>> \o sells
    <3>1. list \in Seq(Sales)
      <4> DEFINE w == [x \in Sales |-> 0]
      <4>1. w \in [Sales -> Nat]
        OBVIOUS
      <4> HIDE DEF w
      <4> QED
        BY <2>4, <2>13, <4>1, WeightOfPrepended
    <3>2. ASSUME NEW e \in Event
          PROVE  WeightOf(list, UsedBy(e)) = WeightOf(sells, UsedBy(e))
      <4>1. UsedBy(e) \in [Sales -> Nat]
        BY KeptIs
      <4>2. WeightOf(list, UsedBy(e)) = WeightOf(sells, UsedBy(e)) + UsedBy(e)[sell]
        BY <2>4, <2>13, <4>1, WeightOfPrepended
      <4>3. WeightOf(sells, UsedBy(e)) \in Nat
        BY <2>4, <4>1, Weighing DEF Weighed
      <4> QED
        BY <2>13, <4>2, <4>3
    <3> HIDE DEF list
    <3>3. /\ InOrder(list) \in Seq(Sales)
          /\ \A e \in Event : WeightOf(InOrder(list), UsedBy(e)) = WeightOf(list, UsedBy(e))
      BY <3>1, SortedSales
    <3> QED
      BY <2>1, <3>2, <3>3 DEF list
  <2>16. StockPhases' /\ actions' \in Seq(Actions) /\ ToSet(actions') \subseteq ToSet(actions)
    <3>1. \A s \in Symbol : \A d \in splits'[s] : d[1] \in Int /\ d[1] <= a.time
      <4>1. \A s \in Symbol : \A d \in splits[s] : d[1] < a.time
        BY <2>1, <2>2, FirstAction DEF a
      <4>2. \A s \in Symbol : \A d \in splits[s] : d[1] \in Int
        BY <2>1 DEF StockBase, Lists
      <4> QED
        BY <2>1, <2>3, <4>1, <4>2
    <3> QED
      BY <2>1, <2>2, <3>1, NextAction DEF a
  <2>17. LedgerTypes' /\ Clocks'
    BY <2>1 DEF StockBase, LedgerTypes, Clocks
  <2>18. Lists'
    <3>1. until' \in 1 .. Never
      BY <2>1, StockFifoAssumption DEF Never
    <3> QED
      BY <2>1, <2>14, <2>15, <2>16, <3>1 DEF StockBase, Lists, Never
  <2>19. Ids'
    BY <2>1, <2>4, <2>14, <2>16, NoNewIds
  <2>20. LosesNothing
    <3>1. 0 \notin Event
      BY DEF Event
    <3> QED
      BY <2>14, <2>15, <3>1 DEF LosesNothing, Lost
  <2> QED
    BY <2>16, <2>17, <2>18, <2>19, <2>20 DEF IInv, StockBase, LosesNothing
<1> QED
  BY <1>1, <1>2


-----------------------------------------------------------------------------
(* The invariant holds.                                                     *)
LEMMA StockInitially ==
  ASSUME StockInit
  PROVE  IInv /\ \A e \in Event : Lost(buys, sells, e) = 0
<1>1. LedgerTypes
  <2>1. holding = [s \in Symbol |-> <<>>]
    BY DEF StockInit, Ledger!LedgerInit
  <2>2. <<>> \in Seq(Queued({}))
    BY EmptySeq
  <2>3. holding \in [Symbol -> Seq(Queued({}))]
    BY <2>1, <2>2
  <2> QED
    BY <2>3 DEF LedgerTypes
<1>2. Clocks
  BY StockFifoAssumption DEF StockInit, Clocks
<1>3. Lists
  <2>1. buys \in Seq(Lots) /\ sells \in Seq(Sales) /\ actions \in Seq(Actions)
    BY EmptySeq DEF StockInit
  <2>2. \A s \in Symbol : IsFiniteSet(splits[s])
    BY FS_EmptySet DEF StockInit
  <2> QED
    BY <2>1, <2>2, StockFifoAssumption DEF StockInit, Lists, Never
<1>4. StockPhases
  BY DEF StockInit, StockPhases
<1>5. Ids
  BY DEF StockInit, Ids, ToSet
<1>6. ASSUME NEW e \in Event
      PROVE  Lost(buys, sells, e) = 0
  <2>1. ASSUME NEW w
        PROVE  WeightOf(<<>>, w) = 0
    <3>1. 1 .. Len(<<>>) = {}
      OBVIOUS
    <3> QED
      BY <3>1, SumEmpty DEF WeightOf
  <2>2. WeightOf(buys, KeptBy(e)) = 0 /\ WeightOf(sells, UsedBy(e)) = 0
    BY <2>1 DEF StockInit
  <2>3. e \notin Acquired(buys)
    BY DEF StockInit, Acquired, ToSet
  <2> QED
    BY <2>2, <2>3 DEF Lost
<1> QED
  BY <1>1, <1>2, <1>3, <1>4, <1>5, <1>6 DEF IInv, StockBase

(* No step loses anything, unless a match cuts a part.                      *)
LEMMA StockStep ==
  ASSUME IInv, [StockNext]_svars
  PROVE  IInv' /\ (WholeParts => LosesNothing)
<1>1. CASE World
  <2>1. CASE \E s \in Symbol, n \in Quantities, t \in TradeTimes : BuyShares(s, n, t)
    BY <2>1, BuySharesKeeps
  <2>2. CASE \E s \in Symbol, n \in Quantities, t \in TradeTimes : SellShares(s, n, t)
    BY <2>2, SellSharesKeeps
  <2>3. CASE \E s \in Symbol, n \in Quantities : Spinoff(s, n)
    BY <2>3, SpinoffKeeps
  <2>4. CASE \E s \in Symbol : Delisting(s)
    BY <2>4, DelistingKeeps
  <2>5. CASE \E s, t \in Symbol : RenameSymbol(s, t)
    BY <2>5, RenameSymbolKeeps
  <2>6. CASE \E s \in Symbol, ratio \in Ratios, reported \in BOOLEAN : Split(s, ratio, reported)
    BY <2>6, SplitKeeps
  <2> QED
    BY <1>1, <2>1, <2>2, <2>3, <2>4, <2>5, <2>6 DEF World
<1>2. CASE BatchStep
  <2>1. CASE Load
    BY <2>1, LoadKeeps
  <2>2. CASE ProcessSpinoff
    BY <2>2, ProcessSpinoffKeeps
  <2>3. CASE ProcessDelisting
    BY <2>3, ProcessDelistingKeeps
  <2>4. CASE ProcessRename
    BY <2>4, ProcessRenameKeeps
  <2>5. CASE ProcessSimpleSplit
    BY <2>5, ProcessSimpleSplitKeeps
  <2>6. CASE StartComplexSplit \/ StartMatching \/ FinishMatching \/ ProcessEmulated
    <3>1. stage # "trading"
      BY <2>6 DEF StartComplexSplit, Processing, StartMatching, FinishMatching, ProcessEmulated
    <3> QED
      BY <2>6, <3>1, StageKeeps
  <2>7. CASE ConvertPosition
    BY <2>7, ConvertPositionKeeps
  <2>8. CASE MatchSource
    BY <2>8, MatchSourceKeeps
  <2> QED
    BY <1>2, <2>1, <2>2, <2>3, <2>4, <2>5, <2>6, <2>7, <2>8 DEF BatchStep
<1>3. CASE \E s \in Symbol, n \in Quantities : EmulateSell(s, n)
  BY <1>3, EmulateSellKeeps
<1>4. CASE UNCHANGED svars
  BY <1>4 DEF svars, IInv, StockBase, LedgerTypes, Clocks, Lists, StockPhases, Ids, Acquired, Lost,
              LosesNothing, WeightOf, Weights
<1> QED
  BY <1>1, <1>2, <1>3, <1>4 DEF StockNext, Idle

(* What the lists say is what the properties speak of.                      *)
LEMMA StockAccounts ==
  ASSUME IInv
  PROVE  /\ StockTypeOK
         /\ \A e \in Event : /\ KeptOf(e) \in Nat /\ UsedOf(e) \in Nat /\ Owed(e) \in Nat
                             /\ Lost(buys, sells, e) \in Nat
                             /\ Lost(buys, sells, e) = Owed(e) - KeptOf(e) - UsedOf(e)
<1>1. /\ StockBase /\ buys \in Seq(Lots) /\ sells \in Seq(Sales)
      /\ Len(buys) \in Nat /\ DOMAIN buys = 1 .. Len(buys)
      /\ Len(sells) \in Nat /\ DOMAIN sells = 1 .. Len(sells)
      /\ \A i \in 1 .. Len(buys) : buys[i] \in Lots
      /\ \A i \in 1 .. Len(sells) : sells[i] \in Sales
      /\ \A b \in ToSet(buys) : b \in Lots
      /\ \A s \in ToSet(sells) : s \in Sales
  BY StockBaseIs, LotIs, SaleIs DEF IInv
<1>2. StockTypeOK
  <2>1. /\ ToSet(buys) \subseteq Buy /\ \A buy \in ToSet(buys) : buy.sold <= buy.qty
    BY <1>1 DEF Lots
  <2>2. /\ ToSet(sells) \subseteq Sell /\ \A sell \in ToSet(sells) : sell.left <= sell.qty
    BY <1>1 DEF Sales
  <2>3. clock \in 0 .. Never
    BY <1>1, StockFifoAssumption DEF StockBase, Clocks, Never
  <2> QED
    BY <1>1, <2>1, <2>2, <2>3 DEF StockTypeOK, StockBase, Clocks, Lists
<1>3. ASSUME NEW e \in Event
      PROVE  /\ KeptOf(e) \in Nat /\ UsedOf(e) \in Nat /\ Owed(e) \in Nat
             /\ Lost(buys, sells, e) \in Nat
             /\ Lost(buys, sells, e) = Owed(e) - KeptOf(e) - UsedOf(e)
  <2>1. KeptBy(e) \in [Lots -> Nat] /\ UsedBy(e) \in [Sales -> Nat]
    BY KeptIs
  <2>2. KeptOf(e) = WeightOf(buys, KeptBy(e)) /\ WeightOf(buys, KeptBy(e)) \in Nat
    <3> DEFINE D == 1 .. Len(buys)
               queue == [i \in DOMAIN buys |-> [origin |-> Kept(buys[i])]]
               g == [i \in DOMAIN queue |-> queue[i].origin[e]]
               w == KeptBy(e)
               f == Weights(buys, w)
    <3>1. KeptOf(e) = SumFunctionOnSet(g, D)
      BY <1>1, LedgerSum DEF KeptOf, Ledger!Pooled
    <3>2. \A i \in D : g[i] = w[buys[i]]
      BY <1>1 DEF KeptBy
    <3> HIDE DEF g, w
    <3>3. /\ Summable(f, D) /\ \A i \in D : f[i] = w[buys[i]]
          /\ WeightOf(buys, w) \in Nat
      BY <1>1, <2>1, Weighing DEF Weighed, w
    <3>4. WeightOf(buys, w) = SumFunctionOnSet(f, D)
      BY DEF WeightOf
    <3> HIDE DEF f, D
    <3>5. SumFunctionOnSet(g, D) = SumFunctionOnSet(f, D)
      BY <3>2, <3>3, SumSame
    <3> QED
      BY <3>1, <3>3, <3>4, <3>5 DEF w
  <2>3. UsedOf(e) = WeightOf(sells, UsedBy(e)) /\ WeightOf(sells, UsedBy(e)) \in Nat
    <3> DEFINE D == 1 .. Len(sells)
               queue == [i \in DOMAIN sells |->
                 [origin |-> IF sells[i].created THEN Ledger!Nothing ELSE sells[i].origin]]
               g == [i \in DOMAIN queue |-> queue[i].origin[e]]
               w == UsedBy(e)
               f == Weights(sells, w)
    <3>1. UsedOf(e) = SumFunctionOnSet(g, D)
      BY <1>1, LedgerSum DEF UsedOf, Ledger!Pooled
    <3>2. ASSUME NEW i \in D
          PROVE  g[i] = w[sells[i]]
      <4>1. Ledger!Nothing[e] = 0
        BY DEF Ledger!Nothing
      <4>2. g[i] = IF sells[i].created THEN 0 ELSE sells[i].origin[e]
        BY <1>1, <4>1
      <4>3. sells[i] \in Sales
        BY <1>1
      <4> QED
        BY <4>2, <4>3, KeptIs
    <3>3. w \in [Sales -> Nat]
      BY <2>1
    <3> HIDE DEF g, w
    <3>4. Weighed(sells, w, Sales)
      BY <1>1, <3>3, Weighing
    <3>5. /\ Summable(f, D) /\ \A i \in D : f[i] = w[sells[i]]
          /\ WeightOf(sells, w) \in Nat
      BY <3>4 DEF Weighed
    <3>6. WeightOf(sells, w) = SumFunctionOnSet(f, D)
      BY DEF WeightOf
    <3> HIDE DEF f, D
    <3>7. SumFunctionOnSet(g, D) = SumFunctionOnSet(f, D)
      BY <3>2, <3>5, SumSame
    <3> QED
      BY <3>1, <3>5, <3>6, <3>7 DEF w
  <2>4. Owed(e) \in Nat /\ Lost(buys, sells, e) \in Nat
    BY StockFifoAssumption DEF IInv, Owed
  <2>5. Lost(buys, sells, e) = Owed(e) - KeptOf(e) - UsedOf(e)
    BY <2>2, <2>3 DEF Lost, Owed, Acquired
  <2> QED
    BY <2>2, <2>3, <2>4, <2>5
<1> QED
  BY <1>2, <1>3

(* Lots and sells keep their types; in particular no lot is oversold, no    *)
(* sell is matched beyond its quantity, and no part of a purchase's cost is *)
(* ever used twice, whatever the divisions round (StockBuy::sell,           *)
(* process_trades, convert_stocks).                                         *)
THEOREM CostIsUsedOnce ==
  StockSpec => [](StockTypeOK /\ \A e \in Event : KeptOf(e) + UsedOf(e) <= Owed(e))
<1>1. StockInit => IInv
  BY StockInitially
<1>2. IInv /\ [StockNext]_svars => IInv'
  BY StockStep
<1>3. IInv => StockTypeOK /\ \A e \in Event : KeptOf(e) + UsedOf(e) <= Owed(e)
  <2>1. SUFFICES ASSUME IInv
                 PROVE  StockTypeOK /\ \A e \in Event : KeptOf(e) + UsedOf(e) <= Owed(e)
    OBVIOUS
  <2>2. ASSUME NEW e \in Event
        PROVE  KeptOf(e) + UsedOf(e) <= Owed(e)
    <3>1. /\ KeptOf(e) \in Nat /\ UsedOf(e) \in Nat /\ Owed(e) \in Nat
          /\ Lost(buys, sells, e) \in Nat
          /\ Lost(buys, sells, e) = Owed(e) - KeptOf(e) - UsedOf(e)
      BY <2>1, StockAccounts
    <3> QED
      BY <3>1
  <2> QED
    BY <2>1, <2>2, StockAccounts
<1> QED
  BY <1>1, <1>2, <1>3, PTL DEF StockSpec

(* When the divisions are exact nothing is lost either: what the lots keep  *)
(* of a purchase and what the sells have used of it are all of it, in every *)
(* state, before and after conversions, renames and simulated sells.        *)
THEOREM CostIsConserved ==
  StockSpec /\ []WholeParts => []CostConserved
<1> DEFINE Exactly == IInv /\ \A e \in Event : Lost(buys, sells, e) = 0
<1>1. StockInit => Exactly
  BY StockInitially
<1>2. Exactly /\ WholeParts /\ [StockNext]_svars => Exactly'
  BY StockStep DEF LosesNothing
<1>3. Exactly /\ WholeParts => CostConserved
  <2>1. SUFFICES ASSUME Exactly, WholeParts
                 PROVE  CostConserved
    OBVIOUS
  <2>2. ASSUME NEW e \in Event
        PROVE  KeptOf(e) + UsedOf(e) = Owed(e)
    <3>1. /\ KeptOf(e) \in Nat /\ UsedOf(e) \in Nat /\ Owed(e) \in Nat
          /\ Lost(buys, sells, e) = Owed(e) - KeptOf(e) - UsedOf(e)
      BY <2>1, StockAccounts
    <3>2. Lost(buys, sells, e) = 0
      BY <2>1
    <3> QED
      BY <3>1, <3>2
  <2> QED
    BY <2>1, <2>2, StockAccounts DEF CostConserved
<1> HIDE DEF Exactly
<1> QED
  BY <1>1, <1>2, <1>3, PTL DEF StockSpec

-----------------------------------------------------------------------------
(* What is matched stays matched.                                           *)
LEMMA MatchedStayStep ==
  ASSUME StockBase, [StockNext]_svars
  PROVE  \A i \in DOMAIN sells :
           (sells[i].left = 0 /\ ~sells[i].created) =>
             \E j \in DOMAIN sells' :
               /\ sells'[j].id = sells[i].id
               /\ sells'[j].left = 0
               /\ sells'[j].origin = sells[i].origin
<1> DEFINE Stays(x) == \E y \in ToSet(sells') :
             y.id = x.id /\ y.left = x.left /\ y.origin = x.origin
<1>1. sells \in Seq(Sales) /\ DOMAIN sells = 1 .. Len(sells) /\ Len(sells) \in Nat
  BY StockBaseIs, SaleIs
<1>2. SUFFICES ASSUME NEW x \in ToSet(sells), x.left = 0, ~ x.created
               PROVE  Stays(x)
  <2>1. ASSUME NEW i \in DOMAIN sells, sells[i].left = 0, ~ sells[i].created
        PROVE  \E j \in DOMAIN sells' :
                 /\ sells'[j].id = sells[i].id
                 /\ sells'[j].left = 0
                 /\ sells'[j].origin = sells[i].origin
    <3>1. sells[i] \in ToSet(sells)
      BY <1>1 DEF ToSet
    <3>2. PICK y \in ToSet(sells') :
            y.id = sells[i].id /\ y.left = sells[i].left /\ y.origin = sells[i].origin
      BY <1>2, <2>1, <3>1
    <3>3. PICK j \in DOMAIN sells' : y = sells'[j]
      BY <3>2 DEF ToSet
    <3> QED
      BY <2>1, <3>2, <3>3
  <2> QED
    BY <2>1
<1>3. x \in ToSet(sells') => Stays(x)
  OBVIOUS
<1> HIDE DEF Stays
<1>4. ASSUME NEW b \in Sales
      PROVE  /\ ToSet(Put(sells, b)) = ToSet(sells) \cup {b}
             /\ ToSet(Append(sells, b)) = ToSet(sells) \cup {b}
             /\ ToSet(<<b>> \o sells) = ToSet(sells) \cup {b}
             /\ Append(sells, b) \in Seq(Sales) /\ <<b>> \o sells \in Seq(Sales)
  <2> DEFINE w == [s \in Sales |-> 0]
  <2>1. w \in [Sales -> Nat]
    OBVIOUS
  <2> HIDE DEF w
  <2>2. /\ Append(sells, b) \in Seq(Sales)
        /\ ToSet(Append(sells, b)) = ToSet(sells) \cup {b}
    BY <1>1, <2>1, WeightOfAppended
  <2>3. /\ <<b>> \o sells \in Seq(Sales)
        /\ ToSet(<<b>> \o sells) = ToSet(sells) \cup {b}
    BY <1>1, <2>1, WeightOfPrepended
  <2> QED
    BY <2>2, <2>3 DEF Put
<1>5. CASE World
  <2>1. CASE sells' = sells
    BY <1>3, <2>1
  <2>2. CASE \E b \in Sales : sells' = Put(sells, b)
    BY <1>3, <1>4, <2>2
  <2>3. ASSUME NEW s \in Symbol, NEW n \in Quantities, NEW t \in TradeTimes, SellShares(s, n, t)
        PROVE  \E b \in Sales : sells' = Put(sells, b)
    <3>1. t \in 1 .. clock + 1 /\ clock <= t
      BY TradeTimesAre
    <3>2. Happens("sell", t) /\ t \in Int /\ t <= clock + 1
      BY <2>3, <3>1 DEF SellShares, StockBase, Clocks
    <3>3. count' \in Event /\ t <= MaxEvents /\ MaxEvents \in Nat /\ MaxEvents <= Never
      BY <3>1, <3>2, HappensKeeps
    <3>4. t \in 1 .. Never /\ n * Scale \in Nat \ {0}
      BY <3>1, <3>3, StockFifoAssumption DEF Never, StockBase, Clocks
    <3> DEFINE q == n * Scale
    <3>5. q \in Nat \ {0}
      BY <3>4
    <3> HIDE DEF q
    <3>6. NewSell(count', s, t, q, FALSE) \in Sales
      BY <3>3, <3>4, <3>5, NewSellIs
    <3> QED
      BY <2>3, <3>6 DEF SellShares, q
  <2>4. sells' = sells \/ \E s \in Symbol, n \in Quantities, t \in TradeTimes : SellShares(s, n, t)
    BY <1>5 DEF World, BuyShares, Spinoff, Delisting, RenameSymbol, Split, Occurs
  <2> QED
    BY <2>1, <2>2, <2>3, <2>4
<1>6. CASE BatchStep
  <2>1. CASE Load
    <3>1. ToSet(sells') = ToSet(sells)
      BY <1>1, <2>1, SortedSales DEF Load
    <3> QED
      BY <1>3, <3>1
  <2>2. CASE ProcessDelisting
    <3> DEFINE a == Head(actions)
               id == a.id
               s == a.symbol
               time == a.time
               q == a.qty
               b == NewSell(id, s, time, q, FALSE)
    <3>1. a.kind = "delisting" /\ a \in Actions /\ sells' = InOrder(Append(sells, b))
      BY <2>2, FirstAction DEF ProcessDelisting, Processing
    <3> HIDE DEF a
    <3>2. id \in Event /\ s \in Symbol /\ time \in 1 .. Never /\ q \in Nat \ {0}
      BY <3>1, ActionFields
    <3> HIDE DEF id, s, time, q
    <3>3. b \in Sales
      BY <3>2, NewSellIs
    <3> HIDE DEF b
    <3> DEFINE list == Append(sells, b)
    <3>4. list \in Seq(Sales) /\ ToSet(list) = ToSet(sells) \cup {b}
      BY <1>4, <3>3
    <3> HIDE DEF list
    <3>5. ToSet(InOrder(list)) = ToSet(list)
      BY <3>4, SortedSales
    <3>6. x \in ToSet(sells')
      BY <3>1, <3>4, <3>5 DEF list
    <3> QED
      BY <1>3, <3>6
  <2>3. CASE ProcessRename
    <3>1. CASE sells' = sells
      BY <1>3, <3>1
    <3>2. CASE sells' = Renamed(sells, Head(actions))
      <4>1. PICK i \in DOMAIN sells : x = sells[i]
        BY DEF ToSet
      <4>2. /\ sells'[i].id = x.id /\ sells'[i].left = x.left /\ sells'[i].origin = x.origin
            /\ i \in DOMAIN sells'
        <5>1. x \in Sales
          BY <1>1, <4>1
        <5> QED
          BY <3>2, <4>1, <5>1 DEF Renamed, Sales, Sell
      <4> QED
        BY <4>2 DEF ToSet, Stays
    <3> QED
      BY <2>3, <3>1, <3>2 DEF ProcessRename, Refuse
  <2>4. CASE ConvertPosition
    <3>1. CASE sells' = sells
      BY <1>3, <3>1
    <3>2. CASE sells' # sells
      <4> DEFINE a == Head(actions)
      <4>1. PICK b : sells' = InOrder(<<b>> \o sells) /\ b.time = a.time
        <5> DEFINE open == OpenAt(a.symbol, a.time)
                   q == ConvertedQty(open, a)
                   sell == [NewSell(0, a.symbol, a.time, q, TRUE)
                              EXCEPT !.left = 0, !.origin = ConvertedOrigin(open)]
        <5>1. sells' = InOrder(<<sell>> \o sells)
          BY <2>4, <3>2 DEF ConvertPosition, Refuse
        <5>2. sell.time = a.time
          BY DEF NewSell
        <5> QED
          BY <5>1, <5>2
      <4>2. a.time \in Int
        <5>1. actions # <<>> /\ stage = "splitting"
          BY <2>4 DEF ConvertPosition, StockBase, StockPhases
        <5> QED
          BY <5>1, FirstAction
      <4> HIDE DEF a
      <4> DEFINE S == Sales \cup {b}
                 list == <<b>> \o sells
                 w == [s \in S |-> 0]
      <4>3. sells \in Seq(S) /\ b \in S /\ \A s \in S : s.time \in Int
        <5>1. \A s \in Sales : s.time \in Int
          BY StockFifoAssumption DEF Sales, Sell, Never
        <5> QED
          BY <1>1, <4>1, <4>2, <5>1
      <4>4. w \in [S -> Nat]
        OBVIOUS
      <4> HIDE DEF S, w
      <4>5. list \in Seq(S) /\ ToSet(list) = ToSet(sells) \cup {b}
        BY <4>3, <4>4, WeightOfPrepended
      <4> HIDE DEF list
      <4>6. ToSet(InOrder(list)) = ToSet(list)
        BY <4>3, <4>4, <4>5, WeightOfSorted
      <4>7. x \in ToSet(sells')
        BY <4>1, <4>5, <4>6 DEF list
      <4> QED
        BY <1>3, <4>7
    <3> QED
      BY <3>1, <3>2
  <2>5. CASE MatchSource
    <3>1. CASE sells' = sells
      BY <1>3, <3>1
    <3>2. CASE sells' # sells
      <4> DEFINE i == Min(Pending)
      <4>1. /\ Pending # {}
            /\ \E q, o : sells' = [sells EXCEPT ![i].left = @ - q, ![i].origin = o]
        BY <2>5, <3>2 DEF MatchSource, Refuse
      <4>2. Pending \in SUBSET Nat
        BY <1>1 DEF Pending
      <4>3. i \in Pending
        BY <4>1, <4>2, FirstIn
      <4>4. i \in DOMAIN sells /\ sells[i].left > 0
        BY <4>3 DEF Pending
      <4> HIDE DEF i
      <4>5. PICK k \in DOMAIN sells : x = sells[k]
        BY DEF ToSet
      <4>6. k # i
        BY <1>2, <4>4, <4>5
      <4>7. k \in DOMAIN sells' /\ sells'[k] = x
        BY <4>1, <4>5, <4>6
      <4> QED
        BY <1>3, <4>7 DEF ToSet
    <3> QED
      BY <3>1, <3>2
  <2>6. CASE sells' = sells
    BY <1>3, <2>6
  <2> QED
    BY <1>6, <2>1, <2>2, <2>3, <2>4, <2>5, <2>6
       DEF BatchStep, ProcessSpinoff, ProcessSimpleSplit, StartComplexSplit, StartMatching,
           FinishMatching, ProcessEmulated, Refuse
<1>7. CASE \E s \in Symbol, n \in Quantities : EmulateSell(s, n)
  <2>1. CASE sells' = sells
    BY <1>3, <2>1
  <2>2. CASE sells' # sells
    <3>1. PICK b : sells' = Append(sells, b)
      BY <1>7, <2>2 DEF EmulateSell
    <3>2. PICK k \in DOMAIN sells : x = sells[k]
      BY DEF ToSet
    <3>3. k \in DOMAIN sells' /\ sells'[k] = x
      BY <1>1, <3>1, <3>2
    <3> QED
      BY <1>3, <3>3 DEF ToSet
  <2> QED
    BY <2>1, <2>2
<1>8. CASE UNCHANGED svars
  BY <1>3, <1>8 DEF svars
<1> QED
  BY <1>5, <1>6, <1>7, <1>8 DEF StockNext, Idle

(* A sell that is matched keeps its lots: neither a later sell nor a        *)
(* conversion nor a simulation (emulate_sell, process_trades) changes what  *)
(* it has taken.                                                            *)
THEOREM MatchedSellsStay ==
  StockSpec => MatchedStays
<1>1. StockInit => IInv
  BY StockInitially
<1>2. IInv /\ [StockNext]_svars => IInv'
  BY StockStep
<1> DEFINE Stay == \A i \in DOMAIN sells :
             (sells[i].left = 0 /\ ~sells[i].created) =>
               \E j \in DOMAIN sells' :
                 /\ sells'[j].id = sells[i].id
                 /\ sells'[j].left = 0
                 /\ sells'[j].origin = sells[i].origin
<1>3. IInv /\ [StockNext]_svars => [Stay]_svars
  BY MatchedStayStep DEF IInv
<1> QED
  BY <1>1, <1>2, <1>3, PTL DEF StockSpec, MatchedStays

-----------------------------------------------------------------------------
(* The merging of the statement's files (Loading).                          *)

(* The variables but for the amounts of the dividends that are made.        *)
Types ==
  /\ broker \in Brokers /\ today \in Day /\ postings \in 0 .. MaxPostings
  /\ rows \subseteq RowType
  /\ terms \in [Id -> Terms \cup {Nothing}]
  /\ files \subseteq Period /\ todo \subseteq files
  /\ named \in Period /\ made \in Day /\ period \in Period
  /\ listing.cash \subseteq Kind /\ (listing.funds \/ listing.cash = Kind)
  /\ rules \subseteq {r.n : r \in rows}
  /\ DOMAIN accruals \subseteq [kind : Kind, date : Day, issuer : Issuer]
  /\ \A k \in DOMAIN accruals : accruals[k] \subseteq Entry
  /\ flows \subseteq Entry
  /\ DOMAIN assets \subseteq Day
  /\ pc \in {"posting", "reading", "sorting", "merging", "loaded", "failed"}

(* What the broker posts: no two rows have one number, and only the date of *)
(* a tax may not be that of its dividend.                                   *)
Posts ==
  /\ IsFiniteSet(rows)
  /\ \A r \in rows : /\ r.n < 4 * postings
                     /\ r.posted <= today /\ r.posted \notin Weekend
                     /\ r.kind = "dividend" => r.date = r.id.day
  /\ \A r, s \in rows : r.n = s.n => r = s

(* The phases of the program.                                               *)
Phases ==
  /\ pc \in {"posting", "reading", "sorting"} =>
       todo = {} /\ DOMAIN accruals = {} /\ flows = {} /\ result = {}
  /\ pc = "posting" => files = {} /\ rules = {}
  /\ pc # "posting" => files # {} /\ \A p \in files : p.last <= today
  /\ pc = "loaded" => todo = {}
  /\ pc \in {"merging", "loaded"} => \A p \in files : period.first <= p.first

Base == Types /\ Posts /\ Phases

-----------------------------------------------------------------------------
(* Rows of one posting.                                                     *)
Fitting(S, kind, i, date, n) ==
  /\ S \subseteq RowType /\ IsFiniteSet(S)
  /\ \A r \in S : /\ r.kind = kind /\ r.id = i /\ r.date = date /\ r.posted = today
                  /\ r.n = n \/ r.n = n + 1
  /\ \A r, s \in S : r.n = s.n => r = s

(* A posting is of the kind, the dividend, the date and the day it is made  *)
(* for, and its rows are numbered apart.                                    *)
LEMMA RowsFit ==
  ASSUME NEW kind \in Kind, NEW i \in Id, NEW date \in Day, NEW first \in Int,
         NEW second \in Int, NEW n \in Nat, today \in Day
  PROVE  Fitting(Rows(kind, i, date, first, second, n), kind, i, date, n)
<1> DEFINE r1 == Row(kind, i, date, first, n)
           r2 == Row(kind, i, date, second, n + 1)
           S == Rows(kind, i, date, first, second, n)
<1>1. S = {r \in {r1, r2} : r.amount # 0}
  BY DEF Rows
<1>2. /\ r1.n = n /\ r2.n = n + 1
      /\ \A r \in {r1, r2} : r.kind = kind /\ r.id = i /\ r.date = date /\ r.posted = today
  BY DEF Row
<1>3. \A r \in {r1, r2} : r.amount # 0 => r \in RowType
  BY DEF Row, RowType
<1>4. IsFiniteSet({r1, r2})
  <2> HIDE DEF r1, r2
  <2>1. IsFiniteSet({r1})
    BY FS_Singleton
  <2>2. {r1, r2} = {r1} \cup {r2}
    OBVIOUS
  <2> QED
    BY <2>1, <2>2, FS_AddElement
<1> HIDE DEF r1, r2
<1>5. IsFiniteSet(S)
  BY <1>1, <1>4, FS_Subset
<1> HIDE DEF S
<1>6. S \subseteq {r1, r2} /\ S \subseteq RowType
  BY <1>1, <1>3
<1>7. Fitting(S, kind, i, date, n)
  BY <1>2, <1>5, <1>6 DEF Fitting
<1> QED
  BY <1>7 DEF S

(* So is a correction, which may be empty.                                  *)
LEMMA CorrectedFit ==
  ASSUME NEW kind \in Kind, NEW i \in Id, NEW date \in Day, NEW old \in Int,
         NEW new \in Int, NEW n \in Nat, today \in Day
  PROVE  Fitting(Corrected(kind, i, date, old, new, n), kind, i, date, n)
<1>1. CASE old = new
  BY <1>1, FS_EmptySet DEF Corrected, Fitting
<1>2. CASE old # new /\ broker = "Firstrade"
  BY <1>2, RowsFit DEF Corrected
<1>3. CASE old # new /\ broker # "Firstrade"
  BY <1>3, RowsFit DEF Corrected
<1> QED
  BY <1>1, <1>2, <1>3

(* A posting of a dividend and its tax.                                     *)
Posting(i, new, date, A, B) ==
  /\ pc = "posting" /\ Post(i, new)
  /\ Fitting(A, "dividend", i, i.day, 4 * postings)
  /\ Fitting(B, "tax", i, date, 4 * postings + 2)
  /\ rows' = (rows \cup A) \cup B

(* Terms are amounts.                                                       *)
LEMMA TermsAre ==
  ASSUME NEW t \in Terms \cup {Nothing}
  PROVE  t[1] \in Nat /\ t[2] \in Nat /\ t[2] <= t[1] /\ t = <<t[1], t[2]>>
BY LoadingAssumption DEF Nothing

(* What is paid is a posting ...                                            *)
LEMMA PaysAs ==
  ASSUME Base, NEW issuer \in Issuer, NEW new \in Terms, PayDividend(issuer, new),
         NEW i, i = [day |-> today, issuer |-> issuer]
  PROVE  /\ i \in Id
         /\ Posting(i, new, today, Rows("dividend", i, today, new[1], 0, 4 * postings),
                    Rows("tax", i, today, new[2], 0, 4 * postings + 2))
<1>1. i \in Id /\ i.day = today
  BY DEF Id, Base, Types
<1>2. postings \in Nat /\ today \in Day
  BY LoadingAssumption DEF Base, Types
<1>3. new[1] \in Int /\ new[2] \in Int
  BY TermsAre
<1>4. 4 * postings \in Nat /\ 4 * postings + 2 \in Nat
  BY <1>2
<1>5. /\ Post(i, new)
      /\ rows' = rows \cup Rows("dividend", i, today, new[1], 0, 4 * postings)
                      \cup Rows("tax", i, today, new[2], 0, 4 * postings + 2)
  BY DEF PayDividend
<1>6. pc = "posting"
  BY <1>5 DEF Post
<1>7. Fitting(Rows("dividend", i, today, new[1], 0, 4 * postings),
              "dividend", i, today, 4 * postings)
  BY <1>1, <1>2, <1>3, <1>4, RowsFit DEF Kind
<1>8. Fitting(Rows("tax", i, today, new[2], 0, 4 * postings + 2),
              "tax", i, today, 4 * postings + 2)
  BY <1>1, <1>2, <1>3, <1>4, RowsFit DEF Kind
<1> QED
  BY <1>1, <1>5, <1>6, <1>7, <1>8 DEF Posting

(* ... and so is what is corrected.                                         *)
LEMMA CorrectsAs ==
  ASSUME Base, NEW i \in Id, NEW new \in Terms \cup {Nothing}, NEW misdated \in BOOLEAN,
         Correct(i, new, misdated)
  PROVE  LET date == IF misdated THEN today ELSE i.day
         IN  /\ date \in Day
             /\ Posting(i, new, date,
                  Corrected("dividend", i, i.day, terms[i][1], new[1], 4 * postings),
                  Corrected("tax", i, date, terms[i][2], new[2], 4 * postings + 2))
<1> DEFINE date == IF misdated THEN today ELSE i.day
<1>1. postings \in Nat /\ today \in Day /\ terms[i] \in Terms \cup {Nothing}
  BY LoadingAssumption DEF Base, Types
<1>2. i.day \in Day /\ date \in Day
  BY <1>1 DEF Id
<1>3. new[1] \in Int /\ new[2] \in Int /\ terms[i][1] \in Int /\ terms[i][2] \in Int
  BY <1>1, TermsAre
<1>4. 4 * postings \in Nat /\ 4 * postings + 2 \in Nat
  BY <1>1
<1>5. /\ Post(i, new)
      /\ rows' = rows
           \cup Corrected("dividend", i, i.day, terms[i][1], new[1], 4 * postings)
           \cup Corrected("tax", i, date, terms[i][2], new[2], 4 * postings + 2)
  BY DEF Correct
<1>6. pc = "posting"
  BY <1>5 DEF Post
<1> HIDE DEF date
<1>7. Fitting(Corrected("dividend", i, i.day, terms[i][1], new[1], 4 * postings),
              "dividend", i, i.day, 4 * postings)
  BY <1>1, <1>2, <1>3, <1>4, CorrectedFit DEF Kind
<1>8. Fitting(Corrected("tax", i, date, terms[i][2], new[2], 4 * postings + 2),
              "tax", i, date, 4 * postings + 2)
  BY <1>1, <1>2, <1>3, <1>4, CorrectedFit DEF Kind
<1>9. date \in Day /\ Posting(i, new, date,
                  Corrected("dividend", i, i.day, terms[i][1], new[1], 4 * postings),
                  Corrected("tax", i, date, terms[i][2], new[2], 4 * postings + 2))
  BY <1>2, <1>5, <1>6, <1>7, <1>8 DEF Posting
<1> QED
  BY <1>9 DEF date

(* A posting keeps what the broker posts in order.                          *)
LEMMA PostingKeeps ==
  ASSUME Base, NEW i \in Id, NEW new \in Terms \cup {Nothing}, NEW date \in Day, NEW A, NEW B,
         Posting(i, new, date, A, B)
  PROVE  Base'
<1>1. /\ Post(i, new) /\ pc = "posting" /\ rows' = (rows \cup A) \cup B
      /\ postings \in Nat /\ postings < MaxPostings /\ postings' = postings + 1
      /\ terms' = [terms EXCEPT ![i] = new]
      /\ UNCHANGED <<broker, today, Program, pc>>
      /\ today \in Day /\ today \notin Weekend
  BY LoadingAssumption DEF Posting, Post, Base, Types
<1>2. /\ A \subseteq RowType /\ B \subseteq RowType
      /\ IsFiniteSet(A) /\ IsFiniteSet(B)
      /\ \A r \in A : /\ r.kind = "dividend" /\ r.id = i /\ r.date = i.day
                      /\ r.posted = today
                      /\ r.n = 4 * postings \/ r.n = 4 * postings + 1
      /\ \A r \in B : /\ r.kind = "tax" /\ r.id = i /\ r.date = date
                      /\ r.posted = today
                      /\ r.n = 4 * postings + 2 \/ r.n = 4 * postings + 3
      /\ \A r, s \in A : r.n = s.n => r = s
      /\ \A r, s \in B : r.n = s.n => r = s
  BY <1>1 DEF Posting, Fitting
<1>3. Types'
  <2>1. rows' \subseteq RowType
    BY <1>1, <1>2 DEF Base, Types
  <2>2. rules' \subseteq {r.n : r \in rows'}
    BY <1>1 DEF Base, Phases, Program
  <2>3. postings' \in 0 .. MaxPostings
    BY <1>1, LoadingAssumption
  <2>4. terms' \in [Id -> Terms \cup {Nothing}]
    BY <1>1 DEF Base, Types
  <2> QED
    BY <1>1, <2>1, <2>2, <2>3, <2>4 DEF Base, Types, Program
<1>4. IsFiniteSet(rows')
  BY <1>1, <1>2, FS_Union DEF Base, Posts
<1>5. \A r \in rows : r.n \in Nat /\ r.n < 4 * postings /\ r.posted <= today
                      /\ r.posted \notin Weekend /\ (r.kind = "dividend" => r.date = r.id.day)
  BY DEF Base, Posts, Types, RowType
<1>6. \A r \in rows' : /\ r.n < 4 * postings'
                       /\ r.posted <= today' /\ r.posted \notin Weekend
                       /\ r.kind = "dividend" => r.date = r.id.day
  <2>1. \A r \in rows' : r \in rows \/ r \in A \/ r \in B
    BY <1>1
  <2> QED
    BY <1>1, <1>2, <1>5, <2>1 DEF Day
<1>7. \A r, s \in rows' : r.n = s.n => r = s
  <2>1. \A r \in rows' : r \in rows \/ r \in A \/ r \in B
    BY <1>1
  <2>2. \A r, s \in rows : r.n = s.n => r = s
    BY DEF Base, Posts
  <2> QED
    BY <1>1, <1>2, <1>5, <2>1, <2>2
<1>8. Phases'
  BY <1>1 DEF Base, Phases, Program
<1> QED
  BY <1>3, <1>4, <1>6, <1>7, <1>8 DEF Base, Posts

-----------------------------------------------------------------------------
(* Every row of a statement is listed once, with the date of its dividend   *)
(* when every tax that bears another one has a rule.                        *)
LEMMA ListedOnce ==
  ASSUME Base, NEW p \in Period
  PROVE  /\ \A e \in Listed(p) : e \in Entry /\ e.row \in Posted(p)
         /\ \A r \in Posted(p) : \E e \in Listed(p) : e.row = r
         /\ \A e, f \in Listed(p) : e.row = f.row => e = f
         /\ Dated => \A e \in Listed(p) : e.date = e.row.id.day
<1> DEFINE T == {r \in Posted(p) : r.kind \in listing.cash}
           present == {r.kind : r \in T}
           U == {r \in Posted(p) : listing.funds /\ r.kind \notin present}
<1>1. Listed(p) = {FromCash(r) : r \in T} \cup {FromFunds(r) : r \in U}
  BY DEF Listed
<1>2. Posted(p) \subseteq rows /\ rows \subseteq RowType
  BY DEF Posted, Base, Types
<1>3. \A r \in Posted(p) : r \in T \/ r \in U
  BY <1>2 DEF Base, Types, RowType
<1>4. \A r \in T : \A s \in U : r # s
  OBVIOUS
<1>5. \A r \in Posted(p) :
        /\ FromCash(r).row = r /\ FromFunds(r).row = r
        /\ FromCash(r) \in Entry /\ FromFunds(r) \in Entry
  <2> SUFFICES ASSUME NEW r \in Posted(p)
               PROVE  /\ FromCash(r).row = r /\ FromFunds(r).row = r
                      /\ FromCash(r) \in Entry /\ FromFunds(r) \in Entry
    OBVIOUS
  <2>1. r \in RowType /\ r.date \in Day /\ r.id.day \in Day
    BY <1>2 DEF RowType, Id
  <2> QED
    BY <2>1 DEF FromCash, FromFunds, Entry
<1>6. ASSUME Dated, NEW r \in Posted(p), r.date # r.id.day
      PROVE  r.n \in rules /\ r.kind = "tax" /\ "tax" \in listing.cash
  BY <1>2, <1>6 DEF Dated, Misdated, Base, Posts, RowType, Kind
<1>7. Dated => \A r \in T : FromCash(r).date = r.id.day
  BY <1>6 DEF FromCash
<1>8. Dated => \A r \in U : FromFunds(r).date = r.id.day
  <2> SUFFICES ASSUME Dated, NEW r \in U, r.date # r.id.day
               PROVE  FALSE
    BY DEF FromFunds
  <2>1. r.kind = "tax" /\ "tax" \in listing.cash
    BY <1>6
  <2>2. r \in T
    BY <2>1
  <2> QED
    BY <2>2
<1> HIDE DEF T, U
<1>9. \A r \in T \cup U : r \in Posted(p)
  BY DEF T, U
<1> QED
  BY <1>1, <1>3, <1>4, <1>5, <1>7, <1>8, <1>9

(* A posting of a period of the account is of the issuer and the kind that  *)
(* its key says.                                                            *)
LEMMA KeysAre ==
  ASSUME NEW e \in Entry
  PROVE  /\ Key(e) \in [kind : Kind, date : Day, issuer : Issuer]
         /\ Key(e).kind = e.row.kind /\ Key(e).date = e.date
         /\ Key(e).issuer = e.row.id.issuer
  BY DEF Key, Entry, RowType, Id

(* A set of naturals that is not empty has a least element.                 *)
LEMMA LeastNumber ==
  ASSUME NEW S \in SUBSET Nat, S # {}
  PROVE  \E m \in S : \A x \in S : m <= x
<1>1. PICK m \in S : \A y \in S : ~ (<<y, m>> \in OpToRel(<, Nat))
  BY WFMin, NatLessThanWellFounded
<1>2. \A y \in S : m <= y
  <2> SUFFICES ASSUME NEW y \in S, y < m
               PROVE  FALSE
    OBVIOUS
  <2> DEFINE ym == <<y, m>>
  <2>1. ym \in Nat \X Nat /\ ym[1] < ym[2]
    OBVIOUS
  <2>2. ym \in OpToRel(<, Nat)
    <3> HIDE DEF ym
    <3> QED
      BY <2>1, Zenon DEF OpToRel
  <2> QED
    BY <1>1, <2>2
<1> QED
  BY <1>2

(* So has a bounded one a greatest.                                         *)
LEMMA GreatestNumber ==
  ASSUME NEW n \in Nat, NEW S \in SUBSET (0 .. n), S # {}
  PROVE  \E m \in S : \A x \in S : x <= m
<1> DEFINE T == {n - x : x \in S}
<1>1. T \in SUBSET Nat
  OBVIOUS
<1>2. PICK m \in T : \A y \in T : m <= y
  <2>1. T # {}
    BY Zenon
  <2> HIDE DEF T
  <2> QED
    BY <1>1, <2>1, LeastNumber
<1>3. PICK x \in S : m = n - x
  BY <1>2
<1>4. \A y \in S : y <= x
  BY <1>2, <1>3
<1> QED
  BY <1>4

(* A day's statement is the first of those that are left.                   *)
LEMMA FirstIsEarliest ==
  ASSUME NEW S \in SUBSET Period, S # {}
  PROVE  Earliest(S) \in S /\ \A q \in S : Earliest(S).first <= q.first
<1>1. {q.first : q \in S} \in SUBSET Nat
  BY LoadingAssumption DEF Period, Day
<1>2. {q.first : q \in S} # {}
  OBVIOUS
<1>3. PICK m \in {q.first : q \in S} : \A n \in {q.first : q \in S} : m <= n
  BY <1>1, <1>2, LeastNumber
<1>4. PICK p \in S : p.first = m
  OBVIOUS
<1>5. \A q \in S : p.first <= q.first
  BY <1>3, <1>4
<1> QED
  BY <1>5 DEF Earliest
-----------------------------------------------------------------------------
(* Nothing is posted, downloaded or loaded at the start.                    *)
LEMMA BaseInit == Init => Base
<1> SUFFICES ASSUME Init PROVE Base
  OBVIOUS
<1>1. [first |-> 1, last |-> 1] \in Period /\ 1 \in Day
  BY LoadingAssumption DEF Period, Day
<1>2. terms \in [Id -> Terms \cup {Nothing}]
  BY DEF Init
<1>3. DOMAIN accruals = {} /\ DOMAIN assets = {}
  BY DEF Init
<1>4. Types
  BY <1>1, <1>2, <1>3, LoadingAssumption DEF Init, Types
<1>5. Posts /\ Phases
  BY <1>3, FS_EmptySet DEF Init, Posts, Phases
<1> QED
  BY <1>4, <1>5 DEF Base

(* What is downloaded are periods up to the day it is done.                 *)
LEMMA DownloadKeeps ==
  ASSUME Base, Download
  PROVE  Base'
<1> DEFINE past == {p \in Period : p.last <= today}
<1>1. /\ pc = "posting" /\ pc' = "reading"
      /\ UNCHANGED <<world, todo, period, accruals, result, flows, assets>>
      /\ listing' \in Listings
      /\ broker = "Firstrade" => named' \in files' /\ made' \in named'.last .. today
      /\ broker # "Firstrade" => UNCHANGED <<named, made>>
  BY DEF Download
<1>2. files' \subseteq past /\ files' # {}
  <2>1. PICK k \in 1 .. MaxFiles : files' \in kSubset(k, past)
    BY DEF Download
  <2>2. files' \subseteq past /\ Cardinality(files') = k
    BY <2>1 DEF kSubset
  <2> QED
    BY <2>1, <2>2, FS_EmptySet
<1>3. listing'.cash \subseteq Kind /\ (listing'.funds \/ listing'.cash = Kind)
  BY <1>1 DEF Listings
<1>4. rules' \subseteq {r.n : r \in rows}
  <2>1. PICK mapped \in SUBSET Misdated :
          rules' = UNION {{s.n : s \in Described(r)} : r \in mapped}
    BY DEF Download
  <2>2. \A r : Described(r) \subseteq rows
    BY DEF Described
  <2> QED
    BY <2>1, <2>2
<1>5. named' \in Period /\ made' \in Day
  BY <1>1, <1>2, LoadingAssumption DEF Base, Types, Period, Day
<1>6. todo' \subseteq files'
  BY <1>1 DEF Base, Phases
<1>7. Types'
  BY <1>1, <1>2, <1>3, <1>4, <1>5, <1>6 DEF Base, Types, world
<1>8. Posts'
  BY <1>1 DEF Base, Posts, world
<1>9. Phases'
  BY <1>1, <1>2 DEF Base, Phases, world
<1> QED
  BY <1>7, <1>8, <1>9 DEF Base

(* A step of the program that leaves the statements and the world alone     *)
(* keeps the types when it does so for what it writes.                      *)
LEMMA ProgramKeeps ==
  ASSUME Base, UNCHANGED <<world, files, listing, named, made, rules>>,
         todo' \subseteq files, period' \in Period,
         DOMAIN accruals' \subseteq [kind : Kind, date : Day, issuer : Issuer],
         \A k \in DOMAIN accruals' : accruals'[k] \subseteq Entry,
         flows' \subseteq Entry, DOMAIN assets' \subseteq Day,
         pc # "posting", pc' \in {"sorting", "merging", "loaded", "failed"},
         pc' = "sorting" => todo' = {} /\ DOMAIN accruals' = {} /\ flows' = {} /\ result' = {},
         pc' = "loaded" => todo' = {},
         pc' \in {"merging", "loaded"} => \A p \in files : period'.first <= p.first
  PROVE  Base'
<1>1. Types'
  BY DEF Base, Types, world
<1>2. Posts'
  BY DEF Base, Posts, world
<1>3. Phases'
  BY DEF Base, Phases, world
<1> QED
  BY <1>1, <1>2, <1>3 DEF Base

(* A failure leaves everything as it is.                                    *)
LEMMA FailKeeps ==
  ASSUME Base, Fail, pc # "posting"
  PROVE  Base'
<1>1. pc' = "failed" /\ UNCHANGED <<world, Program>>
  BY DEF Fail
<1> QED
  BY <1>1, ProgramKeeps DEF Base, Types, Program

(* What is read is of no consequence until it is merged.                    *)
LEMMA ReadKeeps ==
  ASSUME Base, Read
  PROVE  Base'
<1>1. CASE Fail
  BY <1>1, FailKeeps DEF Read
<1>2. CASE ~Fail
  <2>1. pc = "reading" /\ pc' = "sorting" /\ UNCHANGED <<world, Program>>
    BY <1>2 DEF Read
  <2> QED
    BY <2>1, ProgramKeeps DEF Base, Types, Program, Phases
<1> QED
  BY <1>1, <1>2

(* The statements are all still to be merged when they are sorted.          *)
LEMMA SortKeeps ==
  ASSUME Base, Sort
  PROVE  Base'
<1>1. CASE Fail
  BY <1>1, FailKeeps DEF Sort
<1>2. CASE ~Fail
  <2>1. /\ pc = "sorting" /\ pc' = "merging" /\ todo' = files /\ period' = Earliest(files)
        /\ UNCHANGED <<world, files, listing, named, made, rules, accruals, result, flows, assets>>
    BY <1>2 DEF Sort
  <2>2. Earliest(files) \in Period /\ \A p \in files : Earliest(files).first <= p.first
    BY <2>1, FirstIsEarliest DEF Base, Types, Phases
  <2> QED
    BY <2>1, <2>2, ProgramKeeps DEF Base, Types
<1> QED
  BY <1>1, <1>2

(* What is merged and how far the period then reaches.                      *)
Merging(p) ==
  /\ pc = "merging" /\ pc' = "merging"
  /\ p \in todo /\ (\A q \in todo : p.first <= q.first)
  /\ p \in Period /\ p \in files
  /\ todo = files \/ MayFollow(period, p)
  /\ todo = {p} => Reports(p)
  /\ period' = [period EXCEPT !.last = p.last]
  /\ accruals' = Joined(p)
  /\ todo' = todo \ {p}
  /\ UNCHANGED <<world, files, listing, named, made, rules, result, flows>>

(* A merge that does not fail merges the earliest statement.                *)
LEMMA MergesEarliest ==
  ASSUME Base, Merge, ~Fail
  PROVE  /\ Merging(Earliest(todo))
         /\ DOMAIN assets' \subseteq DOMAIN assets \cup {Earliest(todo).last}
<1> DEFINE p == Earliest(todo)
<1>1. p \in todo /\ \A q \in todo : p.first <= q.first
  BY FirstIsEarliest DEF Merge, Base, Types
<1>2. p \in Period /\ p \in files
  BY <1>1 DEF Base, Types
<1>3. ~((~(todo = files) /\ ~MayFollow(period, p)) \/ ((todo = {p}) /\ ~Reports(p)))
  BY DEF Merge
<1>4. /\ pc = "merging"
      /\ period' = [period EXCEPT !.last = p.last]
      /\ accruals' = Joined(p)
      /\ assets' = [d \in DOMAIN assets \cup {x \in {p.last} : Reports(p)} |->
                      IF d = p.last THEN CashOn(ReportDay(p)) ELSE assets[d]]
      /\ todo' = todo \ {p}
      /\ UNCHANGED <<world, files, listing, named, made, rules, result, flows, pc>>
  BY <1>3 DEF Merge
<1> HIDE DEF p
<1>5. DOMAIN assets' \subseteq DOMAIN assets \cup {p.last}
  BY <1>4
<1>6. Merging(p)
  BY <1>1, <1>2, <1>3, <1>4 DEF Merging
<1> QED
  BY <1>5, <1>6 DEF p

(* What is joined was accrued or is listed.                                 *)
LEMMA JoinedIs ==
  ASSUME NEW p
  PROVE  /\ DOMAIN Joined(p) = DOMAIN accruals \cup {Key(e) : e \in Listed(p)}
         /\ \A k \in DOMAIN Joined(p) :
              /\ k \in DOMAIN accruals =>
                   Joined(p)[k] = accruals[k] \cup {e \in Listed(p) : Key(e) = k}
              /\ k \notin DOMAIN accruals => Joined(p)[k] = {e \in Listed(p) : Key(e) = k}
<1> DEFINE keys == DOMAIN accruals \cup {Key(e) : e \in Listed(p)}
           new(k) == {e \in Listed(p) : Key(e) = k}
<1>1. Joined(p) = [k \in keys |-> Accrued(k) \cup new(k)]
  BY DEF Joined
<1>2. \A k : /\ k \in DOMAIN accruals => Accrued(k) = accruals[k]
             /\ k \notin DOMAIN accruals => Accrued(k) = {}
  BY DEF Accrued
<1> HIDE DEF new, keys
<1>3. /\ DOMAIN Joined(p) = keys
      /\ \A k \in keys : Joined(p)[k] = Accrued(k) \cup new(k)
  BY <1>1
<1>4. \A k \in keys : /\ k \in DOMAIN accruals => Joined(p)[k] = accruals[k] \cup new(k)
                      /\ k \notin DOMAIN accruals => Joined(p)[k] = new(k)
  BY <1>2, <1>3
<1> QED
  BY <1>3, <1>4 DEF keys, new

(* A merge keeps the types.                                                 *)
LEMMA MergeKeeps ==
  ASSUME Base, Merge
  PROVE  Base'
<1>1. CASE Fail
  BY <1>1, FailKeeps DEF Merge
<1>2. CASE ~Fail
  <2> DEFINE p == Earliest(todo)
  <2>1. Merging(p) /\ DOMAIN assets' \subseteq DOMAIN assets \cup {p.last}
    BY <1>2, MergesEarliest
  <2> HIDE DEF p
  <2>2. p \in Period /\ p \in files
    BY <2>1 DEF Merging
  <2>3. Listed(p) \subseteq Entry
    BY <2>2, ListedOnce
  <2>4. DOMAIN accruals' \subseteq [kind : Kind, date : Day, issuer : Issuer]
    <3>1. DOMAIN accruals' = DOMAIN accruals \cup {Key(e) : e \in Listed(p)}
      BY <2>1, JoinedIs DEF Merging
    <3>2. \A e \in Listed(p) : Key(e) \in [kind : Kind, date : Day, issuer : Issuer]
      BY <2>3, KeysAre
    <3> QED
      BY <3>1, <3>2 DEF Base, Types
  <2>5. \A k \in DOMAIN accruals' : accruals'[k] \subseteq Entry
    <3>1. accruals' = Joined(p)
      BY <2>1 DEF Merging
    <3>2. \A k \in DOMAIN Joined(p) :
            /\ k \in DOMAIN accruals =>
                 Joined(p)[k] = accruals[k] \cup {e \in Listed(p) : Key(e) = k}
            /\ k \notin DOMAIN accruals => Joined(p)[k] = {e \in Listed(p) : Key(e) = k}
      BY JoinedIs
    <3>3. \A k \in DOMAIN accruals : accruals[k] \subseteq Entry
      BY DEF Base, Types
    <3> QED
      BY <2>3, <3>1, <3>2, <3>3
  <2>6. period' \in Period
    <3>1. period.first \in Day /\ p.last \in Day /\ period.first <= p.last
      <4>1. period.first <= p.first /\ p.first <= p.last
        BY <2>1, <2>2 DEF Merging, Base, Phases, Period
      <4>2. period.first \in Day /\ p.first \in Day /\ p.last \in Day
        BY <2>2 DEF Base, Types, Period
      <4> QED
        BY <4>1, <4>2 DEF Day
    <3>2. period' = [first |-> period.first, last |-> p.last]
      BY <2>1 DEF Merging, Base, Types, Period
    <3> QED
      BY <3>1, <3>2 DEF Period
  <2>7. \A q \in files : period'.first <= q.first
    BY <2>1 DEF Merging, Base, Types, Phases, Period
  <2>8. DOMAIN assets' \subseteq Day
    BY <2>1, <2>2 DEF Base, Types, Period
  <2>9. todo' \subseteq files /\ flows' \subseteq Entry
    BY <2>1 DEF Merging, Base, Types
  <2> QED
    BY <2>1, <2>4, <2>5, <2>6, <2>7, <2>8, <2>9, ProgramKeeps DEF Merging
<1> QED
  BY <1>1, <1>2

(* What is made of the accruals of a dividend.                              *)
Making(k) ==
  /\ pc = "merging" /\ pc' = "merging" /\ todo = {} /\ k \in DividendKeys
  /\ Accepted("dividend", accruals[k]) /\ Accepted("tax", Accrued(TaxKey(k)))
  /\ Total(accruals[k]) # 0 \/ Total(Accrued(TaxKey(k))) = 0
  /\ result' = result \cup
        {d \in {[date |-> k.date, issuer |-> k.issuer, amount |-> Total(accruals[k]),
                 tax |-> Total(Accrued(TaxKey(k)))]} : d.amount # 0}
  /\ flows' = flows \cup accruals[k] \cup Accrued(TaxKey(k))
  /\ DOMAIN accruals' = DOMAIN accruals \ {k, TaxKey(k)}
  /\ \A x \in DOMAIN accruals' : accruals'[x] = accruals[x]
  /\ UNCHANGED <<world, files, listing, named, made, rules, todo, period, assets>>

(* A dividend that does not fail is made.                                   *)
LEMMA MakesOne ==
  ASSUME NEW k, ProcessDividend(k), ~Fail
  PROVE  Making(k)
<1>1. /\ pc = "merging" /\ todo = {} /\ k \in DividendKeys
      /\ ~(\/ ~Accepted("dividend", accruals[k]) \/ ~Accepted("tax", Accrued(TaxKey(k)))
           \/ Total(accruals[k]) = 0 /\ Total(Accrued(TaxKey(k))) # 0)
  BY DEF ProcessDividend
<1>2. /\ result' = result \cup
            {d \in {[date |-> k.date, issuer |-> k.issuer, amount |-> Total(accruals[k]),
                     tax |-> Total(Accrued(TaxKey(k)))]} : d.amount # 0}
      /\ flows' = flows \cup accruals[k] \cup Accrued(TaxKey(k))
      /\ accruals' = [x \in DOMAIN accruals \ {k, TaxKey(k)} |-> accruals[x]]
      /\ UNCHANGED <<world, files, listing, named, made, rules, todo, period, assets, pc>>
  BY <1>1 DEF ProcessDividend
<1>3. /\ DOMAIN accruals' = DOMAIN accruals \ {k, TaxKey(k)}
      /\ \A x \in DOMAIN accruals' : accruals'[x] = accruals[x]
  BY <1>2
<1> QED
  BY <1>1, <1>2, <1>3 DEF Making

(* Making a dividend keeps the types.                                       *)
LEMMA ProcessKeeps ==
  ASSUME Base, NEW k, ProcessDividend(k)
  PROVE  Base'
<1>1. CASE Fail
  BY <1>1, FailKeeps DEF ProcessDividend
<1>2. CASE ~Fail
  <2>1. Making(k)
    BY <1>2, MakesOne
  <2>2. accruals[k] \subseteq Entry /\ Accrued(TaxKey(k)) \subseteq Entry
    BY <2>1 DEF Making, DividendKeys, Accrued, Base, Types
  <2>3. flows' \subseteq Entry
    BY <2>1, <2>2 DEF Making, Base, Types
  <2>4. /\ DOMAIN accruals' \subseteq [kind : Kind, date : Day, issuer : Issuer]
        /\ \A x \in DOMAIN accruals' : accruals'[x] \subseteq Entry
    BY <2>1 DEF Making, Base, Types
  <2>5. /\ UNCHANGED <<world, files, listing, named, made, rules>> /\ todo' = todo
        /\ period' = period /\ assets' = assets /\ pc = "merging" /\ pc' = "merging"
    BY <2>1 DEF Making
  <2> QED
    BY <2>3, <2>4, <2>5, ProgramKeeps DEF Base, Types, Phases
<1> QED
  BY <1>1, <1>2

(* The check of what is left changes nothing.                               *)
LEMMA CheckKeeps ==
  ASSUME Base, CheckUnmatched
  PROVE  Base'
<1>1. CASE Fail
  BY <1>1, FailKeeps DEF CheckUnmatched
<1>2. CASE ~Fail
  <2>1. /\ pc = "merging" /\ todo = {} /\ pc' = "loaded" /\ UNCHANGED <<world, Program>>
    BY <1>2 DEF CheckUnmatched
  <2> QED
    BY <2>1, ProgramKeeps DEF Base, Types, Program, Phases
<1> QED
  BY <1>1, <1>2

(* Every step keeps the types.                                              *)
LEMMA BaseStep ==
  ASSUME Base, [Next]_vars
  PROVE  Base'
<1>1. CASE NextDay
  <2>1. /\ pc = "posting" /\ today < LastDay /\ today' = today + 1
        /\ UNCHANGED <<broker, postings, rows, terms, Program, pc>>
    BY <1>1 DEF NextDay
  <2>2. today' \in Day /\ today <= today' /\ today \in Day
    BY <2>1, LoadingAssumption DEF Day, Base, Types
  <2>3. \A r \in rows : r.posted <= today'
    BY <2>2 DEF Base, Posts, Types, RowType, Day
  <2>4. Types' /\ Phases'
    BY <2>1, <2>2 DEF Base, Types, Phases, Program
  <2>5. Posts'
    BY <2>1, <2>3 DEF Base, Posts
  <2> QED
    BY <2>4, <2>5 DEF Base
<1>2. ASSUME NEW issuer \in Issuer, NEW new \in Terms, PayDividend(issuer, new)
      PROVE  Base'
  <2> DEFINE i == [day |-> today, issuer |-> issuer]
  <2>1. i \in Id /\ \E A, B : Posting(i, new, today, A, B)
    BY <1>2, PaysAs
  <2> QED
    BY <2>1, PostingKeeps DEF Base, Types
<1>3. ASSUME NEW i \in Id, NEW new \in Terms \cup {Nothing}, NEW misdated \in BOOLEAN,
             Correct(i, new, misdated)
      PROVE  Base'
  <2>1. \E date \in Day : \E A, B : Posting(i, new, date, A, B)
    BY <1>3, CorrectsAs
  <2> QED
    BY <2>1, PostingKeeps
<1>4. CASE Finished \/ UNCHANGED vars
  <2>1. UNCHANGED vars
    BY <1>4 DEF Finished
  <2>2. Types' /\ Posts' /\ Phases'
    BY <2>1 DEF vars, world, Base, Types, Posts, Phases
  <2> QED
    BY <2>2 DEF Base
<1> QED
  BY <1>1, <1>2, <1>3, <1>4, DownloadKeeps, ReadKeeps, SortKeeps, MergeKeeps, ProcessKeeps,
     CheckKeeps DEF Next
-----------------------------------------------------------------------------
(* How far the merged statements reach.                                     *)

(* A day within the period that no statement need cover.                    *)
Skippable(d) ==
  \/ broker = "Sber"
  \/ broker = "Open" /\ MonthOf(d) = MonthOf(LastDate)
  \/ broker = "InteractiveBrokers"
       /\ (d \in Weekend \/ {d - 1, d + 1} \subseteq Covered \cup Weekend)

(* The period spans the merged statements, which precede the others; what   *)
(* they do not cover within it may be skipped.                              *)
Span ==
  pc \in {"merging", "loaded"} =>
    /\ Disjoint
    /\ broker \in {"Open", "Sber"} => period.first = 1
    /\ \E p \in files : p.first = period.first
    /\ todo # files => \E p \in files \ todo : p.last = period.last
    /\ \A p \in files \ todo : p.last <= period.last
    /\ todo # files => \A q \in todo : period.last < q.first
    /\ todo # files => \A d \in period.first .. period.last :
                         (\E p \in files : d \in p.first .. p.last) \/ Skippable(d)

(* Months follow one another.                                               *)
LEMMA MonthsFollow ==
  ASSUME NEW c \in Nat, NEW d \in Nat, c <= d
  PROVE  MonthOf(c) <= MonthOf(d)
<1> DEFINE L == MonthLength
           a == (c - 1) \div L
           b == (d - 1) \div L
<1>1. L \in Nat /\ L > 0
  BY LoadingAssumption
<1>2. /\ a \in Int /\ b \in Int
      /\ L * a <= c - 1 /\ c - 1 < L * (a + 1)
      /\ L * b <= d - 1 /\ d - 1 < L * (b + 1)
  BY <1>1
<1> HIDE DEF a, b
<1>3. SUFFICES ASSUME b < a
               PROVE  FALSE
  BY <1>2 DEF MonthOf, a, b
<1>4. b + 1 <= a
  BY <1>2, <1>3
<1>5. L * (b + 1) <= L * a
  BY <1>1, <1>2, <1>4
<1> QED
  BY <1>1, <1>2, <1>5

(* The last date is that of some statement, and no later one has one.       *)
LEMMA LastOfAll ==
  ASSUME Base, files # {}
  PROVE  /\ \E p \in files : LastDate = p.last
         /\ \A p \in files : p.last <= LastDate
<1> DEFINE S == {p.last : p \in files}
<1>1. S \in SUBSET (0 .. LastDay) /\ S # {}
  BY LoadingAssumption DEF Base, Types, Period, Day
<1>2. PICK m \in S : \A x \in S : x <= m
  BY <1>1, GreatestNumber, LoadingAssumption
<1>3. LastDate \in S /\ \A x \in S : x <= LastDate
  <2> HIDE DEF S
  <2>1. Max(S) \in S /\ \A x \in S : x <= Max(S)
    BY <1>2 DEF Max
  <2> QED
    BY <2>1 DEF LastDate, S
<1> QED
  BY <1>3

(* ... and are numbered.                                                    *)
LEMMA MonthOfInt ==
  ASSUME NEW d \in Nat
  PROVE  MonthOf(d) \in Int
  BY LoadingAssumption DEF MonthOf

(* What may follow leaves only days between that may be skipped.            *)
LEMMA GapsSkippable ==
  ASSUME Base, NEW p \in files, MayFollow(period, p), period.last < p.first,
         \E q \in files : q.last = period.last,
         NEW d \in Day, period.last < d, d < p.first
  PROVE  Skippable(d)
<1>1. /\ p \in Period /\ p.first \in Nat /\ p.last \in Nat /\ p.first <= p.last
      /\ period.last \in Nat /\ d \in Nat
  BY DEF Base, Types, Period, Day
<1>2. p.first # period.last + 1
  BY <1>1
<1>3. CASE broker = "InteractiveBrokers" /\ Cardinality(WorkdaysBetween(period, p)) <= 1
  <2> DEFINE W == WorkdaysBetween(period, p)
  <2>1. SUFFICES ASSUME d \notin Weekend
                 PROVE  {d - 1, d + 1} \subseteq Covered \cup Weekend
    BY <1>3 DEF Skippable
  <2>2. /\ W = (period.last + 1 .. p.first - 1) \ Weekend
        /\ IsFiniteSet(W) /\ d \in W
    <3>1. IsFiniteSet(period.last + 1 .. p.first - 1)
      <4>1. period.last + 1 \in Int /\ p.first - 1 \in Int
        BY <1>1
      <4> QED
        BY <4>1, FS_Interval
    <3> QED
      BY <1>1, <2>1, <3>1, FS_Subset DEF WorkdaysBetween
  <2>3. W = {d}
    <3> HIDE DEF W
    <3>1. Cardinality(W) \in Nat /\ Cardinality(W \ {d}) = Cardinality(W) - 1
          /\ IsFiniteSet(W \ {d})
      BY <2>2, FS_RemoveElement, FS_CardinalityType
    <3>2. Cardinality(W \ {d}) \in Nat
      BY <3>1, FS_CardinalityType
    <3>3. Cardinality(W) <= 1
      BY <1>3 DEF W
    <3>4. Cardinality(W \ {d}) = 0
      BY <3>1, <3>2, <3>3
    <3>5. W \ {d} = {}
      BY <3>1, <3>4, FS_EmptySet
    <3> QED
      BY <2>2, <3>5
  <2>4. \A x \in period.last + 1 .. p.first - 1 : x = d \/ x \in Weekend
    BY <2>2, <2>3
  <2>5. d - 1 \in Covered \cup Weekend
    <3>1. CASE d - 1 = period.last
      <4>1. PICK q \in files : q.last = period.last
        OBVIOUS
      <4>2. q.last \in q.first .. q.last
        BY <4>1 DEF Base, Types, Period, Day
      <4> QED
        BY <3>1, <4>1, <4>2 DEF Covered
    <3>2. CASE d - 1 # period.last
      BY <1>1, <2>4, <3>2
    <3> QED
      BY <3>1, <3>2
  <2>6. d + 1 \in Covered \cup Weekend
    <3>1. CASE d + 1 = p.first
      <4>1. p.first \in p.first .. p.last
        BY <1>1
      <4> QED
        BY <3>1, <4>1 DEF Covered
    <3>2. CASE d + 1 # p.first
      BY <1>1, <2>4, <3>2
    <3> QED
      BY <3>1, <3>2
  <2> QED
    BY <2>5, <2>6
<1>4. CASE broker = "Open" /\ InLastMonth(period, p)
  <2>1. p.last <= LastDate /\ LastDate \in Nat
    BY <1>1, LastOfAll DEF Base, Types, Period, Day
  <2>2. MonthOf(LastDate) <= MonthOf(period.last + 1)
    BY <1>4, <1>1, <2>1, MonthOfInt DEF InLastMonth
  <2>3. MonthOf(period.last + 1) <= MonthOf(d) /\ MonthOf(d) <= MonthOf(LastDate)
    BY <1>1, <2>1, MonthsFollow
  <2>4. MonthOf(d) = MonthOf(LastDate)
    BY <1>1, <2>1, <2>2, <2>3, MonthOfInt
  <2> QED
    BY <1>4, <2>4 DEF Skippable
<1>5. CASE broker = "Sber"
  BY <1>5 DEF Skippable
<1> QED
  BY <1>2, <1>3, <1>4, <1>5 DEF MayFollow

(* Sorting begins with the first statement, of an account that was empty    *)
(* before it if the broker tells.                                           *)
LEMMA SortSpans ==
  ASSUME Base, Sort, ~Fail
  PROVE  Span'
<1>1. /\ pc = "sorting" /\ todo' = files /\ period' = Earliest(files)
      /\ UNCHANGED <<world, files>>
      /\ ~(\E p, q \in files : p # q /\ Overlap(p, q)) /\ ~HasStartingAssets(Earliest(files))
  BY DEF Sort
<1>2. Earliest(files) \in files
  BY <1>1, FirstIsEarliest DEF Base, Types, Phases
<1>3. broker \in {"Open", "Sber"} => period'.first = 1
  BY <1>1, <1>2 DEF HasStartingAssets, Base, Types, Period, Day
<1>4. Disjoint'
  BY <1>1 DEF Disjoint, Overlap
<1>5. broker' = broker /\ files' = files /\ todo' = files
  BY <1>1 DEF world
<1> QED
  BY <1>1, <1>2, <1>3, <1>4, <1>5 DEF Span

(* A merge extends the period by a statement and by days that may be        *)
(* skipped.                                                                 *)
LEMMA MergeSpans ==
  ASSUME Base, Span, NEW p, Merging(p)
  PROVE  Span'
<1>1. /\ pc = "merging" /\ p \in todo /\ p \in files /\ p \in Period
      /\ \A q \in todo : p.first <= q.first
      /\ todo = files \/ MayFollow(period, p)
      /\ period' = [period EXCEPT !.last = p.last]
      /\ todo' = todo \ {p} /\ files' = files /\ broker' = broker
  BY DEF Merging, world
<1>2. /\ Disjoint
      /\ broker \in {"Open", "Sber"} => period.first = 1
      /\ \E q \in files : q.first = period.first
      /\ todo # files => \E q \in files \ todo : q.last = period.last
      /\ \A q \in files \ todo : q.last <= period.last
      /\ todo # files => \A q \in todo : period.last < q.first
      /\ todo # files => \A d \in period.first .. period.last :
                           (\E q \in files : d \in q.first .. q.last) \/ Skippable(d)
  BY <1>1 DEF Span
<1>3. \A q \in files : /\ q \in Period /\ q.first \in Day /\ q.last \in Day
                       /\ q.first <= q.last /\ period.first <= q.first
  BY <1>1 DEF Base, Types, Phases, Period
<1>4. /\ period'.first = period.first /\ period'.last = p.last
      /\ period.first \in Day /\ period.last \in Day
  BY <1>1 DEF Base, Types, Period
<1>5. Day \subseteq Nat
  BY DEF Day
<1>6. todo' # files
  BY <1>1
<1>7. \A q \in files \ todo' : q.last <= p.last
  <2> SUFFICES ASSUME NEW q \in files \ todo', q # p
               PROVE  q.last <= p.last
    BY <1>1, <1>3, <1>5
  <2>1. q.last <= period.last /\ todo # files
    BY <1>1, <1>2
  <2>2. period.last < p.first
    BY <1>1, <1>2, <2>1
  <2> QED
    BY <1>1, <1>3, <1>4, <1>5, <2>1, <2>2
<1>8. \A q \in todo' : p.last < q.first
  <2> SUFFICES ASSUME NEW q \in todo'
               PROVE  p.last < q.first
    OBVIOUS
  <2>1. q # p /\ q \in files /\ p.first <= q.first
    BY <1>1 DEF Base, Types
  <2>2. ~Overlap(p, q)
    BY <1>1, <1>2, <2>1 DEF Disjoint
  <2> QED
    BY <1>3, <1>1, <1>5, <2>1, <2>2 DEF Overlap
<1>9. \A d \in period.first .. p.last :
        (\E q \in files : d \in q.first .. q.last) \/ Skippable(d)
  <2> SUFFICES ASSUME NEW d \in period.first .. p.last
               PROVE  (\E q \in files : d \in q.first .. q.last) \/ Skippable(d)
    OBVIOUS
  <2>0. d \in Day /\ d \in Nat /\ period.last \in Nat
    BY <1>1, <1>3, <1>4, LoadingAssumption DEF Day
  <2>1. CASE p.first <= d
    BY <1>1, <1>3, <1>5, <2>0, <2>1
  <2>2. CASE todo = files
    <3>1. p.first <= period.first
      BY <1>1, <1>2, <2>2
    <3> QED
      BY <1>1, <1>3, <1>4, <1>5, <2>0, <2>1, <3>1
  <2>3. CASE todo # files /\ d <= period.last
    BY <1>2, <1>4, <1>5, <2>0, <2>3
  <2>4. CASE todo # files /\ period.last < d /\ d < p.first
    <3>1. MayFollow(period, p) /\ \E q \in files : q.last = period.last
      BY <1>1, <1>2, <2>4
    <3>2. period.last < p.first
      BY <1>1, <1>2, <2>4
    <3> QED
      BY <1>1, <2>0, <2>4, <3>1, <3>2, GapsSkippable
  <2>5. d <= period.last \/ period.last < d
    BY <1>4, <1>5, <2>0
  <2>6. p.first <= d \/ d < p.first
    BY <1>1, <1>3, <1>5, <2>0
  <2> QED
    BY <2>1, <2>2, <2>3, <2>4, <2>5, <2>6
<1>10. Disjoint' /\ \A d : Skippable(d)' <=> Skippable(d)
  <2>1. LastDate' = LastDate /\ Covered' = Covered
    BY <1>1 DEF LastDate, Covered
  <2> QED
    BY <1>1, <1>2, <2>1 DEF Disjoint, Skippable, Overlap, MonthOf
<1>11. /\ \E q \in files' \ todo' : q.last = period'.last
       /\ \A q \in files' \ todo' : q.last <= period'.last
       /\ \A q \in todo' : period'.last < q.first
       /\ \A d \in period'.first .. period'.last :
            (\E q \in files' : d \in q.first .. q.last) \/ Skippable(d)'
  BY <1>1, <1>4, <1>7, <1>8, <1>9, <1>10
<1>12. /\ broker' \in {"Open", "Sber"} => period'.first = 1
       /\ \E q \in files' : q.first = period'.first
  BY <1>1, <1>2, <1>4
<1> QED
  BY <1>10, <1>11, <1>12 DEF Span

(* Steps that read and merge nothing change nothing of the period.          *)
LEMMA SpanStays ==
  ASSUME Base, Span, UNCHANGED <<broker, files, todo, period>>,
         pc' \in {"merging", "loaded"} => pc \in {"merging", "loaded"}
  PROVE  Span'
<1>1. LastDate' = LastDate /\ Covered' = Covered
  BY DEF LastDate, Covered
<1>2. Disjoint' = Disjoint
  BY DEF Disjoint, Overlap
<1>3. \A d : Skippable(d)' <=> Skippable(d)
  BY <1>1 DEF Skippable, MonthOf
<1> QED
  BY <1>1, <1>2, <1>3 DEF Span

(* Every step keeps the span of the period.                                 *)
LEMMA SpanStep ==
  ASSUME Base, Span, [Next]_vars
  PROVE  Span'
<1>1. CASE pc' \notin {"merging", "loaded"}
  BY <1>1 DEF Span
<1>2. CASE pc' \in {"merging", "loaded"} /\ ~Fail
  <2>1. CASE Sort
    BY <1>2, <2>1, SortSpans
  <2>2. CASE Merge
    BY <1>2, <2>2, MergesEarliest, MergeSpans
  <2>3. ASSUME NEW k \in DOMAIN accruals, ProcessDividend(k)
        PROVE  Span'
    <3>1. Making(k)
      BY <1>2, <2>3, MakesOne
    <3> QED
      BY <3>1, SpanStays DEF Making, world
  <2>4. CASE CheckUnmatched
    <3>1. pc = "merging" /\ UNCHANGED <<world, Program>>
      BY <1>2, <2>4 DEF CheckUnmatched
    <3> QED
      BY <3>1, SpanStays DEF Program, world
  <2>5. CASE Finished \/ UNCHANGED vars
    <3>1. UNCHANGED vars
      BY <2>5 DEF Finished
    <3> QED
      BY <3>1, SpanStays DEF vars, world
  <2>6. CASE Read
    BY <1>2, <2>6 DEF Read
  <2>7. CASE NextDay
    BY <1>2, <2>7 DEF NextDay
  <2>8. ASSUME NEW issuer \in Issuer, NEW new \in Terms, PayDividend(issuer, new)
        PROVE  FALSE
    BY <1>2, <2>8 DEF PayDividend, Post
  <2>9. ASSUME NEW i \in Id, NEW new \in Terms \cup {Nothing}, NEW misdated \in BOOLEAN,
               Correct(i, new, misdated)
        PROVE  FALSE
    BY <1>2, <2>9 DEF Correct, Post
  <2>10. CASE Download
    BY <1>2, <2>10 DEF Download
  <2> QED
    BY <2>1, <2>2, <2>3, <2>4, <2>5, <2>6, <2>7, <2>8, <2>9, <2>10 DEF Next
<1>3. CASE Fail
  BY <1>3 DEF Fail, Span
<1> QED
  BY <1>1, <1>2, <1>3

(* The span accounts for every row that was not read.                       *)
LEMMA SpanAccounts ==
  ASSUME Base, Span
  PROVE  NothingMissed
<1> SUFFICES ASSUME pc = "loaded", NEW r \in rows \ ReadRows
             PROVE  \/ r.posted > LastDate
                    \/ broker \in {"Firstrade", "InteractiveBrokers"} /\ r.posted < period.first
                    \/ broker = "Open" /\ MonthOf(r.posted) = MonthOf(LastDate)
                    \/ /\ broker = "InteractiveBrokers"
                       /\ {r.posted - 1, r.posted + 1} \subseteq Covered \cup Weekend
                    \/ broker = "Sber"
  BY Zenon DEF NothingMissed
<1>1. /\ todo = {} /\ files # {}
  BY DEF Base, Phases
<1>2. /\ broker \in {"Open", "Sber"} => period.first = 1
      /\ \A p \in files : p.last <= period.last
      /\ \E p \in files : p.last = period.last
      /\ \A d \in period.first .. period.last :
           (\E p \in files : d \in p.first .. p.last) \/ Skippable(d)
  BY <1>1 DEF Span
<1>3. LastDate = period.last
  BY <1>1, <1>2, LastOfAll DEF Base, Types, Period, Day
<1>4. r.posted \in Day /\ r.posted \notin Weekend
  BY DEF Base, Types, Posts, RowType
<1>5. \A p \in files : ~(r.posted \in p.first .. p.last)
  <2> SUFFICES ASSUME NEW p \in files, r.posted \in p.first .. p.last
               PROVE  FALSE
    OBVIOUS
  <2>1. r \in Posted(p)
    BY DEF Posted
  <2> QED
    BY <2>1 DEF ReadRows
<1>6. period.first \in Nat /\ period.last \in Nat /\ r.posted \in Nat /\ r.posted >= 1
  BY <1>4 DEF Base, Types, Period, Day
<1>7. CASE r.posted < period.first
  <2>1. broker \in {"InteractiveBrokers", "Firstrade", "Open", "Sber"}
    BY LoadingAssumption DEF Base, Types
  <2> QED
    BY <1>2, <1>6, <1>7, <2>1
<1>8. CASE r.posted \in period.first .. period.last
  <2>1. Skippable(r.posted)
    BY <1>2, <1>5, <1>8
  <2> QED
    BY <1>4, <2>1 DEF Skippable
<1> QED
  BY <1>3, <1>6, <1>7, <1>8

(* Whatever the calendar, the strategies of the brokers and the statements, *)
(* between the first and the last one nothing is missing but what the       *)
(* broker's way of reporting leaves open (merging.rs validate, brokers      *)
(* get_info).                                                               *)
THEOREM NothingIsMissed == Spec => []NothingMissed
<1>1. Init => Base /\ Span
  <2>1. Init => Span
    BY DEF Init, Span
  <2> QED
    BY <2>1, BaseInit
<1>2. Base /\ Span /\ [Next]_vars => (Base /\ Span)'
  BY BaseStep, SpanStep
<1>3. Base /\ Span => NothingMissed
  BY SpanAccounts
<1> QED
  BY <1>1, <1>2, <1>3, PTL DEF Spec

-----------------------------------------------------------------------------
(* What was read and where it is.                                           *)

Entries == UNION {Listed(p) : p \in files \ todo}

EntriesOf(k) == {e \in Entries : Key(e) = k}

MergedKeys == {Key(e) : e \in Entries}

DividendKey(k) == [k EXCEPT !.kind = "dividend"]

(* Dividends that were processed.                                           *)
Done == {k \in MergedKeys \ DOMAIN accruals : k.kind = "dividend"}

Made(k) ==
  [date |-> k.date, issuer |-> k.issuer, amount |-> Total(EntriesOf(k)),
   tax |-> Total(EntriesOf(TaxKey(k)))]

(* Accruals hold all merged entries of their key.  Those of other keys were *)
(* made into dividends, every one together with its tax, and none that came *)
(* to nothing had a tax.                                                    *)
Gathered ==
  pc \in {"merging", "loaded"} =>
    /\ DOMAIN accruals \subseteq MergedKeys
    /\ \A k \in DOMAIN accruals : accruals[k] = EntriesOf(k)
    /\ todo # {} => MergedKeys \subseteq DOMAIN accruals
    /\ flows = {e \in Entries : Key(e) \notin DOMAIN accruals}
    /\ \A k \in MergedKeys \ DOMAIN accruals : k.kind = "tax" => DividendKey(k) \in Done
    /\ \A k \in Done : /\ TaxKey(k) \notin DOMAIN accruals
                       /\ Accepted("dividend", EntriesOf(k))
                       /\ Accepted("tax", EntriesOf(TaxKey(k)))
    /\ result = {d \in {Made(k) : k \in Done} : d.amount # 0}
    /\ \A k \in Done : Total(EntriesOf(k)) # 0 \/ Total(EntriesOf(TaxKey(k))) = 0
    /\ pc = "loaded" =>
         DividendKeys = {} /\ \A k \in DOMAIN accruals : RefundOnly(accruals[k])

(* The statements list what they do as long as the world, the choice of     *)
(* sections and the rules stay.                                             *)
LEMMA ListingStays ==
  ASSUME UNCHANGED <<world, listing, rules>>
  PROVE  \A p : Listed(p)' = Listed(p)
<1>1. \A p : Posted(p)' = Posted(p)
  BY DEF Posted, world
<1>2. \A r : FromCash(r)' = FromCash(r) /\ FromFunds(r)' = FromFunds(r)
  BY DEF FromCash, FromFunds
<1> QED
  BY <1>1, <1>2 DEF Listed

(* Steps that move nothing keep everything where it is.                     *)
LEMMA GatheredStays ==
  ASSUME Gathered,
         UNCHANGED <<world, listing, rules, files, todo, accruals, flows, result>>,
         pc' \in {"merging", "loaded"} => pc \in {"merging", "loaded"},
         pc' = "loaded" =>
           DividendKeys = {} /\ \A k \in DOMAIN accruals : RefundOnly(accruals[k])
  PROVE  Gathered'
<1>1. Entries' = Entries
  BY ListingStays DEF Entries
<1>2. MergedKeys' = MergedKeys /\ \A k : EntriesOf(k)' = EntriesOf(k)
  BY <1>1 DEF MergedKeys, EntriesOf, Key
<1>3. Done' = Done /\ \A k : Made(k)' = Made(k)
  BY <1>2 DEF Done, Made, Total, TaxKey
<1>4. DividendKeys' = DividendKeys
  BY DEF DividendKeys
<1>5. flows' = flows /\ accruals' = accruals /\ result' = result /\ todo' = todo
  OBVIOUS
<1>6. \A k : /\ Accepted("dividend", EntriesOf(k))' <=> Accepted("dividend", EntriesOf(k))
             /\ Accepted("tax", EntriesOf(TaxKey(k)))' <=> Accepted("tax", EntriesOf(TaxKey(k)))
  BY <1>2 DEF Accepted, Reversals, WithAmount, Total, world, TaxKey
<1>7. pc' \in {"merging", "loaded"} =>
        /\ DOMAIN accruals' \subseteq MergedKeys'
        /\ \A k \in DOMAIN accruals' : accruals'[k] = EntriesOf(k)'
        /\ todo' # {} => MergedKeys' \subseteq DOMAIN accruals'
        /\ \A k \in MergedKeys' \ DOMAIN accruals' :
             k.kind = "tax" => DividendKey(k) \in Done'
  BY <1>2, <1>3, <1>5 DEF Gathered
<1>8. pc' \in {"merging", "loaded"} => flows' = {e \in Entries' : Key(e) \notin DOMAIN accruals'}
  BY <1>1, <1>5 DEF Gathered
<1>9. pc' \in {"merging", "loaded"} =>
        \A k \in Done' : /\ TaxKey(k) \notin DOMAIN accruals'
                         /\ Accepted("dividend", EntriesOf(k))'
                         /\ Accepted("tax", EntriesOf(TaxKey(k)))'
  BY <1>2, <1>3, <1>5, <1>6 DEF Gathered
<1>10. pc' \in {"merging", "loaded"} =>
         result' = {d \in {Made(k)' : k \in Done'} : d.amount # 0}
  <2>1. {Made(k)' : k \in Done'} = {Made(k) : k \in Done}
    BY <1>3
  <2> QED
    BY <1>5, <2>1 DEF Gathered
<1>11. pc' \in {"merging", "loaded"} =>
         \A k \in Done' : Total(EntriesOf(k))' # 0 \/ Total(EntriesOf(TaxKey(k)))' = 0
  <2>1. \A k : /\ Total(EntriesOf(k))' = Total(EntriesOf(k))
               /\ Total(EntriesOf(TaxKey(k)))' = Total(EntriesOf(TaxKey(k)))
    BY <1>2 DEF Total, TaxKey
  <2> QED
    BY <1>3, <2>1 DEF Gathered
<1> QED
  BY <1>4, <1>5, <1>7, <1>8, <1>9, <1>10, <1>11 DEF Gathered

(* A merge adds the entries of a statement to what was read, and puts them  *)
(* under their keys.                                                        *)
LEMMA MergeGathers ==
  ASSUME Base, Gathered, NEW p, Merging(p)
  PROVE  Gathered'
<1>1. /\ pc = "merging" /\ pc' = "merging" /\ p \in todo /\ p \in files
      /\ accruals' = Joined(p) /\ todo' = todo \ {p} /\ todo \subseteq files
      /\ UNCHANGED <<world, files, listing, rules, result, flows>>
  BY DEF Merging, Base, Types
<1>2. Entries' = Entries \cup Listed(p)
  <2>1. files' \ todo' = (files \ todo) \cup {p}
    BY <1>1
  <2>2. \A q : Listed(q)' = Listed(q)
    BY <1>1, ListingStays
  <2> QED
    BY <2>1, <2>2 DEF Entries
<1>3. /\ MergedKeys' = MergedKeys \cup {Key(e) : e \in Listed(p)}
      /\ \A k : EntriesOf(k)' = EntriesOf(k) \cup {e \in Listed(p) : Key(e) = k}
  BY <1>2 DEF MergedKeys, EntriesOf, Key
<1>4. /\ DOMAIN accruals = MergedKeys
      /\ \A k \in DOMAIN accruals : accruals[k] = EntriesOf(k)
      /\ flows = {e \in Entries : Key(e) \notin DOMAIN accruals}
      /\ result = {d \in {Made(k) : k \in Done} : d.amount # 0}
  BY <1>1 DEF Gathered
<1>5. \A k : k \notin MergedKeys => EntriesOf(k) = {}
  BY DEF MergedKeys, EntriesOf
<1>6. flows = {} /\ result = {}
  <2>1. Done = {}
    BY <1>4 DEF Done
  <2>2. flows = {}
    BY <1>4 DEF MergedKeys
  <2> QED
    BY <1>4, <2>1, <2>2
<1>7. DOMAIN accruals' = MergedKeys'
  BY <1>1, <1>3, <1>4, JoinedIs
<1>8. \A k \in DOMAIN accruals' : accruals'[k] = EntriesOf(k)'
  <2> SUFFICES ASSUME NEW k \in DOMAIN accruals'
               PROVE  accruals'[k] = EntriesOf(k)'
    OBVIOUS
  <2>1. CASE k \in DOMAIN accruals
    <3>1. k \in DOMAIN Joined(p)
      BY <1>1
    <3>2. Joined(p)[k] = accruals[k] \cup {e \in Listed(p) : Key(e) = k}
      BY <2>1, <3>1, JoinedIs
    <3>3. accruals[k] = EntriesOf(k)
      BY <1>4, <2>1
    <3>4. EntriesOf(k)' = EntriesOf(k) \cup {e \in Listed(p) : Key(e) = k}
      BY <1>3
    <3> QED
      BY <1>1, <3>2, <3>3, <3>4
  <2>2. CASE k \notin DOMAIN accruals
    BY <1>1, <1>3, <1>4, <1>5, <2>2, JoinedIs
  <2> QED
    BY <2>1, <2>2
<1>9. Done' = {} /\ \A e \in Entries' : Key(e) \in DOMAIN accruals'
  BY <1>7 DEF Done, MergedKeys, Key
<1>10. flows' = {} /\ result' = {} /\ pc' # "loaded"
  BY <1>1, <1>6
<1> QED
  BY <1>7, <1>8, <1>9, <1>10 DEF Gathered

(* A key and that of the tax.                                               *)
LEMMA KeysPair ==
  ASSUME NEW k \in [kind : Kind, date : Day, issuer : Issuer]
  PROVE  /\ TaxKey(k) \in [kind : Kind, date : Day, issuer : Issuer]
         /\ TaxKey(k).kind = "tax" /\ DividendKey(k).kind = "dividend"
         /\ TaxKey(k).date = k.date /\ TaxKey(k).issuer = k.issuer
         /\ DividendKey(k).date = k.date /\ DividendKey(k).issuer = k.issuer
         /\ k.kind = "dividend" => DividendKey(TaxKey(k)) = k
         /\ k.kind = "tax" => TaxKey(DividendKey(k)) = k
         /\ k.kind = "tax" \/ k.kind = "dividend"
<1>1. k = [kind |-> k.kind, date |-> k.date, issuer |-> k.issuer]
  OBVIOUS
<1>2. /\ TaxKey(k) = [kind |-> "tax", date |-> k.date, issuer |-> k.issuer]
      /\ DividendKey(k) = [kind |-> "dividend", date |-> k.date, issuer |-> k.issuer]
  BY DEF TaxKey, DividendKey
<1> QED
  BY <1>1, <1>2 DEF Kind, TaxKey, DividendKey

(* What is accrued of a dividend and its tax are all their entries.         *)
LEMMA AccruedAll ==
  ASSUME Base, Gathered, pc = "merging", NEW k \in DOMAIN accruals, k.kind = "dividend"
  PROVE  accruals[k] = EntriesOf(k) /\ Accrued(TaxKey(k)) = EntriesOf(TaxKey(k))
<1>1. /\ \A x \in DOMAIN accruals : accruals[x] = EntriesOf(x)
      /\ \A x \in MergedKeys \ DOMAIN accruals : x.kind = "tax" => DividendKey(x) \in Done
  BY DEF Gathered
<1>2. TaxKey(k).kind = "tax" /\ DividendKey(TaxKey(k)) = k
  BY KeysPair DEF Base, Types
<1>3. CASE TaxKey(k) \in DOMAIN accruals
  BY <1>1, <1>3 DEF Accrued
<1>4. CASE TaxKey(k) \notin DOMAIN accruals
  <2>1. TaxKey(k) \notin MergedKeys
    BY <1>1, <1>2, <1>4 DEF Done
  <2>2. EntriesOf(TaxKey(k)) = {}
    BY <2>1 DEF MergedKeys, EntriesOf
  <2> QED
    BY <1>1, <1>4, <2>2 DEF Accrued
<1> QED
  BY <1>3, <1>4

(* A dividend is made of all entries of its key and of its tax, which are   *)
(* then gone.                                                               *)
LEMMA MakingGathers ==
  ASSUME Base, Gathered, NEW k, Making(k)
  PROVE  Gathered'
<1>1. /\ pc = "merging" /\ pc' = "merging" /\ todo = {} /\ todo' = todo
      /\ k \in DOMAIN accruals /\ k.kind = "dividend"
      /\ UNCHANGED <<world, files, listing, rules>>
      /\ DOMAIN accruals' = DOMAIN accruals \ {k, TaxKey(k)}
      /\ \A x \in DOMAIN accruals' : accruals'[x] = accruals[x]
  BY DEF Making, DividendKeys
<1>2. k \in [kind : Kind, date : Day, issuer : Issuer]
  BY <1>1 DEF Base, Types
<1>3. /\ DOMAIN accruals \subseteq MergedKeys
      /\ \A x \in DOMAIN accruals : accruals[x] = EntriesOf(x)
      /\ flows = {e \in Entries : Key(e) \notin DOMAIN accruals}
      /\ \A x \in MergedKeys \ DOMAIN accruals : x.kind = "tax" => DividendKey(x) \in Done
      /\ \A x \in Done : /\ TaxKey(x) \notin DOMAIN accruals
                         /\ Accepted("dividend", EntriesOf(x))
                         /\ Accepted("tax", EntriesOf(TaxKey(x)))
      /\ result = {d \in {Made(x) : x \in Done} : d.amount # 0}
      /\ \A x \in Done : Total(EntriesOf(x)) # 0 \/ Total(EntriesOf(TaxKey(x))) = 0
  BY <1>1 DEF Gathered
<1>4. Entries' = Entries
  BY <1>1, ListingStays DEF Entries
<1>5. MergedKeys' = MergedKeys /\ \A x : EntriesOf(x)' = EntriesOf(x)
  BY <1>4 DEF MergedKeys, EntriesOf, Key
<1>6. /\ TaxKey(k).kind = "tax" /\ DividendKey(TaxKey(k)) = k
      /\ \A x : TaxKey(x)' = TaxKey(x) /\ DividendKey(x)' = DividendKey(x)
  BY <1>1, <1>2, KeysPair DEF TaxKey, DividendKey
<1>7. Accrued(TaxKey(k)) = EntriesOf(TaxKey(k))
  BY <1>1, AccruedAll
<1>8. Done' = Done \cup {k}
  BY <1>1, <1>3, <1>5, <1>6 DEF Done
<1>9. accruals[k] = EntriesOf(k)
  BY <1>1, <1>3
<1>10. /\ DOMAIN accruals' \subseteq MergedKeys'
       /\ \A x \in DOMAIN accruals' : accruals'[x] = EntriesOf(x)'
  BY <1>1, <1>3, <1>5
<1>11. \A x \in MergedKeys' \ DOMAIN accruals' : x.kind = "tax" => DividendKey(x) \in Done'
  BY <1>1, <1>3, <1>5, <1>6, <1>8
<1>12. flows' = {e \in Entries' : Key(e) \notin DOMAIN accruals'}
  <2>1. flows' = flows \cup EntriesOf(k) \cup EntriesOf(TaxKey(k))
    BY <1>7, <1>9 DEF Making
  <2> QED
    BY <1>1, <1>3, <1>4, <2>1 DEF EntriesOf
<1>13. \A x \in Done' : /\ TaxKey(x) \notin DOMAIN accruals'
                        /\ Accepted("dividend", EntriesOf(x))'
                        /\ Accepted("tax", EntriesOf(TaxKey(x)))'
  <2>1. \A x : /\ Accepted("dividend", EntriesOf(x))' <=> Accepted("dividend", EntriesOf(x))
               /\ Accepted("tax", EntriesOf(TaxKey(x)))'
                    <=> Accepted("tax", EntriesOf(TaxKey(x)))
    BY <1>1, <1>5, <1>6 DEF Accepted, Reversals, WithAmount, Total, world
  <2>2. Accepted("dividend", EntriesOf(k)) /\ Accepted("tax", EntriesOf(TaxKey(k)))
    BY <1>7, <1>9 DEF Making
  <2> QED
    BY <1>1, <1>3, <1>8, <2>1, <2>2
<1>14. result' = {d \in {Made(x)' : x \in Done'} : d.amount # 0}
  <2>1. \A x : Made(x)' = Made(x)
    BY <1>5, <1>6 DEF Made, Total
  <2>2. result' = result \cup {d \in {Made(k)} : d.amount # 0}
    BY <1>7, <1>9 DEF Making, Made
  <2>3. {Made(x)' : x \in Done'} = {Made(x) : x \in Done} \cup {Made(k)}
    BY <1>8, <2>1
  <2> QED
    BY <1>3, <2>2, <2>3
<1>15. todo' = {} /\ pc' # "loaded"
  BY <1>1
<1>16. \A x \in Done' : Total(EntriesOf(x))' # 0 \/ Total(EntriesOf(TaxKey(x)))' = 0
  <2>1. \A x : /\ Total(EntriesOf(x))' = Total(EntriesOf(x))
               /\ Total(EntriesOf(TaxKey(x)))' = Total(EntriesOf(TaxKey(x)))
    BY <1>5, <1>6 DEF Total
  <2>2. Total(EntriesOf(k)) # 0 \/ Total(EntriesOf(TaxKey(k))) = 0
    BY <1>7, <1>9 DEF Making
  <2> QED
    BY <1>3, <1>8, <2>1, <2>2
<1> QED
  BY <1>10, <1>11, <1>12, <1>13, <1>14, <1>15, <1>16 DEF Gathered

(* Every step keeps what was read where it belongs.                         *)
LEMMA GatheredStep ==
  ASSUME Base, Gathered, [Next]_vars
  PROVE  Gathered'
<1>1. CASE pc' \notin {"merging", "loaded"}
  BY <1>1 DEF Gathered
<1>2. CASE pc' \in {"merging", "loaded"} /\ ~Fail
  <2>1. CASE Sort
    <3>1. /\ pc = "sorting" /\ todo' = files /\ pc' = "merging"
          /\ UNCHANGED <<files, accruals, flows, result>>
      BY <1>2, <2>1 DEF Sort
    <3>2. DOMAIN accruals = {} /\ flows = {} /\ result = {}
      BY <3>1 DEF Base, Phases
    <3>3. Entries' = {} /\ DOMAIN accruals' = {} /\ flows' = {} /\ result' = {}
      BY <3>1, <3>2 DEF Entries
    <3>4. MergedKeys' = {} /\ Done' = {}
      BY <3>3 DEF MergedKeys, Done
    <3> QED
      BY <3>1, <3>3, <3>4 DEF Gathered
  <2>2. CASE Merge
    BY <1>2, <2>2, MergesEarliest, MergeGathers
  <2>3. ASSUME NEW k \in DOMAIN accruals, ProcessDividend(k)
        PROVE  Gathered'
    BY <1>2, <2>3, MakesOne, MakingGathers
  <2>4. CASE CheckUnmatched
    <3>1. /\ pc = "merging" /\ UNCHANGED <<world, Program>>
          /\ DividendKeys = {} /\ \A k \in DOMAIN accruals : RefundOnly(accruals[k])
      BY <1>2, <2>4 DEF CheckUnmatched
    <3> QED
      BY <3>1, GatheredStays DEF Program
  <2>5. CASE Finished \/ UNCHANGED vars
    <3>1. UNCHANGED vars
      BY <2>5 DEF Finished
    <3> QED
      BY <1>2, <3>1, GatheredStays DEF vars, world, Gathered
  <2>6. CASE Read
    BY <1>2, <2>6 DEF Read
  <2>7. CASE NextDay
    BY <1>2, <2>7 DEF NextDay
  <2>8. ASSUME NEW issuer \in Issuer, NEW new \in Terms, PayDividend(issuer, new)
        PROVE  FALSE
    BY <1>2, <2>8 DEF PayDividend, Post
  <2>9. ASSUME NEW i \in Id, NEW new \in Terms \cup {Nothing}, NEW misdated \in BOOLEAN,
               Correct(i, new, misdated)
        PROVE  FALSE
    BY <1>2, <2>9 DEF Correct, Post
  <2>10. CASE Download
    BY <1>2, <2>10 DEF Download
  <2> QED
    BY <2>1, <2>2, <2>3, <2>4, <2>5, <2>6, <2>7, <2>8, <2>9, <2>10 DEF Next
<1>3. CASE Fail
  BY <1>3 DEF Fail, Gathered
<1> QED
  BY <1>1, <1>2, <1>3

(* The entries of one row are one, although statements are many.            *)
LEMMA RowsOnce ==
  ASSUME Base, Disjoint, NEW e \in Entries, NEW f \in Entries, e.row = f.row
  PROVE  e = f
<1>1. PICK p \in files : e \in Listed(p)
  BY DEF Entries
<1>2. PICK q \in files : f \in Listed(q)
  BY DEF Entries
<1>3. p \in Period /\ q \in Period
  BY DEF Base, Types
<1>4. e.row \in Posted(p) /\ e.row \in Posted(q) /\ e.row.posted \in Nat
  BY <1>1, <1>2, <1>3, ListedOnce DEF Posted, Base, Types, RowType, Day
<1>5. Overlap(p, q)
  BY <1>3, <1>4 DEF Posted, Overlap, Period, Day
<1>6. p = q
  BY <1>5 DEF Disjoint
<1> QED
  BY <1>1, <1>2, <1>3, <1>6, ListedOnce

(* Statements are loaded with nothing left over but refunds.                *)
LEMMA RefundsLeft ==
  ASSUME Base, Span, Gathered
  PROVE  OnlyRefundsDropped
<1> SUFFICES ASSUME pc = "loaded"
             PROVE  /\ \A r \in ReadRows :
                         r.amount > 0 \/ r.kind = "dividend" => \E e \in flows : e.row = r
                    /\ \A e, f \in flows : e.row = f.row => e = f
  BY DEF OnlyRefundsDropped
<1>1. /\ todo = {} /\ Disjoint
      /\ \A k \in DOMAIN accruals : accruals[k] = EntriesOf(k)
      /\ flows = {e \in Entries : Key(e) \notin DOMAIN accruals}
      /\ DividendKeys = {} /\ \A k \in DOMAIN accruals : RefundOnly(accruals[k])
  BY DEF Gathered, Base, Phases, Span
<1>2. ASSUME NEW r \in ReadRows, r.amount > 0 \/ r.kind = "dividend"
      PROVE  \E e \in flows : e.row = r
  <2>1. PICK p \in files : r \in Posted(p)
    BY DEF ReadRows
  <2>2. PICK e \in Listed(p) : e.row = r
    BY <2>1, ListedOnce DEF Base, Types
  <2>3. e \in Entries /\ e \in Entry
    BY <1>1, <2>1, <2>2, ListedOnce DEF Entries, Base, Types
  <2>4. SUFFICES ASSUME Key(e) \in DOMAIN accruals
                 PROVE  FALSE
    BY <1>1, <2>2, <2>3
  <2>5. e \in accruals[Key(e)] /\ RefundOnly(accruals[Key(e)])
    BY <1>1, <2>3, <2>4 DEF EntriesOf
  <2>6. e.row.amount < 0
    BY <2>5 DEF RefundOnly, Reversals
  <2>7. Key(e).kind = "dividend"
    BY <1>2, <2>2, <2>3, <2>6, KeysAre DEF Entry, RowType
  <2> QED
    BY <1>1, <2>4, <2>7 DEF DividendKeys
<1>3. \A e, f \in flows : e.row = f.row => e = f
  BY <1>1, RowsOnce
<1> QED
  BY <1>2, <1>3

(* Whatever is posted, reversed, listed in two sections and spread over     *)
(* statements, a statement that loads has made every income and every tax   *)
(* that was charged into dividends and movements of cash, once (load_inner, *)
(* process_dividend_accruals, Payments::is_refund_only).                    *)
THEOREM OnlyRefundsAreDropped == Spec => []OnlyRefundsDropped
<1>1. Init => Base /\ Span /\ Gathered
  <2>1. Init => Span /\ Gathered
    BY DEF Init, Span, Gathered
  <2> QED
    BY <2>1, BaseInit
<1>2. Base /\ Span /\ Gathered /\ [Next]_vars => (Base /\ Span /\ Gathered)'
  BY BaseStep, SpanStep, GatheredStep
<1>3. Base /\ Span /\ Gathered => OnlyRefundsDropped
  BY RefundsLeft
<1> QED
  BY <1>1, <1>2, <1>3, PTL DEF Spec

-----------------------------------------------------------------------------
(* What the amounts come to.                                                *)

(* There are finitely many entries.                                         *)
LEMMA EntriesFinite ==
  ASSUME Base
  PROVE  Entries \subseteq Entry /\ IsFiniteSet(Entries)
<1> DEFINE c == [r \in rows |-> FromCash(r)]
           u == [r \in rows |-> FromFunds(r)]
           A == {c[r] : r \in rows}
           B == {u[r] : r \in rows}
<1>1. IsFiniteSet(rows)
  BY DEF Base, Posts
<1>2. IsFiniteSet(A) /\ IsFiniteSet(B)
  <2> HIDE DEF c, u
  <2> QED
    BY <1>1, ImageFinite
<1>3. \A p \in files : Listed(p) \subseteq A \cup B /\ Listed(p) \subseteq Entry
  <2> SUFFICES ASSUME NEW p \in files, NEW e \in Listed(p)
               PROVE  e \in A \cup B /\ e \in Entry
    OBVIOUS
  <2>1. \A r \in Posted(p) : r \in rows
    BY DEF Posted
  <2>2. \E r \in Posted(p) : e = FromCash(r) \/ e = FromFunds(r)
    BY DEF Listed
  <2>3. e \in Entry
    BY ListedOnce DEF Base, Types
  <2> QED
    BY <2>1, <2>2, <2>3
<1> HIDE DEF A, B
<1>4. Entries \subseteq A \cup B /\ Entries \subseteq Entry
  BY <1>3 DEF Entries
<1>5. IsFiniteSet(A \cup B)
  BY <1>2, FS_Union
<1> QED
  BY <1>4, <1>5, FS_Subset

Magnitude(x) == IF x < 0 THEN -x ELSE x

(* Naturals that are finitely many have a bound.                            *)
LEMMA FiniteBounded ==
  ASSUME NEW S, IsFiniteSet(S), NEW f, \A x \in S : f[x] \in Nat
  PROVE  \E n \in Nat : \A x \in S : f[x] <= n
<1> DEFINE n == SumFunctionOnSet(f, S)
<1>1. Summable(f, S) /\ n \in Nat
  BY SumNatural DEF Summable
<1>2. \A x \in S : f[x] <= n
  <2> SUFFICES ASSUME NEW x \in S
               PROVE  f[x] <= n
    OBVIOUS
  <2>1. SumFunctionOnSet(f, S) = f[x] + SumFunctionOnSet(f, S \ {x})
    BY <1>1, SumElement
  <2>2. IsFiniteSet(S \ {x}) /\ \A y \in S \ {x} : f[y] \in Nat
    BY FS_RemoveElement
  <2>3. SumFunctionOnSet(f, S \ {x}) \in Nat
    BY <2>2, SumNatural
  <2> HIDE DEF n
  <2> QED
    BY <2>1, <2>3 DEF n
<1> HIDE DEF n
<1> QED
  BY <1>1, <1>2

(* Reversals that all have a payment of their own leave nothing negative,   *)
(* in whatever order they come.                                             *)
LEMMA PairedNatural ==
  ASSUME NEW S \in SUBSET Entry, IsFiniteSet(S),
         \A e \in Reversals(S) :
           Cardinality(WithAmount(S, e.row.amount)) <= Cardinality(WithAmount(S, -e.row.amount))
  PROVE  Total(S) \in Nat
<1> DEFINE f == [e \in S |-> e.row.amount]
           label == [e \in S |-> Magnitude(e.row.amount)]
<1>1. \A e \in S : e.row.amount \in Int \ {0} /\ label[e] \in Nat /\ f[e] = e.row.amount
                   /\ label[e] = Magnitude(e.row.amount)
  BY DEF Entry, RowType, Magnitude
<1>2. Summable(f, S)
  BY <1>1 DEF Summable
<1> HIDE DEF f, label
<1>3. PICK n \in Nat : \A e \in S : label[e] <= n
  BY <1>1, FiniteBounded
<1> DEFINE part == [y \in 0 .. n |-> {e \in S : label[e] = y}]
           g == [y \in 0 .. n |-> SumFunctionOnSet(f, part[y])]
<1>4. ASSUME NEW y \in 0 .. n
      PROVE  part[y] \in SUBSET S /\ g[y] = SumFunctionOnSet(f, part[y]) /\ g[y] \in Nat
  <2> DEFINE P == WithAmount(S, y)
             N == WithAmount(S, -y)
  <2>1. part[y] = {e \in S : label[e] = y} /\ g[y] = SumFunctionOnSet(f, part[y])
    OBVIOUS
  <2> HIDE DEF part, g
  <2>2. part[y] \in SUBSET S
    BY <2>1
  <2>3. P \in SUBSET S /\ N \in SUBSET S /\ IsFiniteSet(P) /\ IsFiniteSet(N)
        /\ Cardinality(P) \in Nat /\ Cardinality(N) \in Nat
    BY FS_Subset, FS_CardinalityType DEF WithAmount
  <2>4. CASE y = 0
    <3>1. part[y] = {}
      BY <1>1, <2>1, <2>4 DEF Magnitude
    <3> QED
      BY <2>1, <2>2, <3>1, SumEmpty
  <2>5. CASE y # 0
    <3>1. y \in Nat /\ -y \in Int
      OBVIOUS
    <3>2. P \cap N = {} /\ part[y] = P \cup N
      BY <1>1, <2>1, <2>5, <3>1 DEF Magnitude, WithAmount
    <3>3. (\A e \in P : f[e] = y) /\ (\A e \in N : f[e] = -y)
      BY <1>1 DEF WithAmount
    <3>4. Cardinality(N) <= Cardinality(P)
      <4>1. CASE N = {}
        BY <2>3, <4>1, FS_EmptySet
      <4>2. CASE N # {}
        <5>1. PICK e \in N : TRUE
          BY <4>2
        <5>2. e \in Reversals(S) /\ e.row.amount = -y /\ -e.row.amount = y
          BY <2>5, <3>1, <5>1 DEF WithAmount, Reversals
        <5> QED
          BY <5>2
      <4> QED
        BY <4>1, <4>2
    <3> HIDE DEF P, N
    <3>5. SumFunctionOnSet(f, P \cup N) = SumFunctionOnSet(f, P) + SumFunctionOnSet(f, N)
      BY <1>2, <2>3, <3>2, SumUnion
    <3>6. SumFunctionOnSet(f, P) = y * Cardinality(P)
      <4>1. y \in Int /\ IsFiniteSet(P) /\ \A e \in P : f[e] = y
        BY <2>3, <3>1, <3>3
      <4> QED
        BY ONLY <4>1, SumConstant
    <3>7. SumFunctionOnSet(f, N) = (-y) * Cardinality(N)
      <4>1. PICK c \in Int : c = -y
        BY <3>1
      <4>2. \A e \in N : f[e] = c
        BY <3>3, <4>1
      <4>3. SumFunctionOnSet(f, N) = c * Cardinality(N)
        BY <2>3, <4>2, SumConstant
      <4> QED
        BY <4>1, <4>3
    <3>8. PICK a \in Nat, b \in Nat : a = Cardinality(P) /\ b = Cardinality(N)
      BY <2>3
    <3>9. y * a + (-y) * b = y * (a - b) /\ a - b \in Nat
      BY <3>1, <3>4, <3>8
    <3>10. y * (a - b) \in Nat
      BY <3>1, <3>9
    <3> QED
      BY <2>1, <2>2, <3>2, <3>5, <3>6, <3>7, <3>8, <3>9, <3>10
  <2> QED
    BY <2>4, <2>5
<1>5. \A e \in S : label[e] \in 0 .. n
  BY <1>1, <1>3
<1>6. \A y \in 0 .. n : \A e \in S : e \in part[y] <=> label[e] = y
  OBVIOUS
<1> HIDE DEF part, g
<1>7. SumsParts(g, n, f, S, label, part)
  BY <1>4, <1>5, <1>6 DEF SumsParts
<1>8. SumFunctionOnSet(g, 0 .. n) = SumFunctionOnSet(f, S)
  BY <1>2, <1>7, SumByLabel
<1>9. IsFiniteSet(0 .. n)
  BY FS_Interval
<1>10. SumFunctionOnSet(g, 0 .. n) \in Nat
  BY <1>4, <1>9, SumNatural
<1> QED
  BY <1>8, <1>10 DEF Total, f

(* What is accepted is no less than nothing.                                *)
LEMMA AcceptedNatural ==
  ASSUME NEW S \in SUBSET Entry, IsFiniteSet(S), NEW kind, Accepted(kind, S)
  PROVE  Total(S) \in Nat
<1>1. CASE kind = "tax" /\ broker = "Firstrade"
  <2> DEFINE f == [e \in S |-> e.row.amount]
  <2>1. Summable(f, S)
    BY DEF Summable, Entry, RowType
  <2>2. Total(S) = SumFunctionOnSet(f, S) /\ Total(S) >= 0
    BY <1>1 DEF Total, Accepted
  <2> HIDE DEF f
  <2>3. SumFunctionOnSet(f, S) \in Int
    BY <2>1, SumInteger
  <2> QED
    BY <2>2, <2>3
<1>2. CASE ~(kind = "tax" /\ broker = "Firstrade")
  BY <1>2, PairedNatural DEF Accepted
<1> QED
  BY <1>1, <1>2

KeyOf(kind, i) == [kind |-> kind, date |-> i.day, issuer |-> i.issuer]

Of(kind, i) == {r \in ReadRows : r.kind = kind /\ r.id = i}

(* With every tax dated, the entries of a key are the rows of a dividend.   *)
LEMMA EntriesAreRows ==
  ASSUME Base, Disjoint, Dated, todo = {}, NEW kind \in Kind, NEW i \in Id
  PROVE  /\ \A e \in EntriesOf(KeyOf(kind, i)) : e \in Entry /\ e.row \in Of(kind, i)
         /\ \A r \in Of(kind, i) : \E e \in EntriesOf(KeyOf(kind, i)) : e.row = r
         /\ \A e, f \in EntriesOf(KeyOf(kind, i)) : e.row = f.row => e = f
<1> DEFINE k == KeyOf(kind, i)
<1>1. \A e \in Entries : \E p \in files : e \in Listed(p)
  BY DEF Entries
<1>2. files \subseteq Period
  BY DEF Base, Types
<1>3. \A e \in Entries : e \in Entry /\ e.row \in ReadRows /\ e.date = e.row.id.day
  BY <1>1, <1>2, ListedOnce DEF ReadRows
<1>4. \A e \in Entries : Key(e) = k <=> e.row.kind = kind /\ e.row.id = i
  <2> SUFFICES ASSUME NEW e \in Entries
               PROVE  Key(e) = k <=> e.row.kind = kind /\ e.row.id = i
    OBVIOUS
  <2>1. Key(e) = [kind |-> e.row.kind, date |-> e.row.id.day, issuer |-> e.row.id.issuer]
    BY <1>3 DEF Key
  <2>2. e.row.id \in Id
    BY <1>3 DEF Entry, RowType
  <2>3. /\ e.row.id = [day |-> e.row.id.day, issuer |-> e.row.id.issuer]
        /\ i = [day |-> i.day, issuer |-> i.issuer]
    BY <2>2 DEF Id
  <2>4. Key(e) = k <=> /\ e.row.kind = kind /\ e.row.id.day = i.day
                       /\ e.row.id.issuer = i.issuer
    BY <2>1 DEF KeyOf
  <2> QED
    BY <2>3, <2>4
<1>5. EntriesOf(k) = {e \in Entries : e.row.kind = kind /\ e.row.id = i}
  BY <1>4 DEF EntriesOf
<1>6. \A r \in ReadRows : \E e \in Entries : e.row = r
  <2> SUFFICES ASSUME NEW r \in ReadRows
               PROVE  \E e \in Entries : e.row = r
    OBVIOUS
  <2>1. PICK p \in files : r \in Posted(p)
    BY DEF ReadRows
  <2>2. PICK e \in Listed(p) : e.row = r
    BY <1>2, <2>1, ListedOnce
  <2> QED
    BY <2>1, <2>2 DEF Entries
<1>7. \A e, f \in Entries : e.row = f.row => e = f
  BY RowsOnce
<1> HIDE DEF k
<1>8. /\ \A e \in EntriesOf(k) : e \in Entry /\ e.row \in Of(kind, i)
      /\ \A r \in Of(kind, i) : \E e \in EntriesOf(k) : e.row = r
      /\ \A e, f \in EntriesOf(k) : e.row = f.row => e = f
  BY <1>3, <1>5, <1>6, <1>7 DEF Of
<1> QED
  BY <1>8 DEF k

(* So they come to the same.                                                *)
LEMMA TotalsAreSums ==
  ASSUME Base, Disjoint, Dated, todo = {}, NEW kind \in Kind, NEW i \in Id
  PROVE  /\ Total(EntriesOf(KeyOf(kind, i))) = Sum(Of(kind, i))
         /\ EntriesOf(KeyOf(kind, i)) = {} <=> Of(kind, i) = {}
<1> DEFINE S == EntriesOf(KeyOf(kind, i))
           T == Of(kind, i)
           h == [e \in S |-> e.row]
           f == [e \in S |-> e.row.amount]
           g == [r \in T |-> r.amount]
<1>1. /\ \A e \in S : e \in Entry /\ e.row \in T
      /\ \A r \in T : \E e \in S : e.row = r
      /\ \A e, d \in S : e.row = d.row => e = d
  BY EntriesAreRows
<1>2. IsFiniteSet(S)
  BY EntriesFinite, FS_Subset DEF EntriesOf
<1> HIDE DEF S, T
<1>3. T = {h[e] : e \in S}
  BY <1>1
<1>4. (\A e, d \in S : h[e] = h[d] => e = d) /\ (\A e \in S : g[h[e]] = f[e])
  BY <1>1
<1>5. Summable(f, S)
  BY <1>1, <1>2 DEF Summable, Entry, RowType
<1>6. Total(S) = SumFunctionOnSet(f, S) /\ Sum(T) = SumFunctionOnSet(g, T)
  BY DEF Total, Sum
<1> HIDE DEF h, f, g
<1>7. SumFunctionOnSet(g, {h[e] : e \in S}) = SumFunctionOnSet(f, S)
  BY <1>4, <1>5, SumReindexed
<1>8. Total(S) = Sum(T) /\ (S = {} <=> T = {})
  BY <1>1, <1>3, <1>6, <1>7
<1> QED
  BY <1>8 DEF S, T

ResultType == [date : Day, issuer : Issuer, amount : Nat \ {0}, tax : Nat]

(* Every dividend that was made is of its type ...                          *)
LEMMA ResultTypes ==
  ASSUME Base, Gathered, pc # "failed"
  PROVE  result \subseteq ResultType
<1>1. CASE pc \in {"merging", "loaded"}
  <2>1. /\ \A k \in Done : /\ Accepted("dividend", EntriesOf(k))
                           /\ Accepted("tax", EntriesOf(TaxKey(k)))
        /\ result = {d \in {Made(k) : k \in Done} : d.amount # 0}
    BY <1>1 DEF Gathered
  <2>2. \A k : EntriesOf(k) \subseteq Entry /\ IsFiniteSet(EntriesOf(k))
    BY EntriesFinite, FS_Subset DEF EntriesOf
  <2>3. ASSUME NEW k \in Done
        PROVE  Made(k) \in [date : Day, issuer : Issuer, amount : Nat, tax : Nat]
    <3>1. k \in [kind : Kind, date : Day, issuer : Issuer]
      BY EntriesFinite, KeysAre DEF Done, MergedKeys
    <3>2. Total(EntriesOf(k)) \in Nat /\ Total(EntriesOf(TaxKey(k))) \in Nat
      BY <2>1, <2>2, AcceptedNatural
    <3> QED
      BY <3>1, <3>2 DEF Made
  <2> QED
    BY <2>1, <2>3 DEF ResultType
<1>2. CASE pc \notin {"merging", "loaded", "failed"}
  BY <1>2 DEF Base, Types, Phases
<1> QED
  BY <1>1, <1>2

(* ... and stays as it is when the load fails.                              *)
FailedTypes == pc = "failed" => result \subseteq ResultType

(* What fails or has ended.                                                 *)
LEMMA WhatFails ==
  ASSUME [Next]_vars, pc' = "failed"
  PROVE  /\ UNCHANGED <<world, Program>>
         /\ \/ pc = "failed"
            \/ Fail /\ (\/ Read \/ Sort \/ Merge \/ CheckUnmatched
                        \/ \E k \in DOMAIN accruals : ProcessDividend(k))
<1>1. CASE Finished \/ UNCHANGED vars
  <2>1. UNCHANGED vars
    BY <1>1 DEF Finished
  <2> QED
    BY <2>1 DEF vars, Program
<1>2. CASE Fail /\ (\/ Read \/ Sort \/ Merge \/ CheckUnmatched
                    \/ \E k \in DOMAIN accruals : ProcessDividend(k))
  BY <1>2 DEF Fail
<1>3. CASE NextDay
  BY <1>3 DEF NextDay
<1>4. ASSUME NEW issuer \in Issuer, NEW new \in Terms, PayDividend(issuer, new)
      PROVE  FALSE
  BY <1>4 DEF PayDividend, Post
<1>5. ASSUME NEW i \in Id, NEW new \in Terms \cup {Nothing}, NEW misdated \in BOOLEAN,
             Correct(i, new, misdated)
      PROVE  FALSE
  BY <1>5 DEF Correct, Post
<1>6. CASE Download
  BY <1>6 DEF Download
<1>7. CASE Read /\ ~Fail
  BY <1>7 DEF Read
<1>8. CASE Sort /\ ~Fail
  BY <1>8 DEF Sort
<1>9. CASE Merge /\ ~Fail
  BY <1>9, pc = "merging" DEF Merge
<1>10. ASSUME NEW k \in DOMAIN accruals, ProcessDividend(k), ~Fail
       PROVE  FALSE
  BY <1>10, MakesOne DEF Making
<1>11. CASE CheckUnmatched /\ ~Fail
  BY <1>11 DEF CheckUnmatched
<1> QED
  BY <1>1, <1>2, <1>3, <1>4, <1>5, <1>6, <1>7, <1>8, <1>9, <1>10, <1>11 DEF Next

(* A load that fails makes no dividend more.                                *)
LEMMA FailedTypesStep ==
  ASSUME Base, Gathered, FailedTypes, [Next]_vars
  PROVE  FailedTypes'
<1> SUFFICES ASSUME pc' = "failed"
             PROVE  result' \subseteq ResultType
  BY DEF FailedTypes, ResultType
<1>1. result' = result
  BY WhatFails DEF Program
<1>2. result \subseteq ResultType
  BY ResultTypes DEF FailedTypes
<1> QED
  BY <1>1, <1>2

(* Whatever was paid, a dividend was made of it.                            *)
LEMMA PaidIsDone ==
  ASSUME Base, Span, Gathered, pc = "loaded", Dated, NEW i \in Id, PaidTo(i) # {}
  PROVE  KeyOf("dividend", i) \in Done
<1>1. todo = {} /\ Disjoint /\ DividendKeys = {}
  BY DEF Base, Phases, Span, Gathered
<1>2. PaidTo(i) = Of("dividend", i) /\ "dividend" \in Kind
  BY DEF PaidTo, Of, Kind
<1>3. PICK e \in EntriesOf(KeyOf("dividend", i)) : TRUE
  BY <1>1, <1>2, TotalsAreSums
<1>4. KeyOf("dividend", i) \in MergedKeys
  BY <1>3 DEF EntriesOf, MergedKeys
<1>5. KeyOf("dividend", i) \notin DOMAIN accruals
  BY <1>1 DEF DividendKeys, KeyOf
<1> QED
  BY <1>4, <1>5 DEF Done, KeyOf

(* With every tax dated, a loaded statement is what was posted.             *)
LEMMA LoadedIsPosted ==
  ASSUME Base, Span, Gathered, pc = "loaded"
  PROVE  IncomeAsPosted
<1>1. SUFFICES ASSUME Dated
               PROVE  result = {d \in {[date |-> i.day, issuer |-> i.issuer,
                                        amount |-> Sum(PaidTo(i)), tax |-> Sum(WithheldFrom(i))] :
                                          i \in {x \in Id : PaidTo(x) # {}}} : d.amount # 0}
  BY DEF IncomeAsPosted
<1>2. /\ todo = {} /\ Disjoint
      /\ DOMAIN accruals \subseteq [kind : Kind, date : Day, issuer : Issuer]
      /\ result = {d \in {Made(k) : k \in Done} : d.amount # 0}
      /\ DividendKeys = {}
  BY <1>1 DEF Base, Types, Phases, Span, Gathered
<1>3. \A i \in Id : /\ PaidTo(i) = Of("dividend", i) /\ WithheldFrom(i) = Of("tax", i)
                    /\ "dividend" \in Kind /\ "tax" \in Kind
  BY DEF PaidTo, WithheldFrom, Of, Kind
<1>4. \A i \in Id : TaxKey(KeyOf("dividend", i)) = KeyOf("tax", i)
  BY DEF TaxKey, KeyOf
<1>5. \A i \in Id : PaidTo(i) # {} => KeyOf("dividend", i) \in Done
  BY <1>1, PaidIsDone
<1>6. ASSUME NEW k \in Done
      PROVE  \E i \in {x \in Id : PaidTo(x) # {}} : k = KeyOf("dividend", i)
  <2> DEFINE i == [day |-> k.date, issuer |-> k.issuer]
  <2>1. k \in [kind : Kind, date : Day, issuer : Issuer] /\ k.kind = "dividend"
    BY EntriesFinite, KeysAre DEF Done, MergedKeys
  <2>2. i \in Id /\ k = KeyOf("dividend", i)
    BY <2>1 DEF Id, KeyOf
  <2>3. EntriesOf(k) # {}
    BY DEF Done, MergedKeys, EntriesOf
  <2> HIDE DEF i
  <2>4. PaidTo(i) # {}
    BY <1>1, <1>2, <1>3, <2>2, <2>3, TotalsAreSums
  <2> QED
    BY <2>2, <2>4
<1>7. ASSUME NEW i \in Id
      PROVE  Made(KeyOf("dividend", i)) =
               [date |-> i.day, issuer |-> i.issuer, amount |-> Sum(PaidTo(i)),
                tax |-> Sum(WithheldFrom(i))]
  <2>1. /\ Total(EntriesOf(KeyOf("dividend", i))) = Sum(PaidTo(i))
        /\ Total(EntriesOf(KeyOf("tax", i))) = Sum(WithheldFrom(i))
    BY <1>1, <1>2, <1>3, TotalsAreSums
  <2>2. KeyOf("dividend", i).date = i.day /\ KeyOf("dividend", i).issuer = i.issuer
    BY DEF KeyOf
  <2> QED
    BY <1>4, <2>1, <2>2 DEF Made
<1>8. {Made(k) : k \in Done} =
        {[date |-> i.day, issuer |-> i.issuer, amount |-> Sum(PaidTo(i)),
          tax |-> Sum(WithheldFrom(i))] : i \in {x \in Id : PaidTo(x) # {}}}
  BY <1>5, <1>6, <1>7
<1> QED
  BY <1>2, <1>8

-----------------------------------------------------------------------------
(* What the broker posts adds up.                                           *)

RowsOf(kind, i) == {r \in rows : r.kind = kind /\ r.id = i}

RowsWith(kind, i, a) == {r \in rows : r.kind = kind /\ r.id = i /\ r.amount = a}

Amount(kind, i) == IF kind = "dividend" THEN terms[i][1] ELSE terms[i][2]

One(condition) == IF condition THEN 1 ELSE 0

(* The rows come to what the dividend came to, and every reversal has a     *)
(* payment of its own -- but with Firstrade, which gives back taxes in part. *)
Balanced(kind, i) ==
  /\ Sum(RowsOf(kind, i)) = Amount(kind, i)
  /\ kind = "dividend" \/ broker # "Firstrade" =>
       \A a \in Nat \ {0} :
         Cardinality(RowsWith(kind, i, -a)) + One(Amount(kind, i) = a)
           = Cardinality(RowsWith(kind, i, a))

Books ==
  /\ \A i \in Id, kind \in Kind : Balanced(kind, i)
  /\ \A r \in rows : \E s \in rows : s.kind = "dividend" /\ s.id = r.id

(* What a posting adds to the rows of a kind: the reversal of what was      *)
(* before and what is now, if they differ; a difference else.               *)
Replaces(S, old, new) ==
  /\ old = new => S = {}
  /\ old # new => \E x, y : /\ x # y /\ x.amount = -old /\ y.amount = new
                            /\ \A r : r \in S <=> (r = x /\ old # 0) \/ (r = y /\ new # 0)

Adjusts(S, old, new) ==
  /\ old = new => S = {}
  /\ old # new => \E x : x.amount = new - old /\ S = {x}

(* Replacing and adjusting change a sum alike.                              *)
LEMMA SumsAlike ==
  ASSUME NEW S, NEW old \in Nat, NEW new \in Nat,
         Replaces(S, old, new) \/ Adjusts(S, old, new)
  PROVE  /\ IsFiniteSet(S) /\ \A r \in S : r.amount \in Int
         /\ Sum(S) = new - old
<1> DEFINE f == [r \in S |-> r.amount]
<1>1. CASE old = new
  <2>1. S = {}
    BY <1>1 DEF Replaces, Adjusts
  <2> QED
    BY <1>1, <2>1, FS_EmptySet, SumEmpty DEF Sum
<1>2. CASE old # new /\ Adjusts(S, old, new)
  <2>1. PICK x : x.amount = new - old /\ S = {x}
    BY <1>2 DEF Adjusts
  <2>2. IsFiniteSet(S) /\ f[x] = new - old /\ x \in S
    BY <2>1, FS_Singleton
  <2>3. Summable(f, S) /\ \A y \in S \ {x} : f[y] = 0
    BY <2>1, <2>2 DEF Summable
  <2> HIDE DEF f
  <2>4. SumFunctionOnSet(f, S) = f[x]
    BY <2>2, <2>3, SumSingle
  <2> QED
    BY <2>1, <2>2, <2>4 DEF Sum, f
<1>3. CASE old # new /\ Replaces(S, old, new)
  <2>1. PICK x, y : /\ x # y /\ x.amount = -old /\ y.amount = new
                    /\ \A r : r \in S <=> (r = x /\ old # 0) \/ (r = y /\ new # 0)
    BY <1>3 DEF Replaces
  <2> DEFINE X == {r \in {x} : old # 0}
             Y == {r \in {y} : new # 0}
  <2>2. S = X \cup Y /\ X \cap Y = {}
    BY <2>1
  <2>3. IsFiniteSet(X) /\ IsFiniteSet(Y)
    BY FS_Singleton, FS_Subset
  <2>4. IsFiniteSet(S)
    BY <2>2, <2>3, FS_Union
  <2>5. (\A r \in X : f[r] = -old) /\ (\A r \in Y : f[r] = new)
    BY <2>1, <2>2
  <2>6. Summable(f, S)
    <3>1. \A r \in S : r.amount \in Int
      BY <2>1
    <3>2. \A r \in S : f[r] = r.amount
      OBVIOUS
    <3> HIDE DEF f
    <3> QED
      BY <2>4, <3>1, <3>2 DEF Summable
  <2>7. Cardinality(X) = One(old # 0) /\ Cardinality(Y) = One(new # 0)
    <3>1. /\ old # 0 => X = {x}
          /\ old = 0 => X = {}
          /\ new # 0 => Y = {y}
          /\ new = 0 => Y = {}
      OBVIOUS
    <3> HIDE DEF X, Y
    <3> QED
      BY <3>1, FS_EmptySet, FS_Singleton DEF One
  <2>8. \A r \in S : r.amount \in Int
    BY <2>1
  <2> HIDE DEF f, X, Y
  <2>9. SumFunctionOnSet(f, S) = SumFunctionOnSet(f, X) + SumFunctionOnSet(f, Y)
    <3>1. X \in SUBSET S /\ Y \in SUBSET S
      BY <2>2
    <3> QED
      BY <2>2, <2>6, <3>1, SumUnion
  <2>10. SumFunctionOnSet(f, X) = -old
    <3>1. PICK c \in Int : c = -old
      OBVIOUS
    <3>2. \A r \in X : f[r] = c
      BY <2>5, <3>1
    <3>3. SumFunctionOnSet(f, X) = c * Cardinality(X)
      BY ONLY <2>3, <3>1, <3>2, SumConstant
    <3> QED
      BY <2>7, <3>1, <3>3 DEF One
  <2>11. SumFunctionOnSet(f, Y) = new
    <3>1. new \in Int
      OBVIOUS
    <3>2. SumFunctionOnSet(f, Y) = new * Cardinality(Y)
      BY ONLY <2>3, <2>5, <3>1, SumConstant
    <3> QED
      BY <2>7, <3>2 DEF One
  <2> QED
    BY <2>4, <2>8, <2>9, <2>10, <2>11 DEF Sum, f
<1> QED
  BY <1>1, <1>2, <1>3

(* Every amount is reversed as often as it is paid, but for the last one.   *)
Paired(R, amount) ==
  \A a \in Nat \ {0} : Cardinality({r \in R : r.amount = -a}) + One(amount = a)
                         = Cardinality({r \in R : r.amount = a})

(* A posting that replaces keeps the books of a dividend balanced.          *)
LEMMA ReplacingBalances ==
  ASSUME NEW R, NEW S, IsFiniteSet(R), R \cap S = {},
         NEW old \in Nat, NEW new \in Nat, Replaces(S, old, new), Paired(R, old)
  PROVE  Paired(R \cup S, new)
<1> SUFFICES ASSUME NEW a \in Nat \ {0}
             PROVE  Cardinality({r \in R \cup S : r.amount = -a}) + One(new = a)
                      = Cardinality({r \in R \cup S : r.amount = a})
  BY DEF Paired
<1> DEFINE R1 == {r \in R : r.amount = a}
           R2 == {r \in R : r.amount = -a}
           S1 == {r \in S : r.amount = a}
           S2 == {r \in S : r.amount = -a}
<1>1. IsFiniteSet(S)
  BY SumsAlike
<1>2. /\ IsFiniteSet(R1) /\ IsFiniteSet(R2) /\ IsFiniteSet(S1) /\ IsFiniteSet(S2)
      /\ R1 \cap S1 = {} /\ R2 \cap S2 = {}
  BY <1>1, FS_Subset
<1>3. /\ {r \in R \cup S : r.amount = a} = R1 \cup S1
      /\ {r \in R \cup S : r.amount = -a} = R2 \cup S2
  OBVIOUS
<1>4. Cardinality(S1) = One(old # new /\ new = a) /\ Cardinality(S2) = One(old # new /\ old = a)
  <2>1. CASE old = new
    <3>1. S1 = {} /\ S2 = {}
      BY <2>1 DEF Replaces
    <3> QED
      BY <2>1, <3>1, FS_EmptySet DEF One
  <2>2. CASE old # new
    <3>1. PICK x, y : /\ x # y /\ x.amount = -old /\ y.amount = new
                      /\ \A r : r \in S <=> (r = x /\ old # 0) \/ (r = y /\ new # 0)
      BY <2>2 DEF Replaces
    <3>2. -old # a /\ new # -a /\ a # 0
      OBVIOUS
    <3>3. S1 = IF new = a THEN {y} ELSE {}
      BY <3>1, <3>2
    <3>4. S2 = IF old = a THEN {x} ELSE {}
      BY <3>1, <3>2
    <3> HIDE DEF S1, S2
    <3> QED
      BY <2>2, <3>3, <3>4, FS_EmptySet, FS_Singleton DEF One
  <2> QED
    BY <2>1, <2>2
<1>5. Cardinality(R2) + One(old = a) = Cardinality(R1)
  BY DEF Paired
<1> HIDE DEF R1, R2, S1, S2
<1>6. /\ Cardinality(R1 \cup S1) = Cardinality(R1) + Cardinality(S1)
      /\ Cardinality(R2 \cup S2) = Cardinality(R2) + Cardinality(S2)
      /\ Cardinality(R1) \in Nat /\ Cardinality(R2) \in Nat
  <2>1. Cardinality(R1 \cap S1) = 0 /\ Cardinality(R2 \cap S2) = 0
    BY <1>2, FS_EmptySet
  <2>2. /\ Cardinality(R1) \in Nat /\ Cardinality(R2) \in Nat
        /\ Cardinality(S1) \in Nat /\ Cardinality(S2) \in Nat
    BY <1>2, FS_CardinalityType
  <2>3. Cardinality(R1 \cup S1) = Cardinality(R1) + Cardinality(S1) - Cardinality(R1 \cap S1)
    BY ONLY <1>2, FS_Union
  <2>4. Cardinality(R2 \cup S2) = Cardinality(R2) + Cardinality(S2) - Cardinality(R2 \cap S2)
    BY ONLY <1>2, FS_Union
  <2> QED
    BY <2>1, <2>2, <2>3, <2>4
<1>7. Cardinality(R2 \cup S2) + One(new = a) = Cardinality(R1 \cup S1)
  BY <1>4, <1>5, <1>6 DEF One
<1> QED
  BY <1>3, <1>7

(* The rows of a posting replace what was before, or adjust it.             *)
LEMMA RowsReplace ==
  ASSUME NEW kind, NEW i, NEW date, NEW old \in Nat, NEW new \in Nat, NEW n \in Nat
  PROVE  /\ old # new => Replaces(Rows(kind, i, date, -old, new, n), old, new)
         /\ old = 0 /\ new # 0 => Replaces(Rows(kind, i, date, new, 0, n), old, new)
         /\ old # new => Adjusts(Rows(kind, i, date, new - old, 0, n), old, new)
         /\ Rows(kind, i, date, 0, 0, n) = {}
<1>1. \A first, second \in Int : \A r :
        r \in Rows(kind, i, date, first, second, n)
          <=> \/ r = Row(kind, i, date, first, n) /\ first # 0
              \/ r = Row(kind, i, date, second, n + 1) /\ second # 0
  BY DEF Rows, Row
<1>2. \A first, second \in Int :
        /\ Row(kind, i, date, first, n) # Row(kind, i, date, second, n + 1)
        /\ Row(kind, i, date, first, n).amount = first
        /\ Row(kind, i, date, second, n + 1).amount = second
  <2> SUFFICES ASSUME NEW first \in Int, NEW second \in Int
               PROVE  /\ Row(kind, i, date, first, n) # Row(kind, i, date, second, n + 1)
                      /\ Row(kind, i, date, first, n).amount = first
                      /\ Row(kind, i, date, second, n + 1).amount = second
    OBVIOUS
  <2>1. Row(kind, i, date, first, n).n = n /\ Row(kind, i, date, second, n + 1).n = n + 1
    BY DEF Row
  <2> QED
    BY <2>1 DEF Row
<1>3. -old \in Int /\ new \in Int /\ 0 \in Int /\ new - old \in Int
      /\ (-old # 0 <=> old # 0) /\ (new - old # 0 <=> old # new)
  OBVIOUS
<1>4. old # new => Replaces(Rows(kind, i, date, -old, new, n), old, new)
  <2> DEFINE x == Row(kind, i, date, -old, n)
             y == Row(kind, i, date, new, n + 1)
  <2>1. x # y /\ x.amount = -old /\ y.amount = new
    BY <1>2, <1>3
  <2>2. \A r : r \in Rows(kind, i, date, -old, new, n)
                 <=> (r = x /\ old # 0) \/ (r = y /\ new # 0)
    BY <1>1, <1>3
  <2> HIDE DEF x, y
  <2> QED
    BY <2>1, <2>2 DEF Replaces
<1>5. old = 0 /\ new # 0 => Replaces(Rows(kind, i, date, new, 0, n), old, new)
  <2> DEFINE x == Row(kind, i, date, 0, n + 1)
             y == Row(kind, i, date, new, n)
  <2>1. x # y /\ x.amount = 0 /\ y.amount = new
    BY <1>2, <1>3
  <2>2. \A r : r \in Rows(kind, i, date, new, 0, n) <=> (r = y /\ new # 0)
    BY <1>1, <1>3
  <2> HIDE DEF x, y
  <2> QED
    BY <2>1, <2>2 DEF Replaces
<1>6. old # new => Adjusts(Rows(kind, i, date, new - old, 0, n), old, new)
  <2> DEFINE x == Row(kind, i, date, new - old, n)
  <2>1. x.amount = new - old
    BY <1>2, <1>3
  <2>2. old # new => \A r : r \in Rows(kind, i, date, new - old, 0, n) <=> r = x
    BY <1>1, <1>3
  <2> HIDE DEF x
  <2>3. old # new => Rows(kind, i, date, new - old, 0, n) = {x}
    BY <2>2
  <2> QED
    BY <2>1, <2>3 DEF Adjusts
<1>7. Rows(kind, i, date, 0, 0, n) = {}
  BY <1>1
<1> QED
  BY <1>4, <1>5, <1>6, <1>7

(* A posting of which the rows of each kind replace those before, or adjust *)
(* the tax that Firstrade withheld.                                         *)
Adds(i, new, A, B) ==
  /\ Replaces(A, terms[i][1], new[1])
  /\ \/ Replaces(B, terms[i][2], new[2])
     \/ broker = "Firstrade" /\ Adjusts(B, terms[i][2], new[2])
  /\ A = {} => \E s \in rows : s.kind = "dividend" /\ s.id = i

(* What is paid replaces nothing ...                                        *)
LEMMA PaysAll ==
  ASSUME Base, Books, NEW issuer \in Issuer, NEW new \in Terms, PayDividend(issuer, new),
         NEW i, i = [day |-> today, issuer |-> issuer], i \in Id
  PROVE  Adds(i, new, Rows("dividend", i, today, new[1], 0, 4 * postings),
              Rows("tax", i, today, new[2], 0, 4 * postings + 2))
<1>1. \A r \in rows : r.id # i
  BY DEF PayDividend
<1>2. terms[i] \in Terms \cup {Nothing}
  BY DEF Base, Types
<1>3. terms[i][1] = 0 /\ terms[i][2] = 0
  <2>1. /\ Sum(RowsOf("dividend", i)) = terms[i][1]
        /\ Sum(RowsOf("tax", i)) = terms[i][2]
    BY DEF Books, Balanced, Amount, Kind
  <2>2. RowsOf("dividend", i) = {} /\ RowsOf("tax", i) = {}
    BY <1>1 DEF RowsOf
  <2>3. Sum({}) = 0
    BY SumEmpty DEF Sum
  <2> QED
    BY <2>1, <2>2, <2>3
<1>4. new[1] \in Nat /\ new[2] \in Nat /\ new[2] <= new[1]
  BY TermsAre
<1>5. new # terms[i] /\ new = <<new[1], new[2]>> /\ terms[i] = <<terms[i][1], terms[i][2]>>
  BY <1>2, TermsAre DEF PayDividend, Post
<1>6. new[1] # 0
  BY <1>3, <1>4, <1>5
<1>7. 4 * postings \in Nat /\ 4 * postings + 2 \in Nat
  BY LoadingAssumption DEF Base, Types
<1>8. Replaces(Rows("dividend", i, today, new[1], 0, 4 * postings), 0, new[1])
  BY <1>4, <1>6, <1>7, RowsReplace
<1>9. Replaces(Rows("tax", i, today, new[2], 0, 4 * postings + 2), 0, new[2])
  <2>1. CASE new[2] # 0
    BY <1>4, <1>7, <2>1, RowsReplace
  <2>2. CASE new[2] = 0
    <3>1. Rows("tax", i, today, 0, 0, 4 * postings + 2) = {}
      BY <1>7, RowsReplace
    <3> QED
      BY <2>2, <3>1 DEF Replaces
  <2> QED
    BY <2>1, <2>2
<1>10. Rows("dividend", i, today, new[1], 0, 4 * postings) # {}
  BY <1>4, <1>6, <1>8 DEF Replaces
<1> QED
  BY <1>3, <1>8, <1>9, <1>10 DEF Adds

(* ... and what is corrected replaces or, with Firstrade, adjusts.          *)
LEMMA CorrectsAll ==
  ASSUME Base, Books, NEW i \in Id, NEW new \in Terms \cup {Nothing}, NEW misdated \in BOOLEAN,
         Correct(i, new, misdated), NEW date
  PROVE  Adds(i, new, Corrected("dividend", i, i.day, terms[i][1], new[1], 4 * postings),
              Corrected("tax", i, date, terms[i][2], new[2], 4 * postings + 2))
<1>1. terms[i] \in Terms \cup {Nothing}
  BY DEF Base, Types
<1>2. /\ new[1] \in Nat /\ new[2] \in Nat
      /\ terms[i][1] \in Nat /\ terms[i][2] \in Nat
  BY <1>1, TermsAre
<1>3. 4 * postings \in Nat /\ 4 * postings + 2 \in Nat
  BY LoadingAssumption DEF Base, Types
<1>4. /\ \E r \in rows : r.id = i
      /\ \/ broker = "InteractiveBrokers"
         \/ broker = "Firstrade" /\ new[1] = terms[i][1]
  BY DEF Correct
<1>5. \E s \in rows : s.kind = "dividend" /\ s.id = i
  BY <1>4 DEF Books
<1>6. ASSUME NEW kind, NEW d, NEW old \in Nat, NEW now \in Nat, NEW n \in Nat
      PROVE  /\ broker # "Firstrade" \/ old = now =>
                  Replaces(Corrected(kind, i, d, old, now, n), old, now)
             /\ broker = "Firstrade" => Adjusts(Corrected(kind, i, d, old, now, n), old, now)
  <2>1. CASE old = now
    BY <2>1 DEF Corrected, Replaces, Adjusts
  <2>2. CASE old # now /\ broker = "Firstrade"
    BY <2>2, RowsReplace DEF Corrected
  <2>3. CASE old # now /\ broker # "Firstrade"
    BY <2>3, RowsReplace DEF Corrected
  <2> QED
    BY <2>1, <2>2, <2>3
<1>7. Replaces(Corrected("dividend", i, i.day, terms[i][1], new[1], 4 * postings),
               terms[i][1], new[1])
  BY <1>2, <1>3, <1>4, <1>6
<1>8. \/ Replaces(Corrected("tax", i, date, terms[i][2], new[2], 4 * postings + 2),
                  terms[i][2], new[2])
      \/ /\ broker = "Firstrade"
         /\ Adjusts(Corrected("tax", i, date, terms[i][2], new[2], 4 * postings + 2),
                    terms[i][2], new[2])
  BY <1>2, <1>3, <1>6
<1> QED
  BY <1>5, <1>7, <1>8 DEF Adds

(* Every posting keeps the books.                                           *)
LEMMA PostingBalances ==
  ASSUME Base, Books, NEW i \in Id, NEW new \in Terms \cup {Nothing}, NEW date \in Day,
         NEW A, NEW B, Posting(i, new, date, A, B), Adds(i, new, A, B)
  PROVE  Books'
<1>1. /\ rows' = (rows \cup A) \cup B /\ broker' = broker
      /\ terms' = [terms EXCEPT ![i] = new]
      /\ terms \in [Id -> Terms \cup {Nothing}]
      /\ postings \in Nat
  BY LoadingAssumption DEF Posting, Post, Base, Types
<1>2. /\ \A r \in A : r.kind = "dividend" /\ r.id = i /\ r.n >= 4 * postings
      /\ \A r \in B : r.kind = "tax" /\ r.id = i /\ r.n >= 4 * postings
      /\ \A r \in rows : r.n < 4 * postings /\ r.n \in Nat
      /\ rows \subseteq RowType /\ IsFiniteSet(rows)
  BY <1>1 DEF Posting, Fitting, Base, Types, Posts, RowType
<1>3. \A r \in rows : r \notin A /\ r \notin B
  BY <1>1, <1>2
<1>4. /\ terms[i][1] \in Nat /\ terms[i][2] \in Nat /\ new[1] \in Nat /\ new[2] \in Nat
  BY <1>1, TermsAre
<1>5. ASSUME NEW j \in Id, NEW kind \in Kind
      PROVE  Balanced(kind, j)'
  <2> DEFINE S == IF j = i THEN (IF kind = "dividend" THEN A ELSE B) ELSE {}
             R == RowsOf(kind, j)
             old == Amount(kind, j)
             now == Amount(kind, j)'
  <2>1. RowsOf(kind, j)' = R \cup S
    BY <1>1, <1>2 DEF RowsOf, Kind
  <2>2. IsFiniteSet(R) /\ R \cap S = {} /\ R \subseteq RowType
    BY <1>2, <1>3, FS_Subset DEF RowsOf
  <2>3. \A a : /\ RowsWith(kind, j, a) = {r \in R : r.amount = a}
               /\ RowsWith(kind, j, a)' = {r \in R \cup S : r.amount = a}
    BY <2>1 DEF RowsWith, RowsOf
  <2>4. /\ Sum(R) = old
        /\ kind = "dividend" \/ broker # "Firstrade" =>
             \A a \in Nat \ {0} :
               Cardinality(RowsWith(kind, j, -a)) + One(old = a)
                 = Cardinality(RowsWith(kind, j, a))
    BY DEF Books, Balanced
  <2>5. /\ old \in Nat /\ now \in Nat
        /\ \/ Replaces(S, old, now)
           \/ kind = "tax" /\ broker = "Firstrade" /\ Adjusts(S, old, now)
    <3>1. CASE j = i
      BY <1>1, <1>4, <3>1 DEF Amount, Adds, Kind
    <3>2. CASE j # i
      <4>1. old \in Nat /\ now = old
        BY <1>1, <3>2, TermsAre DEF Amount
      <4> QED
        BY <3>2, <4>1 DEF Replaces
    <3> QED
      BY <3>1, <3>2
  <2> HIDE DEF S, R, old, now
  <2>6. IsFiniteSet(S) /\ (\A r \in S : r.amount \in Int) /\ Sum(S) = now - old
    BY <2>5, SumsAlike
  <2>7. Sum(R \cup S) = now
    <3> DEFINE f == [r \in R \cup S |-> r.amount]
    <3>1. Summable(f, R \cup S)
      <4>1. IsFiniteSet(R \cup S)
        BY <2>2, <2>6, FS_Union
      <4>2. \A r \in R \cup S : r.amount \in Int
        BY <2>2, <2>6 DEF RowType
      <4> QED
        BY <4>1, <4>2 DEF Summable
    <3>2. SumFunctionOnSet([r \in R |-> r.amount], R) = SumFunctionOnSet(f, R)
      BY <3>1, SumOfPart
    <3>3. SumFunctionOnSet([r \in S |-> r.amount], S) = SumFunctionOnSet(f, S)
      BY <3>1, SumOfPart
    <3>4. Sum(R \cup S) = SumFunctionOnSet(f, R \cup S)
      BY DEF Sum
    <3> HIDE DEF f
    <3>5. SumFunctionOnSet(f, R \cup S) = SumFunctionOnSet(f, R) + SumFunctionOnSet(f, S)
      <4>1. R \in SUBSET (R \cup S) /\ S \in SUBSET (R \cup S)
        OBVIOUS
      <4> QED
        BY <2>2, <3>1, <4>1, SumUnion
    <3>6. Sum(R) = SumFunctionOnSet(f, R) /\ Sum(S) = SumFunctionOnSet(f, S)
      BY <3>2, <3>3 DEF Sum
    <3> QED
      BY <2>4, <2>5, <2>6, <3>4, <3>5, <3>6
  <2>8. ASSUME kind = "dividend" \/ broker # "Firstrade", NEW a \in Nat \ {0}
        PROVE  Cardinality({r \in R \cup S : r.amount = -a}) + One(now = a)
                 = Cardinality({r \in R \cup S : r.amount = a})
    <3>1. Replaces(S, old, now)
      BY <2>5, <2>8
    <3>2. Paired(R, old)
      <4> SUFFICES ASSUME NEW b \in Nat \ {0}
                   PROVE  Cardinality({r \in R : r.amount = -b}) + One(old = b)
                            = Cardinality({r \in R : r.amount = b})
        BY DEF Paired
      <4>1. Cardinality(RowsWith(kind, j, -b)) + One(old = b)
              = Cardinality(RowsWith(kind, j, b))
        BY <2>4, <2>8
      <4>2. RowsWith(kind, j, -b) = {r \in R : r.amount = -b}
        BY <2>3
      <4>3. RowsWith(kind, j, b) = {r \in R : r.amount = b}
        BY <2>3
      <4> QED
        BY <4>1, <4>2, <4>3
    <3>3. IsFiniteSet(R) /\ R \cap S = {} /\ old \in Nat /\ now \in Nat
      BY <2>2, <2>5
    <3>4. Paired(R \cup S, now)
      BY ONLY <3>1, <3>2, <3>3, ReplacingBalances
    <3> QED
      BY <3>4 DEF Paired
  <2>9. /\ Sum(RowsOf(kind, j)') = now
        /\ kind = "dividend" \/ broker' # "Firstrade" =>
             \A a \in Nat \ {0} :
               Cardinality(RowsWith(kind, j, -a)') + One(now = a)
                 = Cardinality(RowsWith(kind, j, a)')
    BY <1>1, <2>1, <2>3, <2>7, <2>8
  <2> QED
    BY <2>9 DEF Balanced, now, One, Sum
<1>6. \A r \in rows' : \E s \in rows' : s.kind = "dividend" /\ s.id = r.id
  <2>1. \A r \in rows : \E s \in rows' : s.kind = "dividend" /\ s.id = r.id
    BY <1>1 DEF Books
  <2>2. \E s \in rows' : s.kind = "dividend" /\ s.id = i
    BY <1>1, <1>2 DEF Adds
  <2> QED
    BY <1>1, <1>2, <2>1, <2>2
<1> QED
  BY <1>5, <1>6 DEF Books

(* Only postings change the books.                                          *)
LEMMA BooksStay ==
  ASSUME Books, UNCHANGED <<broker, rows, terms>>
  PROVE  Books'
<1>1. \A kind, i : /\ RowsOf(kind, i)' = RowsOf(kind, i) /\ Amount(kind, i)' = Amount(kind, i)
                   /\ \A a : RowsWith(kind, i, a)' = RowsWith(kind, i, a)
  BY DEF RowsOf, RowsWith, Amount
<1>2. ASSUME NEW i \in Id, NEW kind \in Kind
      PROVE  Balanced(kind, i)'
  <2>1. Balanced(kind, i)
    BY DEF Books
  <2>2. Sum(RowsOf(kind, i))' = Sum(RowsOf(kind, i))
    BY <1>1 DEF Sum
  <2>3. \A a : /\ Cardinality(RowsWith(kind, i, a))' = Cardinality(RowsWith(kind, i, a))
               /\ One(Amount(kind, i) = a)' = One(Amount(kind, i) = a)
    BY <1>1 DEF One
  <2> QED
    BY <1>1, <2>1, <2>2, <2>3 DEF Balanced
<1> QED
  BY <1>2 DEF Books

(* Only postings change what the broker posted.                             *)
LEMMA WorldMoves ==
  ASSUME [Next]_vars
  PROVE  \/ UNCHANGED <<broker, rows, terms>>
         \/ \E issuer \in Issuer, new \in Terms : PayDividend(issuer, new)
         \/ \E i \in Id, new \in Terms \cup {Nothing}, misdated \in BOOLEAN :
              Correct(i, new, misdated)
<1>1. CASE NextDay
  BY <1>1 DEF NextDay
<1>2. CASE Download
  BY <1>2 DEF Download, world
<1>3. CASE Fail
  BY <1>3 DEF Fail, world
<1>4. CASE ~Fail /\ Read
  BY <1>4 DEF Read, world
<1>5. CASE ~Fail /\ Sort
  BY <1>5 DEF Sort, world
<1>6. CASE ~Fail /\ Merge
  <2>1. UNCHANGED world
    BY <1>6 DEF Merge
  <2> QED
    BY <2>1 DEF world
<1>7. ASSUME NEW k \in DOMAIN accruals, ~Fail, ProcessDividend(k)
      PROVE  UNCHANGED <<broker, rows, terms>>
  BY <1>7, MakesOne DEF Making, world
<1>8. CASE ~Fail /\ CheckUnmatched
  BY <1>8 DEF CheckUnmatched, world
<1>9. CASE Finished \/ UNCHANGED vars
  BY <1>9 DEF Finished, vars, world
<1> QED
  BY <1>1, <1>2, <1>3, <1>4, <1>5, <1>6, <1>7, <1>8, <1>9 DEF Next

(* Every step keeps the books.                                              *)
LEMMA BooksStep ==
  ASSUME Base, Books, [Next]_vars
  PROVE  Books'
<1>1. ASSUME NEW issuer \in Issuer, NEW new \in Terms, PayDividend(issuer, new)
      PROVE  Books'
  <2> DEFINE i == [day |-> today, issuer |-> issuer]
             A == Rows("dividend", i, today, new[1], 0, 4 * postings)
             B == Rows("tax", i, today, new[2], 0, 4 * postings + 2)
  <2>1. i \in Id /\ Posting(i, new, today, A, B)
    BY <1>1, PaysAs
  <2>2. Adds(i, new, A, B)
    BY <1>1, <2>1, PaysAll
  <2> HIDE DEF i, A, B
  <2> QED
    BY <2>1, <2>2, PostingBalances DEF Base, Types
<1>2. ASSUME NEW i \in Id, NEW new \in Terms \cup {Nothing}, NEW misdated \in BOOLEAN,
             Correct(i, new, misdated)
      PROVE  Books'
  <2> DEFINE date == IF misdated THEN today ELSE i.day
             A == Corrected("dividend", i, i.day, terms[i][1], new[1], 4 * postings)
             B == Corrected("tax", i, date, terms[i][2], new[2], 4 * postings + 2)
  <2>1. date \in Day /\ Posting(i, new, date, A, B)
    BY <1>2, CorrectsAs
  <2>2. Adds(i, new, A, B)
    BY <1>2, CorrectsAll
  <2> HIDE DEF date, A, B
  <2> QED
    BY <2>1, <2>2, PostingBalances
<1> QED
  BY <1>1, <1>2, BooksStay, WorldMoves

(* The books are balanced at the start, as nothing was posted.              *)
LEMMA BooksInit == Init => Books
<1> SUFFICES ASSUME Init, NEW i \in Id, NEW kind \in Kind
             PROVE  Balanced(kind, i)
  BY DEF Books, Init
<1>1. rows = {} /\ terms[i] = <<0, 0>>
  BY DEF Init, Nothing
<1>2. RowsOf(kind, i) = {} /\ \A a : RowsWith(kind, i, a) = {}
  BY <1>1 DEF RowsOf, RowsWith
<1>3. Amount(kind, i) = 0
  BY <1>1 DEF Amount
<1>4. Sum({}) = 0 /\ Cardinality({}) = 0
  BY SumEmpty, FS_EmptySet DEF Sum
<1> QED
  BY <1>2, <1>3, <1>4 DEF Balanced, One

-----------------------------------------------------------------------------
(* Complete statements.                                                     *)

(* What the user downloaded and the rules he wrote.                         *)
Downloaded ==
  pc # "posting" =>
    /\ broker = "Firstrade" => named \in files /\ made \in named.last .. today
    /\ \A r \in rows : r.n \in rules => r.kind = "tax" /\ Misdated # {}

(* Every step keeps them.                                                   *)
LEMMA DownloadedStep ==
  ASSUME Base, Downloaded, [Next]_vars
  PROVE  Downloaded'
<1>1. CASE pc' = "posting"
  BY <1>1 DEF Downloaded
<1>2. CASE Download
  <2>1. /\ rows' = rows /\ broker' = broker
        /\ broker = "Firstrade" => named' \in files' /\ made' \in named'.last .. today
        /\ today' = today
    BY <1>2 DEF Download, world
  <2>2. PICK mapped \in SUBSET Misdated :
          rules' = UNION {{s.n : s \in Described(m)} : m \in mapped}
    BY <1>2 DEF Download
  <2>3. ASSUME NEW r \in rows, r.n \in rules'
        PROVE  r.kind = "tax" /\ Misdated # {}
    <3>0. PICK m \in mapped : r.n \in {s.n : s \in Described(m)}
      BY <2>2, <2>3
    <3>1. PICK s \in Described(m) : r.n = s.n
      BY <3>0
    <3>2. s \in rows /\ s.kind = "tax" /\ m \in Misdated
      BY <3>1 DEF Described
    <3>3. r = s
      BY <3>1, <3>2 DEF Base, Posts
    <3> QED
      BY <3>2, <3>3
  <2>4. Misdated' = Misdated
    BY <2>1 DEF Misdated
  <2> QED
    BY <2>1, <2>3, <2>4 DEF Downloaded
<1>3. CASE pc # "posting" /\ UNCHANGED <<world, named, made, files, rules>>
  <2>1. Misdated' = Misdated
    BY <1>3 DEF Misdated, world
  <2> QED
    BY <1>3, <2>1 DEF Downloaded, world
<1>4. CASE Fail /\ pc # "posting"
  BY <1>3, <1>4 DEF Fail, Program
<1>5. CASE ~Fail /\ (Read \/ Sort \/ CheckUnmatched)
  BY <1>3, <1>5 DEF Read, Sort, CheckUnmatched, Program
<1>6. CASE ~Fail /\ Merge
  BY <1>3, <1>6, MergesEarliest DEF Merging
<1>7. ASSUME NEW k \in DOMAIN accruals, ~Fail, ProcessDividend(k)
      PROVE  Downloaded'
  BY <1>3, <1>7, MakesOne DEF Making
<1>8. CASE Finished \/ UNCHANGED vars
  <2>1. UNCHANGED vars
    BY <1>8 DEF Finished
  <2> QED
    BY <1>1, <1>3, <2>1 DEF vars
<1>9. CASE NextDay
  BY <1>1, <1>9 DEF NextDay
<1>10. ASSUME NEW issuer \in Issuer, NEW new \in Terms, PayDividend(issuer, new)
       PROVE  Downloaded'
  BY <1>1, <1>10 DEF PayDividend, Post
<1>11. ASSUME NEW i \in Id, NEW new \in Terms \cup {Nothing}, NEW misdated \in BOOLEAN,
              Correct(i, new, misdated)
       PROVE  Downloaded'
  BY <1>1, <1>11 DEF Correct, Post
<1>12. Read \/ Sort \/ Merge \/ CheckUnmatched
         \/ (\E k \in DOMAIN accruals : ProcessDividend(k)) => pc # "posting"
  BY DEF Read, Sort, Merge, CheckUnmatched, ProcessDividend
<1> QED
  BY <1>2, <1>4, <1>5, <1>6, <1>7, <1>8, <1>9, <1>10, <1>11, <1>12 DEF Next

Complete ==
  /\ Disjoint /\ Covered = 1 .. today
  /\ Dated
  /\ broker = "Firstrade" => named.last = today

(* Complete statements were all read ...                                    *)
LEMMA AllRead ==
  ASSUME Base, Covered = 1 .. today
  PROVE  ReadRows = rows
<1>1. ASSUME NEW r \in rows
      PROVE  r \in ReadRows
  <2>1. r.posted \in 1 .. today
    BY DEF Base, Types, Posts, RowType, Day
  <2>2. PICK p \in files : r.posted \in p.first .. p.last
    BY <2>1 DEF Covered
  <2>3. r \in Posted(p)
    BY <2>2 DEF Posted, Base, Types, Period, Day
  <2> QED
    BY <2>3 DEF ReadRows
<1>2. ReadRows \subseteq rows
  BY DEF ReadRows, Posted
<1> QED
  BY <1>1, <1>2

(* ... which fails only at what the statement of funds asserts ...          *)
LEMMA CompleteRead ==
  ASSUME Base, Downloaded, Complete, Read, Fail
  PROVE  \E p \in files : \E entry \in Listed(p) : Asserts(entry)
<1>1. pc = "reading"
  BY DEF Read
<1>2. SUFFICES ASSUME ~AllMapped \/ ~IncludesItsDay
               PROVE  FALSE
  <2>1. pc' = "failed"
    BY DEF Fail
  <2> QED
    BY <2>1 DEF Read
<1>3. CASE ~IncludesItsDay
  BY <1>1, <1>3 DEF IncludesItsDay, Complete, Downloaded, Base, Types, Day
<1>4. CASE ~AllMapped
  <2>1. PICK r \in rows :
          /\ r.n \in rules
          /\ ~("tax" \in listing.cash /\ \E p \in files, s \in Described(r) : s \in Posted(p))
    BY <1>4 DEF AllMapped
  <2>2. r.kind = "tax" /\ Misdated # {}
    BY <1>1, <2>1 DEF Downloaded
  <2>3. "tax" \in listing.cash
    BY <2>2 DEF Complete, Dated
  <2>4. r \in ReadRows
    BY AllRead DEF Complete
  <2>5. PICK p \in files : r \in Posted(p)
    BY <2>4 DEF ReadRows
  <2>6. r \in Described(r)
    BY <2>2 DEF Described
  <2> QED
    BY <2>1, <2>3, <2>5, <2>6
<1> QED
  BY <1>2, <1>3, <1>4

(* ... are sorted ...                                                       *)
LEMMA CompleteSort ==
  ASSUME Base, Complete, Sort, Fail
  PROVE  FALSE
<1>1. pc = "sorting" /\ pc' = "failed"
  BY DEF Sort, Fail
<1>2. HasStartingAssets(Earliest(files))
  BY <1>1 DEF Sort, Complete, Disjoint
<1>3. Earliest(files) \in files /\ \A q \in files : Earliest(files).first <= q.first
  BY <1>1, FirstIsEarliest DEF Base, Types, Phases
<1>4. 1 \in Covered
  BY DEF Complete, Base, Types, Day
<1>5. PICK q \in files : 1 \in q.first .. q.last
  BY <1>4 DEF Covered
<1>6. Earliest(files).first <= 1
  BY <1>3, <1>5 DEF Base, Types, Period, Day
<1> QED
  BY <1>2, <1>3, <1>6 DEF HasStartingAssets, Base, Types, Period, Day

(* ... merged ...                                                           *)
LEMMA CompleteMerge ==
  ASSUME Base, Span, Downloaded, Complete, Merge, Fail
  PROVE  FALSE
<1> DEFINE p == Earliest(todo)
<1>1. /\ pc = "merging" /\ pc' = "failed" /\ todo # {}
      /\ (~(todo = files) /\ ~MayFollow(period, p)) \/ ((todo = {p}) /\ ~Reports(p))
  BY DEF Merge, Fail
<1>2. p \in todo /\ \A q \in todo : p.first <= q.first
  BY <1>1, FirstIsEarliest DEF Base, Types
<1> HIDE DEF p
<1>3. \A q \in files : /\ q.first \in Nat /\ q.last \in Nat /\ q.first <= q.last
                       /\ q.last <= today
  BY <1>1 DEF Base, Types, Phases, Period, Day
<1>4. p \in files /\ todo \subseteq files /\ today \in Nat /\ period.last \in Nat
      /\ period.first \in Nat
  BY <1>2 DEF Base, Types, Period, Day
<1>5. /\ todo # files => \E q \in files \ todo : q.last = period.last
      /\ \A q \in files \ todo : q.last <= period.last
      /\ todo # files => \A q \in todo : period.last < q.first
  BY <1>1 DEF Span
<1>6. CASE todo # files /\ ~MayFollow(period, p)
  <2>1. p.first # period.last + 1 /\ period.last < p.first
    BY <1>2, <1>5, <1>6 DEF MayFollow
  <2>2. period.last + 1 \in 1 .. today
    BY <1>3, <1>4, <2>1
  <2>3. PICK q \in files : period.last + 1 \in q.first .. q.last
    BY <2>2 DEF Complete, Covered
  <2>4. CASE q \in todo
    BY <1>2, <1>3, <1>4, <2>1, <2>3, <2>4
  <2>5. CASE q \notin todo
    BY <1>3, <1>4, <1>5, <2>3, <2>5
  <2> QED
    BY <2>4, <2>5
<1>7. CASE todo = {p} /\ ~Reports(p)
  <2>1. broker = "Firstrade" /\ p # named
    BY <1>7 DEF Reports
  <2>2. named \in files /\ named.last = today
    BY <1>1, <2>1 DEF Downloaded, Complete
  <2>3. named \in files \ todo
    BY <1>7, <2>1, <2>2
  <2>4. named.last <= period.last /\ period.last < p.first
    BY <1>2, <1>5, <2>3
  <2> QED
    BY <1>3, <1>4, <2>2, <2>4
<1> QED
  BY <1>1, <1>6, <1>7

(* ... and matched.  What is accrued of a dividend are its rows ...         *)
LEMMA CompleteKey ==
  ASSUME Base, Books, Complete, todo = {}, NEW kind \in Kind, NEW i \in Id,
         NEW S, S = EntriesOf(KeyOf(kind, i))
  PROVE  /\ Total(S) = Amount(kind, i)
         /\ Accepted(kind, S)
<1>1. Of(kind, i) = RowsOf(kind, i)
  BY AllRead DEF Of, RowsOf, Complete
<1>2. Total(S) = Sum(RowsOf(kind, i))
  BY <1>1, TotalsAreSums DEF Complete
<1>3. Balanced(kind, i)
  BY DEF Books
<1>4. Total(S) = Amount(kind, i)
  BY <1>2, <1>3 DEF Balanced
<1>5. Amount(kind, i) \in Nat
  BY TermsAre DEF Amount, Base, Types
<1>6. CASE kind = "tax" /\ broker = "Firstrade"
  BY <1>4, <1>5, <1>6 DEF Accepted
<1>7. CASE kind = "dividend" \/ broker # "Firstrade"
  <2>1. /\ \A e \in S : e \in Entry /\ e.row \in RowsOf(kind, i)
        /\ \A r \in RowsOf(kind, i) : \E e \in S : e.row = r
        /\ \A e, f \in S : e.row = f.row => e = f
    BY <1>1, EntriesAreRows DEF Complete
  <2>2. IsFiniteSet(S)
    BY EntriesFinite, FS_Subset DEF EntriesOf
  <2>3. ASSUME NEW a
        PROVE  Cardinality(WithAmount(S, a)) = Cardinality(RowsWith(kind, i, a))
    <3> DEFINE W == WithAmount(S, a)
               h == [e \in W |-> e.row]
    <3>1. W \subseteq S /\ IsFiniteSet(W)
      BY <2>2, FS_Subset DEF WithAmount
    <3>2. \A e, f \in W : h[e] = h[f] => e = f
      BY <2>1, <3>1
    <3>3. {h[e] : e \in W} = RowsWith(kind, i, a)
      <4>1. \A r \in RowsWith(kind, i, a) : \E e \in W : e.row = r
        BY <2>1 DEF RowsWith, RowsOf, WithAmount
      <4>2. \A e \in W : e.row \in RowsWith(kind, i, a)
        BY <2>1 DEF RowsWith, RowsOf, WithAmount
      <4> HIDE DEF W
      <4> QED
        BY <4>1, <4>2
    <3> HIDE DEF W, h
    <3>4. Cardinality({h[e] : e \in W}) = Cardinality(W)
      BY <3>1, <3>2, AsMany
    <3> QED
      BY <3>3, <3>4 DEF W
  <2>4. ASSUME NEW e \in Reversals(S)
        PROVE  Cardinality(WithAmount(S, e.row.amount))
                 <= Cardinality(WithAmount(S, -e.row.amount))
    <3>1. e.row.amount \in Int /\ e.row.amount < 0
      BY <2>1 DEF Reversals, Entry, RowType
    <3>2. PICK a \in Nat \ {0} : a = -e.row.amount /\ -a = e.row.amount
      BY <3>1
    <3>3. Cardinality(RowsWith(kind, i, -a)) + One(Amount(kind, i) = a)
            = Cardinality(RowsWith(kind, i, a))
      BY <1>3, <1>7 DEF Balanced
    <3>4. /\ Cardinality(WithAmount(S, -a)) = Cardinality(RowsWith(kind, i, -a))
          /\ Cardinality(WithAmount(S, a)) = Cardinality(RowsWith(kind, i, a))
      BY <2>3
    <3>5. Cardinality(WithAmount(S, -a)) \in Nat
      BY <2>2, FS_Subset, FS_CardinalityType DEF WithAmount
    <3> QED
      BY <3>2, <3>3, <3>4, <3>5 DEF One
  <2>5. ~(kind = "tax" /\ broker = "Firstrade")
    BY <1>7
  <2>6. Accepted(kind, S)
    BY <2>4, <2>5 DEF Accepted
  <2> QED
    BY <1>4, <2>6
<1> QED
  BY <1>4, <1>6, <1>7 DEF Kind

(* ... so no dividend fails ...                                             *)
LEMMA CompleteProcess ==
  ASSUME Base, Gathered, Books, Complete, NEW k, ProcessDividend(k), Fail
  PROVE  FALSE
<1>1. /\ pc = "merging" /\ pc' = "failed" /\ todo = {} /\ k \in DividendKeys
      /\ \/ ~Accepted("dividend", accruals[k]) \/ ~Accepted("tax", Accrued(TaxKey(k)))
         \/ Total(accruals[k]) = 0 /\ Total(Accrued(TaxKey(k))) # 0
  <2>1. pc' = "failed"
    BY DEF Fail
  <2>2. pc = "merging" /\ todo = {} /\ k \in DividendKeys
    BY DEF ProcessDividend
  <2> QED
    BY <2>1, <2>2 DEF ProcessDividend
<1>2. k \in [kind : Kind, date : Day, issuer : Issuer] /\ k.kind = "dividend"
      /\ k \in DOMAIN accruals
  BY <1>1 DEF DividendKeys, Base, Types
<1> DEFINE i == [day |-> k.date, issuer |-> k.issuer]
<1>3. i \in Id /\ k = KeyOf("dividend", i) /\ TaxKey(k) = KeyOf("tax", i)
  BY <1>2 DEF Id, KeyOf, TaxKey
<1> HIDE DEF i
<1>4. accruals[k] = EntriesOf(k) /\ Accrued(TaxKey(k)) = EntriesOf(TaxKey(k))
  BY <1>1, <1>2, AccruedAll
<1>5. /\ Total(accruals[k]) = terms[i][1] /\ Accepted("dividend", accruals[k])
      /\ Total(Accrued(TaxKey(k))) = terms[i][2] /\ Accepted("tax", Accrued(TaxKey(k)))
  <2>1. "dividend" \in Kind /\ "tax" \in Kind
    BY DEF Kind
  <2>2. Total(accruals[k]) = Amount("dividend", i) /\ Accepted("dividend", accruals[k])
    BY <1>1, <1>3, <1>4, <2>1, CompleteKey
  <2>3. /\ Total(Accrued(TaxKey(k))) = Amount("tax", i)
        /\ Accepted("tax", Accrued(TaxKey(k)))
    BY <1>1, <1>3, <1>4, <2>1, CompleteKey
  <2> QED
    BY <2>2, <2>3 DEF Amount
<1>6. terms[i] \in Terms \cup {Nothing}
  BY <1>3 DEF Base, Types
<1>7. terms[i][1] \in Nat /\ terms[i][2] \in Nat /\ terms[i][2] <= terms[i][1]
  BY <1>6, TermsAre
<1> QED
  BY <1>1, <1>5, <1>7

(* ... and nothing is left of any.                                          *)
LEMMA CompleteCheck ==
  ASSUME Base, Gathered, Books, Complete, CheckUnmatched, Fail
  PROVE  FALSE
<1>1. /\ pc = "merging" /\ pc' = "failed" /\ todo = {} /\ DividendKeys = {}
      /\ \E k \in DOMAIN accruals : ~RefundOnly(accruals[k])
  <2>1. pc' = "failed"
    BY DEF Fail
  <2> QED
    BY <2>1 DEF CheckUnmatched
<1>2. PICK k \in DOMAIN accruals : ~RefundOnly(accruals[k])
  BY <1>1
<1>3. /\ DOMAIN accruals \subseteq MergedKeys
      /\ \A x \in DOMAIN accruals : accruals[x] = EntriesOf(x)
      /\ \A x \in Done : TaxKey(x) \notin DOMAIN accruals
  BY <1>1 DEF Gathered
<1>4. PICK e \in Entries : Key(e) = k
  BY <1>2, <1>3 DEF MergedKeys
<1>5. e \in Entry /\ k \in [kind : Kind, date : Day, issuer : Issuer] /\ k.kind = "tax"
  <2>1. k.kind # "dividend"
    BY <1>1, <1>2 DEF DividendKeys
  <2> QED
    BY <1>2, <1>4, <2>1, EntriesFinite DEF Base, Types, Kind
<1> DEFINE i == e.row.id
<1>6. i \in Id /\ e.row \in ReadRows /\ e.date = i.day
  <2>1. PICK p \in files : e \in Listed(p)
    BY <1>4 DEF Entries
  <2>2. p \in Period
    BY DEF Base, Types
  <2> QED
    BY <1>5, <2>1, <2>2, ListedOnce DEF Complete, Entry, RowType, ReadRows
<1>7. k = KeyOf("tax", i)
  <2>1. Key(e) = [kind |-> e.row.kind, date |-> e.date, issuer |-> i.issuer]
    BY DEF Key
  <2> QED
    BY <1>4, <1>5, <1>6, <2>1 DEF KeyOf
<1> HIDE DEF i
<1>8. PICK s \in rows : s.kind = "dividend" /\ s.id = i
  <2>1. e.row \in rows
    BY <1>6, AllRead DEF Complete
  <2> QED
    BY <2>1 DEF Books, i
<1>9. s \in Of("dividend", i) /\ "dividend" \in Kind
  BY <1>8, AllRead DEF Complete, Of, Kind
<1>10. EntriesOf(KeyOf("dividend", i)) # {}
  BY <1>1, <1>6, <1>9, TotalsAreSums DEF Complete
<1>11. KeyOf("dividend", i) \in Done
  BY <1>1, <1>10 DEF Done, EntriesOf, MergedKeys, DividendKeys, KeyOf
<1>12. TaxKey(KeyOf("dividend", i)) = k
  BY <1>7 DEF TaxKey, KeyOf
<1> QED
  BY <1>2, <1>3, <1>11, <1>12

(* Complete statements load, but for what the statement of funds asserts.   *)
LEMMA CompleteStep ==
  ASSUME Base, Span, Gathered, Books, Downloaded, CompleteFilesLoad, [Next]_vars
  PROVE  CompleteFilesLoad'
<1>1. CASE pc' # "failed"
  BY <1>1 DEF CompleteFilesLoad
<1>2. CASE pc' = "failed"
  <2>1. UNCHANGED <<world, Program>>
    BY <1>2, WhatFails
  <2>2. /\ Complete' = Complete /\ files' = files
        /\ \A p : Listed(p)' = Listed(p)
    <3>1. \A p : Listed(p)' = Listed(p)
      BY <2>1, ListingStays DEF Program
    <3>2. Disjoint' = Disjoint /\ Covered' = Covered /\ Dated' = Dated
      BY <2>1 DEF Disjoint, Overlap, Covered, Dated, Misdated, Program, world
    <3> QED
      BY <2>1, <3>1, <3>2 DEF Complete, Program, world
  <2>3. SUFFICES ASSUME Complete
                 PROVE  \E p \in files : \E entry \in Listed(p) : Asserts(entry)
    <3>1. CompleteFilesLoad' <=>
            (pc' = "failed" /\ Complete' =>
               \E p \in files' : \E entry \in Listed(p)' : Asserts(entry))
      BY DEF CompleteFilesLoad, Complete, Asserts
    <3> QED
      BY <2>2, <3>1
  <2>4. CASE pc = "failed"
    BY <2>3, <2>4 DEF CompleteFilesLoad, Complete
  <2>5. CASE Fail /\ Read
    BY <2>3, <2>5, CompleteRead
  <2>6. CASE Fail /\ Sort
    BY <2>3, <2>6, CompleteSort
  <2>7. CASE Fail /\ Merge
    BY <2>3, <2>7, CompleteMerge
  <2>8. CASE Fail /\ CheckUnmatched
    BY <2>3, <2>8, CompleteCheck
  <2>9. ASSUME NEW k \in DOMAIN accruals, Fail, ProcessDividend(k)
        PROVE  FALSE
    BY <2>3, <2>9, CompleteProcess
  <2> QED
    BY <1>2, <2>4, <2>5, <2>6, <2>7, <2>8, <2>9, WhatFails
<1> QED
  BY <1>1, <1>2

(* Statements that cover the life of the account load, however many and     *)
(* wherever the broker's corrections are: the books are balanced, so no     *)
(* correction looks like a reversal of nothing, and every tax finds its     *)
(* dividend (mod.rs load_inner, Payments::get_result).                      *)
THEOREM CompleteStatementsLoad == Spec => []CompleteFilesLoad
<1> DEFINE I == Base /\ Span /\ Gathered /\ Books /\ Downloaded /\ CompleteFilesLoad
<1>1. Init => I
  <2>1. Init => Span /\ Gathered /\ Downloaded /\ CompleteFilesLoad
    BY DEF Init, Span, Gathered, Downloaded, CompleteFilesLoad
  <2> QED
    BY <2>1, BaseInit, BooksInit
<1>2. I /\ [Next]_vars => I'
  BY BaseStep, SpanStep, GatheredStep, BooksStep, DownloadedStep, CompleteStep
<1> QED
  BY <1>1, <1>2, PTL DEF Spec

-----------------------------------------------------------------------------
(* The cash on the books.                                                   *)

(* What was recorded so far is the cash of its day; Firstrade reports it    *)
(* once, on the day the last file was generated and ends with.              *)
CashKept ==
  /\ pc \in {"posting", "reading", "sorting"} => DOMAIN assets = {}
  /\ broker = "Firstrade" =>
       /\ pc \in {"sorting", "merging", "loaded"} => made = named.last
       /\ DOMAIN assets \subseteq {named.last}
  /\ \A d \in DOMAIN assets : assets[d] = CashOn(d)
  /\ pc \in {"merging", "loaded"} /\ todo = {} => LastDate \in DOMAIN assets

(* The cash of a day is that of the world.                                  *)
LEMMA CashStays ==
  ASSUME CashKept, UNCHANGED <<world, files, named, made, todo, assets>>,
         pc' \in {"posting", "reading", "sorting"} => pc \in {"posting", "reading", "sorting"},
         pc' \in {"sorting", "merging", "loaded"} => pc \in {"sorting", "merging", "loaded"},
         pc' \in {"merging", "loaded"} => pc \in {"merging", "loaded"}
  PROVE  CashKept'
<1>1. \A d : CashOn(d)' = CashOn(d)
  BY DEF CashOn, world
<1>2. LastDate' = LastDate /\ broker' = broker
  BY DEF LastDate, world
<1> QED
  BY <1>1, <1>2 DEF CashKept

(* What a merge records.                                                    *)
LEMMA MergeRecords ==
  ASSUME Merge, ~Fail
  PROVE  LET p == Earliest(todo)
         IN  assets' = [d \in DOMAIN assets \cup {x \in {p.last} : Reports(p)} |->
                          IF d = p.last THEN CashOn(ReportDay(p)) ELSE assets[d]]
<1> DEFINE p == Earliest(todo)
<1>1. ~((~(todo = files) /\ ~MayFollow(period, p)) \/ ((todo = {p}) /\ ~Reports(p)))
  BY DEF Merge
<1> QED
  BY <1>1 DEF Merge

(* A merge records the cash of the statement's last day, and the last one   *)
(* that of the last day of all.                                             *)
LEMMA MergeKeepsCash ==
  ASSUME Base, Span, CashKept, Merge, ~Fail, Base', Span'
  PROVE  CashKept'
<1> DEFINE p == Earliest(todo)
<1>1. Merging(p)
  BY MergesEarliest
<1>2. assets' = [d \in DOMAIN assets \cup {x \in {p.last} : Reports(p)} |->
                   IF d = p.last THEN CashOn(ReportDay(p)) ELSE assets[d]]
  BY MergeRecords
<1> HIDE DEF p
<1>3. /\ pc = "merging" /\ pc' = "merging" /\ todo' = todo \ {p}
      /\ todo = {p} => Reports(p)
      /\ p \in todo /\ p \in files /\ p \in Period
      /\ period' = [period EXCEPT !.last = p.last]
      /\ UNCHANGED <<world, files, named, made>>
  BY <1>1 DEF Merging
<1>4. \A d : CashOn(d)' = CashOn(d)
  BY <1>3 DEF CashOn, world
<1>5. broker' = broker /\ LastDate' = LastDate
  BY <1>3 DEF LastDate, world
<1>6. broker = "Firstrade" => made = named.last /\ DOMAIN assets \subseteq {named.last}
  BY <1>3 DEF CashKept
<1>7. /\ DOMAIN assets' = DOMAIN assets \cup {x \in {p.last} : Reports(p)}
      /\ \A d \in DOMAIN assets' :
           assets'[d] = IF d = p.last THEN CashOn(ReportDay(p)) ELSE assets[d]
  BY <1>2
<1>8. broker = "Firstrade" => DOMAIN assets' \subseteq {named.last}
  BY <1>6, <1>7 DEF Reports
<1>9. ASSUME NEW d \in DOMAIN assets'
      PROVE  assets'[d] = CashOn(d)
  <2>1. CASE d = p.last
    <3>1. ReportDay(p) = d
      BY <1>6, <1>8, <2>1 DEF ReportDay
    <3> QED
      BY <1>7, <2>1, <3>1
  <2>2. CASE d # p.last
    <3>1. d \in DOMAIN assets
      BY <1>7, <2>2
    <3> QED
      BY <1>7, <2>2, <3>1 DEF CashKept
  <2> QED
    BY <2>1, <2>2
<1>10. todo' = {} => LastDate \in DOMAIN assets'
  <2> SUFFICES ASSUME todo' = {}
               PROVE  LastDate = p.last
    BY <1>3, <1>7
  <2>1. \A q \in files : q.last <= period'.last
    BY <1>3 DEF Span
  <2>2. period'.last = p.last /\ p.last \in Nat
    BY <1>3 DEF Base, Types, Period, Day
  <2>3. (\E q \in files : LastDate = q.last) /\ p.last <= LastDate
    BY <1>3, LastOfAll
  <2> QED
    BY <2>1, <2>2, <2>3 DEF Base, Types, Period, Day
<1> QED
  BY <1>3, <1>4, <1>5, <1>6, <1>8, <1>9, <1>10 DEF CashKept

(* Every step keeps the cash.                                               *)
LEMMA CashStep ==
  ASSUME Base, Span, Downloaded, CashKept, [Next]_vars, Base', Span'
  PROVE  CashKept'
<1>1. CASE pc' = "posting" /\ UNCHANGED Program
  <2>1. DOMAIN assets' = {}
    <3>1. pc = "posting"
      BY <1>1 DEF Next, NextDay, PayDividend, Correct, Post, Download, Read, Sort, Merge,
                  ProcessDividend, CheckUnmatched, Finished, Fail, vars
    <3> QED
      BY <1>1, <3>1 DEF CashKept, Program
  <2> QED
    BY <1>1, <2>1 DEF CashKept
<1>2. CASE Download
  BY <1>2 DEF Download, CashKept
<1>3. CASE Fail /\ pc # "posting"
  BY <1>3, CashStays DEF Fail, Program
<1>4. CASE ~Fail /\ Read
  <2>1. /\ pc = "reading" /\ pc' = "sorting" /\ UNCHANGED <<world, Program>>
        /\ broker = "Firstrade" => made <= named.last
    BY <1>4 DEF Read, IncludesItsDay
  <2>2. broker = "Firstrade" => made \in named.last .. today /\ named.last \in Int
    BY <2>1 DEF Downloaded, Base, Types, Period, Day
  <2>3. broker = "Firstrade" => made = named.last
    BY <2>1, <2>2
  <2>4. /\ DOMAIN assets' = {} /\ broker' = broker /\ made' = made /\ named' = named
    BY <2>1 DEF CashKept, Program, world
  <2> QED
    BY <2>1, <2>3, <2>4 DEF CashKept
<1>5. CASE ~Fail /\ Sort
  <2>1. /\ pc = "sorting" /\ pc' = "merging" /\ todo' = files
        /\ UNCHANGED <<world, named, made, assets>>
    BY <1>5 DEF Sort
  <2>2. files # {} /\ DOMAIN assets' = {} /\ broker' = broker
    BY <2>1 DEF Base, Phases, CashKept, world
  <2> QED
    BY <2>1, <2>2 DEF CashKept
<1>6. CASE ~Fail /\ Merge
  BY <1>6, MergeKeepsCash
<1>7. ASSUME NEW k \in DOMAIN accruals, ~Fail, ProcessDividend(k)
      PROVE  CashKept'
  BY <1>7, MakesOne, CashStays DEF Making
<1>8. CASE ~Fail /\ CheckUnmatched
  <2>1. pc = "merging" /\ pc' = "loaded" /\ UNCHANGED <<world, Program>>
    BY <1>8 DEF CheckUnmatched
  <2> QED
    BY <2>1, CashStays DEF Program
<1>9. CASE UNCHANGED vars
  BY <1>9, CashStays DEF vars
<1>10. CASE NextDay
  BY <1>1, <1>10 DEF NextDay
<1>11. ASSUME NEW issuer \in Issuer, NEW new \in Terms, PayDividend(issuer, new)
       PROVE  CashKept'
  BY <1>1, <1>11 DEF PayDividend, Post
<1>12. ASSUME NEW i \in Id, NEW new \in Terms \cup {Nothing}, NEW misdated \in BOOLEAN,
              Correct(i, new, misdated)
       PROVE  CashKept'
  BY <1>1, <1>12 DEF Correct, Post
<1>13. Read \/ Sort \/ Merge \/ CheckUnmatched
         \/ (\E k \in DOMAIN accruals : ProcessDividend(k)) => pc # "posting"
  BY DEF Read, Sort, Merge, CheckUnmatched, ProcessDividend
<1>14. CASE Finished
  BY <1>9, <1>14 DEF Finished
<1> QED
  BY <1>2, <1>3, <1>4, <1>5, <1>6, <1>7, <1>8, <1>9, <1>10, <1>11, <1>12, <1>13, <1>14
     DEF Next

(* A row is posted after its dividend, or with it.                          *)
FirstPaid ==
  \A r \in rows : \E s \in rows : s.kind = "dividend" /\ s.id = r.id /\ s.posted <= r.posted

(* FirstPaid in every step: a correction is of what a dividend brought.     *)
LEMMA FirstPaidStep ==
  ASSUME Base, Books, FirstPaid, [Next]_vars, Base', Books'
  PROVE  FirstPaid'
<1>1. CASE UNCHANGED rows
  BY <1>1 DEF FirstPaid
<1>2. ASSUME NEW i, NEW new, NEW date, NEW A, NEW B, Posting(i, new, date, A, B)
      PROVE  FirstPaid'
  <2>1. /\ rows' = (rows \cup A) \cup B /\ today' = today
        /\ \A r \in A \cup B : r.posted = today
    BY <1>2 DEF Posting, Post, Fitting
  <2>2. ASSUME NEW r \in rows', r \notin rows
        PROVE  \E s \in rows' : s.kind = "dividend" /\ s.id = r.id /\ s.posted <= r.posted
    <3>1. PICK s \in rows' : s.kind = "dividend" /\ s.id = r.id
      BY DEF Books
    <3>2. s.posted <= today /\ r.posted = today
      BY <2>1, <2>2 DEF Base, Posts
    <3> QED
      BY <3>1, <3>2
  <2>3. ASSUME NEW r \in rows
        PROVE  \E s \in rows' : s.kind = "dividend" /\ s.id = r.id /\ s.posted <= r.posted
    BY <2>1 DEF FirstPaid
  <2> QED
    BY <2>2, <2>3 DEF FirstPaid
<1>3. ASSUME NEW issuer \in Issuer, NEW new \in Terms, PayDividend(issuer, new)
      PROVE  FirstPaid'
  <2> DEFINE i == [day |-> today, issuer |-> issuer]
             A == Rows("dividend", i, today, new[1], 0, 4 * postings)
             B == Rows("tax", i, today, new[2], 0, 4 * postings + 2)
  <2>1. Posting(i, new, today, A, B)
    BY <1>3, PaysAs
  <2> HIDE DEF i, A, B
  <2> QED
    BY <1>2, <2>1
<1>4. ASSUME NEW i \in Id, NEW new \in Terms \cup {Nothing}, NEW misdated \in BOOLEAN,
             Correct(i, new, misdated)
      PROVE  FirstPaid'
  BY <1>2, <1>4, CorrectsAs
<1> QED
  BY <1>1, <1>3, <1>4, WorldMoves

(* What rows move the cash by.                                              *)
Moves(R) == [r \in R |-> IF r.kind = "dividend" THEN r.amount ELSE -r.amount]

(* The rows of a dividend move it by what was paid less what was withheld.  *)
LEMMA DividendMoves ==
  ASSUME Base, NEW i \in Id
  PROVE  /\ SumFunctionOnSet(Moves(ReadRows), {r \in ReadRows : r.id = i})
              = Sum(PaidTo(i)) - Sum(WithheldFrom(i))
         /\ Sum(PaidTo(i)) \in Int /\ Sum(WithheldFrom(i)) \in Int
         /\ Summable(Moves(ReadRows), ReadRows)
<1> DEFINE w == Moves(ReadRows)
           P == PaidTo(i)
           W == WithheldFrom(i)
           f == [r \in W |-> r.amount]
           g == [r \in P |-> r.amount]
<1>1. ReadRows \subseteq rows /\ IsFiniteSet(ReadRows)
  <2>1. ReadRows \subseteq rows
    BY DEF ReadRows, Posted
  <2> QED
    BY <2>1, FS_Subset DEF Base, Posts
<1>2. \A r \in ReadRows : r.amount \in Int /\ r.kind \in {"dividend", "tax"}
  BY <1>1 DEF Base, Types, RowType, Kind
<1>3. Summable(w, ReadRows)
  BY <1>1, <1>2 DEF Summable, Moves
<1>4. /\ P \in SUBSET ReadRows /\ W \in SUBSET ReadRows /\ P \cap W = {}
      /\ {r \in ReadRows : r.id = i} = P \cup W
      /\ (\A r \in P : r.kind = "dividend") /\ \A r \in W : r.kind = "tax"
  BY <1>2 DEF PaidTo, WithheldFrom
<1> HIDE DEF P, W
<1>5. (\A r \in P : g[r] = w[r]) /\ \A r \in W : w[r] = (-1) * f[r]
  BY <1>2, <1>4 DEF Moves
<1>6. Summable(f, W)
  BY <1>1, <1>2, <1>4, FS_Subset DEF Summable
<1>7. Sum(P) = SumFunctionOnSet(g, P) /\ Sum(W) = SumFunctionOnSet(f, W)
  BY DEF Sum
<1> HIDE DEF w, f, g
<1>8. SumFunctionOnSet(w, P \cup W) = SumFunctionOnSet(w, P) + SumFunctionOnSet(w, W)
  BY <1>3, <1>4, SumUnion
<1>9. SumFunctionOnSet(g, P) = SumFunctionOnSet(w, P) /\ SumFunctionOnSet(w, P) \in Int
  BY <1>3, <1>4, <1>5, SumOfPart
<1>10. SumFunctionOnSet(w, W) = (-1) * SumFunctionOnSet(f, W) /\ SumFunctionOnSet(f, W) \in Int
  BY <1>5, <1>6, SumTimes, SumInteger
<1>11. SumFunctionOnSet(w, P \cup W) = Sum(P) - Sum(W) /\ Sum(P) \in Int /\ Sum(W) \in Int
  BY <1>7, <1>8, <1>9, <1>10
<1> QED
  BY <1>3, <1>4, <1>11 DEF w, P, W

(* What is loaded of a dividend.                                            *)
Loaded(i) ==
  [date |-> i.day, issuer |-> i.issuer, amount |-> Sum(PaidTo(i)),
   tax |-> Sum(WithheldFrom(i))]

Paid == {i \in Id : PaidTo(i) # {}}

(* The dividends that are loaded come to what all were paid less what was   *)
(* withheld from them, for those that came to nothing had no tax.           *)
LEMMA LoadedSum ==
  ASSUME Base, Span, Gathered, pc = "loaded", Dated,
         NEW net, net = [i \in Paid |-> Sum(PaidTo(i)) - Sum(WithheldFrom(i))]
  PROVE  /\ IsFiniteSet(Paid)
         /\ SumFunctionOnSet([d \in result |-> d.amount - d.tax], result)
              = SumFunctionOnSet(net, Paid)
<1> DEFINE J == {i \in Paid : Sum(PaidTo(i)) # 0}
           Z == Paid \ J
           h == [i \in Paid |-> Loaded(i)]
           v == [d \in result |-> d.amount - d.tax]
           key == [r \in ReadRows |-> r.id]
<1>1. IsFiniteSet(Paid)
  <2>1. IsFiniteSet(ReadRows)
    <3>1. ReadRows \subseteq rows
      BY DEF ReadRows, Posted
    <3> QED
      BY <3>1, FS_Subset DEF Base, Posts
  <2>2. Paid \subseteq {key[r] : r \in ReadRows}
    BY DEF Paid, PaidTo
  <2> HIDE DEF key
  <2>3. IsFiniteSet({key[r] : r \in ReadRows})
    BY <2>1, ImageFinite
  <2> QED
    BY <2>2, <2>3, FS_Subset
<1>2. \A i \in Paid : net[i] \in Int
  <2> SUFFICES ASSUME NEW i \in Paid
               PROVE  net[i] \in Int
    OBVIOUS
  <2>1. i \in Id
    BY DEF Paid
  <2>2. Sum(PaidTo(i)) \in Int /\ Sum(WithheldFrom(i)) \in Int
    BY <2>1, DividendMoves
  <2> QED
    BY <2>2
<1>3. Summable(net, Paid) /\ Summable(net, J)
  BY <1>1, <1>2, FS_Subset DEF Summable
<1>4. result = {h[i] : i \in J}
  <2>1. result = {d \in {Loaded(i) : i \in Paid} : d.amount # 0}
    BY LoadedIsPosted DEF IncomeAsPosted, Loaded, Paid
  <2>2. \A i : Loaded(i).amount = Sum(PaidTo(i))
    BY DEF Loaded
  <2>3. {d \in {Loaded(i) : i \in Paid} : d.amount # 0} = {Loaded(i) : i \in J}
    BY <2>2
  <2> QED
    BY <2>1, <2>3
<1>5. \A i, j \in J : h[i] = h[j] => i = j
  <2> SUFFICES ASSUME NEW i \in J, NEW j \in J, h[i] = h[j]
               PROVE  i = j
    OBVIOUS
  <2>1. Loaded(i) = Loaded(j)
    OBVIOUS
  <2>2. i.day = j.day /\ i.issuer = j.issuer
    BY <2>1 DEF Loaded
  <2>3. /\ i = [day |-> i.day, issuer |-> i.issuer]
        /\ j = [day |-> j.day, issuer |-> j.issuer]
    BY DEF Paid, Id
  <2> QED
    BY <2>2, <2>3
<1>6. \A i \in J : v[h[i]] = net[i]
  <2> SUFFICES ASSUME NEW i \in J
               PROVE  v[h[i]] = net[i]
    OBVIOUS
  <2>1. h[i] \in result /\ h[i] = Loaded(i)
    BY <1>4
  <2>2. v[h[i]] = Loaded(i).amount - Loaded(i).tax
    BY <2>1
  <2> QED
    BY <2>2 DEF Loaded
<1>7. \A i \in Z : net[i] = 0
  <2> SUFFICES ASSUME NEW i \in Z
               PROVE  net[i] = 0
    OBVIOUS
  <2>1. i \in Id /\ PaidTo(i) # {} /\ Sum(PaidTo(i)) = 0
    BY DEF Paid
  <2>2. KeyOf("dividend", i) \in Done
    BY <2>1, PaidIsDone
  <2>3. /\ todo = {} /\ Disjoint
        /\ \A k \in Done : Total(EntriesOf(k)) # 0 \/ Total(EntriesOf(TaxKey(k))) = 0
    BY DEF Base, Phases, Span, Gathered
  <2>4. /\ PaidTo(i) = Of("dividend", i) /\ WithheldFrom(i) = Of("tax", i)
        /\ "dividend" \in Kind /\ "tax" \in Kind
        /\ TaxKey(KeyOf("dividend", i)) = KeyOf("tax", i)
    BY DEF PaidTo, WithheldFrom, Of, Kind, TaxKey, KeyOf
  <2>5. /\ Total(EntriesOf(KeyOf("dividend", i))) = Sum(PaidTo(i))
        /\ Total(EntriesOf(KeyOf("tax", i))) = Sum(WithheldFrom(i))
    BY <2>1, <2>3, <2>4, TotalsAreSums
  <2>6. Sum(WithheldFrom(i)) = 0
    BY <2>1, <2>2, <2>3, <2>4, <2>5
  <2> QED
    BY <2>1, <2>6
<1>8. J \in SUBSET Paid /\ Z \in SUBSET Paid /\ J \cap Z = {} /\ J \cup Z = Paid
  OBVIOUS
<1> HIDE DEF J, Z, h, v
<1>9. SumFunctionOnSet(v, {h[i] : i \in J}) = SumFunctionOnSet(net, J)
  BY <1>3, <1>5, <1>6, SumReindexed
<1>10. SumFunctionOnSet(net, J \cup Z) = SumFunctionOnSet(net, J) + SumFunctionOnSet(net, Z)
  BY <1>3, <1>8, SumUnion
<1>11. SumFunctionOnSet(net, Z) = 0
  BY <1>1, <1>7, <1>8, FS_Subset, SumZero
<1>12. SumFunctionOnSet(net, J) \in Int
  BY <1>3, SumInteger
<1>13. SumFunctionOnSet(v, result) = SumFunctionOnSet(net, Paid)
  <2>1. SumFunctionOnSet(v, result) = SumFunctionOnSet(v, {h[i] : i \in J})
    BY <1>4, Zenon
  <2>2. SumFunctionOnSet(net, Paid) = SumFunctionOnSet(net, J \cup Z)
    BY <1>8, Zenon
  <2> QED
    BY <1>9, <1>10, <1>11, <1>12, <2>1, <2>2
<1> QED
  BY <1>1, <1>13 DEF v

(* Where no day is missing, every row until the last day was read, and with *)
(* it the dividend it belongs to; so the cash is what was loaded.           *)
LEMMA CashIsLoaded ==
  ASSUME Base, Span, Gathered, FirstPaid, pc = "loaded", Dated,
         1 .. LastDate \subseteq Covered \cup Weekend
  PROVE  CashOn(LastDate) = SumFunctionOnSet([d \in result |-> d.amount - d.tax], result)
<1> DEFINE w == Moves(ReadRows)
           key == [r \in ReadRows |-> r.id]
           net == [i \in Paid |-> Sum(PaidTo(i)) - Sum(WithheldFrom(i))]
<1>1. /\ files \subseteq Period /\ (\A p \in files : p.last <= LastDate)
      /\ LastDate \in Nat
  <2>1. files # {} /\ files \subseteq Period
    BY DEF Base, Types, Phases
  <2> QED
    BY <2>1, LastOfAll DEF Period, Day
<1>2. \A r \in rows : /\ r.posted \in Nat /\ r.posted >= 1 /\ r.posted \notin Weekend
                      /\ r.id \in Id
  BY DEF Base, Types, Posts, RowType, Day
<1>3. ASSUME NEW r \in rows, r.posted <= LastDate
      PROVE  r \in ReadRows
  <2>1. r.posted \in 1 .. LastDate
    BY <1>1, <1>2, <1>3
  <2>2. PICK p \in files : r.posted \in p.first .. p.last
    BY <1>2, <2>1 DEF Covered
  <2>3. r \in Posted(p)
    BY <2>2 DEF Posted
  <2> QED
    BY <2>3 DEF ReadRows
<1>4. ASSUME NEW r \in ReadRows
      PROVE  r \in rows /\ r.posted <= LastDate
  <2>1. PICK p \in files : r \in Posted(p)
    BY DEF ReadRows
  <2>2. r \in rows /\ r.posted <= p.last /\ p.last <= LastDate /\ p.last \in Nat
    BY <1>1, <2>1 DEF Posted, Period, Day
  <2> QED
    BY <1>1, <1>2, <2>2
<1>5. CashOn(LastDate) = SumFunctionOnSet(w, ReadRows)
  <2>1. {r \in rows : r.posted <= LastDate} = ReadRows
    BY <1>3, <1>4
  <2> QED
    BY <2>1 DEF CashOn, Moves
<1>6. \A r \in ReadRows : key[r] \in Paid
  <2> SUFFICES ASSUME NEW r \in ReadRows
               PROVE  r.id \in Paid
    OBVIOUS
  <2>1. PICK s \in rows : s.kind = "dividend" /\ s.id = r.id /\ s.posted <= r.posted
    BY <1>4 DEF FirstPaid
  <2>2. s \in ReadRows
    BY <1>1, <1>2, <1>3, <1>4, <2>1
  <2> QED
    BY <1>2, <1>4, <2>1, <2>2 DEF Paid, PaidTo
<1>7. ASSUME NEW i \in Paid
      PROVE  net[i] = SumFunctionOnSet(w, Keyed(ReadRows, key, i))
  <2>1. Keyed(ReadRows, key, i) = {r \in ReadRows : r.id = i}
    BY DEF Keyed
  <2>2. i \in Id
    BY DEF Paid
  <2> HIDE DEF w, key
  <2> QED
    BY <2>1, <2>2, DividendMoves DEF w
<1>8. Summable(w, ReadRows)
  <2>1. CASE Id = {}
    BY <1>2, <1>4, <2>1, FS_EmptySet DEF Summable
  <2>2. CASE Id # {}
    BY <2>2, DividendMoves
  <2> QED
    BY <2>1, <2>2
<1>9. /\ IsFiniteSet(Paid)
      /\ SumFunctionOnSet([d \in result |-> d.amount - d.tax], result)
           = SumFunctionOnSet(net, Paid)
  BY LoadedSum
<1> HIDE DEF w, key, net
<1>10. SumFunctionOnSet(net, Paid) = SumFunctionOnSet(w, ReadRows)
  BY <1>6, <1>7, <1>8, <1>9, SumOfGroups
<1> QED
  BY <1>5, <1>9, <1>10

(* Whatever was corrected, listed twice or spread over statements, what is  *)
(* loaded are the dividends and taxes that the broker finally posted on     *)
(* the days of the statements (load_inner, process_dividend_accruals,       *)
(* Payments::get_result), and the cash that is recorded for a day is the    *)
(* cash of that day, which they come to (merge(), historical_assets).       *)
THEOREM WhatIsLoadedWasPosted == Spec => []LoadedAsPosted
<1> DEFINE I == /\ Base /\ Span /\ Gathered /\ FailedTypes
                /\ Books /\ Downloaded /\ CashKept /\ FirstPaid
<1>1. Init => I
  <2>1. Init => Span /\ Gathered /\ FailedTypes /\ Downloaded /\ CashKept /\ FirstPaid
    BY DEF Init, Span, Gathered, FailedTypes, Downloaded, CashKept, FirstPaid
  <2> QED
    BY <2>1, BaseInit, BooksInit
<1>2. I /\ [Next]_vars => I'
  BY BaseStep, SpanStep, GatheredStep, FailedTypesStep, BooksStep, DownloadedStep,
     CashStep, FirstPaidStep
<1>3. I => LoadedAsPosted
  <2> SUFFICES ASSUME I
               PROVE  LoadedAsPosted
    OBVIOUS
  <2>1. TypeOK
    BY ResultTypes DEF FailedTypes, ResultType, TypeOK, Base, Types
  <2>2. ASSUME pc = "loaded"
        PROVE  IncomeAsPosted /\ BooksBalance
    <3>1. IncomeAsPosted
      BY <2>2, LoadedIsPosted
    <3>2. /\ LastDate \in DOMAIN assets
          /\ \A d \in DOMAIN assets : assets[d] = CashOn(d)
      BY <2>2 DEF CashKept, Base, Phases
    <3>3. Dated /\ 1 .. LastDate \subseteq Covered \cup Weekend =>
            assets[LastDate] = SumFunctionOnSet([d \in result |-> d.amount - d.tax], result)
      BY <2>2, <3>2, CashIsLoaded
    <3> QED
      BY <3>1, <3>2, <3>3 DEF BooksBalance
  <2> QED
    BY <2>1, <2>2 DEF LoadedAsPosted
<1> QED
  BY <1>1, <1>2, <1>3, PTL DEF Spec

=============================================================================
