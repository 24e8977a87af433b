---------------------------- MODULE SumTheorems ----------------------------
(***************************************************************************)
(* Facts about SumFunctionOnSet of the community modules, which adds up a  *)
(* function over a finite set in an order nobody knows: that the order     *)
(* does not matter, and what follows from that.  The conservation          *)
(* invariants of the project are about such sums.                          *)
(***************************************************************************)
EXTENDS Integers, Functions, FiniteSetTheorems, TLAPS

Summable(f, S) == IsFiniteSet(S) /\ \A x \in S : f[x] \in Int

(* Induction over a finite set, without an operator for the induction       *)
(* hypothesis: Q are the subsets of which it holds.                         *)
LEMMA SubsetInduction ==
  ASSUME NEW S, IsFiniteSet(S), NEW Q,
         {} \in Q,
         \A T \in SUBSET S : \A x \in S \ T : T \in Q => T \cup {x} \in Q
  PROVE  S \in Q
<1> DEFINE Bad == {T \in SUBSET S : T \notin Q}
<1>1. SUFFICES ASSUME S \notin Q PROVE FALSE
  OBVIOUS
<1>2. IsWellFoundedOn(StrictSubsetOrdering(S), SUBSET S)
  BY FS_StrictSubsetOrderingWellFounded, FS_FiniteSubsetsOfFinite
<1>3. Bad # {} /\ Bad \subseteq SUBSET S
  BY <1>1
<1> HIDE DEF Bad
<1>4. PICK T \in Bad : \A U \in Bad : <<U, T>> \notin StrictSubsetOrdering(S)
  BY <1>2, <1>3, WFMin
<1> USE DEF Bad
<1>5. PICK x : x \in T
  OBVIOUS
<1>6. T \ {x} \in Q
  <2>1. T \ {x} \in SUBSET S /\ T \in SUBSET S /\ T \ {x} # T
    BY <1>5
  <2>2. <<T \ {x}, T>> \in StrictSubsetOrdering(S)
    BY <2>1 DEF StrictSubsetOrdering
  <2> QED
    BY <1>4, <2>1, <2>2
<1>7. (T \ {x}) \cup {x} = T
  BY <1>5
<1> QED
  BY <1>5, <1>6, <1>7

(* The same for the natural numbers.                                        *)
LEMMA NumberInduction ==
  ASSUME NEW Q, 0 \in Q, \A n \in Nat : n \in Q => n + 1 \in Q
  PROVE  Nat \subseteq Q
<1> DEFINE Bad == Nat \ Q
<1>1. SUFFICES ASSUME Bad # {} PROVE FALSE
  OBVIOUS
<1>2. PICK n \in Bad : \A m \in Bad : <<m, n>> \notin OpToRel(<, Nat)
  <2>1. Bad \subseteq Nat
    OBVIOUS
  <2> HIDE DEF Bad
  <2> QED
    BY <1>1, <2>1, NatLessThanWellFounded, WFMin
<1>3. n # 0 /\ n - 1 \in Nat /\ <<n - 1, n>> \in OpToRel(<, Nat)
  BY DEF OpToRel
<1>4. n - 1 \in Q
  BY <1>2, <1>3
<1>5. (n - 1) + 1 = n
  OBVIOUS
<1> QED
  BY <1>3, <1>4, <1>5

-----------------------------------------------------------------------------
(* The function that the definition of the sum recurs by.                   *)
Chosen(T) == CHOOSE x \in T : TRUE

Step(f, g, T) == IF T = {} THEN 0 ELSE f[Chosen(T)] + g[T \ {Chosen(T)}]

IsSum(f, g, S) == g = [T \in SUBSET S |-> Step(f, g, T)]

(* The chosen element of a set is one of its elements.                     *)
LEMMA ChosenIn ==
  ASSUME NEW T, T # {}
  PROVE  Chosen(T) \in T
  BY DEF Chosen

(* There is one ...                                                         *)
LEMMA SumExists ==
  ASSUME NEW S, NEW f, Summable(f, S)
  PROVE  \E g : IsSum(f, g, S)
<1> USE DEF Summable
<1> DEFINE SumsTo(n) ==
             {g \in [SUBSET S -> Int] :
                \A T \in SUBSET S : Cardinality(T) <= n => g[T] = Step(f, g, T)}
           Q == {n \in Nat : SumsTo(n) # {}}
<1>1. 0 \in Q
  <2> DEFINE g == [T \in SUBSET S |-> 0]
  <2>1. \A T \in SUBSET S : Cardinality(T) <= 0 => T = {}
    BY FS_Subset, FS_EmptySet, FS_CardinalityType
  <2>2. g \in SumsTo(0)
    BY <2>1 DEF Step
  <2> QED
    BY <2>2
<1>2. ASSUME NEW n \in Nat, n \in Q
      PROVE  n + 1 \in Q
  <2>1. PICK g \in SumsTo(n) : TRUE
    BY <1>2
  <2> DEFINE h == [T \in SUBSET S |-> Step(f, g, T)]
  <2>2. h \in [SUBSET S -> Int]
    BY ChosenIn DEF Step
  <2>3. ASSUME NEW T \in SUBSET S, Cardinality(T) <= n + 1
        PROVE  h[T] = Step(f, h, T)
    <3>1. CASE T = {}
      BY <3>1 DEF Step
    <3>2. CASE T # {}
      <4> DEFINE U == T \ {Chosen(T)}
      <4>1. U \in SUBSET S /\ Cardinality(U) = Cardinality(T) - 1
        BY <3>2, ChosenIn, FS_Subset, FS_RemoveElement
      <4>2. Cardinality(U) <= n
        BY <2>3, <4>1, FS_Subset, FS_CardinalityType
      <4>3. h[U] = g[U]
        BY <4>1, <4>2
      <4> QED
        BY <3>2, <4>3 DEF Step
    <3> QED
      BY <3>1, <3>2
  <2>4. h \in SumsTo(n + 1)
    BY <2>2, <2>3
  <2>5. SumsTo(n + 1) # {}
    BY <2>4
  <2> QED
    BY <2>5
<1>3. Cardinality(S) \in Q
  <2> HIDE DEF Q
  <2> QED
    BY <1>1, <1>2, NumberInduction, FS_CardinalityType
<1>4. PICK g \in SumsTo(Cardinality(S)) : TRUE
  BY <1>3
<1>5. \A T \in SUBSET S : g[T] = Step(f, g, T)
  BY <1>4, FS_Subset
<1>6. IsSum(f, g, S)
  BY <1>4, <1>5 DEF IsSum
<1> QED
  BY <1>6

(* ... whose values are integers and do not depend on the set it is defined *)
(* on.                                                                      *)
LEMMA SumUnique ==
  ASSUME NEW S, NEW f, Summable(f, S), NEW T \in SUBSET S,
         NEW g, IsSum(f, g, S), NEW h, IsSum(f, h, T)
  PROVE  g[T] = h[T] /\ g[T] \in Int
<1> USE DEF Summable
<1> DEFINE Q == {n \in Nat : \A U \in SUBSET T :
                   Cardinality(U) <= n => g[U] = h[U] /\ g[U] \in Int}
<1>1. \A U \in SUBSET T : g[U] = Step(f, g, U) /\ h[U] = Step(f, h, U)
  BY DEF IsSum
<1>2. 0 \in Q
  <2>1. \A U \in SUBSET T : Cardinality(U) <= 0 => U = {}
    BY FS_Subset, FS_EmptySet, FS_CardinalityType
  <2> QED
    BY <1>1, <2>1 DEF Step
<1>3. ASSUME NEW n \in Nat, n \in Q
      PROVE  n + 1 \in Q
  <2>0. g[{}] = 0 /\ h[{}] = 0
    BY <1>1 DEF Step
  <2> SUFFICES ASSUME NEW U \in SUBSET T, Cardinality(U) <= n + 1
               PROVE  g[U] = h[U] /\ g[U] \in Int
    OBVIOUS
  <2>3. CASE U = {}
    BY <2>0, <2>3
  <2>4. CASE U # {}
    <3> DEFINE V == U \ {Chosen(U)}
    <3>1. /\ V \in SUBSET T /\ Cardinality(V) = Cardinality(U) - 1
          /\ Cardinality(U) \in Nat /\ Chosen(U) \in S
      BY <2>4, ChosenIn, FS_Subset, FS_RemoveElement, FS_CardinalityType
    <3>2. Cardinality(V) <= n
      BY <3>1
    <3>3. g[V] = h[V] /\ g[V] \in Int
      BY <1>3, <3>1, <3>2
    <3>4. g[U] = f[Chosen(U)] + g[V] /\ h[U] = f[Chosen(U)] + h[V]
      BY <1>1, <2>4 DEF Step
    <3>5. f[Chosen(U)] \in Int
      BY <3>1
    <3> QED
      BY <3>3, <3>4, <3>5
  <2> QED
    BY <2>3, <2>4
<1>4. Cardinality(T) \in Q
  <2> HIDE DEF Q
  <2> QED
    BY <1>2, <1>3, NumberInduction, FS_CardinalityType, FS_Subset
<1> QED
  BY <1>4

(* The sum is the value of that function.                                   *)
LEMMA SumIsThat ==
  ASSUME NEW S, NEW f, Summable(f, S)
  PROVE  \E g : IsSum(f, g, S) /\ SumFunctionOnSet(f, S) = g[S]
<1> DEFINE g == CHOOSE g : IsSum(f, g, S)
<1>1. IsSum(f, g, S)
  BY SumExists
<1>2. SumFunctionOnSet(f, S) = g[S]
  BY DEF SumFunctionOnSet, FoldFunctionOnSet, MapThenFoldSet, IsSum, Step, Chosen
<1> QED
  BY <1>1, <1>2

-----------------------------------------------------------------------------
(* An element less, whichever it is.                                        *)
LEMMA SumAnyOrder ==
  ASSUME NEW S, NEW f, Summable(f, S), NEW g, IsSum(f, g, S), NEW T \in SUBSET S,
         NEW x \in T
  PROVE  g[T] = f[x] + g[T \ {x}]
<1> USE DEF Summable
<1> DEFINE Q == {n \in Nat : \A U \in SUBSET S : Cardinality(U) <= n =>
                   \A y \in U : g[U] = f[y] + g[U \ {y}]}
<1>1. \A U \in SUBSET S : g[U] = Step(f, g, U) /\ g[U] \in Int
  <2>1. \A U \in SUBSET S : g[U] = Step(f, g, U)
    BY DEF IsSum
  <2>2. ASSUME NEW U \in SUBSET S
        PROVE  g[U] \in Int
    <3>1. Summable(f, U)
      BY FS_Subset
    <3>2. PICK h : IsSum(f, h, U)
      BY <3>1, SumExists
    <3> QED
      BY <3>2, SumUnique
  <2> QED
    BY <2>1, <2>2
<1>2. 0 \in Q
  <2>1. \A U \in SUBSET S : Cardinality(U) <= 0 => U = {}
    BY FS_Subset, FS_EmptySet, FS_CardinalityType
  <2> QED
    BY <2>1
<1>3. ASSUME NEW n \in Nat, n \in Q
      PROVE  n + 1 \in Q
  <2> SUFFICES ASSUME NEW U \in SUBSET S, Cardinality(U) <= n + 1, NEW y \in U
               PROVE  g[U] = f[y] + g[U \ {y}]
    OBVIOUS
  <2> DEFINE z == Chosen(U)
  <2>1. z \in U
    BY ChosenIn
  <2>2. g[U] = f[z] + g[U \ {z}]
    BY <1>1 DEF Step
  <2>3. CASE y # z
    <3> HIDE DEF z
    <3> DEFINE V == (U \ {y}) \ {z}
    <3>1. IsFiniteSet(U) /\ Cardinality(U) \in Nat
      BY FS_Subset, FS_CardinalityType
    <3>2. /\ U \ {z} \in SUBSET S /\ Cardinality(U \ {z}) <= n /\ y \in U \ {z}
      <4>1. Cardinality(U \ {z}) = Cardinality(U) - 1
        BY <2>1, <3>1, FS_RemoveElement
      <4> QED
        BY <2>1, <2>3, <3>1, <4>1
    <3>3. /\ U \ {y} \in SUBSET S /\ Cardinality(U \ {y}) <= n /\ z \in U \ {y}
      <4>1. Cardinality(U \ {y}) = Cardinality(U) - 1
        BY <2>1, <3>1, FS_RemoveElement
      <4> QED
        BY <2>1, <2>3, <3>1, <4>1
    <3>4. (U \ {z}) \ {y} = V /\ V \in SUBSET S
      OBVIOUS
    <3>5. g[U \ {z}] = f[y] + g[V]
      <4>1. g[U \ {z}] = f[y] + g[(U \ {z}) \ {y}]
        BY <1>3, <3>2
      <4> QED
        BY <3>4, <4>1
    <3>6. g[U \ {y}] = f[z] + g[V]
      BY <1>3, <3>3
    <3>7. g[V] \in Int /\ f[y] \in Int /\ f[z] \in Int
      BY <1>1, <2>1, <3>4
    <3> HIDE DEF V
    <3> QED
      BY <2>2, <3>5, <3>6, <3>7
  <2> QED
    BY <2>2, <2>3
<1>4. Cardinality(T) \in Q
  <2> HIDE DEF Q
  <2> QED
    BY <1>2, <1>3, NumberInduction, FS_CardinalityType, FS_Subset
<1> QED
  BY <1>4

(* The three facts that say what a sum is.                                  *)
LEMMA SumEmpty ==
  ASSUME NEW f
  PROVE  SumFunctionOnSet(f, {}) = 0
<1>1. Summable(f, {})
  BY FS_EmptySet DEF Summable
<1>2. PICK g : IsSum(f, g, {}) /\ SumFunctionOnSet(f, {}) = g[{}]
  BY <1>1, SumIsThat
<1> QED
  BY <1>2 DEF IsSum, Step

(* A sum of integers is one.                                                *)
LEMMA SumInteger ==
  ASSUME NEW S, NEW f, Summable(f, S)
  PROVE  SumFunctionOnSet(f, S) \in Int
  BY SumIsThat, SumUnique

(* Any element may be the last one added.                                   *)
LEMMA SumElement ==
  ASSUME NEW S, NEW f, Summable(f, S), NEW x \in S
  PROVE  SumFunctionOnSet(f, S) = f[x] + SumFunctionOnSet(f, S \ {x})
<1>1. PICK g : IsSum(f, g, S) /\ SumFunctionOnSet(f, S) = g[S]
  BY SumIsThat
<1>2. Summable(f, S \ {x})
  BY FS_RemoveElement DEF Summable
<1>3. PICK h : IsSum(f, h, S \ {x}) /\ SumFunctionOnSet(f, S \ {x}) = h[S \ {x}]
  BY <1>2, SumIsThat
<1>4. g[S] = f[x] + g[S \ {x}]
  BY <1>1, SumAnyOrder
<1>5. g[S \ {x}] = h[S \ {x}]
  BY <1>1, <1>3, SumUnique
<1> QED
  BY <1>1, <1>3, <1>4, <1>5

(* One more element.                                                        *)
LEMMA SumInsert ==
  ASSUME NEW S, NEW f, NEW x, x \notin S, Summable(f, S \cup {x})
  PROVE  SumFunctionOnSet(f, S \cup {x}) = f[x] + SumFunctionOnSet(f, S)
<1>1. (S \cup {x}) \ {x} = S
  OBVIOUS
<1> QED
  BY <1>1, SumElement

-----------------------------------------------------------------------------
(* What can be added up can be added up in part.                            *)
LEMMA SummableSubset ==
  ASSUME NEW S, NEW f, Summable(f, S), NEW T \in SUBSET S
  PROVE  Summable(f, T)
  BY FS_Subset DEF Summable

(* The sum of a sum.                                                        *)
LEMMA SumPlus ==
  ASSUME NEW S, NEW f, Summable(f, S), NEW g, Summable(g, S), NEW h,
         \A x \in S : h[x] = f[x] + g[x]
  PROVE  SumFunctionOnSet(h, S) = SumFunctionOnSet(f, S) + SumFunctionOnSet(g, S)
<1> DEFINE Q == {T \in SUBSET S : SumFunctionOnSet(h, T)
                                    = SumFunctionOnSet(f, T) + SumFunctionOnSet(g, T)}
<1>1. {} \in Q
  BY SumEmpty
<1>2. ASSUME NEW T \in SUBSET S, NEW x \in S \ T, T \in Q
      PROVE  T \cup {x} \in Q
  <2>1. T \cup {x} \in SUBSET S
    OBVIOUS
  <2>2. Summable(f, T \cup {x}) /\ Summable(g, T \cup {x}) /\ Summable(h, T \cup {x})
    BY <2>1, FS_Subset DEF Summable
  <2>3. Summable(f, T) /\ Summable(g, T)
    BY SummableSubset
  <2>4. /\ SumFunctionOnSet(f, T \cup {x}) = f[x] + SumFunctionOnSet(f, T)
        /\ SumFunctionOnSet(g, T \cup {x}) = g[x] + SumFunctionOnSet(g, T)
        /\ SumFunctionOnSet(h, T \cup {x}) = h[x] + SumFunctionOnSet(h, T)
    BY <2>2, SumInsert
  <2>5. f[x] \in Int /\ g[x] \in Int /\ h[x] = f[x] + g[x]
    BY DEF Summable
  <2>6. SumFunctionOnSet(f, T) \in Int /\ SumFunctionOnSet(g, T) \in Int
    BY <2>3, SumInteger
  <2>7. SumFunctionOnSet(h, T) = SumFunctionOnSet(f, T) + SumFunctionOnSet(g, T)
    BY <1>2
  <2>8. SumFunctionOnSet(h, T \cup {x})
          = SumFunctionOnSet(f, T \cup {x}) + SumFunctionOnSet(g, T \cup {x})
    BY <2>4, <2>5, <2>6, <2>7
  <2> QED
    BY <2>1, <2>8
<1> HIDE DEF Q
<1>3. S \in Q
  BY <1>1, <1>2, SubsetInduction DEF Summable
<1> QED
  BY <1>3 DEF Q

(* Only the values on the set count.                                        *)
LEMMA SumSame ==
  ASSUME NEW S, NEW f, Summable(f, S), NEW g, \A x \in S : g[x] = f[x]
  PROVE  SumFunctionOnSet(g, S) = SumFunctionOnSet(f, S)
<1> DEFINE Q == {T \in SUBSET S : SumFunctionOnSet(g, T) = SumFunctionOnSet(f, T)}
<1>1. {} \in Q
  BY SumEmpty
<1>2. ASSUME NEW T \in SUBSET S, NEW x \in S \ T, T \in Q
      PROVE  T \cup {x} \in Q
  <2>1. T \cup {x} \in SUBSET S
    OBVIOUS
  <2>2. Summable(f, T \cup {x}) /\ Summable(g, T \cup {x})
    BY <2>1, FS_Subset DEF Summable
  <2>3. /\ SumFunctionOnSet(f, T \cup {x}) = f[x] + SumFunctionOnSet(f, T)
        /\ SumFunctionOnSet(g, T \cup {x}) = g[x] + SumFunctionOnSet(g, T)
    BY <2>2, SumInsert
  <2> QED
    BY <1>2, <2>1, <2>3
<1> HIDE DEF Q
<1>3. S \in Q
  BY <1>1, <1>2, SubsetInduction DEF Summable
<1> QED
  BY <1>3 DEF Q

(* Also on a part of the set.                                               *)
LEMMA SumOfPart ==
  ASSUME NEW S, NEW f, Summable(f, S), NEW T \in SUBSET S, NEW g, \A x \in T : g[x] = f[x]
  PROVE  /\ SumFunctionOnSet(g, T) = SumFunctionOnSet(f, T)
         /\ SumFunctionOnSet(f, T) \in Int
<1>1. Summable(f, T)
  BY SummableSubset
<1> QED
  BY <1>1, SumSame, SumInteger

(* One value changes.                                                       *)
LEMMA SumChange ==
  ASSUME NEW S, NEW f, Summable(f, S), NEW g, NEW x \in S, g[x] \in Int,
         \A y \in S \ {x} : g[y] = f[y]
  PROVE  /\ Summable(g, S)
         /\ SumFunctionOnSet(g, S) = SumFunctionOnSet(f, S) - f[x] + g[x]
<1>1. Summable(g, S)
  BY DEF Summable
<1>2. Summable(f, S \ {x})
  BY SummableSubset
<1>3. SumFunctionOnSet(g, S \ {x}) = SumFunctionOnSet(f, S \ {x})
  BY <1>2, SumSame
<1>4. /\ SumFunctionOnSet(f, S) = f[x] + SumFunctionOnSet(f, S \ {x})
      /\ SumFunctionOnSet(g, S) = g[x] + SumFunctionOnSet(g, S \ {x})
  BY <1>1, SumElement
<1>5. SumFunctionOnSet(f, S \ {x}) \in Int /\ f[x] \in Int
  BY <1>2, SumInteger DEF Summable
<1> QED
  BY <1>1, <1>3, <1>4, <1>5

(* Sums over parts.                                                         *)
LEMMA SumUnion ==
  ASSUME NEW S, NEW f, Summable(f, S), NEW A \in SUBSET S, NEW B \in SUBSET S,
         A \cap B = {}
  PROVE  SumFunctionOnSet(f, A \cup B) = SumFunctionOnSet(f, A) + SumFunctionOnSet(f, B)
<1> DEFINE Q == {T \in SUBSET B : SumFunctionOnSet(f, A \cup T)
                                    = SumFunctionOnSet(f, A) + SumFunctionOnSet(f, T)}
<1>0. Summable(f, A) /\ Summable(f, B)
  BY SummableSubset
<1>1. {} \in Q
  BY <1>0, SumEmpty, SumInteger
<1>2. ASSUME NEW T \in SUBSET B, NEW x \in B \ T, T \in Q
      PROVE  T \cup {x} \in Q
  <2>1. /\ A \cup (T \cup {x}) = (A \cup T) \cup {x}
        /\ x \notin A \cup T
    OBVIOUS
  <2>2. /\ Summable(f, (A \cup T) \cup {x}) /\ Summable(f, T \cup {x})
        /\ Summable(f, A \cup T) /\ Summable(f, T)
    BY SummableSubset
  <2>3. /\ SumFunctionOnSet(f, (A \cup T) \cup {x}) = f[x] + SumFunctionOnSet(f, A \cup T)
        /\ SumFunctionOnSet(f, T \cup {x}) = f[x] + SumFunctionOnSet(f, T)
    BY <2>1, <2>2, SumInsert
  <2>4. /\ SumFunctionOnSet(f, A) \in Int /\ SumFunctionOnSet(f, T) \in Int /\ f[x] \in Int
    BY <1>0, <2>2, SumInteger DEF Summable
  <2>5. SumFunctionOnSet(f, A \cup T) = SumFunctionOnSet(f, A) + SumFunctionOnSet(f, T)
    BY <1>2
  <2>6. SumFunctionOnSet(f, (A \cup T) \cup {x})
          = SumFunctionOnSet(f, A) + SumFunctionOnSet(f, T \cup {x})
    BY <2>3, <2>4, <2>5
  <2> QED
    BY <2>1, <2>6
<1> HIDE DEF Q
<1>3. B \in Q
  BY <1>0, <1>1, <1>2, SubsetInduction DEF Summable
<1> QED
  BY <1>3 DEF Q

(* Term by term.                                                            *)
LEMMA SumAtMost ==
  ASSUME NEW S, NEW f, Summable(f, S), NEW g, Summable(g, S), \A x \in S : f[x] <= g[x]
  PROVE  SumFunctionOnSet(f, S) <= SumFunctionOnSet(g, S)
<1> DEFINE Q == {T \in SUBSET S : SumFunctionOnSet(f, T) <= SumFunctionOnSet(g, T)}
<1>1. {} \in Q
  BY SumEmpty
<1>2. ASSUME NEW T \in SUBSET S, NEW x \in S \ T, T \in Q
      PROVE  T \cup {x} \in Q
  <2>1. T \cup {x} \in SUBSET S
    OBVIOUS
  <2>2. /\ Summable(f, T \cup {x}) /\ Summable(g, T \cup {x})
        /\ Summable(f, T) /\ Summable(g, T)
    BY <2>1, SummableSubset
  <2>3. /\ SumFunctionOnSet(f, T \cup {x}) = f[x] + SumFunctionOnSet(f, T)
        /\ SumFunctionOnSet(g, T \cup {x}) = g[x] + SumFunctionOnSet(g, T)
    BY <2>2, SumInsert
  <2>4. /\ SumFunctionOnSet(f, T) \in Int /\ SumFunctionOnSet(g, T) \in Int
        /\ f[x] \in Int /\ g[x] \in Int /\ f[x] <= g[x]
    BY <2>2, SumInteger DEF Summable
  <2>5. SumFunctionOnSet(f, T) <= SumFunctionOnSet(g, T)
    BY <1>2
  <2>6. SumFunctionOnSet(f, T \cup {x}) <= SumFunctionOnSet(g, T \cup {x})
    BY <2>3, <2>4, <2>5
  <2> QED
    BY <2>1, <2>6
<1> HIDE DEF Q
<1>3. S \in Q
  BY <1>1, <1>2, SubsetInduction DEF Summable
<1> QED
  BY <1>3 DEF Q

(* A common factor.                                                         *)
LEMMA SumTimes ==
  ASSUME NEW S, NEW f, Summable(f, S), NEW c \in Int, NEW g,
         \A x \in S : g[x] = c * f[x]
  PROVE  SumFunctionOnSet(g, S) = c * SumFunctionOnSet(f, S)
<1> DEFINE Q == {T \in SUBSET S : SumFunctionOnSet(g, T) = c * SumFunctionOnSet(f, T)}
<1>1. {} \in Q
  BY SumEmpty
<1>2. ASSUME NEW T \in SUBSET S, NEW x \in S \ T, T \in Q
      PROVE  T \cup {x} \in Q
  <2>1. T \cup {x} \in SUBSET S
    OBVIOUS
  <2>2. /\ Summable(f, T \cup {x}) /\ Summable(g, T \cup {x}) /\ Summable(f, T)
    BY <2>1, FS_Subset DEF Summable
  <2>3. /\ SumFunctionOnSet(f, T \cup {x}) = f[x] + SumFunctionOnSet(f, T)
        /\ SumFunctionOnSet(g, T \cup {x}) = g[x] + SumFunctionOnSet(g, T)
    BY <2>2, SumInsert
  <2>4. SumFunctionOnSet(f, T) \in Int /\ f[x] \in Int /\ g[x] = c * f[x]
    BY <2>2, SumInteger DEF Summable
  <2>5. SumFunctionOnSet(g, T) = c * SumFunctionOnSet(f, T)
    BY <1>2
  <2>6. SumFunctionOnSet(g, T \cup {x}) = c * SumFunctionOnSet(f, T \cup {x})
    BY <2>3, <2>4, <2>5
  <2> QED
    BY <2>1, <2>6
<1> HIDE DEF Q
<1>3. S \in Q
  BY <1>1, <1>2, SubsetInduction DEF Summable
<1> QED
  BY <1>3 DEF Q

(* Nothing comes of nothing.                                                *)
LEMMA SumZero ==
  ASSUME NEW S, IsFiniteSet(S), NEW f, \A x \in S : f[x] = 0
  PROVE  SumFunctionOnSet(f, S) = 0
<1>1. Summable(f, S) /\ \A x \in S : f[x] = 0 * f[x]
  BY DEF Summable
<1> QED
  BY <1>1, SumTimes, SumInteger

(* What is nowhere negative is not in sum.                                  *)
LEMMA SumNatural ==
  ASSUME NEW S, IsFiniteSet(S), NEW f, \A x \in S : f[x] \in Nat
  PROVE  SumFunctionOnSet(f, S) \in Nat
<1> DEFINE zero == [x \in S |-> 0]
<1>1. Summable(f, S) /\ Summable(zero, S) /\ \A x \in S : zero[x] <= f[x]
  BY DEF Summable
<1>2. SumFunctionOnSet(zero, S) = 0
  BY SumZero
<1> HIDE DEF zero
<1>3. SumFunctionOnSet(zero, S) <= SumFunctionOnSet(f, S)
  BY <1>1, SumAtMost
<1> QED
  BY <1>1, <1>2, <1>3, SumInteger

(* One element alone counts.                                                *)
LEMMA SumSingle ==
  ASSUME NEW S, NEW f, Summable(f, S), NEW x \in S, \A y \in S \ {x} : f[y] = 0
  PROVE  SumFunctionOnSet(f, S) = f[x]
<1>1. IsFiniteSet(S \ {x}) /\ f[x] \in Int
  BY FS_RemoveElement DEF Summable
<1>2. SumFunctionOnSet(f, S \ {x}) = 0
  BY <1>1, SumZero
<1> QED
  BY <1>1, <1>2, SumElement

-----------------------------------------------------------------------------
(* Sums over a sequence: one more element ...                               *)
LEMMA SumAppended ==
  ASSUME NEW n \in Nat, NEW f, \A i \in 1 .. n : f[i] \in Int,
         NEW g, \A i \in 1 .. n : g[i] = f[i], g[n + 1] \in Int
  PROVE  SumFunctionOnSet(g, 1 .. n + 1) = SumFunctionOnSet(f, 1 .. n) + g[n + 1]
<1>1. 1 .. n + 1 = (1 .. n) \cup {n + 1} /\ n + 1 \notin 1 .. n
  OBVIOUS
<1>2. IsFiniteSet(1 .. n) /\ IsFiniteSet(1 .. n + 1)
  BY FS_Interval
<1>3. Summable(f, 1 .. n) /\ Summable(g, (1 .. n) \cup {n + 1})
  BY <1>1, <1>2 DEF Summable
<1>4. SumFunctionOnSet(g, 1 .. n) = SumFunctionOnSet(f, 1 .. n)
  BY <1>3, SumSame
<1>5. SumFunctionOnSet(g, (1 .. n) \cup {n + 1}) = g[n + 1] + SumFunctionOnSet(g, 1 .. n)
  BY <1>1, <1>3, SumInsert
<1>6. SumFunctionOnSet(f, 1 .. n) \in Int
  BY <1>3, SumInteger
<1>7. SumFunctionOnSet(g, 1 .. n + 1) = g[n + 1] + SumFunctionOnSet(f, 1 .. n)
  BY <1>1, <1>4, <1>5, Zenon
<1> QED
  BY <1>6, <1>7

(* ... and all but the first.                                               *)
LEMMA SumOfTail ==
  ASSUME NEW n \in Nat, NEW f, \A i \in 1 .. n + 1 : f[i] \in Int,
         NEW g, \A i \in 1 .. n : g[i] = f[i + 1]
  PROVE  SumFunctionOnSet(f, 1 .. n + 1) = f[1] + SumFunctionOnSet(g, 1 .. n)
<1> DEFINE Q == {k \in Nat : k <= n => SumFunctionOnSet(f, 1 .. k + 1)
                                          = f[1] + SumFunctionOnSet(g, 1 .. k)}
<1>1. 0 \in Q
  <2>1. 1 .. 0 = {} /\ 1 .. 0 + 1 = {} \cup {1}
    OBVIOUS
  <2>2. Summable(f, {} \cup {1})
    BY FS_EmptySet, FS_AddElement DEF Summable
  <2>3. SumFunctionOnSet(f, {} \cup {1}) = f[1] + SumFunctionOnSet(f, {})
    BY <2>2, SumInsert
  <2> QED
    BY <2>1, <2>3, SumEmpty
<1>2. ASSUME NEW k \in Nat, k \in Q
      PROVE  k + 1 \in Q
  <2> SUFFICES ASSUME k + 1 <= n
               PROVE  SumFunctionOnSet(f, 1 .. (k + 1) + 1)
                        = f[1] + SumFunctionOnSet(g, 1 .. k + 1)
    OBVIOUS
  <2>1. /\ \A i \in 1 .. k + 1 : f[i] \in Int
        /\ \A i \in 1 .. k : g[i] \in Int
        /\ f[(k + 1) + 1] \in Int /\ g[k + 1] = f[(k + 1) + 1] /\ f[1] \in Int
    OBVIOUS
  <2>2. SumFunctionOnSet(f, 1 .. (k + 1) + 1)
          = SumFunctionOnSet(f, 1 .. k + 1) + f[(k + 1) + 1]
    BY <2>1, SumAppended
  <2>3. SumFunctionOnSet(g, 1 .. k + 1) = SumFunctionOnSet(g, 1 .. k) + g[k + 1]
    BY <2>1, SumAppended
  <2>4. SumFunctionOnSet(f, 1 .. k + 1) = f[1] + SumFunctionOnSet(g, 1 .. k)
    BY <1>2
  <2>5. SumFunctionOnSet(g, 1 .. k) \in Int
    <3>1. IsFiniteSet(1 .. k)
      BY FS_Interval
    <3>2. Summable(g, 1 .. k)
      BY <2>1, <3>1 DEF Summable
    <3> QED
      BY <3>2, SumInteger
  <2> QED
    BY <2>1, <2>2, <2>3, <2>4, <2>5
<1> HIDE DEF Q
<1>3. n \in Q
  BY <1>1, <1>2, NumberInduction
<1> QED
  BY <1>3 DEF Q
(* A sum of sums: g adds up the part of a set that each number labels.      *)
SumsParts(g, n, f, S, label, part) ==
  /\ \A i \in S : label[i] \in 0 .. n
  /\ \A y \in 0 .. n : /\ part[y] \in SUBSET S
                       /\ \A i \in S : i \in part[y] <=> label[i] = y
                       /\ g[y] = SumFunctionOnSet(f, part[y])

(* A sum over a set is the sum, over the labels of its elements, of the    *)
(* sums of the parts so labelled.                                          *)
LEMMA SumByLabel ==
  ASSUME NEW S, NEW f, Summable(f, S), NEW n \in Nat, NEW label, NEW part, NEW g,
         SumsParts(g, n, f, S, label, part)
  PROVE  SumFunctionOnSet(g, 0 .. n) = SumFunctionOnSet(f, S)
<1> DEFINE Part(y) == {i \in S : label[i] = y}
           UpTo(m) == {i \in S : label[i] <= m}
           Q == {m \in Nat : m <= n =>
                   SumFunctionOnSet(g, 0 .. m) = SumFunctionOnSet(f, UpTo(m))}
<1>0. \A m \in 0 .. n : part[m] = Part(m) /\ g[m] = SumFunctionOnSet(f, Part(m))
  <2>1. \A m \in 0 .. n : part[m] = Part(m)
    BY DEF SumsParts
  <2> HIDE DEF Part
  <2> QED
    BY <2>1 DEF SumsParts
<1>1. \A m \in 0 .. n : g[m] \in Int /\ g[m] = SumFunctionOnSet(f, Part(m))
  <2>1. \A m : Part(m) \in SUBSET S
    OBVIOUS
  <2>2. \A m : Summable(f, Part(m))
    BY <2>1, SummableSubset
  <2> HIDE DEF Part
  <2> QED
    BY <1>0, <2>2, SumInteger
<1>2. \A m \in Nat : m <= n => Summable(g, 0 .. m)
  <2>1. \A m \in Nat : IsFiniteSet(0 .. m)
    BY ONLY FS_Interval
  <2> HIDE DEF Part
  <2> QED
    BY <1>1, <2>1 DEF Summable
<1>3. 0 \in Q
  <2>1. 0 .. 0 = {0} \cup {} /\ 0 \notin {} /\ 0 \in 0 .. n
    OBVIOUS
  <2>2. SumFunctionOnSet(g, {0} \cup {}) = g[0]
    <3>1. Summable(g, 0 .. 0)
      <4>1. 0 \in Nat /\ 0 <= n
        OBVIOUS
      <4> QED
        BY <1>2, <4>1
    <3>2. 0 \in 0 .. 0 /\ \A y \in (0 .. 0) \ {0} : g[y] = 0
      BY <2>1
    <3>3. SumFunctionOnSet(g, 0 .. 0) = g[0]
      BY <3>1, <3>2, SumSingle
    <3> QED
      BY <2>1, <3>3
  <2>3. UpTo(0) = Part(0)
    BY DEF SumsParts
  <2> QED
    BY <1>1, <2>1, <2>2, <2>3
<1>4. ASSUME NEW m \in Nat, m \in Q PROVE m + 1 \in Q
  <2> HIDE DEF UpTo, Part
  <2> SUFFICES ASSUME m + 1 <= n
               PROVE  SumFunctionOnSet(g, 0 .. m + 1) = SumFunctionOnSet(f, UpTo(m + 1))
    OBVIOUS
  <2>1. 0 .. m + 1 = (0 .. m) \cup {m + 1} /\ m + 1 \notin 0 .. m /\ m + 1 \in 0 .. n
    <3> HIDE DEF Q
    <3>1. 0 .. m + 1 = (0 .. m) \cup {m + 1}
      OBVIOUS
    <3>2. m + 1 \notin 0 .. m /\ m + 1 \in 0 .. n
      OBVIOUS
    <3> QED
      BY <3>1, <3>2
  <2>2. Summable(g, (0 .. m) \cup {m + 1})
    <3>1. Summable(g, 0 .. m + 1)
      BY <1>2
    <3> QED
      BY <2>1, <3>1
  <2>3. SumFunctionOnSet(g, (0 .. m) \cup {m + 1}) = g[m + 1] + SumFunctionOnSet(g, 0 .. m)
    BY <2>1, <2>2, SumInsert
  <2>4. /\ UpTo(m) \in SUBSET S /\ Part(m + 1) \in SUBSET S
        /\ UpTo(m) \cap Part(m + 1) = {} /\ UpTo(m) \cup Part(m + 1) = UpTo(m + 1)
    BY DEF UpTo, Part, SumsParts
  <2>5. SumFunctionOnSet(f, UpTo(m) \cup Part(m + 1))
          = SumFunctionOnSet(f, UpTo(m)) + SumFunctionOnSet(f, Part(m + 1))
    BY <2>4, SumUnion
  <2>6. SumFunctionOnSet(g, 0 .. m) = SumFunctionOnSet(f, UpTo(m))
    BY <1>4
  <2>7. g[m + 1] = SumFunctionOnSet(f, Part(m + 1)) /\ g[m + 1] \in Int
    BY <1>1, <2>1
  <2>8. SumFunctionOnSet(g, 0 .. m) \in Int
    BY <1>2, SumInteger
  <2>9. SumFunctionOnSet(f, UpTo(m + 1)) = SumFunctionOnSet(g, 0 .. m) + g[m + 1]
    BY <2>4, <2>5, <2>6, <2>7
  <2>10. SumFunctionOnSet(g, 0 .. m + 1) = g[m + 1] + SumFunctionOnSet(g, 0 .. m)
    BY <2>1, <2>3
  <2> QED
    BY <2>7, <2>8, <2>9, <2>10
<1> HIDE DEF Q
<1>5. n \in Q
  BY <1>3, <1>4, NumberInduction
<1>6. UpTo(n) = S
  BY DEF SumsParts
<1>7. SumFunctionOnSet(g, 0 .. n) = SumFunctionOnSet(f, UpTo(n))
  <2> HIDE DEF UpTo
  <2>1. n <= n
    OBVIOUS
  <2> QED
    BY <1>5, <2>1 DEF Q
<1> QED
  BY <1>6, <1>7


-----------------------------------------------------------------------------
(* The image of a finite set is finite.                                     *)
LEMMA ImageFinite ==
  ASSUME NEW S, IsFiniteSet(S), NEW h
  PROVE  IsFiniteSet({h[x] : x \in S})
<1> DEFINE Q == {T \in SUBSET S : IsFiniteSet({h[x] : x \in T})}
<1>1. {} \in Q
  <2>1. {h[x] : x \in {}} = {}
    OBVIOUS
  <2> QED
    BY <2>1, FS_EmptySet
<1>2. ASSUME NEW T \in SUBSET S, NEW y \in S \ T, T \in Q
      PROVE  T \cup {y} \in Q
  <2>1. {h[x] : x \in T \cup {y}} = {h[x] : x \in T} \cup {h[y]}
    OBVIOUS
  <2>2. T \cup {y} \in SUBSET S /\ IsFiniteSet({h[x] : x \in T})
    BY <1>2
  <2>3. IsFiniteSet({h[x] : x \in T} \cup {h[y]})
    BY <2>2, FS_AddElement
  <2> QED
    BY <2>1, <2>2, <2>3
<1> HIDE DEF Q
<1>3. S \in Q
  BY <1>1, <1>2, SubsetInduction
<1> QED
  BY <1>3 DEF Q

(* A sum over the images of a one-to-one function.                          *)
LEMMA SumReindexed ==
  ASSUME NEW S, NEW f, Summable(f, S), NEW h, \A x, y \in S : h[x] = h[y] => x = y,
         NEW g, \A x \in S : g[h[x]] = f[x]
  PROVE  SumFunctionOnSet(g, {h[x] : x \in S}) = SumFunctionOnSet(f, S)
<1> DEFINE image(T) == {h[x] : x \in T}
           Q == {T \in SUBSET S : SumFunctionOnSet(g, image(T)) = SumFunctionOnSet(f, T)}
<1>1. {} \in Q
  <2>1. image({}) = {}
    OBVIOUS
  <2> QED
    BY <2>1, SumEmpty
<1>2. ASSUME NEW T \in SUBSET S, NEW y \in S \ T, T \in Q
      PROVE  T \cup {y} \in Q
  <2>1. image(T \cup {y}) = image(T) \cup {h[y]} /\ h[y] \notin image(T)
    OBVIOUS
  <2>2. T \cup {y} \in SUBSET S
    OBVIOUS
  <2>3. Summable(f, T \cup {y})
    BY <2>2, SummableSubset
  <2>4. Summable(g, image(T) \cup {h[y]})
    <3>1. IsFiniteSet(image(T))
      BY FS_Subset, ImageFinite DEF Summable
    <3>2. IsFiniteSet(image(T) \cup {h[y]})
      BY <3>1, FS_AddElement
    <3>3. \A z \in image(T) \cup {h[y]} : g[z] \in Int
      BY DEF Summable
    <3> HIDE DEF image
    <3> QED
      BY <3>2, <3>3 DEF Summable
  <2>5. SumFunctionOnSet(g, image(T)) = SumFunctionOnSet(f, T)
    BY <1>2
  <2> HIDE DEF image
  <2>6. SumFunctionOnSet(g, image(T) \cup {h[y]}) = g[h[y]] + SumFunctionOnSet(g, image(T))
    BY <2>1, <2>4, SumInsert
  <2>7. SumFunctionOnSet(f, T \cup {y}) = f[y] + SumFunctionOnSet(f, T)
    BY <2>3, SumInsert
  <2> QED
    BY <2>1, <2>2, <2>5, <2>6, <2>7
<1> HIDE DEF Q
<1>3. S \in Q
  BY <1>1, <1>2, SubsetInduction DEF Summable
<1> QED
  BY <1>3 DEF Q

(* The members of a set that have a key.                                    *)
Keyed(S, key, l) == {x \in S : key[x] = l}

(* Adding up part by part.                                                  *)
LEMMA SumGrouped ==
  ASSUME NEW S, NEW f, Summable(f, S), NEW key, NEW L, IsFiniteSet(L), NEW g,
         \A l \in L : g[l] = SumFunctionOnSet(f, Keyed(S, key, l))
  PROVE  SumFunctionOnSet(g, L) = SumFunctionOnSet(f, {x \in S : key[x] \in L})
<1> DEFINE of(T) == {x \in S : key[x] \in T}
           Q == {T \in SUBSET L : SumFunctionOnSet(g, T) = SumFunctionOnSet(f, of(T))}
<1>1. {} \in Q
  <2>1. of({}) = {}
    OBVIOUS
  <2> QED
    BY <2>1, SumEmpty
<1>2. ASSUME NEW T \in SUBSET L, NEW l \in L \ T, T \in Q
      PROVE  T \cup {l} \in Q
  <2> DEFINE one == Keyed(S, key, l)
  <2>1. of(T \cup {l}) = of(T) \cup one /\ of(T) \cap one = {}
    BY DEF Keyed
  <2>2. of(T) \in SUBSET S /\ one \in SUBSET S /\ T \cup {l} \in SUBSET L
    BY DEF Keyed
  <2>3. SumFunctionOnSet(g, T) = SumFunctionOnSet(f, of(T))
    BY <1>2
  <2>4. \A z \in L : g[z] \in Int
    <3> SUFFICES ASSUME NEW z \in L
                 PROVE  g[z] \in Int
      OBVIOUS
    <3> DEFINE those == Keyed(S, key, z)
    <3>1. those \in SUBSET S /\ g[z] = SumFunctionOnSet(f, those)
      BY DEF Keyed
    <3> HIDE DEF those
    <3>2. Summable(f, those)
      BY <3>1, SummableSubset
    <3> QED
      BY <3>1, <3>2, SumInteger
  <2>5. g[l] = SumFunctionOnSet(f, one)
    OBVIOUS
  <2>6. Summable(g, T \cup {l})
    BY <2>2, <2>4, FS_Subset DEF Summable
  <2> HIDE DEF of, one
  <2>7. SumFunctionOnSet(f, of(T) \cup one) = SumFunctionOnSet(f, of(T)) + SumFunctionOnSet(f, one)
    BY <2>1, <2>2, SumUnion
  <2>8. SumFunctionOnSet(g, T \cup {l}) = g[l] + SumFunctionOnSet(g, T)
    BY <1>2, <2>6, SumInsert
  <2>9. SumFunctionOnSet(f, of(T)) \in Int /\ SumFunctionOnSet(f, one) \in Int
    BY <2>2, SummableSubset, SumInteger
  <2>10. SumFunctionOnSet(g, T \cup {l}) = SumFunctionOnSet(f, of(T \cup {l}))
    <3>1. SumFunctionOnSet(f, of(T \cup {l})) = SumFunctionOnSet(f, of(T) \cup one)
      BY <2>1, Zenon
    <3> QED
      BY <2>3, <2>5, <2>7, <2>8, <2>9, <3>1
  <2> QED
    BY <2>2, <2>10
<1> HIDE DEF Q
<1>3. L \in Q
  BY <1>1, <1>2, SubsetInduction
<1> QED
  BY <1>3 DEF Q

(* A constant is added as often as there are elements.                      *)
LEMMA SumConstant ==
  ASSUME NEW S, IsFiniteSet(S), NEW c \in Int, NEW f, \A x \in S : f[x] = c
  PROVE  SumFunctionOnSet(f, S) = c * Cardinality(S)
<1> DEFINE ones == [x \in S |-> 1]
           Q == {T \in SUBSET S : SumFunctionOnSet(ones, T) = Cardinality(T)}
<1>1. {} \in Q
  BY SumEmpty, FS_EmptySet
<1>2. ASSUME NEW T \in SUBSET S, NEW y \in S \ T, T \in Q
      PROVE  T \cup {y} \in Q
  <2>1. IsFiniteSet(T) /\ Cardinality(T) \in Nat
    BY FS_Subset, FS_CardinalityType
  <2>2. IsFiniteSet(T \cup {y}) /\ Cardinality(T \cup {y}) = Cardinality(T) + 1
    BY <2>1, FS_AddElement
  <2>3. Summable(ones, T \cup {y})
    BY <2>2 DEF Summable
  <2>4. ones[y] = 1
    OBVIOUS
  <2>5. SumFunctionOnSet(ones, T) = Cardinality(T)
    BY <1>2
  <2> HIDE DEF ones
  <2>6. SumFunctionOnSet(ones, T \cup {y}) = ones[y] + SumFunctionOnSet(ones, T)
    BY <2>3, SumInsert
  <2>7. SumFunctionOnSet(ones, T \cup {y}) = Cardinality(T \cup {y})
    BY <2>1, <2>2, <2>4, <2>5, <2>6
  <2> QED
    BY <2>7
<1>3. Summable(ones, S) /\ \A x \in S : f[x] = c * ones[x]
  BY DEF Summable
<1> HIDE DEF Q, ones
<1>4. S \in Q
  BY <1>1, <1>2, SubsetInduction
<1>5. SumFunctionOnSet(ones, S) = Cardinality(S)
  BY <1>4 DEF Q
<1> QED
  BY <1>3, <1>5, SumTimes

(* As many images as arguments.                                             *)
LEMMA AsMany ==
  ASSUME NEW S, IsFiniteSet(S), NEW h, \A x, y \in S : h[x] = h[y] => x = y
  PROVE  /\ IsFiniteSet({h[x] : x \in S})
         /\ Cardinality({h[x] : x \in S}) = Cardinality(S)
<1> DEFINE T == {h[x] : x \in S}
           ones == [x \in S |-> 1]
           same == [y \in T |-> 1]
<1>1. IsFiniteSet(T)
  BY ImageFinite
<1>2. Summable(ones, S) /\ \A x \in S : same[h[x]] = ones[x]
  BY DEF Summable
<1>3. (\A x \in S : ones[x] = 1) /\ (\A y \in T : same[y] = 1)
  OBVIOUS
<1> HIDE DEF ones, same
<1>4. SumFunctionOnSet(same, T) = SumFunctionOnSet(ones, S)
  BY <1>2, SumReindexed
<1> HIDE DEF T
<1>5. /\ SumFunctionOnSet(ones, S) = 1 * Cardinality(S)
      /\ SumFunctionOnSet(same, T) = 1 * Cardinality(T)
  BY <1>1, <1>3, SumConstant
<1>6. Cardinality(S) \in Nat /\ Cardinality(T) \in Nat
  BY <1>1, FS_CardinalityType
<1> QED
  BY <1>1, <1>4, <1>5, <1>6 DEF T

(* The same where every member of the set has one of the keys.              *)
LEMMA SumOfGroups ==
  ASSUME NEW S, NEW f, Summable(f, S), NEW key, NEW L, IsFiniteSet(L), NEW g,
         \A l \in L : g[l] = SumFunctionOnSet(f, Keyed(S, key, l)),
         \A x \in S : key[x] \in L
  PROVE  SumFunctionOnSet(g, L) = SumFunctionOnSet(f, S)
<1>1. {x \in S : key[x] \in L} = S
  OBVIOUS
<1>2. SumFunctionOnSet(g, L) = SumFunctionOnSet(f, {x \in S : key[x] \in L})
  BY SumGrouped
<1> QED
  BY <1>1, <1>2

=============================================================================
