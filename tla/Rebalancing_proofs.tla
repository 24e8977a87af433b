------------------------ MODULE Rebalancing_proofs ------------------------
(***************************************************************************)
(* Proofs about Rebalancing.  An order is followed through every step that *)
(* changes it: a target is a whole number of lots within the limits of its *)
(* stock, and unless the stock is deprecated it differs from what is held  *)
(* by whole shares and by no less than the minimum trade.                  *)
(***************************************************************************)
EXTENDS Rebalancing, SumTheorems, WellFoundedInduction, TLAPS

-----------------------------------------------------------------------------
(* Arithmetic.  A multiple is divided without a rest.                       *)
LEMMA DivideMultiple ==
  ASSUME NEW a \in Int, NEW b \in Nat, b > 0
  PROVE  (a * b) \div b = a /\ (a * b) % b = 0
<1> DEFINE c == a * b
           q == c \div b
<1>1. c \in Int /\ q \in Int /\ b * q <= c /\ c < b * q + b
  OBVIOUS
<1>2. c = b * a
  OBVIOUS
<1> HIDE DEF c, q
<1>3. b * q = b * a
  <2>1. b * (a - q) = b * a - b * q /\ a - q \in Int
    BY <1>1
  <2>2. 0 <= b * (a - q) /\ b * (a - q) < b
    BY <1>1, <1>2, <2>1
  <2>3. a - q < 1
    <3>1. CASE a - q >= 1
      <4>1. b * (a - q) >= b
        BY <2>1, <3>1
      <4> QED BY <2>2, <4>1, <2>1
    <3> QED BY <2>1, <3>1
  <2>4. a - q >= 0
    <3>1. CASE a - q <= -1
      <4>1. b * (a - q) <= -b
        BY <2>1, <3>1
      <4> QED BY <2>2, <4>1, <2>1
    <3> QED BY <2>1, <3>1
  <2>5. a = q
    BY <1>1, <2>3, <2>4
  <2> QED BY <2>5
<1>4. q = a
  <2>1. a - q \in Int /\ b * (a - q) = 0
    BY <1>1, <1>3
  <2> QED BY <1>1, <2>1
<1>5. c % b = 0
  BY <1>1, <1>2, <1>3 DEF q
<1> QED BY <1>4, <1>5 DEF c, q
(* What is rounded up is a multiple, and not less.                          *)
LEMMA CeilToIsMultiple ==
  ASSUME NEW a \in Int, NEW b \in Nat, b > 0
  PROVE  \E k \in Int : CeilTo(a, b) = k * b /\ a <= k * b /\ (a > 0 => k > 0)
<1> DEFINE q == (-a) \div b
           k == -q
<1>1. q \in Int /\ b * q <= -a /\ -a < b * q + b
  OBVIOUS
<1>2. CeilTo(a, b) = -q * b
  BY DEF CeilTo
<1> HIDE DEF q
<1>3. -q * b = k * b /\ k \in Int /\ k * b = -(b * q)
  BY <1>1
<1>4. a <= k * b
  BY <1>1, <1>3
<1>5. a > 0 => k > 0
  <2> SUFFICES ASSUME a > 0, k <= 0 PROVE FALSE
    BY <1>3
  <2>1. k * b <= 0
    BY <1>3
  <2> QED BY <1>3, <1>4, <2>1
<1> QED BY <1>2, <1>3, <1>4, <1>5

(* A difference is rounded to the nearest number of lots.                   *)
LEMMA RoundIsNear ==
  ASSUME NEW a \in Int, NEW b \in Nat, b > 0
  PROVE  /\ Round(a, b) \in Int
         /\ a >= 0 => Round(a, b) >= 0
         /\ a < 0 => 2 * (b * Round(a, b)) >= 2 * a - b
<1>1. CASE a >= 0
  <2> DEFINE r == (2 * a + b) \div (2 * b)
  <2>1. r \in Int /\ 2 * a + b < (2 * b) * r + 2 * b
    BY <1>1
  <2>2. Round(a, b) = r
    BY <1>1 DEF Round
  <2> HIDE DEF r
  <2>3. r >= 0
    <3> SUFFICES ASSUME r <= -1 PROVE FALSE
      BY <2>1
    <3>1. (2 * b) * r <= -(2 * b)
      BY <2>1
    <3> QED BY <1>1, <2>1, <3>1
  <2> QED BY <1>1, <2>1, <2>2, <2>3
<1>2. CASE a < 0
  <2> DEFINE r == (b - 2 * a) \div (2 * b)
  <2>1. r \in Int /\ (2 * b) * r <= b - 2 * a
    BY <1>2
  <2>2. Round(a, b) = -r
    BY <1>2 DEF Round
  <2> HIDE DEF r
  <2>3. 2 * (b * (-r)) = -((2 * b) * r)
    BY <2>1
  <2> QED BY <1>2, <2>1, <2>2, <2>3
<1> QED BY <1>1, <1>2

-----------------------------------------------------------------------------
(* The tree.                                                                *)
LEMMA Nodes ==
  /\ Stock \subseteq Node /\ Group \ {Root} \subseteq Node
  /\ Node \subseteq Stock \cup Group /\ Root \notin Node
  /\ IsFiniteSet(Node) /\ IsFiniteSet(Stock) /\ IsFiniteSet(Group)
  /\ \A g \in Group : Members(g) \subseteq Node /\ IsFiniteSet(Members(g))
<1> USE RebalancingAssumption
<1>1. Stock \subseteq Node /\ Group \ {Root} \subseteq Node /\ Node \subseteq Stock \cup Group
      /\ Root \notin Node
  BY DEF Node
<1>2. IsFiniteSet(Stock \cup Group)
  BY FS_Union
<1>3. IsFiniteSet(Node)
  BY <1>1, <1>2, FS_Subset
<1>4. ASSUME NEW g \in Group
      PROVE  Members(g) \subseteq Node /\ IsFiniteSet(Members(g))
  <2>1. Children[g] \in Seq(Node)
    OBVIOUS
  <2>2. Members(g) \subseteq Node
    BY <2>1 DEF Members, ToSet
  <2> QED BY <1>3, <2>2, FS_Subset
<1> QED BY <1>1, <1>3, <1>4

(* Groups alone are above an asset, its own among them and those above it.  *)
LEMMA AboveIsClosed ==
  ASSUME NEW n \in Stock \cup Group
  PROVE  /\ Above[n] \subseteq Group
         /\ \A g \in Group : n \in Members(g) \/ Above[n] \cap Members(g) # {} => g \in Above[n]
<1> DEFINE Up(up) == \A h \in Group : n \in Members(h) \/ up \cap Members(h) # {} => h \in up
<1>1. Above[n] = {g \in Group : \A up \in SUBSET Group : Up(up) => g \in up}
  BY DEF Above
<1>2. ASSUME NEW g \in Group, n \in Members(g) \/ Above[n] \cap Members(g) # {},
             NEW up \in SUBSET Group, Up(up)
      PROVE  g \in up
  <2>1. Above[n] \subseteq up
    BY <1>1, <1>2
  <2> QED BY <1>2, <2>1
<1> QED BY <1>1, <1>2

(* It is the least such set.                                                *)
LEMMA AboveIsLeast ==
  ASSUME NEW n \in Stock \cup Group, NEW up \in SUBSET Group,
         \A h \in Group : n \in Members(h) \/ up \cap Members(h) # {} => h \in up
  PROVE  Above[n] \subseteq up
  BY DEF Above

(* A stock is alone under itself.                                           *)
LEMMA UnderStock ==
  ASSUME NEW s \in Stock
  PROVE  Under[s] = {s}
<1>1. Stock \cap Group = {}
  BY RebalancingAssumption
<1>2. \A t \in Stock : Above[t] \subseteq Group
  BY AboveIsClosed
<1>3. Under[s] = {t \in Stock : s = t \/ s \in Above[t]}
  BY DEF Under
<1> QED BY <1>1, <1>2, <1>3

(* An asset is a member of its parent and of no other group.                *)
LEMMA ParentOf ==
  ASSUME NEW n \in Node
  PROVE  /\ Parent(n) \in Group /\ n \in Members(Parent(n))
         /\ \A g \in Group : n \in Members(g) => g = Parent(n)
<1>1. \E g \in Group : n \in Members(g)
  BY RebalancingAssumption
<1>2. Parent(n) \in Group /\ n \in Members(Parent(n))
  BY <1>1 DEF Parent
<1>3. \A g, h \in Group : g # h => Members(g) \cap Members(h) = {}
  BY RebalancingAssumption
<1> QED BY <1>2, <1>3

(* Any set of groups that holds one and with each its parent has the root. *)
LEMMA RootIsReached ==
  ASSUME NEW g \in Group, NEW up \in SUBSET Group, g \in up,
         \A h \in Group : up \cap Members(h) # {} => h \in up
  PROVE  Root \in up
<1>1. CASE g = Root
  BY <1>1
<1>2. CASE g # Root
  <2>1. g \in Node
    BY <1>2, Nodes
  <2>2. Root \in Above[g]
    BY <2>1, RebalancingAssumption
  <2>3. Above[g] \subseteq up
    BY AboveIsLeast
  <2> QED BY <2>2, <2>3
<1> QED BY <1>1, <1>2

-----------------------------------------------------------------------------
(* What a share is divided into.                                            *)
Lot(s) == Price[s] \div Unit

(* A share is a whole number of lots.                                       *)
LEMMA Lots ==
  ASSUME NEW s \in Stock
  PROVE  /\ Lot(s) \in Nat /\ Lot(s) > 0 /\ Price[s] = Lot(s) * Unit
         /\ Price[s] \in Nat /\ Price[s] > 0 /\ Unit \in Nat /\ Unit > 0
<1>1. Price[s] \in Nat /\ Price[s] > 0 /\ Unit \in Nat /\ Unit > 0 /\ Price[s] % Unit = 0
  BY RebalancingAssumption
<1> DEFINE q == Price[s] \div Unit
<1>2. q \in Int /\ Price[s] = Unit * q
  BY <1>1
<1>3. Lot(s) = q
  BY DEF Lot
<1> HIDE DEF q
<1>4. q > 0
  <2> SUFFICES ASSUME q <= 0 PROVE FALSE
    BY <1>2
  <2>1. Unit * q <= 0
    BY <1>1, <1>2
  <2> QED BY <1>1, <1>2, <2>1
<1>5. Unit * q = q * Unit
  BY <1>1, <1>2
<1> QED BY <1>1, <1>2, <1>3, <1>4, <1>5

(* Any number of lots is worth so many of them, and counted again.          *)
LEMMA LotsAndShares ==
  ASSUME NEW s \in Stock, NEW n \in Int
  PROVE  /\ (n * Price[s]) \div Unit = n * Lot(s)
         /\ (Price[s] * n) \div Unit = n * Lot(s)
         /\ SharesOf(s, n * Lot(s)) = n
         /\ (n * Lot(s)) * Unit = n * Price[s]
<1> DEFINE l == Lot(s)
<1>1. /\ l \in Nat /\ l > 0 /\ Price[s] = l * Unit
      /\ Price[s] \in Nat /\ Price[s] > 0 /\ Unit \in Nat /\ Unit > 0
  BY Lots
<1> HIDE DEF l
<1>2. n * (l * Unit) = (n * l) * Unit /\ (l * Unit) * n = (n * l) * Unit /\ n * l \in Int
  BY <1>1
<1>3. ((n * l) * Unit) \div Unit = n * l
  BY <1>1, <1>2, DivideMultiple
<1>4. (n * Price[s]) \div Price[s] = n
  BY <1>1, DivideMultiple
<1>5. SharesOf(s, n * l) = ((n * l) * Unit) \div Price[s]
  BY DEF SharesOf
<1> QED BY <1>1, <1>2, <1>3, <1>4, <1>5 DEF l

-----------------------------------------------------------------------------
(* The portfolio that is rebalanced.                                        *)
LEMMA PortfolioTypes ==
  ASSUME portfolio \in Portfolios
  PROVE  /\ portfolio.shares \in [Stock -> Nat] /\ portfolio.weight \in [Node -> 0 .. Parts]
         /\ portfolio.fractional \in BOOLEAN /\ portfolio.minTrade \in Nat
         /\ portfolio.reserve \in Nat /\ portfolio.cash \in Int
         /\ Parts \in Nat /\ Parts > 0
  BY RebalancingAssumption

(* What is held is a whole number of lots.                                  *)
LEMMA HeldInLots ==
  ASSUME portfolio \in Portfolios, NEW s \in Stock
  PROVE  /\ portfolio.shares[s] \in Nat /\ Held(s) \in Nat
         /\ Held(s) = portfolio.shares[s] * Lot(s)
<1>1. portfolio.shares[s] \in Nat /\ Lot(s) \in Nat
  BY PortfolioTypes, Lots
<1>2. Held(s) = portfolio.shares[s] * Lot(s)
  BY <1>1, LotsAndShares DEF Held
<1> HIDE DEF Held
<1>3. portfolio.shares[s] * Lot(s) \in Nat
  BY <1>1
<1> QED BY <1>1, <1>2, <1>3

(* What must be kept of a stock is nothing or all that is held.             *)
LEMMA KeptOrNot ==
  ASSUME portfolio \in Portfolios, NEW s \in Stock
  PROVE  /\ KeptValue(s) \in {0, Held(s)} /\ KeptValue(s) \in Nat /\ KeptValue(s) <= Held(s)
         /\ Restricted(portfolio.noSelling, s) => KeptValue(s) = Held(s)
<1>1. Held(s) \in Nat
  BY HeldInLots
<1> QED BY <1>1 DEF KeptValue

(* A stock is worth what is held of it, and its minimum is its own.         *)
LEMMA StockValues ==
  ASSUME portfolio \in Portfolios, NEW s \in Stock
  PROVE  CurrentValue(s) = Held(s) /\ MinValue(s) = KeptValue(s)
<1> DEFINE held == [r \in Stock |-> Held(r)]
           kept == [r \in Stock |-> KeptValue(r)]
<1>1. Under[s] = {s} /\ IsFiniteSet({s})
  BY UnderStock, FS_Singleton
<1>2. held[s] = Held(s) /\ kept[s] = KeptValue(s) /\ held[s] \in Int /\ kept[s] \in Int
  BY HeldInLots, KeptOrNot
<1>3. CurrentValue(s) = SumFunctionOnSet(held, {s}) /\ MinValue(s) = SumFunctionOnSet(kept, {s})
  BY <1>1 DEF CurrentValue, MinValue, Sum
<1> HIDE DEF held, kept
<1>4. Summable(held, {s}) /\ Summable(kept, {s}) /\ {s} \ {s} = {}
  BY <1>1, <1>2 DEF Summable
<1>5. SumFunctionOnSet(held, {s}) = held[s] /\ SumFunctionOnSet(kept, {s}) = kept[s]
  BY <1>4, SumSingle
<1> QED BY <1>2, <1>3, <1>5

(* The limits of an asset are amounts, and it may have no upper one.        *)
LEMMA LimitTypes ==
  ASSUME portfolio \in Portfolios, NEW n \in Stock \cup Group
  PROVE  /\ CurrentValue(n) \in Nat /\ MinValue(n) \in Nat
         /\ MaxValue(n) \in Nat \cup {NoLimit}
<1> DEFINE held == [r \in Stock |-> Held(r)]
           kept == [r \in Stock |-> KeptValue(r)]
           limit == [r \in Stock |-> LimitWithin(n, r)]
<1>1. Under[n] \subseteq Stock /\ IsFiniteSet(Under[n])
  <2>1. Under[n] \subseteq Stock
    BY DEF Under
  <2> QED BY <2>1, Nodes, FS_Subset
<1>2. \A r \in Stock : held[r] \in Nat /\ kept[r] \in Nat
  BY HeldInLots, KeptOrNot
<1>3. \A r \in Stock : limit[r] = NoLimit \/ limit[r] \in Nat
  <2> TAKE r \in Stock
  <2>1. Held(r) \in Nat /\ KeptValue(r) \in Nat
    BY HeldInLots, KeptOrNot
  <2>2. BuyLimit(r) = NoLimit \/ BuyLimit(r) \in Nat
    BY <2>1 DEF BuyLimit
  <2>3. LimitWithin(n, r) = NoLimit \/ LimitWithin(n, r) \in Nat
    BY <2>1, <2>2 DEF LimitWithin
  <2> QED BY <2>3
<1>4. CurrentValue(n) = SumFunctionOnSet(held, Under[n]) /\ MinValue(n) = SumFunctionOnSet(kept, Under[n])
  BY DEF CurrentValue, MinValue, Sum
<1>5. RawMax(n) = IF \E r \in Under[n] : limit[r] = NoLimit THEN NoLimit
                  ELSE SumFunctionOnSet(limit, Under[n])
  BY <1>1 DEF RawMax, Sum
<1> HIDE DEF held, kept, limit
<1>6. CurrentValue(n) \in Nat /\ MinValue(n) \in Nat
  BY <1>1, <1>2, <1>4, SumNatural
<1>7. RawMax(n) \in Nat \cup {NoLimit}
  <2>1. CASE \E r \in Under[n] : limit[r] = NoLimit
    BY <1>5, <2>1
  <2>2. CASE ~ \E r \in Under[n] : limit[r] = NoLimit
    <3>1. \A r \in Under[n] : limit[r] \in Nat
      BY <1>1, <1>3, <2>2
    <3>2. SumFunctionOnSet(limit, Under[n]) \in Nat
      BY <1>1, <3>1, SumNatural
    <3> QED BY <1>5, <2>2, <3>2
  <2> QED BY <2>1, <2>2
<1> QED BY <1>6, <1>7 DEF MaxValue

(* The limits of a stock are what is held of it, nothing, or none at all.   *)
LEMMA StockLimits ==
  ASSUME portfolio \in Portfolios, NEW s \in Stock
  PROVE  /\ MinValue(s) \in {0, Held(s)} /\ MinValue(s) \in Nat /\ MinValue(s) <= Held(s)
         /\ Restricted(portfolio.noSelling, s) => MinValue(s) = Held(s)
         /\ MaxValue(s) # NoLimit => MaxValue(s) \in {MinValue(s), Held(s)}
         /\ MaxValue(s) # NoLimit /\ ~Deprecated(s) => MaxValue(s) = Held(s)
         /\ Restricted(portfolio.noBuying, s) \/ Weight(s) = 0 => MaxValue(s) # NoLimit
<1>1. MinValue(s) = KeptValue(s) /\ Held(s) \in Nat
  BY StockValues, HeldInLots
<1>2. RawMax(s) = BuyLimit(s)
  <2>1. Under[s] = {s} /\ Above[s] \subseteq Group /\ Stock \cap Group = {}
    BY UnderStock, AboveIsClosed, RebalancingAssumption
  <2>2. \A m \in {s} \cup Above[s] : s \notin Above[m]
    <3> TAKE m \in {s} \cup Above[s]
    <3>1. m \in Stock \cup Group
      BY <2>1
    <3>2. Above[m] \subseteq Group
      BY <3>1, AboveIsClosed
    <3> QED BY <2>1, <3>2
  <2>3. LimitWithin(s, s) = BuyLimit(s)
    BY <2>2 DEF LimitWithin
  <2>4. BuyLimit(s) = NoLimit \/ BuyLimit(s) \in Nat
    BY <1>1 DEF BuyLimit
  <2> DEFINE limit == [r \in Stock |-> LimitWithin(s, r)]
  <2>5. limit[s] = BuyLimit(s)
    BY <2>3
  <2>6. RawMax(s) = IF BuyLimit(s) = NoLimit THEN NoLimit ELSE SumFunctionOnSet(limit, {s})
    BY <2>1, <2>3 DEF RawMax, Sum
  <2> HIDE DEF limit
  <2>7. ASSUME BuyLimit(s) # NoLimit
        PROVE  SumFunctionOnSet(limit, {s}) = BuyLimit(s)
    <3>1. limit[s] \in Int
      BY <2>4, <2>5, <2>7
    <3>2. IsFiniteSet({s})
      BY FS_Singleton
    <3>3. Summable(limit, {s}) /\ {s} \ {s} = {}
      BY <3>1, <3>2 DEF Summable
    <3> QED BY <2>5, <3>3, SumSingle
  <2> QED BY <2>6, <2>7
<1>3. BuyLimit(s) = NoLimit \/ BuyLimit(s) = Held(s)
  BY DEF BuyLimit
<1>4. Restricted(portfolio.noBuying, s) => BuyLimit(s) # NoLimit
  BY <1>1 DEF BuyLimit, NoLimit
<1>5. MaxValue(s) = IF Deprecated(s) THEN MinValue(s) ELSE BuyLimit(s)
  BY <1>2 DEF MaxValue
<1>6. Weight(s) = 0 => Deprecated(s)
  BY DEF Deprecated
<1>7. MinValue(s) # NoLimit
  BY <1>1, KeptOrNot DEF NoLimit
<1> QED BY <1>1, <1>3, <1>4, <1>5, <1>6, <1>7, KeptOrNot

-----------------------------------------------------------------------------
(* Orders.  A value of a stock is a whole number of lots ...                *)
InLots(s, v) == \E k \in Nat : v = k * Lot(s)

(* ... that whole shares make of what is held.                              *)
ByShares(s, v) == \E k \in Int : v = Held(s) + k * Price[s]

Whole(s, v) == Fractional(s) \/ Deprecated(s) \/ ByShares(s, v)

Enough(s, v) ==
  \/ Deprecated(s) \/ v = Held(s)
  \/ v - Held(s) >= portfolio.minTrade \/ Held(s) - v >= portfolio.minTrade

Limited(s, v) == MinValue(s) <= v /\ (MaxValue(s) # NoLimit => v <= MaxValue(s))

Gone(s, v) == s \in Members(Root) /\ CurrentNetValue < portfolio.reserve /\ v = 0

(* What the order of a stock may be.                                        *)
Allowed(s, v) ==
  InLots(s, v) /\ Limited(s, v) /\ (Gone(s, v) \/ (Whole(s, v) /\ Enough(s, v)))

(* The shares are those held, or those of the target.                       *)
Agree(s) == shares[s] = portfolio.shares[s] \/ target[s] = shares[s] * Lot(s)

(* Sums and differences of multiples.                                       *)
LEMMA Multiples ==
  ASSUME NEW a \in Int, NEW b \in Int, NEW c \in Int
  PROVE  /\ a * c + b * c = (a + b) * c /\ a * c - b * c = (a - b) * c
         /\ a * c \in Int /\ (a * b) * c = a * (b * c)
  OBVIOUS

(* What has as many lots is the same number.                                *)
LEMMA SameLots ==
  ASSUME NEW s \in Stock, NEW a \in Int, NEW b \in Int, a * Lot(s) = b * Lot(s)
  PROVE  a = b
<1>1. Lot(s) \in Nat /\ Lot(s) > 0
  BY Lots
<1>2. (a * Lot(s)) \div Lot(s) = a /\ (b * Lot(s)) \div Lot(s) = b
  BY <1>1, DivideMultiple
<1> QED BY <1>2

(* Where only whole shares are traded the target is one of whole shares.    *)
LEMMA SharesStayWhole ==
  ASSUME portfolio \in Portfolios, NEW s \in Stock, shares[s] \in Nat, Agree(s),
         ~Fractional(s), portfolio.fractional, ByShares(s, target[s])
  PROVE  \E j \in Int : shares[s] = j * Unit
<1>1. /\ portfolio.shares[s] \in Nat /\ Held(s) = portfolio.shares[s] * Lot(s)
      /\ Lot(s) \in Nat /\ Price[s] = Lot(s) * Unit /\ Unit \in Nat /\ Unit > 0
  BY HeldInLots, Lots
<1>2. PICK i \in Int : portfolio.shares[s] = i * Unit
  <2>1. portfolio.shares[s] % Unit = 0
    BY DEF Fractional
  <2>2. portfolio.shares[s] = (portfolio.shares[s] \div Unit) * Unit
    BY <1>1, <2>1
  <2>3. portfolio.shares[s] \div Unit \in Int
    BY <1>1
  <2> QED BY <2>2, <2>3
<1>3. CASE shares[s] = portfolio.shares[s]
  BY <1>2, <1>3
<1>4. CASE target[s] = shares[s] * Lot(s)
  <2>1. PICK k \in Int : target[s] = Held(s) + k * Price[s]
    BY DEF ByShares
  <2>2. k * Price[s] = (k * Unit) * Lot(s) /\ k * Unit \in Int
    BY <1>1, <2>1
  <2>3. target[s] = (portfolio.shares[s] + k * Unit) * Lot(s)
    BY <1>1, <2>1, <2>2, Multiples
  <2>4. shares[s] = portfolio.shares[s] + k * Unit
    BY <1>1, <1>4, <2>2, <2>3, SameLots
  <2>5. shares[s] = (i + k) * Unit
    BY <1>1, <1>2, <2>4, Multiples
  <2> QED BY <2>5
<1> QED BY <1>3, <1>4 DEF Agree

(* The smallest trade of a stock is a number of lots, and where only whole  *)
(* shares are traded one of shares.                                         *)
LEMMA GranularityOfStock ==
  ASSUME portfolio \in Portfolios, NEW s \in Stock, NEW type, shares[s] \in Nat, Agree(s)
  PROVE  \E k \in Nat : /\ k > 0 /\ Granularity(type, s) = k * Lot(s)
                        /\ ~Fractional(s) /\ ByShares(s, target[s]) =>
                             \E j \in Int : k * Lot(s) = j * Price[s]
<1>1. /\ Lot(s) \in Nat /\ Lot(s) > 0 /\ Price[s] = Lot(s) * Unit
      /\ Unit \in Nat /\ Unit > 0 /\ Price[s] \in Nat
  BY Lots
<1> DEFINE v == IF TradeGranularity(s) < One THEN Price[s] ELSE TradeGranularity(s)
           all == /\ type = "sell" /\ portfolio.fractional
                  /\ v * Unit > shares[s] * One /\ shares[s] # 0
<1>2. StockGranularity(type, s) = IF all THEN (Price[s] * shares[s]) \div Unit ELSE v
  BY DEF StockGranularity
<1>3. Granularity(type, s) = StockGranularity(type, s)
  <2> DEFINE x == StockGranularity(type, s)
  <2>1. {StockGranularity(type, r) : r \in Under[s]} = {x}
    BY UnderStock
  <2>2. x \in Int
    <3>1. v \in Int
      BY <1>1 DEF TradeGranularity, Lot
    <3>2. (Price[s] * shares[s]) \div Unit \in Int
      BY LotsAndShares, <1>1
    <3> HIDE DEF v, all
    <3> QED BY <1>2, <3>1, <3>2
  <2>3. Granularity(type, s) = Min({x})
    BY <2>1 DEF Granularity
  <2> HIDE DEF x
  <2>4. Min({x}) = x
    BY <2>2 DEF Min
  <2> QED BY <2>3, <2>4 DEF x
<1>4. (v = Lot(s) /\ Fractional(s)) \/ v = Price[s]
  BY DEF TradeGranularity, Lot
<1>5. (Price[s] * shares[s]) \div Unit = shares[s] * Lot(s)
  BY LotsAndShares
<1>6. CASE all
  <2>1. Granularity(type, s) = shares[s] * Lot(s) /\ shares[s] > 0
    BY <1>2, <1>3, <1>5, <1>6
  <2>2. ASSUME ~Fractional(s), ByShares(s, target[s])
        PROVE  \E j \in Int : shares[s] * Lot(s) = j * Price[s]
    <3>1. PICK j \in Int : shares[s] = j * Unit
      BY <1>6, <2>2, SharesStayWhole
    <3>2. (j * Unit) * Lot(s) = j * (Lot(s) * Unit)
      BY <1>1
    <3> QED BY <1>1, <3>1, <3>2
  <2> QED BY <2>1, <2>2
<1>7. CASE ~all
  <2>1. Granularity(type, s) = v
    BY <1>2, <1>3, <1>7
  <2> HIDE DEF v, all
  <2>2. CASE v = Lot(s) /\ Fractional(s)
    <3>1. v = 1 * Lot(s)
      BY <1>1, <2>2
    <3> QED BY <2>1, <2>2, <3>1
  <2>3. CASE v = Price[s]
    <3>1. v = Unit * Lot(s) /\ v = 1 * Price[s]
      BY <1>1, <2>3
    <3>2. Unit * Lot(s) = 1 * Price[s]
      BY <3>1
    <3> QED BY <1>1, <2>1, <3>1, <3>2
  <2> QED BY <1>4, <2>2, <2>3
<1> QED BY <1>6, <1>7

(* A multiple of the smallest trade more or less leaves whole shares whole. *)
LEMMA WholeAfter ==
  ASSUME portfolio \in Portfolios, NEW s \in Stock, NEW c \in Int, NEW g \in Int,
         NEW x \in Int, Whole(s, x),
         ~Fractional(s) /\ ByShares(s, x) => \E j \in Int : g = j * Price[s]
  PROVE  Whole(s, x + c * g)
<1>1. CASE Fractional(s) \/ Deprecated(s)
  BY <1>1 DEF Whole
<1>2. CASE ~Fractional(s) /\ ByShares(s, x)
  <2>1. PICK j \in Int : g = j * Price[s]
    BY <1>2
  <2>2. PICK k \in Int : x = Held(s) + k * Price[s]
    BY <1>2 DEF ByShares
  <2>3. Price[s] \in Int /\ Held(s) \in Int
    BY Lots, HeldInLots
  <2>4. c * g = (c * j) * Price[s] /\ c * j \in Int
    BY <2>1, <2>3
  <2>5. k * Price[s] + (c * j) * Price[s] = (k + c * j) * Price[s]
    BY <2>3, <2>4, Multiples
  <2>6. k * Price[s] \in Int /\ (c * j) * Price[s] \in Int
    BY <2>3, <2>4
  <2>7. x + c * g = Held(s) + (k + c * j) * Price[s] /\ k + c * j \in Int
    BY <2>2, <2>3, <2>4, <2>5, <2>6
  <2> QED BY <2>7 DEF Whole, ByShares
<1> QED BY <1>1, <1>2 DEF Whole

(* What is held is a target of whole shares, and no order at all.           *)
LEMMA HeldIsWhole ==
  ASSUME portfolio \in Portfolios, NEW s \in Stock
  PROVE  Whole(s, Held(s)) /\ Enough(s, Held(s)) /\ InLots(s, Held(s))
<1>1. Held(s) \in Int /\ Price[s] \in Int /\ Held(s) = portfolio.shares[s] * Lot(s)
      /\ portfolio.shares[s] \in Nat
  BY HeldInLots, Lots
<1>2. Held(s) = Held(s) + 0 * Price[s]
  BY <1>1
<1> QED BY <1>1, <1>2 DEF Whole, ByShares, Enough, InLots

(* The least that is sold is some lots, and leaves an order that may be.    *)
LEMMA SellVolume ==
  ASSUME portfolio \in Portfolios, NEW s \in Stock, shares[s] \in Nat, Agree(s),
         InLots(s, target[s]), Whole(s, target[s])
  PROVE  \E k \in Nat : /\ k > 0 /\ MinSellVolume(s) = k * Lot(s)
                        /\ Whole(s, target[s] - k * Lot(s))
                        /\ Enough(s, target[s] - k * Lot(s))
<1>1. PICK k \in Nat : /\ k > 0 /\ Granularity("sell", s) = k * Lot(s)
                       /\ ~Fractional(s) /\ ByShares(s, target[s]) =>
                            \E j \in Int : k * Lot(s) = j * Price[s]
  BY GranularityOfStock
<1>2. PICK n \in Nat : target[s] = n * Lot(s)
  BY DEF InLots
<1> DEFINE x == target[s]
           h == Held(s)
           m == portfolio.minTrade
           least == k * Lot(s)
<1>3. /\ Lot(s) \in Nat /\ Lot(s) > 0 /\ x \in Nat /\ h \in Nat /\ m \in Nat
      /\ h = portfolio.shares[s] * Lot(s) /\ portfolio.shares[s] \in Nat
  <2>1. n * Lot(s) \in Nat
    BY Lots
  <2> QED BY <1>2, <2>1, Lots, HeldInLots, PortfolioTypes
<1>4. least \in Nat /\ least > 0
  BY <1>1, <1>3
<1>5. MinSellVolume(s) =
        IF x <= h THEN IF x <= h - m THEN least ELSE CeilTo(m - (h - x), least)
        ELSE IF x - least >= h + m THEN least ELSE x - h
  BY <1>1, StockValues DEF MinSellVolume
<1>6. Whole(s, x) /\ (~Fractional(s) /\ ByShares(s, x) => \E j \in Int : least = j * Price[s])
  BY <1>1
<1>7. ASSUME NEW c \in Nat, c > 0, MinSellVolume(s) = c * least, Enough(s, x - c * least)
      PROVE  \E i \in Nat : /\ i > 0 /\ MinSellVolume(s) = i * Lot(s)
                            /\ Whole(s, x - i * Lot(s)) /\ Enough(s, x - i * Lot(s))
  <2>1. c * least = (c * k) * Lot(s) /\ c * k \in Nat /\ c * k > 0
    BY <1>1, <1>3, <1>7
  <2>2. Whole(s, x + (-c) * least)
    <3>1. -c \in Int /\ x \in Int /\ least \in Int
      BY <1>3, <1>4, <1>7
    <3>2. portfolio \in Portfolios /\ s \in Stock
      OBVIOUS
    <3> HIDE DEF x, least
    <3> QED BY ONLY <1>6, <3>1, <3>2, WholeAfter
  <2>3. x + (-c) * least = x - c * least
    BY <1>3, <1>4, <1>7
  <2> HIDE DEF least
  <2> QED BY <1>7, <2>1, <2>2, <2>3
<1> HIDE DEF least
<1>8. CASE x <= h /\ x <= h - m
  <2>1. MinSellVolume(s) = 1 * least /\ 1 * least = least
    BY <1>4, <1>5, <1>8
  <2>2. Enough(s, x - 1 * least)
    BY <1>3, <1>4, <1>8, <2>1 DEF Enough
  <2> QED BY <1>7, <2>1, <2>2
<1>9. CASE x <= h /\ ~(x <= h - m)
  <2>1. PICK c \in Int : /\ CeilTo(m - (h - x), least) = c * least /\ m - (h - x) <= c * least
                         /\ m - (h - x) > 0 => c > 0
    <3>1. m - (h - x) \in Int
      BY <1>3
    <3> HIDE DEF x, h, m
    <3> QED BY <1>4, <3>1, CeilToIsMultiple
  <2>2. m - (h - x) > 0
    BY <1>3, <1>9
  <2>3. c \in Nat /\ c > 0 /\ MinSellVolume(s) = c * least /\ c * least \in Int
    BY <1>4, <1>5, <1>9, <2>1, <2>2
  <2>4. Enough(s, x - c * least)
    BY <1>3, <1>9, <2>1, <2>3 DEF Enough
  <2> QED BY <1>7, <2>3, <2>4
<1>10. CASE x > h /\ x - least >= h + m
  <2>1. MinSellVolume(s) = 1 * least /\ 1 * least = least
    BY <1>3, <1>4, <1>5, <1>10
  <2>2. Enough(s, x - 1 * least)
    BY <1>3, <1>4, <1>10, <2>1 DEF Enough
  <2> QED BY <1>7, <2>1, <2>2
<1>11. CASE x > h /\ ~(x - least >= h + m)
  <2>1. MinSellVolume(s) = x - h
    BY <1>3, <1>4, <1>5, <1>11
  <2> DEFINE i == n - portfolio.shares[s]
  <2>2. x - h = i * Lot(s) /\ i \in Int
    BY <1>2, <1>3, Multiples
  <2>3. i > 0
    <3> SUFFICES ASSUME i <= 0 PROVE FALSE
      BY <2>2
    <3> HIDE DEF i
    <3>1. i * Lot(s) <= 0
      BY <1>3, <2>2
    <3> QED BY <1>3, <1>11, <2>2, <3>1
  <2>4. x - i * Lot(s) = h
    BY <1>3, <2>2
  <2>5. i \in Nat /\ MinSellVolume(s) = i * Lot(s)
    BY <2>1, <2>2, <2>3
  <2> HIDE DEF i
  <2>6. Whole(s, x - i * Lot(s)) /\ Enough(s, x - i * Lot(s))
    BY <2>4, HeldIsWhole
  <2> QED BY <2>3, <2>5, <2>6
<1> QED BY <1>3, <1>8, <1>9, <1>10, <1>11

(* The least that is bought is some lots, and makes an order that may be.    *)
LEMMA BuyVolume ==
  ASSUME portfolio \in Portfolios, NEW s \in Stock, shares[s] \in Nat, Agree(s),
         InLots(s, target[s]), Whole(s, target[s])
  PROVE  \E k \in Nat : /\ k > 0 /\ MinBuyVolume(s) = k * Lot(s)
                        /\ Whole(s, target[s] + k * Lot(s))
                        /\ Enough(s, target[s] + k * Lot(s))
<1>1. PICK k \in Nat : /\ k > 0 /\ Granularity("buy", s) = k * Lot(s)
                       /\ ~Fractional(s) /\ ByShares(s, target[s]) =>
                            \E j \in Int : k * Lot(s) = j * Price[s]
  BY GranularityOfStock
<1>2. PICK n \in Nat : target[s] = n * Lot(s)
  BY DEF InLots
<1> DEFINE x == target[s]
           h == Held(s)
           m == portfolio.minTrade
           least == k * Lot(s)
<1>3. /\ Lot(s) \in Nat /\ Lot(s) > 0 /\ x \in Nat /\ h \in Nat /\ m \in Nat
      /\ h = portfolio.shares[s] * Lot(s) /\ portfolio.shares[s] \in Nat
  <2>1. n * Lot(s) \in Nat
    BY Lots
  <2> QED BY <1>2, <2>1, Lots, HeldInLots, PortfolioTypes
<1>4. least \in Nat /\ least > 0
  BY <1>1, <1>3
<1>5. MinBuyVolume(s) =
        IF x >= h THEN IF x >= h + m THEN least ELSE CeilTo(m - (x - h), least)
        ELSE IF x + least <= h - m THEN least ELSE h - x
  BY <1>1, StockValues DEF MinBuyVolume
<1>6. Whole(s, x) /\ (~Fractional(s) /\ ByShares(s, x) => \E j \in Int : least = j * Price[s])
  BY <1>1
<1>7. ASSUME NEW c \in Nat, c > 0, MinBuyVolume(s) = c * least, Enough(s, x + c * least)
      PROVE  \E i \in Nat : /\ i > 0 /\ MinBuyVolume(s) = i * Lot(s)
                            /\ Whole(s, x + i * Lot(s)) /\ Enough(s, x + i * Lot(s))
  <2>1. c * least = (c * k) * Lot(s) /\ c * k \in Nat /\ c * k > 0
    BY <1>1, <1>3, <1>7
  <2>2. Whole(s, x + c * least)
    <3>1. c \in Int /\ x \in Int /\ least \in Int
      BY <1>3, <1>4, <1>7
    <3>2. portfolio \in Portfolios /\ s \in Stock
      OBVIOUS
    <3> HIDE DEF x, least
    <3> QED BY ONLY <1>6, <3>1, <3>2, WholeAfter
  <2> HIDE DEF least
  <2> QED BY <1>7, <2>1, <2>2
<1> HIDE DEF least
<1>8. CASE x >= h /\ x >= h + m
  <2>1. MinBuyVolume(s) = 1 * least /\ 1 * least = least
    BY <1>4, <1>5, <1>8
  <2>2. Enough(s, x + 1 * least)
    BY <1>3, <1>4, <1>8, <2>1 DEF Enough
  <2> QED BY <1>7, <2>1, <2>2
<1>9. CASE x >= h /\ ~(x >= h + m)
  <2>1. PICK c \in Int : /\ CeilTo(m - (x - h), least) = c * least /\ m - (x - h) <= c * least
                         /\ m - (x - h) > 0 => c > 0
    <3>1. m - (x - h) \in Int
      BY <1>3
    <3> HIDE DEF x, h, m
    <3> QED BY <1>4, <3>1, CeilToIsMultiple
  <2>2. m - (x - h) > 0
    BY <1>3, <1>9
  <2>3. c \in Nat /\ c > 0 /\ MinBuyVolume(s) = c * least /\ c * least \in Int
    BY <1>4, <1>5, <1>9, <2>1, <2>2
  <2>4. Enough(s, x + c * least)
    BY <1>3, <1>9, <2>1, <2>3 DEF Enough
  <2> QED BY <1>7, <2>3, <2>4
<1>10. CASE x < h /\ x + least <= h - m
  <2>1. MinBuyVolume(s) = 1 * least /\ 1 * least = least
    BY <1>3, <1>4, <1>5, <1>10
  <2>2. Enough(s, x + 1 * least)
    BY <1>3, <1>4, <1>10, <2>1 DEF Enough
  <2> QED BY <1>7, <2>1, <2>2
<1>11. CASE x < h /\ ~(x + least <= h - m)
  <2>1. MinBuyVolume(s) = h - x
    BY <1>3, <1>4, <1>5, <1>11
  <2> DEFINE i == portfolio.shares[s] - n
  <2>2. h - x = i * Lot(s) /\ i \in Int
    BY <1>2, <1>3, Multiples
  <2>3. i > 0
    <3> SUFFICES ASSUME i <= 0 PROVE FALSE
      BY <2>2
    <3> HIDE DEF i
    <3>1. i * Lot(s) <= 0
      BY <1>3, <2>2
    <3> QED BY <1>3, <1>11, <2>2, <3>1
  <2>4. x + i * Lot(s) = h
    BY <1>3, <2>2
  <2>5. i \in Nat /\ MinBuyVolume(s) = i * Lot(s)
    BY <2>1, <2>2, <2>3
  <2> HIDE DEF i
  <2>6. Whole(s, x + i * Lot(s)) /\ Enough(s, x + i * Lot(s))
    BY <2>4, HeldIsWhole
  <2> QED BY <2>3, <2>5, <2>6
<1> QED BY <1>3, <1>8, <1>9, <1>10, <1>11


(* A set of natural numbers has a least one.                                *)
LEMMA LeastIn ==
  ASSUME NEW S \in SUBSET Nat, S # {}
  PROVE  Min(S) \in S
<1>1. PICK n \in S : \A m \in S : <<m, n>> \notin OpToRel(<, Nat)
  BY NatLessThanWellFounded, WFMin
<1>2. ASSUME NEW m \in S
      PROVE  n <= m
  <2>1. n \in Nat /\ m \in Nat
    OBVIOUS
  <2>2. m < n => <<m, n>> \in OpToRel(<, Nat)
    BY <2>1 DEF OpToRel
  <2>3. ~(m < n)
    BY <1>1, <2>2
  <2> QED BY <2>1, <2>3
<1> QED BY <1>2 DEF Min

(* The smallest trade of any asset is one of something.                     *)
LEMMA GranularityPositive ==
  ASSUME shares \in [Stock -> Nat], NEW n \in Node, NEW type
  PROVE  Granularity(type, n) \in Nat /\ Granularity(type, n) > 0
<1> DEFINE S == {StockGranularity(type, s) : s \in Under[n]}
<1>1. Under[n] \subseteq Stock /\ Under[n] # {}
  <2>1. n \in Stock \cup Group
    BY Nodes
  <2>2. Under[n] \subseteq Stock
    BY <2>1 DEF Under
  <2> QED BY <2>2, RebalancingAssumption
<1>2. ASSUME NEW s \in Stock
      PROVE  StockGranularity(type, s) \in Nat /\ StockGranularity(type, s) > 0
  <2>1. Lot(s) \in Nat /\ Lot(s) > 0 /\ Price[s] \in Nat /\ Price[s] > 0 /\ shares[s] \in Nat
    BY Lots
  <2> DEFINE v == IF TradeGranularity(s) < One THEN Price[s] ELSE TradeGranularity(s)
             all == /\ type = "sell" /\ portfolio.fractional
                    /\ v * Unit > shares[s] * One /\ shares[s] # 0
  <2>2. StockGranularity(type, s) = IF all THEN (Price[s] * shares[s]) \div Unit ELSE v
    BY DEF StockGranularity
  <2>3. v \in {Lot(s), Price[s]}
    BY DEF TradeGranularity, Lot
  <2>4. (Price[s] * shares[s]) \div Unit = shares[s] * Lot(s)
    BY <2>1, LotsAndShares
  <2>5. all => shares[s] # 0
    OBVIOUS
  <2> HIDE DEF all, v
  <2>6. shares[s] # 0 => shares[s] * Lot(s) \in Nat /\ shares[s] * Lot(s) > 0
    BY <2>1
  <2> QED BY <2>1, <2>2, <2>3, <2>4, <2>5, <2>6
<1>3. S \in SUBSET Nat /\ S # {} /\ \A v \in S : v > 0
  BY <1>1, <1>2
<1>4. Granularity(type, n) = Min(S)
  BY DEF Granularity
<1> HIDE DEF S
<1> QED BY <1>3, <1>4, LeastIn

(* Something is sold in a sale, and bought in a purchase.                   *)
LEMMA VolumesPositive ==
  ASSUME portfolio \in Portfolios, shares \in [Stock -> Nat], NEW n \in Node,
         target[n] \in Int
  PROVE  /\ MinSellVolume(n) \in Nat /\ MinSellVolume(n) > 0
         /\ MinBuyVolume(n) \in Nat /\ MinBuyVolume(n) > 0
<1> DEFINE x == target[n]
           h == CurrentValue(n)
           m == portfolio.minTrade
           ls == Granularity("sell", n)
           lb == Granularity("buy", n)
<1>1. /\ x \in Int /\ h \in Nat /\ m \in Nat /\ ls \in Nat /\ ls > 0 /\ lb \in Nat /\ lb > 0
  <2>1. n \in Stock \cup Group
    BY Nodes
  <2> QED BY <2>1, LimitTypes, PortfolioTypes, GranularityPositive
<1>2. MinSellVolume(n) =
        IF x <= h THEN IF x <= h - m THEN ls ELSE CeilTo(m - (h - x), ls)
        ELSE IF x - ls >= h + m THEN ls ELSE x - h
  BY DEF MinSellVolume
<1>3. MinBuyVolume(n) =
        IF x >= h THEN IF x >= h + m THEN lb ELSE CeilTo(m - (x - h), lb)
        ELSE IF x + lb <= h - m THEN lb ELSE h - x
  BY DEF MinBuyVolume
<1> HIDE DEF x, h, m, ls, lb
<1>4. ASSUME NEW a \in Int, a > 0, NEW b \in Nat, b > 0
      PROVE  CeilTo(a, b) \in Nat /\ CeilTo(a, b) > 0
  <2>1. PICK k \in Int : CeilTo(a, b) = k * b /\ a <= k * b
    BY <1>4, CeilToIsMultiple
  <2>2. k * b \in Int
    BY <1>4
  <2> QED BY <1>4, <2>1, <2>2
<1>5. m - (h - x) \in Int /\ m - (x - h) \in Int
  BY <1>1
<1>6. MinSellVolume(n) \in Nat /\ MinSellVolume(n) > 0
  <2>1. CASE x <= h /\ ~(x <= h - m)
    <3>1. m - (h - x) > 0
      BY <1>1, <2>1
    <3> QED BY <1>1, <1>2, <1>4, <1>5, <2>1, <3>1
  <2> QED BY <1>1, <1>2, <2>1
<1>7. MinBuyVolume(n) \in Nat /\ MinBuyVolume(n) > 0
  <2>1. CASE x >= h /\ ~(x >= h + m)
    <3>1. m - (x - h) > 0
      BY <1>1, <2>1
    <3> QED BY <1>1, <1>3, <1>4, <1>5, <2>1, <3>1
  <2> QED BY <1>1, <1>3, <2>1
<1> QED BY <1>6, <1>7

(* A trade is of the asset asked for, keeps within its limits, and is paid. *)
LEMMA TradeKeepsLimits ==
  ASSUME portfolio \in Portfolios, shares \in [Stock -> Nat], NEW n \in Node,
         target[n] \in Int, min[n] \in Nat, NEW type \in {"sell", "buy"}, NEW e, NEW a,
         NEW t \in PossibleTrades(type, n, e, a)
  PROVE  /\ t.on = n /\ t.volume \in Int
         /\ t.volume = IF type = "sell" THEN -MinSellVolume(n) ELSE MinBuyVolume(n)
         /\ type = "sell" => t.volume < 0 /\ target[n] + t.volume >= min[n]
         /\ type = "buy" => /\ t.volume > 0 /\ t.volume <= a
                            /\ max[n] # NoLimit => target[n] + t.volume <= max[n]
<1>1. /\ MinSellVolume(n) \in Nat /\ MinSellVolume(n) > 0
      /\ MinBuyVolume(n) \in Nat /\ MinBuyVolume(n) > 0
  BY VolumesPositive
<1> DEFINE v == IF type = "sell" THEN -MinSellVolume(n) ELSE MinBuyVolume(n)
<1>2. /\ t.on = n /\ t.volume = v
      /\ IF type = "sell" THEN target[n] + v >= min[n]
         ELSE (max[n] # NoLimit => target[n] + v <= max[n]) /\ v <= a
  BY DEF PossibleTrades
<1>3. type = "sell" => v < 0 /\ v \in Int
  BY <1>1
<1>4. type = "buy" => v > 0 /\ v \in Int
  BY <1>1
<1> QED BY <1>2, <1>3, <1>4

(* A trade of a stock makes an order that may be.                           *)
LEMMA TradeMakesAllowed ==
  ASSUME portfolio \in Portfolios, shares \in [Stock -> Nat], NEW s \in Stock, Agree(s),
         min[s] = MinValue(s), max[s] = MaxValue(s), Allowed(s, target[s]),
         NEW type \in {"sell", "buy"}, type = "buy" => ~Gone(s, target[s]), NEW e, NEW a,
         NEW t \in PossibleTrades(type, s, e, a)
  PROVE  Allowed(s, target[s] + t.volume)
<1>0. PICK n \in Nat : target[s] = n * Lot(s)
  BY DEF Allowed, InLots
<1>1. /\ Lot(s) \in Nat /\ Lot(s) > 0 /\ target[s] \in Nat /\ s \in Node
      /\ MinValue(s) \in Nat /\ Held(s) \in Nat /\ shares[s] \in Nat
      /\ MaxValue(s) \in Nat \cup {NoLimit}
  <2>1. n * Lot(s) \in Nat
    BY Lots
  <2> QED BY <1>0, <2>1, Lots, Nodes, StockLimits, HeldInLots, LimitTypes
<1>2. /\ t.volume \in Int
      /\ t.volume = IF type = "sell" THEN -MinSellVolume(s) ELSE MinBuyVolume(s)
      /\ type = "sell" => t.volume < 0 /\ target[s] + t.volume >= MinValue(s)
      /\ type = "buy" => /\ t.volume > 0
                         /\ MaxValue(s) # NoLimit => target[s] + t.volume <= MaxValue(s)
  BY <1>1, TradeKeepsLimits
<1>3. Whole(s, target[s])
  <2>1. CASE Gone(s, target[s])
    <3>1. type = "sell" /\ target[s] = 0
      BY <2>1 DEF Gone
    <3> QED BY <1>1, <1>2, <3>1
  <2> QED BY <2>1 DEF Allowed
<1>4. CASE type = "sell"
  <2>1. PICK k \in Nat : /\ MinSellVolume(s) = k * Lot(s) /\ Whole(s, target[s] - k * Lot(s))
                         /\ Enough(s, target[s] - k * Lot(s))
    BY <1>1, <1>3, SellVolume DEF Allowed
  <2>2. target[s] + t.volume = target[s] - k * Lot(s) /\ k * Lot(s) \in Nat
    BY <1>1, <1>2, <1>4, <2>1
  <2>3. target[s] - k * Lot(s) = (n - k) * Lot(s) /\ n - k \in Int
    BY <1>0, <1>1, Multiples
  <2>4. n - k >= 0
    <3> SUFFICES ASSUME n - k < 0 PROVE FALSE
      BY <2>3
    <3> DEFINE d == n - k
    <3>1. d \in Int /\ d <= -1
      OBVIOUS
    <3> HIDE DEF d
    <3>2. d * Lot(s) < 0
      BY <1>1, <3>1
    <3> QED BY <1>1, <1>2, <1>4, <2>2, <2>3, <3>2 DEF d
  <2>5. InLots(s, target[s] - k * Lot(s))
    BY <2>3, <2>4 DEF InLots
  <2>6. Limited(s, target[s] + t.volume)
    <3>1. MaxValue(s) # NoLimit => target[s] <= MaxValue(s)
      BY DEF Allowed, Limited
    <3> QED BY <1>1, <1>2, <1>4, <3>1 DEF Limited
  <2> QED BY <2>1, <2>2, <2>5, <2>6 DEF Allowed
<1>5. CASE type = "buy"
  <2>1. PICK k \in Nat : /\ MinBuyVolume(s) = k * Lot(s) /\ Whole(s, target[s] + k * Lot(s))
                         /\ Enough(s, target[s] + k * Lot(s))
    BY <1>1, <1>3, BuyVolume DEF Allowed
  <2>2. target[s] + t.volume = target[s] + k * Lot(s)
    BY <1>1, <1>2, <1>5, <2>1
  <2>3. target[s] + k * Lot(s) = (n + k) * Lot(s) /\ n + k \in Nat
    BY <1>0, <1>1, Multiples
  <2>4. InLots(s, target[s] + k * Lot(s))
    BY <2>3 DEF InLots
  <2>5. Limited(s, target[s] + t.volume)
    <3>1. MinValue(s) <= target[s]
      BY DEF Allowed, Limited
    <3> QED BY <1>1, <1>2, <1>5, <3>1 DEF Limited
  <2> QED BY <2>1, <2>2, <2>4, <2>5 DEF Allowed
<1> QED BY <1>4, <1>5

-----------------------------------------------------------------------------
(* What an asset is expected to be worth.                                   *)
LEMMA ExpectedIsAmount ==
  ASSUME portfolio \in Portfolios, NEW n \in Node, NEW v \in Int
  PROVE  Expected(v, n) \in Int /\ (v >= 0 => Expected(v, n) >= 0)
<1>1. Weight(n) \in Nat /\ Parts \in Nat /\ Parts > 0
  BY PortfolioTypes DEF Weight
<1> DEFINE x == v * Weight(n)
<1>2. x \in Int /\ (v >= 0 => x >= 0)
  BY <1>1
<1> HIDE DEF x
<1> DEFINE q == x \div Parts
<1>3. q \in Int /\ x < Parts * q + Parts
  BY <1>1, <1>2
<1>4. Expected(v, n) = q
  BY DEF Expected, x
<1> HIDE DEF q
<1>5. ASSUME x >= 0 PROVE q >= 0
  <2> SUFFICES ASSUME q <= -1 PROVE FALSE
    BY <1>3
  <2>1. Parts * q <= -Parts
    BY <1>1, <1>3
  <2> QED BY <1>1, <1>2, <1>3, <1>5, <2>1
<1> QED BY <1>2, <1>3, <1>4, <1>5

(* A stock is first given whole orders, none smaller than the minimum.      *)
LEMMA RoundedStock ==
  ASSUME portfolio \in Portfolios, NEW s \in Stock, NEW e \in Int
  PROVE  /\ Whole(s, Rounded(s, e)) /\ Enough(s, Rounded(s, e))
         /\ \E n \in Int : Rounded(s, e) = n * Lot(s)
         /\ e >= 0 => Rounded(s, e) >= 0
<1> DEFINE h == Held(s)
           m == portfolio.minTrade
           g == TradeGranularity(s)
           c == Round(e - h, g)
           whole == g * c
           kept == IF whole < 0 /\ -whole > h THEN whole + g ELSE whole
<1>1. /\ Lot(s) \in Nat /\ Lot(s) > 0 /\ Price[s] = Lot(s) * Unit /\ Unit \in Nat /\ Unit > 0
      /\ Price[s] \in Nat /\ Price[s] > 0
      /\ h = portfolio.shares[s] * Lot(s) /\ portfolio.shares[s] \in Nat /\ h \in Nat /\ m \in Nat
  BY Lots, HeldInLots, PortfolioTypes
<1>2. (g = Lot(s) /\ Fractional(s)) \/ (g = Price[s] /\ ~Fractional(s))
  BY DEF TradeGranularity, Lot
<1>3. Rounded(s, e) = IF kept < m /\ -kept < m THEN h ELSE h + kept
  BY StockValues DEF Rounded
<1>4. g \in Nat /\ g > 0
  BY <1>1, <1>2
<1>5. /\ c \in Int
      /\ e - h >= 0 => c >= 0
      /\ e - h < 0 => 2 * (g * c) >= 2 * (e - h) - g
  <2>1. e - h \in Int
    BY <1>1
  <2> HIDE DEF g, h
  <2> QED BY <1>4, <2>1, RoundIsNear
<1>6. ~Fractional(s) /\ ByShares(s, h) => \E j \in Int : g = j * Price[s]
  <2>1. 1 * Price[s] = Price[s]
    BY <1>1
  <2> QED BY <1>2, <2>1
<1>7. \E u \in Int : g = u * Lot(s)
  <2>1. Lot(s) = 1 * Lot(s) /\ Price[s] = Unit * Lot(s)
    BY <1>1
  <2> QED BY <1>1, <1>2, <2>1
<1> HIDE DEF g, c
<1>8. PICK d \in Int : kept = d * g
  <2>1. g * c = c * g /\ g * c + g = (c + 1) * g
    BY <1>4, <1>5
  <2> QED BY <1>5, <2>1
<1>9. whole \in Int /\ kept \in Int
  BY <1>4, <1>5
<1>10. e >= 0 => h + kept >= 0
  <2> SUFFICES ASSUME e >= 0 PROVE h + kept >= 0
    OBVIOUS
  <2>1. CASE e - h >= 0
    <3>1. whole >= 0
      BY <1>4, <1>5, <2>1
    <3> HIDE DEF whole
    <3> QED BY <1>1, <1>9, <3>1
  <2>2. CASE e - h < 0
    <3>1. 2 * whole >= 2 * (e - h) - g
      BY <1>5, <2>2
    <3> HIDE DEF whole
    <3> QED BY <1>1, <1>4, <1>9, <3>1
  <2> QED BY <1>1, <2>1, <2>2
<1> HIDE DEF kept, whole
<1>11. CASE kept < m /\ -kept < m
  BY <1>1, <1>3, <1>11, HeldIsWhole
<1>12. CASE ~(kept < m /\ -kept < m)
  <2>1. Rounded(s, e) = h + kept
    BY <1>3, <1>12
  <2>2. Whole(s, h)
    BY HeldIsWhole
  <2>3. Whole(s, h + d * g)
    <3>1. portfolio \in Portfolios /\ s \in Stock /\ h \in Int /\ g \in Int
      BY <1>1, <1>4
    <3> HIDE DEF h
    <3> QED BY ONLY <1>6, <1>8, <2>2, <3>1, WholeAfter
  <2>4. Enough(s, h + kept)
    BY <1>1, <1>9, <1>12 DEF Enough
  <2>5. \E n \in Int : h + kept = n * Lot(s)
    <3>1. PICK u \in Int : g = u * Lot(s)
      BY <1>7
    <3>2. kept = (d * u) * Lot(s) /\ d * u \in Int
      BY <1>1, <1>8, <3>1
    <3>3. h + kept = (portfolio.shares[s] + d * u) * Lot(s)
      BY <1>1, <3>2, Multiples
    <3> QED BY <1>1, <3>2, <3>3
  <2> QED BY <1>8, <1>10, <2>1, <2>3, <2>4, <2>5
<1> QED BY <1>11, <1>12

(* Within its limits that is an order that may be.                          *)
LEMMA OpeningMakesAllowed ==
  ASSUME portfolio \in Portfolios, NEW s \in Stock, NEW given \in Int,
         min[s] = MinValue(s), max[s] = MaxValue(s),
         given >= 0 \/ (s \in Members(Root) /\ CurrentNetValue < portfolio.reserve)
  PROVE  Allowed(s, Within(s, Rounded(s, Expected(given, s))))
<1> DEFINE e == Expected(given, s)
           r == Rounded(s, e)
           w == Within(s, r)
           lo == MinValue(s)
           hi == MaxValue(s)
           h == Held(s)
<1>0. s \in Node /\ e \in Int /\ (given >= 0 => e >= 0)
  BY Nodes, ExpectedIsAmount
<1>1. /\ lo \in {0, h} /\ lo \in Nat /\ lo <= h /\ h \in Nat
      /\ hi # NoLimit => hi \in {lo, h}
      /\ hi # NoLimit /\ ~Deprecated(s) => hi = h
  BY StockLimits, HeldInLots
<1>2. /\ Whole(s, r) /\ Enough(s, r) /\ \E n \in Int : r = n * Lot(s)
      /\ e >= 0 => r >= 0
  BY <1>0, RoundedStock
<1>3. r \in Int /\ Lot(s) \in Nat /\ Lot(s) > 0
  BY <1>2, Lots
<1>4. w = LET capped == IF hi # NoLimit /\ r > hi THEN hi ELSE r
          IN  IF capped < lo THEN lo ELSE capped
  BY DEF Within
<1>5. InLots(s, 0) /\ InLots(s, h) /\ Whole(s, h) /\ Enough(s, h)
  <2>1. 0 = 0 * Lot(s)
    BY <1>3
  <2> QED BY <2>1, HeldIsWhole DEF InLots
<1> HIDE DEF e, r, w, lo, hi, h
<1>6. CASE w = r
  <2>1. lo <= r /\ (hi # NoLimit => r <= hi)
    BY <1>1, <1>3, <1>4, <1>6
  <2>2. InLots(s, r)
    <3>1. PICK n \in Int : r = n * Lot(s)
      BY <1>2
    <3>2. n >= 0
      <4> SUFFICES ASSUME n <= -1 PROVE FALSE
        BY <3>1
      <4>1. n * Lot(s) < 0
        BY <1>3
      <4> QED BY <1>1, <1>3, <2>1, <3>1, <4>1
    <3> QED BY <3>1, <3>2 DEF InLots
  <2>3. Limited(s, r)
    BY <2>1 DEF Limited, lo, hi
  <2>4. Allowed(s, r)
    BY <1>2, <2>2, <2>3 DEF Allowed
  <2> QED BY <1>6, <2>4 DEF w, r, e
<1>7. CASE w = hi /\ hi # NoLimit
  <2>1. lo <= hi
    BY <1>1, <1>7
  <2>2. InLots(s, hi)
    BY <1>1, <1>5, <1>7
  <2>3. Whole(s, hi) /\ Enough(s, hi)
    BY <1>1, <1>5, <1>7 DEF Whole, Enough
  <2>4. Limited(s, hi)
    BY <1>1, <1>7, <2>1 DEF Limited, lo, hi
  <2> QED BY <1>7, <2>2, <2>3, <2>4 DEF Allowed, w, r, e
<1>8. CASE w = lo /\ w # r /\ ~(w = hi /\ hi # NoLimit)
  <2>1. InLots(s, lo)
    BY <1>1, <1>5
  <2>2. Limited(s, lo)
    BY <1>1 DEF Limited, lo, hi
  <2>3. CASE lo = h
    BY <1>5, <1>8, <2>1, <2>2, <2>3 DEF Allowed, w, r, e
  <2>4. CASE lo = 0
    <3>1. r < 0
      BY <1>1, <1>3, <1>4, <1>8, <2>4
    <3>2. ~(given >= 0)
      BY <1>0, <1>2, <1>3, <3>1
    <3>3. Gone(s, lo)
      BY <2>4, <3>2 DEF Gone
    <3> QED BY <1>8, <2>1, <2>2, <3>3 DEF Allowed, w, r, e
  <2> QED BY <1>1, <2>3, <2>4
<1>9. w = r \/ (w = hi /\ hi # NoLimit) \/ w = lo
  BY <1>4
<1>10. w = Within(s, Rounded(s, Expected(given, s)))
  BY DEF w, r, e
<1> QED BY <1>6, <1>7, <1>8, <1>9, <1>10 DEF Allowed, w, r, e

(* A group is given an amount within its limits.                            *)
LEMMA OpeningOfGroup ==
  ASSUME portfolio \in Portfolios, NEW n \in Node, NEW given \in Int, min[n] \in Nat,
         max[n] \in Nat \cup {NoLimit}
  PROVE  LET v == Within(n, Rounded(n, Expected(given, n))) IN v \in Int /\ v >= min[n]
<1> DEFINE r == Rounded(n, Expected(given, n))
<1>1. r \in Int
  <2>1. CASE n \in Stock
    <3>1. Expected(given, n) \in Int
      BY ExpectedIsAmount
    <3>2. PICK k \in Int : r = k * Lot(n)
      BY <2>1, <3>1, RoundedStock
    <3> QED BY <2>1, <3>2, Lots
  <2>2. CASE n \notin Stock
    <3>1. CurrentValue(n) \in Nat /\ Expected(given, n) \in Int
      BY Nodes, LimitTypes, ExpectedIsAmount
    <3>2. r = CurrentValue(n) \/ r = CurrentValue(n) + (Expected(given, n) - CurrentValue(n))
      BY <2>2 DEF Rounded
    <3> QED BY <3>1, <3>2
  <2> QED BY <2>1, <2>2
<1> HIDE DEF r
<1>2. Within(n, r) \in Int /\ Within(n, r) >= min[n]
  BY <1>1 DEF Within, NoLimit
<1> QED BY <1>2 DEF r

-----------------------------------------------------------------------------
(* The portfolio does not change, nor what is said of it alone.             *)
LEMMA Static ==
  ASSUME portfolio' = portfolio
  PROVE  /\ \A n : MinValue(n)' = MinValue(n)
         /\ \A n : MaxValue(n)' = MaxValue(n)
         /\ \A n : CurrentValue(n)' = CurrentValue(n)
         /\ \A n : Held(n)' = Held(n)
         /\ CurrentNetValue' = CurrentNetValue
         /\ \A n : Weight(n)' = Weight(n)
         /\ \A n : Deprecated(n)' = Deprecated(n)
         /\ \A s, v : Allowed(s, v)' <=> Allowed(s, v)
         /\ \A s, n : Commission(s, n)' = Commission(s, n)
<1>1. \A n : Held(n)' = Held(n)
  BY DEF Held
<1>2. \A n : KeptValue(n)' = KeptValue(n)
  BY <1>1 DEF KeptValue
<1>3. \A n : MinValue(n)' = MinValue(n)
  BY <1>2 DEF MinValue
<1>4. \A n : CurrentValue(n)' = CurrentValue(n)
  BY <1>1 DEF CurrentValue
<1>5. \A n : BuyLimit(n)' = BuyLimit(n)
  BY <1>1 DEF BuyLimit
<1>6. \A n : Weight(n)' = Weight(n)
  BY DEF Weight
<1>7. \A n, s : LimitWithin(n, s)' = LimitWithin(n, s)
  BY <1>2, <1>5, <1>6 DEF LimitWithin
<1>8. \A n : RawMax(n)' = RawMax(n)
  BY <1>7 DEF RawMax
<1>9. \A n : Deprecated(n)' = Deprecated(n)
  BY <1>3, <1>6 DEF Deprecated
<1>10. \A n : MaxValue(n)' = MaxValue(n)
  BY <1>3, <1>8, <1>9 DEF MaxValue
<1>11. CurrentNetValue' = CurrentNetValue
  BY <1>4 DEF CurrentNetValue
<1>12. \A n : Fractional(n)' = Fractional(n)
  BY DEF Fractional
<1>13. \A s, v : Limited(s, v)' <=> Limited(s, v)
  BY <1>3, <1>10 DEF Limited
<1>14. \A s, v : Gone(s, v)' <=> Gone(s, v)
  BY <1>11 DEF Gone
<1>15. \A s, v : Whole(s, v)' <=> Whole(s, v)
  BY <1>1, <1>9, <1>12 DEF Whole, ByShares
<1>16. \A s, v : Enough(s, v)' <=> Enough(s, v)
  BY <1>1, <1>9 DEF Enough
<1>17. \A s, v : Allowed(s, v)' <=> Allowed(s, v)
  BY <1>13, <1>14, <1>15, <1>16 DEF Allowed, InLots
<1>18. \A s, n : Commission(s, n)' = Commission(s, n)
  BY DEF Commission
<1> QED BY <1>3, <1>4, <1>1, <1>6, <1>9, <1>10, <1>11, <1>17, <1>18
-----------------------------------------------------------------------------
(* The inductive invariant.                                                 *)
Phases == {"restrictions", "panicked", "groups", "result", "sell", "buy", "fees", "done"}

Traded == {"sell", "buy", "fees", "done"}

Stages == {"waiting", "selling", "buying", "nested", "done"}

Types ==
  /\ portfolio \in Portfolios /\ phase \in Phases
  /\ min \in [Node -> Nat] /\ max \in [Node -> Nat \cup {NoLimit}]
  /\ stage \in [Group -> Stages] /\ total \in [Group -> Int] /\ balance \in [Group -> Int]
  /\ target \in [Node -> Int] /\ shares \in [Stock -> Nat]
  /\ cash \in Int /\ net \in Int /\ commissions \in Int /\ daily \in Nat

(* The limits are found first, and stay.                                    *)
LimitsFound ==
  phase \notin {"restrictions", "panicked"} =>
    \A n \in Node : min[n] = MinValue(n) /\ max[n] = MaxValue(n)

(* A group is opened when its parent has corrected its own balance, and     *)
(* closed after the groups in it.                                           *)
DepthFirst ==
  /\ phase \in {"restrictions", "panicked"} => \A g \in Group : stage[g] = "waiting"
  /\ phase \notin {"restrictions", "panicked", "groups"} <=> stage[Root] = "done"
  /\ \A g \in Group \ {Root} :
       stage[g] # "waiting" => stage[Parent(g)] \in {"nested", "done"}
  /\ \A g \in Group, h \in Group :
       stage[g] = "done" /\ h \in Members(g) => stage[h] = "done"

(* Money is not touched before the orders are known.                        *)
Untouched ==
  phase \notin Traded =>
    /\ shares = portfolio.shares /\ net = CurrentNetValue

(* A group that waits is not given a debt ...                               *)
NoDebt == \A g \in Group \ {Root} : stage[g] = "waiting" => target[g] >= 0

(* ... and a stock in one that does not wait has an order that may be.      *)
OrdersMayBe ==
  \A g \in Group, s \in Stock :
    stage[g] # "waiting" /\ s \in Members(g) => Allowed(s, target[s])

(* With a reserve above the worth nothing is ever left to buy with.         *)
NothingToSpend ==
  CurrentNetValue < portfolio.reserve /\ stage[Root] \in {"selling", "buying", "nested"} =>
    Sum(target, Members(Root)) + balance[Root] < 0

PaidFor == [s \in Stock |-> Commission(s, shares[s])]

(* The money and the orders, once there are orders.                         *)
Accounts ==
  phase \in Traded =>
    /\ \A s \in Stock : target[s] = shares[s] * Lot(s)
    /\ cash + Sum(target, Stock) = net
    /\ net + commissions = CurrentNetValue
    /\ commissions = Sum(PaidFor, Stock) + daily

IInv ==
  /\ Types /\ LimitsFound /\ DepthFirst /\ Untouched /\ NoDebt /\ OrdersMayBe
  /\ NothingToSpend /\ Accounts

(* What the portfolio is worth is an amount.                                *)
LEMMA WorthIsAmount ==
  ASSUME portfolio \in Portfolios
  PROVE  CurrentNetValue \in Int
<1>1. Root \in Stock \cup Group
  BY RebalancingAssumption
<1>2. CurrentValue(Root) \in Nat /\ portfolio.cash \in Int
  BY <1>1, LimitTypes, PortfolioTypes
<1> QED BY <1>2 DEF CurrentNetValue

(* A commission is an amount, and not negative.                             *)
LEMMA CommissionIsAmount ==
  ASSUME portfolio \in Portfolios, NEW s \in Stock, NEW n \in Nat
  PROVE  Commission(s, n) \in Nat
<1> DEFINE d == IF n < portfolio.shares[s] THEN portfolio.shares[s] - n
                ELSE n - portfolio.shares[s]
<1>1. portfolio.shares[s] \in Nat /\ Fee \in Nat /\ ShareFee \in Nat /\ Unit \in Nat /\ Unit > 0
  BY PortfolioTypes, RebalancingAssumption
<1>2. d \in Nat
  BY <1>1
<1>3. Commission(s, n) = IF d = 0 THEN 0 ELSE Fee + ShareFee * (CeilTo(d, Unit) \div Unit)
  BY DEF Commission
<1> HIDE DEF d
<1>4. PICK k \in Int : CeilTo(d, Unit) = k * Unit /\ (d > 0 => k > 0)
  <2>1. d \in Int /\ Unit \in Nat /\ Unit > 0
    BY <1>1, <1>2
  <2>2. \E k \in Int : CeilTo(d, Unit) = k * Unit /\ d <= k * Unit /\ (d > 0 => k > 0)
    BY ONLY <2>1, CeilToIsMultiple
  <2> QED BY <2>2
<1>5. CeilTo(d, Unit) \div Unit = k
  BY <1>1, <1>4, DivideMultiple
<1>6. d > 0 => Fee + ShareFee * k \in Nat
  <2> SUFFICES ASSUME d > 0 PROVE Fee + ShareFee * k \in Nat
    OBVIOUS
  <2>1. k \in Nat
    BY <1>4
  <2>2. ShareFee * k \in Nat
    BY <1>1, <2>1
  <2> QED BY <1>1, <2>2
<1> QED BY <1>2, <1>3, <1>5, <1>6

(* When the root is done everything is.                                     *)
LEMMA AllDone ==
  ASSUME IInv, stage[Root] = "done", NEW g \in Group
  PROVE  stage[g] = "done"
<1> DEFINE up == {h \in Group : stage[h] # "done"}
<1>1. SUFFICES ASSUME stage[g] # "done" PROVE FALSE
  OBVIOUS
<1>2. up \in SUBSET Group /\ g \in up
  BY <1>1
<1>3. ASSUME NEW h \in Group, up \cap Members(h) # {}
      PROVE  h \in up
  <2>1. PICK k \in up : k \in Members(h)
    BY <1>3
  <2>2. k \in Group /\ stage[k] # "done"
    BY <2>1
  <2> QED BY <2>1, <2>2 DEF IInv, DepthFirst
<1> HIDE DEF up
<1>4. Root \in up
  BY <1>2, <1>3, RootIsReached
<1> QED BY <1>4 DEF up

(* A group works while the groups are rebalanced.                           *)
LEMMA GroupsWork ==
  ASSUME IInv, NEW g \in Group, stage[g] \in {"selling", "buying", "nested"}
  PROVE  phase = "groups" /\ stage[Root] # "done"
<1>1. stage[Root] # "done"
  BY AllDone
<1>2. phase \notin {"restrictions", "panicked"}
  BY DEF IInv, DepthFirst
<1> QED BY <1>1, <1>2 DEF IInv, DepthFirst

(* A stock's target, where it may be, is not negative.                      *)
LEMMA AllowedIsAmount ==
  ASSUME NEW s \in Stock, NEW v, Allowed(s, v)
  PROVE  v \in Nat
<1>1. PICK k \in Nat : v = k * Lot(s)
  BY DEF Allowed, InLots
<1> QED BY <1>1, Lots

(* Before anything is opened the portfolio is as it is held.                *)
LEMMA InitEstablishes ==
  ASSUME Init
  PROVE  IInv
<1>1. portfolio \in Portfolios
  BY DEF Init
<1>2. Node \subseteq Stock \cup Group /\ Root \in Group /\ Root \notin Node
  BY Nodes, RebalancingAssumption
<1>3. \A n \in Node : CurrentValue(n) \in Nat
  BY <1>1, <1>2, LimitTypes
<1>4. target \in [Node -> Int] /\ \A n \in Node : target[n] >= 0
  BY <1>3 DEF Init
<1>5. Types
  BY <1>1, <1>4, PortfolioTypes, WorthIsAmount DEF Init, Types, Phases, Stages, NoLimit
<1>6. \A g \in Group : stage[g] = "waiting"
  BY DEF Init
<1>7. DepthFirst
  <2>1. \A g \in Group \ {Root} : g \in Node
    BY Nodes
  <2> QED BY <1>2, <1>6, <2>1 DEF Init, DepthFirst
<1>8. NoDebt
  BY <1>4, Nodes DEF NoDebt
<1>9. LimitsFound /\ Untouched /\ OrdersMayBe /\ NothingToSpend /\ Accounts
  BY <1>2, <1>6 DEF Init, LimitsFound, Untouched, OrdersMayBe, NothingToSpend, Accounts, Traded
<1> QED BY <1>5, <1>7, <1>8, <1>9 DEF IInv

(* The restrictions are calculated before anything else.                    *)
LEMMA RestrictionsKeep ==
  ASSUME IInv, CalculateRestrictions
  PROVE  IInv'
<1>1. /\ phase = "restrictions" /\ phase' \in {"panicked", "groups"}
      /\ min' = [n \in Node |-> MinValue(n)] /\ max' = [n \in Node |-> MaxValue(n)]
      /\ UNCHANGED <<portfolio, stage, total, balance, target, shares, cash, net, commissions,
                     daily>>
  BY DEF CalculateRestrictions, tree, money
<1>2. portfolio \in Portfolios /\ Node \subseteq Stock \cup Group
  BY Nodes DEF IInv, Types
<1>3. min' \in [Node -> Nat] /\ max' \in [Node -> Nat \cup {NoLimit}]
  BY <1>1, <1>2, LimitTypes
<1>4. Types'
  BY <1>1, <1>3 DEF IInv, Types, Phases
<1>5. LimitsFound'
  BY <1>1, Static DEF LimitsFound
<1>6. \A g \in Group : stage[g] = "waiting"
  BY <1>1 DEF IInv, DepthFirst
<1>7. DepthFirst'
  BY <1>1, <1>6, Nodes, RebalancingAssumption DEF IInv, DepthFirst
<1>8. Untouched'
  BY <1>1, Static DEF IInv, Untouched, Traded
<1>9. NoDebt' /\ OrdersMayBe'
  BY <1>1, <1>6 DEF IInv, NoDebt, OrdersMayBe
<1>10. NothingToSpend' /\ Accounts'
  BY <1>1, <1>6, RebalancingAssumption DEF NothingToSpend, Accounts, Traded
<1> QED BY <1>4, <1>5, <1>7, <1>8, <1>9, <1>10 DEF IInv

(* What the members of a group are expected to be worth is, but for what is *)
(* rounded off, what the group is given.                                    *)
LEMMA ExpectedInAll ==
  ASSUME portfolio \in Portfolios, NEW g \in Group, NEW given \in Int, NEW e,
         \A n \in Members(g) : e[n] = Expected(given, n)
  PROVE  Summable(e, Members(g)) /\ SumFunctionOnSet(e, Members(g)) <= given
<1> DEFINE S == Members(g)
           w == portfolio.weight
           pe == [n \in S |-> Parts * e[n]]
           gw == [n \in S |-> given * w[n]]
<1>1. /\ IsFiniteSet(S) /\ S \subseteq Node /\ Parts \in Nat /\ Parts > 0
      /\ w \in [Node -> 0 .. Parts]
  BY Nodes, PortfolioTypes
<1>2. SumFunctionOnSet(w, S) = Parts
  BY RebalancingAssumption DEF Sum
<1>3. \A n \in S : w[n] \in Int /\ given * w[n] \in Int
  BY <1>1
<1>4. ASSUME NEW n \in S
      PROVE  e[n] \in Int /\ Parts * e[n] <= given * w[n]
  <2>1. e[n] = (given * w[n]) \div Parts
    BY <1>4 DEF Expected, Weight
  <2> DEFINE x == given * w[n]
  <2>2. x \in Int
    BY <1>3
  <2> HIDE DEF x
  <2>3. x \div Parts \in Int /\ Parts * (x \div Parts) <= x
    BY <1>1, <2>2
  <2> QED BY <2>1, <2>3 DEF x
<1>5. Summable(e, S) /\ Summable(w, S) /\ Summable(gw, S)
  BY <1>1, <1>3, <1>4 DEF Summable
<1>6. Summable(pe, S) /\ \A n \in S : pe[n] <= gw[n]
  BY <1>1, <1>4 DEF Summable
<1>7. \A n \in S : pe[n] = Parts * e[n] /\ gw[n] = given * w[n]
  OBVIOUS
<1> HIDE DEF S, w, pe, gw
<1>8. SumFunctionOnSet(pe, S) <= SumFunctionOnSet(gw, S)
  BY <1>5, <1>6, SumAtMost
<1>9. SumFunctionOnSet(pe, S) = Parts * SumFunctionOnSet(e, S)
  <2>1. Parts \in Int
    BY <1>1
  <2> QED BY ONLY <1>5, <1>7, <2>1, SumTimes
<1>10. SumFunctionOnSet(gw, S) = given * Parts
  <2>1. given \in Int
    OBVIOUS
  <2>2. SumFunctionOnSet(gw, S) = given * SumFunctionOnSet(w, S)
    BY ONLY <1>5, <1>7, <2>1, SumTimes
  <2> QED BY <1>2, <2>2
<1>11. SumFunctionOnSet(e, S) \in Int
  BY <1>5, SumInteger
<1> DEFINE x == SumFunctionOnSet(e, S)
<1>12. x \in Int /\ Parts * x <= Parts * given
  BY <1>1, <1>8, <1>9, <1>10, <1>11
<1> HIDE DEF x
<1>13. x <= given
  <2> SUFFICES ASSUME x >= given + 1 PROVE FALSE
    BY <1>12
  <2>1. Parts * x >= Parts * (given + 1)
    BY <1>1, <1>12
  <2>2. Parts * (given + 1) = Parts * given + Parts
    BY <1>1
  <2> QED BY <1>1, <1>12, <2>1, <2>2
<1> QED BY <1>5, <1>13 DEF x, S

(* A group is opened when it is its turn, and the stocks in it are given    *)
(* orders that may be.                                                      *)
LEMMA OpenGroupKeeps ==
  ASSUME IInv, NEW g \in Group, OpenGroup(g)
  PROVE  IInv'
<1> DEFINE given == IF g = Root THEN net - portfolio.reserve ELSE target[g]
           v == [n \in Node |-> Within(n, Rounded(n, Expected(given, n)))]
           e == [n \in Members(g) |-> Expected(given, n)]
           unspent == [n \in Members(g) |-> Expected(given, n) - v[n]]
<1>1. /\ stage[g] = "waiting" /\ Turn(g)
      /\ stage' = [stage EXCEPT ![g] = "selling"]
      /\ total' = [total EXCEPT ![g] = given]
      /\ UNCHANGED <<portfolio, phase, min, max, shares, cash, net, commissions, daily>>
  BY DEF OpenGroup, money
<1>2. Members(g) \subseteq Node
  BY Nodes
<1>3. /\ \A n \in Members(g) : v[n] = Within(n, Rounded(n, Expected(given, n)))
      /\ target' = [n \in Node |-> IF n \in Members(g) THEN v[n] ELSE target[n]]
      /\ balance' = [balance EXCEPT ![g] = Sum(unspent, Members(g))]
  BY <1>2 DEF OpenGroup
<1>4. /\ portfolio \in Portfolios /\ net \in Int /\ target \in [Node -> Int]
      /\ min \in [Node -> Nat] /\ max \in [Node -> Nat \cup {NoLimit}]
      /\ stage \in [Group -> Stages] /\ total \in [Group -> Int] /\ balance \in [Group -> Int]
  BY DEF IInv, Types
<1>5. phase = "groups" /\ stage[Root] # "done" /\ (g # Root => stage[Parent(g)] = "nested")
  <2>1. CASE g = Root
    BY <1>1, <2>1 DEF Turn
  <2>2. CASE g # Root
    <3>1. Parent(g) \in Group
      BY <2>2, Nodes, ParentOf
    <3>2. stage[Parent(g)] = "nested"
      BY <1>1, <2>2 DEF Turn
    <3> QED BY <3>1, <3>2, GroupsWork
  <2> QED BY <2>1, <2>2
<1>6. \A n \in Node : min[n] = MinValue(n) /\ max[n] = MaxValue(n)
  BY <1>5 DEF IInv, LimitsFound
<1>7. net = CurrentNetValue /\ CurrentNetValue \in Int /\ portfolio.reserve \in Nat
  BY <1>4, <1>5, WorthIsAmount, PortfolioTypes DEF IInv, Untouched, Traded
<1>8. given \in Int /\ (g # Root => given >= 0) /\ (g = Root => given = CurrentNetValue - portfolio.reserve)
  <2>1. g # Root => g \in Node
    BY Nodes
  <2> QED BY <1>1, <1>4, <1>7, <2>1 DEF IInv, NoDebt
<1> HIDE DEF given
<1>9. \A n \in Members(g) : v[n] \in Int /\ v[n] >= min[n] /\ v[n] >= 0
  <2> TAKE n \in Members(g)
  <2>1. n \in Node /\ min[n] \in Nat /\ max[n] \in Nat \cup {NoLimit}
    BY <1>2, <1>4
  <2> QED BY <1>3, <1>4, <1>8, <2>1, OpeningOfGroup
<1>10. \A s \in Stock : s \in Members(g) => Allowed(s, v[s])
  <2> SUFFICES ASSUME NEW s \in Stock, s \in Members(g)
               PROVE  Allowed(s, v[s])
    OBVIOUS
  <2>1. min[s] = MinValue(s) /\ max[s] = MaxValue(s)
    BY <1>6, Nodes
  <2>2. given >= 0 \/ (s \in Members(Root) /\ CurrentNetValue < portfolio.reserve)
    BY <1>7, <1>8
  <2>3. v[s] = Within(s, Rounded(s, Expected(given, s)))
    BY <1>3
  <2> QED BY <1>4, <1>8, <2>1, <2>2, <2>3, OpeningMakesAllowed
<1>11. /\ Summable(e, Members(g)) /\ SumFunctionOnSet(e, Members(g)) <= given
  <2>1. \A n \in Members(g) : e[n] = Expected(given, n)
    OBVIOUS
  <2> HIDE DEF e
  <2> QED BY <1>4, <1>8, <2>1, ExpectedInAll
<1>12. \A n \in Members(g) : unspent[n] = e[n] - v[n]
  OBVIOUS
<1> HIDE DEF v, e, unspent
<1>13. /\ Summable(v, Members(g)) /\ Summable(unspent, Members(g))
       /\ SumFunctionOnSet(e, Members(g))
            = SumFunctionOnSet(v, Members(g)) + SumFunctionOnSet(unspent, Members(g))
  <2>1. IsFiniteSet(Members(g))
    BY Nodes
  <2>2. Summable(v, Members(g)) /\ Summable(unspent, Members(g))
    BY <1>9, <1>11, <1>12, <2>1 DEF Summable
  <2>3. \A n \in Members(g) : e[n] = v[n] + unspent[n]
    BY <1>9, <1>11, <1>12 DEF Summable
  <2> QED BY ONLY <2>2, <2>3, SumPlus
<1>14. \A h \in Group : h # g => Members(h) \cap Members(g) = {}
  BY RebalancingAssumption
<1>15. Types'
  <2>1. SumFunctionOnSet(unspent, Members(g)) \in Int
    BY <1>13, SumInteger
  <2>2. target' \in [Node -> Int]
    BY <1>3, <1>4, <1>9
  <2>3. balance' \in [Group -> Int]
    BY <1>3, <1>4, <2>1 DEF Sum
  <2>4. stage' \in [Group -> Stages] /\ total' \in [Group -> Int]
    BY <1>1, <1>4, <1>8 DEF Stages
  <2> QED BY <1>1, <2>2, <2>3, <2>4 DEF IInv, Types
<1>16. LimitsFound' /\ Untouched' /\ Accounts'
  <2>1. LimitsFound'
    BY <1>1, <1>6, Static DEF LimitsFound
  <2>2. Untouched'
    BY <1>1, Static DEF IInv, Untouched
  <2>3. Accounts'
    BY <1>1, <1>5 DEF Accounts, Traded
  <2> QED BY <2>1, <2>2, <2>3
<1>17. DepthFirst'
  <2>1. \A h \in Group : stage'[h] = IF h = g THEN "selling" ELSE stage[h]
    BY <1>1, <1>4
  <2>2. ASSUME NEW h \in Group \ {Root}, stage'[h] # "waiting"
        PROVE  stage'[Parent(h)] \in {"nested", "done"}
    <3>1. Parent(h) \in Group
      BY Nodes, ParentOf
    <3>2. stage[Parent(h)] \in {"nested", "done"}
      BY <1>5, <2>1, <2>2 DEF IInv, DepthFirst
    <3> QED BY <1>1, <2>1, <3>1, <3>2
  <2>3. ASSUME NEW h \in Group, NEW k \in Group, stage'[h] = "done", k \in Members(h)
        PROVE  stage'[k] = "done"
    <3>1. stage[h] = "done"
      BY <2>1, <2>3
    <3>2. stage[k] = "done"
      BY <2>3, <3>1 DEF IInv, DepthFirst
    <3> QED BY <1>1, <2>1, <3>2
  <2>4. phase' = "groups" /\ stage'[Root] # "done"
    BY <1>1, <1>5, <2>1, RebalancingAssumption
  <2> QED BY <2>2, <2>3, <2>4 DEF DepthFirst
<1>18. NoDebt'
  <2> SUFFICES ASSUME NEW h \in Group \ {Root}, stage'[h] = "waiting"
               PROVE  target'[h] >= 0
    BY DEF NoDebt
  <2>1. h \in Node /\ stage[h] = "waiting"
    BY <1>1, <1>4, Nodes
  <2> QED BY <1>3, <1>9, <2>1 DEF IInv, NoDebt
<1>19. OrdersMayBe'
  <2> SUFFICES ASSUME NEW h \in Group, NEW s \in Stock, stage'[h] # "waiting", s \in Members(h)
               PROVE  Allowed(s, target'[s])
    BY <1>1, Static DEF OrdersMayBe
  <2>1. s \in Node
    BY Nodes
  <2>2. CASE h = g
    BY <1>3, <1>10, <2>1, <2>2
  <2>3. CASE h # g
    <3>1. stage[h] # "waiting" /\ s \notin Members(g)
      BY <1>1, <1>4, <1>14, <2>3
    <3> QED BY <1>3, <2>1, <3>1 DEF IInv, OrdersMayBe
  <2> QED BY <2>2, <2>3
<1>20. NothingToSpend'
  <2> SUFFICES ASSUME CurrentNetValue < portfolio.reserve,
                      stage'[Root] \in {"selling", "buying", "nested"}
               PROVE  Sum(target', Members(Root)) + balance'[Root] < 0
    BY <1>1, Static DEF NothingToSpend
  <2>1. Root \in Group /\ Members(Root) \subseteq Node
    BY RebalancingAssumption, Nodes
  <2>2. CASE g = Root
    <3>1. SumFunctionOnSet(target', Members(Root)) = SumFunctionOnSet(v, Members(Root))
      <4>1. \A n \in Members(Root) : target'[n] = v[n]
        BY <1>2, <1>3, <2>2
      <4>2. Summable(v, Members(Root))
        BY <1>13, <2>2
      <4> QED BY ONLY <4>1, <4>2, SumSame
    <3>2. balance'[Root] = SumFunctionOnSet(unspent, Members(Root))
      BY <1>3, <1>4, <2>1, <2>2 DEF Sum
    <3>3. SumFunctionOnSet(e, Members(Root)) < 0
      <4>1. SumFunctionOnSet(e, Members(Root)) \in Int
        BY <1>11, <2>2, SumInteger
      <4> QED BY <1>7, <1>8, <1>11, <2>2, <4>1
    <3> QED BY <1>13, <2>2, <3>1, <3>2, <3>3 DEF Sum
  <2>3. CASE g # Root
    <3>1. \A n \in Members(Root) : target'[n] = target[n]
      BY <1>3, <1>14, <2>1, <2>3
    <3>2. Summable(target, Members(Root))
      BY <1>4, <2>1, Nodes DEF Summable
    <3>3. SumFunctionOnSet(target', Members(Root)) = SumFunctionOnSet(target, Members(Root))
      BY ONLY <3>1, <3>2, SumSame
    <3>4. balance'[Root] = balance[Root] /\ stage'[Root] = stage[Root]
      BY <1>1, <1>3, <1>4, <2>1, <2>3
    <3> QED BY <3>3, <3>4 DEF IInv, NothingToSpend, Sum
  <2> QED BY <2>2, <2>3
<1> QED BY <1>15, <1>16, <1>17, <1>18, <1>19, <1>20 DEF IInv

(* A set of targets adds up, and one that grows adds so much to it.         *)
LEMMA TargetsAddUp ==
  ASSUME target \in [Node -> Int], NEW S \in SUBSET Node
  PROVE  Summable(target, S)
<1>1. IsFiniteSet(S)
  BY Nodes, FS_Subset
<1> QED BY <1>1 DEF Summable

(* In a portfolio worth less than its reserve no trade of the groups buys   *)
(* what lies beside them.                                                   *)
LEMMA NothingBought ==
  ASSUME IInv, NEW g \in Group, stage[g] = "buying", balance[g] >= 0,
         NEW s \in Stock, s \in Members(g)
  PROVE  ~Gone(s, target[s])
<1> SUFFICES ASSUME Gone(s, target[s]) PROVE FALSE
  OBVIOUS
<1>1. g = Root /\ CurrentNetValue < portfolio.reserve
  BY RebalancingAssumption DEF Gone
<1>2. /\ target \in [Node -> Int] /\ balance \in [Group -> Int] /\ Root \in Group
      /\ Members(Root) \in SUBSET Node /\ IsFiniteSet(Members(Root))
  BY Nodes, RebalancingAssumption DEF IInv, Types
<1>3. \A n \in Members(Root) : target[n] \in Nat
  <2> TAKE n \in Members(Root)
  <2>1. target[n] \in Int /\ n \in Stock \cup (Group \ {Root})
    BY <1>2, Nodes
  <2>2. CASE n \in Stock
    <3>1. Allowed(n, target[n])
      BY <1>1, <2>2 DEF IInv, OrdersMayBe
    <3> QED BY <2>2, <3>1, AllowedIsAmount
  <2>3. CASE n \in Group \ {Root}
    <3>1. Parent(n) = Root
      BY <1>2, <2>3, ParentOf
    <3>2. stage[n] = "waiting"
      BY <1>1, <2>3, <3>1 DEF IInv, DepthFirst
    <3> QED BY <2>1, <2>3, <3>2 DEF IInv, NoDebt
  <2> QED BY <2>1, <2>2, <2>3
<1>4. SumFunctionOnSet(target, Members(Root)) \in Nat
  BY <1>2, <1>3, SumNatural
<1>5. Sum(target, Members(Root)) + balance[Root] < 0
  BY <1>1 DEF IInv, NothingToSpend
<1> QED BY <1>1, <1>2, <1>4, <1>5 DEF Sum

(* A trade within a group.                                                  *)
LEMMA CorrectBalanceKeeps ==
  ASSUME IInv, NEW g \in Group, CorrectBalance(g)
  PROVE  IInv'
<1>1. /\ stage[g] \in {"selling", "buying"} /\ Unbalanced(g)
      /\ UNCHANGED <<portfolio, phase, min, max, stage, total, shares, cash, net, commissions,
                     daily>>
  BY DEF CorrectBalance, money
<1>2. PICK t \in Best(Type(g), GroupTrades(g)) :
        /\ target' = [target EXCEPT ![t.on] = @ + t.volume]
        /\ balance' = [balance EXCEPT ![g] = @ - t.volume]
  BY DEF CorrectBalance
<1>3. PICK n \in Members(g) :
        t \in PossibleTrades(Type(g), n, Expected(total[g], n), balance[g])
  BY DEF Best, GroupTrades
<1>4. /\ portfolio \in Portfolios /\ target \in [Node -> Int] /\ shares \in [Stock -> Nat]
      /\ min \in [Node -> Nat] /\ max \in [Node -> Nat \cup {NoLimit}]
      /\ stage \in [Group -> Stages] /\ balance \in [Group -> Int] /\ n \in Node
      /\ Type(g) \in {"sell", "buy"} /\ (Type(g) = "buy" <=> stage[g] = "buying")
  BY <1>1, Nodes DEF IInv, Types, Type
<1>5. phase = "groups" /\ stage[Root] # "done"
  BY <1>1, GroupsWork
<1>6. /\ t.on = n /\ t.volume \in Int
      /\ Type(g) = "sell" => t.volume < 0 /\ target[n] + t.volume >= min[n]
      /\ Type(g) = "buy" => t.volume > 0
  <2>1. min[n] \in Nat /\ target[n] \in Int
    BY <1>4
  <2> QED BY <1>3, <1>4, <2>1, TradeKeepsLimits
<1>7. /\ \A m \in Node : target'[m] = IF m = n THEN target[n] + t.volume ELSE target[m]
      /\ \A h \in Group : balance'[h] = IF h = g THEN balance[g] - t.volume ELSE balance[h]
      /\ target' \in [Node -> Int] /\ balance' \in [Group -> Int]
  BY <1>2, <1>4, <1>6
<1>8. \A h \in Group : h # g => n \notin Members(h)
  BY RebalancingAssumption
<1>9. Types'
  BY <1>1, <1>7 DEF IInv, Types
<1>10. LimitsFound' /\ DepthFirst' /\ Untouched' /\ Accounts'
  <2>1. LimitsFound'
    BY <1>1, Static DEF IInv, LimitsFound
  <2>2. DepthFirst'
    BY <1>1 DEF IInv, DepthFirst
  <2>3. Untouched'
    BY <1>1, Static DEF IInv, Untouched
  <2>4. Accounts'
    BY <1>1, <1>5 DEF Accounts, Traded
  <2> QED BY <2>1, <2>2, <2>3, <2>4
<1>11. NoDebt'
  <2> SUFFICES ASSUME NEW h \in Group \ {Root}, stage[h] = "waiting"
               PROVE  target'[h] >= 0
    BY <1>1 DEF NoDebt
  <2>1. h \in Node /\ target[h] >= 0 /\ target[h] \in Int /\ min[n] \in Nat
    BY <1>4, Nodes DEF IInv, NoDebt
  <2> QED BY <1>4, <1>6, <1>7, <2>1
<1>12. OrdersMayBe'
  <2> SUFFICES ASSUME NEW h \in Group, NEW s \in Stock, stage[h] # "waiting", s \in Members(h)
               PROVE  Allowed(s, target'[s])
    BY <1>1, Static DEF OrdersMayBe
  <2>1. s \in Node /\ Allowed(s, target[s])
    BY Nodes DEF IInv, OrdersMayBe
  <2>2. CASE s = n
    <3>1. h = g
      BY <1>8, <2>2
    <3>2. min[s] = MinValue(s) /\ max[s] = MaxValue(s)
      BY <1>5, <2>1 DEF IInv, LimitsFound
    <3>3. Agree(s)
      BY <1>5 DEF IInv, Untouched, Traded, Agree
    <3>4. Type(g) = "buy" => ~Gone(s, target[s])
      <4>1. stage[g] = "buying" => balance[g] >= 0
        BY <1>1 DEF Unbalanced
      <4> QED BY <1>4, <2>2, <4>1, NothingBought
    <3>5. Allowed(s, target[s] + t.volume)
      BY <1>3, <1>4, <2>1, <2>2, <3>2, <3>3, <3>4, TradeMakesAllowed
    <3> QED BY <1>7, <2>1, <2>2, <3>5
  <2>3. CASE s # n
    BY <1>7, <2>1, <2>3
  <2> QED BY <2>2, <2>3
<1>13. NothingToSpend'
  <2> SUFFICES ASSUME CurrentNetValue < portfolio.reserve,
                      stage[Root] \in {"selling", "buying", "nested"}
               PROVE  Sum(target', Members(Root)) + balance'[Root] < 0
    BY <1>1, Static DEF NothingToSpend
  <2>1. /\ Root \in Group /\ Members(Root) \in SUBSET Node
        /\ Summable(target, Members(Root))
        /\ SumFunctionOnSet(target, Members(Root)) + balance[Root] < 0
    BY <1>4, RebalancingAssumption, Nodes, TargetsAddUp DEF IInv, NothingToSpend, Sum
  <2>2. CASE g = Root
    <3>1. n \in Members(Root) /\ target'[n] \in Int
          /\ \A m \in Members(Root) \ {n} : target'[m] = target[m]
      BY <1>4, <1>7, <2>1, <2>2
    <3>2. SumFunctionOnSet(target', Members(Root))
            = SumFunctionOnSet(target, Members(Root)) - target[n] + target'[n]
      BY ONLY <2>1, <3>1, SumChange
    <3>3. SumFunctionOnSet(target, Members(Root)) \in Int /\ target[n] \in Int
      BY <1>4, <2>1, SumInteger
    <3> QED BY <1>4, <1>6, <1>7, <2>1, <2>2, <3>2, <3>3 DEF Sum
  <2>3. CASE g # Root
    <3>1. \A m \in Members(Root) : target'[m] = target[m]
      BY <1>7, <1>8, <2>1, <2>3
    <3>2. SumFunctionOnSet(target', Members(Root)) = SumFunctionOnSet(target, Members(Root))
      BY ONLY <2>1, <3>1, SumSame
    <3> QED BY <1>7, <2>1, <2>3, <3>2 DEF Sum
  <2> QED BY <2>2, <2>3
<1> QED BY <1>9, <1>10, <1>11, <1>12, <1>13 DEF IInv

(* A group that has sold buys, and one that has bought opens the groups in  *)
(* it.                                                                      *)
LEMMA CorrectedKeeps ==
  ASSUME IInv, NEW g \in Group, Corrected(g)
  PROVE  IInv'
<1>1. /\ stage[g] \in {"selling", "buying"}
      /\ stage' = [stage EXCEPT ![g] = IF @ = "selling" THEN "buying" ELSE "nested"]
      /\ UNCHANGED <<portfolio, phase, min, max, total, balance, target, shares, cash, net,
                     commissions, daily>>
  BY DEF Corrected, money
<1>2. stage \in [Group -> Stages] /\ phase = "groups" /\ stage[Root] # "done"
  BY <1>1, GroupsWork DEF IInv, Types
<1>3. \A h \in Group : stage'[h] = IF h = g THEN IF stage[g] = "selling" THEN "buying" ELSE "nested"
                                   ELSE stage[h]
  BY <1>1, <1>2
<1>4. Types'
  <2>1. stage' \in [Group -> Stages]
    BY <1>1, <1>2 DEF Stages
  <2> QED BY <1>1, <2>1 DEF IInv, Types
<1>5. LimitsFound' /\ Untouched' /\ Accounts'
  <2>1. LimitsFound'
    BY <1>1, Static DEF IInv, LimitsFound
  <2>2. Untouched'
    BY <1>1, Static DEF IInv, Untouched
  <2>3. Accounts'
    BY <1>1, <1>2 DEF Accounts, Traded
  <2> QED BY <2>1, <2>2, <2>3
<1>6. DepthFirst'
  <2>1. ASSUME NEW h \in Group \ {Root}, stage'[h] # "waiting"
        PROVE  stage'[Parent(h)] \in {"nested", "done"}
    <3>1. Parent(h) \in Group
      BY Nodes, ParentOf
    <3>2. stage[Parent(h)] \in {"nested", "done"}
      BY <1>1, <1>3, <2>1 DEF IInv, DepthFirst
    <3> QED BY <1>1, <1>3, <3>1, <3>2
  <2>2. ASSUME NEW h \in Group, NEW k \in Group, stage'[h] = "done", k \in Members(h)
        PROVE  stage'[k] = "done"
    <3>1. stage[h] = "done"
      BY <1>3, <2>2
    <3>2. stage[k] = "done"
      BY <2>2, <3>1 DEF IInv, DepthFirst
    <3> QED BY <1>1, <1>3, <3>2
  <2>3. phase' = "groups" /\ stage'[Root] # "done"
    BY <1>1, <1>2, <1>3, RebalancingAssumption
  <2> QED BY <2>1, <2>2, <2>3 DEF DepthFirst
<1>7. NoDebt'
  BY <1>1, <1>3 DEF IInv, NoDebt
<1>8. OrdersMayBe'
  <2> SUFFICES ASSUME NEW h \in Group, NEW s \in Stock, stage'[h] # "waiting", s \in Members(h)
               PROVE  Allowed(s, target[s])
    BY <1>1, Static DEF OrdersMayBe
  <2>1. stage[h] # "waiting"
    BY <1>1, <1>3
  <2> QED BY <2>1 DEF IInv, OrdersMayBe
<1>9. NothingToSpend'
  <2> SUFFICES ASSUME CurrentNetValue < portfolio.reserve,
                      stage'[Root] \in {"selling", "buying", "nested"}
               PROVE  Sum(target, Members(Root)) + balance[Root] < 0
    BY <1>1, Static DEF NothingToSpend
  <2>1. stage[Root] \in {"selling", "buying", "nested"}
    BY <1>1, <1>3, RebalancingAssumption
  <2> QED BY <2>1 DEF IInv, NothingToSpend
<1> QED BY <1>4, <1>5, <1>6, <1>7, <1>8, <1>9 DEF IInv

(* What a group could not spend returns to its parent.                      *)
LEMMA CloseGroupKeeps ==
  ASSUME IInv, NEW g \in Group, CloseGroup(g)
  PROVE  IInv'
<1>1. /\ stage[g] = "nested" /\ \A h \in Members(g) \cap Group : stage[h] = "done"
      /\ stage' = [stage EXCEPT ![g] = "done"]
      /\ g = Root => phase' = "result" /\ UNCHANGED <<target, balance>>
      /\ g # Root => /\ phase' = phase /\ target' = [target EXCEPT ![g] = @ - balance[g]]
                     /\ balance' = [balance EXCEPT ![Parent(g)] = @ + balance[g]]
      /\ UNCHANGED <<portfolio, min, max, total, shares, cash, net, commissions, daily>>
  BY DEF CloseGroup, Returned, money
<1>2. /\ portfolio \in Portfolios /\ phase = "groups" /\ stage[Root] # "done"
      /\ stage \in [Group -> Stages]
      /\ target \in [Node -> Int] /\ balance \in [Group -> Int] /\ Root \in Group
  BY <1>1, GroupsWork, RebalancingAssumption DEF IInv, Types
<1>3. \A h \in Group : stage'[h] = IF h = g THEN "done" ELSE stage[h]
  BY <1>1, <1>2
<1>4. ASSUME g # Root
      PROVE  /\ g \in Node /\ g \notin Stock /\ Parent(g) \in Group
             /\ target' \in [Node -> Int] /\ balance' \in [Group -> Int]
             /\ \A n \in Node : target'[n] = IF n = g THEN target[g] - balance[g] ELSE target[n]
             /\ \A h \in Group : balance'[h] = IF h = Parent(g) THEN balance[h] + balance[g]
                                               ELSE balance[h]
  <2>1. g \in Node /\ g \notin Stock /\ Parent(g) \in Group
    BY <1>4, Nodes, ParentOf, RebalancingAssumption
  <2> QED BY <1>1, <1>2, <1>4, <2>1
<1>5. Types'
  <2>1. stage' \in [Group -> Stages]
    BY <1>1, <1>2 DEF Stages
  <2>2. target' \in [Node -> Int] /\ balance' \in [Group -> Int]
    BY <1>1, <1>2, <1>4
  <2>3. phase' \in Phases
    BY <1>1, <1>2 DEF Phases
  <2> QED BY <1>1, <2>1, <2>2, <2>3 DEF IInv, Types
<1>6. LimitsFound'
  BY <1>1, <1>2, Static DEF IInv, LimitsFound
<1>7. Untouched'
  BY <1>1, <1>2, Static DEF IInv, Untouched, Traded
<1>8. Accounts'
  BY <1>1, <1>2 DEF Accounts, Traded
<1>9. DepthFirst'
  <2>1. ASSUME NEW h \in Group \ {Root}, stage'[h] # "waiting"
        PROVE  stage'[Parent(h)] \in {"nested", "done"}
    <3>1. Parent(h) \in Group
      BY Nodes, ParentOf
    <3>2. stage[Parent(h)] \in {"nested", "done"}
      BY <1>1, <1>3, <2>1 DEF IInv, DepthFirst
    <3> QED BY <1>3, <3>1, <3>2
  <2>2. ASSUME NEW h \in Group, NEW k \in Group, stage'[h] = "done", k \in Members(h)
        PROVE  stage'[k] = "done"
    <3>1. CASE h = g
      BY <1>1, <1>3, <2>2, <3>1
    <3>2. CASE h # g
      <4>1. stage[h] = "done"
        BY <1>3, <2>2, <3>2
      <4>2. stage[k] = "done"
        BY <2>2, <4>1 DEF IInv, DepthFirst
      <4> QED BY <1>3, <4>2
    <3> QED BY <3>1, <3>2
  <2>3. phase' \in {"groups", "result"} /\ (phase' = "result" <=> stage'[Root] = "done")
    BY <1>1, <1>2, <1>3
  <2> QED BY <2>1, <2>2, <2>3 DEF DepthFirst
<1>10. NoDebt'
  <2> SUFFICES ASSUME NEW h \in Group \ {Root}, stage'[h] = "waiting"
               PROVE  target'[h] >= 0
    BY DEF NoDebt
  <2>1. h \in Node /\ h # g /\ target[h] >= 0
    BY <1>3, Nodes DEF IInv, NoDebt
  <2> QED BY <1>1, <1>4, <2>1
<1>11. OrdersMayBe'
  <2> SUFFICES ASSUME NEW h \in Group, NEW s \in Stock, stage'[h] # "waiting", s \in Members(h)
               PROVE  Allowed(s, target'[s])
    BY <1>1, Static DEF OrdersMayBe
  <2>1. stage[h] # "waiting"
    BY <1>1, <1>3
  <2>2. s \in Node /\ Allowed(s, target[s])
    BY <2>1, Nodes DEF IInv, OrdersMayBe
  <2>3. target'[s] = target[s]
    <3>1. CASE g = Root
      BY <1>1, <3>1
    <3>2. CASE g # Root
      BY <1>4, <2>2, <3>2
    <3> QED BY <3>1, <3>2
  <2> QED BY <2>2, <2>3
<1>12. NothingToSpend'
  <2> SUFFICES ASSUME CurrentNetValue < portfolio.reserve,
                      stage'[Root] \in {"selling", "buying", "nested"}
               PROVE  Sum(target', Members(Root)) + balance'[Root] < 0
    BY <1>1, Static DEF NothingToSpend
  <2>1. g # Root /\ stage[Root] = stage'[Root]
    BY <1>2, <1>3
  <2>2. /\ Members(Root) \in SUBSET Node /\ Summable(target, Members(Root))
        /\ SumFunctionOnSet(target, Members(Root)) + balance[Root] < 0
        /\ SumFunctionOnSet(target, Members(Root)) \in Int
    <3>1. Members(Root) \in SUBSET Node /\ Summable(target, Members(Root))
      BY <1>2, Nodes, TargetsAddUp
    <3> QED BY <2>1, <3>1, SumInteger DEF IInv, NothingToSpend, Sum
  <2>3. CASE Parent(g) = Root
    <3>1. g \in Members(Root) /\ target'[g] \in Int
          /\ \A m \in Members(Root) \ {g} : target'[m] = target[m]
      BY <1>4, <2>1, <2>2, <2>3, ParentOf
    <3>2. SumFunctionOnSet(target', Members(Root))
            = SumFunctionOnSet(target, Members(Root)) - target[g] + target'[g]
      BY ONLY <2>2, <3>1, SumChange
    <3> QED BY <1>2, <1>4, <2>1, <2>2, <2>3, <3>2 DEF Sum
  <2>4. CASE Parent(g) # Root
    <3>1. g \notin Members(Root)
      BY <1>2, <1>4, <2>1, <2>4, ParentOf
    <3>2. \A m \in Members(Root) : target'[m] = target[m]
      BY <1>4, <2>1, <2>2, <3>1
    <3>3. SumFunctionOnSet(target', Members(Root)) = SumFunctionOnSet(target, Members(Root))
      BY ONLY <2>2, <3>2, SumSame
    <3> QED BY <1>2, <1>4, <2>1, <2>2, <2>4, <3>3 DEF Sum
  <2> QED BY <2>3, <2>4
<1> QED BY <1>5, <1>6, <1>7, <1>8, <1>9, <1>10, <1>11, <1>12 DEF IInv

(* After the groups every stock has an order that may be.                   *)
LEMMA AllAllowed ==
  ASSUME IInv, phase \in {"result"} \cup Traded, NEW s \in Stock
  PROVE  Allowed(s, target[s])
<1>1. stage[Root] = "done"
  BY DEF IInv, DepthFirst, Traded
<1>2. Parent(s) \in Group /\ s \in Members(Parent(s))
  BY Nodes, ParentOf
<1>3. stage[Parent(s)] # "waiting"
  BY <1>1, <1>2, AllDone
<1> QED BY <1>2, <1>3 DEF IInv, OrdersMayBe

(* The groups are done, and nothing is said of them any more.               *)
LEMMA GroupsStayDone ==
  ASSUME IInv, phase \notin {"restrictions", "panicked", "groups"},
         phase' \notin {"restrictions", "panicked", "groups"},
         UNCHANGED <<portfolio, min, max, stage>>
  PROVE  LimitsFound' /\ DepthFirst' /\ NoDebt' /\ NothingToSpend'
<1>1. stage[Root] = "done" /\ Root \in Group
  BY RebalancingAssumption DEF IInv, DepthFirst
<1>2. \A g \in Group : stage[g] = "done"
  BY <1>1, AllDone
<1>3. LimitsFound'
  BY Static DEF IInv, LimitsFound
<1>4. DepthFirst'
  <2>1. \A g \in Group \ {Root} : Parent(g) \in Group
    BY Nodes, ParentOf
  <2> QED BY <1>1, <1>2, <2>1 DEF DepthFirst
<1>5. NoDebt' /\ NothingToSpend'
  BY <1>1, <1>2 DEF NoDebt, NothingToSpend
<1> QED BY <1>3, <1>4, <1>5

(* The additional commissions are an amount.                                *)
LEMMA AdditionalIsAmount ==
  ASSUME NEW now
  PROVE  Additional(now) \in Nat
  BY RebalancingAssumption DEF Additional

(* The orders are what the targets come to.                                 *)
LEMMA CalculateResultKeeps ==
  ASSUME IInv, CalculateResult
  PROVE  IInv'
<1> DEFINE fees == [s \in Stock |-> Commission(s, shares'[s])]
<1>1. /\ phase = "result" /\ phase' = "sell"
      /\ shares' = [s \in Stock |-> SharesOf(s, target[s])]
      /\ daily' = Additional(shares')
      /\ commissions' = SumFunctionOnSet(fees, Stock) + daily'
      /\ net' = net - commissions'
      /\ cash' = net - SumFunctionOnSet(target, Stock) - commissions'
      /\ UNCHANGED <<portfolio, min, max, stage, total, balance, target>>
  BY DEF CalculateResult, tree, Sum
<1>2. /\ portfolio \in Portfolios /\ target \in [Node -> Int] /\ net = CurrentNetValue
      /\ net \in Int
  BY <1>1 DEF IInv, Types, Untouched, Traded
<1>3. ASSUME NEW s \in Stock
      PROVE  shares'[s] \in Nat /\ target[s] = shares'[s] * Lot(s)
  <2>1. PICK k \in Nat : target[s] = k * Lot(s)
    BY <1>1, AllAllowed DEF Allowed, InLots
  <2>2. SharesOf(s, k * Lot(s)) = k
    BY LotsAndShares
  <2>3. shares'[s] = k
    BY <1>1, <2>1, <2>2
  <2> QED BY <2>1, <2>3
<1>4. shares' \in [Stock -> Nat]
  BY <1>1, <1>3
<1>5. daily' \in Nat
  BY <1>1, AdditionalIsAmount
<1>6. SumFunctionOnSet(fees, Stock) \in Nat
  <2>1. \A s \in Stock : fees[s] \in Nat
    BY <1>2, <1>3, CommissionIsAmount
  <2> HIDE DEF fees
  <2> QED BY <2>1, Nodes, SumNatural
<1>7. SumFunctionOnSet(target, Stock) \in Int
  BY <1>2, Nodes, TargetsAddUp, SumInteger
<1>8. PaidFor' = fees
  BY <1>1, Static DEF PaidFor
<1> HIDE DEF fees
<1>9. commissions' \in Int /\ net' \in Int /\ cash' \in Int
  BY <1>1, <1>2, <1>5, <1>6, <1>7
<1>10. Types'
  BY <1>1, <1>4, <1>5, <1>9 DEF IInv, Types, Phases
<1>11. LimitsFound' /\ DepthFirst' /\ NoDebt' /\ NothingToSpend'
  BY <1>1, GroupsStayDone
<1>12. Untouched'
  BY <1>1 DEF Untouched, Traded
<1>13. OrdersMayBe'
  BY <1>1, AllAllowed, Static DEF OrdersMayBe
<1>14. Accounts'
  <2>1. cash' + SumFunctionOnSet(target, Stock) = net' /\ net' + commissions' = CurrentNetValue
    BY <1>1, <1>2, <1>7, <1>9
  <2>2. commissions' = SumFunctionOnSet(PaidFor', Stock) + daily'
    BY <1>1, <1>8
  <2>3. CurrentNetValue' = CurrentNetValue
    BY <1>1, Static
  <2> QED BY <1>1, <1>3, <2>1, <2>2, <2>3 DEF Accounts, Sum
<1> QED BY <1>10, <1>11, <1>12, <1>13, <1>14 DEF IInv

(* With orders there are, what is left and what is paid never is more than  *)
(* the portfolio's worth.                                                   *)
LEMMA CashWithinWorth ==
  ASSUME IInv, phase \in Traded
  PROVE  cash <= CurrentNetValue
<1>1. /\ portfolio \in Portfolios /\ target \in [Node -> Int] /\ shares \in [Stock -> Nat]
      /\ cash \in Int /\ net \in Int /\ daily \in Nat /\ commissions \in Int
      /\ CurrentNetValue \in Int
  BY WorthIsAmount DEF IInv, Types
<1>2. SumFunctionOnSet(target, Stock) \in Nat
  <2>1. \A s \in Stock : target[s] \in Nat
    BY AllAllowed, AllowedIsAmount
  <2> QED BY <2>1, Nodes, SumNatural
<1>3. SumFunctionOnSet(PaidFor, Stock) \in Nat
  <2>1. \A s \in Stock : PaidFor[s] \in Nat
    BY <1>1, CommissionIsAmount DEF PaidFor
  <2> QED BY <2>1, Nodes, SumNatural
<1>4. /\ cash + SumFunctionOnSet(target, Stock) = net /\ net + commissions = CurrentNetValue
      /\ commissions = SumFunctionOnSet(PaidFor, Stock) + daily
  BY DEF IInv, Accounts, Sum
<1> QED BY <1>1, <1>2, <1>3, <1>4

(* A trade of the whole tree.                                               *)
LEMMA DistributeCashKeeps ==
  ASSUME IInv, DistributeCash
  PROVE  IInv'
<1>1. /\ phase \in {"sell", "buy"} /\ phase \in Traded /\ Wanted(phase)
      /\ UNCHANGED <<portfolio, phase, min, max, stage, total, balance, daily>>
  BY DEF DistributeCash, tree, Traded
<1>2. PICK t \in DistributionTrades(phase) :
        LET s == t.on
            now == SharesOf(s, target[s] + t.volume)
            fee == Commission(s, now) - Commission(s, shares[s])
        IN  /\ target' = [n \in Node |-> IF n \in {s} \cup Above[s] THEN target[n] + t.volume
                                                                    ELSE target[n]]
            /\ shares' = [shares EXCEPT ![s] = now]
            /\ cash' = cash - t.volume - fee
            /\ net' = net - fee
            /\ commissions' = commissions + fee
  BY DEF DistributeCash
<1>3. PICK s \in Stock : t \in StockTrades(phase, s)
  BY <1>2 DEF DistributionTrades
<1>4. t \in PossibleTrades(phase, s, DistributionExpected[s], cash - portfolio.reserve)
  BY <1>3 DEF StockTrades
<1>5. /\ portfolio \in Portfolios /\ target \in [Node -> Int] /\ shares \in [Stock -> Nat]
      /\ min \in [Node -> Nat] /\ cash \in Int /\ net \in Int /\ commissions \in Int
      /\ s \in Node /\ Stock \subseteq Node
  BY Nodes DEF IInv, Types
<1>6. t.on = s /\ t.volume \in Int
  <2>1. target[s] \in Int /\ min[s] \in Nat
    BY <1>5
  <2> QED BY <1>1, <1>4, <1>5, <2>1, TradeKeepsLimits
<1>7. Allowed(s, target[s] + t.volume)
  <2>1. Allowed(s, target[s])
    BY <1>1, AllAllowed
  <2>2. min[s] = MinValue(s) /\ max[s] = MaxValue(s)
    BY <1>1, <1>5 DEF IInv, LimitsFound
  <2>3. Agree(s)
    BY <1>1 DEF IInv, Accounts, Agree
  <2>4. phase = "buy" => ~Gone(s, target[s])
    <3> SUFFICES ASSUME phase = "buy", CurrentNetValue < portfolio.reserve PROVE FALSE
      BY DEF Gone
    <3>1. cash >= portfolio.reserve
      BY <1>1 DEF Wanted
    <3>2. cash <= CurrentNetValue
      BY <1>1, CashWithinWorth
    <3> QED BY <1>5, <3>1, <3>2, WorthIsAmount, PortfolioTypes
  <2> QED BY <1>1, <1>4, <1>5, <2>1, <2>2, <2>3, <2>4, TradeMakesAllowed
<1>8. PICK k \in Nat : target[s] + t.volume = k * Lot(s)
  BY <1>7 DEF Allowed, InLots
<1>9. SharesOf(s, target[s] + t.volume) = k
  BY <1>8, LotsAndShares
<1> DEFINE fee == Commission(s, k) - Commission(s, shares[s])
<1>10. /\ target' = [n \in Node |-> IF n \in {s} \cup Above[s] THEN target[n] + t.volume
                                                                ELSE target[n]]
       /\ shares' = [shares EXCEPT ![s] = k]
       /\ cash' = cash - t.volume - fee /\ net' = net - fee /\ commissions' = commissions + fee
  BY <1>2, <1>6, <1>9
<1>11. Commission(s, k) \in Nat /\ Commission(s, shares[s]) \in Nat /\ fee \in Int
  BY <1>5, CommissionIsAmount
<1> HIDE DEF fee
<1>12. Above[s] \subseteq Group /\ Group \cap Stock = {}
  BY AboveIsClosed, RebalancingAssumption
<1>13. /\ target' \in [Node -> Int] /\ target'[s] = target[s] + t.volume
       /\ \A r \in Stock : r # s => target'[r] = target[r]
  BY <1>5, <1>6, <1>10, <1>12
<1>14. /\ shares' \in [Stock -> Nat] /\ shares'[s] = k
       /\ \A r \in Stock : r # s => shares'[r] = shares[r]
  BY <1>5, <1>10
<1>15. Types'
  <2>1. cash' \in Int /\ net' \in Int /\ commissions' \in Int
    BY <1>5, <1>6, <1>10, <1>11
  <2> QED BY <1>1, <1>13, <1>14, <2>1 DEF IInv, Types
<1>16. LimitsFound' /\ DepthFirst' /\ NoDebt' /\ NothingToSpend'
  BY <1>1, GroupsStayDone
<1>17. Untouched'
  BY <1>1 DEF Untouched
<1>18. \A r \in Stock : Allowed(r, target'[r])
  BY <1>1, <1>7, <1>13, AllAllowed
<1>19. OrdersMayBe'
  BY <1>1, <1>18, Static DEF OrdersMayBe
<1>20. Accounts'
  <2>1. \A r \in Stock : target'[r] = shares'[r] * Lot(r)
    BY <1>1, <1>8, <1>13, <1>14 DEF IInv, Accounts
  <2>2. /\ SumFunctionOnSet(target, Stock) \in Int
        /\ SumFunctionOnSet(target', Stock) = SumFunctionOnSet(target, Stock) + t.volume
    <3>1. Summable(target, Stock) /\ Stock \in SUBSET Node
      BY <1>5, TargetsAddUp
    <3>2. SumFunctionOnSet(target, Stock) \in Int
      BY <3>1, SumInteger
    <3>3. s \in Stock /\ target'[s] \in Int /\ \A r \in Stock \ {s} : target'[r] = target[r]
      BY <1>5, <1>13
    <3>4. SumFunctionOnSet(target', Stock)
            = SumFunctionOnSet(target, Stock) - target[s] + target'[s]
      BY ONLY <3>1, <3>3, SumChange
    <3> QED BY <1>5, <1>6, <1>13, <3>2, <3>4
  <2>3. /\ SumFunctionOnSet(PaidFor, Stock) \in Int
        /\ SumFunctionOnSet(PaidFor', Stock) = SumFunctionOnSet(PaidFor, Stock) + fee
    <3>1. /\ \A r \in Stock : PaidFor[r] = Commission(r, shares[r])
          /\ \A r \in Stock : PaidFor'[r] = Commission(r, shares'[r])
      BY <1>1, Static DEF PaidFor
    <3>2. Summable(PaidFor, Stock)
      <4>1. \A r \in Stock : PaidFor[r] \in Int
        BY <1>5, <3>1, CommissionIsAmount
      <4> QED BY <4>1, Nodes DEF Summable
    <3>3. s \in Stock /\ PaidFor'[s] \in Int /\ \A r \in Stock \ {s} : PaidFor'[r] = PaidFor[r]
      BY <1>11, <1>14, <3>1
    <3>4. SumFunctionOnSet(PaidFor', Stock)
            = SumFunctionOnSet(PaidFor, Stock) - PaidFor[s] + PaidFor'[s]
      BY ONLY <3>2, <3>3, SumChange
    <3>5. SumFunctionOnSet(PaidFor, Stock) \in Int
      BY <3>2, SumInteger
    <3>6. PaidFor[s] = Commission(s, shares[s]) /\ PaidFor'[s] = Commission(s, k)
      BY <1>14, <3>1
    <3> QED BY <1>11, <3>4, <3>5, <3>6 DEF fee
  <2>4. /\ cash + SumFunctionOnSet(target, Stock) = net /\ net + commissions = CurrentNetValue
        /\ commissions = SumFunctionOnSet(PaidFor, Stock) + daily
    BY <1>1 DEF IInv, Accounts, Sum
  <2>5. cash' + SumFunctionOnSet(target', Stock) = net' /\ net' + commissions' = CurrentNetValue
    BY <1>5, <1>6, <1>10, <1>11, <2>2, <2>4
  <2>6. commissions' = SumFunctionOnSet(PaidFor', Stock) + daily'
    <3>1. daily \in Nat
      BY DEF IInv, Types
    <3> QED BY <1>1, <1>10, <1>11, <2>3, <2>4, <3>1
  <2>7. CurrentNetValue' = CurrentNetValue
    BY <1>1, Static
  <2> QED BY <1>1, <2>1, <2>5, <2>6, <2>7 DEF Accounts, Sum
<1> QED BY <1>15, <1>16, <1>17, <1>19, <1>20 DEF IInv

(* What is not touched leaves the orders as they are.                       *)
LEMMA OrdersStay ==
  ASSUME IInv, phase \in Traded, phase' \in Traded,
         UNCHANGED <<portfolio, min, max, stage, total, balance, target, shares>>
  PROVE  LimitsFound' /\ DepthFirst' /\ NoDebt' /\ NothingToSpend' /\ OrdersMayBe' /\ Untouched'
<1>1. LimitsFound' /\ DepthFirst' /\ NoDebt' /\ NothingToSpend'
  BY GroupsStayDone DEF Traded
<1>2. OrdersMayBe'
  <2>1. \A s \in Stock : Allowed(s, target[s])
    BY AllAllowed
  <2> QED BY <2>1, Static DEF OrdersMayBe
<1>3. Untouched'
  BY DEF Untouched
<1> QED BY <1>1, <1>2, <1>3

(* A pass of trades ends when there is none that may be made.               *)
LEMMA DistributedKeeps ==
  ASSUME IInv, Distributed
  PROVE  IInv'
<1>1. /\ phase \in {"sell", "buy"} /\ phase' \in {"buy", "fees"}
      /\ phase \in Traded /\ phase' \in Traded
      /\ UNCHANGED <<portfolio, min, max, stage, total, balance, target, shares, cash, net,
                     commissions, daily>>
  BY DEF Distributed, tree, money, Traded
<1>2. LimitsFound' /\ DepthFirst' /\ NoDebt' /\ NothingToSpend' /\ OrdersMayBe' /\ Untouched'
  BY <1>1, OrdersStay
<1>3. Types'
  BY <1>1 DEF IInv, Types, Phases
<1>4. Accounts'
  <2>1. CurrentNetValue' = CurrentNetValue /\ PaidFor' = PaidFor
    BY <1>1, Static DEF PaidFor
  <2> QED BY <1>1, <2>1 DEF IInv, Accounts
<1> QED BY <1>2, <1>3, <1>4 DEF IInv

(* The additional commissions are charged once more, or given back.         *)
LEMMA ChargeAdditionalKeeps ==
  ASSUME IInv, ChargeAdditional
  PROVE  IInv'
<1>1. /\ phase \in Traded /\ phase' = "done" /\ phase' \in Traded
      /\ daily' = Additional(shares) /\ commissions' = commissions + daily' - daily
      /\ net' = net - (daily' - daily) /\ cash' = cash - (daily' - daily)
      /\ UNCHANGED <<portfolio, min, max, stage, total, balance, target, shares>>
  BY DEF ChargeAdditional, tree, Traded
<1>2. LimitsFound' /\ DepthFirst' /\ NoDebt' /\ NothingToSpend' /\ OrdersMayBe' /\ Untouched'
  BY <1>1, OrdersStay
<1>3. /\ daily \in Nat /\ daily' \in Nat /\ commissions \in Int /\ net \in Int /\ cash \in Int
      /\ portfolio \in Portfolios /\ target \in [Node -> Int] /\ shares \in [Stock -> Nat]
  BY <1>1, AdditionalIsAmount DEF IInv, Types
<1>4. Types'
  <2>1. commissions' \in Int /\ net' \in Int /\ cash' \in Int
    BY <1>1, <1>3
  <2> QED BY <1>1, <1>3, <2>1 DEF IInv, Types, Phases
<1>5. Accounts'
  <2>1. /\ CurrentNetValue' = CurrentNetValue /\ PaidFor' = PaidFor
        /\ Sum(target', Stock) = Sum(target, Stock)
    BY <1>1, Static DEF PaidFor
  <2>2. Sum(target, Stock) \in Int /\ Sum(PaidFor, Stock) \in Int
    <3>1. Stock \in SUBSET Node /\ IsFiniteSet(Stock)
      BY Nodes
    <3>2. Summable(target, Stock)
      BY <1>3, <3>1, TargetsAddUp
    <3>3. \A r \in Stock : PaidFor[r] \in Int
      BY <1>3, CommissionIsAmount DEF PaidFor
    <3>4. Summable(PaidFor, Stock)
      BY <3>1, <3>3 DEF Summable
    <3> QED BY <3>2, <3>4, SumInteger DEF Sum
  <2>3. /\ cash + Sum(target, Stock) = net /\ net + commissions = CurrentNetValue
        /\ commissions = Sum(PaidFor, Stock) + daily
        /\ \A s \in Stock : target[s] = shares[s] * Lot(s)
    BY <1>1 DEF IInv, Accounts
  <2>4. /\ cash' + Sum(target, Stock) = net' /\ net' + commissions' = CurrentNetValue
        /\ commissions' = Sum(PaidFor, Stock) + daily'
    BY <1>1, <1>3, <2>2, <2>3
  <2> QED BY <1>1, <2>1, <2>3, <2>4 DEF Accounts
<1> QED BY <1>2, <1>4, <1>5 DEF IInv

(* Nothing happens any more, or to what the invariant speaks of.            *)
LEMMA StutterKeeps ==
  ASSUME IInv, UNCHANGED vars
  PROVE  IInv'
<1>1. UNCHANGED <<portfolio, phase, min, max, stage, total, balance, target, shares, cash, net,
                  commissions, daily>>
  BY DEF vars, tree, money
<1>2. Types' /\ DepthFirst' /\ NoDebt'
  BY <1>1 DEF IInv, Types, DepthFirst, NoDebt
<1>3. LimitsFound' /\ Untouched' /\ OrdersMayBe' /\ NothingToSpend'
  <2>1. LimitsFound' /\ Untouched'
    BY <1>1, Static DEF IInv, LimitsFound, Untouched
  <2>2. OrdersMayBe'
    BY <1>1, Static DEF IInv, OrdersMayBe
  <2>3. NothingToSpend'
    BY <1>1, Static DEF IInv, NothingToSpend
  <2> QED BY <2>1, <2>2, <2>3
<1>4. Accounts'
  <2>1. CurrentNetValue' = CurrentNetValue /\ PaidFor' = PaidFor
    BY <1>1, Static DEF PaidFor
  <2> QED BY <1>1, <2>1 DEF IInv, Accounts
<1> QED BY <1>2, <1>3, <1>4 DEF IInv

(* Every step keeps the invariant.                                          *)
LEMMA Inductive ==
  ASSUME IInv, [Next]_vars
  PROVE  IInv'
<1>1. CASE CalculateRestrictions
  BY <1>1, RestrictionsKeep
<1>2. CASE \E g \in Group : OpenGroup(g) \/ CorrectBalance(g) \/ Corrected(g) \/ CloseGroup(g)
  BY <1>2, OpenGroupKeeps, CorrectBalanceKeeps, CorrectedKeeps, CloseGroupKeeps
<1>3. CASE CalculateResult
  BY <1>3, CalculateResultKeeps
<1>4. CASE DistributeCash
  BY <1>4, DistributeCashKeeps
<1>5. CASE Distributed
  BY <1>5, DistributedKeeps
<1>6. CASE ChargeAdditional
  BY <1>6, ChargeAdditionalKeeps
<1>7. CASE Finished \/ UNCHANGED vars
  BY <1>7, StutterKeeps DEF Finished
<1> QED BY <1>1, <1>2, <1>3, <1>4, <1>5, <1>6, <1>7 DEF Next, Work

(* An order that may be is one the user allowed.                            *)
LEMMA AllowedOrders ==
  ASSUME IInv
  PROVE  OrdersAllowed
<1> SUFFICES ASSUME phase \in Traded, NEW s \in Stock
             PROVE  LET ordered == target[s] - Held(s)
                    IN  /\ target[s] * Unit = shares[s] * Price[s] /\ shares[s] >= 0
                        /\ Restricted(portfolio.noSelling, s) => ordered >= 0
                        /\ Restricted(portfolio.noBuying, s) \/ Weight(s) = 0 => ordered <= 0
                        /\ \/ Fractional(s) \/ SoldOut(s)
                           \/ (shares[s] - portfolio.shares[s]) % Unit = 0
                        /\ \/ ordered = 0 \/ SoldOut(s)
                           \/ ordered >= portfolio.minTrade \/ -ordered >= portfolio.minTrade
  BY DEF OrdersAllowed, Traded
<1>1. /\ portfolio \in Portfolios /\ shares[s] \in Nat /\ target[s] = shares[s] * Lot(s)
      /\ Held(s) \in Nat /\ portfolio.shares[s] \in Nat
      /\ Held(s) = portfolio.shares[s] * Lot(s)
  BY HeldInLots DEF IInv, Types, Accounts
<1>2. Allowed(s, target[s]) /\ target[s] \in Nat
  BY AllAllowed, AllowedIsAmount
<1>3. target[s] * Unit = shares[s] * Price[s]
  BY <1>1, LotsAndShares
<1>4. /\ Restricted(portfolio.noSelling, s) => target[s] >= Held(s)
      /\ Restricted(portfolio.noBuying, s) \/ Weight(s) = 0 => target[s] <= Held(s)
  <2>1. MinValue(s) <= target[s] /\ (MaxValue(s) # NoLimit => target[s] <= MaxValue(s))
    BY <1>2 DEF Allowed, Limited
  <2>2. /\ MinValue(s) \in Nat /\ MinValue(s) <= Held(s)
        /\ Restricted(portfolio.noSelling, s) => MinValue(s) = Held(s)
        /\ MaxValue(s) # NoLimit => MaxValue(s) \in {MinValue(s), Held(s)}
        /\ Restricted(portfolio.noBuying, s) \/ Weight(s) = 0 => MaxValue(s) # NoLimit
    BY <1>1, StockLimits
  <2> QED BY <1>1, <1>2, <2>1, <2>2
<1>5. SoldOut(s) \/ (Whole(s, target[s]) /\ Enough(s, target[s]))
  BY <1>2 DEF Allowed, Gone, SoldOut
<1>6. ASSUME ByShares(s, target[s])
      PROVE  (shares[s] - portfolio.shares[s]) % Unit = 0
  <2>1. PICK k \in Int : target[s] = Held(s) + k * Price[s]
    BY <1>6 DEF ByShares
  <2>2. Lot(s) \in Nat /\ Unit \in Nat /\ Unit > 0 /\ Price[s] = Lot(s) * Unit
    BY Lots
  <2> DEFINE m == k * Unit
  <2>3. m \in Int /\ m % Unit = 0
    BY <2>2, DivideMultiple
  <2>4. k * Price[s] = m * Lot(s)
    <3>1. k * (Unit * Lot(s)) = (k * Unit) * Lot(s)
      BY <2>2, Multiples
    <3>2. Unit * Lot(s) = Lot(s) * Unit
      BY <2>2
    <3> QED BY <2>2, <3>1, <3>2
  <2> HIDE DEF m
  <2>5. shares[s] * Lot(s) = (portfolio.shares[s] + m) * Lot(s)
    <3>1. portfolio.shares[s] * Lot(s) + m * Lot(s) = (portfolio.shares[s] + m) * Lot(s)
      BY <1>1, <2>2, <2>3, Multiples
    <3> QED BY <1>1, <2>1, <2>4, <3>1
  <2>6. shares[s] = portfolio.shares[s] + m
    <3>1. shares[s] \in Int /\ portfolio.shares[s] + m \in Int
      BY <1>1, <2>3
    <3> QED BY <2>5, <3>1, SameLots
  <2>7. shares[s] - portfolio.shares[s] = m
    BY <1>1, <2>3, <2>6
  <2> QED BY <2>3, <2>7
<1>7. Deprecated(s) => SoldOut(s) \/ target[s] = Held(s)
  <2> SUFFICES ASSUME Deprecated(s), target[s] # Held(s)
               PROVE  SoldOut(s)
    OBVIOUS
  <2>1. MinValue(s) <= target[s] /\ (MaxValue(s) # NoLimit => target[s] <= MaxValue(s))
    BY <1>2 DEF Allowed, Limited
  <2>2. MinValue(s) \in {0, Held(s)} /\ MinValue(s) \in Nat /\ MinValue(s) # NoLimit
    BY <1>1, StockLimits DEF NoLimit
  <2>3. MaxValue(s) = MinValue(s)
    BY DEF MaxValue
  <2>4. target[s] = MinValue(s)
    BY <1>2, <2>1, <2>2, <2>3
  <2> QED BY <2>2, <2>4 DEF SoldOut
<1>8. target[s] = Held(s) => (shares[s] - portfolio.shares[s]) % Unit = 0
  <2> SUFFICES ASSUME target[s] = Held(s)
               PROVE  (shares[s] - portfolio.shares[s]) % Unit = 0
    OBVIOUS
  <2>1. shares[s] = portfolio.shares[s]
    <3>1. shares[s] \in Int /\ portfolio.shares[s] \in Int
      BY <1>1
    <3> QED BY <1>1, <3>1, SameLots
  <2>2. Unit \in Nat /\ Unit > 0
    BY Lots
  <2> QED BY <1>1, <2>1, <2>2
<1>9. \/ Fractional(s) \/ SoldOut(s)
      \/ (shares[s] - portfolio.shares[s]) % Unit = 0
  BY <1>5, <1>6, <1>7, <1>8 DEF Whole
<1>10. \/ target[s] - Held(s) = 0 \/ SoldOut(s)
      \/ target[s] - Held(s) >= portfolio.minTrade \/ -(target[s] - Held(s)) >= portfolio.minTrade
  <2>1. portfolio.minTrade \in Nat
    BY <1>1, PortfolioTypes
  <2>2. CASE SoldOut(s) \/ Deprecated(s)
    BY <1>1, <1>7, <2>2
  <2>3. CASE Enough(s, target[s]) /\ ~Deprecated(s)
    <3>1. \/ target[s] = Held(s) \/ target[s] - Held(s) >= portfolio.minTrade
          \/ Held(s) - target[s] >= portfolio.minTrade
      BY <2>3 DEF Enough
    <3> QED BY <1>1, <1>2, <2>1, <3>1
  <2> QED BY <1>5, <2>2, <2>3
<1>11. target[s] - Held(s) >= 0 <=> target[s] >= Held(s)
  BY <1>1, <1>2
<1>12. target[s] - Held(s) <= 0 <=> target[s] <= Held(s)
  BY <1>1, <1>2
<1> QED BY <1>1, <1>3, <1>4, <1>9, <1>10, <1>11, <1>12

-----------------------------------------------------------------------------
(* The invariant holds throughout a command.                                *)
THEOREM InvariantHolds == Spec => []IInv
<1>1. Init => IInv
  BY InitEstablishes
<1>2. IInv /\ [Next]_vars => IInv'
  BY Inductive
<1> QED BY <1>1, <1>2, PTL DEF Spec

(* For every tree, every portfolio and configuration, whatever is chosen    *)
(* among equally good trades: the orders at the end, and those at any       *)
(* moment of the distribution of the cash, are orders the user allowed.     *)
THEOREM OrdersAreAllowed == Spec => []OrdersAllowed
<1>1. IInv => OrdersAllowed
  BY AllowedOrders
<1> QED BY <1>1, InvariantHolds, PTL

-----------------------------------------------------------------------------
(* Value.  Above an asset are its parent and what is above that.            *)
LEMMA AboveParent ==
  ASSUME NEW n \in Node, NEW h \in Group, n \in Members(h)
  PROVE  h \in Above[n] /\ Above[h] \subseteq Above[n] /\ Above[n] \subseteq {h} \cup Above[h]
<1>1. n \in Stock \cup Group /\ h \in Stock \cup Group
  BY Nodes
<1>2. h \in Above[n] /\ Above[n] \in SUBSET Group /\ Above[h] \in SUBSET Group
  BY <1>1, AboveIsClosed
<1>3. Above[h] \subseteq Above[n]
  <2>1. ASSUME NEW k \in Group, h \in Members(k) \/ Above[n] \cap Members(k) # {}
        PROVE  k \in Above[n]
    BY <1>1, <1>2, <2>1, AboveIsClosed
  <2> QED BY <1>1, <1>2, <2>1, AboveIsLeast
<1>4. Above[n] \subseteq {h} \cup Above[h]
  <2> DEFINE up == {h} \cup Above[h]
  <2>1. up \in SUBSET Group
    BY <1>2
  <2>2. ASSUME NEW k \in Group, n \in Members(k) \/ up \cap Members(k) # {}
        PROVE  k \in up
    <3>1. CASE n \in Members(k)
      <4>1. k = h
        BY <3>1, ParentOf
      <4> QED BY <4>1
    <3>2. CASE h \in Members(k) \/ Above[h] \cap Members(k) # {}
      BY <1>1, <3>2, AboveIsClosed
    <3> QED BY <2>2, <3>1, <3>2
  <2> HIDE DEF up
  <2>3. Above[n] \subseteq up
    BY <1>1, <2>1, <2>2, AboveIsLeast
  <2> QED BY <2>3 DEF up
<1> QED BY <1>2, <1>3, <1>4

(* Of two groups above an asset one is above the other.                     *)
LEMMA AboveIsChain ==
  ASSUME NEW n \in Node, NEW h \in Above[n], NEW k \in {n} \cup Above[n]
  PROVE  k = h \/ k \in Above[h] \/ h \in Above[k]
<1> DEFINE Chain(x) == \A y \in {n} \cup Above[n] : y = x \/ y \in Above[x] \/ x \in Above[y]
           up == {x \in Above[n] : Chain(x)}
<1>1. n \in Stock \cup Group /\ Above[n] \in SUBSET Group
  BY Nodes, AboveIsClosed
<1>2. up \in SUBSET Group
  BY <1>1
<1>3. ASSUME NEW x \in Group, n \in Members(x)
      PROVE  x \in up
  <2>1. x \in Above[n] /\ Above[n] \subseteq {x} \cup Above[x]
    BY <1>3, AboveParent
  <2>2. Chain(x)
    BY <2>1
  <2> QED BY <2>1, <2>2
<1>4. ASSUME NEW x \in Group, NEW z \in up, z \in Members(x)
      PROVE  x \in up
  <2>1. z \in Above[n] /\ Chain(z) /\ z \in Stock \cup Group /\ z \in Node
    BY <1>1, <1>4, Nodes
  <2>2. x \in Above[n]
    BY <1>1, <1>4, <2>1, AboveIsClosed
  <2>3. x \in Above[z] /\ Above[z] \subseteq {x} \cup Above[x]
    BY <1>4, <2>1, AboveParent
  <2>4. ASSUME NEW y \in {n} \cup Above[n]
        PROVE  y = x \/ y \in Above[x] \/ x \in Above[y]
    <3>1. CASE y = z
      BY <2>3, <3>1
    <3>2. CASE y \in Above[z]
      BY <2>3, <3>2
    <3>3. CASE z \in Above[y]
      <4>1. y \in Stock \cup Group
        BY <1>1
      <4> QED BY <1>4, <3>3, <4>1, AboveIsClosed
    <3> QED BY <2>1, <3>1, <3>2, <3>3
  <2> QED BY <2>2, <2>4
<1>5. \A x \in Group : n \in Members(x) \/ up \cap Members(x) # {} => x \in up
  <2> HIDE DEF up
  <2> QED BY <1>3, <1>4
<1>6. Above[n] \subseteq up
  <2> HIDE DEF up
  <2> QED BY <1>1, <1>2, <1>5, AboveIsLeast
<1> QED BY <1>6

(* A group above an asset has one member on the way down to it ...          *)
LEMMA OneOnTheWay ==
  ASSUME NEW n \in Node, NEW g \in Above[n]
  PROVE  \E m \in Members(g) : /\ m \in {n} \cup Above[n]
                               /\ \A k \in Members(g) : k \in {n} \cup Above[n] => k = m
<1> DEFINE way == {n} \cup Above[n]
           up == {x \in Above[n] : Members(x) \cap way # {}}
<1>1. n \in Stock \cup Group /\ Above[n] \in SUBSET Group
  BY Nodes, AboveIsClosed
<1>2. Above[n] \subseteq up
  <2>1. ASSUME NEW x \in Group, n \in Members(x) \/ up \cap Members(x) # {}
        PROVE  x \in up
    <3>1. x \in Above[n]
      BY <1>1, <2>1, AboveIsClosed
    <3> QED BY <2>1, <3>1
  <2>2. up \in SUBSET Group
    BY <1>1
  <2> HIDE DEF up
  <2> QED BY <1>1, <2>1, <2>2, AboveIsLeast
<1>3. PICK m \in Members(g) : m \in way
  BY <1>2
<1>4. ASSUME NEW a \in Members(g), NEW b \in Members(g), a \in Above[b]
      PROVE  FALSE
  <2>1. g \in Group /\ a \in Node /\ b \in Node
    BY <1>1, Nodes
  <2>2. Above[b] \subseteq {g} \cup Above[g] /\ g \in Above[a] /\ Above[g] \subseteq Above[a]
    BY <2>1, AboveParent
  <2>3. a = g \/ a \in Above[g]
    BY <1>4, <2>2
  <2>4. a \notin Above[a] /\ a \in Stock \cup Group
    BY <2>1, Nodes, RebalancingAssumption
  <2>5. CASE a = g
    BY <2>2, <2>4, <2>5
  <2>6. CASE a \in Above[g]
    BY <2>2, <2>4, <2>6
  <2> QED BY <2>3, <2>5, <2>6
<1>5. ASSUME NEW k \in Members(g), k \in way
      PROVE  k = m
  <2>1. CASE k = n /\ m = n
    BY <2>1
  <2>2. CASE k \in Above[n]
    <3>1. m = k \/ m \in Above[k] \/ k \in Above[m]
      BY <1>3, <2>2, AboveIsChain
    <3> QED BY <1>3, <1>4, <3>1
  <2>3. CASE m \in Above[n]
    <3>1. k = m \/ k \in Above[m] \/ m \in Above[k]
      BY <1>5, <2>3, AboveIsChain
    <3> QED BY <1>3, <1>4, <3>1
  <2> QED BY <1>3, <1>5, <2>1, <2>2, <2>3
<1> QED BY <1>3, <1>5

(* ... and a group that is not above it has none.                           *)
LEMMA NoneBeside ==
  ASSUME NEW n \in Node, NEW g \in Group, g \notin Above[n], NEW m \in Members(g)
  PROVE  m \notin {n} \cup Above[n]
<1>1. n \in Stock \cup Group
  BY Nodes
<1> QED BY <1>1, AboveIsClosed

(* What a group is given is divided among its members without a fraction    *)
(* that is lost.                                                            *)
WholeAmounts ==
  \A g \in Group :
    stage[g] # "waiting" =>
      Sum([n \in Members(g) |-> Expected(total[g], n)], Members(g)) = total[g]

(* What a group was given is with its members or left.                      *)
Spent ==
  phase \in {"groups", "result"} =>
    \A g \in Group : stage[g] # "waiting" => Sum(target, Members(g)) + balance[g] = total[g]

(* A group counts with what it was given until it is closed ...             *)
Given ==
  \A g \in Group \ {Root} :
    stage[g] \in {"selling", "buying", "nested"} => target[g] = total[g]

(* ... and then with what its members have.                                 *)
Closed ==
  \A g \in Group \ {Root} : stage[g] = "done" => Sum(target, Members(g)) = target[g]

Conserved == Spent /\ Given /\ Closed

(* Targets are numbers that can be added up.                                *)
LEMMA MembersAddUp ==
  ASSUME IInv, NEW g \in Group
  PROVE  /\ Summable(target, Members(g)) /\ SumFunctionOnSet(target, Members(g)) \in Int
         /\ \A n \in Members(g) : target[n] \in Int
<1>1. target \in [Node -> Int] /\ Members(g) \in SUBSET Node
  BY Nodes DEF IInv, Types
<1>2. Summable(target, Members(g))
  BY <1>1, TargetsAddUp
<1> QED BY <1>1, <1>2, SumInteger

(* Where no member is touched the sum stays.                                *)
LEMMA UntouchedSum ==
  ASSUME IInv, NEW g \in Group, \A n \in Members(g) : target'[n] = target[n]
  PROVE  Sum(target', Members(g)) = Sum(target, Members(g))
<1>1. Summable(target, Members(g))
  BY MembersAddUp
<1>2. SumFunctionOnSet(target', Members(g)) = SumFunctionOnSet(target, Members(g))
  BY <1>1, SumSame
<1> QED BY <1>2 DEF Sum

(* Where one is, it changes by as much.                                     *)
LEMMA TouchedSum ==
  ASSUME IInv, NEW g \in Group, NEW m \in Members(g), target'[m] \in Int,
         \A n \in Members(g) \ {m} : target'[n] = target[n]
  PROVE  Sum(target', Members(g)) = Sum(target, Members(g)) - target[m] + target'[m]
<1>1. Summable(target, Members(g))
  BY MembersAddUp
<1>2. SumFunctionOnSet(target', Members(g))
        = SumFunctionOnSet(target, Members(g)) - target[m] + target'[m]
  BY <1>1, SumChange
<1> QED BY <1>2 DEF Sum

(* In a group that has not spent all it may no other group is open.         *)
LEMMA MembersWait ==
  ASSUME IInv, NEW g \in Group, stage[g] \in {"waiting", "selling", "buying"},
         NEW h \in Group, h \in Members(g)
  PROVE  stage[h] = "waiting"
<1>1. h \in Group \ {Root} /\ h \in Node
  BY Nodes
<1>2. Parent(h) = g
  BY <1>1, ParentOf
<1> QED BY <1>1, <1>2 DEF IInv, DepthFirst

(* A group is opened: it has given its members what it was given, but for   *)
(* its balance.                                                             *)
LEMMA OpenGroupConserves ==
  ASSUME IInv, IInv', WholeAmounts', Conserved, NEW g \in Group, OpenGroup(g)
  PROVE  Conserved'
<1> DEFINE given == IF g = Root THEN net - portfolio.reserve ELSE target[g]
           e == [n \in Members(g) |-> Expected(given, n)]
           Initial(n) == Within(n, Rounded(n, Expected(given, n)))
           unspent == [n \in Members(g) |-> Expected(given, n) - Initial(n)]
<1>1. /\ stage[g] = "waiting"
      /\ stage' = [stage EXCEPT ![g] = "selling"]
      /\ total' = [total EXCEPT ![g] = given]
      /\ UNCHANGED <<portfolio, phase>>
  BY DEF OpenGroup
<1>2. Members(g) \subseteq Node /\ IsFiniteSet(Members(g))
  BY Nodes
<1>3. /\ target' = [n \in Node |-> IF n \in Members(g) THEN Initial(n) ELSE target[n]]
      /\ balance' = [balance EXCEPT ![g] = Sum(unspent, Members(g))]
  BY DEF OpenGroup
<1>4. /\ portfolio \in Portfolios /\ net \in Int /\ target \in [Node -> Int]
      /\ target' \in [Node -> Int] /\ total' \in [Group -> Int]
      /\ stage \in [Group -> Stages] /\ total \in [Group -> Int] /\ balance \in [Group -> Int]
  BY DEF IInv, Types
<1>5. /\ \A h \in Group : h # g => /\ stage'[h] = stage[h] /\ total'[h] = total[h]
                                   /\ balance'[h] = balance[h]
      /\ stage'[g] = "selling" /\ total'[g] = given
      /\ balance'[g] = SumFunctionOnSet(unspent, Members(g))
      /\ \A n \in Node : n \notin Members(g) => target'[n] = target[n]
  BY <1>1, <1>3, <1>4 DEF Sum
<1>6. given \in Int
  BY <1>4, <1>5
<1>7. \A n \in Members(g) : target'[n] = Initial(n) /\ target'[n] \in Int
  BY <1>2, <1>3, <1>4
<1>8. SumFunctionOnSet(e, Members(g)) = given /\ Summable(e, Members(g))
  <2>1. Sum([n \in Members(g) |-> Expected(total'[g], n)], Members(g)) = total'[g]
    <3>1. stage'[g] # "waiting"
      BY <1>5
    <3>2. Sum([n \in Members(g) |-> Expected(total[g], n)], Members(g))' = total'[g]
      BY <3>1 DEF WholeAmounts
    <3>3. Sum([n \in Members(g) |-> (Expected(total[g], n))'], Members(g)) = total'[g]
      BY <3>2 DEF Sum
    <3> QED BY <1>1, <3>3 DEF Expected, Weight
  <2>2. SumFunctionOnSet(e, Members(g)) = given
    BY <1>5, <2>1 DEF Sum
  <2>3. \A n \in Members(g) : e[n] = Expected(given, n)
    OBVIOUS
  <2> HIDE DEF e, given
  <2>4. Summable(e, Members(g))
    BY <1>4, <1>6, <2>3, ExpectedInAll
  <2> QED BY <2>2, <2>4
<1>9. \A n \in Members(g) : unspent[n] = e[n] - target'[n]
  BY <1>7
<1> HIDE DEF given, e, unspent, Initial
<1>10. /\ SumFunctionOnSet(e, Members(g))
            = SumFunctionOnSet(target', Members(g)) + SumFunctionOnSet(unspent, Members(g))
       /\ SumFunctionOnSet(target', Members(g)) \in Int
       /\ SumFunctionOnSet(unspent, Members(g)) \in Int
  <2>1. Summable(target', Members(g)) /\ Summable(unspent, Members(g))
    BY <1>2, <1>7, <1>8, <1>9 DEF Summable
  <2>2. \A n \in Members(g) : e[n] = target'[n] + unspent[n]
    BY <1>7, <1>8, <1>9 DEF Summable
  <2>3. SumFunctionOnSet(e, Members(g))
          = SumFunctionOnSet(target', Members(g)) + SumFunctionOnSet(unspent, Members(g))
    BY ONLY <2>1, <2>2, SumPlus
  <2> QED BY <2>1, <2>3, SumInteger
<1>11. \A h \in Group : h # g => Sum(target', Members(h)) = Sum(target, Members(h))
  <2> SUFFICES ASSUME NEW h \in Group, h # g
               PROVE  Sum(target', Members(h)) = Sum(target, Members(h))
    OBVIOUS
  <2>1. Members(h) \cap Members(g) = {} /\ Members(h) \subseteq Node
    BY RebalancingAssumption, Nodes
  <2> QED BY <1>5, <2>1, UntouchedSum
<1>12. ASSUME NEW h \in Group \ {Root}, stage'[h] # "waiting"
       PROVE  target'[h] = target[h]
  <2>1. h \in Node
    BY Nodes
  <2>2. h \notin Members(g)
    <3>1. CASE h = g
      <4>1. g \notin Above[g] /\ g \in Stock \cup Group
        BY <2>1, <3>1, RebalancingAssumption
      <4> QED BY <3>1, <4>1, AboveIsClosed
    <3>2. CASE h # g
      BY <1>1, <1>5, <1>12, <3>2, MembersWait
    <3> QED BY <3>1, <3>2
  <2> QED BY <1>5, <2>1, <2>2
<1>13. Spent'
  <2> SUFFICES ASSUME phase \in {"groups", "result"}, NEW h \in Group, stage'[h] # "waiting"
               PROVE  Sum(target', Members(h)) + balance'[h] = total'[h]
    BY <1>1 DEF Spent, Sum
  <2>1. CASE h = g
    BY <1>5, <1>8, <1>10, <2>1 DEF Sum
  <2>2. CASE h # g
    BY <1>5, <1>11, <2>2 DEF Conserved, Spent
  <2> QED BY <2>1, <2>2
<1>14. Given'
  <2> SUFFICES ASSUME NEW h \in Group \ {Root}, stage'[h] \in {"selling", "buying", "nested"}
               PROVE  target'[h] = total'[h]
    BY DEF Given
  <2>1. target'[h] = target[h]
    BY <1>12
  <2>2. CASE h = g
    BY <1>5, <2>1, <2>2 DEF given
  <2>3. CASE h # g
    BY <1>5, <2>1, <2>3 DEF Conserved, Given
  <2> QED BY <2>2, <2>3
<1>15. Closed'
  <2> SUFFICES ASSUME NEW h \in Group \ {Root}, stage'[h] = "done"
               PROVE  Sum(target', Members(h)) = target'[h]
    BY DEF Closed, Sum
  <2>1. h # g
    BY <1>5
  <2> QED BY <1>5, <1>11, <1>12, <2>1 DEF Conserved, Closed
<1> QED BY <1>13, <1>14, <1>15 DEF Conserved

(* A trade within a group is paid from its balance.                         *)
LEMMA CorrectBalanceConserves ==
  ASSUME IInv, IInv', Conserved, NEW g \in Group, CorrectBalance(g)
  PROVE  Conserved'
<1>1. stage[g] \in {"selling", "buying"} /\ UNCHANGED <<portfolio, phase, stage, total>>
  BY DEF CorrectBalance
<1>2. PICK t \in Best(Type(g), GroupTrades(g)) :
        /\ target' = [target EXCEPT ![t.on] = @ + t.volume]
        /\ balance' = [balance EXCEPT ![g] = @ - t.volume]
  BY DEF CorrectBalance
<1>3. PICK n \in Members(g) :
        t \in PossibleTrades(Type(g), n, Expected(total[g], n), balance[g])
  BY DEF Best, GroupTrades
<1>4. /\ portfolio \in Portfolios /\ target \in [Node -> Int] /\ shares \in [Stock -> Nat]
      /\ min \in [Node -> Nat] /\ balance \in [Group -> Int] /\ n \in Node
      /\ total \in [Group -> Int] /\ Type(g) \in {"sell", "buy"}
  BY Nodes DEF IInv, Types, Type
<1>5. t.on = n /\ t.volume \in Int
  <2>1. min[n] \in Nat /\ target[n] \in Int
    BY <1>4
  <2> QED BY <1>3, <1>4, <2>1, TradeKeepsLimits
<1>6. /\ \A m \in Node : target'[m] = IF m = n THEN target[n] + t.volume ELSE target[m]
      /\ \A h \in Group : balance'[h] = IF h = g THEN balance[g] - t.volume ELSE balance[h]
      /\ target' \in [Node -> Int]
  BY <1>2, <1>4, <1>5
<1>7. \A h \in Group : h # g => Sum(target', Members(h)) = Sum(target, Members(h))
  <2> SUFFICES ASSUME NEW h \in Group, h # g
               PROVE  Sum(target', Members(h)) = Sum(target, Members(h))
    OBVIOUS
  <2>1. n \notin Members(h) /\ Members(h) \subseteq Node
    BY RebalancingAssumption, Nodes
  <2> QED BY <1>6, <2>1, UntouchedSum
<1>8. Sum(target', Members(g)) = Sum(target, Members(g)) + t.volume /\ Sum(target, Members(g)) \in Int
  <2>1. Members(g) \subseteq Node /\ target'[n] = target[n] + t.volume /\ target'[n] \in Int
        /\ target[n] \in Int
    BY <1>4, <1>5, <1>6, Nodes
  <2>2. \A m \in Members(g) \ {n} : target'[m] = target[m]
    BY <1>6, <2>1
  <2>3. Sum(target', Members(g)) = Sum(target, Members(g)) - target[n] + target'[n]
    BY <2>1, <2>2, TouchedSum
  <2>4. Sum(target, Members(g)) \in Int
    BY MembersAddUp DEF Sum
  <2> QED BY <1>5, <2>1, <2>3, <2>4
<1>9. ASSUME NEW h \in Group \ {Root}, stage[h] # "waiting"
      PROVE  target'[h] = target[h]
  <2>1. h \in Node
    BY Nodes
  <2>2. h # n
    BY <1>1, <1>3, <1>9, MembersWait
  <2> QED BY <1>6, <2>1, <2>2
<1>10. Spent'
  <2> SUFFICES ASSUME phase \in {"groups", "result"}, NEW h \in Group, stage[h] # "waiting"
               PROVE  Sum(target', Members(h)) + balance'[h] = total[h]
    BY <1>1 DEF Spent, Sum
  <2>1. Sum(target, Members(h)) + balance[h] = total[h]
    BY DEF Conserved, Spent
  <2>2. CASE h = g
    BY <1>4, <1>5, <1>6, <1>8, <2>1, <2>2
  <2>3. CASE h # g
    BY <1>6, <1>7, <2>1, <2>3
  <2> QED BY <2>2, <2>3
<1>11. Given'
  BY <1>1, <1>9 DEF Conserved, Given
<1>12. Closed'
  <2> SUFFICES ASSUME NEW h \in Group \ {Root}, stage[h] = "done"
               PROVE  Sum(target', Members(h)) = target'[h]
    BY <1>1 DEF Closed, Sum
  <2>1. h # g
    BY <1>1
  <2> QED BY <1>7, <1>9, <2>1 DEF Conserved, Closed
<1> QED BY <1>10, <1>11, <1>12 DEF Conserved

(* What a closed group could not spend is its parent's to spend.            *)
LEMMA CloseGroupConserves ==
  ASSUME IInv, IInv', Conserved, NEW g \in Group, CloseGroup(g)
  PROVE  Conserved'
<1>1. /\ stage[g] = "nested" /\ \A h \in Members(g) \cap Group : stage[h] = "done"
      /\ stage' = [stage EXCEPT ![g] = "done"] /\ UNCHANGED <<portfolio, total>>
      /\ g = Root => phase' = "result" /\ UNCHANGED <<target, balance>>
      /\ g # Root => /\ phase' = phase /\ target' = [target EXCEPT ![g] = @ - balance[g]]
                     /\ balance' = [balance EXCEPT ![Parent(g)] = @ + balance[g]]
  BY DEF CloseGroup, Returned
<1>2. /\ stage \in [Group -> Stages] /\ target \in [Node -> Int] /\ balance \in [Group -> Int]
      /\ total \in [Group -> Int] /\ phase = "groups"
  BY <1>1, GroupsWork DEF IInv, Types
<1>3. \A h \in Group : stage'[h] = IF h = g THEN "done" ELSE stage[h]
  BY <1>1, <1>2
<1>4. CASE g = Root
  <2>1. target' = target /\ balance' = balance /\ total' = total
    BY <1>1, <1>4
  <2>2. Spent'
    BY <1>2, <1>3, <2>1, <1>1 DEF Conserved, Spent, Sum
  <2>3. Given' /\ Closed'
    BY <1>3, <1>4, <2>1 DEF Conserved, Given, Closed, Sum
  <2> QED BY <2>2, <2>3 DEF Conserved
<1>5. CASE g # Root
  <2>1. /\ g \in Node /\ g \in Stock \cup Group /\ Parent(g) \in Group /\ g \in Members(Parent(g))
        /\ \A h \in Group : g \in Members(h) => h = Parent(g)
    BY <1>5, Nodes, ParentOf
  <2>2. g \notin Members(g)
    <3>1. g \notin Above[g]
      BY <2>1, RebalancingAssumption
    <3> QED BY <2>1, <3>1, AboveIsClosed
  <2>3. /\ \A n \in Node : target'[n] = IF n = g THEN target[g] - balance[g] ELSE target[n]
        /\ \A h \in Group : balance'[h] = IF h = Parent(g) THEN balance[h] + balance[g]
                                          ELSE balance[h]
        /\ phase' = phase /\ total' = total
    BY <1>1, <1>2, <1>5, <2>1
  <2>4. \A h \in Group : h # Parent(g) => Sum(target', Members(h)) = Sum(target, Members(h))
    <3> SUFFICES ASSUME NEW h \in Group, h # Parent(g)
                 PROVE  Sum(target', Members(h)) = Sum(target, Members(h))
      OBVIOUS
    <3>1. g \notin Members(h) /\ Members(h) \subseteq Node
      BY <2>1, Nodes
    <3> QED BY <2>3, <3>1, UntouchedSum
  <2>5. /\ Sum(target', Members(Parent(g))) = Sum(target, Members(Parent(g))) - balance[g]
        /\ Sum(target, Members(Parent(g))) \in Int
    <3>1. target'[g] = target[g] - balance[g] /\ target[g] \in Int /\ balance[g] \in Int
      BY <1>2, <2>1, <2>3
    <3>2. Members(Parent(g)) \subseteq Node
      BY <2>1, Nodes
    <3>3. \A n \in Members(Parent(g)) \ {g} : target'[n] = target[n]
      BY <2>3, <3>2
    <3>4. Sum(target', Members(Parent(g)))
            = Sum(target, Members(Parent(g))) - target[g] + target'[g]
      BY <2>1, <3>1, <3>3, TouchedSum
    <3>5. Sum(target, Members(Parent(g))) \in Int
      BY <2>1, MembersAddUp DEF Sum
    <3> QED BY <3>1, <3>4, <3>5
  <2>6. Sum(target, Members(g)) = target'[g]
    <3>1. Sum(target, Members(g)) + balance[g] = total[g] /\ target[g] = total[g]
      BY <1>1, <1>2, <1>5 DEF Conserved, Spent, Given
    <3>2. Sum(target, Members(g)) \in Int
      BY MembersAddUp DEF Sum
    <3> QED BY <1>2, <2>1, <2>3, <3>1, <3>2
  <2>7. g # Parent(g)
    BY <2>1, <2>2
  <2>8. Spent'
    <3> SUFFICES ASSUME NEW h \in Group, stage'[h] # "waiting"
                 PROVE  Sum(target', Members(h)) + balance'[h] = total[h]
      BY <1>1 DEF Spent, Sum
    <3>1. Sum(target, Members(h)) + balance[h] = total[h]
      BY <1>1, <1>2, <1>3 DEF Conserved, Spent
    <3>2. CASE h = Parent(g)
      BY <1>2, <2>3, <2>5, <3>1, <3>2
    <3>3. CASE h # Parent(g)
      BY <2>3, <2>4, <3>1, <3>3
    <3> QED BY <3>2, <3>3
  <2>9. Given'
    <3> SUFFICES ASSUME NEW h \in Group \ {Root}, stage'[h] \in {"selling", "buying", "nested"}
                 PROVE  target'[h] = total'[h]
      BY DEF Given
    <3>1. h # g /\ h \in Node /\ stage[h] \in {"selling", "buying", "nested"}
      BY <1>3, Nodes
    <3> QED BY <2>3, <3>1 DEF Conserved, Given
  <2>10. Closed'
    <3> SUFFICES ASSUME NEW h \in Group \ {Root}, stage'[h] = "done"
                 PROVE  Sum(target', Members(h)) = target'[h]
      BY DEF Closed, Sum
    <3>1. CASE h = g
      BY <2>4, <2>6, <2>7, <3>1
    <3>2. CASE h # g
      <4>1. h \in Node /\ stage[h] = "done"
        BY <1>3, <3>2, Nodes
      <4>2. h # Parent(g)
        <5> SUFFICES ASSUME h = Parent(g) PROVE FALSE
          OBVIOUS
        <5>1. stage[g] = "done"
          BY <2>1, <4>1 DEF IInv, DepthFirst
        <5> QED BY <1>1, <5>1
      <4> QED BY <2>3, <2>4, <3>2, <4>1, <4>2 DEF Conserved, Closed
    <3> QED BY <3>1, <3>2
  <2> QED BY <2>8, <2>9, <2>10 DEF Conserved
<1> QED BY <1>4, <1>5

(* A trade of the whole tree changes every group on the way by as much as   *)
(* one of its members.                                                      *)
LEMMA DistributeCashConserves ==
  ASSUME IInv, IInv', Conserved, DistributeCash
  PROVE  Conserved'
<1>1. /\ phase \in {"sell", "buy"} /\ phase \in Traded
      /\ UNCHANGED <<portfolio, phase, stage, total, balance>>
  BY DEF DistributeCash, tree, Traded
<1>2. PICK t \in DistributionTrades(phase) :
        target' = [n \in Node |-> IF n \in {t.on} \cup Above[t.on] THEN target[n] + t.volume
                                  ELSE target[n]]
  BY DEF DistributeCash
<1>3. PICK s \in Stock : t \in StockTrades(phase, s)
  BY <1>2 DEF DistributionTrades
<1>4. t \in PossibleTrades(phase, s, DistributionExpected[s], cash - portfolio.reserve)
  BY <1>3 DEF StockTrades
<1>5. /\ portfolio \in Portfolios /\ target \in [Node -> Int] /\ shares \in [Stock -> Nat]
      /\ min \in [Node -> Nat] /\ target' \in [Node -> Int] /\ s \in Node
  BY Nodes DEF IInv, Types
<1>6. t.on = s /\ t.volume \in Int
  <2>1. target[s] \in Int /\ min[s] \in Nat
    BY <1>5
  <2> QED BY <1>1, <1>4, <1>5, <2>1, TradeKeepsLimits
<1> DEFINE way == {s} \cup Above[s]
<1>7. \A n \in Node : target'[n] = IF n \in way THEN target[n] + t.volume ELSE target[n]
  BY <1>2, <1>5, <1>6
<1>8. ASSUME NEW g \in Group \ {Root}, stage[g] = "done"
      PROVE  Sum(target', Members(g)) = target'[g]
  <2>1. /\ g \in Node /\ Members(g) \subseteq Node /\ g # s
        /\ Sum(target, Members(g)) = target[g] /\ target[g] \in Int
    BY <1>5, <1>8, Nodes, RebalancingAssumption DEF Conserved, Closed
  <2>2. CASE g \in Above[s]
    <3>1. PICK m \in Members(g) : m \in way /\ \A k \in Members(g) : k \in way => k = m
      BY <1>5, <2>2, OneOnTheWay
    <3>2. target'[m] = target[m] + t.volume /\ target'[m] \in Int /\ target[m] \in Int
      BY <1>5, <1>7, <2>1, <3>1
    <3>3. \A n \in Members(g) \ {m} : target'[n] = target[n]
      BY <1>7, <2>1, <3>1
    <3>4. Sum(target', Members(g)) = Sum(target, Members(g)) - target[m] + target'[m]
      BY <3>2, <3>3, TouchedSum
    <3>5. target'[g] = target[g] + t.volume
      BY <1>7, <2>1, <2>2
    <3> QED BY <1>6, <2>1, <3>2, <3>4, <3>5
  <2>3. CASE g \notin Above[s]
    <3>1. \A n \in Members(g) : n \notin way
      BY <1>5, <2>3, NoneBeside
    <3>2. \A n \in Members(g) : target'[n] = target[n]
      BY <1>7, <2>1, <3>1
    <3>3. target'[g] = target[g]
      BY <1>7, <2>1, <2>3
    <3> QED BY <2>1, <3>2, <3>3, UntouchedSum
  <2> QED BY <2>2, <2>3
<1>9. Closed'
  BY <1>1, <1>8 DEF Closed, Sum
<1>10. Given'
  <2>1. \A g \in Group : stage[g] = "done"
    <3>1. stage[Root] = "done"
      BY <1>1 DEF IInv, DepthFirst
    <3> QED BY <3>1, AllDone
  <2> QED BY <1>1, <2>1 DEF Given
<1>11. Spent'
  BY <1>1 DEF Spent
<1> QED BY <1>9, <1>10, <1>11 DEF Conserved

(* Every step conserves what the groups have.                               *)
LEMMA StepConserves ==
  ASSUME IInv, IInv', WholeAmounts', Conserved, [Next]_vars
  PROVE  Conserved'
<1>1. CASE CalculateRestrictions
  <2>1. phase = "restrictions" /\ UNCHANGED <<stage, total, balance, target>>
    BY <1>1 DEF CalculateRestrictions, tree
  <2>2. \A g \in Group : stage[g] = "waiting"
    BY <2>1 DEF IInv, DepthFirst
  <2> QED BY <2>1, <2>2 DEF Conserved, Spent, Given, Closed
<1>2. CASE \E g \in Group : OpenGroup(g) \/ CorrectBalance(g) \/ CloseGroup(g)
  BY <1>2, OpenGroupConserves, CorrectBalanceConserves, CloseGroupConserves
<1>3. CASE \E g \in Group : Corrected(g)
  <2>1. PICK g \in Group : Corrected(g)
    BY <1>3
  <2>2. /\ stage[g] \in {"selling", "buying"}
        /\ stage' = [stage EXCEPT ![g] = IF @ = "selling" THEN "buying" ELSE "nested"]
        /\ UNCHANGED <<phase, total, balance, target>>
    BY <2>1 DEF Corrected
  <2>3. stage \in [Group -> Stages]
    BY DEF IInv, Types
  <2>4. \A h \in Group : stage'[h] = IF h = g THEN IF stage[g] = "selling" THEN "buying" ELSE "nested"
                                     ELSE stage[h]
    BY <2>2, <2>3
  <2>5. Spent'
    BY <2>2, <2>4 DEF Conserved, Spent, Sum
  <2>6. Given'
    BY <2>2, <2>4 DEF Conserved, Given
  <2>7. Closed'
    BY <2>2, <2>4 DEF Conserved, Closed, Sum
  <2> QED BY <2>5, <2>6, <2>7 DEF Conserved
<1>4. CASE CalculateResult \/ Distributed \/ ChargeAdditional
  <2>1. UNCHANGED <<stage, total, balance, target>> /\ phase' \in Traded
    BY <1>4 DEF CalculateResult, Distributed, ChargeAdditional, tree, Traded
  <2>2. Spent'
    BY <2>1 DEF Spent, Traded
  <2> QED BY <2>1, <2>2 DEF Conserved, Given, Closed, Sum
<1>5. CASE DistributeCash
  BY <1>5, DistributeCashConserves
<1>6. CASE Finished \/ UNCHANGED vars
  BY <1>6 DEF Finished, vars, tree, Conserved, Spent, Given, Closed, Sum
<1> QED BY <1>1, <1>2, <1>3, <1>4, <1>5, <1>6 DEF Next, Work

(* Where no weighting loses a fraction: on every level of the tree and      *)
(* after every trade what a group was given is what its members have and    *)
(* what is left; and at any moment of the distribution the cash, the orders *)
(* and the commissions are together the portfolio's value.                  *)
THEOREM ValueIsConserved == Spec /\ []WholeAmounts => []ValueConserved
<1>1. Init => Conserved
  <2> SUFFICES ASSUME Init PROVE Conserved
    OBVIOUS
  <2>1. \A g \in Group : stage[g] = "waiting"
    BY DEF Init
  <2> QED BY <2>1 DEF Conserved, Spent, Given, Closed
<1>2. IInv /\ IInv' /\ WholeAmounts' /\ Conserved /\ [Next]_vars => Conserved'
  BY StepConserves
<1>3. IInv /\ Conserved => ValueConserved
  <2> SUFFICES ASSUME IInv, Conserved PROVE ValueConserved
    OBVIOUS
  <2>1. phase \in {"sell", "buy", "fees", "done"} =>
          /\ cash + Sum(target, Stock) = net
          /\ net + commissions = CurrentNetValue
          /\ commissions = Sum([s \in Stock |-> Commission(s, shares[s])], Stock) + daily
    BY DEF IInv, Accounts, PaidFor, Traded
  <2> QED BY <2>1 DEF Conserved, Spent, Closed, ValueConserved
<1> QED BY <1>1, <1>2, <1>3, InvariantHolds, PTL DEF Spec

=============================================================================
