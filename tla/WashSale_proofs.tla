--------------------------- MODULE WashSale_proofs ---------------------------
(***************************************************************************)
(* Theorems about the rule of homogeneous securities: what a disposal does *)
(* to the deferrals (EffectFacts), that nothing deferred is lost and that  *)
(* a disposal defers exactly what it must (DeferralInv), and that returns  *)
(* stand and deduct every loss once (ReturnsInv).                          *)
(*                                                                         *)
(* All of it holds as long as the shares and amounts that a disposal       *)
(* shares out divide evenly (WholeShares): the code divides decimals, the  *)
(* model whole numbers.                                                    *)
(***************************************************************************)
EXTENDS WashSale, SumTheorems, TLAPS

-----------------------------------------------------------------------------
(* What the operators on sequences make: their recursive functions exist.   *)

(* A step for each index that stays among the values, ...                   *)
StepsIn(step, n, V) == \A k \in 1 .. n, v \in V : step[k][v] \in V

(* ... and a function that takes these steps one after the other.           *)
Recurs(f, n, V, a, step) ==
  /\ f \in [0 .. n -> V]
  /\ f[0] = a
  /\ \A k \in 1 .. n : f[k] = step[k][f[k - 1]]

(* What recurs over the natural numbers until n exists.                     *)
LEMMA RecursionExists ==
  ASSUME NEW V, NEW n \in Nat, NEW a \in V, NEW step, StepsIn(step, n, V)
  PROVE  \E f : Recurs(f, n, V, a, step)
<1> DEFINE Q == {m \in Nat : m <= n => \E f : Recurs(f, m, V, a, step)}
<1>1. 0 \in Q
  <2>1. Recurs([k \in 0 .. 0 |-> a], 0, V, a, step)
    BY DEF Recurs
  <2> QED
    BY <2>1
<1>2. ASSUME NEW m \in Nat, m \in Q
      PROVE  m + 1 \in Q
  <2>1. SUFFICES ASSUME m + 1 <= n
                 PROVE  \E f : Recurs(f, m + 1, V, a, step)
    OBVIOUS
  <2>2. PICK f : Recurs(f, m, V, a, step)
    BY <1>2, <2>1
  <2> DEFINE g == [k \in 0 .. m + 1 |-> IF k = m + 1 THEN step[m + 1][f[m]] ELSE f[k]]
  <2>3. step[m + 1][f[m]] \in V
    BY <2>1, <2>2 DEF Recurs, StepsIn
  <2>4. g \in [0 .. m + 1 -> V]
    BY <2>2, <2>3 DEF Recurs
  <2>5. g[0] = a
    BY <2>2 DEF Recurs
  <2>6. ASSUME NEW k \in 1 .. m + 1
        PROVE  g[k] = step[k][g[k - 1]]
    <3>1. CASE k = m + 1
      <4>1. g[k] = step[k][f[m]] /\ k - 1 = m /\ g[m] = f[m]
        BY <3>1
      <4> QED
        BY <4>1
    <3>2. CASE k # m + 1
      <4>1. k \in 1 .. m /\ k - 1 \in 0 .. m
        BY <3>2
      <4>2. g[k] = f[k] /\ g[k - 1] = f[k - 1]
        BY <4>1
      <4> QED
        BY <2>2, <4>1, <4>2 DEF Recurs
    <3> QED
      BY <3>1, <3>2
  <2> HIDE DEF g
  <2>7. Recurs(g, m + 1, V, a, step)
    BY <2>4, <2>5, <2>6 DEF Recurs
  <2> QED
    BY <2>7
<1> HIDE DEF Q
<1>3. n \in Q
  BY <1>1, <1>2, NumberInduction
<1> QED
  BY <1>3 DEF Q

-----------------------------------------------------------------------------
(* kept[n] are the elements of the first n places that are kept.            *)
IsKept(kept, seq, places, F) ==
  /\ kept \in [0 .. Len(seq) -> Seq(F)]
  /\ kept[0] = <<>>
  /\ \A k \in 1 .. Len(seq) :
       kept[k] = IF k \in places THEN Append(kept[k - 1], seq[k]) ELSE kept[k - 1]
  /\ Only(seq, places) = kept[Len(seq)]

(* The elements of a sequence at some places, one place after the other.    *)
LEMMA OnlyRecurs ==
  ASSUME NEW E, NEW seq \in Seq(E), NEW places,
         NEW F, \A i \in DOMAIN seq : i \in places => seq[i] \in F
  PROVE  \E kept : IsKept(kept, seq, places, F)
<1> DEFINE L == Len(seq)
           step == [k \in 1 .. L |-> [s \in Seq(F) |->
                      IF k \in places THEN Append(s, seq[k]) ELSE s]]
           body(f) == [n \in 0 .. L |->
                         IF n = 0 THEN <<>>
                         ELSE IF n \in places THEN Append(f[n - 1], seq[n]) ELSE f[n - 1]]
           kept == CHOOSE f : f = body(f)
<1>1. L \in Nat /\ (\A k \in 1 .. L : k \in places => seq[k] \in F) /\ <<>> \in Seq(F)
  OBVIOUS
<1>2. Only(seq, places) = kept[L]
  BY DEF Only
<1> HIDE DEF L
<1>3. \A k \in 1 .. L, s \in Seq(F) : k \in places => Append(s, seq[k]) \in Seq(F)
  BY <1>1
<1>4. StepsIn(step, L, Seq(F))
  BY <1>3 DEF StepsIn
<1>5. PICK g : Recurs(g, L, Seq(F), <<>>, step)
  <2> HIDE DEF step
  <2> QED
    BY <1>1, <1>4, RecursionExists
<1> USE DEF Recurs
<1>6. \A k \in 1 .. L : k - 1 \in 0 .. L /\ k # 0 /\ k \in 0 .. L
  BY <1>1
<1>7. \A k \in 1 .. L : g[k] = IF k \in places THEN Append(g[k - 1], seq[k]) ELSE g[k - 1]
  <2>1. \A k \in 1 .. L : g[k - 1] \in Seq(F)
    BY <1>5, <1>6
  <2> QED
    BY <1>5, <2>1
<1> HIDE DEF step
<1>8. g = body(g)
  <2>1. \A k \in 0 .. L : k = 0 \/ k \in 1 .. L
    BY <1>1
  <2>2. \A k \in 0 .. L : g[k] = body(g)[k]
    BY <1>5, <1>7, <2>1
  <2> QED
    BY <1>5, <2>2
<1>9. kept = body(kept)
  BY <1>8
<1> HIDE DEF kept
<1> DEFINE Q == {k \in Nat : k <= L => kept[k] \in Seq(F)}
<1>10. \A k \in 0 .. L : kept[k] = IF k = 0 THEN <<>>
         ELSE IF k \in places THEN Append(kept[k - 1], seq[k]) ELSE kept[k - 1]
  BY <1>9
<1>11. 0 \in 0 .. L
  BY <1>1
<1>12. kept[0] = <<>>
  BY <1>10, <1>11
<1>13. 0 \in Q
  BY <1>1, <1>12
<1>14. ASSUME NEW k \in Nat, k \in Q PROVE k + 1 \in Q
  <2>1. CASE k + 1 <= L
    <3>1. k + 1 \in 0 .. L /\ k + 1 # 0 /\ (k + 1) - 1 = k /\ k + 1 \in 1 .. L
      BY <1>1, <2>1
    <3>2. kept[k + 1] = IF k + 1 \in places THEN Append(kept[k], seq[k + 1]) ELSE kept[k]
      BY <1>10, <3>1
    <3>3. kept[k] \in Seq(F)
      BY <1>1, <1>14, <2>1
    <3>4. kept[k + 1] \in Seq(F)
      BY <1>3, <3>1, <3>2, <3>3
    <3> QED
      BY <3>4
  <2> QED
    BY <2>1
<1> HIDE DEF Q
<1>15. \A k \in Nat : k \in Q
  BY <1>13, <1>14, NumberInduction
<1>16. kept \in [0 .. L -> Seq(F)]
  <2>1. \A k \in 0 .. L : kept[k] \in Seq(F)
    BY <1>1, <1>15 DEF Q
  <2>2. kept = [k \in 0 .. L |-> kept[k]]
    BY <1>9
  <2> QED
    BY <2>1, <2>2
<1>17. \A k \in 1 .. L :
         kept[k] = IF k \in places THEN Append(kept[k - 1], seq[k]) ELSE kept[k - 1]
  BY <1>6, <1>10
<1> QED
  BY <1>2, <1>12, <1>16, <1>17 DEF L, IsKept

(* Its elements.                                                            *)
LEMMA OnlyElements ==
  ASSUME NEW E, NEW seq \in Seq(E), NEW places,
         NEW F, \A i \in DOMAIN seq : i \in places => seq[i] \in F
  PROVE  Only(seq, places) \in Seq(F)
<1>1. Len(seq) \in 0 .. Len(seq)
  OBVIOUS
<1> QED
  BY <1>1, OnlyRecurs DEF IsKept

-----------------------------------------------------------------------------
(* Sums over the elements of a sequence.                                    *)
Weights(w, E) == \A e \in E : w[e] \in Int

Weigh(w, s) == SumFunctionOnSet([i \in DOMAIN s |-> w[s[i]]], DOMAIN s)

(* They can be formed.                                                      *)
LEMMA WeighType ==
  ASSUME NEW E, NEW w, Weights(w, E), NEW s \in Seq(E)
  PROVE  /\ DOMAIN s = 1 .. Len(s) /\ Len(s) \in Nat
         /\ Summable([i \in DOMAIN s |-> w[s[i]]], DOMAIN s)
         /\ Weigh(w, s) \in Int
<1>1. DOMAIN s = 1 .. Len(s) /\ Len(s) \in Nat /\ \A i \in DOMAIN s : s[i] \in E
  OBVIOUS
<1>2. IsFiniteSet(DOMAIN s)
  BY <1>1, FS_Interval
<1>3. Summable([i \in DOMAIN s |-> w[s[i]]], DOMAIN s)
  BY <1>1, <1>2 DEF Summable, Weights
<1> QED
  BY <1>1, <1>3, SumInteger DEF Weigh

(* The empty sequence weighs nothing ...                                    *)
LEMMA WeighEmpty ==
  ASSUME NEW w
  PROVE  Weigh(w, <<>>) = 0
<1>1. DOMAIN <<>> = {}
  OBVIOUS
<1> QED
  BY <1>1, SumEmpty DEF Weigh

(* ... and every element adds its weight.                                   *)
LEMMA WeighAppend ==
  ASSUME NEW E, NEW w, Weights(w, E), NEW s \in Seq(E), NEW e \in E
  PROVE  Weigh(w, Append(s, e)) = Weigh(w, s) + w[e]
<1> DEFINE t == Append(s, e)
           f == [i \in DOMAIN s |-> w[s[i]]]
           g == [i \in DOMAIN t |-> w[t[i]]]
           n == Len(s)
<1>1. /\ n \in Nat /\ DOMAIN s = 1 .. n /\ DOMAIN t = 1 .. n + 1
      /\ t[n + 1] = e /\ \A i \in 1 .. n : t[i] = s[i] /\ s[i] \in E
  OBVIOUS
<1> HIDE DEF n, t
<1>2. /\ \A i \in 1 .. n : f[i] \in Int /\ g[i] = f[i]
      /\ g[n + 1] = w[e] /\ g[n + 1] \in Int
  BY <1>1 DEF Weights
<1> HIDE DEF f, g
<1>3. SumFunctionOnSet(g, 1 .. n + 1) = SumFunctionOnSet(f, 1 .. n) + g[n + 1]
  BY <1>1, <1>2, SumAppended
<1>4. Weigh(w, t) = SumFunctionOnSet(g, 1 .. n + 1) /\ Weigh(w, s) = SumFunctionOnSet(f, 1 .. n)
  BY <1>1 DEF Weigh, f, g
<1> QED
  BY <1>2, <1>3, <1>4 DEF t

(* Equal elements, equal weights.                                           *)
LEMMA WeighSame ==
  ASSUME NEW E, NEW w, NEW v, \A e \in E : w[e] = v[e], NEW s \in Seq(E)
  PROVE  Weigh(w, s) = Weigh(v, s)
<1>1. \A i \in DOMAIN s : s[i] \in E
  OBVIOUS
<1>2. [i \in DOMAIN s |-> w[s[i]]] = [i \in DOMAIN s |-> v[s[i]]]
  BY <1>1
<1> QED
  BY <1>2 DEF Weigh

(* One sequence after another.                                              *)
LEMMA WeighJoined ==
  ASSUME NEW E, NEW w, Weights(w, E), NEW s \in Seq(E), NEW t \in Seq(E)
  PROVE  Weigh(w, s \o t) = Weigh(w, s) + Weigh(w, t)
<1> DEFINE f == [i \in DOMAIN s |-> w[s[i]]]
           g == [i \in DOMAIN t |-> w[t[i]]]
           h == [i \in DOMAIN (s \o t) |-> w[(s \o t)[i]]]
           m == Len(s)
           n == Len(t)
           Q == {k \in Nat : k <= n =>
                   SumFunctionOnSet(h, 1 .. m + k)
                     = SumFunctionOnSet(f, 1 .. m) + SumFunctionOnSet(g, 1 .. k)}
<1>1. /\ m \in Nat /\ n \in Nat
      /\ DOMAIN s = 1 .. m /\ DOMAIN t = 1 .. n /\ DOMAIN (s \o t) = 1 .. m + n
      /\ \A i \in 1 .. m : (s \o t)[i] = s[i] /\ s[i] \in E
      /\ \A i \in 1 .. n : (s \o t)[m + i] = t[i] /\ t[i] \in E
  OBVIOUS
<1> HIDE DEF m, n
<1>2. /\ \A i \in 1 .. m : h[i] = f[i] /\ f[i] \in Int
      /\ \A i \in 1 .. n : h[m + i] = g[i] /\ g[i] \in Int
  <2>1. \A i \in 1 .. m : i \in 1 .. m + n
    BY <1>1
  <2>2. \A i \in 1 .. n : m + i \in 1 .. m + n
    BY <1>1
  <2> QED
    BY <1>1, <2>1, <2>2 DEF Weights
<1> HIDE DEF f, g, h
<1>3. Summable(f, 1 .. m)
  BY <1>1, <1>2, FS_Interval DEF Summable
<1>4. 0 \in Q
  <2>1. m + 0 = m /\ 1 .. 0 = {}
    BY <1>1
  <2>2. SumFunctionOnSet(h, 1 .. m) = SumFunctionOnSet(f, 1 .. m)
    BY <1>2, <1>3, SumSame
  <2> QED
    BY <1>3, <2>1, <2>2, SumEmpty, SumInteger
<1>5. ASSUME NEW k \in Nat, k \in Q PROVE k + 1 \in Q
  <2>1. SUFFICES ASSUME k + 1 <= n
                 PROVE  SumFunctionOnSet(h, 1 .. m + (k + 1))
                          = SumFunctionOnSet(f, 1 .. m) + SumFunctionOnSet(g, 1 .. k + 1)
    OBVIOUS
  <2>2. /\ m + k \in Nat /\ (m + k) + 1 = m + (k + 1) /\ k + 1 \in 1 .. n
        /\ k <= n
    BY <1>1, <2>1
  <2>3. \A i \in 1 .. m + k : h[i] \in Int
    <3>1. ASSUME NEW i \in 1 .. m + k PROVE h[i] \in Int
      <4>1. CASE i <= m
        <5>1. i \in 1 .. m
          BY <1>1, <4>1
        <5> QED
          BY <1>2, <5>1
      <4>2. CASE i > m
        <5>1. i - m \in 1 .. n /\ m + (i - m) = i
          BY <1>1, <2>1, <4>2
        <5> QED
          BY <1>2, <5>1
      <4> QED
        BY <1>1, <4>1, <4>2
    <3> QED
      BY <3>1
  <2>4. h[(m + k) + 1] = g[k + 1] /\ g[k + 1] \in Int
    BY <1>2, <2>2
  <2>5. \A i \in 1 .. k : g[i] \in Int
    BY <1>1, <1>2, <2>1
  <2>6. /\ SumFunctionOnSet(h, 1 .. (m + k) + 1) = SumFunctionOnSet(h, 1 .. m + k) + h[(m + k) + 1]
        /\ SumFunctionOnSet(g, 1 .. k + 1) = SumFunctionOnSet(g, 1 .. k) + g[k + 1]
    BY <2>2, <2>3, <2>4, <2>5, SumAppended
  <2>7. /\ SumFunctionOnSet(f, 1 .. m) \in Int /\ SumFunctionOnSet(g, 1 .. k) \in Int
    <3>1. Summable(g, 1 .. k)
      BY <2>5, FS_Interval DEF Summable
    <3> QED
      BY <1>3, <3>1, SumInteger
  <2>8. SumFunctionOnSet(h, 1 .. m + k)
          = SumFunctionOnSet(f, 1 .. m) + SumFunctionOnSet(g, 1 .. k)
    BY <1>5, <2>2
  <2> QED
    BY <2>2, <2>4, <2>6, <2>7, <2>8
<1> HIDE DEF Q
<1>6. n \in Q
  BY <1>1, <1>4, <1>5, NumberInduction
<1>7. /\ Weigh(w, s \o t) = SumFunctionOnSet(h, 1 .. m + n)
      /\ Weigh(w, s) = SumFunctionOnSet(f, 1 .. m)
      /\ Weigh(w, t) = SumFunctionOnSet(g, 1 .. n)
  BY <1>1 DEF Weigh, f, g, h
<1> QED
  BY <1>1, <1>6, <1>7 DEF Q

(* The weights of the elements at the given places.                         *)
WeightsAt(w, seq, places) == [i \in DOMAIN seq |-> IF i \in places THEN w[seq[i]] ELSE 0]

(* A sum over the elements kept is one over their places.                   *)
LEMMA WeighOnly ==
  ASSUME NEW E, NEW seq \in Seq(E), NEW places,
         NEW F, \A i \in DOMAIN seq : i \in places => seq[i] \in F,
         NEW w, Weights(w, F)
  PROVE  /\ Only(seq, places) \in Seq(F)
         /\ Weigh(w, Only(seq, places))
              = SumFunctionOnSet(WeightsAt(w, seq, places), DOMAIN seq)
<1> DEFINE g == [i \in DOMAIN seq |-> IF i \in places THEN w[seq[i]] ELSE 0]
           L == Len(seq)
<1>1. L \in Nat /\ DOMAIN seq = 1 .. L
  OBVIOUS
<1>2. PICK kept : IsKept(kept, seq, places, F)
  BY OnlyRecurs
<1> USE DEF IsKept
<1> HIDE DEF L
<1>3. \A i \in 1 .. L : g[i] = (IF i \in places THEN w[seq[i]] ELSE 0) /\ g[i] \in Int
  BY <1>1 DEF Weights
<1> HIDE DEF g
<1> DEFINE Q == {k \in Nat : k <= L => Weigh(w, kept[k]) = SumFunctionOnSet(g, 1 .. k)}
<1>4. 0 \in Q
  <2>1. 1 .. 0 = {}
    OBVIOUS
  <2> QED
    BY <1>2, <2>1, WeighEmpty, SumEmpty
<1>5. ASSUME NEW k \in Nat, k \in Q PROVE k + 1 \in Q
  <2>1. SUFFICES ASSUME k + 1 <= L
                 PROVE  Weigh(w, kept[k + 1]) = SumFunctionOnSet(g, 1 .. k + 1)
    OBVIOUS
  <2>2. k + 1 \in 1 .. L /\ (k + 1) - 1 = k /\ k \in 0 .. L /\ 1 .. k \subseteq 1 .. L
    BY <1>1, <2>1
  <2>3. kept[k] \in Seq(F) /\ Weigh(w, kept[k]) = SumFunctionOnSet(g, 1 .. k)
    BY <1>2, <1>5, <2>2 DEF L
  <2>4. \A i \in 1 .. k : g[i] \in Int
    BY <1>3, <2>2
  <2>5. SumFunctionOnSet(g, 1 .. k + 1) = SumFunctionOnSet(g, 1 .. k) + g[k + 1]
    BY <1>3, <2>2, <2>4, SumAppended
  <2>6. SumFunctionOnSet(g, 1 .. k) \in Int
    <3>1. Summable(g, 1 .. k)
      BY <2>4, FS_Interval DEF Summable
    <3> QED
      BY <3>1, SumInteger
  <2>7. CASE k + 1 \in places
    <3>1. kept[k + 1] = Append(kept[k], seq[k + 1]) /\ seq[k + 1] \in F
      BY <1>1, <1>2, <2>2, <2>7 DEF L
    <3>2. Weigh(w, kept[k + 1]) = Weigh(w, kept[k]) + w[seq[k + 1]]
      BY <2>3, <3>1, WeighAppend
    <3> QED
      BY <1>3, <2>2, <2>3, <2>5, <2>7, <3>2
  <2>8. CASE k + 1 \notin places
    <3>1. kept[k + 1] = kept[k]
      BY <1>2, <2>2, <2>8 DEF L
    <3> QED
      BY <1>3, <2>2, <2>3, <2>5, <2>6, <2>8, <3>1
  <2> QED
    BY <2>7, <2>8
<1> HIDE DEF Q
<1>6. L \in Q
  BY <1>1, <1>4, <1>5, NumberInduction
<1>7. kept[L] \in Seq(F) /\ Only(seq, places) = kept[L]
  BY <1>1, <1>2 DEF L
<1>8. Weigh(w, kept[L]) = SumFunctionOnSet(g, 1 .. L)
  BY <1>1, <1>6 DEF Q
<1> QED
  BY <1>1, <1>7, <1>8 DEF g, WeightsAt

(* joined[i] are the first i sequences, one after the other.                *)
IsJoined(joined, f, n, E) ==
  /\ \A k \in 1 .. n : joined[k] \in Seq(E)
  /\ joined[1] = f[1]
  /\ \A k \in 2 .. n : joined[k] = joined[k - 1] \o f[k]
  /\ FlattenSeq(f) = joined[n]

(* Several sequences one after the other.                                   *)
LEMMA FlattenRecurs ==
  ASSUME NEW E, NEW n \in Nat \ {0}, NEW f \in [1 .. n -> Seq(E)]
  PROVE  \E joined : IsJoined(joined, f, n, E)
<1> DEFINE V == Seq(E)
           step == [k \in 1 .. n |-> [s \in V |-> IF k = 1 THEN f[k] ELSE s \o f[k]]]
           body(g) == [i \in 1 .. n |-> IF i = 1 THEN f[i] ELSE g[i - 1] \o f[i]]
           joined == CHOOSE g : g = body(g)
<1>1. Len(f) = n /\ <<>> \in V
  OBVIOUS
<1>2. FlattenSeq(f) = joined[n]
  BY <1>1 DEF FlattenSeq
<1>3. \A s, u \in V : s \o u \in V
  OBVIOUS
<1> HIDE DEF V
<1>4. \A k \in 1 .. n : f[k] \in V
  BY DEF V
<1>5. StepsIn(step, n, V)
  BY <1>3, <1>4 DEF StepsIn
<1>6. PICK g : Recurs(g, n, V, <<>>, step)
  <2> HIDE DEF step
  <2> QED
    BY <1>1, <1>5, RecursionExists
<1>7. \A k \in 1 .. n : /\ g[k] = IF k = 1 THEN f[k] ELSE g[k - 1] \o f[k]
                        /\ g[k] \in V
  <2>1. \A k \in 1 .. n : k - 1 \in 0 .. n /\ k \in 0 .. n
    OBVIOUS
  <2>2. \A k \in 1 .. n : g[k - 1] \in V
    BY <1>6, <2>1 DEF Recurs
  <2> QED
    BY <1>6, <2>1, <2>2 DEF Recurs
<1> HIDE DEF step
<1> DEFINE g2 == [k \in 1 .. n |-> g[k]]
<1>8. g2 = body(g2)
  <2>1. \A k \in 1 .. n : k # 1 => k - 1 \in 1 .. n
    OBVIOUS
  <2>2. \A k \in 1 .. n : g2[k] = body(g2)[k]
    BY <1>7, <2>1
  <2> QED
    BY <2>2
<1>9. joined = body(joined)
  BY <1>8
<1> HIDE DEF joined, g2
<1>10. \A k \in 1 .. n : joined[k] = IF k = 1 THEN f[k] ELSE joined[k - 1] \o f[k]
  BY <1>9
<1> DEFINE Q == {k \in Nat : k + 1 <= n => joined[k + 1] \in V}
<1>11. 0 \in Q
  <2>1. 1 \in 1 .. n
    OBVIOUS
  <2>2. joined[1] = f[1]
    BY <1>10, <2>1
  <2> QED
    BY <1>4, <2>1, <2>2
<1>12. ASSUME NEW k \in Nat, k \in Q PROVE k + 1 \in Q
  <2>1. CASE (k + 1) + 1 <= n
    <3>1. (k + 1) + 1 \in 1 .. n /\ (k + 1) + 1 # 1 /\ ((k + 1) + 1) - 1 = k + 1 /\ k + 1 <= n
      BY <2>1
    <3>2. joined[(k + 1) + 1] = joined[k + 1] \o f[(k + 1) + 1]
      BY <1>10, <3>1
    <3>3. joined[k + 1] \in V /\ f[(k + 1) + 1] \in V
      BY <1>4, <1>12, <3>1
    <3>4. joined[(k + 1) + 1] \in V
      BY <1>3, <3>2, <3>3
    <3> QED
      BY <3>4
  <2> QED
    BY <2>1
<1> HIDE DEF Q
<1>13. \A k \in 1 .. n : joined[k] \in V
  <2>1. ASSUME NEW k \in 1 .. n PROVE joined[k] \in V
    <3>1. k - 1 \in Nat /\ (k - 1) + 1 = k
      OBVIOUS
    <3>2. k - 1 \in Q
      BY <1>11, <1>12, <3>1, NumberInduction
    <3> QED
      BY <3>1, <3>2 DEF Q
  <2> QED
    BY <2>1
<1>14. joined[1] = f[1] /\ \A k \in 2 .. n : joined[k] = joined[k - 1] \o f[k]
  <2>1. 1 \in 1 .. n /\ \A k \in 2 .. n : k \in 1 .. n /\ k # 1
    OBVIOUS
  <2> QED
    BY <1>10, <2>1
<1> QED
  BY <1>2, <1>13, <1>14 DEF V, IsJoined

(* The weights of the sequences.                                            *)
WeightsOf(w, f, n) == [k \in 1 .. n |-> Weigh(w, f[k])]

(* Their weights.                                                           *)
LEMMA WeighFlat ==
  ASSUME NEW E, NEW n \in Nat \ {0}, NEW f \in [1 .. n -> Seq(E)], NEW w, Weights(w, E)
  PROVE  /\ FlattenSeq(f) \in Seq(E)
         /\ Weigh(w, FlattenSeq(f)) = SumFunctionOnSet(WeightsOf(w, f, n), 1 .. n)
<1> DEFINE g == [k \in 1 .. n |-> Weigh(w, f[k])]
<1>1. PICK joined : IsJoined(joined, f, n, E)
  BY FlattenRecurs
<1> USE DEF IsJoined
<1>2. \A k \in 1 .. n : g[k] = Weigh(w, f[k]) /\ g[k] \in Int /\ f[k] \in Seq(E)
  <2>1. \A k \in 1 .. n : f[k] \in Seq(E)
    OBVIOUS
  <2> QED
    BY <2>1, WeighType
<1> HIDE DEF g
<1> DEFINE Q == {k \in Nat : k + 1 <= n =>
                   Weigh(w, joined[k + 1]) = SumFunctionOnSet(g, 1 .. k + 1)}
<1>3. 0 \in Q
  <2>1. 0 + 1 = 1 /\ 1 \in 1 .. n /\ 1 .. 1 = {1} /\ 1 .. 1 \subseteq 1 .. n
    OBVIOUS
  <2>2. Summable(g, 1 .. 1)
    <3>1. IsFiniteSet({1})
      BY FS_Singleton
    <3> QED
      BY <1>2, <2>1, <3>1 DEF Summable
  <2>3. SumFunctionOnSet(g, 1 .. 1) = g[1]
    BY <2>1, <2>2, SumSingle
  <2> QED
    BY <1>1, <1>2, <2>1, <2>3
<1>4. ASSUME NEW k \in Nat, k \in Q PROVE k + 1 \in Q
  <2>1. SUFFICES ASSUME (k + 1) + 1 <= n
                 PROVE  Weigh(w, joined[(k + 1) + 1]) = SumFunctionOnSet(g, 1 .. (k + 1) + 1)
    OBVIOUS
  <2>2. /\ (k + 1) + 1 \in 2 .. n /\ ((k + 1) + 1) - 1 = k + 1
        /\ k + 1 \in 1 .. n /\ (k + 1) + 1 \in 1 .. n /\ k + 1 \in Nat
    BY <2>1
  <2>3. joined[(k + 1) + 1] = joined[k + 1] \o f[(k + 1) + 1] /\ joined[k + 1] \in Seq(E)
    BY <1>1, <2>2
  <2>4. Weigh(w, joined[(k + 1) + 1]) = Weigh(w, joined[k + 1]) + Weigh(w, f[(k + 1) + 1])
    BY <1>2, <2>2, <2>3, WeighJoined
  <2>5. \A i \in 1 .. k + 1 : g[i] \in Int
    BY <1>2, <2>1
  <2>6. SumFunctionOnSet(g, 1 .. (k + 1) + 1)
          = SumFunctionOnSet(g, 1 .. k + 1) + g[(k + 1) + 1]
    BY <1>2, <2>2, <2>5, SumAppended
  <2> QED
    BY <1>2, <1>4, <2>2, <2>4, <2>6
<1> HIDE DEF Q
<1>5. n - 1 \in Nat /\ (n - 1) + 1 = n
  OBVIOUS
<1>6. n - 1 \in Q
  BY <1>3, <1>4, <1>5, NumberInduction
<1>7. Weigh(w, joined[n]) = SumFunctionOnSet(g, 1 .. n)
  BY <1>5, <1>6 DEF Q
<1> QED
  BY <1>1, <1>7 DEF g, WeightsOf

-----------------------------------------------------------------------------
(* g takes q of f, in the order of the indices, as far as there is.         *)
TakesInOrder(g, f, q, S, N) ==
  /\ N \in Nat /\ q \in Nat /\ S \in SUBSET (1 .. N)
  /\ \A x \in S : f[x] \in Nat
  /\ \A x \in S : g[x] = Least(f[x], Most(0, q - SumFunctionOnSet(f, {y \in S : y < x})))

(* What is taken of several stocks, the first ones first, is what is asked  *)
(* for or all there is; and all of each stock if more was asked for.        *)
LEMMA TakenInOrder ==
  ASSUME NEW N, NEW S, NEW f, NEW q, NEW g, TakesInOrder(g, f, q, S, N)
  PROVE  /\ \A x \in S : g[x] \in Nat /\ g[x] <= f[x]
         /\ SumFunctionOnSet(f, S) \in Nat
         /\ SumFunctionOnSet(g, S) \in Nat
         /\ SumFunctionOnSet(g, S) = Least(q, SumFunctionOnSet(f, S))
         /\ SumFunctionOnSet(g, S) < q => \A x \in S : g[x] = f[x]
<1> DEFINE UpTo(m) == {y \in S : y <= m}
           SumF(T) == SumFunctionOnSet(f, T)
           SumG(T) == SumFunctionOnSet(g, T)
           Q == {m \in Nat : SumG(UpTo(m)) = Least(q, SumF(UpTo(m)))}
<1>a. N \in Nat /\ q \in Nat /\ S \in SUBSET (1 .. N) /\ \A x \in S : f[x] \in Nat
  BY DEF TakesInOrder
<1>0. \A y \in S : y \in Int /\ 1 <= y /\ y <= N
  BY <1>a
<1>1. \A T \in SUBSET S : IsFiniteSet(T)
  <2>1. IsFiniteSet(1 .. N)
    BY <1>a, FS_Interval
  <2>2. \A T \in SUBSET S : T \subseteq 1 .. N
    BY <1>a
  <2> QED
    BY <2>1, <2>2, FS_Subset
<1>2. \A T \in SUBSET S : SumF(T) \in Nat
  <2>1. ASSUME NEW T \in SUBSET S PROVE SumF(T) \in Nat
    <3>1. \A x \in T : f[x] \in Nat
      BY <1>a
    <3> QED
      BY <1>1, <3>1, SumNatural
  <2> QED
    BY <2>1
<1>3. \A x \in S : {y \in S : y < x} \in SUBSET S
  OBVIOUS
<1>4. \A x \in S : g[x] \in Nat /\ g[x] <= f[x]
  <2>1. ASSUME NEW x \in S PROVE g[x] \in Nat /\ g[x] <= f[x]
    <3>1. SumF({y \in S : y < x}) \in Nat
      BY <1>2, <1>3
    <3>2. g[x] = Least(f[x], Most(0, q - SumF({y \in S : y < x})))
      BY DEF TakesInOrder
    <3> HIDE DEF SumF
    <3> QED
      BY <1>a, <3>1, <3>2 DEF Least, Most
  <2> QED
    BY <2>1
<1>5. \A T \in SUBSET S : Summable(f, T) /\ Summable(g, T)
  BY <1>1, <1>4, <1>a DEF Summable
<1>6. 0 \in Q
  <2>0. \A y \in S : ~(y <= 0)
    BY <1>0
  <2>1. UpTo(0) = {}
    BY <2>0
  <2> QED
    BY <1>a, <2>1, SumEmpty DEF Least
<1>7. ASSUME NEW m \in Nat, m \in Q PROVE m + 1 \in Q
  <2>0. \A y \in S : (y <= m + 1 <=> y <= m \/ y = m + 1) /\ (y < m + 1 <=> y <= m)
    BY <1>0
  <2>1. UpTo(m) \in SUBSET S
    OBVIOUS
  <2>2. CASE m + 1 \in S
    <3>1. /\ UpTo(m + 1) = UpTo(m) \cup {m + 1} /\ m + 1 \notin UpTo(m)
          /\ UpTo(m) \cup {m + 1} \in SUBSET S
          /\ {y \in S : y < m + 1} = UpTo(m)
      <4>1. ~(m + 1 <= m)
        OBVIOUS
      <4>2. UpTo(m + 1) = UpTo(m) \cup {m + 1}
        BY <2>0, <2>2
      <4>3. {y \in S : y < m + 1} = UpTo(m)
        BY <2>0
      <4> QED
        BY <2>2, <4>1, <4>2, <4>3
    <3>2. /\ Summable(f, UpTo(m) \cup {m + 1}) /\ Summable(g, UpTo(m) \cup {m + 1})
      BY <1>5, <3>1
    <3>3. g[m + 1] = Least(f[m + 1], Most(0, q - SumF(UpTo(m))))
      BY <2>2, <3>1 DEF TakesInOrder
    <3>4. f[m + 1] \in Nat /\ SumF(UpTo(m)) \in Nat
      BY <1>2, <1>a, <2>1, <2>2
    <3>5. SumG(UpTo(m)) = Least(q, SumF(UpTo(m)))
      BY <1>7
    <3> HIDE DEF UpTo
    <3>6. /\ SumF(UpTo(m) \cup {m + 1}) = f[m + 1] + SumF(UpTo(m))
          /\ SumG(UpTo(m) \cup {m + 1}) = g[m + 1] + SumG(UpTo(m))
      BY <3>1, <3>2, SumInsert
    <3> HIDE DEF SumF, SumG
    <3>7. SumG(UpTo(m + 1)) = Least(q, SumF(UpTo(m + 1)))
      <4>1. /\ SumF(UpTo(m + 1)) = f[m + 1] + SumF(UpTo(m))
            /\ SumG(UpTo(m + 1)) = g[m + 1] + SumG(UpTo(m))
        BY <3>1, <3>6
      <4> QED
        BY <1>a, <3>3, <3>4, <3>5, <4>1 DEF Least, Most
    <3> QED
      BY <3>7
  <2>3. CASE m + 1 \notin S
    <3>1. UpTo(m + 1) = UpTo(m)
      BY <2>0, <2>3
    <3>2. SumG(UpTo(m)) = Least(q, SumF(UpTo(m)))
      BY <1>7
    <3> QED
      BY <3>1, <3>2
  <2> QED
    BY <2>2, <2>3
<1>8. UpTo(N) = S
  BY <1>0
<1> HIDE DEF Q
<1>9. N \in Q
  BY <1>6, <1>7, <1>a, NumberInduction
<1>10. SumG(S) = Least(q, SumF(S))
  <2>1. SumG(UpTo(N)) = Least(q, SumF(UpTo(N)))
    BY <1>9 DEF Q
  <2> QED
    BY <1>8, <2>1
<1>11. SumF(S) \in Nat /\ SumG(S) \in Nat
  <2>1. SumF(S) \in Nat
    BY <1>2
  <2> HIDE DEF SumF, SumG
  <2> QED
    BY <1>10, <1>a, <2>1 DEF Least
<1>12. ASSUME SumG(S) < q, NEW x \in S PROVE g[x] = f[x]
  <2>1. SumF(S) < q
    <3> HIDE DEF SumF, SumG
    <3> QED
      BY <1>10, <1>11, <1>12, <1>a DEF Least
  <2> DEFINE A == {y \in S : y < x}
  <2>2. /\ A \in SUBSET S /\ A \cup {x} \in SUBSET S /\ x \notin A
    <3>1. x \in Nat /\ ~(x < x)
      BY <1>0, <1>a
    <3> QED
      BY <3>1
  <2>3. Summable(f, A \cup {x})
    BY <1>5, <2>2
  <2>4. SumF(A) \in Nat /\ f[x] \in Nat /\ g[x] = Least(f[x], Most(0, q - SumF(A)))
    BY <1>2, <1>a, <2>2 DEF TakesInOrder
  <2> HIDE DEF A
  <2>5. SumF(A \cup {x}) = f[x] + SumF(A)
    BY <2>2, <2>3, SumInsert
  <2>6. SumF(A \cup {x}) <= SumF(S)
    <3>1. S = (A \cup {x}) \cup (S \ (A \cup {x})) /\ S \ (A \cup {x}) \in SUBSET S
      BY <2>2
    <3>2. SumF((A \cup {x}) \cup (S \ (A \cup {x}))) = SumF(A \cup {x}) + SumF(S \ (A \cup {x}))
      <4>1. Summable(f, S) /\ (A \cup {x}) \cap (S \ (A \cup {x})) = {}
        BY <1>5
      <4> QED
        BY <2>2, <3>1, <4>1, SumUnion
    <3>3. SumF(S \ (A \cup {x})) \in Nat /\ SumF(A \cup {x}) \in Nat
      BY <1>2, <2>2, <3>1
    <3>4. SumF(S) = SumF(A \cup {x}) + SumF(S \ (A \cup {x}))
      BY <3>1, <3>2
    <3> HIDE DEF SumF
    <3> QED
      BY <3>3, <3>4
  <2> HIDE DEF SumF
  <2> QED
    BY <1>11, <1>a, <2>1, <2>4, <2>5, <2>6 DEF Least, Most
<1> QED
  BY <1>4, <1>10, <1>11, <1>12

-----------------------------------------------------------------------------
(* A sum over the elements of a part.                                       *)
LEMMA SumWhere ==
  ASSUME NEW S, NEW f, Summable(f, S), NEW T \in SUBSET S, NEW g,
         \A x \in T : g[x] = f[x], \A x \in S \ T : g[x] = 0
  PROVE  SumFunctionOnSet(g, S) = SumFunctionOnSet(f, T)
<1>1. S = T \cup (S \ T) /\ S \ T \in SUBSET S /\ T \cap (S \ T) = {}
  OBVIOUS
<1>2. Summable(g, S) /\ Summable(f, T) /\ IsFiniteSet(S \ T)
  BY <1>1, FS_Subset DEF Summable
<1>3. SumFunctionOnSet(g, T \cup (S \ T)) = SumFunctionOnSet(g, T) + SumFunctionOnSet(g, S \ T)
  BY <1>1, <1>2, SumUnion
<1>4. SumFunctionOnSet(g, S \ T) = 0
  BY <1>2, SumZero
<1>5. SumFunctionOnSet(g, T) = SumFunctionOnSet(f, T) /\ SumFunctionOnSet(f, T) \in Int
  BY <1>2, SumSame, SumInteger
<1>6. SumFunctionOnSet(g, S) = SumFunctionOnSet(g, T) + SumFunctionOnSet(g, S \ T)
  BY <1>1, <1>3
<1> QED
  BY <1>4, <1>5, <1>6

(* The days are a finite number.                                            *)
LEMMA Days == Day = 1 .. MaxDay /\ IsFiniteSet(Day) /\ MaxDay \in Nat \ {0}
  BY WashSaleAssumption, FS_Interval DEF Day, WashSaleAssumption

(* g adds up f by the days with which the elements are labelled.            *)
SumsDays(g, f, S, label) ==
  /\ \A x \in S : label[x] \in Day
  /\ \A d \in Day : g[d] = SumFunctionOnSet(f, {x \in S : label[x] = d})

(* A sum over elements that belong to days is the sum of the sums of the    *)
(* days.                                                                    *)
LEMMA SumByDay ==
  ASSUME NEW S, NEW f, Summable(f, S), NEW label, NEW g, SumsDays(g, f, S, label)
  PROVE  SumFunctionOnSet(g, Day) = SumFunctionOnSet(f, S)
<1> DEFINE part == [y \in 0 .. MaxDay |-> {x \in S : label[x] = y}]
           h == [y \in 0 .. MaxDay |-> SumFunctionOnSet(f, part[y])]
<1>1. 0 .. MaxDay = {0} \cup Day /\ 0 \notin Day /\ MaxDay \in Nat
  BY Days
<1>2. SumsParts(h, MaxDay, f, S, label, part)
  <2>1. \A x \in S : label[x] \in 0 .. MaxDay
    BY <1>1 DEF SumsDays
  <2>2. \A y \in 0 .. MaxDay : part[y] \in SUBSET S
    OBVIOUS
  <2>3. \A y \in 0 .. MaxDay : \A x \in S : x \in part[y] <=> label[x] = y
    OBVIOUS
  <2> HIDE DEF part
  <2>4. \A y \in 0 .. MaxDay : h[y] = SumFunctionOnSet(f, part[y])
    OBVIOUS
  <2> HIDE DEF h
  <2> QED
    BY <2>1, <2>2, <2>3, <2>4 DEF SumsParts
<1>3. SumFunctionOnSet(h, 0 .. MaxDay) = SumFunctionOnSet(f, S)
  BY <1>1, <1>2, SumByLabel
<1>4. h[0] = 0
  <2>1. part[0] = {} /\ 0 \in 0 .. MaxDay
    BY <1>1 DEF SumsDays
  <2> HIDE DEF part
  <2> QED
    BY <2>1, SumEmpty
<1>5. \A d \in Day : h[d] = g[d] /\ h[d] \in Int
  <2>1. ASSUME NEW d \in Day PROVE h[d] = g[d] /\ h[d] \in Int
    <3>1. h[d] = SumFunctionOnSet(f, {x \in S : label[x] = d})
      BY <1>1
    <3>2. Summable(f, {x \in S : label[x] = d})
      BY SummableSubset
    <3> HIDE DEF h
    <3> QED
      BY <3>1, <3>2, SumInteger DEF SumsDays
  <2> QED
    BY <2>1
<1> HIDE DEF h
<1>6. Summable(h, Day \cup {0}) /\ Summable(h, Day)
  <2>1. IsFiniteSet(Day) /\ IsFiniteSet(Day \cup {0})
    BY Days, FS_AddElement
  <2>2. \A d \in Day \cup {0} : h[d] \in Int
    BY <1>4, <1>5
  <2> QED
    BY <2>1, <2>2 DEF Summable
<1>7. SumFunctionOnSet(h, Day \cup {0}) = h[0] + SumFunctionOnSet(h, Day)
  BY <1>1, <1>6, SumInsert
<1>8. SumFunctionOnSet(g, Day) = SumFunctionOnSet(h, Day) /\ SumFunctionOnSet(h, Day) \in Int
  BY <1>5, <1>6, SumSame, SumInteger
<1>9. Day \cup {0} = 0 .. MaxDay
  BY <1>1
<1>10. SumFunctionOnSet(h, Day \cup {0}) = SumFunctionOnSet(f, S)
  BY <1>3, <1>9
<1> QED
  BY <1>4, <1>7, <1>8, <1>10

-----------------------------------------------------------------------------
(* The parts of the engine.                                                 *)

(* A deferral on shares that block a sale.                                  *)
Lot == [buy : Day, shares : Nat \ {0}, loss : Nat, origin : Origins]

(* What a blocked lot weighs: its shares, if they were acquired that day ... *)
SharesOn(d) == [lot \in Lot |-> IF lot.buy = d THEN lot.shares ELSE 0]

(* ... and its loss, if it is labelled with one of these sales.             *)
LossFrom(O) == [lot \in Lot |-> IF lot.origin \in O THEN lot.loss ELSE 0]

OnDay(lots, d) == {i \in DOMAIN lots : lots[i].buy = d}

(* Shares and losses can be added up.                                       *)
LEMMA LotWeights ==
  /\ \A d : Weights(SharesOn(d), Lot)
  /\ \A O : Weights(LossFrom(O), Lot)
<1>1. \A lot \in Lot : lot.shares \in Nat /\ lot.loss \in Nat
  BY DEF Lot
<1> QED
  BY <1>1 DEF Weights, SharesOn, LossFrom

(* The shares blocked on a day.                                             *)
LEMMA BlockedWeighs ==
  ASSUME NEW lots \in Seq(Lot), NEW d
  PROVE  /\ BlockedOn(lots, d) = Weigh(SharesOn(d), lots)
         /\ BlockedOn(lots, d) \in Nat
         /\ BlockedOn(lots, d)
              = SumFunctionOnSet([i \in DOMAIN lots |-> lots[i].shares], OnDay(lots, d))
<1> DEFINE f == [i \in DOMAIN lots |-> lots[i].shares]
           g == [i \in DOMAIN lots |-> IF lots[i].buy = d THEN lots[i].shares ELSE 0]
<1>1. \A i \in DOMAIN lots : lots[i] \in Lot /\ lots[i].shares \in Nat
  <2>1. \A i \in DOMAIN lots : lots[i] \in Lot
    OBVIOUS
  <2> QED
    BY <2>1 DEF Lot
<1>2. g = [i \in DOMAIN lots |-> SharesOn(d)[lots[i]]]
  BY <1>1 DEF SharesOn
<1>3. BlockedOn(lots, d) = SumFunctionOnSet(g, DOMAIN lots)
  BY DEF BlockedOn, SumLots, SumOver
<1>4. IsFiniteSet(DOMAIN lots)
  BY WeighType, LotWeights DEF Summable
<1>5. OnDay(lots, d) \in SUBSET DOMAIN lots
  BY DEF OnDay
<1>6. /\ Summable(f, DOMAIN lots)
      /\ \A i \in OnDay(lots, d) : g[i] = f[i]
      /\ \A i \in DOMAIN lots \ OnDay(lots, d) : g[i] = 0
      /\ \A i \in DOMAIN lots : g[i] \in Nat
  BY <1>1, <1>4 DEF Summable, OnDay
<1>7. BlockedOn(lots, d) = Weigh(SharesOn(d), lots)
  BY <1>2, <1>3 DEF Weigh
<1> HIDE DEF f, g
<1>8. SumFunctionOnSet(g, DOMAIN lots) = SumFunctionOnSet(f, OnDay(lots, d))
  BY <1>5, <1>6, SumWhere
<1>9. SumFunctionOnSet(g, DOMAIN lots) \in Nat
  BY <1>4, <1>6, SumNatural
<1> QED
  BY <1>3, <1>7, <1>8, <1>9 DEF f

(* What a sale takes of the lots of a day: as many as it sells of that day, *)
(* or all.                                                                  *)
LEMMA TakenOfDay ==
  ASSUME NEW lots \in Seq(Lot), NEW sold \in [Day -> Nat], NEW d \in Day
  PROVE  /\ \A i \in OnDay(lots, d) : /\ Taken(lots, sold, i) \in Nat
                                      /\ Taken(lots, sold, i) <= lots[i].shares
         /\ SumFunctionOnSet([i \in DOMAIN lots |-> Taken(lots, sold, i)], OnDay(lots, d))
              = Least(sold[d], BlockedOn(lots, d))
<1> DEFINE f == [i \in DOMAIN lots |-> lots[i].shares]
           g == [i \in DOMAIN lots |-> Taken(lots, sold, i)]
           S == OnDay(lots, d)
           N == Len(lots)
<1>1. N \in Nat /\ DOMAIN lots = 1 .. N /\ S \in SUBSET DOMAIN lots
  BY DEF OnDay
<1>2. \A i \in DOMAIN lots : f[i] \in Nat /\ f[i] = lots[i].shares
  <2>1. \A i \in DOMAIN lots : lots[i] \in Lot
    OBVIOUS
  <2> QED
    BY <2>1 DEF Lot
<1>3. ASSUME NEW x \in S
      PROVE  g[x] = Least(f[x], Most(0, sold[d] - SumFunctionOnSet(f, {y \in S : y < x})))
  <2> DEFINE earlier == {j \in DOMAIN lots : j < x /\ lots[j].buy = lots[x].buy}
             e == [j \in earlier |-> lots[j].shares]
  <2>1. lots[x].buy = d /\ x \in DOMAIN lots /\ earlier = {y \in S : y < x}
    BY DEF OnDay
  <2>2. g[x] = Least(lots[x].shares, Most(0, sold[lots[x].buy] - SumFunctionOnSet(e, earlier)))
    BY <2>1 DEF Taken, SumOver
  <2>3. Summable(f, earlier) /\ \A j \in earlier : e[j] = f[j]
    <3>1. earlier \in SUBSET DOMAIN lots /\ IsFiniteSet(DOMAIN lots)
      BY <1>1, FS_Interval
    <3> QED
      BY <1>2, <3>1, FS_Subset DEF Summable
  <2> HIDE DEF e, earlier, f, g
  <2>4. SumFunctionOnSet(e, earlier) = SumFunctionOnSet(f, earlier)
    BY <2>3, SumSame
  <2> QED
    BY <1>2, <2>1, <2>2, <2>4
<1>4. sold[d] \in Nat
  OBVIOUS
<1>5. \A i \in S : g[i] = Taken(lots, sold, i) /\ f[i] = lots[i].shares
  BY <1>1
<1>6. BlockedOn(lots, d) = SumFunctionOnSet(f, S)
  BY BlockedWeighs
<1> HIDE DEF f, g, S, N
<1>7. /\ \A x \in S : g[x] \in Nat /\ g[x] <= f[x]
      /\ SumFunctionOnSet(g, S) = Least(sold[d], SumFunctionOnSet(f, S))
  <2>1. TakesInOrder(g, f, sold[d], S, N)
    BY <1>1, <1>2, <1>3, <1>4 DEF TakesInOrder
  <2> QED
    BY <2>1, TakenInOrder
<1>8. \A i \in S : Taken(lots, sold, i) \in Nat /\ Taken(lots, sold, i) <= lots[i].shares
  BY <1>5, <1>7
<1> QED
  BY <1>6, <1>7, <1>8 DEF g, S

(* The shares and the amounts of a replay divide evenly: where the model    *)
(* divides as the code does, which counts in decimals.                      *)
Evenly(amount, parts) == (amount \div parts) * parts = amount

(* The share of an amount that falls to some of its parts.                  *)
LEMMA ShareOf ==
  ASSUME NEW a \in Nat, NEW t \in Nat, NEW s \in Nat \ {0}, t <= s, Evenly(a * t, s)
  PROVE  /\ (a * t) \div s \in Nat
         /\ ((a * t) \div s) * s = a * t
         /\ (a * t) \div s <= a
         /\ t = s => (a * t) \div s = a
         /\ a > 0 /\ t > 0 => (a * t) \div s > 0
<1> DEFINE q == (a * t) \div s
<1>1. q * s = a * t
  BY DEF Evenly
<1>2. a * t \in Nat
  OBVIOUS
<1>3. q \in Nat
  BY <1>2
<1> HIDE DEF q
<1>4. q <= a
  <2>1. a * t <= a * s
    OBVIOUS
  <2>2. q * s <= a * s
    BY <1>1, <2>1
  <2>3. ASSUME q >= a + 1 PROVE FALSE
    <3>1. q * s >= (a + 1) * s
      BY <1>3, <2>3
    <3>2. (a + 1) * s = a * s + s
      OBVIOUS
    <3>3. a * s \in Nat /\ q * s \in Nat
      BY <1>3
    <3> QED
      BY <2>2, <3>1, <3>2, <3>3
  <2> QED
    BY <1>3, <2>3
<1>5. ASSUME t = s PROVE q = a
  <2>1. q * s = a * s
    BY <1>1, <1>5
  <2>2. (a - q) * s = a * s - q * s
    BY <1>3
  <2>3. (a - q) * s = 0
    BY <1>3, <2>1, <2>2
  <2> QED
    BY <1>3, <2>3
<1>6. ASSUME a > 0, t > 0 PROVE q > 0
  <2>1. a * t > 0
    BY <1>6
  <2>2. q # 0
    BY <1>1, <2>1
  <2> QED
    BY <1>3, <2>2
<1> QED
  BY <1>1, <1>3, <1>4, <1>5, <1>6 DEF q

(* What is released of the lots divides evenly.                             *)
ReleasesEvenly(lots, sold) ==
  \A i \in DOMAIN lots : Evenly(lots[i].loss * Taken(lots, sold, i), lots[i].shares)

(* What a sale takes of a lot, and the part of its loss that it releases.   *)
LEMMA TakenFacts ==
  ASSUME NEW lots \in Seq(Lot), NEW sold \in [Day -> Nat]
  PROVE  /\ \A i \in DOMAIN lots : /\ Taken(lots, sold, i) \in Nat
                                   /\ Taken(lots, sold, i) <= lots[i].shares
         /\ TakenInAll(lots, sold) \in Nat
         /\ TakenInAll(lots, sold) <= Total(sold, Day)
<1> DEFINE g == [i \in DOMAIN lots |-> Taken(lots, sold, i)]
           ofDay == [d \in Day |-> SumFunctionOnSet(g, OnDay(lots, d))]
           label == [i \in DOMAIN lots |-> lots[i].buy]
<1>1. \A i \in DOMAIN lots : lots[i] \in Lot
  OBVIOUS
<1>2. \A i \in DOMAIN lots : label[i] = lots[i].buy /\ label[i] \in Day /\ i \in OnDay(lots, label[i])
  BY <1>1 DEF Lot, OnDay
<1>3. \A i \in DOMAIN lots : Taken(lots, sold, i) \in Nat /\ Taken(lots, sold, i) <= lots[i].shares
  BY <1>2, TakenOfDay
<1>4. Summable(g, DOMAIN lots) /\ \A i \in DOMAIN lots : g[i] \in Nat
  BY <1>3, WeighType, LotWeights DEF Summable
<1>5. \A d \in Day : OnDay(lots, d) = {i \in DOMAIN lots : label[i] = d}
  BY DEF OnDay
<1>6. TakenInAll(lots, sold) = SumFunctionOnSet(g, DOMAIN lots)
  BY DEF TakenInAll, SumOver
<1>7. \A d \in Day : ofDay[d] = Least(sold[d], BlockedOn(lots, d))
  BY TakenOfDay
<1>8. \A d \in Day : ofDay[d] \in Int /\ ofDay[d] <= sold[d] /\ sold[d] \in Nat
  <2>1. \A d \in Day : BlockedOn(lots, d) \in Nat /\ sold[d] \in Nat
    BY BlockedWeighs
  <2> HIDE DEF ofDay
  <2> QED
    BY <1>7, <2>1 DEF Least
<1>9. \A d \in Day : ofDay[d] = SumFunctionOnSet(g, {i \in DOMAIN lots : label[i] = d})
  BY <1>5
<1> HIDE DEF g, ofDay, label
<1>10. SumFunctionOnSet(ofDay, Day) = SumFunctionOnSet(g, DOMAIN lots)
  <2> DEFINE S == DOMAIN lots
  <2>1. Summable(g, S) /\ SumsDays(ofDay, g, S, label)
    BY <1>2, <1>4, <1>9 DEF SumsDays
  <2> HIDE DEF S
  <2>2. SumFunctionOnSet(ofDay, Day) = SumFunctionOnSet(g, S)
    BY <2>1, SumByDay
  <2> QED
    BY <2>2 DEF S
<1>11. SumFunctionOnSet(ofDay, Day) <= SumFunctionOnSet(sold, Day)
  <2>1. Summable(ofDay, Day) /\ Summable(sold, Day)
    BY <1>8, Days DEF Summable
  <2> QED
    BY <1>8, <2>1, SumAtMost
<1>12. SumFunctionOnSet(g, DOMAIN lots) \in Nat
  BY <1>4, SumNatural DEF Summable
<1> QED
  BY <1>3, <1>6, <1>10, <1>11, <1>12 DEF Total

(* What it releases.                                                        *)
LEMMA ReleasedFacts ==
  ASSUME NEW lots \in Seq(Lot), NEW sold \in [Day -> Nat], ReleasesEvenly(lots, sold),
         NEW i \in DOMAIN lots
  PROVE  /\ Released(lots, sold, i) \in Nat
         /\ Released(lots, sold, i) <= lots[i].loss
         /\ Taken(lots, sold, i) = lots[i].shares => Released(lots, sold, i) = lots[i].loss
<1>1. lots[i] \in Lot
  OBVIOUS
<1>2. lots[i].shares \in Nat \ {0} /\ lots[i].loss \in Nat
  BY <1>1 DEF Lot
<1>3. Taken(lots, sold, i) \in Nat /\ Taken(lots, sold, i) <= lots[i].shares
  BY TakenFacts
<1>4. Evenly(lots[i].loss * Taken(lots, sold, i), lots[i].shares)
  BY DEF ReleasesEvenly
<1> QED
  BY <1>2, <1>3, <1>4, ShareOf DEF Released

(* The lots less what was taken of them, the empty ones included.           *)
AfterTake(lots, sold) ==
  [i \in DOMAIN lots |-> [lots[i] EXCEPT !.shares = @ - Taken(lots, sold, i),
                                         !.loss = @ - Released(lots, sold, i)]]

(* A lot after a sale.                                                      *)
LEMMA AfterTakeFacts ==
  ASSUME NEW lots \in Seq(Lot), NEW sold \in [Day -> Nat], ReleasesEvenly(lots, sold)
  PROVE  /\ AfterTake(lots, sold) \in Seq(BlockedLot)
         /\ DOMAIN AfterTake(lots, sold) = DOMAIN lots
         /\ \A i \in DOMAIN lots :
              /\ AfterTake(lots, sold)[i].buy = lots[i].buy
              /\ AfterTake(lots, sold)[i].origin = lots[i].origin
              /\ AfterTake(lots, sold)[i].shares = lots[i].shares - Taken(lots, sold, i)
              /\ AfterTake(lots, sold)[i].loss = lots[i].loss - Released(lots, sold, i)
              /\ AfterTake(lots, sold)[i] \in BlockedLot
              /\ AfterTake(lots, sold)[i].shares > 0 => AfterTake(lots, sold)[i] \in Lot
<1> DEFINE left == AfterTake(lots, sold)
           N == Len(lots)
<1>1. N \in Nat /\ DOMAIN lots = 1 .. N /\ \A i \in DOMAIN lots : lots[i] \in Lot
  OBVIOUS
<1>2. ASSUME NEW i \in DOMAIN lots
      PROVE  /\ left[i].buy = lots[i].buy /\ left[i].origin = lots[i].origin
             /\ left[i].shares = lots[i].shares - Taken(lots, sold, i)
             /\ left[i].loss = lots[i].loss - Released(lots, sold, i)
             /\ left[i] \in BlockedLot
             /\ left[i].shares > 0 => left[i] \in Lot
  <2>1. lots[i] \in Lot
    BY <1>1
  <2>2. left[i] = [lots[i] EXCEPT !.shares = @ - Taken(lots, sold, i),
                                  !.loss = @ - Released(lots, sold, i)]
    BY DEF AfterTake
  <2>3. /\ Taken(lots, sold, i) \in Nat /\ Taken(lots, sold, i) <= lots[i].shares
        /\ Released(lots, sold, i) \in Nat /\ Released(lots, sold, i) <= lots[i].loss
    BY TakenFacts, ReleasedFacts
  <2> HIDE DEF left
  <2>4. /\ left[i].buy = lots[i].buy /\ left[i].origin = lots[i].origin
        /\ left[i].shares = lots[i].shares - Taken(lots, sold, i)
        /\ left[i].loss = lots[i].loss - Released(lots, sold, i)
    BY <2>1, <2>2 DEF Lot
  <2>5. left[i].shares \in Nat /\ left[i].loss \in Nat
    BY <2>1, <2>3, <2>4 DEF Lot
  <2>6. left[i] = [buy |-> lots[i].buy, shares |-> left[i].shares, loss |-> left[i].loss,
                   origin |-> lots[i].origin]
    BY <2>1, <2>2 DEF Lot
  <2>7. lots[i].buy \in Day /\ lots[i].origin \in Origins
    BY <2>1 DEF Lot
  <2>8. left[i] \in BlockedLot
    BY <2>5, <2>6, <2>7 DEF BlockedLot
  <2>9. ASSUME left[i].shares > 0 PROVE left[i] \in Lot
    <3>1. left[i].shares \in Nat \ {0}
      BY <2>5, <2>9
    <3> QED
      BY <2>5, <2>6, <2>7, <3>1 DEF Lot
  <2> QED
    BY <2>4, <2>8, <2>9
<1>3. DOMAIN left = DOMAIN lots
  BY DEF AfterTake
<1>4. left \in Seq(BlockedLot)
  <2>1. left = [i \in 1 .. N |-> left[i]]
    BY <1>1 DEF AfterTake
  <2>2. \A i \in 1 .. N : left[i] \in BlockedLot
    BY <1>1, <1>2
  <2> HIDE DEF left
  <2>3. [i \in 1 .. N |-> left[i]] \in Seq(BlockedLot)
    BY <1>1, <2>2
  <2> QED
    BY <2>1, <2>3
<1> QED
  BY <1>2, <1>3, <1>4

(* The amount under these labels.                                           *)
Where(O, o, amount) == IF o \in O THEN amount ELSE 0

(* What still blocks after a sale.                                          *)
LEMMA StillFacts ==
  ASSUME NEW lots \in Seq(Lot), NEW sold \in [Day -> Nat], ReleasesEvenly(lots, sold)
  PROVE  /\ StillBlocking(lots, sold) \in Seq(Lot)
         /\ \A d \in Day : BlockedOn(StillBlocking(lots, sold), d)
                             = BlockedOn(lots, d) - Least(sold[d], BlockedOn(lots, d))
         /\ \A O : Weigh(LossFrom(O), StillBlocking(lots, sold))
                     + SumFunctionOnSet([i \in DOMAIN lots |->
                                           Where(O, lots[i].origin, Released(lots, sold, i))],
                                        DOMAIN lots)
                     = Weigh(LossFrom(O), lots)
<1> DEFINE left == AfterTake(lots, sold)
           places == {i \in DOMAIN left : left[i].shares > 0}
           Kept(w) == [i \in DOMAIN left |-> IF i \in places THEN w[left[i]] ELSE 0]
<1>1. StillBlocking(lots, sold) = Only(left, places)
  BY DEF StillBlocking, AfterTake
<1>2. /\ left \in Seq(BlockedLot) /\ DOMAIN left = DOMAIN lots
      /\ \A i \in DOMAIN lots :
              /\ left[i].buy = lots[i].buy /\ left[i].origin = lots[i].origin
              /\ left[i].shares = lots[i].shares - Taken(lots, sold, i)
              /\ left[i].loss = lots[i].loss - Released(lots, sold, i)
              /\ left[i].shares > 0 => left[i] \in Lot
  BY AfterTakeFacts
<1> HIDE DEF left
<1>3. \A i \in DOMAIN left : i \in places => left[i] \in Lot
  BY <1>2
<1>4. /\ Only(left, places) \in Seq(Lot)
      /\ \A w : Weights(w, Lot) => Weigh(w, Only(left, places)) = SumFunctionOnSet(Kept(w), DOMAIN left)
  <2>1. \A i \in DOMAIN left : i \in places => left[i] \in Lot
    BY <1>3
  <2> HIDE DEF places
  <2>2. Only(left, places) \in Seq(Lot)
    BY <1>2, <2>1, OnlyElements
  <2>3. ASSUME NEW w, Weights(w, Lot)
        PROVE  Weigh(w, Only(left, places)) = SumFunctionOnSet(Kept(w), DOMAIN left)
    <3>1. Weigh(w, Only(left, places)) = SumFunctionOnSet(WeightsAt(w, left, places), DOMAIN left)
      BY <1>2, <2>1, <2>3, WeighOnly
    <3>2. WeightsAt(w, left, places) = Kept(w)
      BY DEF WeightsAt
    <3> QED
      BY <3>1, <3>2
  <2> QED
    BY <2>2, <2>3
<1>5. ASSUME NEW i \in DOMAIN lots
      PROVE  /\ lots[i] \in Lot
             /\ lots[i].shares \in Nat /\ lots[i].loss \in Nat
             /\ Taken(lots, sold, i) \in Nat /\ Taken(lots, sold, i) <= lots[i].shares
             /\ Released(lots, sold, i) \in Nat /\ Released(lots, sold, i) <= lots[i].loss
             /\ Taken(lots, sold, i) = lots[i].shares => Released(lots, sold, i) = lots[i].loss
  <2>1. lots[i] \in Lot
    OBVIOUS
  <2> QED
    BY <2>1, TakenFacts, ReleasedFacts DEF Lot
<1>6. IsFiniteSet(DOMAIN lots)
  BY WeighType, LotWeights DEF Summable
<1>7. ASSUME NEW d \in Day
      PROVE  BlockedOn(Only(left, places), d) = BlockedOn(lots, d) - Least(sold[d], BlockedOn(lots, d))
  <2> DEFINE w == SharesOn(d)
             k == Kept(w)
             f == [i \in DOMAIN lots |-> w[lots[i]]]
             t == [i \in DOMAIN lots |-> Taken(lots, sold, i)]
             g == [i \in DOMAIN lots |-> IF lots[i].buy = d THEN Taken(lots, sold, i) ELSE 0]
  <2>1. \A i \in DOMAIN lots : /\ f[i] = IF lots[i].buy = d THEN lots[i].shares ELSE 0
                               /\ f[i] \in Int /\ g[i] \in Int /\ t[i] \in Int
    BY <1>5 DEF SharesOn
  <2>2. \A i \in DOMAIN lots : k[i] = IF lots[i].buy = d
                                        THEN lots[i].shares - Taken(lots, sold, i) ELSE 0
    <3>1. ASSUME NEW i \in DOMAIN lots
          PROVE  k[i] = IF lots[i].buy = d THEN lots[i].shares - Taken(lots, sold, i) ELSE 0
      <4>1. CASE left[i].shares > 0
        <5>1. k[i] = w[left[i]] /\ left[i] \in Lot
          BY <1>2, <4>1
        <5> QED
          BY <1>2, <5>1 DEF SharesOn
      <4>2. CASE ~(left[i].shares > 0)
        <5>1. k[i] = 0
          BY <1>2, <4>2
        <5>2. lots[i].shares - Taken(lots, sold, i) = 0
          BY <1>2, <1>5, <4>2
        <5> QED
          BY <5>1, <5>2
      <4> QED
        BY <4>1, <4>2
    <3> QED
      BY <3>1
  <2>3. \A i \in DOMAIN lots : k[i] \in Int /\ f[i] = k[i] + g[i]
    <3>1. ASSUME NEW i \in DOMAIN lots PROVE k[i] \in Int /\ f[i] = k[i] + g[i]
      <4>1. g[i] = IF lots[i].buy = d THEN Taken(lots, sold, i) ELSE 0
        OBVIOUS
      <4>2. lots[i].shares \in Int /\ Taken(lots, sold, i) \in Int
        BY <1>5
      <4> HIDE DEF k, f, g, t, w
      <4>3. /\ f[i] = IF lots[i].buy = d THEN lots[i].shares ELSE 0
            /\ k[i] = IF lots[i].buy = d THEN lots[i].shares - Taken(lots, sold, i) ELSE 0
        BY <2>1, <2>2
      <4> QED
        BY <4>1, <4>2, <4>3
    <3> QED
      BY <3>1
  <2>4. Summable(k, DOMAIN lots) /\ Summable(g, DOMAIN lots) /\ Summable(t, DOMAIN lots)
    BY <1>6, <2>1, <2>3 DEF Summable
  <2>5. OnDay(lots, d) \in SUBSET DOMAIN lots
        /\ (\A i \in OnDay(lots, d) : g[i] = t[i])
        /\ (\A i \in DOMAIN lots \ OnDay(lots, d) : g[i] = 0)
    BY DEF OnDay
  <2>6. SumFunctionOnSet(t, OnDay(lots, d)) = Least(sold[d], BlockedOn(lots, d))
    BY TakenOfDay
  <2>7. Weigh(w, Only(left, places)) = SumFunctionOnSet(k, DOMAIN lots)
    BY <1>2, <1>4, LotWeights
  <2>8. Weigh(w, lots) = SumFunctionOnSet(f, DOMAIN lots)
    BY DEF Weigh
  <2>9. BlockedOn(lots, d) = Weigh(w, lots) /\ BlockedOn(Only(left, places), d) = Weigh(w, Only(left, places))
    BY <1>4, BlockedWeighs
  <2> HIDE DEF w, k, f, g, t, places
  <2>10. SumFunctionOnSet(f, DOMAIN lots) = SumFunctionOnSet(k, DOMAIN lots) + SumFunctionOnSet(g, DOMAIN lots)
    BY <2>3, <2>4, SumPlus
  <2>11. SumFunctionOnSet(g, DOMAIN lots) = SumFunctionOnSet(t, OnDay(lots, d))
    BY <2>4, <2>5, SumWhere
  <2>12. SumFunctionOnSet(k, DOMAIN lots) \in Int /\ SumFunctionOnSet(g, DOMAIN lots) \in Int
    BY <2>4, SumInteger
  <2> QED
    BY <2>6, <2>7, <2>8, <2>9, <2>10, <2>11, <2>12
<1>8. ASSUME NEW O
      PROVE  Weigh(LossFrom(O), Only(left, places))
                     + SumFunctionOnSet([i \in DOMAIN lots |->
                                           Where(O, lots[i].origin, Released(lots, sold, i))],
                                        DOMAIN lots)
                     = Weigh(LossFrom(O), lots)
  <2> DEFINE w == LossFrom(O)
             k == Kept(w)
             f == [i \in DOMAIN lots |-> w[lots[i]]]
             g == [i \in DOMAIN lots |-> Where(O, lots[i].origin, Released(lots, sold, i))]
  <2>1. \A i \in DOMAIN lots : /\ f[i] = Where(O, lots[i].origin, lots[i].loss)
                               /\ f[i] \in Int /\ g[i] \in Int
    BY <1>5 DEF LossFrom, Where
  <2>2. \A i \in DOMAIN lots : k[i] = Where(O, lots[i].origin, lots[i].loss - Released(lots, sold, i))
    <3>1. ASSUME NEW i \in DOMAIN lots
          PROVE  k[i] = Where(O, lots[i].origin, lots[i].loss - Released(lots, sold, i))
      <4>1. CASE left[i].shares > 0
        <5>1. k[i] = w[left[i]] /\ left[i] \in Lot
          BY <1>2, <4>1
        <5> QED
          BY <1>2, <5>1 DEF LossFrom, Where
      <4>2. CASE ~(left[i].shares > 0)
        <5>1. k[i] = 0
          BY <1>2, <4>2
        <5>2. lots[i].loss - Released(lots, sold, i) = 0
          BY <1>2, <1>5, <4>2
        <5> QED
          BY <5>1, <5>2 DEF Where
      <4> QED
        BY <4>1, <4>2
    <3> QED
      BY <3>1
  <2>3. \A i \in DOMAIN lots : k[i] \in Int /\ f[i] = k[i] + g[i]
    <3>1. ASSUME NEW i \in DOMAIN lots PROVE k[i] \in Int /\ f[i] = k[i] + g[i]
      <4>1. g[i] = Where(O, lots[i].origin, Released(lots, sold, i))
        OBVIOUS
      <4> HIDE DEF k, f, g, w
      <4> QED
        BY <1>5, <2>1, <2>2, <4>1, SMTT(20) DEF Where
    <3> QED
      BY <3>1
  <2>4. Summable(k, DOMAIN lots) /\ Summable(g, DOMAIN lots)
    BY <1>6, <2>1, <2>3 DEF Summable
  <2>7. Weigh(w, Only(left, places)) = SumFunctionOnSet(k, DOMAIN lots)
    BY <1>2, <1>4, LotWeights
  <2>8. Weigh(w, lots) = SumFunctionOnSet(f, DOMAIN lots)
    BY DEF Weigh
  <2> HIDE DEF w, k, f, g, places
  <2>10. SumFunctionOnSet(f, DOMAIN lots) = SumFunctionOnSet(k, DOMAIN lots) + SumFunctionOnSet(g, DOMAIN lots)
    BY <2>3, <2>4, SumPlus
  <2> QED
    BY <2>7, <2>8, <2>10 DEF g, w
<1> QED
  BY <1>1, <1>4, <1>7, <1>8

Sale == [date : Day, quantity : Nat \ {0}, result : Int, lots : [Day -> Nat]]

(* The shares available on a day.                                           *)
LEMMA AvailableFacts ==
  ASSUME NEW acquired \in [Day -> Nat], NEW gone \in [Day -> Nat], NEW lots \in Seq(Lot),
         NEW d \in Day
  PROVE  /\ Available(acquired, gone, lots, d) \in Nat
         /\ Available(acquired, gone, lots, d) > 0 =>
              Available(acquired, gone, lots, d) = acquired[d] - gone[d] - BlockedOn(lots, d)
         /\ Available(acquired, gone, lots, d) = 0 =>
              acquired[d] - gone[d] - BlockedOn(lots, d) <= 0
<1>1. acquired[d] \in Nat /\ gone[d] \in Nat /\ BlockedOn(lots, d) \in Nat
  BY BlockedWeighs
<1> QED
  BY <1>1 DEF Available, Most

(* Acquisitions of the window that block a sale, as many shares as were     *)
(* sold or all that are available.                                          *)
AreMatched(matched, sale, acquired, gone, lots) ==
  /\ matched \in [Day -> Nat]
  /\ \A d \in Day : /\ matched[d] > 0 => InWindow(d, sale.date)
                    /\ matched[d] <= Available(acquired, gone, lots, d)
  /\ Total(matched, Day) \in Nat /\ Total(matched, Day) <= sale.quantity
  /\ Total(matched, Day) < sale.quantity =>
       \A d \in Day : InWindow(d, sale.date) => matched[d] = Available(acquired, gone, lots, d)

(* match_window() finds such ones.                                          *)
LEMMA MatchedFacts ==
  ASSUME NEW sale \in Sale, NEW acquired \in [Day -> Nat], NEW gone \in [Day -> Nat],
         NEW lots \in Seq(Lot)
  PROVE  AreMatched(Matched(sale, acquired, gone, lots), sale, acquired, gone, lots)
<1> DEFINE matched == Matched(sale, acquired, gone, lots)
           near == [d \in Day |-> IF InWindow(d, sale.date)
                                    THEN Available(acquired, gone, lots, d) ELSE 0]
<1>1. matched = [d \in Day |-> Least(near[d], Most(0, sale.quantity
                                                     - Total(near, {x \in Day : x < d})))]
  BY DEF Matched
<1>2. \A d \in Day : /\ near[d] \in Nat
                     /\ near[d] <= Available(acquired, gone, lots, d)
                     /\ near[d] > 0 => InWindow(d, sale.date)
                     /\ InWindow(d, sale.date) => near[d] = Available(acquired, gone, lots, d)
  <2>1. \A d \in Day : Available(acquired, gone, lots, d) \in Nat
    BY AvailableFacts
  <2> QED
    BY <2>1
<1>3. sale.quantity \in Nat
  BY DEF Sale
<1> HIDE DEF near, matched
<1>4. MaxDay \in Nat /\ Day \in SUBSET (1 .. MaxDay)
  BY Days
<1>5. \A d \in Day : matched[d] = Least(near[d], Most(0, sale.quantity
                                       - SumFunctionOnSet(near, {y \in Day : y < d})))
  BY <1>1 DEF Total
<1>6. /\ \A d \in Day : matched[d] \in Nat /\ matched[d] <= near[d]
      /\ SumFunctionOnSet(near, Day) \in Nat
      /\ SumFunctionOnSet(matched, Day) \in Nat
      /\ SumFunctionOnSet(matched, Day) = Least(sale.quantity, SumFunctionOnSet(near, Day))
      /\ SumFunctionOnSet(matched, Day) < sale.quantity => \A d \in Day : matched[d] = near[d]
  <2>1. \A x \in Day : near[x] \in Nat
    BY <1>2
  <2>2. TakesInOrder(matched, near, sale.quantity, Day, MaxDay)
    BY <1>3, <1>4, <1>5, <2>1 DEF TakesInOrder
  <2> QED
    BY <2>2, TakenInOrder
<1>7. matched \in [Day -> Nat]
  <2>1. matched = [d \in Day |-> matched[d]]
    BY <1>1
  <2>2. \A d \in Day : matched[d] \in Nat
    BY <1>6
  <2>3. [d \in Day |-> matched[d]] \in [Day -> Nat]
    BY <2>2
  <2> QED
    BY <2>1, <2>3
<1>8. Total(matched, Day) \in Nat /\ Total(matched, Day) <= sale.quantity
  BY <1>3, <1>6 DEF Total, Least
<1>9. \A d \in Day : /\ matched[d] > 0 => InWindow(d, sale.date)
                     /\ matched[d] <= Available(acquired, gone, lots, d)
  <2>1. ASSUME NEW d \in Day
        PROVE  /\ matched[d] > 0 => InWindow(d, sale.date)
               /\ matched[d] <= Available(acquired, gone, lots, d)
    <3>1. Available(acquired, gone, lots, d) \in Nat
      BY AvailableFacts
    <3>2. matched[d] \in Nat /\ matched[d] <= near[d]
      BY <1>6
    <3>3. /\ near[d] \in Nat /\ near[d] <= Available(acquired, gone, lots, d)
          /\ near[d] > 0 => InWindow(d, sale.date)
      BY <1>2
    <3> QED
      BY <3>1, <3>2, <3>3
  <2> QED
    BY <2>1
<1>10. Total(matched, Day) < sale.quantity =>
              \A d \in Day : InWindow(d, sale.date) =>
                               matched[d] = Available(acquired, gone, lots, d)
  BY <1>2, <1>6 DEF Total
<1> QED
  BY <1>7, <1>8, <1>9, <1>10 DEF AreMatched, matched

(* What moves on divides evenly.                                            *)
MovesEvenly(lots, sold, replaced) ==
  \A i \in DOMAIN lots :
    TakenInAll(lots, sold) > 0 =>
      Evenly(Released(lots, sold, i) * Least(replaced, TakenInAll(lots, sold)),
             TakenInAll(lots, sold))

(* The part of a released deferral that moves on is all of it, unless less  *)
(* was replaced than released.                                              *)
LEMMA MovedFacts ==
  ASSUME NEW lots \in Seq(Lot), NEW sold \in [Day -> Nat], ReleasesEvenly(lots, sold),
         NEW replaced \in Nat, MovesEvenly(lots, sold, replaced),
         NEW moved, moved = Moved(lots, sold, replaced), NEW i \in DOMAIN lots
  PROVE  /\ moved[i] \in Nat
         /\ moved[i] <= Released(lots, sold, i)
         /\ replaced = 0 => moved[i] = 0
         /\ moved[i] < Released(lots, sold, i) =>
              /\ replaced < TakenInAll(lots, sold)
              /\ replaced > 0 => moved[i] > 0
<1> DEFINE taken == TakenInAll(lots, sold)
           r == Released(lots, sold, i)
<1>1. moved[i] = IF taken = 0 THEN 0 ELSE (r * Least(replaced, taken)) \div taken
  BY DEF Moved, Reattached
<1>2. taken \in Nat /\ r \in Nat
  BY TakenFacts, ReleasedFacts
<1>3. ASSUME taken = 0 PROVE r = 0
  <2> DEFINE g == [j \in DOMAIN lots |-> Taken(lots, sold, j)]
  <2>1. \A j \in DOMAIN lots : g[j] \in Nat
    BY TakenFacts
  <2>2. Summable(g, DOMAIN lots) /\ IsFiniteSet(DOMAIN lots \ {i})
    BY <2>1, WeighType, LotWeights, FS_RemoveElement DEF Summable
  <2>3. taken = SumFunctionOnSet(g, DOMAIN lots)
    BY DEF TakenInAll, SumOver
  <2>4. SumFunctionOnSet(g, DOMAIN lots) = g[i] + SumFunctionOnSet(g, DOMAIN lots \ {i})
    <3> HIDE DEF g
    <3> QED
      BY <2>2, SumElement
  <2>5. SumFunctionOnSet(g, DOMAIN lots \ {i}) \in Nat
    <3> HIDE DEF g
    <3> QED
      BY <2>1, <2>2, SumNatural
  <2>6. g[i] = Taken(lots, sold, i) /\ g[i] \in Nat
    BY <2>1
  <2> HIDE DEF g
  <2>7. Taken(lots, sold, i) = 0
    BY <1>3, <2>3, <2>4, <2>5, <2>6
  <2>8. lots[i].loss \in Nat /\ lots[i].shares \in Nat \ {0}
    <3>1. lots[i] \in Lot
      OBVIOUS
    <3> QED
      BY <3>1 DEF Lot
  <2>9. r = (lots[i].loss * 0) \div lots[i].shares
    BY <2>7 DEF Released
  <2>10. lots[i].loss * 0 = 0 /\ 0 \div lots[i].shares = 0
    BY <2>8
  <2> QED
    BY <2>9, <2>10
<1>4. ASSUME taken > 0 PROVE Evenly(r * Least(replaced, taken), taken)
  BY <1>4 DEF MovesEvenly
<1> HIDE DEF taken, r
<1>5. CASE taken = 0
  <2>1. moved[i] = 0 /\ r = 0
    BY <1>1, <1>3, <1>5
  <2> QED
    BY <2>1 DEF r
<1>6. CASE taken > 0
  <2> DEFINE t == Least(replaced, taken)
  <2>1. t \in Nat /\ t <= taken
    BY <1>2 DEF Least
  <2>2. /\ replaced = 0 => t = 0
        /\ t # taken => replaced < taken
        /\ replaced > 0 => t > 0
    BY <1>2, <1>6 DEF Least
  <2>3. moved[i] = (r * t) \div taken
    BY <1>1, <1>6
  <2>4. Evenly(r * t, taken)
    BY <1>4, <1>6
  <2> HIDE DEF t
  <2>5. /\ moved[i] \in Nat /\ moved[i] <= r
        /\ t = taken => moved[i] = r
        /\ r > 0 /\ t > 0 => moved[i] > 0
    <3>1. taken \in Nat \ {0}
      BY <1>2, <1>6
    <3>2. /\ (r * t) \div taken \in Nat
          /\ (r * t) \div taken <= r
          /\ t = taken => (r * t) \div taken = r
          /\ r > 0 /\ t > 0 => (r * t) \div taken > 0
      BY <1>2, <2>1, <2>4, <3>1, ShareOf
    <3> QED
      BY <2>3, <3>2
  <2>6. t = 0 => moved[i] = 0
    <3>1. r * 0 = 0 /\ 0 \div taken = 0
      BY <1>2, <1>6
    <3> QED
      BY <2>3, <3>1
  <2> QED
    BY <1>2, <2>1, <2>2, <2>5, <2>6 DEF r, taken
<1> QED
  BY <1>2, <1>5, <1>6

-----------------------------------------------------------------------------
(* An amount that is to be placed.                                          *)
Part == [origin : Origins, amount : Nat \ {0}]

AmountFrom(O) == [p \in Part |-> IF p.origin \in O THEN p.amount ELSE 0]

(* The amounts of the lots, by the label of their sale.                     *)
LotAmounts(O, lots, amounts) == [i \in DOMAIN lots |-> Where(O, lots[i].origin, amounts[i])]

(* Amounts can be added up.                                                 *)
LEMMA PartWeights ==
  \A O : Weights(AmountFrom(O), Part)
<1>1. \A p \in Part : p.amount \in Nat
  BY DEF Part
<1> QED
  BY <1>1 DEF Weights, AmountFrom

(* The amounts of the lots can be added up.                                 *)
LEMMA LotAmountsSummable ==
  ASSUME NEW lots \in Seq(Lot), NEW amounts, \A i \in DOMAIN lots : amounts[i] \in Nat, NEW O
  PROVE  /\ Summable(LotAmounts(O, lots, amounts), DOMAIN lots)
         /\ SumFunctionOnSet(LotAmounts(O, lots, amounts), DOMAIN lots) \in Nat
<1>1. IsFiniteSet(DOMAIN lots)
  BY WeighType, LotWeights DEF Summable
<1>2. \A i \in DOMAIN lots : LotAmounts(O, lots, amounts)[i] \in Nat
  BY DEF LotAmounts, Where
<1> QED
  BY <1>1, <1>2, SumNatural DEF Summable

ArePlaced(placed, places, lots, moved, d) ==
  /\ placed \in Seq(Placement) /\ DOMAIN placed = DOMAIN lots
  /\ \A i \in DOMAIN lots :
       /\ moved[i] \in Nat
       /\ placed[i].origin = lots[i].origin /\ placed[i].amount = moved[i]
       /\ i \in places <=> lots[i].buy = d /\ moved[i] > 0

(* What the released lots of a day leave to place.                          *)
LEMMA PlacedOfDay ==
  ASSUME NEW lots \in Seq(Lot), NEW moved, NEW d, NEW placed, NEW places,
         ArePlaced(placed, places, lots, moved, d)
  PROVE  /\ Only(placed, places) \in Seq(Part)
         /\ \A O : Weigh(AmountFrom(O), Only(placed, places))
                     = SumFunctionOnSet(LotAmounts(O, lots, moved), OnDay(lots, d))
<1>1. DOMAIN placed = DOMAIN lots /\ placed \in Seq(Placement)
  BY DEF ArePlaced
<1>2. ASSUME NEW i \in DOMAIN lots
      PROVE  /\ moved[i] \in Nat
             /\ placed[i].origin = lots[i].origin /\ placed[i].amount = moved[i]
             /\ i \in places <=> lots[i].buy = d /\ moved[i] > 0
             /\ moved[i] > 0 => placed[i] \in Part
  <2>1. placed[i] \in Placement
    BY <1>1
  <2> QED
    BY <2>1 DEF Part, Placement, ArePlaced
<1>4. \A i \in DOMAIN placed : i \in places => placed[i] \in Part
  BY <1>1, <1>2
<1>5. Only(placed, places) \in Seq(Part)
  BY <1>1, <1>4, OnlyElements
<1>6. ASSUME NEW O
      PROVE  Weigh(AmountFrom(O), Only(placed, places))
               = SumFunctionOnSet(LotAmounts(O, lots, moved), OnDay(lots, d))
  <2> DEFINE w == AmountFrom(O)
             g == WeightsAt(w, placed, places)
             f == LotAmounts(O, lots, moved)
  <2>1. Weigh(w, Only(placed, places)) = SumFunctionOnSet(g, DOMAIN placed)
    BY <1>1, <1>4, PartWeights, WeighOnly
  <2>2. OnDay(lots, d) \in SUBSET DOMAIN lots
    BY DEF OnDay
  <2>3. ASSUME NEW i \in DOMAIN lots
        PROVE  /\ i \in OnDay(lots, d) => g[i] = f[i]
               /\ i \notin OnDay(lots, d) => g[i] = 0
    <3>1. f[i] = Where(O, lots[i].origin, moved[i])
      BY DEF LotAmounts
    <3>2. i \in places <=> lots[i].buy = d /\ moved[i] > 0
      BY <1>2
    <3>3. g[i] = IF i \in places THEN w[placed[i]] ELSE 0
      BY <1>1 DEF WeightsAt
    <3>4. moved[i] > 0 => w[placed[i]] = Where(O, lots[i].origin, moved[i])
      BY <1>2 DEF AmountFrom, Where
    <3>5. moved[i] \in Nat /\ (i \in OnDay(lots, d) <=> lots[i].buy = d)
      BY <1>2 DEF OnDay
    <3> HIDE DEF g, f, w
    <3> QED
      BY <3>1, <3>2, <3>3, <3>4, <3>5 DEF Where
  <2>4. Summable(f, DOMAIN lots)
    BY <1>2, LotAmountsSummable
  <2> HIDE DEF g, f, w
  <2>5. SumFunctionOnSet(g, DOMAIN lots) = SumFunctionOnSet(f, OnDay(lots, d))
    BY <2>2, <2>3, <2>4, SumWhere
  <2> QED
    BY <1>1, <2>1, <2>5 DEF f, w
<1> QED
  BY <1>5, <1>6

(* The placements hold the own loss and what moved, under their labels.     *)
ArePlacements(placements, sale, lots, moved, own) ==
  /\ sale \in Sale /\ own \in Nat
  /\ \A i \in DOMAIN lots : moved[i] \in Nat
  /\ placements = Placements(sale, lots, moved, own)

(* What a disposal places: its own loss and all that moves.                 *)
LEMMA PlacementsFacts ==
  ASSUME NEW sale, NEW lots \in Seq(Lot), NEW moved, NEW own, NEW placements,
         ArePlacements(placements, sale, lots, moved, own)
  PROVE  /\ placements \in Seq(Part)
         /\ \A O : Weigh(AmountFrom(O), placements)
                     = Where(O, sale.date, own)
                         + SumFunctionOnSet(LotAmounts(O, lots, moved), DOMAIN lots)
<1> DEFINE placed == [i \in DOMAIN lots |-> [origin |-> lots[i].origin, amount |-> moved[i]]]
           OfDay(d) == {i \in DOMAIN lots : lots[i].buy = d /\ moved[i] > 0}
           days == [d \in Day |-> Only(placed, OfDay(d))]
           first == IF own > 0 THEN <<[origin |-> sale.date, amount |-> own]>> ELSE <<>>
<1>a. sale \in Sale /\ own \in Nat /\ \A i \in DOMAIN lots : moved[i] \in Nat
  BY DEF ArePlacements
<1>1. placements = first \o FlattenSeq(days)
  BY DEF Placements, ArePlacements
<1>2. sale.date \in Origins
  BY <1>a DEF Sale, Origins
<1>3. /\ first \in Seq(Part)
      /\ \A O : Weigh(AmountFrom(O), first) = Where(O, sale.date, own)
  <2>1. CASE own > 0
    <3> DEFINE p == [origin |-> sale.date, amount |-> own]
    <3>1. p \in Part /\ first = Append(<<>>, p) /\ first \in Seq(Part)
      BY <1>2, <1>a, <2>1 DEF Part
    <3>2. ASSUME NEW O PROVE Weigh(AmountFrom(O), first) = Where(O, sale.date, own)
      <4>1. AmountFrom(O)[p] = Where(O, sale.date, own)
        BY <3>1 DEF AmountFrom, Where
      <4>2. <<>> \in Seq(Part)
        OBVIOUS
      <4> HIDE DEF p, first
      <4>3. Weigh(AmountFrom(O), Append(<<>>, p)) = Weigh(AmountFrom(O), <<>>) + AmountFrom(O)[p]
        BY <3>1, <4>2, PartWeights, WeighAppend
      <4>4. AmountFrom(O)[p] \in Int
        BY <1>a, <4>1 DEF Where
      <4> QED
        BY <3>1, <4>1, <4>3, <4>4, WeighEmpty
    <3> QED
      BY <3>1, <3>2
  <2>2. CASE ~(own > 0)
    <3>1. first = <<>> /\ own = 0
      BY <1>a, <2>2
    <3>2. <<>> \in Seq(Part)
      OBVIOUS
    <3> HIDE DEF first
    <3> QED
      BY <3>1, <3>2, WeighEmpty DEF Where
  <2> QED
    BY <2>1, <2>2
<1>4. ASSUME NEW d \in Day
      PROVE  /\ days[d] \in Seq(Part)
             /\ \A O : Weigh(AmountFrom(O), days[d])
                         = SumFunctionOnSet(LotAmounts(O, lots, moved), OnDay(lots, d))
  <2>1. placed \in Seq(Placement)
    <3>1. placed = [i \in 1 .. Len(lots) |-> placed[i]] /\ Len(lots) \in Nat /\ DOMAIN lots = 1 .. Len(lots)
      OBVIOUS
    <3>2. \A i \in DOMAIN lots : placed[i] \in Placement
      <4>1. \A i \in DOMAIN lots : lots[i] \in Lot
        OBVIOUS
      <4> QED
        BY <1>a, <4>1 DEF Lot, Placement
    <3>3. [i \in 1 .. Len(lots) |-> placed[i]] \in Seq(Placement)
      BY <3>1, <3>2
    <3> QED
      BY <3>1, <3>3
  <2>2. ArePlaced(placed, OfDay(d), lots, moved, d)
    BY <1>a, <2>1 DEF ArePlaced
  <2>3. days[d] = Only(placed, OfDay(d))
    OBVIOUS
  <2> HIDE DEF placed, OfDay, days
  <2> QED
    BY <2>2, <2>3, PlacedOfDay
<1>5. days \in [1 .. MaxDay -> Seq(Part)]
  BY <1>4, Days
<1> HIDE DEF days, first
<1>6. FlattenSeq(days) \in Seq(Part)
  <2>1. Weights(AmountFrom({}), Part)
    BY PartWeights
  <2> QED
    BY <1>5, <2>1, Days, WeighFlat
<1>7. placements \in Seq(Part)
  BY <1>1, <1>3, <1>6
<1>8. ASSUME NEW O
      PROVE  Weigh(AmountFrom(O), placements)
                     = Where(O, sale.date, own)
                         + SumFunctionOnSet(LotAmounts(O, lots, moved), DOMAIN lots)
  <2> DEFINE f == LotAmounts(O, lots, moved)
             g == WeightsOf(AmountFrom(O), days, MaxDay)
             label == [i \in DOMAIN lots |-> lots[i].buy]
  <2>1. Weigh(AmountFrom(O), placements)
          = Weigh(AmountFrom(O), first) + Weigh(AmountFrom(O), FlattenSeq(days))
    BY <1>1, <1>3, <1>6, PartWeights, WeighJoined
  <2>2. Weigh(AmountFrom(O), FlattenSeq(days)) = SumFunctionOnSet(g, 1 .. MaxDay)
    BY <1>5, Days, PartWeights, WeighFlat
  <2>3. SumsDays(g, f, DOMAIN lots, label)
    <3>1. \A i \in DOMAIN lots : label[i] \in Day
      <4>1. \A i \in DOMAIN lots : lots[i] \in Lot
        OBVIOUS
      <4> QED
        BY <4>1 DEF Lot, Placement
    <3>2. ASSUME NEW d \in Day
          PROVE  g[d] = SumFunctionOnSet(f, {x \in DOMAIN lots : label[x] = d})
      <4>1. {x \in DOMAIN lots : label[x] = d} = OnDay(lots, d)
        BY DEF OnDay
      <4>2. g[d] = Weigh(AmountFrom(O), days[d])
        BY Days DEF WeightsOf
      <4> HIDE DEF f, g
      <4> QED
        BY <1>4, <4>1, <4>2 DEF f
    <3> HIDE DEF f, g, label
    <3> QED
      BY <3>1, <3>2 DEF SumsDays
  <2>4. Summable(f, DOMAIN lots)
    BY <1>a, LotAmountsSummable
  <2> HIDE DEF f, g, label
  <2>5. SumFunctionOnSet(g, 1 .. MaxDay) = SumFunctionOnSet(f, DOMAIN lots)
    BY <2>3, <2>4, Days, SumByDay
  <2> QED
    BY <1>3, <2>1, <2>2, <2>5 DEF f
<1> QED
  BY <1>7, <1>8

-----------------------------------------------------------------------------
(* The amounts placed.                                                      *)
LEMMA AmountsFacts ==
  ASSUME NEW placements \in Seq(Part)
  PROVE  /\ Amounts(placements) = Weigh(AmountFrom(Origins), placements)
         /\ Amounts(placements) \in Nat
         /\ \A k \in DOMAIN placements : /\ placements[k].amount \in Nat \ {0}
                                         /\ placements[k].amount <= Amounts(placements)
         /\ Amounts(placements) = 0 => DOMAIN placements = {}
<1> DEFINE f == [k \in DOMAIN placements |-> placements[k].amount]
           S == DOMAIN placements
<1>1. Amounts(placements) = SumFunctionOnSet(f, S)
  BY DEF Amounts, SumLots, SumOver
<1>2. \A k \in S : placements[k] \in Part
  OBVIOUS
<1>3. \A k \in S : f[k] = placements[k].amount /\ f[k] \in Nat \ {0} /\ f[k] = AmountFrom(Origins)[placements[k]]
  BY <1>2 DEF Part, AmountFrom
<1>4. IsFiniteSet(S)
  <2>1. Weights(AmountFrom(Origins), Part)
    BY PartWeights
  <2> QED
    BY <2>1, WeighType DEF Summable
<1>5. Summable(f, S)
  BY <1>3, <1>4 DEF Summable
<1>6. Weigh(AmountFrom(Origins), placements) = SumFunctionOnSet(f, S)
  <2> DEFINE g == [i \in DOMAIN placements |-> AmountFrom(Origins)[placements[i]]]
  <2>1. Weigh(AmountFrom(Origins), placements) = SumFunctionOnSet(g, S)
    BY DEF Weigh
  <2>2. \A k \in S : g[k] = f[k]
    BY <1>3
  <2> HIDE DEF f, g, S
  <2> QED
    BY <1>5, <2>1, <2>2, SumSame
<1>7. \A k \in S : f[k] \in Nat \ {0} /\ f[k] = placements[k].amount
  BY <1>3
<1> HIDE DEF f, S
<1>8. SumFunctionOnSet(f, S) \in Nat
  BY <1>4, <1>7, SumNatural
<1>9. ASSUME NEW k \in S PROVE f[k] <= SumFunctionOnSet(f, S)
  <2>1. SumFunctionOnSet(f, S) = f[k] + SumFunctionOnSet(f, S \ {k})
    BY <1>5, SumElement
  <2>2. IsFiniteSet(S \ {k}) /\ \A j \in S \ {k} : f[j] \in Nat
    BY <1>4, <1>7, FS_RemoveElement
  <2>3. SumFunctionOnSet(f, S \ {k}) \in Nat
    BY <2>2, SumNatural
  <2> QED
    BY <1>7, <1>8, <2>1, <2>3
<1>10. Amounts(placements) = 0 => S = {}
  BY <1>1, <1>7, <1>8, <1>9
<1> QED
  BY <1>1, <1>6, <1>7, <1>8, <1>9, <1>10 DEF S

(* The placements share out the matched shares, and the shares them, evenly. *)
SpreadsEvenly(placements, matched) ==
  \A k \in DOMAIN placements, d \in Day :
    /\ Evenly(matched[d] * placements[k].amount, Amounts(placements))
    /\ Evenly(placements[k].amount * matched[d], Total(matched, Day))

(* What the matched shares of a day begin to carry.                         *)
Spread(placements, matched, d) ==
  IF matched[d] = 0 THEN <<>>
  ELSE [k \in DOMAIN placements |->
          [buy |-> d, shares |-> (matched[d] * placements[k].amount) \div Amounts(placements),
           loss |-> (placements[k].amount * matched[d]) \div Total(matched, Day),
           origin |-> placements[k].origin]]

(* ... are lots ...                                                         *)
LEMMA SpreadLot ==
  ASSUME NEW placements \in Seq(Part), NEW matched \in [Day -> Nat],
         SpreadsEvenly(placements, matched), NEW d \in Day, matched[d] # 0,
         NEW k \in DOMAIN placements
  PROVE  /\ DOMAIN Spread(placements, matched, d) = DOMAIN placements
         /\ Spread(placements, matched, d)[k] \in Lot
         /\ Spread(placements, matched, d)[k].buy = d
         /\ Spread(placements, matched, d)[k].origin = placements[k].origin
         /\ Spread(placements, matched, d)[k].shares * Amounts(placements)
              = matched[d] * placements[k].amount
         /\ Spread(placements, matched, d)[k].loss * Total(matched, Day)
              = placements[k].amount * matched[d]
<1> DEFINE m == matched[d]
           a == placements[k].amount
           A == Amounts(placements)
           T == Total(matched, Day)
<1>1. a \in Nat \ {0} /\ a <= A /\ A \in Nat
  BY AmountsFacts
<1>2. m \in Nat \ {0}
  OBVIOUS
<1>3. T \in Nat /\ m <= T
  <2>1. IsFiniteSet(Day) /\ \A e \in Day : matched[e] \in Nat
    BY Days
  <2>2. Summable(matched, Day)
    BY <2>1 DEF Summable
  <2>3. T = SumFunctionOnSet(matched, Day)
    BY DEF Total
  <2>4. SumFunctionOnSet(matched, Day) = matched[d] + SumFunctionOnSet(matched, Day \ {d})
    BY <2>2, SumElement
  <2>5. IsFiniteSet(Day \ {d}) /\ \A e \in Day \ {d} : matched[e] \in Nat
    BY <2>1, FS_RemoveElement
  <2>6. SumFunctionOnSet(matched, Day \ {d}) \in Nat
    BY <2>5, SumNatural
  <2> HIDE DEF T
  <2> QED
    BY <1>2, <2>3, <2>4, <2>6
<1>4. Evenly(m * a, A) /\ Evenly(a * m, T)
  BY DEF SpreadsEvenly
<1>5. placements[k].origin \in Origins
  <2>1. placements[k] \in Part
    OBVIOUS
  <2> QED
    BY <2>1 DEF Part
<1> DEFINE shares == (m * a) \div A
           loss == (a * m) \div T
<1>6. /\ DOMAIN Spread(placements, matched, d) = DOMAIN placements
      /\ Spread(placements, matched, d)[k]
           = [buy |-> d, shares |-> shares, loss |-> loss, origin |-> placements[k].origin]
  BY DEF Spread
<1> HIDE DEF m, a, A, T
<1>7. shares \in Nat \ {0} /\ shares * A = m * a
  <2>1. A \in Nat \ {0} /\ m \in Nat /\ a \in Nat /\ m > 0 /\ a > 0
    BY <1>1, <1>2
  <2>2. /\ (m * a) \div A \in Nat /\ ((m * a) \div A) * A = m * a
        /\ m > 0 /\ a > 0 => (m * a) \div A > 0
    BY <1>1, <1>4, <2>1, ShareOf
  <2>3. shares = (m * a) \div A
    OBVIOUS
  <2> HIDE DEF shares
  <2>4. shares \in Nat /\ shares > 0 /\ shares * A = m * a
    BY <2>1, <2>2, <2>3
  <2> QED
    BY <2>4
<1>8. loss \in Nat /\ loss * T = a * m
  <2>1. T \in Nat \ {0} /\ m \in Nat /\ a \in Nat
    BY <1>1, <1>2, <1>3
  <2> QED
    BY <1>3, <1>4, <2>1, ShareOf
<1> HIDE DEF shares, loss
<1> QED
  BY <1>5, <1>6, <1>7, <1>8 DEF Lot, m, a, A, T

(* The new lots, day by day.                                                *)
SpreadDays(placements, matched) == [d \in Day |-> Spread(placements, matched, d)]

(* ... the shares of which are those matched, the losses those placed in    *)
(* proportion.                                                              *)
LEMMA SpreadFacts ==
  ASSUME NEW placements \in Seq(Part), NEW matched \in [Day -> Nat],
         SpreadsEvenly(placements, matched), NEW d \in Day
  PROVE  /\ Spread(placements, matched, d) \in Seq(Lot)
         /\ \A e \in Day : e # d => Weigh(SharesOn(e), Spread(placements, matched, d)) = 0
         /\ Weigh(SharesOn(d), Spread(placements, matched, d))
              = IF placements = <<>> THEN 0 ELSE matched[d]
         /\ \A O : Weigh(LossFrom(O), Spread(placements, matched, d)) * Total(matched, Day)
                     = matched[d] * Weigh(AmountFrom(O), placements)
<1> DEFINE s == Spread(placements, matched, d)
           S == DOMAIN placements
           A == Amounts(placements)
           T == Total(matched, Day)
<1>0. /\ S = 1 .. Len(placements) /\ Len(placements) \in Nat /\ IsFiniteSet(S)
      /\ A \in Nat /\ A = Weigh(AmountFrom(Origins), placements)
      /\ A = 0 => S = {}
      /\ placements = <<>> => A = 0
      /\ T \in Nat /\ matched[d] \in Nat
  <2>1. S = 1 .. Len(placements) /\ Len(placements) \in Nat
    OBVIOUS
  <2>2. T \in Nat
    <3>1. IsFiniteSet(Day) /\ \A e \in Day : matched[e] \in Nat
      BY Days
    <3> QED
      BY <3>1, SumNatural DEF Total
  <2>3. placements = <<>> => Weigh(AmountFrom(Origins), placements) = 0
    BY WeighEmpty
  <2> QED
    <3>1. /\ A \in Nat /\ A = Weigh(AmountFrom(Origins), placements)
          /\ A = 0 => S = {}
      BY AmountsFacts
    <3>2. IsFiniteSet(1 .. Len(placements)) /\ matched[d] \in Nat
      BY <2>1, FS_Interval
    <3> HIDE DEF A, S, T
    <3> QED
      BY <2>1, <2>2, <2>3, <3>1, <3>2
<1>1. CASE matched[d] = 0
  <2>1. s = <<>>
    BY <1>1 DEF Spread
  <2>2. <<>> \in Seq(Lot) /\ \A w : Weigh(w, <<>>) = 0
    BY WeighEmpty
  <2>3. ASSUME NEW O PROVE matched[d] * Weigh(AmountFrom(O), placements) = 0
    <3>1. Weigh(AmountFrom(O), placements) \in Int
      BY PartWeights, WeighType
    <3> QED
      BY <1>1, <3>1
  <2> HIDE DEF s, T
  <2> QED
    BY <1>0, <1>1, <2>1, <2>2, <2>3 DEF s, T
<1>2. CASE matched[d] # 0
  <2>1. /\ DOMAIN s = S
        /\ \A k \in S : /\ s[k] \in Lot /\ s[k].buy = d /\ s[k].origin = placements[k].origin
                        /\ s[k].shares * A = matched[d] * placements[k].amount
                        /\ s[k].loss * T = placements[k].amount * matched[d]
    <3>1. DOMAIN s = S
      BY <1>2 DEF Spread
    <3> QED
      BY <1>2, <3>1, SpreadLot
  <2>2. s \in Seq(Lot)
    <3>1. s = [k \in 1 .. Len(placements) |-> s[k]]
      BY <1>0, <1>2 DEF Spread
    <3> HIDE DEF s
    <3>2. [k \in 1 .. Len(placements) |-> s[k]] \in Seq(Lot)
      BY <1>0, <2>1
    <3> QED
      BY <3>1, <3>2
  <2> HIDE DEF s
  <2>3. \A k \in S : /\ s[k].shares \in Nat /\ s[k].loss \in Nat /\ placements[k].amount \in Nat
                     /\ placements[k] \in Part
    <3>1. \A k \in S : placements[k] \in Part
      OBVIOUS
    <3> QED
      BY <2>1, <3>1 DEF Lot, Part
  <2>4. ASSUME NEW e \in Day, e # d PROVE Weigh(SharesOn(e), s) = 0
    <3> DEFINE g == [i \in DOMAIN s |-> SharesOn(e)[s[i]]]
    <3>1. \A i \in S : g[i] = 0
      BY <2>1, <2>4 DEF SharesOn
    <3>2. Weigh(SharesOn(e), s) = SumFunctionOnSet(g, S)
      BY <2>1 DEF Weigh
    <3> HIDE DEF g, S
    <3> QED
      BY <1>0, <3>1, <3>2, SumZero
  <2>5. Weigh(SharesOn(d), s) * A = matched[d] * A
    <3> DEFINE g == [i \in DOMAIN s |-> SharesOn(d)[s[i]]]
               f == [i \in DOMAIN placements |-> AmountFrom(Origins)[placements[i]]]
               h == [i \in S |-> matched[d] * f[i]]
    <3>1. \A i \in S : g[i] = s[i].shares
      BY <2>1 DEF SharesOn
    <3>2. \A i \in S : f[i] = placements[i].amount
      BY <2>3 DEF AmountFrom, Part
    <3>3. Weigh(SharesOn(d), s) = SumFunctionOnSet(g, S) /\ A = SumFunctionOnSet(f, S)
      BY <1>0, <2>1 DEF Weigh
    <3>4. \A i \in S : h[i] = matched[d] * f[i]
      OBVIOUS
    <3> HIDE DEF g, f, h, A, S
    <3> DEFINE m == matched[d]
    <3>a. m \in Int /\ A \in Int /\ (\A i \in S : h[i] = m * f[i])
          /\ (\A i \in S : s[i].shares * A = placements[i].amount * m)
          /\ (\A i \in S : s[i].shares \in Int /\ placements[i].amount \in Int)
      BY <1>0, <2>1, <2>3, <3>4
    <3> HIDE DEF m
    <3>5. \A i \in S : h[i] = A * g[i] /\ g[i] \in Int /\ f[i] \in Int
      BY <3>1, <3>2, <3>a
    <3>6. Summable(f, S) /\ Summable(g, S)
      BY <1>0, <3>5 DEF Summable
    <3>7. SumFunctionOnSet(h, S) = matched[d] * SumFunctionOnSet(f, S)
      BY <3>a, <3>6, SumTimes DEF m
    <3>8. SumFunctionOnSet(h, S) = A * SumFunctionOnSet(g, S)
      BY <3>a, <3>5, <3>6, SumTimes
    <3>9. SumFunctionOnSet(g, S) \in Int
      BY <3>6, SumInteger
    <3> QED
      BY <1>0, <3>3, <3>7, <3>8, <3>9
  <2>6. ASSUME NEW O PROVE Weigh(LossFrom(O), s) * T = matched[d] * Weigh(AmountFrom(O), placements)
    <3> DEFINE g == [i \in DOMAIN s |-> LossFrom(O)[s[i]]]
               f == [i \in DOMAIN placements |-> AmountFrom(O)[placements[i]]]
               h == [i \in S |-> matched[d] * f[i]]
    <3>1. \A i \in S : g[i] = Where(O, placements[i].origin, s[i].loss)
      BY <2>1 DEF LossFrom, Where
    <3>2. \A i \in S : f[i] = Where(O, placements[i].origin, placements[i].amount)
      BY <2>3 DEF AmountFrom, Where
    <3>3. Weigh(LossFrom(O), s) = SumFunctionOnSet(g, S) /\ Weigh(AmountFrom(O), placements) = SumFunctionOnSet(f, S)
      BY <1>0, <2>1 DEF Weigh
    <3>4. \A i \in S : h[i] = matched[d] * f[i]
      OBVIOUS
    <3> HIDE DEF g, f, h, T, S
    <3> DEFINE m == matched[d]
    <3>a. m \in Int /\ T \in Int /\ (\A i \in S : h[i] = m * f[i])
          /\ (\A i \in S : s[i].loss * T = placements[i].amount * m)
          /\ (\A i \in S : s[i].loss \in Int /\ placements[i].amount \in Int)
      BY <1>0, <2>1, <2>3, <3>4
    <3> HIDE DEF m
    <3>5. \A i \in S : h[i] = T * g[i] /\ g[i] \in Int /\ f[i] \in Int
      BY <3>1, <3>2, <3>a DEF Where
    <3>6. Summable(f, S) /\ Summable(g, S)
      BY <1>0, <3>5 DEF Summable
    <3>7. SumFunctionOnSet(h, S) = matched[d] * SumFunctionOnSet(f, S)
      BY <3>a, <3>6, SumTimes DEF m
    <3>8. SumFunctionOnSet(h, S) = T * SumFunctionOnSet(g, S)
      BY <3>a, <3>5, <3>6, SumTimes
    <3>9. SumFunctionOnSet(g, S) \in Int
      BY <3>6, SumInteger
    <3> QED
      BY <1>0, <3>3, <3>7, <3>8, <3>9
  <2>7. Weigh(SharesOn(d), s) = IF placements = <<>> THEN 0 ELSE matched[d]
    <3>1. CASE placements = <<>>
      <4>1. s = <<>>
        <5>1. DOMAIN s = {} /\ Len(s) \in Nat /\ DOMAIN s = 1 .. Len(s)
          BY <2>1, <2>2, <3>1
        <5>2. Len(s) = 0
          BY <5>1
        <5> QED
          BY <2>2, <5>2
      <4> QED
        BY <3>1, <4>1, WeighEmpty
    <3>2. CASE placements # <<>>
      <4>1. A # 0
        <5>1. S # {}
          <6>1. Len(placements) # 0
            BY <3>2
          <6>2. 1 \in S
            BY <1>0, <6>1
          <6> QED
            BY <6>2
        <5> QED
          BY <1>0, <5>1
      <4>2. Weigh(SharesOn(d), s) \in Int
        BY <2>2, LotWeights, WeighType
      <4> HIDE DEF A
      <4> QED
        BY <1>0, <2>5, <3>2, <4>1, <4>2
    <3> QED
      BY <3>1, <3>2
  <2> QED
    BY <2>2, <2>4, <2>6, <2>7 DEF s
<1> QED
  BY <1>1, <1>2

(* What begins to block: the matched shares, with all that was placed.      *)
LEMMA NewlyBlockedFacts ==
  ASSUME NEW placements \in Seq(Part), NEW matched \in [Day -> Nat],
         SpreadsEvenly(placements, matched),
         NEW new, new = NewlyBlocked(placements, matched)
  PROVE  /\ new \in Seq(Lot)
         /\ \A d \in Day : BlockedOn(new, d) = IF placements = <<>> THEN 0 ELSE matched[d]
         /\ \A O : /\ Total(matched, Day) > 0 =>
                        Weigh(LossFrom(O), new) = Weigh(AmountFrom(O), placements)
                   /\ Total(matched, Day) = 0 => Weigh(LossFrom(O), new) = 0
<1> DEFINE days == SpreadDays(placements, matched)
           T == Total(matched, Day)
<1>1. new = FlattenSeq(days)
  BY DEF NewlyBlocked, SpreadDays, Spread
<1>2. \A d \in Day : days[d] = Spread(placements, matched, d)
  BY DEF SpreadDays
<1>3. \A d \in Day : days[d] \in Seq(Lot)
  BY <1>2, SpreadFacts
<1>4. days \in [1 .. MaxDay -> Seq(Lot)]
  BY <1>3, Days DEF SpreadDays
<1>5. IsFiniteSet(Day) /\ (\A d \in Day : matched[d] \in Nat) /\ Day = 1 .. MaxDay
  BY Days
<1>6. T = SumFunctionOnSet(matched, Day) /\ Summable(matched, Day) /\ T \in Nat
  <2>1. SumFunctionOnSet(matched, Day) \in Nat
    BY <1>5, SumNatural
  <2> QED
    BY <1>5, <2>1 DEF Total, Summable
<1> HIDE DEF days, T
<1>7. new \in Seq(Lot)
  <2>1. Weights(LossFrom({}), Lot)
    BY LotWeights
  <2> QED
    BY <1>1, <1>4, <2>1, Days, WeighFlat
<1>8. ASSUME NEW w, Weights(w, Lot)
      PROVE  Weigh(w, new) = SumFunctionOnSet(WeightsOf(w, days, MaxDay), Day)
  BY <1>1, <1>4, <1>5, <1>8, Days, WeighFlat
<1>9. ASSUME NEW d \in Day
      PROVE  BlockedOn(new, d) = IF placements = <<>> THEN 0 ELSE matched[d]
  <2> DEFINE g == WeightsOf(SharesOn(d), days, MaxDay)
  <2>1. BlockedOn(new, d) = SumFunctionOnSet(g, Day)
    BY <1>7, <1>8, BlockedWeighs, LotWeights
  <2>2. \A e \in Day : g[e] = Weigh(SharesOn(d), Spread(placements, matched, e))
    BY <1>2, <1>5 DEF WeightsOf
  <2> HIDE DEF g
  <2>3. g[d] = IF placements = <<>> THEN 0 ELSE matched[d]
    BY <2>2, SpreadFacts
  <2>4. \A e \in Day \ {d} : g[e] = 0
    BY <2>2, SpreadFacts
  <2>5. Summable(g, Day)
    BY <1>5, <2>3, <2>4 DEF Summable
  <2> QED
    BY <2>1, <2>3, <2>4, <2>5, SumSingle
<1>10. ASSUME NEW O
       PROVE  /\ T > 0 => Weigh(LossFrom(O), new) = Weigh(AmountFrom(O), placements)
              /\ T = 0 => Weigh(LossFrom(O), new) = 0
  <2> DEFINE g == WeightsOf(LossFrom(O), days, MaxDay)
             A == Weigh(AmountFrom(O), placements)
             h == [d \in Day |-> A * matched[d]]
  <2>1. Weigh(LossFrom(O), new) = SumFunctionOnSet(g, Day)
    BY <1>8, LotWeights
  <2>2. \A e \in Day : g[e] = Weigh(LossFrom(O), Spread(placements, matched, e))
    BY <1>2, <1>5 DEF WeightsOf
  <2> HIDE DEF g
  <2>3. A \in Int
    BY PartWeights, WeighType
  <2>4. \A e \in Day : g[e] \in Int
    <3>1. ASSUME NEW e \in Day PROVE Weigh(LossFrom(O), days[e]) \in Int
      <4>1. days[e] \in Seq(Lot) /\ Weights(LossFrom(O), Lot)
        BY <1>3, LotWeights
      <4> QED
        BY <4>1, WeighType
    <3> QED
      BY <1>2, <2>2, <3>1
  <2>5. Summable(g, Day)
    BY <1>5, <2>4 DEF Summable
  <2>6. \A e \in Day : g[e] * T = matched[e] * A
    BY <2>2, SpreadFacts DEF T
  <2>7. \A e \in Day : h[e] = A * matched[e]
    OBVIOUS
  <2> HIDE DEF A, h
  <2>8. \A e \in Day : h[e] = T * g[e]
    BY <1>5, <1>6, <2>3, <2>4, <2>6, <2>7
  <2>9. SumFunctionOnSet(h, Day) = A * SumFunctionOnSet(matched, Day)
    BY <1>6, <2>3, <2>7, SumTimes
  <2>10. SumFunctionOnSet(h, Day) = T * SumFunctionOnSet(g, Day)
    <3>1. T \in Int
      BY <1>6
    <3> QED
      BY <2>5, <2>8, <3>1, SumTimes
  <2>11. SumFunctionOnSet(g, Day) \in Int
    BY <2>5, SumInteger
  <2>12. T > 0 => SumFunctionOnSet(g, Day) = A
    BY <1>6, <2>3, <2>9, <2>10, <2>11
  <2>13. T = 0 => SumFunctionOnSet(g, Day) = 0
    <3>1. SUFFICES ASSUME T = 0 PROVE SumFunctionOnSet(g, Day) = 0
      OBVIOUS
    <3>2. ASSUME NEW d \in Day PROVE g[d] = 0
      <4>1. matched[d] = 0
        <5>1. SumFunctionOnSet(matched, Day) = matched[d] + SumFunctionOnSet(matched, Day \ {d})
          BY <1>6, SumElement
        <5>2. SumFunctionOnSet(matched, Day \ {d}) \in Nat
          BY <1>5, FS_RemoveElement, SumNatural
        <5> QED
          BY <1>5, <1>6, <3>1, <5>1, <5>2
      <4>2. Spread(placements, matched, d) = <<>>
        BY <4>1 DEF Spread
      <4> QED
        BY <2>2, <4>2, WeighEmpty
    <3> QED
      BY <1>5, <3>2, SumZero
  <2> QED
    BY <2>1, <2>12, <2>13 DEF A
<1> QED
  BY <1>7, <1>9, <1>10 DEF T

-----------------------------------------------------------------------------
AmountOf(O) == [r \in Reintegration |-> IF r.origin \in O THEN r.amount ELSE 0]

(* Reintegrations can be added up.                                          *)
LEMMA ReintegrationWeights ==
  \A O : Weights(AmountOf(O), Reintegration)
<1>1. \A r \in Reintegration : r.amount \in Nat
  BY DEF Reintegration
<1> QED
  BY <1>1 DEF Weights, AmountOf

Ended(sale, lots, moved) ==
  [i \in DOMAIN lots |->
     [date |-> sale.date, origin |-> lots[i].origin,
      amount |-> Released(lots, sale.lots, i) - moved[i]]]

Moves(moved, lots, sold) ==
  \A i \in DOMAIN lots : /\ moved[i] \in Nat /\ moved[i] <= Released(lots, sold, i)
                         /\ Released(lots, sold, i) \in Nat

(* What ends for good: what was released and did not move.                  *)
LEMMA ReintegratedFacts ==
  ASSUME NEW sale \in Sale, NEW lots \in Seq(Lot), NEW moved, Moves(moved, lots, sale.lots),
         NEW final, final = Reintegrated(sale, lots, moved)
  PROVE  /\ final \in Seq(Reintegration)
         /\ final \in Seq({r \in Reintegration : r.date = sale.date})
         /\ (\A i \in DOMAIN lots : moved[i] = Released(lots, sale.lots, i)) => final = <<>>
         /\ \A O : Weigh(AmountOf(O), final)
                     + SumFunctionOnSet(LotAmounts(O, lots, moved), DOMAIN lots)
                     = SumFunctionOnSet([i \in DOMAIN lots |->
                                           Where(O, lots[i].origin, Released(lots, sale.lots, i))],
                                        DOMAIN lots)
<1> DEFINE ended == Ended(sale, lots, moved)
           places == {i \in DOMAIN ended : ended[i].amount > 0}
           N == Len(lots)
           AsOf == {r \in Reintegration : r.date = sale.date}
<1>1. final = Only(ended, places)
  BY DEF Reintegrated, Ended
<1>2. N \in Nat /\ DOMAIN lots = 1 .. N /\ IsFiniteSet(DOMAIN lots)
  BY FS_Interval
<1>3. /\ DOMAIN ended = DOMAIN lots
      /\ \A i \in DOMAIN lots :
           /\ ended[i] \in Reintegration
           /\ ended[i].date = sale.date /\ ended[i].origin = lots[i].origin
           /\ ended[i].amount = Released(lots, sale.lots, i) - moved[i]
           /\ ended[i].amount \in Nat
  <2>1. DOMAIN ended = DOMAIN lots
    BY DEF Ended
  <2>2. ASSUME NEW i \in DOMAIN lots
        PROVE  /\ ended[i] \in Reintegration
               /\ ended[i].date = sale.date /\ ended[i].origin = lots[i].origin
               /\ ended[i].amount = Released(lots, sale.lots, i) - moved[i]
               /\ ended[i].amount \in Nat
    <3> DEFINE a == Released(lots, sale.lots, i) - moved[i]
    <3>1. a \in Nat
      BY DEF Moves
    <3>2. ended[i] = [date |-> sale.date, origin |-> lots[i].origin, amount |-> a]
      BY DEF Ended
    <3>3. lots[i] \in Lot
      OBVIOUS
    <3> HIDE DEF ended, a
    <3>4. lots[i].origin \in Origins /\ sale.date \in Day
      BY <3>3 DEF Lot, Sale
    <3> QED
      BY <3>1, <3>2, <3>4 DEF Reintegration, a
  <2> QED
    BY <2>1, <2>2
<1>4. ended \in Seq(Reintegration)
  <2>1. ended = [i \in 1 .. N |-> ended[i]]
    BY <1>2 DEF Ended
  <2> HIDE DEF ended, N
  <2>2. [i \in 1 .. N |-> ended[i]] \in Seq(Reintegration)
    BY <1>2, <1>3
  <2> QED
    BY <2>1, <2>2
<1> HIDE DEF ended, N
<1>5. \A i \in DOMAIN ended : i \in places => ended[i] \in Reintegration /\ ended[i] \in AsOf
  BY <1>3
<1> HIDE DEF AsOf
<1>6. (\A i \in DOMAIN lots : moved[i] = Released(lots, sale.lots, i)) => places = {}
  <2>1. SUFFICES ASSUME \A i \in DOMAIN lots : moved[i] = Released(lots, sale.lots, i)
                 PROVE  places = {}
    OBVIOUS
  <2>2. ASSUME NEW i \in DOMAIN lots PROVE ~(ended[i].amount > 0)
    BY <1>3, <2>1 DEF Moves
  <2> QED
    BY <1>3, <2>2
<1> HIDE DEF places
<1>7. /\ Only(ended, places) \in Seq(Reintegration)
      /\ Only(ended, places) \in Seq(AsOf)
  BY <1>4, <1>5, OnlyElements
<1>8. places = {} => Only(ended, places) = <<>>
  <2>1. SUFFICES ASSUME places = {} PROVE Only(ended, places) = <<>>
    OBVIOUS
  <2>2. \A i \in DOMAIN ended : i \in places => ended[i] \in {}
    BY <2>1
  <2>3. Only(ended, places) \in Seq({})
    BY <1>4, <2>2, OnlyElements
  <2>4. Len(Only(ended, places)) = 0
    <3> DEFINE s == Only(ended, places)
    <3>1. \A k \in 1 .. Len(s) : s[k] \in {}
      BY <2>3
    <3>2. Len(s) \in Nat
      BY <2>3
    <3> HIDE DEF s
    <3>3. ~(1 <= Len(s))
      BY <3>1, <3>2
    <3> QED
      BY <3>2, <3>3 DEF s
  <2> QED
    BY <2>3, <2>4
<1>9. ASSUME NEW O
      PROVE  Weigh(AmountOf(O), Only(ended, places))
                     + SumFunctionOnSet(LotAmounts(O, lots, moved), DOMAIN lots)
                     = SumFunctionOnSet([i \in DOMAIN lots |->
                                           Where(O, lots[i].origin, Released(lots, sale.lots, i))],
                                        DOMAIN lots)
  <2> DEFINE w == AmountOf(O)
             k == WeightsAt(w, ended, places)
             g == LotAmounts(O, lots, moved)
             f == [i \in DOMAIN lots |-> Where(O, lots[i].origin, Released(lots, sale.lots, i))]
  <2>1. Weigh(w, Only(ended, places)) = SumFunctionOnSet(k, DOMAIN lots)
    <3>1. \A i \in DOMAIN ended : i \in places => ended[i] \in Reintegration
      BY <1>5
    <3> QED
      BY <1>3, <1>4, <3>1, ReintegrationWeights, WeighOnly
  <2>2. \A i \in DOMAIN lots : f[i] = Where(O, lots[i].origin, Released(lots, sale.lots, i))
    OBVIOUS
  <2>3. \A i \in DOMAIN lots : g[i] = Where(O, lots[i].origin, moved[i])
    BY DEF LotAmounts
  <2>4. \A i \in DOMAIN lots : k[i] = IF i \in places THEN w[ended[i]] ELSE 0
    BY <1>3 DEF WeightsAt
  <2>5. \A i \in DOMAIN lots : w[ended[i]] = Where(O, lots[i].origin, ended[i].amount)
    BY <1>3 DEF AmountOf, Where
  <2>6. \A i \in DOMAIN lots : i \in places <=> ended[i].amount > 0
    BY <1>3 DEF places
  <2> HIDE DEF w, k, g, f
  <2>7. ASSUME NEW i \in DOMAIN lots
        PROVE  k[i] \in Int /\ g[i] \in Int /\ f[i] = k[i] + g[i]
    <3>1. /\ ended[i].amount = Released(lots, sale.lots, i) - moved[i] /\ ended[i].amount \in Nat
          /\ moved[i] \in Nat /\ Released(lots, sale.lots, i) \in Nat
      BY <1>3 DEF Moves
    <3>2. k[i] = Where(O, lots[i].origin, ended[i].amount)
      BY <2>4, <2>5, <2>6, <3>1 DEF Where
    <3> QED
      BY <2>2, <2>3, <3>1, <3>2 DEF Where
  <2>8. Summable(k, DOMAIN lots) /\ Summable(g, DOMAIN lots)
    BY <1>2, <2>7 DEF Summable
  <2>9. SumFunctionOnSet(f, DOMAIN lots) = SumFunctionOnSet(k, DOMAIN lots) + SumFunctionOnSet(g, DOMAIN lots)
    BY <2>7, <2>8, SumPlus
  <2> QED
    BY <2>1, <2>9 DEF w, f, g
<1> QED
  BY <1>1, <1>6, <1>7, <1>8, <1>9 DEF AsOf

-----------------------------------------------------------------------------
(* None of several natural numbers exceeds their sum.                       *)
LEMMA SumAtLeast ==
  ASSUME NEW S, IsFiniteSet(S), NEW f, \A x \in S : f[x] \in Nat, NEW y \in S
  PROVE  f[y] <= SumFunctionOnSet(f, S) /\ SumFunctionOnSet(f, S) \in Nat
<1>1. Summable(f, S)
  BY DEF Summable
<1>2. SumFunctionOnSet(f, S) = f[y] + SumFunctionOnSet(f, S \ {y})
  BY <1>1, SumElement
<1>3. IsFiniteSet(S \ {y}) /\ \A x \in S \ {y} : f[x] \in Nat
  BY FS_RemoveElement
<1>4. SumFunctionOnSet(f, S \ {y}) \in Nat
  BY <1>3, SumNatural
<1> QED
  BY <1>2, <1>4

(* Whatever a disposal shares out divides evenly.                           *)
DividesEvenly(sale, acquired, before, lots) ==
  LET matched == Replacing(sale, acquired, before, lots)
      replaced == Total(matched, Day)
      taken == TakenInAll(lots, sale.lots)
      placements == Placements(sale, lots, Moved(lots, sale.lots, replaced),
                               OwnLoss(sale, replaced))
  IN  /\ Evenly(LossOf(sale) * replaced, sale.quantity)
      /\ \A i \in DOMAIN lots :
           /\ Evenly(lots[i].loss * Taken(lots, sale.lots, i), lots[i].shares)
           /\ taken > 0 =>
                Evenly(Released(lots, sale.lots, i) * Least(replaced, taken), taken)
      /\ \A k \in DOMAIN placements, d \in Day :
           /\ Evenly(matched[d] * placements[k].amount, Amounts(placements))
           /\ Evenly(placements[k].amount * matched[d], replaced)

(* The effect of a disposal whose shares are those of its lots.             *)
IsEffect(effect, sale, acquired, before, lots) ==
  /\ sale \in Sale /\ Total(sale.lots, Day) = sale.quantity
  /\ acquired \in [Day -> Nat] /\ before \in [Day -> Nat] /\ lots \in Seq(Lot)
  /\ DividesEvenly(sale, acquired, before, lots)
  /\ effect = Effect(sale, acquired, before, lots)

(* What blocks stands on shares that are held.                              *)
StandsOn(lots, acquired, gone) ==
  \A d \in Day : gone[d] <= acquired[d] /\ BlockedOn(lots, d) <= acquired[d] - gone[d]

(* Only the window begins to block, and all of it does before a loss counts. *)
Exactly(effect, sale, acquired, lots) ==
  \A d \in Day :
    /\ BlockedOn(effect.blocked, d) > BlockedOn(lots, d) => InWindow(d, sale.date)
    /\ InWindow(d, sale.date) /\ (effect.deferral < LossOf(sale) \/ effect.final # <<>>) =>
         BlockedOn(effect.blocked, d) = acquired[d] - effect.consumed[d]

(* What was deferred before and is now still blocks or ends.                *)
Passes(effect, sale, lots) ==
  \A O : Weigh(LossFrom(O), effect.blocked) + Weigh(AmountOf(O), effect.final)
            = Weigh(LossFrom(O), lots) + Where(O, sale.date, effect.deferral)

(* What a disposal defers, releases, moves on and ends.                     *)
LEMMA EffectFacts ==
  ASSUME NEW effect, NEW sale, NEW acquired, NEW before, NEW lots,
         IsEffect(effect, sale, acquired, before, lots)
  PROVE  /\ effect.consumed = Gone(sale, before) /\ effect.consumed \in [Day -> Nat]
         /\ effect.blocked \in Seq(Lot)
         /\ effect.deferral \in Nat /\ effect.deferral <= LossOf(sale) /\ LossOf(sale) \in Nat
         /\ effect.final \in Seq(Reintegration)
         /\ effect.final \in Seq({r \in Reintegration : r.date = sale.date})
         /\ Passes(effect, sale, lots)
         /\ (\A d \in Day : effect.consumed[d] <= acquired[d]) /\ StandsOn(lots, acquired, before) =>
              /\ StandsOn(effect.blocked, acquired, effect.consumed)
              /\ Exactly(effect, sale, acquired, lots)
<1> DEFINE gone == Gone(sale, before)
           still == StillBlocking(lots, sale.lots)
           matched == Replacing(sale, acquired, before, lots)
           T == Total(matched, Day)
           own == OwnLoss(sale, T)
           moved == Moved(lots, sale.lots, T)
           placements == Placements(sale, lots, moved, own)
           new == NewlyBlocked(placements, matched)
           final == Reintegrated(sale, lots, moved)
           sold == sale.lots
           q == sale.quantity
<1>1. /\ effect.consumed = gone /\ effect.blocked = still \o new
      /\ effect.deferral = own /\ effect.final = final
  BY DEF IsEffect, Effect
<1>2. /\ sale \in Sale /\ sold \in [Day -> Nat] /\ q \in Nat \ {0} /\ sale.date \in Day
      /\ sale.result \in Int /\ LossOf(sale) \in Nat /\ Total(sold, Day) = q
      /\ acquired \in [Day -> Nat] /\ before \in [Day -> Nat] /\ lots \in Seq(Lot)
  <2>1. sale \in Sale
    BY DEF IsEffect
  <2>2. LossOf(sale) \in Nat
    BY <2>1 DEF Sale, LossOf, Most
  <2> QED
    BY <2>1, <2>2 DEF IsEffect, Sale
<1>3. /\ Evenly(LossOf(sale) * T, q)
      /\ ReleasesEvenly(lots, sold)
      /\ MovesEvenly(lots, sold, T)
      /\ SpreadsEvenly(placements, matched)
  BY DEF IsEffect, DividesEvenly, ReleasesEvenly, MovesEvenly, SpreadsEvenly
<1>4. gone \in [Day -> Nat] /\ \A d \in Day : gone[d] = before[d] + sold[d]
  BY <1>2 DEF Gone
<1>5. matched = Matched(sale, acquired, gone, still)
  BY DEF Replacing
<1> HIDE DEF gone, still, matched
<1>6. /\ still \in Seq(Lot)
      /\ \A d \in Day : BlockedOn(still, d) = BlockedOn(lots, d) - Least(sold[d], BlockedOn(lots, d))
      /\ \A O : Weigh(LossFrom(O), still)
                     + SumFunctionOnSet([i \in DOMAIN lots |->
                                           Where(O, lots[i].origin, Released(lots, sold, i))],
                                        DOMAIN lots)
                     = Weigh(LossFrom(O), lots)
  BY <1>2, <1>3, StillFacts DEF still
<1> HIDE DEF T
<1>7. /\ matched \in [Day -> Nat]
      /\ \A d \in Day : /\ matched[d] > 0 => InWindow(d, sale.date)
                        /\ matched[d] <= Available(acquired, gone, still, d)
      /\ T \in Nat /\ T <= q
      /\ T < q =>
           \A d \in Day : InWindow(d, sale.date) => matched[d] = Available(acquired, gone, still, d)
  <2>1. /\ sale \in Sale /\ acquired \in [Day -> Nat] /\ gone \in [Day -> Nat]
        /\ still \in Seq(Lot) /\ matched = Matched(sale, acquired, gone, still)
    BY <1>2, <1>4, <1>5, <1>6
  <2> QED
    <3>1. AreMatched(Matched(sale, acquired, gone, still), sale, acquired, gone, still)
      BY <2>1, MatchedFacts
    <3>2. AreMatched(matched, sale, acquired, gone, still)
      BY <2>1, <3>1
    <3> QED
      BY <3>2 DEF AreMatched, T
<1>8. /\ own \in Nat /\ own <= LossOf(sale)
      /\ own < LossOf(sale) => T < q
      /\ own = 0 /\ LossOf(sale) > 0 => T = 0
      /\ T = 0 => own = 0
  <2> DEFINE l == LossOf(sale)
  <2>1. l \in Nat /\ own = (l * T) \div q
    BY <1>2 DEF OwnLoss
  <2> HIDE DEF l, own
  <2>2. /\ (l * T) \div q \in Nat /\ ((l * T) \div q) * q = l * T /\ (l * T) \div q <= l
        /\ T = q => (l * T) \div q = l
        /\ l > 0 /\ T > 0 => (l * T) \div q > 0
    BY <1>2, <1>3, <1>7, <2>1, ShareOf DEF l
  <2>3. /\ own \in Nat /\ own * q = l * T /\ own <= l
        /\ T = q => own = l
        /\ l > 0 /\ T > 0 => own > 0
    BY <2>1, <2>2
  <2>4. own < l => T < q
    BY <1>2, <1>7, <2>1, <2>3
  <2>5. own = 0 /\ l > 0 => T = 0
    BY <1>7, <2>1, <2>3
  <2>6. T = 0 => own = 0
    <3>1. SUFFICES ASSUME T = 0 PROVE own = 0
      OBVIOUS
    <3>2. l * T = 0
      BY <2>1, <3>1
    <3> QED
      BY <1>2, <2>3, <3>2
  <2> QED
    BY <2>3, <2>4, <2>5, <2>6 DEF l
<1> HIDE DEF q
<1>9. ASSUME NEW i \in DOMAIN lots
      PROVE  /\ moved[i] \in Nat /\ Released(lots, sold, i) \in Nat
             /\ moved[i] <= Released(lots, sold, i)
             /\ T = 0 => moved[i] = 0
             /\ moved[i] < Released(lots, sold, i) =>
                  /\ T < TakenInAll(lots, sold)
                  /\ T > 0 => moved[i] > 0
  <2>1. /\ lots \in Seq(Lot) /\ sold \in [Day -> Nat] /\ T \in Nat
        /\ ReleasesEvenly(lots, sold) /\ MovesEvenly(lots, sold, T)
        /\ moved = Moved(lots, sold, T)
    BY <1>2, <1>3, <1>7
  <2>2. Released(lots, sold, i) \in Nat
    BY <2>1, ReleasedFacts
  <2> HIDE DEF moved, sold
  <2> QED
    BY <2>1, <2>2, MovedFacts
<1>10. Moves(moved, lots, sold)
  BY <1>9 DEF Moves
<1> HIDE DEF own, moved
<1>11. /\ placements \in Seq(Part)
       /\ \A O : Weigh(AmountFrom(O), placements)
                   = Where(O, sale.date, own)
                       + SumFunctionOnSet(LotAmounts(O, lots, moved), DOMAIN lots)
  <2>1. lots \in Seq(Lot) /\ ArePlacements(placements, sale, lots, moved, own)
    BY <1>2, <1>8, <1>9 DEF ArePlacements
  <2> HIDE DEF placements
  <2> QED
    BY <2>1, PlacementsFacts
<1>12. /\ new \in Seq(Lot)
       /\ \A d \in Day : BlockedOn(new, d) = IF placements = <<>> THEN 0 ELSE matched[d]
       /\ \A O : /\ T > 0 => Weigh(LossFrom(O), new) = Weigh(AmountFrom(O), placements)
                 /\ T = 0 => Weigh(LossFrom(O), new) = 0
  <2> HIDE DEF placements
  <2> QED
    BY <1>3, <1>7, <1>11, NewlyBlockedFacts DEF T
<1>13. /\ final \in Seq(Reintegration)
       /\ final \in Seq({r \in Reintegration : r.date = sale.date})
       /\ (\A i \in DOMAIN lots : moved[i] = Released(lots, sold, i)) => final = <<>>
       /\ \A O : Weigh(AmountOf(O), final)
                     + SumFunctionOnSet(LotAmounts(O, lots, moved), DOMAIN lots)
                     = SumFunctionOnSet([i \in DOMAIN lots |->
                                           Where(O, lots[i].origin, Released(lots, sold, i))],
                                        DOMAIN lots)
  <2>1. /\ sale \in Sale /\ lots \in Seq(Lot) /\ Moves(moved, lots, sale.lots)
        /\ final = Reintegrated(sale, lots, moved)
    BY <1>2, <1>10
  <2> HIDE DEF final
  <2> QED
    BY <2>1, ReintegratedFacts
<1> HIDE DEF placements, new, final
<1>14. IsFiniteSet(DOMAIN lots)
  BY <1>2, WeighType, LotWeights DEF Summable
<1>15. ASSUME NEW O
       PROVE  Weigh(LossFrom(O), still \o new) + Weigh(AmountOf(O), final)
                = Weigh(LossFrom(O), lots) + Where(O, sale.date, own)
  <2> DEFINE M == SumFunctionOnSet(LotAmounts(O, lots, moved), DOMAIN lots)
             R == SumFunctionOnSet([i \in DOMAIN lots |->
                                      Where(O, lots[i].origin, Released(lots, sold, i))],
                                   DOMAIN lots)
             w == LossFrom(O)
  <2>1. Weights(w, Lot)
    BY LotWeights
  <2>2. Weigh(w, still \o new) = Weigh(w, still) + Weigh(w, new)
    BY <1>6, <1>12, <2>1, WeighJoined
  <2>3. Weigh(w, still) \in Int /\ Weigh(w, new) \in Int /\ Weigh(w, lots) \in Int
    BY <1>2, <1>6, <1>12, <2>1, WeighType
  <2>4. Weigh(w, still) + R = Weigh(w, lots)
    BY <1>6
  <2>5. Weigh(AmountOf(O), final) + M = R
    BY <1>13
  <2>6. Weigh(AmountOf(O), final) \in Int
    BY <1>13, ReintegrationWeights, WeighType
  <2>7. M \in Nat
    BY <1>2, <1>9, LotAmountsSummable
  <2>8. Weigh(AmountFrom(O), placements) = Where(O, sale.date, own) + M
    BY <1>11
  <2>9. Where(O, sale.date, own) \in Nat /\ (own = 0 => Where(O, sale.date, own) = 0)
    BY <1>8 DEF Where
  <2>10. T = 0 => M = 0
    <3>1. SUFFICES ASSUME T = 0 PROVE M = 0
      OBVIOUS
    <3>2. \A i \in DOMAIN lots : LotAmounts(O, lots, moved)[i] = 0
      BY <1>9, <3>1 DEF LotAmounts, Where
    <3> QED
      BY <1>14, <3>2, SumZero
  <2>11. /\ T > 0 => Weigh(w, new) = Weigh(AmountFrom(O), placements)
         /\ T = 0 => Weigh(w, new) = 0
    BY <1>12
  <2> HIDE DEF M, R, w
  <2>12. Weigh(w, new) = Where(O, sale.date, own) + M
    BY <1>7, <1>8, <2>7, <2>8, <2>9, <2>10, <2>11
  <2> QED
    BY <2>2, <2>3, <2>4, <2>5, <2>6, <2>7, <2>9, <2>12 DEF w
<1>16. ASSUME NEW d \in Day
       PROVE  BlockedOn(still \o new, d) = BlockedOn(still, d) + BlockedOn(new, d)
  <2>1. Weights(SharesOn(d), Lot) /\ still \o new \in Seq(Lot)
    BY <1>6, <1>12, LotWeights
  <2>2. Weigh(SharesOn(d), still \o new) = Weigh(SharesOn(d), still) + Weigh(SharesOn(d), new)
    BY <1>6, <1>12, <2>1, WeighJoined
  <2> QED
    BY <1>6, <1>12, <2>1, <2>2, BlockedWeighs
<1>17. placements = <<>> => own = 0 /\ \A i \in DOMAIN lots : moved[i] = 0
  <2>1. SUFFICES ASSUME placements = <<>> PROVE own = 0 /\ \A i \in DOMAIN lots : moved[i] = 0
    OBVIOUS
  <2> DEFINE f == LotAmounts(Origins, lots, moved)
             M == SumFunctionOnSet(f, DOMAIN lots)
  <2>2. 0 = Where(Origins, sale.date, own) + M
    BY <1>11, <2>1, WeighEmpty
  <2>3. M \in Nat
    BY <1>2, <1>9, LotAmountsSummable
  <2>4. Where(Origins, sale.date, own) = own
    BY <1>2 DEF Where, Origins
  <2>5. \A i \in DOMAIN lots : f[i] = moved[i]
    <3>1. \A i \in DOMAIN lots : lots[i] \in Lot
      BY <1>2
    <3>2. \A i \in DOMAIN lots : lots[i].origin \in Origins
      BY <3>1 DEF Lot
    <3> QED
      BY <3>2 DEF LotAmounts, Where
  <2>6. \A i \in DOMAIN lots : f[i] \in Nat /\ moved[i] \in Nat
    BY <1>9, <2>5
  <2> HIDE DEF f
  <2>7. \A i \in DOMAIN lots : f[i] <= M
    BY <1>14, <2>6, SumAtLeast
  <2> HIDE DEF M
  <2>8. own = 0 /\ M = 0
    BY <1>8, <2>2, <2>3, <2>4
  <2> QED
    BY <2>5, <2>6, <2>7, <2>8
<1>18. T = 0 => \A d \in Day : matched[d] = 0
  <2>1. IsFiniteSet(Day) /\ \A d \in Day : matched[d] \in Nat
    BY <1>7, Days
  <2>2. \A d \in Day : matched[d] <= SumFunctionOnSet(matched, Day)
    BY <2>1, SumAtLeast
  <2>3. T = SumFunctionOnSet(matched, Day)
    BY DEF T, Total
  <2> QED
    BY <2>1, <2>2, <2>3
<1>19. ASSUME \A d \in Day : gone[d] <= acquired[d], StandsOn(lots, acquired, before), NEW d \in Day
       PROVE  /\ BlockedOn(still \o new, d) <= acquired[d] - gone[d]
              /\ BlockedOn(still \o new, d) > BlockedOn(lots, d) => InWindow(d, sale.date)
              /\ InWindow(d, sale.date) /\ (own < LossOf(sale) \/ final # <<>>) =>
                   BlockedOn(still \o new, d) = acquired[d] - gone[d]
  <2> DEFINE S == BlockedOn(still, d)
             N == BlockedOn(new, d)
             B == BlockedOn(lots, d)
             V == Available(acquired, gone, still, d)
             m == matched[d]
  <2>1. BlockedOn(still \o new, d) = S + N
    BY <1>16
  <2>2. S \in Nat /\ N \in Nat /\ B \in Nat
    BY <1>2, <1>6, <1>12, BlockedWeighs
  <2>3. /\ acquired[d] \in Nat /\ before[d] \in Nat /\ sold[d] \in Nat /\ m \in Nat
        /\ gone[d] = before[d] + sold[d] /\ gone[d] <= acquired[d]
    BY <1>2, <1>4, <1>7, <1>19
  <2>4. S = B - Least(sold[d], B) /\ B <= acquired[d] - before[d]
    BY <1>6, <1>19 DEF StandsOn
  <2>5. S <= acquired[d] - gone[d] /\ S <= B
    BY <2>2, <2>3, <2>4 DEF Least
  <2>6. /\ V \in Nat
        /\ V > 0 => V = acquired[d] - gone[d] - S
        /\ V = 0 => acquired[d] - gone[d] - S <= 0
    BY <1>2, <1>4, <1>6, AvailableFacts
  <2>7. m <= V /\ (m > 0 => InWindow(d, sale.date)) /\ N = IF placements = <<>> THEN 0 ELSE m
    BY <1>7, <1>12
  <2> HIDE DEF S, N, B, V
  <2>8. N <= m
    BY <2>2, <2>3, <2>7
  <2>9. S + N <= acquired[d] - gone[d]
    BY <2>2, <2>3, <2>5, <2>6, <2>7, <2>8
  <2>10. S + N > B => InWindow(d, sale.date)
    BY <2>2, <2>3, <2>5, <2>7, <2>8
  <2>11. ASSUME InWindow(d, sale.date), own < LossOf(sale) \/ final # <<>>
         PROVE  S + N = acquired[d] - gone[d]
    <3>1. T < q /\ (placements = <<>> => T = 0)
      <4>1. CASE own < LossOf(sale)
        BY <1>2, <1>8, <1>17, <4>1
      <4>2. CASE final # <<>>
        <5>1. PICK i \in DOMAIN lots : moved[i] # Released(lots, sold, i)
          BY <1>13, <4>2
        <5>2. moved[i] < Released(lots, sold, i)
          BY <1>9, <5>1
        <5>3. TakenInAll(lots, sold) <= q /\ TakenInAll(lots, sold) \in Nat
          BY <1>2, TakenFacts DEF q
        <5>4. T < TakenInAll(lots, sold) /\ (T > 0 => moved[i] > 0)
          BY <1>9, <5>2
        <5>5. q \in Nat
          BY <1>2 DEF q
        <5> QED
          BY <1>7, <1>17, <5>3, <5>4, <5>5
      <4> QED
        BY <2>11, <4>1, <4>2
    <3>2. m = V
      <4>1. \A e \in Day : InWindow(e, sale.date) => matched[e] = Available(acquired, gone, still, e)
        BY <1>7, <3>1
      <4> QED
        BY <2>11, <4>1 DEF V
    <3>3. N = m
      BY <1>18, <2>7, <3>1
    <3> QED
      BY <2>2, <2>3, <2>5, <2>6, <3>2, <3>3
  <2> QED
    BY <2>1, <2>9, <2>10, <2>11 DEF B
<1>20. Passes(effect, sale, lots)
  BY <1>1, <1>15 DEF Passes
<1>21. still \o new \in Seq(Lot)
  BY <1>6, <1>12
<1>22. (\A d \in Day : gone[d] <= acquired[d]) /\ StandsOn(lots, acquired, before) =>
              /\ StandsOn(effect.blocked, acquired, effect.consumed)
              /\ Exactly(effect, sale, acquired, lots)
  BY <1>1, <1>19 DEF StandsOn, Exactly
<1> QED
  BY <1>1, <1>2, <1>4, <1>8, <1>13, <1>21, <1>22, <1>20 DEF gone

-----------------------------------------------------------------------------
(* The invariant of the statement and of a replay.                          *)

(* The condition of the theorems: what the next disposal shares out divides *)
(* evenly.                                                                  *)
WholeShares ==
  pc = "replaying" /\ pos <= Len(sells) =>
    DividesEvenly(sells[pos], bought, consumed, blocked)

SharesSold(ss, d) == [i \in DOMAIN ss |-> ss[i].lots[d]]

(* The shares of a day that the first n disposals sold.                     *)
SoldUntil(ss, d, n) == SumFunctionOnSet(SharesSold(ss, d), 1 .. n)

(* The lots block no more shares than were acquired.                        *)
Covered(lots, acquired) == \A d \in Day : BlockedOn(lots, d) <= acquired[d]

(* A disposal consumes shares that are held.                                *)
StatementOK ==
  /\ today \in Day /\ trades \in 0 .. MaxTrades
  /\ bought \in [Day -> Nat]
  /\ sells \in Seq(Sale)
  /\ \A i \in DOMAIN sells : Total(sells[i].lots, Day) = sells[i].quantity
  /\ \A d \in Day : SoldUntil(sells, d, Len(sells)) <= bought[d]

(* Deferrals have a loss on shares that exist, also those snapshotted.      *)
DeferralsOK ==
  /\ opening \in Seq(Lot)
  /\ config \in Seq(Lot) /\ Covered(config, bought)
  /\ blocked \in Seq(Lot) /\ Covered(blocked, bought)
  /\ carryOut \in Seq(Seq(Lot)) /\ \A i \in DOMAIN carryOut : Covered(carryOut[i], bought)
  /\ consumed \in [Day -> Nat]
  /\ deferred \in Seq(Nat)
  /\ released \in Seq(Reintegration)
  /\ pc \in {"trading", "replaying", "rejected"}

DeferredOf(ss, losses, O) == [i \in DOMAIN losses |-> Where(O, ss[i].date, losses[i])]

(* What was carried in and deferred since is blocked or reintegrated.       *)
Balanced(ss, carried, losses, lots, ended, O) ==
  Weigh(LossFrom(O), carried) + SumFunctionOnSet(DeferredOf(ss, losses, O), DOMAIN losses)
    = Weigh(LossFrom(O), lots) + Weigh(AmountOf(O), ended)

(* The engine after the disposals before pos.                               *)
ReplayOK ==
  /\ pos \in 1 .. Len(sells) + 1
  /\ Len(deferred) = pos - 1
  /\ \A d \in Day : consumed[d] = SoldUntil(sells, d, pos - 1)
  /\ StandsOn(blocked, bought, consumed)
  /\ \A O \in SUBSET Origins : Balanced(sells, config, deferred, blocked, released, O)

(* The inductive invariant of DeferralConserved and DefersExactly.          *)
DeferralInv == StatementOK /\ DeferralsOK /\ (pc = "replaying" => ReplayOK)

-----------------------------------------------------------------------------
(* The shares sold of a day, one disposal after the other.                  *)
LEMMA SoldFacts ==
  ASSUME NEW ss \in Seq(Sale), NEW d \in Day
  PROVE  /\ \A n \in 0 .. Len(ss) : /\ SoldUntil(ss, d, n) \in Nat
                                    /\ SoldUntil(ss, d, n) <= SoldUntil(ss, d, Len(ss))
         /\ \A n \in 1 .. Len(ss) :
              SoldUntil(ss, d, n) = SoldUntil(ss, d, n - 1) + ss[n].lots[d]
         /\ SoldUntil(ss, d, 0) = 0
<1> DEFINE f == SharesSold(ss, d)
           L == Len(ss)
<1>1. L \in Nat /\ DOMAIN ss = 1 .. L
  OBVIOUS
<1>2. \A i \in 1 .. L : f[i] = ss[i].lots[d] /\ f[i] \in Nat
  <2>1. \A i \in 1 .. L : ss[i] \in Sale
    BY <1>1
  <2> QED
    BY <1>1, <2>1 DEF Sale, SharesSold
<1> HIDE DEF f, L
<1>3. ASSUME NEW n \in 0 .. L
      PROVE  SumFunctionOnSet(f, 1 .. n) \in Nat /\ SumFunctionOnSet(f, 1 .. n) <= SumFunctionOnSet(f, 1 .. L)
  <2>1. 1 .. L = (1 .. n) \cup ((n + 1) .. L) /\ (1 .. n) \cap ((n + 1) .. L) = {}
        /\ (1 .. n) \in SUBSET (1 .. L) /\ ((n + 1) .. L) \in SUBSET (1 .. L)
    BY <1>1
  <2>2. IsFiniteSet(1 .. n) /\ IsFiniteSet((n + 1) .. L) /\ IsFiniteSet(1 .. L)
    BY <1>1, FS_Interval
  <2>3. Summable(f, 1 .. L)
    BY <1>2, <2>2 DEF Summable
  <2>4. SumFunctionOnSet(f, (1 .. n) \cup ((n + 1) .. L))
          = SumFunctionOnSet(f, 1 .. n) + SumFunctionOnSet(f, (n + 1) .. L)
    <3> DEFINE S == 1 .. L
               A == 1 .. n
               B == (n + 1) .. L
    <3>1. Summable(f, S) /\ A \in SUBSET S /\ B \in SUBSET S /\ A \cap B = {}
      BY <2>1, <2>3
    <3> HIDE DEF S, A, B
    <3>2. SumFunctionOnSet(f, A \cup B) = SumFunctionOnSet(f, A) + SumFunctionOnSet(f, B)
      BY <3>1, SumUnion
    <3> QED
      BY <3>2 DEF A, B
  <2>5. SumFunctionOnSet(f, 1 .. L) = SumFunctionOnSet(f, 1 .. n) + SumFunctionOnSet(f, (n + 1) .. L)
    BY <2>1, <2>4
  <2>6. SumFunctionOnSet(f, 1 .. n) \in Nat
    <3>1. \A i \in 1 .. n : f[i] \in Nat
      BY <1>2, <2>1
    <3> QED
      BY <2>2, <3>1, SumNatural
  <2>7. SumFunctionOnSet(f, (n + 1) .. L) \in Nat
    <3>1. \A i \in (n + 1) .. L : f[i] \in Nat
      BY <1>2, <2>1
    <3> QED
      BY <2>2, <3>1, SumNatural
  <2> QED
    BY <2>5, <2>6, <2>7
<1>4. ASSUME NEW n \in 1 .. L
      PROVE  SumFunctionOnSet(f, 1 .. n) = SumFunctionOnSet(f, 1 .. n - 1) + ss[n].lots[d]
  <2>1. n - 1 \in Nat /\ (n - 1) + 1 = n /\ 1 .. n - 1 \in SUBSET (1 .. L)
    BY <1>1
  <2>2. \A i \in 1 .. n - 1 : f[i] \in Int
    BY <1>2, <2>1
  <2>3. f[n] \in Int /\ f[n] = ss[n].lots[d]
    BY <1>2
  <2>4. SumFunctionOnSet(f, 1 .. (n - 1) + 1) = SumFunctionOnSet(f, 1 .. n - 1) + f[(n - 1) + 1]
    BY <2>1, <2>2, <2>3, SumAppended
  <2> QED
    BY <2>1, <2>3, <2>4
<1>5. SumFunctionOnSet(f, 1 .. 0) = 0
  <2>1. 1 .. 0 = {}
    OBVIOUS
  <2> QED
    BY <2>1, SumEmpty
<1> QED
  BY <1>3, <1>4, <1>5 DEF SoldUntil, f, L

(* Some of the lots block no more than all.                                 *)
LEMMA OnlyCovered ==
  ASSUME NEW lots \in Seq(Lot), NEW places, NEW acquired, Covered(lots, acquired),
         \A d \in Day : acquired[d] \in Nat
  PROVE  Only(lots, places) \in Seq(Lot) /\ Covered(Only(lots, places), acquired)
<1>1. \A i \in DOMAIN lots : i \in places => lots[i] \in Lot
  OBVIOUS
<1>2. Only(lots, places) \in Seq(Lot)
  BY <1>1, OnlyElements
<1>3. ASSUME NEW d \in Day PROVE BlockedOn(Only(lots, places), d) <= acquired[d]
  <2> DEFINE w == SharesOn(d)
             g == WeightsAt(w, lots, places)
             f == [i \in DOMAIN lots |-> w[lots[i]]]
  <2>1. Weights(w, Lot)
    BY LotWeights
  <2>2. Weigh(w, Only(lots, places)) = SumFunctionOnSet(g, DOMAIN lots)
    BY <1>1, <2>1, WeighOnly
  <2>3. Weigh(w, lots) = SumFunctionOnSet(f, DOMAIN lots) /\ IsFiniteSet(DOMAIN lots)
    BY <2>1, WeighType DEF Weigh, Summable
  <2>4. \A i \in DOMAIN lots : g[i] \in Int /\ f[i] \in Int /\ g[i] <= f[i]
    <3>1. \A i \in DOMAIN lots : lots[i] \in Lot
      OBVIOUS
    <3>2. \A i \in DOMAIN lots : w[lots[i]] \in Nat
      BY <3>1 DEF SharesOn, Lot
    <3>3. \A i \in DOMAIN lots : g[i] = (IF i \in places THEN w[lots[i]] ELSE 0) /\ f[i] = w[lots[i]]
      BY DEF WeightsAt
    <3> HIDE DEF g, f, w
    <3> QED
      BY <3>2, <3>3
  <2> HIDE DEF g, f
  <2>5. Summable(g, DOMAIN lots) /\ Summable(f, DOMAIN lots)
    BY <2>3, <2>4 DEF Summable
  <2>6. SumFunctionOnSet(g, DOMAIN lots) <= SumFunctionOnSet(f, DOMAIN lots)
    BY <2>4, <2>5, SumAtMost
  <2>7. BlockedOn(Only(lots, places), d) = Weigh(w, Only(lots, places)) /\ BlockedOn(lots, d) = Weigh(w, lots)
        /\ BlockedOn(Only(lots, places), d) \in Nat /\ BlockedOn(lots, d) \in Nat
    BY <1>2, BlockedWeighs
  <2>8. BlockedOn(lots, d) <= acquired[d]
    BY DEF Covered
  <2> QED
    BY <2>2, <2>3, <2>6, <2>7, <2>8
<1> QED
  BY <1>2, <1>3 DEF Covered

(* The deferrals that the statement opens with.                             *)
LEMMA OpeningLots == Opening \subseteq Seq(Lot)
<1>1. ASSUME NEW s \in Opening PROVE s \in Seq(Lot)
  <2> DEFINE R == [buy : 1 .. MaxDay, shares : Nat \ {0}, loss : Nat \ {0}, origin : 0 .. MaxDay]
  <2>1. s \in Seq(R)
    BY WashSaleAssumption DEF WashSaleAssumption
  <2>3. R \subseteq Lot
    <3>1. 0 .. MaxDay = Origins /\ 1 .. MaxDay = Day
      BY Days DEF Origins, Before
    <3> QED
      BY <3>1 DEF Lot
  <2> HIDE DEF R
  <2>2. Len(s) \in Nat /\ s = [i \in 1 .. Len(s) |-> s[i]] /\ \A i \in 1 .. Len(s) : s[i] \in R
    BY <2>1
  <2>4. \A i \in 1 .. Len(s) : s[i] \in Lot
    BY <2>2, <2>3
  <2>5. [i \in 1 .. Len(s) |-> s[i]] \in Seq(Lot)
    BY <2>2, <2>4
  <2> QED
    BY <2>2, <2>5
<1> QED
  BY <1>1

(* What covers more covers as well.                                         *)
LEMMA CoveredMore ==
  ASSUME NEW lots \in Seq(Lot), NEW acquired \in [Day -> Nat], Covered(lots, acquired),
         NEW more \in [Day -> Nat], \A d \in Day : acquired[d] <= more[d]
  PROVE  Covered(lots, more)
<1>1. ASSUME NEW d \in Day PROVE BlockedOn(lots, d) <= more[d]
  <2>1. BlockedOn(lots, d) \in Nat
    BY BlockedWeighs
  <2>2. acquired[d] \in Nat /\ more[d] \in Nat /\ BlockedOn(lots, d) <= acquired[d] /\ acquired[d] <= more[d]
    BY DEF Covered
  <2> QED
    BY <2>1, <2>2
<1> QED
  BY <1>1 DEF Covered

(* Nothing blocks, nothing has ended.                                       *)
LEMMA NothingBlocks ==
  /\ <<>> \in Seq(Lot) /\ \A d : BlockedOn(<<>>, d) = 0
  /\ \A O : Weigh(LossFrom(O), <<>>) = 0 /\ Weigh(AmountOf(O), <<>>) = 0
<1>1. <<>> \in Seq(Lot)
  OBVIOUS
<1>2. \A w : Weigh(w, <<>>) = 0
  BY WeighEmpty
<1> QED
  BY <1>1, <1>2, BlockedWeighs

(* At the beginning.                                                        *)
LEMMA DeferralInit == Init => DeferralInv
<1> SUFFICES ASSUME Init PROVE DeferralInv
  OBVIOUS
<1>1. opening \in Seq(Lot) /\ config = opening
  BY OpeningLots DEF Init
<1>2. bought = [d \in Day |-> BlockedOn(config, d)]
  BY DEF Init
<1>3. bought \in [Day -> Nat] /\ \A d \in Day : bought[d] = BlockedOn(config, d)
  BY <1>1, <1>2, BlockedWeighs
<1>4. Covered(config, bought)
  BY <1>1, <1>3, BlockedWeighs DEF Covered
<1>5. blocked = <<>> /\ Covered(<<>>, bought)
  BY <1>3, NothingBlocks DEF Init, Covered
<1>6. sells = <<>> /\ <<>> \in Seq(Sale) /\ Len(<<>>) = 0
  BY DEF Init
<1>7. \A d \in Day : SoldUntil(sells, d, Len(sells)) = 0
  BY <1>6, SoldFacts
<1>8. today \in Day /\ trades \in 0 .. MaxTrades
  BY Days, WashSaleAssumption DEF Init, WashSaleAssumption
<1>9. StatementOK
  BY <1>3, <1>6, <1>7, <1>8 DEF StatementOK
<1>10. consumed \in [Day -> Nat]
  BY DEF Init, None
<1>11. DeferralsOK
  BY <1>1, <1>4, <1>5, <1>10, NothingBlocks DEF Init, DeferralsOK
<1> QED
  BY <1>9, <1>11 DEF DeferralInv, Init

(* A day passes.                                                            *)
LEMMA DeferralNextDay ==
  ASSUME DeferralInv, NextDay
  PROVE  DeferralInv'
<1>1. today' \in Day
  BY Days DEF DeferralInv, StatementOK, NextDay
<1> QED
  BY <1>1 DEF DeferralInv, StatementOK, DeferralsOK, NextDay, Trading, engine

(* Shares are bought.                                                       *)
LEMMA DeferralBuy ==
  ASSUME DeferralInv, NEW q \in Quantity, Buy(q)
  PROVE  DeferralInv'
<1> USE DEF DeferralInv
<1>1. q \in Nat /\ today \in Day /\ bought \in [Day -> Nat]
  BY WashSaleAssumption DEF WashSaleAssumption, StatementOK
<1>2. bought' = [bought EXCEPT ![today] = @ + q]
  BY DEF Buy
<1>3. bought' \in [Day -> Nat] /\ \A d \in Day : bought[d] <= bought'[d]
  BY <1>1, <1>2
<1>4. trades' \in 0 .. MaxTrades
  BY WashSaleAssumption DEF WashSaleAssumption, StatementOK, Buy, MayTrade
<1>5. UNCHANGED <<today, sells, opening, config, consumed, blocked, deferred, released, carryOut, pc>>
      /\ pc = "trading"
  BY DEF Buy, engine, MayTrade, Trading
<1>6. ASSUME NEW d \in Day PROVE SoldUntil(sells, d, Len(sells)) <= bought'[d]
  <2>1. sells \in Seq(Sale) /\ Len(sells) \in 0 .. Len(sells)
    BY DEF StatementOK
  <2>2. SoldUntil(sells, d, Len(sells)) \in Nat
    BY <2>1, SoldFacts
  <2>3. SoldUntil(sells, d, Len(sells)) <= bought[d] /\ bought[d] \in Nat /\ bought'[d] \in Nat
    BY <1>1, <1>3 DEF StatementOK
  <2> QED
    BY <1>3, <2>2, <2>3
<1>7. StatementOK'
  BY <1>3, <1>4, <1>5, <1>6 DEF StatementOK
<1>8. ASSUME NEW lots \in Seq(Lot), Covered(lots, bought) PROVE Covered(lots, bought')
  BY <1>1, <1>3, <1>8, CoveredMore
<1>9. /\ config \in Seq(Lot) /\ blocked \in Seq(Lot) /\ carryOut \in Seq(Seq(Lot))
      /\ Covered(config, bought) /\ Covered(blocked, bought)
      /\ \A i \in DOMAIN carryOut : Covered(carryOut[i], bought) /\ carryOut[i] \in Seq(Lot)
  <2>1. carryOut \in Seq(Seq(Lot))
    BY DEF DeferralsOK
  <2>2. \A i \in DOMAIN carryOut : carryOut[i] \in Seq(Lot)
    BY <2>1
  <2> QED
    BY <2>1, <2>2 DEF DeferralsOK
<1>10. Covered(config, bought') /\ Covered(blocked, bought')
       /\ \A i \in DOMAIN carryOut : Covered(carryOut[i], bought')
  BY <1>8, <1>9
<1>11. DeferralsOK'
  BY <1>5, <1>10 DEF DeferralsOK
<1> QED
  BY <1>5, <1>7, <1>11

(* Shares are sold: no more than are held.                                  *)
LEMMA DeferralSell ==
  ASSUME DeferralInv, NEW q \in Quantity, NEW r \in Result, Sell(q, r)
  PROVE  DeferralInv'
<1> USE DEF DeferralInv
<1> DEFINE lots == [d \in Day |-> Least(Held[d], Most(0, q - Total(Held, {x \in Day : x < d})))]
           sale == [date |-> today, quantity |-> q, result |-> r, lots |-> lots]
           n == Len(sells)
<1>1. /\ q \in Nat \ {0} /\ r \in Int /\ today \in Day /\ bought \in [Day -> Nat]
      /\ sells \in Seq(Sale) /\ n \in Nat /\ DOMAIN sells = 1 .. n
  BY WashSaleAssumption DEF WashSaleAssumption, StatementOK
<1>2. /\ q <= Total(Held, Day) /\ sells' = Append(sells, sale)
      /\ UNCHANGED <<today, bought, opening, config, consumed, blocked, deferred, released, carryOut, pc>>
      /\ pc = "trading"
  BY DEF Sell, engine, MayTrade, Trading
<1>3. trades' \in 0 .. MaxTrades
  BY WashSaleAssumption DEF WashSaleAssumption, StatementOK, Sell, MayTrade
<1>4. ASSUME NEW d \in Day
      PROVE  Held[d] = bought[d] - SoldUntil(sells, d, n) /\ Held[d] \in Nat
             /\ SoldUntil(sells, d, n) \in Nat
  <2>1. SumLots(sells, LAMBDA s : s.lots[d]) = SoldUntil(sells, d, n)
    BY <1>1 DEF SumLots, SumOver, SoldUntil, SharesSold
  <2>2. n \in 0 .. n
    BY <1>1
  <2>3. SoldUntil(sells, d, n) \in Nat
    BY <1>1, <2>2, SoldFacts
  <2>4. SoldUntil(sells, d, n) <= bought[d] /\ bought[d] \in Nat
    BY <1>1 DEF StatementOK
  <2>5. Held[d] = bought[d] - SumLots(sells, LAMBDA s : s.lots[d])
    BY DEF Held
  <2> HIDE DEF n
  <2> QED
    BY <2>1, <2>3, <2>4, <2>5
<1>5. TakesInOrder(lots, Held, q, Day, MaxDay)
  <2>1. MaxDay \in Nat /\ q \in Nat /\ Day \in SUBSET (1 .. MaxDay)
    BY <1>1, Days
  <2>2. \A d \in Day : lots[d] = Least(Held[d], Most(0, q - SumFunctionOnSet(Held, {x \in Day : x < d})))
    BY DEF Total
  <2> HIDE DEF lots
  <2> QED
    BY <1>4, <2>1, <2>2 DEF TakesInOrder
<1>6. DOMAIN lots = Day /\ lots = [d \in Day |-> lots[d]]
  OBVIOUS
<1> HIDE DEF lots
<1>7. /\ \A d \in Day : lots[d] \in Nat /\ lots[d] <= Held[d]
      /\ SumFunctionOnSet(lots, Day) = Least(q, SumFunctionOnSet(Held, Day))
      /\ SumFunctionOnSet(Held, Day) \in Nat
  BY <1>5, TakenInOrder
<1>8. lots \in [Day -> Nat] /\ Total(lots, Day) = q
  <2>1. SumFunctionOnSet(lots, Day) = q
    BY <1>1, <1>2, <1>7 DEF Total, Least
  <2> QED
    BY <1>6, <1>7, <2>1 DEF Total
<1>9. sale \in Sale /\ sale.lots = lots /\ sale.quantity = q
  BY <1>1, <1>8 DEF Sale
<1> HIDE DEF sale
<1>10. /\ sells' \in Seq(Sale) /\ Len(sells') = n + 1 /\ sells'[n + 1] = sale
       /\ DOMAIN sells' = 1 .. n + 1
       /\ \A i \in 1 .. n : sells'[i] = sells[i]
  BY <1>1, <1>2, <1>9
<1>11. \A i \in DOMAIN sells' : Total(sells'[i].lots, Day) = sells'[i].quantity
  <2>1. ASSUME NEW i \in 1 .. n + 1 PROVE Total(sells'[i].lots, Day) = sells'[i].quantity
    <3>1. CASE i = n + 1
      BY <1>8, <1>9, <1>10, <3>1
    <3>2. CASE i # n + 1
      <4>1. i \in 1 .. n
        BY <1>1, <3>2
      <4> QED
        BY <1>1, <1>10, <4>1 DEF StatementOK
    <3> QED
      BY <3>1, <3>2
  <2> QED
    BY <1>10, <2>1
<1>12. ASSUME NEW d \in Day PROVE SoldUntil(sells', d, Len(sells')) <= bought[d]
  <2>1. n + 1 \in 1 .. Len(sells') /\ (n + 1) - 1 = n
    BY <1>1, <1>10
  <2>2. SoldUntil(sells', d, n + 1) = SoldUntil(sells', d, n) + lots[d]
    BY <1>9, <1>10, <2>1, SoldFacts
  <2>3. SoldUntil(sells', d, n) = SoldUntil(sells, d, n)
    <3> DEFINE f == SharesSold(sells, d)
               g == SharesSold(sells', d)
               S == 1 .. n
    <3>1. \A i \in S : g[i] = f[i]
      BY <1>1, <1>10 DEF SharesSold
    <3>2. \A i \in S : f[i] \in Int
      <4>1. \A i \in S : sells[i] \in Sale
        BY <1>1
      <4> QED
        BY <1>1, <4>1 DEF SharesSold, Sale
    <3>3. IsFiniteSet(S)
      BY <1>1, FS_Interval
    <3> HIDE DEF f, g, S
    <3>4. Summable(f, S)
      BY <3>2, <3>3 DEF Summable
    <3>5. SumFunctionOnSet(g, S) = SumFunctionOnSet(f, S)
      BY <3>1, <3>4, SumSame
    <3> QED
      BY <3>5 DEF SoldUntil, f, g, S
  <2>4. lots[d] \in Nat /\ lots[d] <= bought[d] - SoldUntil(sells, d, n) /\ bought[d] \in Nat
    BY <1>1, <1>4, <1>7
  <2>5. SoldUntil(sells, d, n) \in Nat
    BY <1>4
  <2> HIDE DEF n
  <2> QED
    BY <1>10, <2>2, <2>3, <2>4, <2>5
<1>13. StatementOK'
  BY <1>1, <1>2, <1>3, <1>10, <1>11, <1>12 DEF StatementOK
<1>14. DeferralsOK'
  BY <1>2 DEF DeferralsOK
<1> QED
  BY <1>2, <1>13, <1>14

(* A run begins.                                                            *)
LEMMA DeferralFile ==
  ASSUME DeferralInv, NEW y, File(y)
  PROVE  DeferralInv'
<1> USE DEF DeferralInv
<1>1. /\ consumed' = None /\ blocked' = config /\ deferred' = <<>> /\ released' = <<>>
      /\ carryOut' = <<>> /\ pos' = 1
      /\ UNCHANGED <<today, bought, sells, trades, opening, config>>
      /\ pc' \in {"rejected", "replaying"}
  BY DEF File, world
<1>2. StatementOK'
  BY <1>1 DEF StatementOK
<1>3. /\ config \in Seq(Lot) /\ Covered(config, bought) /\ bought \in [Day -> Nat]
      /\ sells \in Seq(Sale) /\ Len(sells) \in Nat
  BY DEF StatementOK, DeferralsOK
<1>4. None \in [Day -> Nat] /\ \A d \in Day : None[d] = 0
  BY DEF None
<1>5. DeferralsOK'
  BY <1>1, <1>3, <1>4 DEF DeferralsOK
<1>6. StandsOn(config, bought, None)
  BY <1>3, <1>4 DEF StandsOn, Covered
<1>7. ASSUME NEW O PROVE Balanced(sells, config, <<>>, config, <<>>, O)
  <2>1. Weigh(LossFrom(O), config) \in Int
    BY <1>3, LotWeights, WeighType
  <2>2. SumFunctionOnSet(DeferredOf(sells, <<>>, O), DOMAIN <<>>) = 0
    <3>1. DOMAIN <<>> = {}
      OBVIOUS
    <3> QED
      BY <3>1, SumEmpty
  <2>3. Weigh(AmountOf(O), <<>>) = 0
    BY NothingBlocks
  <2> QED
    BY <2>1, <2>2, <2>3 DEF Balanced
<1>8. \A d \in Day : None[d] = SoldUntil(sells, d, 1 - 1)
  BY <1>3, <1>4, SoldFacts
<1>9. ReplayOK'
  BY <1>1, <1>3, <1>6, <1>7, <1>8 DEF ReplayOK
<1> QED
  BY <1>2, <1>5, <1>9

(* One deferral more.                                                       *)
LEMMA DeferredAppend ==
  ASSUME NEW ss \in Seq(Sale), NEW losses \in Seq(Nat), NEW own \in Nat, NEW O,
         Len(losses) + 1 \in 1 .. Len(ss),
         NEW more, more = Append(losses, own)
  PROVE  /\ SumFunctionOnSet(DeferredOf(ss, more, O), DOMAIN more)
              = SumFunctionOnSet(DeferredOf(ss, losses, O), DOMAIN losses)
                  + Where(O, ss[Len(losses) + 1].date, own)
         /\ SumFunctionOnSet(DeferredOf(ss, losses, O), DOMAIN losses) \in Int
<1> DEFINE f == DeferredOf(ss, losses, O)
           g == DeferredOf(ss, more, O)
           n == Len(losses)
<1>1. /\ n \in Nat /\ DOMAIN losses = 1 .. n /\ DOMAIN more = 1 .. n + 1
      /\ more[n + 1] = own /\ \A i \in 1 .. n : more[i] = losses[i] /\ losses[i] \in Nat
  OBVIOUS
<1>2. \A i \in 1 .. n : g[i] = f[i] /\ f[i] \in Int
  BY <1>1 DEF DeferredOf, Where
<1>3. g[n + 1] = Where(O, ss[n + 1].date, own) /\ g[n + 1] \in Int
  BY <1>1 DEF DeferredOf, Where
<1>4. Summable(f, 1 .. n)
  BY <1>1, <1>2, FS_Interval DEF Summable
<1> HIDE DEF f, g, n
<1>5. SumFunctionOnSet(g, 1 .. n + 1) = SumFunctionOnSet(f, 1 .. n) + g[n + 1]
  BY <1>1, <1>2, <1>3, SumAppended
<1>6. SumFunctionOnSet(f, 1 .. n) \in Int
  BY <1>4, SumInteger
<1> QED
  BY <1>1, <1>3, <1>5, <1>6 DEF f, g, n

(* What a disposal makes of the engine, given that its shares divide.       *)
LEMMA ProcessEffect ==
  ASSUME DeferralInv, WholeShares, Process
  PROVE  /\ pos \in 1 .. Len(sells) /\ Len(deferred) = pos - 1 /\ sells[pos] \in Sale
         /\ \E effect :
              /\ IsEffect(effect, sells[pos], bought, consumed, blocked)
              /\ effect = Effect(sells[pos], bought, consumed, blocked)
              /\ consumed' = effect.consumed /\ blocked' = effect.blocked
              /\ deferred' = Append(deferred, effect.deferral)
              /\ released' = released \o effect.final
              /\ \A d \in Day : /\ effect.consumed[d] = SoldUntil(sells, d, pos)
                                /\ effect.consumed[d] <= bought[d]
<1> USE DEF DeferralInv
<1>1. pc = "replaying" /\ pos <= Len(sells) /\ ReplayOK
  BY DEF Process
<1>2. /\ sells \in Seq(Sale) /\ Len(sells) \in Nat /\ pos \in 1 .. Len(sells)
      /\ pos \in Nat /\ Len(deferred) = pos - 1
      /\ bought \in [Day -> Nat] /\ consumed \in [Day -> Nat] /\ blocked \in Seq(Lot)
  BY <1>1 DEF StatementOK, DeferralsOK, ReplayOK
<1>3. sells[pos] \in Sale /\ Total(sells[pos].lots, Day) = sells[pos].quantity
  BY <1>2 DEF StatementOK
<1>4. PICK effect : /\ effect = Effect(sells[pos], bought, consumed, blocked)
                    /\ consumed' = effect.consumed /\ blocked' = effect.blocked
                    /\ deferred' = Append(deferred, effect.deferral)
                    /\ released' = released \o effect.final
  BY DEF Process
<1>5. IsEffect(effect, sells[pos], bought, consumed, blocked)
  BY <1>1, <1>2, <1>3, <1>4 DEF IsEffect, WholeShares
<1>6. ASSUME NEW d \in Day
      PROVE  effect.consumed[d] = SoldUntil(sells, d, pos) /\ effect.consumed[d] <= bought[d]
  <2>1. effect.consumed[d] = consumed[d] + sells[pos].lots[d]
    <3>1. effect.consumed = Gone(sells[pos], consumed)
      BY <1>5, EffectFacts
    <3> QED
      BY <3>1 DEF Gone
  <2>2. consumed[d] = SoldUntil(sells, d, pos - 1)
    BY <1>1 DEF ReplayOK
  <2>3. SoldUntil(sells, d, pos) = SoldUntil(sells, d, pos - 1) + sells[pos].lots[d]
    BY <1>2, SoldFacts
  <2>4. SoldUntil(sells, d, pos) <= SoldUntil(sells, d, Len(sells)) /\ SoldUntil(sells, d, pos) \in Nat
        /\ SoldUntil(sells, d, Len(sells)) \in Nat
    <3>1. pos \in 0 .. Len(sells) /\ Len(sells) \in 0 .. Len(sells)
      BY <1>2
    <3> QED
      BY <1>2, <3>1, SoldFacts
  <2>5. SoldUntil(sells, d, Len(sells)) <= bought[d] /\ bought[d] \in Nat
    BY <1>2 DEF StatementOK
  <2>6. effect.consumed[d] = SoldUntil(sells, d, pos)
    BY <2>1, <2>2, <2>3
  <2> QED
    BY <2>4, <2>5, <2>6
<1> QED
  BY <1>2, <1>3, <1>4, <1>5, <1>6

(* A disposal is replayed.                                                  *)
LEMMA DeferralProcess ==
  ASSUME DeferralInv, WholeShares, Process
  PROVE  DeferralInv'
<1> USE DEF DeferralInv
<1>1. /\ pos \in 1 .. Len(sells) /\ Len(deferred) = pos - 1 /\ sells[pos] \in Sale
  BY ProcessEffect
<1>2. PICK effect :
              /\ IsEffect(effect, sells[pos], bought, consumed, blocked)
              /\ consumed' = effect.consumed /\ blocked' = effect.blocked
              /\ deferred' = Append(deferred, effect.deferral)
              /\ released' = released \o effect.final
              /\ \A d \in Day : /\ effect.consumed[d] = SoldUntil(sells, d, pos)
                                /\ effect.consumed[d] <= bought[d]
  BY ProcessEffect
<1>3. pc = "replaying" /\ pc' = pc /\ ReplayOK /\ pos' = pos + 1
      /\ UNCHANGED <<today, bought, sells, trades, opening, config>>
      /\ carryOut' = IF carryOut = <<>> /\ sells[pos].date > YearEnd(year)
                       THEN <<blocked>> ELSE carryOut
  BY DEF Process, world
<1>4. /\ sells \in Seq(Sale) /\ Len(sells) \in Nat /\ deferred \in Seq(Nat)
      /\ released \in Seq(Reintegration) /\ bought \in [Day -> Nat]
      /\ config \in Seq(Lot) /\ blocked \in Seq(Lot) /\ Covered(blocked, bought)
      /\ carryOut \in Seq(Seq(Lot)) /\ \A i \in DOMAIN carryOut : Covered(carryOut[i], bought)
  BY DEF StatementOK, DeferralsOK
<1>5. /\ effect.consumed \in [Day -> Nat]
      /\ effect.blocked \in Seq(Lot)
      /\ effect.deferral \in Nat
      /\ effect.final \in Seq(Reintegration)
      /\ \A O : Weigh(LossFrom(O), effect.blocked) + Weigh(AmountOf(O), effect.final)
                  = Weigh(LossFrom(O), blocked) + Where(O, sells[pos].date, effect.deferral)
  <2>1. IsEffect(effect, sells[pos], bought, consumed, blocked)
    BY <1>2
  <2>2. /\ effect.consumed \in [Day -> Nat]
        /\ effect.blocked \in Seq(Lot)
        /\ effect.deferral \in Nat
        /\ effect.final \in Seq(Reintegration)
    BY <2>1, EffectFacts
  <2>3. ASSUME NEW O
        PROVE  Weigh(LossFrom(O), effect.blocked) + Weigh(AmountOf(O), effect.final)
                  = Weigh(LossFrom(O), blocked) + Where(O, sells[pos].date, effect.deferral)
    <3>1. Passes(effect, sells[pos], blocked)
      BY <2>1, EffectFacts
    <3> QED
      BY <3>1 DEF Passes
  <2> QED
    BY <2>2, <2>3
<1>6. StandsOn(effect.blocked, bought, effect.consumed)
  <2>1. StandsOn(blocked, bought, consumed)
    BY <1>3 DEF ReplayOK
  <2> QED
    BY <1>2, <2>1, EffectFacts
<1>7. Covered(effect.blocked, bought)
  <2>1. ASSUME NEW d \in Day PROVE BlockedOn(effect.blocked, d) <= bought[d]
    <3>1. BlockedOn(effect.blocked, d) <= bought[d] - effect.consumed[d]
      BY <1>6 DEF StandsOn
    <3>2. BlockedOn(effect.blocked, d) \in Nat /\ bought[d] \in Nat /\ effect.consumed[d] \in Nat
      BY <1>4, <1>5, BlockedWeighs
    <3> QED
      BY <3>1, <3>2
  <2> QED
    BY <2>1 DEF Covered
<1>8. carryOut' \in Seq(Seq(Lot)) /\ \A i \in DOMAIN carryOut' : Covered(carryOut'[i], bought)
  <2>1. CASE carryOut = <<>> /\ sells[pos].date > YearEnd(year)
    <3>1. carryOut' = <<blocked>>
      BY <1>3, <2>1
    <3>2. <<blocked>> \in Seq(Seq(Lot)) /\ DOMAIN <<blocked>> = {1} /\ <<blocked>>[1] = blocked
      BY <1>4
    <3> QED
      BY <1>4, <3>1, <3>2
  <2>2. CASE ~(carryOut = <<>> /\ sells[pos].date > YearEnd(year))
    BY <1>3, <1>4, <2>2
  <2> QED
    BY <2>1, <2>2
<1>9. deferred' \in Seq(Nat) /\ Len(deferred') = pos
  BY <1>1, <1>2, <1>4, <1>5
<1>10. released' \in Seq(Reintegration)
  BY <1>2, <1>4, <1>5
<1>11. StatementOK'
  BY <1>3 DEF StatementOK
<1>12. DeferralsOK'
  BY <1>2, <1>3, <1>4, <1>5, <1>7, <1>8, <1>9, <1>10 DEF DeferralsOK
<1>13. ASSUME NEW O \in SUBSET Origins
       PROVE  Balanced(sells, config, deferred', blocked', released', O)
  <2> DEFINE f == DeferredOf(sells, deferred, O)
             D == SumFunctionOnSet(f, DOMAIN deferred)
             E == SumFunctionOnSet(DeferredOf(sells, deferred', O), DOMAIN deferred')
             own == Where(O, sells[pos].date, effect.deferral)
             w == LossFrom(O)
             v == AmountOf(O)
  <2>1. Len(deferred) + 1 = pos
    BY <1>1
  <2>2. E = D + own /\ D \in Int
    <3> DEFINE more == deferred'
    <3>1. /\ sells \in Seq(Sale) /\ deferred \in Seq(Nat) /\ effect.deferral \in Nat
          /\ Len(deferred) + 1 \in 1 .. Len(sells) /\ more = Append(deferred, effect.deferral)
      BY <1>1, <1>2, <1>4, <1>5, <2>1
    <3> HIDE DEF more
    <3>2. /\ SumFunctionOnSet(DeferredOf(sells, more, O), DOMAIN more)
                = D + Where(O, sells[Len(deferred) + 1].date, effect.deferral)
          /\ D \in Int
      BY <3>1, DeferredAppend
    <3> QED
      BY <2>1, <3>2 DEF more
  <2>3. Weigh(v, released \o effect.final) = Weigh(v, released) + Weigh(v, effect.final)
    BY <1>4, <1>5, ReintegrationWeights, WeighJoined
  <2>4. Weigh(w, effect.blocked) + Weigh(v, effect.final) = Weigh(w, blocked) + own
    BY <1>5
  <2>5. Weigh(w, config) + D = Weigh(w, blocked) + Weigh(v, released)
    BY <1>3 DEF ReplayOK, Balanced
  <2>6. /\ Weigh(w, config) \in Int /\ Weigh(w, blocked) \in Int /\ Weigh(w, effect.blocked) \in Int
    BY <1>4, <1>5, LotWeights, WeighType
  <2>7. Weigh(v, released) \in Int /\ Weigh(v, effect.final) \in Int
    BY <1>4, <1>5, ReintegrationWeights, WeighType
  <2>8. own \in Int
    BY <1>5 DEF Where
  <2> HIDE DEF f, D, E, own, w, v
  <2>9. Weigh(w, config) + E = Weigh(w, effect.blocked) + Weigh(v, released \o effect.final)
    BY <2>2, <2>3, <2>4, <2>5, <2>6, <2>7, <2>8
  <2> QED
    BY <1>2, <2>9 DEF Balanced, E, w, v
<1>14. ReplayOK'
  <2>1. pos' \in 1 .. Len(sells) + 1 /\ pos' - 1 = pos
    BY <1>1, <1>3, <1>4
  <2> QED
    BY <1>2, <1>3, <1>6, <1>9, <1>13, <2>1 DEF ReplayOK
<1> QED
  BY <1>11, <1>12, <1>14

(* A return is printed.                                                     *)
LEMMA DeferralFinish ==
  ASSUME DeferralInv, FinishReturn
  PROVE  DeferralInv'
<1> USE DEF DeferralInv
<1>1. /\ UNCHANGED <<today, bought, sells, trades, opening, pos, consumed, blocked, deferred, released, carryOut>>
      /\ pc' = "trading" /\ config' = CarriedIn(CarriedOut)
  BY DEF FinishReturn, world, engine
<1>2. CarriedOut \in Seq(Lot) /\ Covered(CarriedOut, bought)
  <2>1. CASE carryOut = <<>>
    BY <2>1 DEF CarriedOut, DeferralsOK
  <2>2. CASE carryOut # <<>>
    <3>1. carryOut \in Seq(Seq(Lot))
      BY DEF DeferralsOK
    <3>2. 1 \in DOMAIN carryOut
      BY <2>2, <3>1
    <3>3. carryOut[1] \in Seq(Lot)
      BY <3>1, <3>2
    <3> QED
      BY <2>2, <3>2, <3>3 DEF CarriedOut, DeferralsOK
  <2> QED
    BY <2>1, <2>2
<1>3. config' \in Seq(Lot) /\ Covered(config', bought)
  <2>1. CASE Filer = "original"
    BY <1>1, <2>1 DEF CarriedIn, DeferralsOK
  <2>2. CASE Filer # "original"
    <3>1. \A d \in Day : bought[d] \in Nat
      BY DEF StatementOK
    <3> DEFINE places == {i \in DOMAIN CarriedOut : CarriedOut[i].origin = Before}
    <3>2. config' = Only(CarriedOut, places)
      BY <1>1, <2>2 DEF CarriedIn
    <3> HIDE DEF places
    <3> QED
      BY <1>2, <3>1, <3>2, OnlyCovered
  <2> QED
    BY <2>1, <2>2
<1>4. StatementOK'
  BY <1>1 DEF StatementOK
<1>5. DeferralsOK'
  BY <1>1, <1>3 DEF DeferralsOK
<1> QED
  BY <1>1, <1>4, <1>5

(* Every step preserves the invariant.                                      *)
LEMMA DeferralStep ==
  ASSUME DeferralInv, WholeShares, [Next]_vars
  PROVE  DeferralInv'
<1>1. CASE NextDay
  BY <1>1, DeferralNextDay
<1>2. CASE \E q \in Quantity : Buy(q)
  BY <1>2, DeferralBuy
<1>3. CASE \E q \in Quantity, r \in Result : Sell(q, r)
  BY <1>3, DeferralSell
<1>4. CASE \E y \in 1 .. YearOf(MaxDay) : File(y)
  BY <1>4, DeferralFile
<1>5. CASE Process
  BY <1>5, DeferralProcess
<1>6. CASE FinishReturn
  BY <1>6, DeferralFinish
<1>7. CASE Finished \/ UNCHANGED vars
  <2>1. UNCHANGED vars
    BY <1>7 DEF Finished
  <2> QED
    BY <2>1 DEF vars, world, engine, DeferralInv, StatementOK, DeferralsOK, ReplayOK
<1> QED
  BY <1>1, <1>2, <1>3, <1>4, <1>5, <1>6, <1>7 DEF Next

(* The losses under the label of one sale.                                  *)
LEMMA LossesOfOne ==
  ASSUME DeferralInv, NEW o \in Origins
  PROVE  /\ LossesFrom(o) = Weigh(LossFrom({o}), config)
                              + SumFunctionOnSet(DeferredOf(sells, deferred, {o}), DOMAIN deferred)
         /\ SumLots(blocked, LAMBDA lot : IF lot.origin = o THEN lot.loss ELSE 0)
              = Weigh(LossFrom({o}), blocked)
         /\ SumLots(released, LAMBDA r : IF r.origin = o THEN r.amount ELSE 0)
              = Weigh(AmountOf({o}), released)
<1>1. config \in Seq(Lot) /\ blocked \in Seq(Lot) /\ released \in Seq(Reintegration)
  BY DEF DeferralInv, DeferralsOK
<1>2. ASSUME NEW lots \in Seq(Lot)
      PROVE  SumLots(lots, LAMBDA lot : IF lot.origin = o THEN lot.loss ELSE 0) = Weigh(LossFrom({o}), lots)
  <2> DEFINE f == [i \in DOMAIN lots |-> LossFrom({o})[lots[i]]]
             g == [i \in DOMAIN lots |-> IF lots[i].origin = o THEN lots[i].loss ELSE 0]
  <2>1. \A i \in DOMAIN lots : lots[i] \in Lot
    OBVIOUS
  <2>2. \A i \in DOMAIN lots : f[i] = g[i]
    BY <2>1 DEF LossFrom
  <2>3. f = g
    BY <2>2
  <2>4. SumLots(lots, LAMBDA lot : IF lot.origin = o THEN lot.loss ELSE 0) = SumFunctionOnSet(g, DOMAIN lots)
    BY DEF SumLots, SumOver
  <2>5. Weigh(LossFrom({o}), lots) = SumFunctionOnSet(f, DOMAIN lots)
    BY DEF Weigh
  <2> HIDE DEF f, g
  <2> QED
    BY <2>3, <2>4, <2>5
<1>3. SumLots(released, LAMBDA r : IF r.origin = o THEN r.amount ELSE 0) = Weigh(AmountOf({o}), released)
  <2> DEFINE f == [i \in DOMAIN released |-> AmountOf({o})[released[i]]]
             g == [i \in DOMAIN released |-> IF released[i].origin = o THEN released[i].amount ELSE 0]
  <2>1. \A i \in DOMAIN released : released[i] \in Reintegration
    BY <1>1
  <2>2. \A i \in DOMAIN released : f[i] = g[i]
    BY <2>1 DEF AmountOf
  <2>3. f = g
    BY <2>2
  <2>4. SumLots(released, LAMBDA r : IF r.origin = o THEN r.amount ELSE 0)
          = SumFunctionOnSet(g, DOMAIN released)
    BY DEF SumLots, SumOver
  <2>5. Weigh(AmountOf({o}), released) = SumFunctionOnSet(f, DOMAIN released)
    BY DEF Weigh
  <2> HIDE DEF f, g
  <2> QED
    BY <2>3, <2>4, <2>5
<1>4. SumOver(DOMAIN deferred, LAMBDA i : IF sells[i].date = o THEN deferred[i] ELSE 0)
        = SumFunctionOnSet(DeferredOf(sells, deferred, {o}), DOMAIN deferred)
  <2>1. DeferredOf(sells, deferred, {o})
          = [i \in DOMAIN deferred |-> IF sells[i].date = o THEN deferred[i] ELSE 0]
    BY DEF DeferredOf, Where
  <2> QED
    BY <2>1 DEF SumOver
<1> QED
  BY <1>1, <1>2, <1>3, <1>4 DEF LossesFrom

(* The invariant gives what the run checks.                                 *)
LEMMA DeferralImplies == DeferralInv => DeferralConserved
<1> SUFFICES ASSUME DeferralInv PROVE DeferralConserved
  OBVIOUS
<1> USE DEF DeferralInv
<1>1. TypeOK
  <2>1. Lot \subseteq BlockedLot
    BY DEF Lot, BlockedLot
  <2>2. ASSUME NEW lots \in Seq(Lot) PROVE lots \in Seq(BlockedLot)
    <3>1. lots = [i \in 1 .. Len(lots) |-> lots[i]] /\ Len(lots) \in Nat
      OBVIOUS
    <3>2. \A i \in 1 .. Len(lots) : lots[i] \in Lot
      OBVIOUS
    <3>3. \A i \in 1 .. Len(lots) : lots[i] \in BlockedLot
      BY <2>1, <3>2
    <3>4. [i \in 1 .. Len(lots) |-> lots[i]] \in Seq(BlockedLot)
      BY <3>1, <3>3
    <3> QED
      BY <3>1, <3>4
  <2>3. config \in Seq(BlockedLot) /\ blocked \in Seq(BlockedLot)
    BY <2>2 DEF DeferralsOK
  <2>4. \A i \in DOMAIN sells : sells[i].lots \in [Day -> Nat]
    <3>1. \A i \in DOMAIN sells : sells[i] \in Sale
      BY DEF StatementOK
    <3> QED
      BY <3>1 DEF Sale
  <2>5. \A i \in DOMAIN released : released[i].amount \in Nat
    <3>1. \A i \in DOMAIN released : released[i] \in Reintegration
      BY DEF DeferralsOK
    <3> QED
      BY <3>1 DEF Reintegration
  <2> QED
    BY <2>3, <2>4, <2>5 DEF TypeOK, StatementOK, DeferralsOK
<1>2. ASSUME pc = "replaying"
      PROVE  /\ \A o \in Origins :
                  LossesFrom(o) =
                    SumLots(blocked, LAMBDA lot : IF lot.origin = o THEN lot.loss ELSE 0)
                      + SumLots(released, LAMBDA r : IF r.origin = o THEN r.amount ELSE 0)
             /\ \A d \in Day : BlockedOn(blocked, d) <= bought[d] - consumed[d]
  <2>1. ReplayOK
    BY <1>2
  <2>2. ASSUME NEW o \in Origins
        PROVE  LossesFrom(o) =
                    SumLots(blocked, LAMBDA lot : IF lot.origin = o THEN lot.loss ELSE 0)
                      + SumLots(released, LAMBDA r : IF r.origin = o THEN r.amount ELSE 0)
    <3>1. Balanced(sells, config, deferred, blocked, released, {o})
      BY <2>1 DEF ReplayOK
    <3> QED
      BY <3>1, LossesOfOne DEF Balanced
  <2> QED
    BY <2>1, <2>2 DEF ReplayOK, StandsOn
<1> QED
  BY <1>1, <1>2 DEF DeferralConserved

(* As long as the shares and the amounts of the replays divide evenly, what *)
(* a sale could not deduct is still blocked or has been reintegrated, under *)
(* its own label, and blocks no more shares than are held                   *)
(* (WashSaleEngine::process()).                                             *)
THEOREM DeferralsAreConserved ==
  Spec /\ []WholeShares => []DeferralConserved
<1>1. Init => DeferralInv
  BY DeferralInit
<1>2. DeferralInv /\ WholeShares /\ [Next]_vars => DeferralInv'
  BY DeferralStep
<1>3. DeferralInv => DeferralConserved
  BY DeferralImplies
<1> QED
  BY <1>1, <1>2, <1>3, PTL DEF Spec

(* As long as they divide evenly, a disposal defers exactly what the        *)
(* acquisitions of its window replace: where a loss is deducted or a        *)
(* deferral ends, every share held from the window blocks already           *)
(* (match_window(), release(), block()).                                    *)
THEOREM DeferralIsExact ==
  Spec /\ []WholeShares => DefersExactly
<1>1. Init => DeferralInv
  BY DeferralInit
<1>2. DeferralInv /\ WholeShares /\ [Next]_vars => DeferralInv'
  BY DeferralStep
<1>3. DeferralInv /\ WholeShares /\ [Next]_vars =>
        [ReplayStep =>
           LET sale == sells[pos]
               Near(d) == sale.date - Window <= d /\ d <= sale.date + Window
           IN  \A d \in Day :
                 /\ BlockedOn(blocked', d) > BlockedOn(blocked, d) => Near(d)
                 /\ Near(d) /\ (deferred'[pos] < LossOf(sale) \/ released' # released) =>
                      BlockedOn(blocked', d) = bought[d] - consumed'[d]]_vars
  <2>1. SUFFICES ASSUME DeferralInv, WholeShares, Next, ReplayStep, NEW d \in Day
                 PROVE  LET sale == sells[pos]
                            Near(e) == sale.date - Window <= e /\ e <= sale.date + Window
                        IN  /\ BlockedOn(blocked', d) > BlockedOn(blocked, d) => Near(d)
                            /\ Near(d) /\ (deferred'[pos] < LossOf(sale) \/ released' # released) =>
                                 BlockedOn(blocked', d) = bought[d] - consumed'[d]
    OBVIOUS
  <2>2. Process
    <3>1. pc = "replaying" /\ pos' = pos + 1 /\ pos \in Nat
      BY <2>1 DEF ReplayStep, DeferralInv, ReplayOK
    <3>2. pos' # pos
      BY <3>1
    <3> QED
      BY <2>1, <3>1, <3>2 DEF Next, NextDay, Buy, Sell, MayTrade, Trading, File, FinishReturn,
                              Finished, vars
  <2>3. /\ pos \in 1 .. Len(sells) /\ Len(deferred) = pos - 1 /\ sells[pos] \in Sale
    BY <2>1, <2>2, ProcessEffect
  <2>4. PICK effect :
              /\ IsEffect(effect, sells[pos], bought, consumed, blocked)
              /\ consumed' = effect.consumed /\ blocked' = effect.blocked
              /\ deferred' = Append(deferred, effect.deferral)
              /\ released' = released \o effect.final
              /\ \A e \in Day : /\ effect.consumed[e] = SoldUntil(sells, e, pos)
                                /\ effect.consumed[e] <= bought[e]
    BY <2>1, <2>2, ProcessEffect
  <2>5. StandsOn(blocked, bought, consumed)
    BY <2>1, <2>2 DEF Process, DeferralInv, ReplayOK
  <2>6. Exactly(effect, sells[pos], bought, blocked)
    BY <2>4, <2>5, EffectFacts
  <2>7. deferred'[pos] = effect.deferral
    <3>1. deferred \in Seq(Nat) /\ pos = Len(deferred) + 1
      BY <2>1, <2>3 DEF DeferralInv, DeferralsOK
    <3> QED
      BY <2>4, <3>1
  <2>8. released' # released => effect.final # <<>>
    <3>1. released \in Seq(Reintegration)
      BY <2>1 DEF DeferralInv, DeferralsOK
    <3>2. released \o <<>> = released
      BY <3>1
    <3> QED
      BY <2>4, <3>2
  <2>9. InWindow(d, sells[pos].date)
          <=> sells[pos].date - Window <= d /\ d <= sells[pos].date + Window
    <3>1. sells[pos].date \in Int /\ d \in Int /\ Window \in Int
      BY <2>3, Days, WashSaleAssumption DEF Sale, WashSaleAssumption
    <3> QED
      BY <3>1 DEF InWindow
  <2>10. /\ BlockedOn(effect.blocked, d) > BlockedOn(blocked, d) => InWindow(d, sells[pos].date)
         /\ InWindow(d, sells[pos].date)
              /\ (effect.deferral < LossOf(sells[pos]) \/ effect.final # <<>>) =>
              BlockedOn(effect.blocked, d) = bought[d] - effect.consumed[d]
    BY <2>6 DEF Exactly
  <2> QED
    BY <2>4, <2>7, <2>8, <2>9, <2>10
<1> QED
  BY <1>1, <1>2, <1>3, PTL DEF Spec, DefersExactly

-----------------------------------------------------------------------------
(* A replay, disposal after disposal.                                       *)

(* The engine before the first disposal, ...                                *)
Start(carried) ==
  [consumed |-> None, blocked |-> carried, deferred |-> <<>>, released |-> <<>>]

(* ... and after one more.                                                  *)
After(e, sale, acquired) ==
  LET effect == Effect(sale, acquired, e.consumed, e.blocked)
  IN  [consumed |-> effect.consumed, blocked |-> effect.blocked,
       deferred |-> Append(e.deferred, effect.deferral),
       released |-> e.released \o effect.final]

(* What ends on a day.                                                      *)
Dated(d) == {r \in Reintegration : r.date = d}

(* An engine that has balanced k disposals.                                 *)
Sound(e, ss, carried, k) ==
  /\ e.blocked \in Seq(Lot) /\ e.deferred \in Seq(Nat) /\ Len(e.deferred) = k
  /\ e.released \in Seq(Reintegration)
  /\ Balanced(ss, carried, e.deferred, e.blocked, e.released, Origins)

(* A disposal adds one deferral and what ends on its day.                   *)
Follows(next, e, d) ==
  \E final \in Seq(Dated(d)), own \in Nat :
    next.released = e.released \o final /\ next.deferred = Append(e.deferred, own)

(* The engine after each of the first n disposals.                          *)
Replay(tr, ss, acquired, carried, n) ==
  /\ tr[0] = Start(carried)
  /\ \A k \in 1 .. n : /\ tr[k] = After(tr[k - 1], ss[k], acquired)
                       /\ Follows(tr[k], tr[k - 1], ss[k].date)
  /\ \A k \in 0 .. n : Sound(tr[k], ss, carried, k)

(* A replay is determined by the statement and by what is carried in.       *)
LEMMA ReplaySame ==
  ASSUME NEW ss, NEW acquired, NEW carried, NEW tr, NEW n \in Nat, NEW other, NEW p \in Nat,
         Replay(tr, ss, acquired, carried, n), Replay(other, ss, acquired, carried, p),
         NEW m \in Nat, m <= n, m <= p
  PROVE  tr[m] = other[m]
<1> DEFINE Q == {k \in Nat : k <= m => tr[k] = other[k]}
<1>1. 0 \in Q
  BY DEF Replay
<1>2. ASSUME NEW k \in Nat, k \in Q PROVE k + 1 \in Q
  <2>1. SUFFICES ASSUME k + 1 <= m PROVE tr[k + 1] = other[k + 1]
    OBVIOUS
  <2>2. k + 1 \in 1 .. n /\ k + 1 \in 1 .. p /\ (k + 1) - 1 = k /\ k <= m
    BY <2>1
  <2>3. tr[k + 1] = After(tr[k], ss[k + 1], acquired) /\ other[k + 1] = After(other[k], ss[k + 1], acquired)
    BY <2>2 DEF Replay
  <2> QED
    BY <1>2, <2>2, <2>3
<1> HIDE DEF Q
<1>3. m \in Q
  BY <1>1, <1>2, NumberInduction
<1> QED
  BY <1>3 DEF Q

(* A disposal does not see what is acquired outside its window.             *)
LEMMA AfterSame ==
  ASSUME NEW sale, NEW acquired, NEW more,
         \A d \in Day : InWindow(d, sale.date) => more[d] = acquired[d],
         NEW e
  PROVE  After(e, sale, more) = After(e, sale, acquired)
<1> DEFINE lots == StillBlocking(e.blocked, sale.lots)
           gone == Gone(sale, e.consumed)
           Near(a) == [d \in Day |-> IF InWindow(d, sale.date) THEN Available(a, gone, lots, d) ELSE 0]
<1>1. Near(more) = Near(acquired)
  <2>1. \A d \in Day : InWindow(d, sale.date) => Available(more, gone, lots, d) = Available(acquired, gone, lots, d)
    BY DEF Available
  <2> HIDE DEF lots, gone
  <2> QED
    BY <2>1
<1>2. \A a : Matched(sale, a, gone, lots)
               = [d \in Day |-> Least(Near(a)[d], Most(0, sale.quantity - Total(Near(a), {x \in Day : x < d})))]
  BY DEF Matched
<1> HIDE DEF Near
<1>3. Matched(sale, more, gone, lots) = Matched(sale, acquired, gone, lots)
  BY <1>1, <1>2
<1>4. Replacing(sale, more, e.consumed, e.blocked) = Replacing(sale, acquired, e.consumed, e.blocked)
  BY <1>3 DEF Replacing
<1>5. Effect(sale, more, e.consumed, e.blocked) = Effect(sale, acquired, e.consumed, e.blocked)
  BY <1>4 DEF Effect
<1> QED
  BY <1>5 DEF After

(* Statements that agree on n disposals and on their windows.               *)
SameUntil(ss, more, acquired, extended, n) ==
  /\ \A k \in 1 .. n : more[k] = ss[k]
  /\ \A k \in 1 .. n, d \in Day : InWindow(d, ss[k].date) => extended[d] = acquired[d]

(* Nor does a replay see what is traded after the windows have closed.      *)
LEMMA ReplayElsewhere ==
  ASSUME NEW ss, NEW acquired, NEW carried, NEW tr, NEW n \in Nat,
         Replay(tr, ss, acquired, carried, n), NEW more, NEW extended,
         SameUntil(ss, more, acquired, extended, n)
  PROVE  Replay(tr, more, extended, carried, n)
<1>1. ASSUME NEW k \in 1 .. n
      PROVE  tr[k] = After(tr[k - 1], more[k], extended) /\ Follows(tr[k], tr[k - 1], more[k].date)
  <2>1. \A d \in Day : InWindow(d, ss[k].date) => extended[d] = acquired[d]
    BY DEF SameUntil
  <2>2. After(tr[k - 1], ss[k], extended) = After(tr[k - 1], ss[k], acquired)
    BY <2>1, AfterSame
  <2>3. more[k] = ss[k]
    BY DEF SameUntil
  <2> QED
    BY <2>2, <2>3 DEF Replay
<1>2. ASSUME NEW k \in 0 .. n PROVE Sound(tr[k], more, carried, k)
  <2>1. Sound(tr[k], ss, carried, k)
    BY DEF Replay
  <2>2. DeferredOf(more, tr[k].deferred, Origins) = DeferredOf(ss, tr[k].deferred, Origins)
    <3>1. DOMAIN tr[k].deferred = 1 .. k
      BY <2>1 DEF Sound
    <3>2. \A i \in 1 .. k : more[i] = ss[i]
      BY DEF SameUntil
    <3> QED
      BY <3>1, <3>2 DEF DeferredOf
  <2> QED
    BY <2>1, <2>2 DEF Sound, Balanced
<1> QED
  BY <1>1, <1>2 DEF Replay

(* What a release counts for in a year: Declared.                           *)
IncomeOf(y) == [r \in Reintegration |-> IF YearOf(r.date) = y THEN r.amount ELSE 0]

(* The income of a year can be added up.                                    *)
LEMMA IncomeWeights ==
  \A y : Weights(IncomeOf(y), Reintegration)
<1>1. \A r \in Reintegration : r.amount \in Nat
  BY DEF Reintegration
<1> QED
  BY <1>1 DEF Weights, IncomeOf

(* What a disposal ends is income of its own year.                          *)
LEMMA IncomeOfDay ==
  ASSUME NEW d, NEW final \in Seq(Dated(d)), NEW y
  PROVE  /\ final \in Seq(Reintegration)
         /\ YearOf(d) = y => Weigh(IncomeOf(y), final) = Weigh(AmountOf(Origins), final)
         /\ YearOf(d) # y => Weigh(IncomeOf(y), final) = 0
<1>1. final \in Seq(Reintegration)
  <2>1. Dated(d) \subseteq Reintegration
    BY DEF Dated
  <2>2. final = [i \in 1 .. Len(final) |-> final[i]] /\ Len(final) \in Nat
    OBVIOUS
  <2>3. \A i \in 1 .. Len(final) : final[i] \in Reintegration
    BY <2>1
  <2>4. [i \in 1 .. Len(final) |-> final[i]] \in Seq(Reintegration)
    BY <2>2, <2>3
  <2> QED
    BY <2>2, <2>4
<1>2. ASSUME NEW r \in Dated(d)
      PROVE  /\ YearOf(d) = y => IncomeOf(y)[r] = AmountOf(Origins)[r]
             /\ YearOf(d) # y => IncomeOf(y)[r] = 0
  BY DEF Dated, Reintegration, IncomeOf, AmountOf
<1>3. YearOf(d) = y => Weigh(IncomeOf(y), final) = Weigh(AmountOf(Origins), final)
  <2>1. SUFFICES ASSUME YearOf(d) = y
                 PROVE  Weigh(IncomeOf(y), final) = Weigh(AmountOf(Origins), final)
    OBVIOUS
  <2>2. \A r \in Dated(d) : IncomeOf(y)[r] = AmountOf(Origins)[r]
    BY <1>2, <2>1
  <2> QED
    BY <2>2, WeighSame, ZenonT(30)
<1>4. YearOf(d) # y => Weigh(IncomeOf(y), final) = 0
  <2>1. SUFFICES ASSUME YearOf(d) # y PROVE Weigh(IncomeOf(y), final) = 0
    OBVIOUS
  <2> DEFINE g == [i \in DOMAIN final |-> IncomeOf(y)[final[i]]]
  <2>2. \A i \in DOMAIN final : final[i] \in Dated(d)
    OBVIOUS
  <2>3. \A i \in DOMAIN final : g[i] = 0
    BY <1>2, <2>1, <2>2
  <2>4. IsFiniteSet(DOMAIN final)
    BY <1>1, WeighType, IncomeWeights DEF Summable
  <2>5. Weigh(IncomeOf(y), final) = SumFunctionOnSet(g, DOMAIN final)
    BY DEF Weigh
  <2> HIDE DEF g
  <2> QED
    BY <2>3, <2>4, <2>5, SumZero
<1> QED
  BY <1>1, <1>3, <1>4

(* Later disposals change neither what was deferred nor the income of other *)
(* years.                                                                   *)
LEMMA ReplayGrows ==
  ASSUME NEW ss, NEW acquired, NEW carried, NEW tr, NEW n \in Nat,
         Replay(tr, ss, acquired, carried, n), NEW m \in 0 .. n
  PROVE  /\ \A i \in 1 .. m : tr[n].deferred[i] = tr[m].deferred[i]
         /\ \A y : (\A k \in 1 .. n : k > m => YearOf(ss[k].date) # y) =>
                     Weigh(IncomeOf(y), tr[n].released) = Weigh(IncomeOf(y), tr[m].released)
<1> DEFINE Q == {k \in Nat : m + k <= n =>
                   /\ \A i \in 1 .. m : tr[m + k].deferred[i] = tr[m].deferred[i]
                   /\ \A y : (\A j \in 1 .. n : j > m => YearOf(ss[j].date) # y) =>
                        Weigh(IncomeOf(y), tr[m + k].released) = Weigh(IncomeOf(y), tr[m].released)}
<1>1. 0 \in Q
  <2>1. m + 0 = m
    OBVIOUS
  <2> QED
    BY <2>1
<1>2. ASSUME NEW k \in Nat, k \in Q PROVE k + 1 \in Q
  <2> DEFINE p == m + k
  <2>1. SUFFICES ASSUME m + (k + 1) <= n
                 PROVE  /\ \A i \in 1 .. m : tr[m + (k + 1)].deferred[i] = tr[m].deferred[i]
                        /\ \A y : (\A j \in 1 .. n : j > m => YearOf(ss[j].date) # y) =>
                             Weigh(IncomeOf(y), tr[m + (k + 1)].released) = Weigh(IncomeOf(y), tr[m].released)
    OBVIOUS
  <2>2. /\ p \in 0 .. n /\ p \in Nat /\ p + 1 \in 1 .. n /\ m + (k + 1) = p + 1 /\ (p + 1) - 1 = p
        /\ p + 1 > m /\ m + k <= n /\ 1 .. m \subseteq 1 .. p
    BY <2>1
  <2>3. PICK final \in Seq(Dated(ss[p + 1].date)), own \in Nat :
          tr[p + 1].released = tr[p].released \o final /\ tr[p + 1].deferred = Append(tr[p].deferred, own)
    BY <2>2 DEF Replay, Follows
  <2>4. Sound(tr[p], ss, carried, p)
    BY <2>2 DEF Replay
  <2>5. ASSUME NEW i \in 1 .. m PROVE tr[p + 1].deferred[i] = tr[m].deferred[i]
    <3>1. tr[p].deferred[i] = tr[m].deferred[i]
      BY <1>2, <2>2
    <3>2. i \in 1 .. p /\ tr[p].deferred \in Seq(Nat) /\ Len(tr[p].deferred) = p
      BY <2>2, <2>4 DEF Sound
    <3> HIDE DEF p
    <3> QED
      BY <2>3, <3>1, <3>2
  <2>6. ASSUME NEW y, \A j \in 1 .. n : j > m => YearOf(ss[j].date) # y
        PROVE  Weigh(IncomeOf(y), tr[p + 1].released) = Weigh(IncomeOf(y), tr[m].released)
    <3>1. Weigh(IncomeOf(y), tr[p].released) = Weigh(IncomeOf(y), tr[m].released)
      BY <1>2, <2>2, <2>6
    <3>2. YearOf(ss[p + 1].date) # y
      BY <2>2, <2>6
    <3> HIDE DEF p
    <3>3. final \in Seq(Reintegration) /\ Weigh(IncomeOf(y), final) = 0
      BY <3>2, IncomeOfDay
    <3>4. tr[p].released \in Seq(Reintegration)
      BY <2>4 DEF Sound
    <3>5. Weigh(IncomeOf(y), tr[p].released \o final)
            = Weigh(IncomeOf(y), tr[p].released) + Weigh(IncomeOf(y), final)
      BY <3>3, <3>4, IncomeWeights, WeighJoined
    <3>6. Weigh(IncomeOf(y), tr[p].released) \in Int
      BY <3>4, IncomeWeights, WeighType
    <3> QED
      BY <2>3, <3>1, <3>3, <3>5, <3>6
  <2> HIDE DEF p
  <2> QED
    BY <2>2, <2>5, <2>6
<1> HIDE DEF Q
<1>3. n - m \in Nat /\ m + (n - m) = n
  OBVIOUS
<1>4. n - m \in Q
  BY <1>1, <1>2, <1>3, NumberInduction
<1> QED
  BY <1>3, <1>4 DEF Q

(* All that ended is income of the years of the disposals.                  *)
LEMMA ReplayIncome ==
  ASSUME NEW ss, NEW acquired, NEW carried, NEW tr, NEW n \in Nat,
         Replay(tr, ss, acquired, carried, n),
         NEW y, NEW z, y # z, \A k \in 1 .. n : YearOf(ss[k].date) \in {y, z}
  PROVE  Weigh(AmountOf(Origins), tr[n].released)
           = Weigh(IncomeOf(y), tr[n].released) + Weigh(IncomeOf(z), tr[n].released)
<1> DEFINE A(k) == Weigh(AmountOf(Origins), tr[k].released)
           Y(k) == Weigh(IncomeOf(y), tr[k].released)
           Z(k) == Weigh(IncomeOf(z), tr[k].released)
           Q == {k \in Nat : k <= n => A(k) = Y(k) + Z(k)}
<1>1. 0 \in Q
  <2>1. tr[0].released = <<>>
    BY DEF Replay, Start
  <2>2. A(0) = 0 /\ Y(0) = 0 /\ Z(0) = 0
    BY <2>1, WeighEmpty
  <2> QED
    BY <2>2
<1>2. ASSUME NEW k \in Nat, k \in Q PROVE k + 1 \in Q
  <2>1. SUFFICES ASSUME k + 1 <= n PROVE A(k + 1) = Y(k + 1) + Z(k + 1)
    OBVIOUS
  <2>2. k \in 0 .. n /\ k + 1 \in 1 .. n /\ (k + 1) - 1 = k /\ k <= n
    BY <2>1
  <2>3. PICK final \in Seq(Dated(ss[k + 1].date)), own \in Nat :
          tr[k + 1].released = tr[k].released \o final /\ tr[k + 1].deferred = Append(tr[k].deferred, own)
    BY <2>2 DEF Replay, Follows
  <2>4. tr[k].released \in Seq(Reintegration)
    BY <2>2 DEF Replay, Sound
  <2>5. final \in Seq(Reintegration)
    BY IncomeOfDay
  <2>6. /\ A(k + 1) = A(k) + Weigh(AmountOf(Origins), final)
        /\ Y(k + 1) = Y(k) + Weigh(IncomeOf(y), final)
        /\ Z(k + 1) = Z(k) + Weigh(IncomeOf(z), final)
    BY <2>3, <2>4, <2>5, IncomeWeights, ReintegrationWeights, WeighJoined
  <2>7. A(k) \in Int /\ Y(k) \in Int /\ Z(k) \in Int /\ Weigh(AmountOf(Origins), final) \in Int
    BY <2>4, <2>5, IncomeWeights, ReintegrationWeights, WeighType
  <2>8. A(k) = Y(k) + Z(k)
    BY <1>2, <2>2
  <2>9. YearOf(ss[k + 1].date) \in {y, z}
    BY <2>2
  <2>10. Weigh(AmountOf(Origins), final) = Weigh(IncomeOf(y), final) + Weigh(IncomeOf(z), final)
    <3>1. CASE YearOf(ss[k + 1].date) = y
      <4>1. Weigh(IncomeOf(y), final) = Weigh(AmountOf(Origins), final) /\ Weigh(IncomeOf(z), final) = 0
        BY <3>1, IncomeOfDay
      <4> QED
        BY <2>7, <4>1
    <3>2. CASE YearOf(ss[k + 1].date) = z
      <4>1. Weigh(IncomeOf(z), final) = Weigh(AmountOf(Origins), final) /\ Weigh(IncomeOf(y), final) = 0
        BY <3>2, IncomeOfDay
      <4> QED
        BY <2>7, <4>1
    <3> QED
      BY <2>9, <3>1, <3>2
  <2>11. Weigh(IncomeOf(y), final) \in Int /\ Weigh(IncomeOf(z), final) \in Int
    BY <2>5, IncomeWeights, WeighType
  <2> HIDE DEF A, Y, Z
  <2> QED
    BY <2>6, <2>7, <2>8, <2>10, <2>11
<1> HIDE DEF Q
<1>3. n \in Q
  BY <1>1, <1>2, NumberInduction
<1> QED
  BY <1>3 DEF Q

(* The years of the days.                                                   *)
LEMMA YearsOfDays ==
  ASSUME NEW d \in Day, NEW y \in Nat
  PROVE  /\ YearOf(d) \in Nat \ {0}
         /\ YearOf(d) <= y <=> d <= YearEnd(y)
<1> DEFINE L == YearLength
           q == (d - 1) \div L
<1>1. L \in Nat \ {0} /\ d \in Nat \ {0}
  BY Days, WashSaleAssumption DEF WashSaleAssumption
<1>2. q \in Nat /\ q * L <= d - 1 /\ d - 1 < (q + 1) * L
  <2>1. d - 1 \in Nat
    BY <1>1
  <2> QED
    BY <1>1, <2>1
<1>3. YearOf(d) = q + 1 /\ YearEnd(y) = y * L
  BY DEF YearOf, YearEnd
<1> HIDE DEF L, q
<1>4. q + 1 <= y => d <= y * L
  <2>1. SUFFICES ASSUME q + 1 <= y PROVE d <= y * L
    OBVIOUS
  <2>2. (q + 1) * L <= y * L
    BY <1>1, <1>2, <2>1
  <2> QED
    BY <1>1, <1>2, <2>2
<1>5. ~(q + 1 <= y) => ~(d <= y * L)
  <2>1. SUFFICES ASSUME y <= q PROVE ~(d <= y * L)
    BY <1>2
  <2>2. y * L <= q * L
    BY <1>1, <1>2, <2>1
  <2>3. y * L \in Nat /\ q * L \in Nat
    BY <1>1, <1>2
  <2> QED
    BY <1>1, <1>2, <2>2, <2>3
<1> QED
  BY <1>2, <1>3, <1>4, <1>5

-----------------------------------------------------------------------------
(* The invariant of the returns.                                            *)

Engine == [consumed |-> consumed, blocked |-> blocked, deferred |-> deferred, released |-> released]

(* The disposals up to the m-th one are those until the end of the year.    *)
UntilYear(ss, m, n, y) ==
  m \in 0 .. n /\ \A i \in 1 .. n : i <= m <=> ss[i].date <= YearEnd(y)

(* The figures of a return are those of the replay until the end of its     *)
(* year.                                                                    *)
Figured(return, tr, m, ss) ==
  /\ UntilYear(ss, m, Len(ss), return.year)
  /\ return.deducted =
       SumOver({i \in 1 .. m : YearOf(ss[i].date) = return.year},
               LAMBDA i : LossOf(ss[i]) - tr[m].deferred[i])
  /\ return.reintegrated = Weigh(IncomeOf(return.year), tr[m].released)
  /\ return.carried = tr[m].blocked

(* Settled, of a given statement.                                           *)
SettledIn(ss, return) ==
  \A i \in DOMAIN ss : ss[i].date <= YearEnd(return.year) => ss[i].date + Window <= return.last

(* A return reports a replay which, once settled, is that of the statement. *)
Backed(return, ss, acquired, carried) ==
  \E tr, m : /\ Figured(return, tr, m, ss)
             /\ SettledIn(ss, return) => Replay(tr, ss, acquired, carried, m)

Return == [year : Nat, last : Day, deducted : Int, reintegrated : Int,
           carried : Seq(Lot), named : BOOLEAN]

(* Everything happens in the order of the days.                             *)
DatesOK ==
  /\ config = opening
  /\ \A i, j \in DOMAIN sells : i <= j => sells[i].date <= sells[j].date
  /\ \A i \in DOMAIN sells : sells[i].date <= today
  /\ returns \in Seq(Return)
  /\ \A j \in DOMAIN returns : returns[j].last <= today /\ YearEnd(returns[j].year) <= returns[j].last
  /\ \A i, j \in DOMAIN returns : i <= j => returns[i].last <= returns[j].last
  /\ pc = "replaying" => year \in Nat /\ YearEnd(year) <= today

(* The snapshot is taken as soon as a disposal of a later year is replayed.  *)
Carrying(snapshot, tr, m, n) ==
  \/ snapshot = <<>> /\ m = n
  \/ snapshot = <<tr[m].blocked>> /\ m < n

(* A run is a replay of the statement as far as it got.                     *)
RunOK ==
  \E tr, m :
    /\ Replay(tr, sells, bought, config, pos - 1)
    /\ tr[pos - 1] = Engine
    /\ UntilYear(sells, m, pos - 1, year)
    /\ Carrying(carryOut, tr, m, pos - 1)

ReturnsOK == \A j \in DOMAIN returns : Backed(returns[j], sells, bought, config)

(* The inductive invariant of SettledReturnStands and DeductedOnce.         *)
ReturnsInv == DeferralInv /\ DatesOK /\ ReturnsOK /\ (pc = "replaying" => RunOK)

-----------------------------------------------------------------------------
(* A statement that differs by trades of one day only.                      *)
Extends(ss, more, acquired, extended, t) ==
  /\ ss \in Seq(Sale) /\ more \in Seq(Sale) /\ Len(ss) <= Len(more) /\ t \in Day
  /\ \A k \in 1 .. Len(ss) : more[k] = ss[k]
  /\ \A k \in 1 .. Len(more) : k > Len(ss) => more[k].date = t
  /\ \A d \in Day : d # t => extended[d] = acquired[d]

(* A return stays backed by a replay when trades follow that it does not    *)
(* cover.                                                                   *)
LEMMA BackedKept ==
  ASSUME NEW ss, NEW more, NEW acquired, NEW extended, NEW t, NEW carried,
         Extends(ss, more, acquired, extended, t),
         NEW return \in Return, return.last < t, YearEnd(return.year) <= return.last,
         Backed(return, ss, acquired, carried)
  PROVE  Backed(return, more, extended, carried)
<1> DEFINE y == return.year
           L == Len(ss)
           M == Len(more)
<1>1. PICK tr, m : /\ Figured(return, tr, m, ss)
                   /\ SettledIn(ss, return) => Replay(tr, ss, acquired, carried, m)
  BY DEF Backed
<1>2. /\ L \in Nat /\ M \in Nat /\ L <= M /\ DOMAIN ss = 1 .. L /\ DOMAIN more = 1 .. M
      /\ t \in Int /\ return.last \in Int /\ y \in Nat /\ YearEnd(y) \in Int
      /\ \A k \in 1 .. L : more[k] = ss[k]
      /\ \A k \in 1 .. M : k > L => more[k].date = t
  <2>1. YearEnd(y) \in Int
    BY WashSaleAssumption DEF YearEnd, WashSaleAssumption, Return
  <2> QED
    BY <2>1, Days DEF Extends, Return
<1>3. \A k \in 1 .. L : ss[k].date \in Day /\ ss[k].date \in Int
  <2>1. \A k \in 1 .. L : ss[k] \in Sale
    BY <1>2 DEF Extends
  <2> QED
    BY <2>1, Days DEF Sale
<1>4. m \in 0 .. L /\ (\A i \in 1 .. L : i <= m <=> ss[i].date <= YearEnd(y))
  BY <1>1 DEF Figured, UntilYear
<1> HIDE DEF y, L, M
<1>5. UntilYear(more, m, M, y)
  <2>1. ASSUME NEW i \in 1 .. M PROVE i <= m <=> more[i].date <= YearEnd(y)
    <3>1. CASE i <= L
      BY <1>2, <1>4, <3>1
    <3>2. CASE ~(i <= L)
      <4>1. more[i].date = t /\ ~(t <= YearEnd(y)) /\ ~(i <= m)
        BY <1>2, <1>4, <3>2 DEF y
      <4> QED
        BY <4>1
    <3> QED
      BY <3>1, <3>2
  <2>2. m \in 0 .. M
    BY <1>2, <1>4
  <2> QED
    BY <2>1, <2>2 DEF UntilYear
<1>6. Figured(return, tr, m, more)
  <2> DEFINE S == {i \in 1 .. m : YearOf(ss[i].date) = y}
             T == {i \in 1 .. m : YearOf(more[i].date) = y}
             f == [i \in S |-> LossOf(ss[i]) - tr[m].deferred[i]]
             g == [i \in T |-> LossOf(more[i]) - tr[m].deferred[i]]
  <2>1. \A i \in 1 .. m : more[i] = ss[i]
    BY <1>2, <1>4
  <2>2. S = T
    BY <2>1
  <2>3. \A i \in S : LossOf(ss[i]) - tr[m].deferred[i] = LossOf(more[i]) - tr[m].deferred[i]
    BY <2>1
  <2>4. f = g
    BY <2>2, <2>3
  <2>5. return.deducted = SumFunctionOnSet(f, S)
    BY <1>1 DEF Figured, SumOver, y
  <2>6. return.deducted = SumFunctionOnSet(g, T)
    <3> HIDE DEF S, T, f, g
    <3> QED
      BY <2>2, <2>4, <2>5
  <2> QED
    BY <1>1, <1>5, <2>6 DEF Figured, SumOver, y, M
<1>7. ASSUME SettledIn(more, return) PROVE Replay(tr, more, extended, carried, m)
  <2>1. SettledIn(ss, return)
    <3>1. ASSUME NEW i \in DOMAIN ss, ss[i].date <= YearEnd(return.year)
          PROVE  ss[i].date + Window <= return.last
      <4>1. i \in DOMAIN more /\ more[i] = ss[i]
        BY <1>2
      <4> QED
        BY <1>7, <3>1, <4>1 DEF SettledIn
    <3> QED
      BY <3>1 DEF SettledIn
  <2>2. SameUntil(ss, more, acquired, extended, m)
    <3>1. \A k \in 1 .. m : more[k] = ss[k]
      BY <1>2, <1>4
    <3>2. ASSUME NEW k \in 1 .. m, NEW d \in Day, InWindow(d, ss[k].date)
          PROVE  extended[d] = acquired[d]
      <4>1. k \in 1 .. L /\ ss[k].date <= YearEnd(y)
        BY <1>2, <1>4
      <4>2. ss[k].date + Window <= return.last
        BY <1>2, <2>1, <4>1 DEF SettledIn, y
      <4>3. d <= ss[k].date + Window /\ d \in Int /\ Window \in Int /\ ss[k].date \in Int
        BY <1>3, <3>2, <4>1, Days, WashSaleAssumption DEF InWindow, WashSaleAssumption
      <4>4. d # t
        BY <1>2, <4>2, <4>3
      <4> QED
        BY <4>4 DEF Extends
    <3> QED
      BY <3>1, <3>2 DEF SameUntil
  <2>3. m \in Nat
    BY <1>2, <1>4
  <2> QED
    BY <1>1, <2>1, <2>2, <2>3, ReplayElsewhere
<1> QED
  BY <1>6, <1>7 DEF Backed

(* What may still be traded is later than every return.                     *)
LEMMA FiledBefore ==
  ASSUME DatesOK, today \in Day, MayTrade, NEW j \in DOMAIN returns
  PROVE  returns[j].last < today /\ returns[j] \in Return /\ YearEnd(returns[j].year) <= returns[j].last
<1>1. returns \in Seq(Return) /\ DOMAIN returns = 1 .. Len(returns) /\ Len(returns) \in Nat
  BY DEF DatesOK
<1>2. returns[j] \in Return /\ Len(returns) \in DOMAIN returns /\ j <= Len(returns)
  BY <1>1
<1>3. returns[Len(returns)] \in Return
  BY <1>1, <1>2
<1>4. returns[j].last <= returns[Len(returns)].last
  BY <1>2 DEF DatesOK
<1>5. LastFiled = returns[Len(returns)].last
  <2>1. returns # <<>>
    BY <1>1
  <2> QED
    BY <2>1 DEF LastFiled, Last
<1>6. returns[j].last \in Int /\ returns[Len(returns)].last \in Int /\ today \in Int
  BY <1>2, <1>3, Days DEF Return
<1> QED
  BY <1>2, <1>4, <1>5, <1>6 DEF MayTrade, DatesOK

(* At the beginning.                                                        *)
LEMMA ReturnsInit == Init => ReturnsInv
<1> SUFFICES ASSUME Init PROVE ReturnsInv
  OBVIOUS
<1>1. DeferralInv
  BY DeferralInit
<1>2. sells = <<>> /\ returns = <<>> /\ pc = "trading" /\ config = opening
  BY DEF Init
<1>3. DOMAIN sells = {} /\ DOMAIN returns = {} /\ returns \in Seq(Return)
  BY <1>2
<1> QED
  BY <1>1, <1>2, <1>3 DEF ReturnsInv, DatesOK, ReturnsOK

(* A day passes.                                                            *)
LEMMA ReturnsNextDay ==
  ASSUME ReturnsInv, NextDay
  PROVE  ReturnsInv'
<1> USE DEF ReturnsInv
<1>1. DeferralInv'
  BY DeferralNextDay
<1>2. today' = today + 1 /\ today \in Int
      /\ UNCHANGED <<bought, sells, opening, config, returns, pc>> /\ pc = "trading"
  BY Days DEF NextDay, Trading, DeferralInv, StatementOK
<1>3. \A i \in DOMAIN sells : sells[i].date <= today'
  <2>1. \A i \in DOMAIN sells : sells[i] \in Sale
    BY DEF DeferralInv, StatementOK
  <2>2. \A i \in DOMAIN sells : sells[i].date \in Int /\ sells[i].date <= today
    BY <2>1, Days DEF DatesOK, Sale
  <2> QED
    BY <1>2, <2>2
<1>4. \A j \in DOMAIN returns : returns[j].last <= today'
  <2>1. \A j \in DOMAIN returns : returns[j] \in Return
    BY DEF DatesOK
  <2>2. \A j \in DOMAIN returns : returns[j].last \in Int /\ returns[j].last <= today
    BY <2>1, Days DEF DatesOK, Return
  <2> QED
    BY <1>2, <2>2
<1>5. DatesOK'
  BY <1>2, <1>3, <1>4 DEF DatesOK
<1>6. ReturnsOK'
  BY <1>2 DEF ReturnsOK
<1> QED
  BY <1>1, <1>2, <1>5, <1>6

(* Shares are bought.                                                       *)
LEMMA ReturnsBuy ==
  ASSUME ReturnsInv, NEW q \in Quantity, Buy(q)
  PROVE  ReturnsInv'
<1> USE DEF ReturnsInv
<1>1. DeferralInv'
  BY DeferralBuy
<1>2. UNCHANGED <<today, sells, opening, config, returns, pc>> /\ pc = "trading" /\ MayTrade
  BY DEF Buy, MayTrade, Trading
<1>3. DatesOK'
  BY <1>2 DEF DatesOK
<1>4. today \in Day /\ sells \in Seq(Sale) /\ bought \in [Day -> Nat]
  BY DEF DeferralInv, StatementOK
<1>5. Extends(sells, sells, bought, bought', today)
  <2>1. bought' = [bought EXCEPT ![today] = @ + q]
    BY DEF Buy
  <2>2. \A d \in Day : d # today => bought'[d] = bought[d]
    BY <1>4, <2>1
  <2>3. \A k \in 1 .. Len(sells) : ~(k > Len(sells))
    BY <1>4
  <2>4. Len(sells) <= Len(sells)
    BY <1>4
  <2> QED
    BY <1>4, <2>2, <2>3, <2>4 DEF Extends
<1>6. ASSUME NEW j \in DOMAIN returns PROVE Backed(returns[j], sells, bought', config)
  <2>1. returns[j].last < today /\ returns[j] \in Return /\ YearEnd(returns[j].year) <= returns[j].last
    BY <1>2, <1>4, FiledBefore
  <2>2. Backed(returns[j], sells, bought, config)
    BY DEF ReturnsOK
  <2> QED
    BY <1>5, <2>1, <2>2, BackedKept
<1>7. ReturnsOK'
  BY <1>2, <1>6 DEF ReturnsOK
<1> QED
  BY <1>1, <1>2, <1>3, <1>7

(* Shares are sold.                                                         *)
LEMMA ReturnsSell ==
  ASSUME ReturnsInv, NEW q \in Quantity, NEW r \in Result, Sell(q, r)
  PROVE  ReturnsInv'
<1> USE DEF ReturnsInv
<1> DEFINE n == Len(sells)
<1>1. DeferralInv'
  BY DeferralSell
<1>2. UNCHANGED <<today, bought, opening, config, returns, pc>> /\ pc = "trading" /\ MayTrade
  BY DEF Sell, MayTrade, Trading
<1>3. today \in Day /\ today \in Int /\ sells \in Seq(Sale) /\ sells' \in Seq(Sale)
  BY <1>1, Days DEF DeferralInv, StatementOK
<1>4. PICK sale : sells' = Append(sells, sale) /\ sale.date = today
  <2> DEFINE lots == [d \in Day |-> Least(Held[d], Most(0, q - Total(Held, {x \in Day : x < d})))]
             sale == [date |-> today, quantity |-> q, result |-> r, lots |-> lots]
  <2>1. sells' = Append(sells, sale)
    BY DEF Sell
  <2>2. sale.date = today
    OBVIOUS
  <2> HIDE DEF sale
  <2> QED
    BY <2>1, <2>2
<1>5. /\ n \in Nat /\ Len(sells') = n + 1 /\ DOMAIN sells = 1 .. n /\ DOMAIN sells' = 1 .. n + 1
      /\ sells'[n + 1].date = today
      /\ \A i \in 1 .. n : sells'[i] = sells[i]
  BY <1>3, <1>4
<1>6. \A i \in 1 .. n : sells[i].date \in Int /\ sells[i].date <= today
  <2>1. \A i \in 1 .. n : sells[i] \in Sale
    BY <1>3
  <2>2. \A i \in 1 .. n : sells[i].date \in Int
    BY <2>1, Days DEF Sale
  <2>3. \A i \in 1 .. n : sells[i].date <= today
    BY <1>5 DEF DatesOK
  <2> QED
    BY <2>2, <2>3
<1>7. \A i \in DOMAIN sells' : sells'[i].date <= today
  BY <1>3, <1>5, <1>6
<1>8. ASSUME NEW i \in DOMAIN sells', NEW j \in DOMAIN sells', i <= j
      PROVE  sells'[i].date <= sells'[j].date
  <2>1. CASE j = n + 1
    BY <1>5, <1>7, <2>1
  <2>2. CASE j # n + 1
    <3>1. i \in 1 .. n /\ j \in 1 .. n
      BY <1>5, <1>8, <2>2
    <3> QED
      BY <1>5, <1>8, <3>1 DEF DatesOK
  <2> QED
    BY <2>1, <2>2
<1>9. DatesOK'
  BY <1>2, <1>7, <1>8 DEF DatesOK
<1>10. Extends(sells, sells', bought, bought, today)
  <2>1. \A k \in 1 .. Len(sells') : k > Len(sells) => sells'[k].date = today
    BY <1>5
  <2>2. Len(sells) <= Len(sells')
    BY <1>5
  <2> QED
    BY <1>3, <1>5, <2>1, <2>2 DEF Extends
<1>11. ASSUME NEW j \in DOMAIN returns PROVE Backed(returns[j], sells', bought, config)
  <2>1. returns[j].last < today /\ returns[j] \in Return /\ YearEnd(returns[j].year) <= returns[j].last
    BY <1>2, <1>3, FiledBefore
  <2>2. Backed(returns[j], sells, bought, config)
    BY DEF ReturnsOK
  <2> QED
    BY <1>10, <2>1, <2>2, BackedKept
<1>12. ReturnsOK'
  BY <1>2, <1>11 DEF ReturnsOK
<1> QED
  BY <1>1, <1>2, <1>9, <1>12

(* A run begins.                                                            *)
LEMMA ReturnsFile ==
  ASSUME ReturnsInv, NEW y \in 1 .. YearOf(MaxDay), File(y)
  PROVE  ReturnsInv'
<1> USE DEF ReturnsInv
<1>1. DeferralInv'
  BY DeferralFile
<1>2. /\ UNCHANGED <<today, bought, sells, opening, config, returns>>
      /\ year' = y /\ YearEnd(y) <= today /\ pos' = 1 /\ y \in Nat
      /\ consumed' = None /\ blocked' = config /\ deferred' = <<>> /\ released' = <<>>
      /\ carryOut' = <<>>
  BY DEF File, world
<1>3. DatesOK'
  BY <1>2 DEF DatesOK
<1>4. ReturnsOK'
  BY <1>2 DEF ReturnsOK
<1>5. ASSUME pc' = "replaying" PROVE RunOK'
  <2> DEFINE tr == [k \in 0 .. 0 |-> Start(config)]
  <2>1. tr[0] = Start(config)
    OBVIOUS
  <2>2. Engine' = Start(config)
    BY <1>2 DEF Engine, Start
  <2>3. Sound(Start(config), sells, config, 0)
    <3>1. Balanced(sells, config, <<>>, config, <<>>, Origins)
      BY <1>1, <1>2, <1>5 DEF DeferralInv, ReplayOK
    <3>2. config \in Seq(Lot)
      BY DEF DeferralInv, DeferralsOK
    <3>3. <<>> \in Seq(Nat) /\ Len(<<>>) = 0 /\ <<>> \in Seq(Reintegration)
      OBVIOUS
    <3> QED
      BY <3>1, <3>2, <3>3 DEF Sound, Start
  <2> HIDE DEF tr
  <2>4. Replay(tr, sells, bought, config, 0)
    <3>1. \A k \in 0 .. 0 : k = 0
      OBVIOUS
    <3>2. \A k \in 1 .. 0 : FALSE
      OBVIOUS
    <3> QED
      BY <2>1, <2>3, <3>1, <3>2 DEF Replay
  <2>5. UntilYear(sells, 0, 0, y)
    BY DEF UntilYear
  <2>6. pos' - 1 = 0
    BY <1>2
  <2>7. Carrying(carryOut', tr, 0, 0)
    BY <1>2 DEF Carrying
  <2>8. tr[0] = Engine'
    BY <2>1, <2>2
  <2>9. /\ Replay(tr, sells', bought', config', pos' - 1)
        /\ tr[pos' - 1] = Engine'
        /\ UntilYear(sells', 0, pos' - 1, year')
        /\ Carrying(carryOut', tr, 0, pos' - 1)
    BY <1>2, <2>4, <2>5, <2>6, <2>7, <2>8
  <2> QED
    BY <2>9 DEF RunOK
<1> QED
  BY <1>1, <1>3, <1>4, <1>5

-----------------------------------------------------------------------------
(* A replay covers its beginnings ...                                       *)
LEMMA ReplayShorter ==
  ASSUME NEW ss, NEW acquired, NEW carried, NEW tr, NEW n \in Nat,
         Replay(tr, ss, acquired, carried, n), NEW m \in 0 .. n
  PROVE  Replay(tr, ss, acquired, carried, m)
<1>1. 1 .. m \subseteq 1 .. n /\ 0 .. m \subseteq 0 .. n
  OBVIOUS
<1> QED
  BY <1>1 DEF Replay

(* ... and goes on with one disposal more.                                  *)
LEMMA ReplayLonger ==
  ASSUME NEW ss, NEW acquired, NEW carried, NEW tr, NEW n \in Nat,
         Replay(tr, ss, acquired, carried, n),
         NEW next, next = After(tr[n], ss[n + 1], acquired),
         Follows(next, tr[n], ss[n + 1].date), Sound(next, ss, carried, n + 1)
  PROVE  \E more : /\ Replay(more, ss, acquired, carried, n + 1)
                   /\ more[n + 1] = next
                   /\ \A k \in 0 .. n : more[k] = tr[k]
<1> DEFINE more == [k \in 0 .. n + 1 |-> IF k = n + 1 THEN next ELSE tr[k]]
<1>1. more[n + 1] = next /\ \A k \in 0 .. n : more[k] = tr[k]
  OBVIOUS
<1> HIDE DEF more
<1>2. more[0] = Start(carried)
  BY <1>1 DEF Replay
<1>3. ASSUME NEW k \in 1 .. n + 1
      PROVE  more[k] = After(more[k - 1], ss[k], acquired) /\ Follows(more[k], more[k - 1], ss[k].date)
  <2>1. CASE k = n + 1
    <3>1. k - 1 = n /\ n \in 0 .. n
      BY <2>1
    <3> QED
      BY <1>1, <2>1, <3>1
  <2>2. CASE k # n + 1
    <3>1. k \in 1 .. n /\ k \in 0 .. n /\ k - 1 \in 0 .. n
      BY <2>2
    <3> QED
      BY <1>1, <3>1 DEF Replay
  <2> QED
    BY <2>1, <2>2
<1>4. ASSUME NEW k \in 0 .. n + 1 PROVE Sound(more[k], ss, carried, k)
  <2>1. CASE k = n + 1
    BY <1>1, <2>1
  <2>2. CASE k # n + 1
    <3>1. k \in 0 .. n
      BY <2>2
    <3> QED
      BY <1>1, <3>1 DEF Replay
  <2> QED
    BY <2>1, <2>2
<1>5. Replay(more, ss, acquired, carried, n + 1)
  BY <1>2, <1>3, <1>4 DEF Replay
<1> QED
  BY <1>1, <1>5

(* A disposal takes the engine on by one step of the replay.                *)
LEMMA EngineAfter ==
  ASSUME DeferralInv, WholeShares, Process
  PROVE  /\ Engine' = After(Engine, sells[pos], bought)
         /\ Follows(Engine', Engine, sells[pos].date)
         /\ Sound(Engine', sells, config, pos)
<1>1. PICK effect :
              /\ IsEffect(effect, sells[pos], bought, consumed, blocked)
              /\ effect = Effect(sells[pos], bought, consumed, blocked)
              /\ consumed' = effect.consumed /\ blocked' = effect.blocked
              /\ deferred' = Append(deferred, effect.deferral)
              /\ released' = released \o effect.final
  BY ProcessEffect
<1>2. pos \in 1 .. Len(sells) /\ sells[pos] \in Sale
  BY ProcessEffect
<1>3. Engine' = After(Engine, sells[pos], bought)
  BY <1>1 DEF Engine, After
<1>4. Follows(Engine', Engine, sells[pos].date)
  <2>1. effect.final \in Seq({r \in Reintegration : r.date = sells[pos].date}) /\ effect.deferral \in Nat
    BY <1>1, EffectFacts
  <2>2. effect.final \in Seq(Dated(sells[pos].date))
    BY <2>1 DEF Dated
  <2>3. Engine'.released = Engine.released \o effect.final
        /\ Engine'.deferred = Append(Engine.deferred, effect.deferral)
    BY <1>1 DEF Engine
  <2> QED
    BY <2>1, <2>2, <2>3 DEF Follows
<1>5. Sound(Engine', sells, config, pos)
  <2>1. DeferralInv'
    BY DeferralProcess
  <2>2. pc' = "replaying" /\ sells' = sells /\ config' = config /\ pos' - 1 = pos
    BY <1>2 DEF Process, world
  <2>3. /\ blocked' \in Seq(Lot) /\ deferred' \in Seq(Nat) /\ released' \in Seq(Reintegration)
        /\ Len(deferred') = pos
    BY <2>1, <2>2 DEF DeferralInv, DeferralsOK, ReplayOK
  <2>4. Balanced(sells, config, deferred', blocked', released', Origins)
    BY <2>1, <2>2 DEF DeferralInv, ReplayOK
  <2>5. /\ Engine'.blocked = blocked' /\ Engine'.deferred = deferred' /\ Engine'.released = released'
    BY DEF Engine
  <2> QED
    BY <2>3, <2>4, <2>5 DEF Sound
<1> QED
  BY <1>3, <1>4, <1>5

(* A disposal is replayed.                                                  *)
LEMMA ReturnsProcess ==
  ASSUME ReturnsInv, WholeShares, Process
  PROVE  ReturnsInv'
<1> USE DEF ReturnsInv
<1> DEFINE n == pos - 1
           next == Engine'
<1>1. DeferralInv'
  BY DeferralProcess
<1>2. /\ pc = "replaying" /\ pos' = pos + 1
      /\ UNCHANGED <<today, bought, sells, opening, config, returns, year, pc>>
      /\ carryOut' = IF carryOut = <<>> /\ sells[pos].date > YearEnd(year)
                       THEN <<blocked>> ELSE carryOut
  BY DEF Process, world
<1>3. /\ pos \in 1 .. Len(sells) /\ sells \in Seq(Sale) /\ Len(sells) \in Nat /\ DOMAIN sells = 1 .. Len(sells)
      /\ year \in Nat /\ YearEnd(year) \in Int
  <2>1. pos \in 1 .. Len(sells) /\ year \in Nat
    BY <1>2, ProcessEffect DEF DatesOK
  <2> QED
    BY <2>1, WashSaleAssumption DEF DeferralInv, StatementOK, YearEnd, WashSaleAssumption
<1>4. n \in Nat /\ n + 1 = pos /\ pos' - 1 = n + 1 /\ n \in 0 .. n
  BY <1>2, <1>3
<1>5. PICK tr, m : /\ Replay(tr, sells, bought, config, n)
                   /\ tr[n] = Engine
                   /\ UntilYear(sells, m, n, year)
                   /\ Carrying(carryOut, tr, m, n)
  BY <1>2 DEF RunOK
<1> HIDE DEF n, next
<1>6. PICK more : /\ Replay(more, sells, bought, config, n + 1)
                  /\ more[n + 1] = next
                  /\ \A k \in 0 .. n : more[k] = tr[k]
  <2>1. /\ next = After(tr[n], sells[n + 1], bought)
        /\ Follows(next, tr[n], sells[n + 1].date) /\ Sound(next, sells, config, n + 1)
    BY <1>4, <1>5, EngineAfter DEF next
  <2> QED
    BY <1>4, <1>5, <2>1, ReplayLonger
<1>7. \A i \in 1 .. Len(sells) : sells[i].date \in Int
  <2>1. \A i \in 1 .. Len(sells) : sells[i] \in Sale
    BY <1>3
  <2> QED
    BY <2>1, Days DEF Sale
<1>8. m \in 0 .. n /\ \A i \in 1 .. n : i <= m <=> sells[i].date <= YearEnd(year)
  BY <1>5 DEF UntilYear
<1>9. \A i \in 1 .. pos : sells[i].date <= sells[pos].date /\ i \in 1 .. Len(sells)
  BY <1>3 DEF DatesOK
<1>10. \E k : UntilYear(sells, k, n + 1, year) /\ Carrying(carryOut', more, k, n + 1)
  <2>1. CASE sells[pos].date <= YearEnd(year)
    <3>1. \A i \in 1 .. pos : sells[i].date <= YearEnd(year)
      BY <1>3, <1>7, <1>9, <2>1
    <3>2. m = n
      BY <1>4, <1>8, <3>1
    <3>3. carryOut = <<>>
      BY <1>4, <1>5, <3>2 DEF Carrying
    <3>4. carryOut' = <<>>
      BY <1>2, <1>3, <1>7, <2>1, <3>3
    <3>5. UntilYear(sells, n + 1, n + 1, year)
      BY <1>4, <3>1 DEF UntilYear
    <3> QED
      BY <3>4, <3>5 DEF Carrying
  <2>2. CASE ~(sells[pos].date <= YearEnd(year))
    <3>1. sells[pos].date > YearEnd(year)
      BY <1>3, <1>7, <2>2
    <3>2. UntilYear(sells, m, n + 1, year)
      <4>1. ASSUME NEW i \in 1 .. n + 1 PROVE i <= m <=> sells[i].date <= YearEnd(year)
        <5>1. CASE i = n + 1
          BY <1>4, <1>8, <2>2, <5>1
        <5>2. CASE i # n + 1
          <6>1. i \in 1 .. n
            BY <1>4, <5>2
          <6> QED
            BY <1>8, <6>1
        <5> QED
          BY <5>1, <5>2
      <4>2. m \in 0 .. n + 1
        BY <1>4, <1>8
      <4> QED
        BY <4>1, <4>2 DEF UntilYear
    <3>3. m < n + 1 /\ more[m] = tr[m]
      BY <1>4, <1>6, <1>8
    <3>4. carryOut' = <<more[m].blocked>>
      <4>1. CASE carryOut = <<>>
        <5>1. m = n
          BY <1>5, <4>1 DEF Carrying
        <5>2. blocked = tr[m].blocked
          BY <1>5, <5>1 DEF Engine
        <5> QED
          BY <1>2, <3>1, <3>3, <4>1, <5>2
      <4>2. CASE carryOut # <<>>
        BY <1>2, <1>5, <3>3, <4>2 DEF Carrying
      <4> QED
        BY <4>1, <4>2
    <3> QED
      BY <3>2, <3>3, <3>4 DEF Carrying
  <2> QED
    BY <2>1, <2>2
<1>11. PICK k : UntilYear(sells, k, n + 1, year) /\ Carrying(carryOut', more, k, n + 1)
  BY <1>10
<1>12. RunOK'
  <2>1. /\ Replay(more, sells', bought', config', pos' - 1)
        /\ more[pos' - 1] = Engine'
        /\ UntilYear(sells', k, pos' - 1, year')
        /\ Carrying(carryOut', more, k, pos' - 1)
    BY <1>2, <1>4, <1>6, <1>11 DEF next
  <2> QED
    BY <2>1 DEF RunOK
<1>13. DatesOK'
  BY <1>2 DEF DatesOK
<1>14. ReturnsOK'
  BY <1>2 DEF ReturnsOK
<1> QED
  BY <1>1, <1>12, <1>13, <1>14

(* The figures of the return printed are those of the replay until the end  *)
(* of its year (FinishReturn).                                              *)
LEMMA ReturnFigured ==
  ASSUME ReturnsInv, FinishReturn
  PROVE  \E return :
           /\ returns' = Append(returns, return) /\ return \in Return
           /\ return.year = year /\ return.last = today
           /\ Backed(return, sells, bought, config)
<1> USE DEF ReturnsInv
<1> DEFINE n == Len(sells)
           S == {i \in DOMAIN sells : YearOf(sells[i].date) = year}
           R == {i \in DOMAIN released : Declared(released[i])}
           cut == [i \in S |-> LossOf(sells[i]) - deferred[i]]
           income == [i \in R |-> released[i].amount]
           return == [year |-> year, last |-> today,
                      deducted |-> SumFunctionOnSet(cut, S),
                      reintegrated |-> SumFunctionOnSet(income, R),
                      carried |-> CarriedOut,
                      named |-> \E i \in DOMAIN sells : OpenWindow(i)]
<1>1. returns' = Append(returns, return)
  BY DEF FinishReturn, SumOver
<1>2. /\ pc = "replaying" /\ ReplayOK /\ pos - 1 = n /\ n \in Nat /\ DOMAIN sells = 1 .. n
      /\ sells \in Seq(Sale) /\ year \in Nat /\ today \in Day /\ YearEnd(year) \in Int
      /\ deferred \in Seq(Nat) /\ Len(deferred) = n /\ DOMAIN deferred = 1 .. n
      /\ released \in Seq(Reintegration)
  <2>1. pc = "replaying" /\ pos > Len(sells) /\ ReplayOK
    BY DEF FinishReturn, DeferralInv
  <2>2. sells \in Seq(Sale) /\ Len(sells) \in Nat /\ DOMAIN sells = 1 .. Len(sells)
    BY DEF DeferralInv, StatementOK
  <2>3. pos - 1 = Len(sells)
    BY <2>1, <2>2 DEF ReplayOK
  <2>4. deferred \in Seq(Nat) /\ Len(deferred) = pos - 1 /\ released \in Seq(Reintegration)
    BY <2>1 DEF DeferralInv, DeferralsOK, ReplayOK
  <2>5. year \in Nat /\ YearEnd(year) \in Int
    BY <2>1, WashSaleAssumption DEF DatesOK, YearEnd, WashSaleAssumption
  <2> QED
    BY <2>1, <2>2, <2>3, <2>4, <2>5 DEF DeferralInv, StatementOK
<1> HIDE DEF n
<1>3. PICK tr, m : /\ Replay(tr, sells, bought, config, n)
                   /\ tr[n] = Engine
                   /\ UntilYear(sells, m, n, year)
                   /\ Carrying(carryOut, tr, m, n)
  BY <1>2 DEF RunOK
<1>4. m \in 0 .. n /\ m \in Nat /\ \A i \in 1 .. n : i <= m <=> sells[i].date <= YearEnd(year)
  BY <1>2, <1>3 DEF UntilYear
<1>5. \A i \in 1 .. n : /\ sells[i].date \in Day /\ LossOf(sells[i]) \in Nat
                        /\ deferred[i] \in Nat
  <2>1. \A i \in 1 .. n : sells[i] \in Sale /\ deferred[i] \in Nat
    BY <1>2
  <2> QED
    BY <2>1 DEF Sale, LossOf, Most
<1>6. ASSUME NEW i \in 1 .. n, i > m PROVE YearOf(sells[i].date) # year
  <2>1. ~(sells[i].date <= YearEnd(year))
    BY <1>4, <1>6
  <2>2. ~(YearOf(sells[i].date) <= year) /\ YearOf(sells[i].date) \in Nat
    BY <1>2, <1>5, <2>1, YearsOfDays
  <2> QED
    BY <1>2, <2>2
<1>7. /\ \A i \in 1 .. m : deferred[i] = tr[m].deferred[i]
      /\ Weigh(IncomeOf(year), released) = Weigh(IncomeOf(year), tr[m].released)
  <2>1. \A k \in 1 .. n : k > m => YearOf(sells[k].date) # year
    BY <1>6
  <2>2. /\ \A i \in 1 .. m : tr[n].deferred[i] = tr[m].deferred[i]
        /\ Weigh(IncomeOf(year), tr[n].released) = Weigh(IncomeOf(year), tr[m].released)
    <3>1. n \in Nat /\ m \in 0 .. n /\ Replay(tr, sells, bought, config, n)
      BY <1>2, <1>3, <1>4
    <3> QED
      BY <2>1, <3>1, ReplayGrows
  <2> QED
    BY <1>3, <2>2 DEF Engine
<1>8. return.deducted = SumOver({i \in 1 .. m : YearOf(sells[i].date) = year},
                                LAMBDA i : LossOf(sells[i]) - tr[m].deferred[i])
      /\ return.deducted \in Int
  <2> DEFINE T == {i \in 1 .. m : YearOf(sells[i].date) = year}
             short == [i \in T |-> LossOf(sells[i]) - tr[m].deferred[i]]
  <2>1. S = T
    BY <1>2, <1>4, <1>6
  <2>2. cut = short
    <3>1. \A i \in T : cut[i] = LossOf(sells[i]) - tr[m].deferred[i]
      BY <1>7, <2>1
    <3> HIDE DEF S, cut
    <3>2. short = [i \in T |-> cut[i]]
      BY <3>1
    <3> QED
      BY <2>1, <3>2 DEF cut
  <2>3. S \subseteq 1 .. n /\ IsFiniteSet(1 .. n)
    BY <1>2, FS_Interval
  <2>4. IsFiniteSet(S)
    BY <2>3, FS_Subset
  <2>5. \A i \in S : cut[i] \in Int
    BY <1>5, <2>3
  <2>6. return.deducted = SumFunctionOnSet(cut, S)
    OBVIOUS
  <2> HIDE DEF S, T, cut, short, return
  <2>7. SumFunctionOnSet(cut, S) \in Int
    BY <2>4, <2>5, SumInteger DEF Summable
  <2>8. return.deducted = SumFunctionOnSet(short, T)
    BY <2>1, <2>2, <2>6
  <2> QED
    BY <2>6, <2>7, <2>8 DEF SumOver, short, T
<1>9. return.reintegrated = Weigh(IncomeOf(year), tr[m].released) /\ return.reintegrated \in Int
  <2> DEFINE all == [i \in DOMAIN released |-> released[i].amount]
             g == [i \in DOMAIN released |-> IncomeOf(year)[released[i]]]
  <2>1. \A i \in DOMAIN released : released[i] \in Reintegration /\ released[i].amount \in Int
    <3>1. \A i \in DOMAIN released : released[i] \in Reintegration
      BY <1>2
    <3> QED
      BY <3>1 DEF Reintegration
  <2>2. IsFiniteSet(DOMAIN released)
    BY <1>2, WeighType, IncomeWeights DEF Summable
  <2>3. R \in SUBSET DOMAIN released
    OBVIOUS
  <2>4. \A i \in R : g[i] = all[i]
    BY <2>1 DEF IncomeOf, Declared
  <2>5. \A i \in DOMAIN released \ R : g[i] = 0
    BY <2>1 DEF IncomeOf, Declared
  <2>6. \A i \in R : income[i] = all[i]
    OBVIOUS
  <2>7. \A i \in DOMAIN released : all[i] \in Int
    BY <2>1
  <2>8. Weigh(IncomeOf(year), released) = SumFunctionOnSet(g, DOMAIN released)
    BY DEF Weigh
  <2>9. return.reintegrated = SumFunctionOnSet(income, R)
    OBVIOUS
  <2> HIDE DEF all, g, R, income, return
  <2>10. Summable(all, DOMAIN released)
    BY <2>2, <2>7 DEF Summable
  <2>11. SumFunctionOnSet(g, DOMAIN released) = SumFunctionOnSet(all, R)
    BY <2>3, <2>4, <2>5, <2>10, SumWhere
  <2>12. SumFunctionOnSet(income, R) = SumFunctionOnSet(all, R) /\ SumFunctionOnSet(all, R) \in Int
    BY <2>3, <2>6, <2>10, SumOfPart
  <2> QED
    BY <1>7, <2>8, <2>9, <2>11, <2>12
<1>10. return.carried = tr[m].blocked /\ return.carried \in Seq(Lot)
  <2>1. CarriedOut = tr[m].blocked
    <3>1. CASE carryOut = <<>>
      <4>1. m = n
        BY <1>3, <3>1 DEF Carrying
      <4> QED
        BY <1>3, <3>1, <4>1 DEF CarriedOut, Engine
    <3>2. CASE carryOut # <<>>
      <4>1. carryOut = <<tr[m].blocked>>
        BY <1>3, <3>2 DEF Carrying
      <4> QED
        BY <3>2, <4>1 DEF CarriedOut
    <3> QED
      BY <3>1, <3>2
  <2>2. tr[m].blocked \in Seq(Lot)
    BY <1>3, <1>4 DEF Replay, Sound
  <2> QED
    BY <2>1, <2>2
<1>11. return.year = year /\ return.last = today /\ return.named \in BOOLEAN
  OBVIOUS
<1>12. return \in Return
  <2>1. return = [year |-> return.year, last |-> return.last, deducted |-> return.deducted,
                  reintegrated |-> return.reintegrated, carried |-> return.carried,
                  named |-> return.named]
    OBVIOUS
  <2> HIDE DEF return
  <2> QED
    BY <1>2, <1>8, <1>9, <1>10, <1>11, <2>1 DEF Return
<1> HIDE DEF return
<1>13. Figured(return, tr, m, sells)
  BY <1>3, <1>8, <1>9, <1>10, <1>11 DEF Figured, n
<1>14. Replay(tr, sells, bought, config, m)
  BY <1>2, <1>3, <1>4, ReplayShorter
<1>15. Backed(return, sells, bought, config)
  BY <1>13, <1>14 DEF Backed
<1> QED
  BY <1>1, <1>11, <1>12, <1>15

(* A return is printed.                                                     *)
LEMMA ReturnsFinish ==
  ASSUME ReturnsInv, FinishReturn, Filer = "original"
  PROVE  ReturnsInv'
<1> USE DEF ReturnsInv
<1>1. DeferralInv'
  BY DeferralFinish
<1>2. PICK return : /\ returns' = Append(returns, return) /\ return \in Return
                    /\ return.year = year /\ return.last = today
                    /\ Backed(return, sells, bought, config)
  BY ReturnFigured
<1>3. /\ UNCHANGED <<today, bought, sells, opening>> /\ config' = config
      /\ pc = "replaying" /\ pc' = "trading"
  BY DEF FinishReturn, CarriedIn, world
<1>4. today \in Int
  BY Days DEF DeferralInv, StatementOK
<1> DEFINE k == Len(returns)
<1>5. /\ returns \in Seq(Return) /\ k \in Nat /\ DOMAIN returns = 1 .. k
      /\ returns' \in Seq(Return) /\ DOMAIN returns' = 1 .. k + 1
      /\ returns'[k + 1] = return /\ \A j \in 1 .. k : returns'[j] = returns[j]
  BY <1>2 DEF DatesOK
<1>6. \A j \in 1 .. k : returns[j].last <= today /\ returns[j].last \in Int
  <2>1. \A j \in 1 .. k : returns[j] \in Return
    BY <1>5
  <2>2. \A j \in 1 .. k : returns[j].last \in Int
    BY <2>1, Days DEF Return
  <2>3. \A j \in 1 .. k : returns[j].last <= today
    BY <1>5 DEF DatesOK
  <2> QED
    BY <2>2, <2>3
<1> HIDE DEF k
<1>7. ASSUME NEW j \in 1 .. k + 1
      PROVE  /\ returns'[j].last <= today /\ YearEnd(returns'[j].year) <= returns'[j].last
             /\ Backed(returns'[j], sells, bought, config)
             /\ returns'[j].last \in Int
  <2>1. CASE j = k + 1
    <3>1. YearEnd(year) <= today
      BY <1>3 DEF DatesOK
    <3> QED
      BY <1>2, <1>4, <1>5, <2>1, <3>1
  <2>2. CASE j # k + 1
    <3>1. j \in 1 .. k /\ returns'[j] = returns[j]
      BY <1>5, <2>2
    <3> QED
      BY <1>5, <1>6, <3>1 DEF DatesOK, ReturnsOK
  <2> QED
    BY <2>1, <2>2
<1>8. ASSUME NEW i \in 1 .. k + 1, NEW j \in 1 .. k + 1, i <= j
      PROVE  returns'[i].last <= returns'[j].last
  <2>1. CASE j = k + 1
    BY <1>2, <1>5, <1>7, <2>1
  <2>2. CASE j # k + 1
    <3>1. i \in 1 .. k /\ j \in 1 .. k
      BY <1>5, <1>8, <2>2
    <3> QED
      BY <1>5, <1>8, <3>1 DEF DatesOK
  <2> QED
    BY <2>1, <2>2
<1>9. DatesOK'
  BY <1>3, <1>5, <1>7, <1>8 DEF DatesOK
<1>10. ReturnsOK'
  BY <1>3, <1>5, <1>7 DEF ReturnsOK
<1> QED
  BY <1>1, <1>3, <1>9, <1>10

(* Every step preserves the invariant.                                      *)
LEMMA ReturnsStep ==
  ASSUME ReturnsInv, WholeShares, [Next]_vars, Filer = "original"
  PROVE  ReturnsInv'
<1>1. CASE NextDay
  BY <1>1, ReturnsNextDay
<1>2. CASE \E q \in Quantity : Buy(q)
  BY <1>2, ReturnsBuy
<1>3. CASE \E q \in Quantity, r \in Result : Sell(q, r)
  BY <1>3, ReturnsSell
<1>4. CASE \E y \in 1 .. YearOf(MaxDay) : File(y)
  BY <1>4, ReturnsFile
<1>5. CASE Process
  BY <1>5, ReturnsProcess
<1>6. CASE FinishReturn
  BY <1>6, ReturnsFinish
<1>7. CASE Finished \/ UNCHANGED vars
  <2>1. UNCHANGED vars
    BY <1>7 DEF Finished
  <2>2. DeferralInv'
    BY DeferralStep DEF ReturnsInv
  <2>3. Engine' = Engine
    BY <2>1 DEF vars, engine, Engine
  <2>4. DatesOK' /\ ReturnsOK'
    BY <2>1 DEF vars, world, ReturnsInv, DatesOK, ReturnsOK
  <2>5. RunOK => RunOK'
    BY <2>1, <2>3 DEF vars, world, engine, RunOK
  <2> QED
    BY <2>1, <2>2, <2>4, <2>5 DEF vars, ReturnsInv
<1> QED
  BY <1>1, <1>2, <1>3, <1>4, <1>5, <1>6, <1>7 DEF Next

-----------------------------------------------------------------------------
(* The disposals until the end of a year are the same ones for each return  *)
(* of the year ...                                                          *)
LEMMA SameEnd ==
  ASSUME NEW ss, NEW n \in Nat, NEW y, NEW m, UntilYear(ss, m, n, y), NEW k, UntilYear(ss, k, n, y)
  PROVE  m = k
<1>1. /\ m \in 0 .. n /\ (\A i \in 1 .. n : i <= m <=> ss[i].date <= YearEnd(y))
      /\ k \in 0 .. n /\ (\A i \in 1 .. n : i <= k <=> ss[i].date <= YearEnd(y))
  BY DEF UntilYear
<1>2. ~(m < k)
  <2>1. SUFFICES ASSUME m < k PROVE FALSE
    OBVIOUS
  <2>2. k \in 1 .. n /\ k <= k /\ ~(k <= m)
    BY <1>1, <2>1
  <2> QED
    BY <1>1, <2>2
<1>3. ~(k < m)
  <2>1. SUFFICES ASSUME k < m PROVE FALSE
    OBVIOUS
  <2>2. m \in 1 .. n /\ m <= m /\ ~(m <= k)
    BY <1>1, <2>1
  <2> QED
    BY <1>1, <2>2
<1> QED
  BY <1>1, <1>2, <1>3

(* ... and all the labels together are all the losses.                      *)
LEMMA LossesWeigh ==
  ASSUME NEW lots \in Seq(Lot)
  PROVE  Losses(lots) = Weigh(LossFrom(Origins), lots)
<1> DEFINE f == [i \in DOMAIN lots |-> LossFrom(Origins)[lots[i]]]
           g == [i \in DOMAIN lots |-> lots[i].loss]
<1>1. \A i \in DOMAIN lots : lots[i] \in Lot
  OBVIOUS
<1>2. \A i \in DOMAIN lots : f[i] = g[i]
  BY <1>1 DEF LossFrom, Lot
<1>3. f = g
  BY <1>2
<1>4. Losses(lots) = SumFunctionOnSet(g, DOMAIN lots)
  BY DEF Losses, SumLots, SumOver
<1>5. Weigh(LossFrom(Origins), lots) = SumFunctionOnSet(f, DOMAIN lots)
  BY DEF Weigh
<1> HIDE DEF f, g
<1> QED
  BY <1>3, <1>4, <1>5

(* Two settled returns of one year.                                         *)
LEMMA ReturnsStand == ReturnsInv => SettledReturnStands
<1>1. SUFFICES ASSUME ReturnsInv, NEW i \in DOMAIN returns, NEW j \in DOMAIN returns,
                      i < j, returns[i].year = returns[j].year, Settled(returns[i])
               PROVE  Figures(returns[i]) = Figures(returns[j])
  BY DEF SettledReturnStands
<1> DEFINE first == returns[i]
           second == returns[j]
           y == returns[i].year
<1>2. sells \in Seq(Sale) /\ Len(sells) \in Nat /\ DOMAIN sells = 1 .. Len(sells)
      /\ \A k \in DOMAIN sells : sells[k].date + Window \in Int
  <2>1. sells \in Seq(Sale)
    BY <1>1 DEF ReturnsInv, DeferralInv, StatementOK
  <2>2. \A k \in DOMAIN sells : sells[k] \in Sale
    BY <2>1
  <2>3. \A k \in DOMAIN sells : sells[k].date + Window \in Int
    BY <2>2, Days, WashSaleAssumption DEF Sale, WashSaleAssumption
  <2> QED
    BY <2>1, <2>3
<1>3. /\ returns[i] \in Return /\ returns[j] \in Return /\ returns[i].last <= returns[j].last
      /\ returns[i].last \in Int /\ returns[j].last \in Int
  <2>1. returns \in Seq(Return)
    BY <1>1 DEF ReturnsInv, DatesOK
  <2>2. returns[i] \in Return /\ returns[j] \in Return
    BY <2>1
  <2>3. i <= j
    BY <1>1, <2>1
  <2>4. returns[i].last <= returns[j].last
    BY <1>1, <2>3 DEF ReturnsInv, DatesOK
  <2> QED
    BY <2>2, <2>4, Days DEF Return
<1>4. SettledIn(sells, first)
  BY <1>1 DEF Settled, SettledIn
<1>5. SettledIn(sells, second)
  <2>1. ASSUME NEW k \in DOMAIN sells, sells[k].date <= YearEnd(second.year)
        PROVE  sells[k].date + Window <= second.last
    <3>1. sells[k].date + Window <= first.last
      BY <1>1, <1>4, <2>1 DEF SettledIn
    <3> QED
      BY <1>2, <1>3, <3>1
  <2> QED
    BY <2>1 DEF SettledIn
<1>6. Backed(first, sells, bought, config) /\ Backed(second, sells, bought, config)
  BY <1>1 DEF ReturnsInv, ReturnsOK
<1> HIDE DEF first, second
<1>7. PICK tr, m : Figured(first, tr, m, sells) /\ Replay(tr, sells, bought, config, m)
  BY <1>4, <1>6 DEF Backed
<1>8. PICK other, p : Figured(second, other, p, sells) /\ Replay(other, sells, bought, config, p)
  BY <1>5, <1>6 DEF Backed
<1>9. m = p /\ m \in Nat
  <2>1. first.year = second.year
    BY <1>1 DEF first, second
  <2>2. UntilYear(sells, m, Len(sells), first.year) /\ UntilYear(sells, p, Len(sells), first.year)
    BY <1>7, <1>8, <2>1 DEF Figured
  <2>3. m \in Nat
    BY <1>2, <2>2 DEF UntilYear
  <2> QED
    BY <1>2, <2>2, <2>3, SameEnd
<1>10. tr[m] = other[m]
  BY <1>7, <1>8, <1>9, ReplaySame
<1>11. first.year = second.year
  BY <1>1 DEF first, second
<1>12. first.deducted = second.deducted
  <2> DEFINE Cut(e, end, ofYear) == SumOver({k \in 1 .. end : YearOf(sells[k].date) = ofYear},
                                            LAMBDA k : LossOf(sells[k]) - e.deferred[k])
  <2>1. first.deducted = Cut(tr[m], m, first.year)
    BY <1>7 DEF Figured
  <2>2. second.deducted = Cut(other[p], p, second.year)
    BY <1>8 DEF Figured
  <2> HIDE DEF Cut
  <2> QED
    BY <1>9, <1>10, <1>11, <2>1, <2>2
<1>13. first.reintegrated = second.reintegrated /\ first.carried = second.carried
  BY <1>7, <1>8, <1>9, <1>10, <1>11 DEF Figured
<1> QED
  BY <1>12, <1>13 DEF Figures, first, second

(* The losses of two years, of which each is deducted or deferred.          *)
LEMMA LossesOfYears ==
  ASSUME NEW ss \in Seq(Sale), NEW n \in Nat, n <= Len(ss), NEW losses \in Seq(Nat), Len(losses) = n,
         \A i \in 1 .. n : YearOf(ss[i].date) \in {1, 2}
  PROVE  SumOver(1 .. n, LAMBDA i : LossOf(ss[i]))
           = SumOver({i \in 1 .. n : YearOf(ss[i].date) = 1}, LAMBDA i : LossOf(ss[i]) - losses[i])
               + SumOver({i \in 1 .. n : YearOf(ss[i].date) = 2}, LAMBDA i : LossOf(ss[i]) - losses[i])
               + SumFunctionOnSet(DeferredOf(ss, losses, Origins), DOMAIN losses)
<1> DEFINE S == 1 .. n
           A == {i \in S : YearOf(ss[i].date) = 1}
           B == {i \in S : YearOf(ss[i].date) = 2}
           all == [i \in S |-> LossOf(ss[i])]
           cut == [i \in S |-> LossOf(ss[i]) - losses[i]]
           cutA == [i \in A |-> LossOf(ss[i]) - losses[i]]
           cutB == [i \in B |-> LossOf(ss[i]) - losses[i]]
           off == DeferredOf(ss, losses, Origins)
<1>1. \A i \in S : LossOf(ss[i]) \in Nat /\ losses[i] \in Nat /\ ss[i].date \in Origins
  <2>1. \A i \in S : ss[i] \in Sale /\ losses[i] \in Nat
    OBVIOUS
  <2>2. \A s \in Sale : LossOf(s) \in Nat /\ s.date \in Origins
    BY DEF Sale, LossOf, Most, Origins
  <2> HIDE DEF S
  <2> QED
    BY <2>1, <2>2
<1>2. IsFiniteSet(S) /\ DOMAIN losses = S
  BY FS_Interval
<1>3. \A i \in S : off[i] = losses[i] /\ all[i] = cut[i] + off[i] /\ cut[i] \in Int /\ off[i] \in Int
  <2>1. \A i \in S : off[i] = losses[i]
    BY <1>1, <1>2 DEF DeferredOf, Where
  <2>2. \A i \in S : all[i] = LossOf(ss[i]) /\ cut[i] = LossOf(ss[i]) - losses[i]
    OBVIOUS
  <2> HIDE DEF off, all, cut
  <2> QED
    BY <1>1, <2>1, <2>2
<1>4. A \in SUBSET S /\ B \in SUBSET S /\ A \cap B = {} /\ A \cup B = S
  OBVIOUS
<1>5. (\A i \in A : cutA[i] = cut[i]) /\ (\A i \in B : cutB[i] = cut[i])
  OBVIOUS
<1>6. /\ SumOver(1 .. n, LAMBDA i : LossOf(ss[i])) = SumFunctionOnSet(all, S)
      /\ SumOver({i \in 1 .. n : YearOf(ss[i].date) = 1}, LAMBDA i : LossOf(ss[i]) - losses[i])
           = SumFunctionOnSet(cutA, A)
      /\ SumOver({i \in 1 .. n : YearOf(ss[i].date) = 2}, LAMBDA i : LossOf(ss[i]) - losses[i])
           = SumFunctionOnSet(cutB, B)
  BY DEF SumOver
<1> HIDE DEF S, A, B, all, cut, cutA, cutB, off
<1>7. Summable(cut, S) /\ Summable(off, S)
  BY <1>2, <1>3 DEF Summable
<1>8. SumFunctionOnSet(all, S) = SumFunctionOnSet(cut, S) + SumFunctionOnSet(off, S)
  BY <1>3, <1>7, SumPlus
<1>9. SumFunctionOnSet(cut, A \cup B) = SumFunctionOnSet(cut, A) + SumFunctionOnSet(cut, B)
  BY <1>4, <1>7, SumUnion
<1>10. SumFunctionOnSet(cutA, A) = SumFunctionOnSet(cut, A) /\ SumFunctionOnSet(cutB, B) = SumFunctionOnSet(cut, B)
  BY <1>4, <1>5, <1>7, SumOfPart
<1> QED
  BY <1>2, <1>4, <1>6, <1>8, <1>9, <1>10 DEF off

(* The returns of two consecutive years.                                    *)
LEMMA ReturnsDeductOnce == ReturnsInv => DeductedOnce
<1>1. SUFFICES ASSUME ReturnsInv, Len(returns) = 2, returns[1].year = 1, returns[2].year = 2,
                      Settled(returns[1]), Settled(returns[2])
               PROVE  Losses(opening) + LossesUntil(2)
                        = returns[1].deducted + returns[1].reintegrated
                            + returns[2].deducted + returns[2].reintegrated + Losses(returns[2].carried)
  BY DEF DeductedOnce
<1> DEFINE L == Len(sells)
<1>2. sells \in Seq(Sale) /\ L \in Nat /\ DOMAIN sells = 1 .. L /\ config \in Seq(Lot) /\ config = opening
  BY <1>1 DEF ReturnsInv, DeferralInv, StatementOK, DeferralsOK, DatesOK
<1>3. 1 \in DOMAIN returns /\ 2 \in DOMAIN returns
  BY <1>1 DEF ReturnsInv, DatesOK
<1>4. /\ Backed(returns[1], sells, bought, config) /\ SettledIn(sells, returns[1])
      /\ Backed(returns[2], sells, bought, config) /\ SettledIn(sells, returns[2])
  BY <1>1, <1>3 DEF ReturnsInv, ReturnsOK, Settled, SettledIn
<1>5. PICK one, m : Figured(returns[1], one, m, sells) /\ Replay(one, sells, bought, config, m)
  BY <1>4 DEF Backed
<1>6. PICK tr, n : Figured(returns[2], tr, n, sells) /\ Replay(tr, sells, bought, config, n)
  BY <1>4 DEF Backed
<1>7. \A i \in 1 .. L : sells[i].date \in Day /\ YearOf(sells[i].date) \in Nat \ {0}
                        /\ (i <= m <=> YearOf(sells[i].date) <= 1)
                        /\ (i <= n <=> YearOf(sells[i].date) <= 2)
  <2>1. \A i \in 1 .. L : sells[i] \in Sale
    BY <1>2
  <2>2. \A i \in 1 .. L : sells[i].date \in Day
    BY <2>1 DEF Sale
  <2>3. /\ \A i \in 1 .. L : i <= m <=> sells[i].date <= YearEnd(1)
        /\ \A i \in 1 .. L : i <= n <=> sells[i].date <= YearEnd(2)
    BY <1>1, <1>5, <1>6 DEF Figured, UntilYear
  <2> HIDE DEF L
  <2> QED
    BY <2>2, <2>3, YearsOfDays
<1>8. m \in 0 .. L /\ n \in 0 .. L /\ m \in Nat /\ n \in Nat
  <2>1. UntilYear(sells, m, L, returns[1].year) /\ UntilYear(sells, n, L, returns[2].year)
    BY <1>5, <1>6 DEF Figured
  <2>2. m \in 0 .. L /\ n \in 0 .. L
    BY <2>1 DEF UntilYear
  <2> HIDE DEF L
  <2> QED
    BY <1>2, <2>2
<1> HIDE DEF L
<1>9. m <= n
  <2>1. SUFFICES ASSUME n < m PROVE FALSE
    BY <1>8
  <2>2. m \in 1 .. L /\ m <= m /\ ~(m <= n)
    BY <1>8, <2>1
  <2>3. YearOf(sells[m].date) <= 1 /\ ~(YearOf(sells[m].date) <= 2) /\ YearOf(sells[m].date) \in Nat
    BY <1>7, <2>2
  <2> QED
    BY <2>3
<1>10. one[m] = tr[m]
  BY <1>5, <1>6, <1>8, <1>9, ReplaySame
<1>11. \A i \in 1 .. n : /\ i \in 1 .. L /\ YearOf(sells[i].date) \in {1, 2}
                         /\ (i <= m <=> YearOf(sells[i].date) = 1)
  <2>1. \A i \in 1 .. n : i \in 1 .. L /\ i <= n
    BY <1>2, <1>8
  <2> QED
    BY <1>7, <2>1
<1>12. Sound(tr[n], sells, config, n)
  BY <1>6, <1>8 DEF Replay
<1> DEFINE e == tr[n]
           off == SumFunctionOnSet(DeferredOf(sells, e.deferred, Origins), DOMAIN e.deferred)
           Cut(y, losses) == SumOver({i \in 1 .. n : YearOf(sells[i].date) = y},
                                     LAMBDA i : LossOf(sells[i]) - losses[i])
<1>13. /\ e.blocked \in Seq(Lot) /\ e.deferred \in Seq(Nat) /\ Len(e.deferred) = n
       /\ e.released \in Seq(Reintegration)
       /\ Weigh(LossFrom(Origins), config) + off
            = Weigh(LossFrom(Origins), e.blocked) + Weigh(AmountOf(Origins), e.released)
  BY <1>12 DEF Sound, Balanced
<1>14. /\ \A i \in 1 .. m : tr[n].deferred[i] = tr[m].deferred[i]
       /\ Weigh(IncomeOf(1), tr[n].released) = Weigh(IncomeOf(1), tr[m].released)
  <2>1. \A k \in 1 .. n : k > m => YearOf(sells[k].date) # 1
    BY <1>8, <1>11
  <2>2. m \in 0 .. n
    BY <1>8, <1>9
  <2> QED
    BY <1>6, <1>8, <2>1, <2>2, ReplayGrows
<1>15. returns[1].deducted = Cut(1, e.deferred)
  <2> DEFINE S == {i \in 1 .. m : YearOf(sells[i].date) = 1}
             T == {i \in 1 .. n : YearOf(sells[i].date) = 1}
             f == [i \in S |-> LossOf(sells[i]) - one[m].deferred[i]]
             g == [i \in T |-> LossOf(sells[i]) - e.deferred[i]]
  <2>1. S = T
    BY <1>8, <1>9, <1>11
  <2>2. \A i \in S : one[m].deferred[i] = e.deferred[i]
    BY <1>10, <1>14
  <2>3. f = g
    BY <2>1, <2>2
  <2>4. returns[1].deducted = SumFunctionOnSet(f, S)
    BY <1>1, <1>5 DEF Figured, SumOver
  <2>5. Cut(1, e.deferred) = SumFunctionOnSet(g, T)
    BY DEF SumOver
  <2> HIDE DEF S, T, f, g, Cut
  <2> QED
    BY <2>1, <2>3, <2>4, <2>5
<1>16. returns[2].deducted = Cut(2, e.deferred)
  BY <1>1, <1>6 DEF Figured
<1>17. returns[1].reintegrated + returns[2].reintegrated = Weigh(AmountOf(Origins), e.released)
  <2>1. returns[1].reintegrated = Weigh(IncomeOf(1), one[m].released)
        /\ returns[2].reintegrated = Weigh(IncomeOf(2), e.released)
    BY <1>1, <1>5, <1>6 DEF Figured
  <2>2. 1 # 2 /\ \A k \in 1 .. n : YearOf(sells[k].date) \in {1, 2}
    BY <1>11
  <2>3. Weigh(AmountOf(Origins), tr[n].released)
          = Weigh(IncomeOf(1), tr[n].released) + Weigh(IncomeOf(2), tr[n].released)
    BY <1>6, <1>8, <2>2, ReplayIncome
  <2> QED
    BY <1>10, <1>14, <2>1, <2>3
<1>18. Losses(opening) = Weigh(LossFrom(Origins), config)
       /\ Losses(returns[2].carried) = Weigh(LossFrom(Origins), e.blocked)
  <2>1. returns[2].carried = e.blocked
    BY <1>6 DEF Figured
  <2> HIDE DEF e
  <2> QED
    BY <1>2, <1>13, <2>1, LossesWeigh
<1>19. LossesUntil(2) = SumOver(1 .. n, LAMBDA i : LossOf(sells[i]))
  <2>1. {i \in DOMAIN sells : YearOf(sells[i].date) <= 2} = 1 .. n
    BY <1>2, <1>7, <1>8
  <2> QED
    BY <2>1 DEF LossesUntil, SumOver
<1>20. SumOver(1 .. n, LAMBDA i : LossOf(sells[i])) = Cut(1, e.deferred) + Cut(2, e.deferred) + off
  <2> DEFINE losses == e.deferred
  <2>1. losses \in Seq(Nat) /\ Len(losses) = n /\ n <= Len(sells)
    BY <1>8, <1>13 DEF L
  <2> HIDE DEF losses
  <2>2. SumOver(1 .. n, LAMBDA i : LossOf(sells[i]))
          = Cut(1, losses) + Cut(2, losses)
              + SumFunctionOnSet(DeferredOf(sells, losses, Origins), DOMAIN losses)
    BY <1>2, <1>8, <1>11, <2>1, LossesOfYears
  <2> QED
    BY <2>2 DEF losses
<1>21. /\ Weigh(LossFrom(Origins), config) \in Int /\ Weigh(LossFrom(Origins), e.blocked) \in Int
       /\ Weigh(AmountOf(Origins), e.released) \in Int
       /\ Cut(1, e.deferred) \in Int /\ Cut(2, e.deferred) \in Int
       /\ returns[1].reintegrated \in Int /\ returns[2].reintegrated \in Int
       /\ off \in Int
  <2>1. returns[1] \in Return /\ returns[2] \in Return
    <3>1. returns \in Seq(Return)
      BY <1>1 DEF ReturnsInv, DatesOK
    <3> QED
      BY <1>3, <3>1
  <2>2. /\ returns[1].deducted \in Int /\ returns[1].reintegrated \in Int
        /\ returns[2].deducted \in Int /\ returns[2].reintegrated \in Int
    BY <2>1 DEF Return
  <2>3. /\ Weigh(LossFrom(Origins), config) \in Int /\ Weigh(LossFrom(Origins), e.blocked) \in Int
    BY <1>2, <1>13, LotWeights, WeighType
  <2>4. Weigh(AmountOf(Origins), e.released) \in Int
    BY <1>13, ReintegrationWeights, WeighType
  <2>5. off \in Int
    <3> DEFINE f == DeferredOf(sells, e.deferred, Origins)
               S == DOMAIN e.deferred
    <3>1. IsFiniteSet(S) /\ \A i \in S : e.deferred[i] \in Nat
      <4>1. S = 1 .. n /\ \A i \in 1 .. n : e.deferred[i] \in Nat
        BY <1>8, <1>13
      <4>2. IsFiniteSet(1 .. n)
        BY <1>8, FS_Interval
      <4> QED
        BY <4>1, <4>2
    <3>2. \A i \in S : f[i] \in Int
      BY <3>1 DEF DeferredOf, Where
    <3> HIDE DEF f, S
    <3>3. SumFunctionOnSet(f, S) \in Int
      BY <3>1, <3>2, SumInteger DEF Summable
    <3> QED
      BY <3>3 DEF f, S
  <2> QED
    BY <1>15, <1>16, <2>2, <2>3, <2>4, <2>5
<1> HIDE DEF e, off, Cut
<1>22. LossesUntil(2) = returns[1].deducted + returns[2].deducted + off
       /\ returns[1].deducted \in Int /\ returns[2].deducted \in Int
  BY <1>15, <1>16, <1>19, <1>20, <1>21
<1>23. Losses(opening) + off = Losses(returns[2].carried)
                                 + (returns[1].reintegrated + returns[2].reintegrated)
       /\ Losses(opening) \in Int /\ Losses(returns[2].carried) \in Int
  BY <1>13, <1>17, <1>18, <1>21
<1> QED
  BY <1>21, <1>22, <1>23

(* As long as the shares and amounts of the replays divide evenly and the   *)
(* filer goes on carrying in the deferrals of the returns before the        *)
(* statement, a return whose windows are closed does not change when the    *)
(* statement is extended and the year is filed again                        *)
(* (apply_wash_sale_rule(), the snapshot of the year).                      *)
THEOREM SettledReturnsStand ==
  ASSUME Filer = "original"
  PROVE  Spec /\ []WholeShares => []SettledReturnStands
<1>1. Init => ReturnsInv
  BY ReturnsInit
<1>2. ReturnsInv /\ WholeShares /\ [Next]_vars => ReturnsInv'
  BY ReturnsStep
<1>3. ReturnsInv => SettledReturnStands
  BY ReturnsStand
<1> QED
  BY <1>1, <1>2, <1>3, PTL DEF Spec

(* Under the same conditions the settled returns of the first two years     *)
(* deduct every loss once: what the sales of these years lost and what was  *)
(* carried in has been deducted, reintegrated or is carried out.            *)
THEOREM LossesAreDeductedOnce ==
  ASSUME Filer = "original"
  PROVE  Spec /\ []WholeShares => []DeductedOnce
<1>1. Init => ReturnsInv
  BY ReturnsInit
<1>2. ReturnsInv /\ WholeShares /\ [Next]_vars => ReturnsInv'
  BY ReturnsStep
<1>3. ReturnsInv => DeductedOnce
  BY ReturnsDeductOnce
<1> QED
  BY <1>1, <1>2, <1>3, PTL DEF Spec

=============================================================================
