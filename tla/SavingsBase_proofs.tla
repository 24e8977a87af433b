------------------------- MODULE SavingsBase_proofs -------------------------
(***************************************************************************)
(* Proofs about the compensation of losses, for every number of years,     *)
(* every window, all results and any change of regime between the years.   *)
(***************************************************************************)
EXTENDS SavingsBase, TLAPS

(* A return is open only before the last year.                              *)
Filing == pc \notin {"config", "rejected"} => year < MaxYear

(* Nothing is known of the years to come, nor of a year not yet opened.     *)
Untouched(g, y) ==
  arisen[g][y] = 0 /\ relieved[g][y] = 0 /\ expired[g][y] = 0 /\ ledger[g][y] = 0

Fresh ==
  \A g \in Group, y \in Year :
    (year < y \/ (y = year /\ pc = "config")) => Untouched(g, y)

(* Between the years no negative result waits.                              *)
NonePending == pc = "config" => \A g \in Group : negative[g] = 0

(* The positive result of a group is what is taxed and what reduced it.     *)
Measured(g) == Most(0, net[g]) - IF mode = "Navarra" THEN own[g] ELSE 0

Spent ==
  \A g \in Group : taxable[g] = Most(0, net[g]) - own[g] - crossed[g] - prior[g]

(* Navarra crosses last.                                                    *)
NotCrossed ==
  pc = "cross" \/ (pc = "own" /\ mode = "Navarra") =>
    \A g \in Group : crossed[g] = 0 /\ prior[g] = 0

(* What may still cross and what has crossed are within the limit, which    *)
(* Navarra measures after a group has used its own balances.                *)
Limit(g) == IF mode = "None" THEN 0 ELSE Measured(g)

Budget ==
  ~(mode = "Navarra" /\ pc = "own") =>
    \A g \in Group : 4 * (allowance[g] + crossed[g] + prior[g]) <= Limit(g)

IInv ==
  /\ TypeOK /\ Filing /\ Fresh /\ NonePending /\ LossConserved
  /\ Spent /\ NotCrossed /\ Budget

-----------------------------------------------------------------------------
(* The two groups.                                                          *)
LEMMA OtherGroup ==
  ASSUME NEW g \in Group
  PROVE  Other(g) \in Group /\ Other(Other(g)) = g
  BY DEF Group, Other

(* Of two amounts the lesser and the greater.                               *)
LEMMA LeastMost ==
  ASSUME NEW a \in Int, NEW b \in Int
  PROVE  /\ Least(a, b) \in Int /\ Least(a, b) <= a /\ Least(a, b) <= b
         /\ (a \in Nat /\ b \in Nat) => Least(a, b) \in Nat
         /\ Most(a, b) \in Int /\ a <= Most(a, b) /\ b <= Most(a, b)
         /\ a \in Nat => Most(a, b) \in Nat
  BY DEF Least, Most

(* The amounts of a year. *)
LEMMA Numbers ==
  ASSUME TypeOK
  PROVE  \A g \in Group, y \in Year :
           /\ arisen[g][y] \in Nat /\ expired[g][y] \in Nat
           /\ ledger[g][y] \in Nat /\ relieved[g][y] \in Nat /\ negative[g] \in Nat
  BY DEF TypeOK, Amounts

(* A positive result. *)
LEMMA Positive ==
  ASSUME TypeOK, NEW g \in Group
  PROVE  Most(0, net[g]) \in Nat
  BY DEF TypeOK, Most

(* A quarter.                                                               *)
LEMMA Quarter ==
  ASSUME NEW a \in Nat
  PROVE  a \div 4 \in Nat /\ 4 * (a \div 4) <= a
  BY Z3

-----------------------------------------------------------------------------
(* Before the first year nothing is pending and nothing was used.          *)
LEMMA InitHolds == Init => IInv
<1> SUFFICES ASSUME Init PROVE IInv
  OBVIOUS
<1> USE SavingsBaseAssumption DEF Init, Zero, NoLosses
<1>1. TypeOK
  BY DEF TypeOK, Amounts, Year
<1>2. Filing /\ Fresh /\ NonePending
  BY DEF Filing, Fresh, NonePending, Untouched
<1>3. LossConserved
  BY DEF LossConserved
<1>4. Spent
  BY DEF Spent, Most
<1>5. NotCrossed /\ Budget
  BY DEF NotCrossed, Budget, Limit, Measured, Most
<1> QED
  BY <1>1, <1>2, <1>3, <1>4, <1>5 DEF IInv

(* Opening a year keeps the invariant: the results of the year are split   *)
(* into gains and losses.                                                  *)
LEMMA OpenYearKeeps ==
  ASSUME IInv, NEW results \in [Group -> Results], NEW regime \in Mode,
         OpenYear(results, regime)
  PROVE  IInv'
<1> USE SavingsBaseAssumption DEF IInv
<1>0. results \in [Group -> Int] /\ regime \in {"None", "Aeat", "Navarra"}
  OBVIOUS
<1>1. year \in Year /\ year < MaxYear /\ pc = "config"
  BY DEF OpenYear, TypeOK
<1>2. \A g \in Group :
        /\ Most(0, results[g]) \in Nat /\ Most(0, -results[g]) \in Nat
        /\ Most(0, results[g]) \div 4 \in Nat
        /\ 4 * (Most(0, results[g]) \div 4) <= Most(0, results[g])
  <2> TAKE g \in Group
  <2>1. results[g] \in Int /\ -results[g] \in Int
    BY <1>0
  <2>2. Most(0, results[g]) \in Nat /\ Most(0, -results[g]) \in Nat
    BY <2>1 DEF Most
  <2> QED
    BY <2>2, Quarter
<1>3. \A g \in Group : Share(Most(0, results[g])) \in Nat
  BY <1>2 DEF Share
<1>4. TypeOK'
  <2>1. arisen' \in Amounts
    BY <1>1, <1>2 DEF OpenYear, TypeOK, Amounts
  <2>2. /\ taxable' \in [Group -> Nat] /\ negative' \in [Group -> Nat]
        /\ allowance' \in [Group -> Nat]
    BY <1>2, <1>3 DEF OpenYear
  <2>3. year' \in Year /\ ledger' \in Amounts /\ opening' \in Amounts
        /\ relieved' \in Amounts /\ expired' \in Amounts
    BY DEF OpenYear, TypeOK
  <2>4. /\ own' \in [Group -> Nat] /\ crossed' \in [Group -> Nat]
        /\ prior' \in [Group -> Nat] /\ net' \in [Group -> Int]
        /\ mode' \in Mode /\ applied' \in Nat
        /\ pc' \in {"config", "own", "cross", "prior", "carry", "rejected"}
    BY <1>0 DEF OpenYear, Zero
  <2> QED
    BY <2>1, <2>2, <2>3, <2>4 DEF TypeOK
<1>5. Filing' /\ NonePending'
  BY <1>1 DEF OpenYear, Filing, NonePending
<1>9. Fresh'
  <2> SUFFICES ASSUME NEW g \in Group, NEW y \in Year, year < y
               PROVE  Untouched(g, y)'
    BY DEF Fresh, OpenYear
  <2>1. Untouched(g, y)
    BY DEF Fresh
  <2>2. y # year
    BY <1>1 DEF Year
  <2>3. arisen' = [h \in Group |-> [arisen[h] EXCEPT ![year] = Most(0, -results[h])]]
    BY DEF OpenYear
  <2>4. arisen'[g][y] = arisen[g][y]
    BY <2>2, <2>3 DEF TypeOK, Amounts
  <2> QED
    BY <2>1, <2>4 DEF Untouched, OpenYear
<1>6. LossConserved'
  BY <1>1, <1>2 DEF OpenYear, LossConserved, Fresh, Untouched, NonePending, TypeOK, Amounts
<1>7. Spent'
  BY <1>2 DEF OpenYear, Spent, Zero
<1>8. NotCrossed' /\ Budget'
  BY <1>2 DEF OpenYear, NotCrossed, Budget, Limit, Measured, Zero, Share
<1> QED
  BY <1>4, <1>5, <1>6, <1>7, <1>8, <1>9

(* A balance in turn is of an earlier year.                                 *)
LEMMA InTurn ==
  ASSUME TypeOK, ~Through
  PROVE  Origin \in Year /\ Origin < year
<1>1. year \in Int /\ 1 <= year /\ year <= MaxYear /\ applied \in Nat
  BY SavingsBaseAssumption DEF TypeOK, Year
<1>2. FirstOrigin \in Int /\ 1 <= FirstOrigin
  BY <1>1, SavingsBaseAssumption, LeastMost DEF FirstOrigin
<1> QED
  BY <1>1, <1>2, SavingsBaseAssumption DEF Through, Origin, Year

(* Compensating the oldest loss of the own group keeps the invariant.      *)
LEMMA AbsorbOwnKeeps ==
  ASSUME IInv, AbsorbOwn
  PROVE  IInv'
<1> USE SavingsBaseAssumption DEF IInv
<1> DEFINE u == [g \in Group |-> Used(g, taxable[g])]
<1>1. pc = "own" /\ Origin \in Year /\ Origin < year
  BY InTurn DEF AbsorbOwn
<1>2. \A g \in Group :
        ledger[g][Origin] \in Nat /\ taxable[g] \in Nat
  BY <1>1 DEF TypeOK, Amounts
<1>3. \A g \in Group :
        u[g] \in Nat /\ u[g] <= ledger[g][Origin] /\ u[g] <= taxable[g]
  BY <1>2 DEF Used, Least
<1>4. /\ ledger' = [g \in Group |-> [ledger[g] EXCEPT ![Origin] = @ - u[g]]]
      /\ relieved' = [g \in Group |-> [relieved[g] EXCEPT ![Origin] = @ + u[g]]]
      /\ taxable' = [g \in Group |-> taxable[g] - u[g]]
      /\ own' = [g \in Group |-> own[g] + u[g]]
  BY DEF AbsorbOwn
<1> HIDE DEF u
<1>5. TypeOK'
  <2>1. ledger' \in Amounts /\ relieved' \in Amounts
    BY <1>1, <1>2, <1>3, <1>4 DEF TypeOK, Amounts
  <2>2. taxable' \in [Group -> Nat] /\ own' \in [Group -> Nat]
    BY <1>2, <1>3, <1>4 DEF TypeOK
  <2> QED
    BY <2>1, <2>2 DEF TypeOK, AbsorbOwn
<1>6. Filing' /\ NonePending'
  BY DEF AbsorbOwn, Filing, NonePending
<1>7. Fresh'
  <2> SUFFICES ASSUME NEW g \in Group, NEW y \in Year, year < y
               PROVE  Untouched(g, y)'
    BY <1>1 DEF Fresh, AbsorbOwn
  <2>1. Untouched(g, y) /\ y # Origin
    BY <1>1 DEF Fresh, TypeOK, Year
  <2>2. ledger'[g][y] = ledger[g][y] /\ relieved'[g][y] = relieved[g][y]
    BY <1>4, <2>1 DEF TypeOK, Amounts
  <2> QED
    BY <2>1, <2>2 DEF Untouched, AbsorbOwn
<1>8. LossConserved'
  <2> SUFFICES ASSUME NEW g \in Group, NEW y \in Year
               PROVE  arisen[g][y] = relieved'[g][y] + expired[g][y] + ledger'[g][y]
                                     + IF y = year THEN negative[g] ELSE 0
    BY DEF LossConserved, AbsorbOwn
  <2>1. arisen[g][y] = relieved[g][y] + expired[g][y] + ledger[g][y]
                       + IF y = year THEN negative[g] ELSE 0
    BY DEF LossConserved
  <2>2. CASE y = Origin
    <3>1. /\ ledger'[g][y] = ledger[g][y] - u[g]
          /\ relieved'[g][y] = relieved[g][y] + u[g]
      BY <2>2, <1>1, <1>4 DEF TypeOK, Amounts
    <3> QED
      BY <3>1, <2>1, <1>3, Numbers
  <2>3. CASE y # Origin
    <3>1. ledger'[g][y] = ledger[g][y] /\ relieved'[g][y] = relieved[g][y]
      BY <2>3, <1>4 DEF TypeOK, Amounts
    <3> QED
      BY <3>1, <2>1
  <2> QED
    BY <2>2, <2>3
<1>9. Spent'
  <2> SUFFICES ASSUME NEW g \in Group
               PROVE  taxable[g] - u[g]
                        = Most(0, net[g]) - (own[g] + u[g]) - crossed[g] - prior[g]
    BY <1>4 DEF Spent, AbsorbOwn
  <2>1. taxable[g] = Most(0, net[g]) - own[g] - crossed[g] - prior[g]
    BY DEF Spent
  <2> QED
    BY <2>1, <1>2, <1>3, Positive DEF TypeOK
<1>10. NotCrossed' /\ Budget'
  BY <1>1 DEF NotCrossed, Budget, AbsorbOwn, Limit, Measured
<1> QED
  BY <1>5, <1>6, <1>7, <1>8, <1>9, <1>10

(* The end of the compensation within the group keeps the invariant.       *)
LEMMA OwnAbsorbedKeeps ==
  ASSUME IInv, OwnAbsorbed
  PROVE  IInv'
<1> USE SavingsBaseAssumption DEF IInv
<1>1. \A g \in Group : taxable[g] \div 4 \in Nat /\ 4 * (taxable[g] \div 4) <= taxable[g]
  BY Quarter DEF TypeOK
<1>2. allowance' \in [Group -> Nat]
  BY <1>1 DEF OwnAbsorbed, AllowanceAfter, TypeOK
<1>3. TypeOK'
  BY <1>2 DEF TypeOK, OwnAbsorbed
<1>4. Filing' /\ NonePending' /\ Fresh'
  BY DEF OwnAbsorbed, Filing, NonePending, Fresh, Untouched
<1>5. LossConserved' /\ Spent'
  BY DEF OwnAbsorbed, LossConserved, Spent
<1>6. NotCrossed'
  BY DEF NotCrossed, OwnAbsorbed
<1>7. Budget'
  <2> SUFFICES ASSUME NEW g \in Group
               PROVE  4 * (allowance'[g] + crossed[g] + prior[g]) <= Limit(g)
    BY DEF Budget, OwnAbsorbed, Limit, Measured
  <2>1. CASE mode = "Navarra"
    <3>1. crossed[g] = 0 /\ prior[g] = 0 /\ allowance'[g] = taxable[g] \div 4
      BY <2>1 DEF NotCrossed, OwnAbsorbed, AllowanceAfter
    <3>2. Limit(g) = taxable[g]
      BY <2>1, <3>1, Positive DEF Limit, Measured, Spent, TypeOK
    <3> QED
      BY <1>1, <3>1, <3>2 DEF TypeOK
  <2>2. CASE mode # "Navarra"
    BY <2>2 DEF Budget, OwnAbsorbed, AllowanceAfter
  <2> QED
    BY <2>1, <2>2
<1> QED
  BY <1>3, <1>4, <1>5, <1>6, <1>7

(* Compensating the loss of the year with the other group keeps the        *)
(* invariant.                                                              *)
LEMMA CrossCurrentKeeps ==
  ASSUME IInv, CrossCurrent
  PROVE  IInv'
<1> USE SavingsBaseAssumption DEF IInv
<1> DEFINE c == [g \in Group |-> CrossAmount(g)]
<1>1. pc = "cross" /\ year \in Year
  BY DEF CrossCurrent, TypeOK
<1>2. \A g \in Group :
        /\ c[g] \in Nat /\ c[g] <= negative[Other(g)]
        /\ c[g] <= taxable[g] /\ c[g] <= allowance[g]
  <2> TAKE g \in Group
  <2>1. negative[Other(g)] \in Nat /\ taxable[g] \in Nat /\ allowance[g] \in Nat
    BY OtherGroup DEF TypeOK
  <2> QED
    BY <2>1 DEF CrossAmount, Least
<1>3. /\ crossed' = c
      /\ relieved' = [g \in Group |-> [relieved[g] EXCEPT ![year] = @ + c[Other(g)]]]
      /\ taxable' = [g \in Group |-> taxable[g] - c[g]]
      /\ allowance' = [g \in Group |-> allowance[g] - c[g]]
      /\ negative' = [g \in Group |-> negative[g] - c[Other(g)]]
  BY OtherGroup DEF CrossCurrent, AllowanceLeft
<1> HIDE DEF c
<1>4. \A g \in Group : c[Other(g)] \in Nat /\ c[Other(g)] <= negative[g]
  BY <1>2, OtherGroup
<1>5. TypeOK'
  <2>1. relieved' \in Amounts
    BY <1>1, <1>3, <1>4 DEF TypeOK, Amounts
  <2>2. /\ taxable' \in [Group -> Nat] /\ allowance' \in [Group -> Nat]
        /\ negative' \in [Group -> Nat]
    BY <1>2, <1>3, <1>4 DEF TypeOK
  <2>3. crossed' \in [Group -> Nat]
    BY <1>2 DEF CrossCurrent, c
  <2> QED
    BY <2>1, <2>2, <2>3 DEF TypeOK, CrossCurrent
<1>6. Filing' /\ NonePending'
  BY DEF CrossCurrent, Filing, NonePending
<1>7. Fresh'
  <2> SUFFICES ASSUME NEW g \in Group, NEW y \in Year, year < y
               PROVE  Untouched(g, y)'
    BY DEF Fresh, CrossCurrent
  <2>1. Untouched(g, y) /\ y # year
    BY <1>1 DEF Fresh, Year
  <2>2. relieved'[g][y] = relieved[g][y]
    BY <1>3, <2>1 DEF TypeOK, Amounts
  <2> QED
    BY <2>1, <2>2 DEF Untouched, CrossCurrent
<1>8. LossConserved'
  <2> SUFFICES ASSUME NEW g \in Group, NEW y \in Year
               PROVE  arisen[g][y] = relieved'[g][y] + expired[g][y] + ledger[g][y]
                                     + IF y = year THEN negative'[g] ELSE 0
    BY DEF LossConserved, CrossCurrent
  <2>1. arisen[g][y] = relieved[g][y] + expired[g][y] + ledger[g][y]
                       + IF y = year THEN negative[g] ELSE 0
    BY DEF LossConserved
  <2>2. CASE y = year
    <3>1. /\ relieved'[g][y] = relieved[g][y] + c[Other(g)]
          /\ negative'[g] = negative[g] - c[Other(g)]
      BY <2>2, <1>1, <1>3 DEF TypeOK, Amounts
    <3> QED
      BY <3>1, <2>1, <2>2, <1>4, Numbers
  <2>3. CASE y # year
    <3>1. relieved'[g][y] = relieved[g][y]
      BY <2>3, <1>3 DEF TypeOK, Amounts
    <3> QED
      BY <3>1, <2>1, <2>3
  <2> QED
    BY <2>2, <2>3
<1>9. Spent'
  <2> SUFFICES ASSUME NEW g \in Group
               PROVE  taxable[g] - c[g] = Most(0, net[g]) - own[g] - c[g] - prior[g]
    BY <1>3 DEF Spent, CrossCurrent
  <2>1. taxable[g] = Most(0, net[g]) - own[g] - crossed[g] - prior[g] /\ crossed[g] = 0
    BY <1>1 DEF Spent, NotCrossed
  <2> QED
    BY <2>1, <1>2, Positive DEF TypeOK
<1>10. NotCrossed'
  BY DEF NotCrossed, CrossCurrent
<1>11. Budget'
  <2> SUFFICES ASSUME NEW g \in Group
               PROVE  4 * (allowance'[g] + crossed'[g] + prior[g]) <= Limit(g)
    BY DEF Budget, CrossCurrent, Limit, Measured
  <2>1. 4 * (allowance[g] + crossed[g] + prior[g]) <= Limit(g) /\ crossed[g] = 0
    BY <1>1 DEF Budget, NotCrossed
  <2>2. allowance'[g] + crossed'[g] = allowance[g] + crossed[g]
    BY <2>1, <1>2, <1>3 DEF TypeOK
  <2> QED
    BY <2>1, <2>2
<1> QED
  BY <1>5, <1>6, <1>7, <1>8, <1>9, <1>10, <1>11

(* Compensating an earlier loss with the other group keeps the invariant.  *)
LEMMA CrossPriorKeeps ==
  ASSUME IInv, CrossPrior
  PROVE  IInv'
<1> USE SavingsBaseAssumption DEF IInv
<1> DEFINE u == [g \in Group |-> Used(g, CrossBudget(Other(g)))]
<1>1. pc = "prior" /\ Origin \in Year /\ Origin < year
  BY InTurn DEF CrossPrior
<1>2. \A g \in Group :
        /\ ledger[g][Origin] \in Nat /\ taxable[g] \in Nat /\ allowance[g] \in Nat
        /\ crossed[g] \in Nat /\ prior[g] \in Nat /\ own[g] \in Nat
  BY <1>1 DEF TypeOK, Amounts
<1>3. \A g \in Group : CrossBudget(g) \in Nat
                       /\ CrossBudget(g) <= taxable[g] /\ CrossBudget(g) <= allowance[g]
  BY <1>2 DEF CrossBudget, Least
<1>4. \A g \in Group :
        u[g] \in Nat /\ u[g] <= ledger[g][Origin] /\ u[g] <= CrossBudget(Other(g))
  BY <1>2, <1>3, OtherGroup DEF Used, Least
<1>5. \A g \in Group :
        u[Other(g)] \in Nat /\ u[Other(g)] <= taxable[g] /\ u[Other(g)] <= allowance[g]
  <2> TAKE g \in Group
  <2>1. u[Other(g)] \in Nat /\ u[Other(g)] <= CrossBudget(g)
    BY <1>4, OtherGroup
  <2> QED
    BY <2>1, <1>2, <1>3
<1>6. /\ ledger' = [g \in Group |-> [ledger[g] EXCEPT ![Origin] = @ - u[g]]]
      /\ relieved' = [g \in Group |-> [relieved[g] EXCEPT ![Origin] = @ + u[g]]]
      /\ taxable' = [g \in Group |-> taxable[g] - u[Other(g)]]
      /\ allowance' = [g \in Group |-> allowance[g] - u[Other(g)]]
      /\ prior' = [g \in Group |-> prior[g] + u[Other(g)]]
  BY DEF CrossPrior
<1> HIDE DEF u
<1>7. TypeOK'
  <2>1. ledger' \in Amounts /\ relieved' \in Amounts
    BY <1>1, <1>2, <1>4, <1>6 DEF TypeOK, Amounts
  <2>2. /\ taxable' \in [Group -> Nat] /\ allowance' \in [Group -> Nat]
        /\ prior' \in [Group -> Nat]
    BY <1>2, <1>5, <1>6 DEF TypeOK
  <2>3. /\ year' \in Year /\ mode' \in Mode /\ net' \in [Group -> Int]
        /\ opening' \in Amounts /\ arisen' \in Amounts /\ expired' \in Amounts
    BY DEF TypeOK, CrossPrior
  <2>4. /\ negative' \in [Group -> Nat] /\ own' \in [Group -> Nat]
        /\ crossed' \in [Group -> Nat] /\ applied' \in Nat /\ pc' = pc
    BY DEF TypeOK, CrossPrior
  <2> QED
    BY <1>1, <2>1, <2>2, <2>3, <2>4 DEF TypeOK
<1>8. Filing' /\ NonePending' /\ NotCrossed'
  BY <1>1 DEF CrossPrior, Filing, NonePending, NotCrossed
<1>9. Fresh'
  <2> SUFFICES ASSUME NEW g \in Group, NEW y \in Year, year < y
               PROVE  Untouched(g, y)'
    BY <1>1 DEF Fresh, CrossPrior
  <2>1. Untouched(g, y) /\ y # Origin
    BY <1>1 DEF Fresh, TypeOK, Year
  <2>2. ledger'[g][y] = ledger[g][y] /\ relieved'[g][y] = relieved[g][y]
    BY <1>6, <2>1 DEF TypeOK, Amounts
  <2> QED
    BY <2>1, <2>2 DEF Untouched, CrossPrior
<1>10. LossConserved'
  <2> SUFFICES ASSUME NEW g \in Group, NEW y \in Year
               PROVE  arisen[g][y] = relieved'[g][y] + expired[g][y] + ledger'[g][y]
                                     + IF y = year THEN negative[g] ELSE 0
    BY DEF LossConserved, CrossPrior
  <2>1. arisen[g][y] = relieved[g][y] + expired[g][y] + ledger[g][y]
                       + IF y = year THEN negative[g] ELSE 0
    BY DEF LossConserved
  <2>2. CASE y = Origin
    <3>1. /\ ledger'[g][y] = ledger[g][y] - u[g]
          /\ relieved'[g][y] = relieved[g][y] + u[g]
      BY <2>2, <1>1, <1>6 DEF TypeOK, Amounts
    <3> QED
      BY <3>1, <2>1, <1>4, Numbers
  <2>3. CASE y # Origin
    <3>1. ledger'[g][y] = ledger[g][y] /\ relieved'[g][y] = relieved[g][y]
      BY <2>3, <1>6 DEF TypeOK, Amounts
    <3> QED
      BY <3>1, <2>1
  <2> QED
    BY <2>2, <2>3
<1>11. Spent'
  <2> SUFFICES ASSUME NEW g \in Group
               PROVE  taxable[g] - u[Other(g)]
                        = Most(0, net[g]) - own[g] - crossed[g] - (prior[g] + u[Other(g)])
    BY ZenonT(30), <1>6 DEF Spent, CrossPrior
  <2>1. taxable[g] = Most(0, net[g]) - own[g] - crossed[g] - prior[g]
    BY DEF Spent
  <2> QED
    BY <2>1, <1>2, <1>5, Positive
<1>12. Budget'
  <2> SUFFICES ASSUME NEW g \in Group
               PROVE  4 * (allowance'[g] + crossed[g] + prior'[g]) <= Limit(g)
    BY DEF Budget, CrossPrior, Limit, Measured
  <2>1. 4 * (allowance[g] + crossed[g] + prior[g]) <= Limit(g)
    BY <1>1 DEF Budget
  <2>2. /\ allowance'[g] = allowance[g] - u[Other(g)]
        /\ prior'[g] = prior[g] + u[Other(g)]
    BY <1>6
  <2>3. allowance'[g] + crossed[g] + prior'[g] = allowance[g] + crossed[g] + prior[g]
    BY <2>2, <1>2, <1>5
  <2> QED
    BY <2>1, <2>3
<1> QED
  BY <1>7, <1>8, <1>9, <1>10, <1>11, <1>12

(* The end of the compensation across the groups keeps the invariant.      *)
LEMMA PriorCrossedKeeps ==
  ASSUME IInv, PriorCrossed
  PROVE  IInv'
<1> USE SavingsBaseAssumption DEF IInv
<1>1. TypeOK'
  BY DEF TypeOK, PriorCrossed
<1>2. Filing' /\ NonePending' /\ Fresh' /\ NotCrossed'
  BY DEF PriorCrossed, Filing, NonePending, Fresh, Untouched, NotCrossed
<1>3. LossConserved' /\ Spent' /\ Budget'
  BY DEF PriorCrossed, LossConserved, Spent, Budget, Limit, Measured
<1> QED
  BY <1>1, <1>2, <1>3

(* Carrying the rest forward and dropping what expired keep the            *)
(* invariant.                                                              *)
LEMMA CarryForwardKeeps ==
  ASSUME IInv, CarryForward
  PROVE  IInv'
<1> USE SavingsBaseAssumption DEF IInv
<1>1. /\ pc = "carry" /\ year \in Year /\ year + 1 \in Year
      /\ year' = year + 1 /\ year' # year
  BY DEF CarryForward, TypeOK, Filing, Year
<1>2. \A g \in Group, y \in Year : Carried(g, y) \in Nat
  BY Numbers DEF Carried
<1>3. \A g \in Group, y \in Year :
        /\ expired'[g][y] = expired[g][y] + IF Expires(y) THEN Carried(g, y) ELSE 0
        /\ ledger'[g][y] = IF Expires(y) THEN 0 ELSE Carried(g, y)
  BY DEF CarryForward
<1>4. TypeOK'
  <2>1. ledger' \in Amounts
    BY <1>2 DEF CarryForward, Amounts
  <2>2. expired' \in Amounts
    BY <1>2, Numbers DEF CarryForward, Amounts
  <2>3. negative' \in [Group -> Nat]
    BY DEF CarryForward, Zero
  <2> QED
    BY <1>1, <2>1, <2>2, <2>3 DEF TypeOK, CarryForward
<1>5. Filing' /\ NonePending' /\ NotCrossed'
  BY DEF CarryForward, Filing, NonePending, Zero, NotCrossed
<1>6. Fresh'
  <2> SUFFICES ASSUME NEW g \in Group, NEW y \in Year, year < y
               PROVE  Untouched(g, y)'
    BY <1>1 DEF Fresh, Year
  <2>1. Untouched(g, y) /\ y # year
    BY <1>1 DEF Fresh, Year
  <2>2. Carried(g, y) = 0
    BY <2>1 DEF Carried, Untouched
  <2>3. ledger'[g][y] = 0 /\ expired'[g][y] = 0
    BY <1>3, <2>1, <2>2 DEF Untouched
  <2> QED
    BY <2>1, <2>3 DEF Untouched, CarryForward
<1>7. LossConserved'
  <2> SUFFICES ASSUME NEW g \in Group, NEW y \in Year
               PROVE  arisen[g][y] = relieved[g][y] + expired'[g][y] + ledger'[g][y]
    <3>1. negative' = Zero /\ arisen' = arisen /\ relieved' = relieved
      BY DEF CarryForward
    <3>2. \A g \in Group, y \in Year :
            /\ relieved[g][y] \in Nat /\ expired'[g][y] \in Nat /\ ledger'[g][y] \in Nat
      BY <1>4, Numbers DEF TypeOK, Amounts
    <3> QED
      BY <3>1, <3>2 DEF LossConserved, Zero
  <2>1. arisen[g][y] = relieved[g][y] + expired[g][y] + Carried(g, y)
    BY Numbers DEF LossConserved, Carried
  <2> QED
    BY <1>2, <1>3, <2>1, Numbers
<1>8. Spent' /\ Budget'
  BY DEF CarryForward, Spent, Budget, Limit, Measured
<1> QED
  BY <1>4, <1>5, <1>6, <1>7, <1>8

(* Nothing happens once the years have ended.                               *)
LEMMA StutterKeeps ==
  ASSUME IInv, UNCHANGED vars
  PROVE  IInv'
<1> USE DEF IInv, vars
<1>1. TypeOK' /\ Filing' /\ Fresh' /\ NonePending'
  BY DEF TypeOK, Filing, Fresh, Untouched, NonePending
<1>2. LossConserved' /\ Spent' /\ NotCrossed' /\ Budget'
  BY DEF LossConserved, Spent, NotCrossed, Budget, Limit, Measured
<1> QED
  BY <1>1, <1>2

(* Every step of a return keeps the invariant.                              *)
LEMMA Inductive == Spec => []IInv
<1>1. IInv /\ [Next]_vars => IInv'
  <2> SUFFICES ASSUME IInv, [Next]_vars
               PROVE  IInv'
    OBVIOUS
  <2>1. CASE \E results \in [Group -> Results], regime \in Mode : OpenYear(results, regime)
    BY <2>1, OpenYearKeeps
  <2>2. CASE AbsorbOwn
    BY <2>2, AbsorbOwnKeeps
  <2>3. CASE OwnAbsorbed
    BY <2>3, OwnAbsorbedKeeps
  <2>4. CASE CrossCurrent
    BY <2>4, CrossCurrentKeeps
  <2>5. CASE CrossPrior
    BY <2>5, CrossPriorKeeps
  <2>6. CASE PriorCrossed
    BY <2>6, PriorCrossedKeeps
  <2>7. CASE CarryForward
    BY <2>7, CarryForwardKeeps
  <2>8. CASE Finished \/ UNCHANGED vars
    BY <2>8, StutterKeeps DEF Finished
  <2> QED
    BY <2>1, <2>2, <2>3, <2>4, <2>5, <2>6, <2>7, <2>8 DEF Next
<1> QED
  BY <1>1, InitHolds, PTL DEF Spec

-----------------------------------------------------------------------------
(* Neither a taxable amount, nor a balance, nor an allowance is ever reduced *)
(* below zero by any order of the reductions of a return.                   *)
THEOREM TypeCorrect == Spec => []TypeOK
<1>1. IInv => TypeOK
  BY DEF IInv
<1> QED
  BY <1>1, Inductive, PTL

(* Every loss that arose has been set against income once, has expired or is *)
(* still pending, whatever the results and the regimes of the years are:    *)
(* apply(), the cross offsets and carry_forward_and_expire() neither lose   *)
(* nor use twice any part of a balance.                                     *)
THEOREM Conserved == Spec => []LossConserved
<1>1. IInv => LossConserved
  BY DEF IInv
<1> QED
  BY <1>1, Inductive, PTL

(* The two cross offsets of a return together stay within the limit of the  *)
(* regime, although they are measured and used up at different steps.       *)
THEOREM CrossWithinLimit == Spec => []CrossLimited
<1>1. IInv => CrossLimited
  <2> SUFFICES ASSUME IInv, NEW g \in Group
               PROVE  4 * (crossed[g] + prior[g]) <= Limit(g)
    BY DEF CrossLimited, Limit, Measured
  <2>1. /\ crossed[g] \in Nat /\ prior[g] \in Nat /\ allowance[g] \in Nat
        /\ taxable[g] \in Nat /\ own[g] \in Nat /\ Most(0, net[g]) \in Nat
    BY Positive DEF IInv, TypeOK
  <2>2. CASE mode = "Navarra" /\ pc = "own"
    <3>1. crossed[g] = 0 /\ prior[g] = 0
      BY <2>2 DEF IInv, NotCrossed
    <3>2. taxable[g] = Most(0, net[g]) - own[g] - crossed[g] - prior[g]
      BY DEF IInv, Spent
    <3> QED
      BY <2>1, <2>2, <3>1, <3>2 DEF Limit, Measured
  <2>3. CASE ~(mode = "Navarra" /\ pc = "own")
    <3>1. 4 * (allowance[g] + crossed[g] + prior[g]) <= Limit(g)
      BY <2>3 DEF IInv, Budget
    <3>2. Limit(g) \in Int
      BY <2>1 DEF Limit, Measured
    <3> QED
      BY <2>1, <3>1, <3>2
  <2> QED
    BY <2>2, <2>3
<1> QED
  BY <1>1, Inductive, PTL

-----------------------------------------------------------------------------
(* How far the balances have been used.                                     *)

Open == pc \notin {"config", "rejected"}

(* A balance of a return may be used in it.                                 *)
InWindow ==
  Open => \A g \in Group, y \in Year :
            ledger[g][y] # 0 => FirstOrigin <= y /\ y < year

(* A group has a positive or a negative result.                             *)
OneResult == \A g \in Group : negative[g] = 0 \/ taxable[g] = 0

(* The years whose balances have been offered to their own group, ...       *)
Offered(y) ==
  \/ pc = "own" /\ y < Origin
  \/ pc = "cross" /\ mode = "Navarra"
  \/ pc \in {"prior", "carry"}

OwnFirst ==
  \A g \in Group, y \in Year : Offered(y) => taxable[g] = 0 \/ ledger[g][y] = 0

(* ... the negative results offered to the other one ...                    *)
Full(g) == taxable[g] = 0 \/ allowance[g] = 0

CrossNext ==
  pc \in {"prior", "carry"} \/ (pc = "own" /\ mode # "Navarra") =>
    \A g \in Group : Full(g) \/ negative[Other(g)] = 0

(* ... and the balances offered to the other one.                           *)
PriorLast ==
  \A g \in Group, y \in Year :
    (pc = "prior" /\ y < Origin) \/ pc = "carry" => Full(g) \/ ledger[Other(g)][y] = 0

(* A balance is touched only when the older ones of its group are used up.  *)
OldestFirst ==
  Open => \A g \in Group : \A x, y \in Year :
            y < x /\ ledger[g][y] # 0 => ledger[g][x] = opening[g][x]

(* No balance is applied between the two rounds.                            *)
NoneApplied == pc = "cross" => applied = 0

UsedUp ==
  /\ InWindow /\ OneResult /\ OwnFirst /\ CrossNext /\ PriorLast /\ OldestFirst
  /\ NoneApplied


(* The years in which a balance may be used are numbers.                    *)
LEMMA Years ==
  ASSUME TypeOK
  PROVE  /\ year \in Int /\ applied \in Nat /\ FirstOrigin \in Int /\ Origin \in Int
         /\ FirstOrigin <= Origin /\ Year \subseteq Int
         /\ Most(1, year - CarryforwardYears) = FirstOrigin
<1>1. year \in Int /\ applied \in Nat /\ CarryforwardYears \in Int /\ Year \subseteq Int
  BY SavingsBaseAssumption DEF TypeOK, Year
<1> QED BY <1>1 DEF FirstOrigin, Origin, Most

(* Opening a year uses nothing up.                                         *)
LEMMA OpenYearUses ==
  ASSUME IInv, UsedUp, NEW results \in [Group -> Results], NEW regime \in Mode,
         OpenYear(results, regime)
  PROVE  UsedUp'
<1> USE SavingsBaseAssumption
<1>1. /\ year' = year /\ ledger' = ledger /\ opening' = ledger /\ applied' = 0
      /\ taxable' = [g \in Group |-> Most(0, results[g])]
      /\ negative' = [g \in Group |-> Most(0, -results[g])]
      /\ pc' \in {"rejected", "own", "cross"}
      /\ pc' # "rejected" => \A g \in Group : Accepted(ledger[g])
      /\ pc' = "own" => mode' = "Navarra"
      /\ pc' = "cross" => mode' # "Navarra"
  BY DEF OpenYear
<1>2. FirstOrigin' = FirstOrigin /\ Origin' = FirstOrigin
  BY <1>1, Years DEF IInv, FirstOrigin, Origin
<1>3. InWindow'
  <2> SUFFICES ASSUME pc' # "rejected", NEW g \in Group, NEW y \in Year, ledger[g][y] # 0
               PROVE  FirstOrigin <= y /\ y < year
    BY <1>1, <1>2 DEF InWindow, Open
  <2>1. y < year /\ y >= year - CarryforwardYears
    BY <1>1 DEF Accepted
  <2>2. y \in Int /\ 1 <= y
    BY DEF Year
  <2> QED BY <2>1, <2>2, Years DEF IInv, FirstOrigin, Most
<1>4. OneResult'
  <2> SUFFICES ASSUME NEW g \in Group
               PROVE  Most(0, -results[g]) = 0 \/ Most(0, results[g]) = 0
    BY <1>1 DEF OneResult
  <2>1. results[g] \in Int
    OBVIOUS
  <2> QED BY <2>1 DEF Most
<1>5. OwnFirst'
  <2> SUFFICES ASSUME pc' = "own", NEW g \in Group, NEW y \in Year, y < Origin'
               PROVE  ledger'[g][y] = 0
    BY <1>1 DEF OwnFirst, Offered
  <2>1. ledger'[g][y] # 0 => FirstOrigin <= y
    BY <1>2, <1>3 DEF InWindow, Open
  <2> QED BY <1>2, <2>1, Years DEF IInv
<1>6. CrossNext' /\ PriorLast' /\ OldestFirst' /\ NoneApplied'
  BY <1>1 DEF CrossNext, PriorLast, OldestFirst, NoneApplied
<1> QED BY <1>3, <1>4, <1>5, <1>6 DEF UsedUp

(* Compensating the oldest loss uses it up or uses up the gain.            *)
LEMMA AbsorbOwnUses ==
  ASSUME IInv, UsedUp, AbsorbOwn
  PROVE  UsedUp'
<1> DEFINE u == [g \in Group |-> Used(g, taxable[g])]
<1>1. /\ pc = "own" /\ Origin \in Year /\ Origin < year
      /\ UNCHANGED <<pc, year, mode, negative, allowance, opening>>
  BY InTurn DEF AbsorbOwn, IInv
<1>2. \A g \in Group :
        /\ ledger[g][Origin] \in Nat /\ taxable[g] \in Nat
        /\ taxable'[g] = taxable[g] - u[g]
        /\ \A y \in Year : /\ ledger[g][y] \in Nat
                           /\ ledger'[g][y] = IF y = Origin THEN ledger[g][y] - u[g]
                                                            ELSE ledger[g][y]
  BY <1>1 DEF AbsorbOwn, IInv, TypeOK, Amounts
<1>3. \A g \in Group : /\ u[g] \in Nat
                       /\ \/ (u[g] = ledger[g][Origin] /\ u[g] <= taxable[g])
                          \/ (u[g] = taxable[g] /\ u[g] <= ledger[g][Origin])
  BY <1>2 DEF Used, Least
<1> HIDE DEF u
<1>4. /\ Origin' = Origin + 1 /\ FirstOrigin' = FirstOrigin /\ Origin \in Int
      /\ Year \subseteq Int
  <2>1. FirstOrigin' = FirstOrigin /\ applied' = applied + 1
    BY DEF AbsorbOwn, FirstOrigin
  <2>2. FirstOrigin \in Int /\ applied \in Nat /\ Year \subseteq Int
    BY Years DEF IInv
  <2> QED BY <2>1, <2>2 DEF Origin
<1>5. InWindow'
  <2> SUFFICES ASSUME NEW g \in Group, NEW y \in Year, ledger'[g][y] # 0
               PROVE  FirstOrigin <= y /\ y < year
    BY <1>1, <1>4 DEF InWindow
  <2>1. ledger[g][y] # 0
    BY <1>2, <1>3
  <2> QED BY <1>1, <2>1 DEF UsedUp, InWindow, Open
<1>6. OneResult'
  <2> SUFFICES ASSUME NEW g \in Group, taxable[g] = 0
               PROVE  taxable'[g] = 0
    BY <1>1 DEF UsedUp, OneResult
  <2> QED BY <1>2, <1>3
<1>7. OwnFirst'
  <2> SUFFICES ASSUME NEW g \in Group, NEW y \in Year, y < Origin + 1
               PROVE  taxable'[g] = 0 \/ ledger'[g][y] = 0
    BY <1>1, <1>4 DEF OwnFirst, Offered
  <2>1. CASE y = Origin
    BY <1>2, <1>3, <2>1
  <2>2. CASE y < Origin
    <3>1. taxable[g] = 0 \/ ledger[g][y] = 0
      BY <1>1, <2>2 DEF UsedUp, OwnFirst, Offered
    <3> QED BY <1>2, <1>3, <1>4, <2>2, <3>1
  <2> QED BY <1>4, <2>1, <2>2
<1>8. CrossNext'
  <2> SUFFICES ASSUME mode # "Navarra", NEW g \in Group
               PROVE  Full(g)' \/ negative[Other(g)] = 0
    BY <1>1 DEF CrossNext
  <2>1. Full(g) \/ negative[Other(g)] = 0
    BY <1>1 DEF UsedUp, CrossNext
  <2> QED BY <1>1, <1>2, <1>3, <2>1 DEF Full
<1>9. PriorLast' /\ NoneApplied'
  BY <1>1 DEF PriorLast, NoneApplied
<1>10. OldestFirst'
  <2> SUFFICES ASSUME NEW g \in Group, NEW x \in Year, NEW y \in Year,
                      y < x, ledger'[g][y] # 0
               PROVE  ledger'[g][x] = opening[g][x]
    BY <1>1 DEF OldestFirst, Open
  <2>1. ledger[g][y] # 0
    BY <1>2, <1>3
  <2>2. ledger[g][x] = opening[g][x]
    BY <1>1, <2>1 DEF UsedUp, OldestFirst, Open
  <2>3. CASE x = Origin
    <3>1. taxable[g] = 0
      BY <1>1, <2>1, <2>3 DEF UsedUp, OwnFirst, Offered
    <3> QED BY <1>2, <1>3, <2>2, <2>3, <3>1
  <2> QED BY <1>2, <2>2, <2>3
<1> QED BY <1>5, <1>6, <1>7, <1>8, <1>9, <1>10 DEF UsedUp

(* The compensation within the group ends with the gain or the losses      *)
(* used up.                                                                *)
LEMMA OwnAbsorbedUses ==
  ASSUME IInv, UsedUp, OwnAbsorbed
  PROVE  UsedUp'
<1>1. /\ pc = "own" /\ Through
      /\ UNCHANGED <<year, mode, taxable, ledger, negative, opening>>
      /\ pc' = IF mode = "Navarra" THEN "cross" ELSE "prior"
      /\ applied' = 0
      /\ mode # "Navarra" => allowance' = allowance
  BY DEF OwnAbsorbed, AllowanceAfter
<1>2. /\ FirstOrigin' = FirstOrigin /\ Origin' = FirstOrigin /\ Origin >= year
      /\ Year \subseteq Int /\ Origin \in Int /\ year \in Int /\ FirstOrigin \in Int
  BY <1>1, Years DEF IInv, FirstOrigin, Origin, Through
<1>3. InWindow' /\ OneResult' /\ OldestFirst'
  BY <1>1, <1>2 DEF UsedUp, InWindow, Open, OneResult, OldestFirst
<1>4. OwnFirst'
  <2> SUFFICES ASSUME NEW g \in Group, NEW y \in Year
               PROVE  taxable[g] = 0 \/ ledger[g][y] = 0
    BY <1>1 DEF OwnFirst
  <2>1. ledger[g][y] # 0 => y < year
    BY <1>1 DEF UsedUp, InWindow, Open
  <2> QED BY <1>1, <1>2, <2>1 DEF UsedUp, OwnFirst, Offered
<1>5. CrossNext' /\ NoneApplied'
  BY <1>1 DEF UsedUp, CrossNext, Full, NoneApplied
<1>6. PriorLast'
  <2> SUFFICES ASSUME NEW g \in Group, NEW y \in Year, y < FirstOrigin
               PROVE  ledger[Other(g)][y] = 0
    BY <1>1, <1>2 DEF PriorLast
  <2> QED BY <1>1, <1>2, OtherGroup DEF UsedUp, InWindow, Open
<1> QED BY <1>3, <1>4, <1>5, <1>6 DEF UsedUp

(* The loss of the year is compensated up to the cap or used up.           *)
LEMMA CrossCurrentUses ==
  ASSUME IInv, UsedUp, CrossCurrent
  PROVE  UsedUp'
<1>1. /\ pc = "cross" /\ UNCHANGED <<year, mode, ledger, opening, applied>>
      /\ pc' = IF mode = "Navarra" THEN "prior" ELSE "own"
  BY DEF CrossCurrent
<1>2. \A g \in Group :
        /\ taxable[g] \in Nat /\ allowance[g] \in Nat /\ negative[g] \in Nat
        /\ taxable'[g] = taxable[g] - CrossAmount(g)
        /\ allowance'[g] = allowance[g] - CrossAmount(g)
        /\ negative'[g] = negative[g] - CrossAmount(Other(g))
  BY OtherGroup DEF CrossCurrent, AllowanceLeft, IInv, TypeOK
<1>3. \A g \in Group :
        /\ CrossAmount(g) \in Nat /\ CrossAmount(g) <= taxable[g]
        /\ CrossAmount(g) <= allowance[g] /\ CrossAmount(g) <= negative[Other(g)]
        /\ CrossAmount(g) \in {taxable[g], allowance[g], negative[Other(g)]}
  BY <1>2, OtherGroup DEF CrossAmount, Least
<1>4. FirstOrigin' = FirstOrigin /\ Origin' = Origin
  BY <1>1 DEF FirstOrigin, Origin
<1>5. InWindow' /\ OldestFirst'
  BY <1>1, <1>4 DEF UsedUp, InWindow, Open, OldestFirst
<1>6. OneResult'
  <2> SUFFICES ASSUME NEW g \in Group
               PROVE  negative'[g] = 0 \/ taxable'[g] = 0
    BY DEF OneResult
  <2>1. negative[g] = 0 \/ taxable[g] = 0
    BY DEF UsedUp, OneResult
  <2>2. CrossAmount(Other(g)) <= negative[g]
    BY <1>3, OtherGroup
  <2> QED BY <1>2, <1>3, <2>1, <2>2, OtherGroup
<1>7. \A g \in Group, y \in Year : y < Origin => ledger[g][y] = 0
  <2> TAKE g \in Group, y \in Year
  <2>1. applied = 0 /\ Origin = FirstOrigin /\ FirstOrigin \in Int /\ y \in Int
    BY <1>1, Years DEF UsedUp, NoneApplied, Origin, IInv
  <2> QED BY <1>1, <2>1 DEF UsedUp, InWindow, Open
<1>8. OwnFirst'
  <2> SUFFICES ASSUME NEW g \in Group, NEW y \in Year, Offered(y)'
               PROVE  taxable'[g] = 0 \/ ledger[g][y] = 0
    BY <1>1 DEF OwnFirst
  <2>1. CASE mode = "Navarra"
    <3>1. taxable[g] = 0 \/ ledger[g][y] = 0
      BY <1>1, <2>1 DEF UsedUp, OwnFirst, Offered
    <3> QED BY <1>2, <1>3, <3>1
  <2>2. CASE mode # "Navarra"
    <3>1. y < Origin
      BY <1>1, <1>4, <2>2 DEF Offered
    <3> QED BY <1>7, <3>1
  <2> QED BY <2>1, <2>2
<1>9. CrossNext'
  <2> SUFFICES ASSUME NEW g \in Group
               PROVE  Full(g)' \/ negative'[Other(g)] = 0
    BY DEF CrossNext
  <2>1. negative'[Other(g)] = negative[Other(g)] - CrossAmount(g)
    BY <1>2, OtherGroup
  <2> QED BY <1>2, <1>3, <2>1, OtherGroup DEF Full
<1>10. PriorLast' /\ NoneApplied'
  BY <1>1, <1>4, <1>7, OtherGroup DEF PriorLast, NoneApplied
<1> QED BY <1>5, <1>6, <1>8, <1>9, <1>10 DEF UsedUp

(* So is an earlier one.                                                   *)
LEMMA CrossPriorUses ==
  ASSUME IInv, UsedUp, CrossPrior
  PROVE  UsedUp'
<1> DEFINE u == [g \in Group |-> Used(g, CrossBudget(Other(g)))]
<1>1. /\ pc = "prior" /\ Origin \in Year /\ Origin < year
      /\ UNCHANGED <<pc, year, mode, negative, opening>>
  BY InTurn DEF CrossPrior, IInv
<1>2. \A g \in Group :
        /\ ledger[g][Origin] \in Nat /\ taxable[g] \in Nat /\ allowance[g] \in Nat
        /\ taxable'[g] = taxable[g] - u[Other(g)]
        /\ allowance'[g] = allowance[g] - u[Other(g)]
        /\ \A y \in Year : /\ ledger[g][y] \in Nat
                           /\ ledger'[g][y] = IF y = Origin THEN ledger[g][y] - u[g]
                                                            ELSE ledger[g][y]
  BY <1>1, OtherGroup DEF CrossPrior, IInv, TypeOK, Amounts
<1>3. \A g \in Group :
        /\ u[g] \in Nat /\ u[g] <= ledger[g][Origin]
        /\ u[g] <= taxable[Other(g)] /\ u[g] <= allowance[Other(g)]
        /\ u[g] \in {ledger[g][Origin], taxable[Other(g)], allowance[Other(g)]}
  <2> TAKE g \in Group
  <2>1. /\ u[g] = Least(ledger[g][Origin], Least(taxable[Other(g)], allowance[Other(g)]))
        /\ ledger[g][Origin] \in Nat
        /\ taxable[Other(g)] \in Nat /\ allowance[Other(g)] \in Nat
    BY <1>2, OtherGroup DEF Used, CrossBudget
  <2> HIDE DEF u
  <2> QED BY <2>1 DEF Least
<1> HIDE DEF u
<1>4. /\ Origin' = Origin + 1 /\ FirstOrigin' = FirstOrigin /\ Origin \in Int
      /\ Year \subseteq Int
  <2>1. FirstOrigin' = FirstOrigin /\ applied' = applied + 1
    BY DEF CrossPrior, FirstOrigin
  <2>2. FirstOrigin \in Int /\ applied \in Nat /\ Year \subseteq Int
    BY Years DEF IInv
  <2> QED BY <2>1, <2>2 DEF Origin
<1>5. InWindow'
  BY <1>1, <1>2, <1>3, <1>4 DEF UsedUp, InWindow, Open
<1>6. \A g \in Group : /\ taxable[g] = 0 => taxable'[g] = 0
                       /\ Full(g) => Full(g)'
                       /\ \A y \in Year : ledger[g][y] = 0 => ledger'[g][y] = 0
  <2> TAKE g \in Group
  <2>1. Other(g) \in Group /\ Other(Other(g)) = g
    BY OtherGroup
  <2>2. /\ u[Other(g)] \in Nat /\ u[Other(g)] <= taxable[g]
        /\ u[Other(g)] <= allowance[g]
    BY <1>3, <2>1
  <2> QED BY <1>2, <1>3, <2>2 DEF Full
<1>7. OneResult' /\ OwnFirst' /\ CrossNext' /\ NoneApplied'
  BY <1>1, <1>6 DEF UsedUp, OneResult, OwnFirst, Offered, CrossNext, NoneApplied
<1>8. PriorLast'
  <2> SUFFICES ASSUME NEW g \in Group, NEW y \in Year, y < Origin + 1
               PROVE  Full(g)' \/ ledger'[Other(g)][y] = 0
    BY <1>1, <1>4 DEF PriorLast
  <2>1. Other(g) \in Group /\ Other(Other(g)) = g
    BY OtherGroup
  <2>2. CASE y = Origin
    <3>1. u[Other(g)] \in {ledger[Other(g)][Origin], taxable[g], allowance[g]}
      BY <1>3, <2>1
    <3> QED BY <1>2, <2>1, <2>2, <3>1 DEF Full
  <2>3. CASE y < Origin
    <3>1. Full(g) \/ ledger[Other(g)][y] = 0
      BY <1>1, <2>3 DEF UsedUp, PriorLast
    <3> QED BY <1>6, <2>1, <3>1
  <2> QED BY <1>4, <2>2, <2>3
<1>9. OldestFirst'
  <2> SUFFICES ASSUME NEW g \in Group, NEW x \in Year, NEW y \in Year,
                      y < x, ledger'[g][y] # 0
               PROVE  ledger'[g][x] = opening[g][x]
    BY <1>1 DEF OldestFirst, Open
  <2>1. ledger[g][y] # 0
    BY <1>6
  <2>2. ledger[g][x] = opening[g][x]
    BY <1>1, <2>1 DEF UsedUp, OldestFirst, Open
  <2>3. CASE x = Origin
    <3>1. Other(g) \in Group /\ Other(Other(g)) = g
      BY OtherGroup
    <3>2. Full(Other(g))
      BY <1>1, <2>1, <2>3, <3>1 DEF UsedUp, PriorLast
    <3>3. u[g] = 0
      BY <1>2, <1>3, <3>1, <3>2 DEF Full
    <3> QED BY <1>2, <2>2, <2>3, <3>3
  <2> QED BY <1>2, <2>2, <2>3
<1> QED BY <1>5, <1>7, <1>8, <1>9 DEF UsedUp

(* The compensation across the groups ends at the cap, at zero or without  *)
(* losses.                                                                 *)
LEMMA PriorCrossedUses ==
  ASSUME IInv, UsedUp, PriorCrossed
  PROVE  UsedUp'
<1>1. /\ pc = "prior" /\ pc' = "carry" /\ Through
      /\ UNCHANGED <<year, mode, taxable, allowance, ledger, negative, opening>>
  BY DEF PriorCrossed
<1>2. /\ FirstOrigin' = FirstOrigin /\ Origin >= year
      /\ Year \subseteq Int /\ Origin \in Int /\ year \in Int
  BY <1>1, Years DEF IInv, FirstOrigin, Origin, Through
<1>3. /\ InWindow' /\ OneResult' /\ OldestFirst' /\ OwnFirst' /\ CrossNext'
      /\ NoneApplied'
  BY <1>1, <1>2 DEF UsedUp, InWindow, Open, OneResult, OldestFirst, OwnFirst, Offered,
                    CrossNext, Full, NoneApplied
<1>4. PriorLast'
  <2> SUFFICES ASSUME NEW g \in Group, NEW y \in Year
               PROVE  Full(g) \/ ledger[Other(g)][y] = 0
    BY <1>1 DEF PriorLast, Full
  <2>1. ledger[Other(g)][y] # 0 => y < year
    BY <1>1, OtherGroup DEF UsedUp, InWindow, Open
  <2> QED BY <1>1, <1>2, <2>1 DEF UsedUp, PriorLast
<1> QED BY <1>3, <1>4 DEF UsedUp

(* What is carried forward could not have been used.                       *)
LEMMA CarryForwardUses ==
  ASSUME IInv, UsedUp, CarryForward
  PROVE  UsedUp'
<1>1. pc' = "config" /\ negative' = Zero
  BY DEF CarryForward
<1>2. OneResult'
  BY <1>1 DEF OneResult, Zero
<1> QED
  BY <1>1, <1>2
  DEF UsedUp, InWindow, Open, OwnFirst, Offered, CrossNext, PriorLast, OldestFirst,
      NoneApplied

(* UsedUp holds in every reachable state.                                  *)
LEMMA UsedUpAlways == Spec => []UsedUp
<1>1. Init => UsedUp
  BY DEF Init, UsedUp, InWindow, Open, OneResult, Zero, OwnFirst, Offered, CrossNext,
         PriorLast, OldestFirst, NoneApplied
<1>2. IInv /\ UsedUp /\ [Next]_vars => UsedUp'
  <2> SUFFICES ASSUME IInv, UsedUp, [Next]_vars
               PROVE  UsedUp'
    OBVIOUS
  <2>1. CASE \E results \in [Group -> Results], regime \in Mode : OpenYear(results, regime)
    BY <2>1, OpenYearUses
  <2>2. CASE AbsorbOwn
    BY <2>2, AbsorbOwnUses
  <2>3. CASE OwnAbsorbed
    BY <2>3, OwnAbsorbedUses
  <2>4. CASE CrossCurrent
    BY <2>4, CrossCurrentUses
  <2>5. CASE CrossPrior
    BY <2>5, CrossPriorUses
  <2>6. CASE PriorCrossed
    BY <2>6, PriorCrossedUses
  <2>7. CASE CarryForward
    BY <2>7, CarryForwardUses
  <2>8. CASE Finished \/ UNCHANGED vars
    <3>1. UNCHANGED vars
      BY <2>8 DEF Finished
    <3>2. FirstOrigin' = FirstOrigin /\ Origin' = Origin
      BY <3>1 DEF vars, FirstOrigin, Origin
    <3> QED
      BY <3>1, <3>2
      DEF vars, UsedUp, InWindow, Open, OneResult, OwnFirst, Offered, CrossNext, Full,
          PriorLast, OldestFirst, NoneApplied
  <2> QED
    BY <2>1, <2>2, <2>3, <2>4, <2>5, <2>6, <2>7, <2>8 DEF Next
<1> QED BY <1>1, <1>2, Inductive, PTL DEF Spec

(* A group is taxed only when its own balances are used up, and when the    *)
(* other group has nothing left or the limit of what may cross is reached:  *)
(* in every regime, whatever its order of the steps, compensate() relieves  *)
(* as much as the regime allows.                                            *)
THEOREM MaximumAbsorbed == Spec => []AbsorbsMaximum
<1>1. UsedUp => AbsorbsMaximum
  BY DEF UsedUp, OwnFirst, Offered, CrossNext, PriorLast, Full, AbsorbsMaximum
<1> QED BY <1>1, UsedUpAlways, PTL

(* Between the years every balance is one the next return accepts.          *)
Acceptable == pc = "config" => \A g \in Group : Accepted(ledger[g])

(* Whatever the years bring, no balance is kept that is not accepted.       *)
LEMMA AlwaysAcceptable == Spec => [](Acceptable /\ pc # "rejected")
<1> DEFINE Inv == Acceptable /\ pc # "rejected"
<1>1. Init => Inv
  BY DEF Init, Acceptable, Accepted, NoLosses
<1>2. IInv /\ UsedUp /\ Inv /\ [Next]_vars => Inv'
  <2> SUFFICES ASSUME IInv, UsedUp, Inv, [Next]_vars
               PROVE  Inv'
    OBVIOUS
  <2>1. CASE CarryForward
    <3>1. pc = "carry" /\ pc' = "config" /\ year' = year + 1
      BY <2>1 DEF CarryForward
    <3>2. ASSUME NEW g \in Group, NEW y \in Year, ledger'[g][y] # 0
          PROVE  /\ ledger'[g][y] > 0 /\ y < year'
                 /\ y >= year' - CarryforwardYears
      <4>1. ledger'[g][y] = Carried(g, y) /\ ~Expires(y)
        BY <2>1, <3>2 DEF CarryForward
      <4>2. y \in Int /\ year \in Int /\ CarryforwardYears \in Nat
        BY Years, SavingsBaseAssumption DEF IInv
      <4>3. y > year - CarryforwardYears
        BY <4>1, <4>2 DEF Expires
      <4>4. y <= year
        <5>1. ledger[g][y] # 0 => y < year
          BY <3>1 DEF UsedUp, InWindow, Open
        <5> QED BY <3>2, <4>1, <4>2, <5>1 DEF Carried
      <4>5. Carried(g, y) \in Nat
        BY Numbers DEF Carried, IInv
      <4> QED BY <3>1, <3>2, <4>1, <4>2, <4>3, <4>4, <4>5
    <3>3. \A g \in Group : Accepted(ledger[g])'
      BY <3>2 DEF Accepted
    <3> QED BY <3>1, <3>3 DEF Acceptable
  <2>2. CASE \E results \in [Group -> Results], regime \in Mode : OpenYear(results, regime)
    BY <2>2 DEF OpenYear, Acceptable
  <2>3. CASE UNCHANGED vars
    BY <2>3 DEF vars, Acceptable, Accepted
  <2> QED
    BY <2>1, <2>2, <2>3
    DEF Next, AbsorbOwn, OwnAbsorbed, CrossCurrent, CrossPrior, PriorCrossed, Finished,
        Acceptable
<1> QED BY <1>1, <1>2, Inductive, UsedUpAlways, PTL DEF Spec

(* What one return prints, the next one takes from its configuration:       *)
(* carry_forward_and_expire() leaves no balance that from_config() refuses. *)
THEOREM NeverRejected == Spec => [](pc # "rejected")
<1> QED BY AlwaysAcceptable, PTL

(* No balance is left once the years are over in which it may be used.      *)
NoneLate ==
  \A g \in Group, y \in Year : y + CarryforwardYears < year => ledger[g][y] = 0

(* What would be too old for the next return expires at the end of this one. *)
LEMMA NeverLate == Spec => []NoneLate
<1>1. IInv /\ UsedUp /\ Acceptable /\ pc # "rejected" => NoneLate
  <2> SUFFICES ASSUME IInv, UsedUp, Acceptable, pc # "rejected",
                      NEW g \in Group, NEW y \in Year, ledger[g][y] # 0
               PROVE  ~(y + CarryforwardYears < year)
    BY DEF NoneLate
  <2>1. y \in Int /\ year \in Int /\ CarryforwardYears \in Nat
    BY Years, SavingsBaseAssumption DEF IInv
  <2>2. CASE pc = "config"
    BY <2>1, <2>2 DEF Acceptable, Accepted
  <2>3. CASE pc # "config"
    BY <2>1, <2>3 DEF UsedUp, InWindow, Open, FirstOrigin, Most
  <2> QED BY <2>2, <2>3
<1> QED BY <1>1, Inductive, UsedUpAlways, AlwaysAcceptable, PTL

(* A loss expires in its last year, when its group has nothing left to      *)
(* reduce and no younger one was used in its place, and is gone from then   *)
(* on.                                                                      *)
THEOREM ExpiredInVain == Spec => NothingWasted
<1> DEFINE InTime ==
      \A g \in Group, y \in Year :
        /\ expired'[g][y] > expired[g][y] =>
             /\ year = y + CarryforwardYears
             /\ taxable[g] = 0
             /\ \A x \in Year : y < x /\ x < year => ledger[g][x] = opening[g][x]
        /\ y + CarryforwardYears < year' => ledger'[g][y] = 0
<1>1. IInv /\ UsedUp /\ NoneLate' /\ [Next]_vars => [InTime]_vars
  <2> SUFFICES ASSUME IInv, UsedUp, NoneLate', Next,
                      NEW g \in Group, NEW y \in Year
               PROVE  /\ expired'[g][y] > expired[g][y] =>
                           /\ year = y + CarryforwardYears
                           /\ taxable[g] = 0
                           /\ \A x \in Year : y < x /\ x < year =>
                                ledger[g][x] = opening[g][x]
                      /\ y + CarryforwardYears < year' => ledger'[g][y] = 0
    OBVIOUS
  <2>1. y + CarryforwardYears < year' => ledger'[g][y] = 0
    BY DEF NoneLate
  <2>2. ASSUME CarryForward, expired'[g][y] > expired[g][y]
        PROVE  /\ year = y + CarryforwardYears
               /\ taxable[g] = 0
               /\ \A x \in Year : y < x /\ x < year => ledger[g][x] = opening[g][x]
    <3>1. /\ pc = "carry" /\ year \in Year /\ Year \subseteq Int
          /\ year \in Int /\ y \in Int /\ CarryforwardYears \in Nat
      BY <2>2, Years, SavingsBaseAssumption DEF CarryForward, IInv, TypeOK
    <3>2. expired'[g][y] = expired[g][y] + IF Expires(y) THEN Carried(g, y) ELSE 0
      BY <2>2 DEF CarryForward
    <3>3. Carried(g, y) # 0 /\ Expires(y)
      BY <2>2, <3>2, Numbers DEF IInv
    <3>4. y <= year - CarryforwardYears
      BY <3>3 DEF Expires
    <3>5. CASE y = year
      <4>1. ledger[g][y] = 0
        BY <3>1, <3>5 DEF UsedUp, InWindow, Open
      <4>2. negative[g] # 0
        BY <3>3, <3>5, <4>1, Numbers DEF Carried, IInv
      <4>3. taxable[g] = 0
        BY <4>2 DEF UsedUp, OneResult
      <4> QED BY <3>1, <3>4, <3>5, <4>3
    <3>6. CASE y # year
      <4>1. ledger[g][y] # 0
        BY <3>3, <3>6 DEF Carried
      <4>2. year - CarryforwardYears <= y
        BY <3>1, <4>1 DEF UsedUp, InWindow, Open, FirstOrigin, Most
      <4>3. year = y + CarryforwardYears
        BY <3>1, <3>4, <4>2
      <4> QED BY <3>1, <4>1, <4>3 DEF UsedUp, OwnFirst, Offered, OldestFirst, Open
    <3> QED BY <3>5, <3>6
  <2>3. ASSUME UNCHANGED expired
        PROVE  ~(expired'[g][y] > expired[g][y])
    BY <2>3, Numbers DEF IInv
  <2> QED
    BY <2>1, <2>2, <2>3
    DEF Next, OpenYear, AbsorbOwn, OwnAbsorbed, CrossCurrent, CrossPrior, PriorCrossed,
        Finished, vars
<1> QED BY <1>1, Inductive, UsedUpAlways, NeverLate, PTL DEF Spec, NothingWasted

=============================================================================
