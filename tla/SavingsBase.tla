---------------------------- MODULE SavingsBase ----------------------------
(***************************************************************************)
(* Compensation of losses in the Spanish savings base over the years       *)
(* (src/src/taxes/spain: compensation.rs, carryforward.rs).                *)
(*                                                                         *)
(* The savings base has two groups, income from capital (RCM) and gains    *)
(* and losses (GyP).  A year's negative group may reduce the other, what   *)
(* is left is carried forward, labelled with its year, and may reduce      *)
(* later years of its own group and, within limits, of the other one, but  *)
(* only for a number of years.  The three tax regimes disagree on the      *)
(* order of these steps and on the limit of what crosses.                  *)
(*                                                                         *)
(* The program keeps nothing between the years: it prints the balances     *)
(* carried forward, and the next year reads them from the configuration.   *)
(***************************************************************************)
EXTENDS Integers

CONSTANTS
  CarryforwardYears,  \* CARRYFORWARD_YEARS
  Mode,               \* cross offsets: subset of {"None", "Aeat", "Navarra"}
  Results,            \* BOUND: results of a group in a year
  MaxYear             \* BOUND: years

ASSUME SavingsBaseAssumption ==
  /\ CarryforwardYears \in Nat
  /\ Mode \subseteq {"None", "Aeat", "Navarra"}
  /\ Results \subseteq Int
  /\ MaxYear \in Nat \ {0}

VARIABLES
  year,      \* the filing year
  mode,      \* the regime in which this year's return is filed
  net,       \* the year's own result of each group
  ledger,    \* LossLedger of each group: [Year -> amount]
  taxable,   \* what is left of each group's positive result
  negative,  \* what is left of each group's negative result
  allowance, \* what may still cross into each group
  own,       \* carried balances set against their own group, by group
  crossed,   \* the other group's negative result set against this group
  prior,     \* the other group's carried balances set against this group
  arisen,    \* history: the losses of each group and year
  relieved,  \* history: those that have reduced a tax base
  expired,   \* history: those that were lost
  opening,   \* history: the ledger the year began with
  applied,   \* how many origins apply() has gone through
  pc

vars == <<year, mode, net, ledger, taxable, negative, allowance, own, crossed,
          prior, arisen, relieved, expired, opening, applied, pc>>

Group == {"rcm", "gyp"}

Other(g) == IF g = "rcm" THEN "gyp" ELSE "rcm"

Year == 1 .. MaxYear

Zero == [g \in Group |-> 0]

NoLosses == [g \in Group |-> [y \in Year |-> 0]]

Init ==
  /\ year = 1
  /\ mode \in Mode
  /\ net = Zero
  /\ ledger = NoLosses /\ opening = NoLosses
  /\ taxable = Zero /\ negative = Zero /\ allowance = Zero
  /\ own = Zero /\ crossed = Zero /\ prior = Zero
  /\ arisen = NoLosses /\ relieved = NoLosses /\ expired = NoLosses
  /\ applied = 0
  /\ pc = "config"

Least(a, b) == IF a < b THEN a ELSE b

Most(a, b) == IF a < b THEN b ELSE a

-----------------------------------------------------------------------------
(* LossLedger.                                                              *)

(* from_config(): every balance is of an earlier year and of one that may   *)
(* still be used.                                                           *)
Accepted(balances) ==
  \A y \in Year :
    balances[y] # 0 => balances[y] > 0 /\ y < year /\ y >= year - CarryforwardYears

(* apply() goes through the years whose balances may be used, the oldest     *)
(* first.                                                                   *)
FirstOrigin == Most(1, year - CarryforwardYears)

Origin == FirstOrigin + applied

Through == FirstOrigin + applied >= year

(* Fault: only the oldest balance is used. *)
UsedOldestOnly(g, budget) == IF applied > 0 THEN 0 ELSE Least(ledger[g][Origin], budget)

(* What is taken of the balance in question.                                *)
Used(g, budget) == Least(ledger[g][Origin], budget)

(* Fault: a balance is kept for a year more. *)
ExpiresLate(y) == y < year - CarryforwardYears

(* drop_expired()                                                           *)
Expires(y) == y <= year - CarryforwardYears

-----------------------------------------------------------------------------
(* One return.                                                              *)

(* CrossOffset::fraction(), as the share of a positive balance.             *)
Share(amount) == IF mode' = "None" THEN 0 ELSE amount \div 4

(* The configuration is read and the results of the year are integrated.    *)
OpenYear(results, regime) ==
  /\ pc = "config"
  /\ year < MaxYear
  /\ mode' = regime
  /\ net' = results
  /\ opening' = ledger
  /\ taxable' = [g \in Group |-> Most(0, results[g])]
  /\ negative' = [g \in Group |-> Most(0, -results[g])]
  /\ allowance' = [g \in Group |-> Share(Most(0, results[g]))]
  /\ own' = Zero /\ crossed' = Zero /\ prior' = Zero
  /\ arisen' = [g \in Group |-> [arisen[g] EXCEPT ![year] = Most(0, -results[g])]]
  /\ pc' = IF \E g \in Group : ~Accepted(ledger[g]) THEN "rejected"
            ELSE IF regime = "Navarra" THEN "own" ELSE "cross"
  /\ applied' = 0
  /\ UNCHANGED <<year, ledger, relieved, expired>>

(* Navarra measures it on what the group arrived at.                        *)
AllowanceAfter == IF mode = "Navarra" THEN [g \in Group |-> taxable[g] \div 4]
                                      ELSE allowance

(* Carried balances reduce their own group, one after the other.            *)
AbsorbOwn ==
  /\ pc = "own"
  /\ ~Through
  /\ LET used == [g \in Group |-> Used(g, taxable[g])]
     IN  /\ ledger' = [g \in Group |-> [ledger[g] EXCEPT ![Origin] = @ - used[g]]]
         /\ relieved' = [g \in Group |-> [relieved[g] EXCEPT ![Origin] = @ + used[g]]]
         /\ taxable' = [g \in Group |-> taxable[g] - used[g]]
         /\ own' = [g \in Group |-> own[g] + used[g]]
  /\ applied' = applied + 1
  /\ UNCHANGED <<year, mode, net, negative, allowance, crossed, prior, arisen,
                 expired, opening, pc>>

OwnAbsorbed ==
  /\ pc = "own"
  /\ Through
  /\ allowance' = AllowanceAfter
  /\ applied' = 0
  /\ pc' = IF mode = "Navarra" THEN "cross" ELSE "prior"
  /\ UNCHANGED <<year, mode, net, ledger, taxable, negative, own, crossed, prior,
                 arisen, relieved, expired, opening>>

CrossAmount(g) == Least(negative[Other(g)], Least(taxable[g], allowance[g]))

(* Fault: the current year's cross does not use up the allowance. *)
AllowanceLeftWhole(g) == allowance[g]

AllowanceLeft(g) == allowance[g] - CrossAmount(g)

(* The year's negative result of one group reduces the other.               *)
CrossCurrent ==
  /\ pc = "cross"
  /\ crossed' = [g \in Group |-> CrossAmount(g)]
  /\ relieved' = [g \in Group |-> [relieved[g] EXCEPT ![year] =
                                     @ + CrossAmount(Other(g))]]
  /\ taxable' = [g \in Group |-> taxable[g] - CrossAmount(g)]
  /\ allowance' = [g \in Group |-> AllowanceLeft(g)]
  /\ negative' = [g \in Group |-> negative[g] - CrossAmount(Other(g))]
  /\ pc' = IF mode = "Navarra" THEN "prior" ELSE "own"
  /\ UNCHANGED <<year, mode, net, ledger, own, prior, arisen, expired, opening,
                 applied>>

(* Carried balances of one group reduce what is left of the other, within   *)
(* what is left of the allowance.                                           *)
CrossBudget(g) == Least(taxable[g], allowance[g])

CrossPrior ==
  /\ pc = "prior"
  /\ ~Through
  /\ LET used == [g \in Group |-> Used(g, CrossBudget(Other(g)))]
     IN  /\ ledger' = [g \in Group |-> [ledger[g] EXCEPT ![Origin] = @ - used[g]]]
         /\ relieved' = [g \in Group |-> [relieved[g] EXCEPT ![Origin] = @ + used[g]]]
         /\ taxable' = [g \in Group |-> taxable[g] - used[Other(g)]]
         /\ allowance' = [g \in Group |-> allowance[g] - used[Other(g)]]
         /\ prior' = [g \in Group |-> prior[g] + used[Other(g)]]
  /\ applied' = applied + 1
  /\ UNCHANGED <<year, mode, net, negative, own, crossed, arisen, expired, opening,
                 pc>>

PriorCrossed ==
  /\ pc = "prior"
  /\ Through
  /\ applied' = 0
  /\ pc' = "carry"
  /\ UNCHANGED <<year, mode, net, ledger, taxable, negative, allowance, own,
                 crossed, prior, arisen, relieved, expired, opening>>

(* Fault: the negative result is carried as it was before the cross. *)
CarriedNet(g, y) == IF y = year THEN Most(0, -net[g]) ELSE ledger[g][y]

(* add(): what is left of the year's negative result joins the ledger.      *)
Carried(g, y) == IF y = year THEN ledger[g][y] + negative[g] ELSE ledger[g][y]

(* carry_forward_and_expire()                                               *)
CarryForward ==
  /\ pc = "carry"
  /\ expired' = [g \in Group |-> [y \in Year |->
                   expired[g][y] + IF Expires(y) THEN Carried(g, y) ELSE 0]]
  /\ ledger' = [g \in Group |-> [y \in Year |->
                  IF Expires(y) THEN 0 ELSE Carried(g, y)]]
  /\ negative' = Zero
  /\ year' = year + 1
  /\ pc' = "config"
  /\ UNCHANGED <<mode, net, taxable, allowance, own, crossed, prior, arisen,
                 relieved, opening, applied>>

(* The years end.  A configuration the program refuses ends the model in a  *)
(* deadlock: what one return prints, the next has to accept.                *)
Finished ==
  /\ pc = "config" /\ year = MaxYear
  /\ UNCHANGED vars

Next ==
  \/ \E results \in [Group -> Results], regime \in Mode : OpenYear(results, regime)
  \/ AbsorbOwn \/ OwnAbsorbed
  \/ CrossCurrent
  \/ CrossPrior \/ PriorCrossed
  \/ CarryForward
  \/ Finished

Spec == Init /\ [][Next]_vars

-----------------------------------------------------------------------------
Amounts == [Group -> [Year -> Nat]]

(* Types of the variables; in particular nothing is ever reduced below zero.*)
TypeOK ==
  /\ year \in Year
  /\ mode \in Mode
  /\ net \in [Group -> Int]
  /\ ledger \in Amounts /\ opening \in Amounts
  /\ taxable \in [Group -> Nat]
  /\ negative \in [Group -> Nat]
  /\ allowance \in [Group -> Nat]
  /\ own \in [Group -> Nat] /\ crossed \in [Group -> Nat] /\ prior \in [Group -> Nat]
  /\ arisen \in Amounts /\ relieved \in Amounts /\ expired \in Amounts
  /\ applied \in Nat
  /\ pc \in {"config", "own", "cross", "prior", "carry", "rejected"}

(* Every loss is accounted for, in every year and at every step: what arose *)
(* has been set against income once, has expired, or is still pending --    *)
(* although it may be used in parts, in several years, by both groups, and  *)
(* twice in one year (LedgerApplication::merge).                            *)
LossConserved ==
  \A g \in Group, y \in Year :
    arisen[g][y] = relieved[g][y] + expired[g][y] + ledger[g][y]
                   + IF y = year THEN negative[g] ELSE 0

(* A loss expires at the end of the last year in which it may be used,      *)
(* CARRYFORWARD_YEARS after its own, neither a year early nor later, and    *)
(* only if its group had nothing left to reduce in that year, and no        *)
(* younger loss of its group was used in that year in its place             *)
(* (art. 49.2, apply(), drop_expired()).                                    *)
NothingWasted ==
  [][\A g \in Group, y \in Year :
       /\ expired'[g][y] > expired[g][y] =>
            /\ year = y + CarryforwardYears
            /\ taxable[g] = 0
            /\ \A x \in Year : y < x /\ x < year => ledger[g][x] = opening[g][x]
       /\ y + CarryforwardYears < year' => ledger'[g][y] = 0]_vars

(* At most a quarter of a group's positive result is reduced by the other   *)
(* group, in both ways together, and nothing in Gipuzkoa; Navarra measures  *)
(* the quarter after the group's own balances.                              *)
CrossLimited ==
  \A g \in Group :
    LET measured == Most(0, net[g]) - IF mode = "Navarra" THEN own[g] ELSE 0
    IN  4 * (crossed[g] + prior[g]) <= IF mode = "None" THEN 0 ELSE measured

(* The maximum the regime allows is absorbed every year: a group is taxed   *)
(* only when its own balances are used up, and when the other group has     *)
(* nothing left or the limit of what may cross is reached.                  *)
AbsorbsMaximum ==
  pc = "carry" =>
    \A g \in Group :
      taxable[g] > 0 =>
        /\ \A y \in Year : ledger[g][y] = 0
        /\ \/ allowance[g] = 0
           \/ negative[Other(g)] = 0 /\ \A y \in Year : ledger[Other(g)][y] = 0

=============================================================================
