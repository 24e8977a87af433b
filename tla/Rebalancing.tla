---------------------------- MODULE Rebalancing ----------------------------
(***************************************************************************)
(* The orders that `investments rebalance` proposes: portfolio/            *)
(* rebalancing.rs on the tree of portfolio/asset_allocation.rs.            *)
(*                                                                         *)
(* The net value is handed down the tree by the configured weights, group  *)
(* by group: rounded to whole orders, cut to what may be bought and sold,  *)
(* and corrected trade by trade until what the group was given is spent.   *)
(* What a group could not spend returns to its parent.  At last the cash   *)
(* left over at the top is spent, or what is missing is raised, trade by   *)
(* trade over the whole tree, each trade changing the commissions and so   *)
(* the net value everything is measured by.                                *)
(*                                                                         *)
(* Amounts are integers: One of them is a unit of the portfolio's          *)
(* currency, and Unit parts are a share.  Constants are chosen so that no  *)
(* weighting leaves a fraction.  The program reads one portfolio, changes  *)
(* nothing and prints; a behaviour is one such command.                    *)
(***************************************************************************)
EXTENDS Integers, Sequences, FiniteSets, FiniteSetsExt, Functions, SequencesExt

CONSTANTS
  Stock, Group,          \* the nodes of the tree
  Root,                  \* the portfolio itself, a group
  Children,              \* [Group -> Seq(Stock \cup Group)], as configured
  Price,                 \* price of a share
  Unit,                  \* parts of a share
  One,                   \* amounts of a unit of currency
  Parts,                 \* weights are n / Parts
  Fee,                   \* commission of a trade, whatever its size
  ShareFee,              \* commission per share begun
  DailyFee,              \* minimum commission of a day with trades
  Portfolios             \* BOUND: the portfolios and their configuration

Node == (Stock \cup Group) \ {Root}

Members(g) == ToSet(Children[g])

Parent(n) == CHOOSE g \in Group : n \in Members(g)

(* The groups an asset is in, directly or not: the least set that contains  *)
(* the group of the asset and the groups of its own members.                *)
Above ==
  [n \in Stock \cup Group |->
     {g \in Group : \A up \in SUBSET Group :
        (\A h \in Group : n \in Members(h) \/ up \cap Members(h) # {} => h \in up)
          => g \in up}]

(* The stocks in or under an asset.                                         *)
Under == [n \in Stock \cup Group |-> {s \in Stock : n = s \/ n \in Above[s]}]

Sum(values, S) == SumFunctionOnSet(values, S)

Options == UNION {[named -> BOOLEAN] : named \in SUBSET (Stock \cup Group)}

(* The configuration is a tree with stocks for leaves, and what is wrong    *)
(* with the weights of a group is an error when it is loaded.               *)
ASSUME RebalancingAssumption ==
  /\ IsFiniteSet(Stock) /\ IsFiniteSet(Group)
  /\ Root \in Group /\ Stock \cap Group = {}
  /\ Children \in [Group -> Seq(Node)]
  /\ \A n \in Node : \E g \in Group : n \in Members(g)
  /\ \A g, h \in Group : g # h => Members(g) \cap Members(h) = {}
  /\ \A n \in Node : Root \in Above[n] /\ n \notin Above[n] /\ Under[n] # {}
  /\ Price \in [Stock -> Nat] /\ \A s \in Stock : Price[s] > 0 /\ Price[s] % Unit = 0
  /\ {Unit, One, Parts} \subseteq Nat \ {0}
  /\ {Fee, ShareFee, DailyFee} \subseteq Nat
  /\ Portfolios \subseteq
       [shares : [Stock -> Nat], weight : [Node -> 0 .. Parts], noBuying : Options,
        noSelling : Options, fractional : BOOLEAN, minTrade : Nat, reserve : Nat, cash : Int]
  /\ \A p \in Portfolios, g \in Group : Sum(p.weight, Members(g)) = Parts

VARIABLES
  portfolio,             \* what is held, and the configuration
  phase,
  min, max,              \* [Node -> amount]: min_value and max_value
  stage,                 \* [Group -> where its rebalancing is]
  total,                 \* [Group -> target_total_value]
  balance,               \* [Group -> what is left to spend]
  target,                \* [Node -> target_value]
  shares,                \* [Stock -> target_shares]
  cash,                  \* target_cash_assets
  net,                   \* target_net_value
  commissions,
  daily                  \* the additional commissions taken into account

tree == <<stage, total, balance>>
money == <<shares, cash, net, commissions, daily>>
vars == <<portfolio, phase, min, max, tree, target, money>>

NoLimit == -1

-----------------------------------------------------------------------------
Weight(n) == portfolio.weight[n]

Held(s) == (portfolio.shares[s] * Price[s]) \div Unit

CurrentValue(n) == Sum([s \in Stock |-> Held(s)], Under[n])

CurrentNetValue == portfolio.cash + CurrentValue(Root)

Expected(value, n) == (value * Weight(n)) \div Parts

(* apply_restrictions() of the configuration: the nearest option counts.    *)
Restricted(option, n) ==
  LET nearest[m \in Stock \cup Group] ==
        IF m \in DOMAIN option THEN option[m]
        ELSE IF m = Root THEN FALSE ELSE nearest[Parent(m)]
  IN  nearest[n]

-----------------------------------------------------------------------------
(* calculate_restrictions(), bottom-up.                                     *)
KeptValue(s) == IF Restricted(portfolio.noSelling, s) THEN Held(s) ELSE 0

MinValue(n) == Sum([s \in Stock |-> KeptValue(s)], Under[n])

BuyLimit(s) == IF Restricted(portfolio.noBuying, s) THEN Held(s) ELSE NoLimit

(* A stock counts with its minimum where the stock, or a group it is in     *)
(* on the way to n, is deprecated.                                          *)
LimitWithin(n, s) ==
  IF \E m \in {s} \cup Above[s] : n \in Above[m] /\ Weight(m) = 0 THEN KeptValue(s)
  ELSE BuyLimit(s)

(* The limit before the asset's own weight is looked at: stocks with        *)
(* limits, all of them, limit their group.                                  *)
RawMax(n) ==
  IF \E s \in Under[n] : LimitWithin(n, s) = NoLimit THEN NoLimit
  ELSE Sum([s \in Stock |-> LimitWithin(n, s)], Under[n])

(* propagate_zero_weight(): a deprecated asset is limited to its minimum,   *)
(* and so is all that is in it when it may be sold out.                     *)
Deprecated(n) ==
  \/ Weight(n) = 0
  \/ \E g \in Above[n] \ {Root} : Weight(g) = 0 /\ MinValue(g) = 0

MaxValue(n) == IF Deprecated(n) THEN MinValue(n) ELSE RawMax(n)

(* assert_eq!(max_value, asset.min_value)                                   *)
AssertionFails ==
  \E n \in Node : /\ Weight(n) = 0 /\ MinValue(n) # 0
                  /\ RawMax(n) \notin {NoLimit, MinValue(n)}

Init ==
  /\ portfolio \in Portfolios
  /\ phase = "restrictions"
  /\ min = [n \in Node |-> 0] /\ max = [n \in Node |-> NoLimit]
  /\ stage = [g \in Group |-> "waiting"]
  /\ total = [g \in Group |-> 0] /\ balance = [g \in Group |-> 0]
  /\ target = [n \in Node |-> CurrentValue(n)]
  /\ shares = portfolio.shares
  /\ cash = portfolio.cash /\ net = CurrentNetValue
  /\ commissions = 0 /\ daily = 0

CalculateRestrictions ==
  /\ phase = "restrictions"
  /\ phase' = IF AssertionFails THEN "panicked" ELSE "groups"
  /\ min' = [n \in Node |-> MinValue(n)]
  /\ max' = [n \in Node |-> MaxValue(n)]
  /\ UNCHANGED <<portfolio, tree, target, money>>

-----------------------------------------------------------------------------
(* trade_granularity() and iterative_trading_granularity().                 *)
Fractional(s) == portfolio.fractional /\ portfolio.shares[s] % Unit # 0

TradeGranularity(s) == IF Fractional(s) THEN Price[s] \div Unit ELSE Price[s]

(* Not less than a unit of the currency; a fractional position smaller, as  *)
(* a number of shares, than that amount is sold whole.                      *)
StockGranularity(type, s) ==
  LET volume == IF TradeGranularity(s) < One THEN Price[s] ELSE TradeGranularity(s)
  IN  IF /\ type = "sell" /\ portfolio.fractional
         /\ volume * Unit > shares[s] * One /\ shares[s] # 0
      THEN (Price[s] * shares[s]) \div Unit
      ELSE volume

Granularity(type, n) == Min({StockGranularity(type, s) : s \in Under[n]})

(* Half away from zero; and up to a multiple.                               *)
Round(a, b) == IF a < 0 THEN -((b - 2 * a) \div (2 * b)) ELSE (2 * a + b) \div (2 * b)

CeilTo(a, b) == -((-a) \div b) * b

(* calculate_initial_target_values(): whole orders, none smaller than the   *)
(* minimum trade.                                                           *)
Rounded(n, expected) ==
  LET current == CurrentValue(n)
      raw == expected - current
      whole == TradeGranularity(n) * Round(raw, TradeGranularity(n))
      kept == IF whole < 0 /\ -whole > current THEN whole + TradeGranularity(n) ELSE whole
      difference == IF n \in Stock THEN kept ELSE raw
  IN  IF difference < portfolio.minTrade /\ -difference < portfolio.minTrade
      THEN current ELSE current + difference

(* AssetGroupRebalancer::apply_restrictions()                               *)
Within(n, value) ==
  LET capped == IF max[n] # NoLimit /\ value > max[n] THEN max[n] ELSE value
  IN  IF capped < min[n] THEN min[n] ELSE capped

(* The groups are opened depth first, in the order of the configuration.    *)
Turn(g) ==
  IF g = Root THEN phase = "groups"
  ELSE /\ stage[Parent(g)] = "nested"
       /\ LET siblings == SelectSeq(Children[Parent(g)], LAMBDA n : n \in Group)
          IN  \A i, j \in DOMAIN siblings :
                siblings[j] = g /\ i < j => stage[siblings[i]] = "done"

OpenGroup(g) ==
  LET given == IF g = Root THEN net - portfolio.reserve ELSE target[g]
      Initial(n) == Within(n, Rounded(n, Expected(given, n)))
      unspent == [n \in Members(g) |-> Expected(given, n) - Initial(n)]
  IN  /\ stage[g] = "waiting" /\ Turn(g)
      /\ stage' = [stage EXCEPT ![g] = "selling"]
      /\ total' = [total EXCEPT ![g] = given]
      /\ target' = [n \in Node |-> IF n \in Members(g) THEN Initial(n) ELSE target[n]]
      /\ balance' = [balance EXCEPT ![g] = Sum(unspent, Members(g))]
      /\ UNCHANGED <<portfolio, phase, min, max, money>>

-----------------------------------------------------------------------------
(* Fault: an order of exactly the minimum is taken for a smaller one.      *)
MinimumMissed(n) ==
  LET least == Granularity("sell", n)
      current == CurrentValue(n)
  IN  IF target[n] <= current
      THEN IF target[n] < current - portfolio.minTrade THEN least
           ELSE CeilTo(portfolio.minTrade - (current - target[n]), least)
      ELSE IF target[n] - least >= current + portfolio.minTrade THEN least
           ELSE target[n] - current

(* The smallest trade of an asset that leaves its order, if any, not        *)
(* smaller than the minimum.                                                *)
MinSellVolume(n) ==
  LET least == Granularity("sell", n)
      current == CurrentValue(n)
  IN  IF target[n] <= current
      THEN IF target[n] <= current - portfolio.minTrade THEN least
           ELSE CeilTo(portfolio.minTrade - (current - target[n]), least)
      ELSE IF target[n] - least >= current + portfolio.minTrade THEN least
           ELSE target[n] - current

MinBuyVolume(n) ==
  LET least == Granularity("buy", n)
      current == CurrentValue(n)
  IN  IF target[n] >= current
      THEN IF target[n] >= current + portfolio.minTrade THEN least
           ELSE CeilTo(portfolio.minTrade - (target[n] - current), least)
      ELSE IF target[n] + least <= current - portfolio.minTrade THEN least
           ELSE current - target[n]

(* calculate_trade_result(): the value as a multiple of what is expected,   *)
(* a fraction; <<1, 0>> is f64::MAX.                                        *)
TradeResult(expected, value) ==
  IF expected = 0 THEN IF value = 0 THEN <<1, 1>> ELSE <<1, 0>>
  ELSE IF expected < 0 THEN <<-value, -expected>> ELSE <<value, expected>>

(* Fault: the limit of what may be bought is not looked at.               *)
LimitForgotten(type, n, expected, available) ==
  LET volume == IF type = "sell" THEN -MinSellVolume(n) ELSE MinBuyVolume(n)
      allowed == IF type = "sell" THEN target[n] + volume >= min[n]
                 ELSE volume <= available
  IN  IF allowed
      THEN {[on |-> n, volume |-> volume, result |-> TradeResult(expected, target[n] + volume)]}
      ELSE {}

(* Fault: a trade is not compared with the money there is.                *)
MoneyForgotten(type, n, expected, available) ==
  LET volume == IF type = "sell" THEN -MinSellVolume(n) ELSE MinBuyVolume(n)
      allowed == IF type = "sell" THEN target[n] + volume >= min[n]
                 ELSE max[n] # NoLimit => target[n] + volume <= max[n]
  IN  IF allowed
      THEN {[on |-> n, volume |-> volume, result |-> TradeResult(expected, target[n] + volume)]}
      ELSE {}

(* calculate_min_trade_volume(): none or one.                               *)
PossibleTrades(type, n, expected, available) ==
  LET volume == IF type = "sell" THEN -MinSellVolume(n) ELSE MinBuyVolume(n)
      allowed == IF type = "sell" THEN target[n] + volume >= min[n]
                 ELSE /\ max[n] # NoLimit => target[n] + volume <= max[n]
                      /\ volume <= available
  IN  IF allowed
      THEN {[on |-> n, volume |-> volume, result |-> TradeResult(expected, target[n] + volume)]}
      ELSE {}

(* get_best_trade(): strictly better.                                       *)
Better(type, t, u) ==
  LET less(r, q) == r[1] * q[2] < q[1] * r[2]
  IN  CASE less(t.result, u.result) -> type = "buy"
        [] less(u.result, t.result) -> type = "sell"
        [] OTHER -> t.volume < u.volume

Best(type, trades) == {t \in trades : \A u \in trades : ~Better(type, u, t)}

Type(g) == IF stage[g] = "selling" THEN "sell" ELSE "buy"

Unbalanced(g) == IF stage[g] = "selling" THEN balance[g] < 0 ELSE balance[g] >= 0

GroupTrades(g) ==
  UNION {PossibleTrades(Type(g), n, Expected(total[g], n), balance[g]) : n \in Members(g)}

(* correct_balance(): assets are tried in the order of a hash set, so any   *)
(* of the equally good trades may be taken.                                 *)
CorrectBalance(g) ==
  /\ stage[g] \in {"selling", "buying"} /\ Unbalanced(g)
  /\ \E t \in Best(Type(g), GroupTrades(g)) :
       /\ target' = [target EXCEPT ![t.on] = @ + t.volume]
       /\ balance' = [balance EXCEPT ![g] = @ - t.volume]
  /\ UNCHANGED <<portfolio, phase, min, max, stage, total, money>>

Corrected(g) ==
  /\ stage[g] \in {"selling", "buying"}
  /\ Unbalanced(g) => GroupTrades(g) = {}
  /\ stage' = [stage EXCEPT ![g] = IF @ = "selling" THEN "buying" ELSE "nested"]
  /\ UNCHANGED <<portfolio, phase, min, max, total, balance, target, money>>

(* Fault: the group still counts with what it was given.                   *)
TargetKept(g) ==
  /\ balance' = [balance EXCEPT ![Parent(g)] = @ + balance[g]]
  /\ UNCHANGED target

(* propagate_changes(): what a group could not spend returns to its parent. *)
Returned(g) ==
  /\ target' = [target EXCEPT ![g] = @ - balance[g]]
  /\ balance' = [balance EXCEPT ![Parent(g)] = @ + balance[g]]

CloseGroup(g) ==
  /\ stage[g] = "nested"
  /\ \A h \in Members(g) \cap Group : stage[h] = "done"
  /\ stage' = [stage EXCEPT ![g] = "done"]
  /\ IF g = Root THEN phase' = "result" /\ UNCHANGED <<target, balance>>
                 ELSE Returned(g) /\ UNCHANGED phase
  /\ UNCHANGED <<portfolio, min, max, total, money>>

-----------------------------------------------------------------------------
(* calculate_target_commission(), a function of the order alone.            *)
Commission(s, n) ==
  LET ordered == IF n < portfolio.shares[s] THEN portfolio.shares[s] - n
                                            ELSE n - portfolio.shares[s]
  IN  IF ordered = 0 THEN 0 ELSE Fee + ShareFee * (CeilTo(ordered, Unit) \div Unit)

Additional(now) == IF \E s \in Stock : now[s] # portfolio.shares[s] THEN DailyFee ELSE 0

SharesOf(s, value) == (value * Unit) \div Price[s]

(* calculate_result_value(), and the commissions so far: change_commission  *)
(* takes them from the cash and from the net value.                         *)
CalculateResult ==
  /\ phase = "result"
  /\ phase' = "sell"
  /\ shares' = [s \in Stock |-> SharesOf(s, target[s])]
  /\ daily' = Additional(shares')
  /\ commissions' = Sum([s \in Stock |-> Commission(s, shares'[s])], Stock) + daily'
  /\ net' = net - commissions'
  /\ cash' = net - Sum(target, Stock) - commissions'
  /\ UNCHANGED <<portfolio, min, max, tree, target>>

(* find_assets_for_cash_distribution(): in every group the first of the     *)
(* best trades, which is then measured by the group.                        *)
DistributionExpected ==
  LET expected[n \in Stock \cup Group] ==
        IF n = Root THEN net - portfolio.reserve ELSE Expected(expected[Parent(n)], n)
  IN  expected

StockTrades(type, s) ==
  PossibleTrades(type, s, DistributionExpected[s], cash - portfolio.reserve)

BestTrade(type) ==
  LET found[n \in Stock \cup Group] ==
        IF n \in Stock THEN StockTrades(type, n)
        ELSE LET all == UNION {found[m] : m \in Members(n)}
                 best == {t \in Best(type, all) :
                            \A i, j \in DOMAIN Children[n] :
                              /\ t.on \in Under[Children[n][j]] /\ i < j
                              => found[Children[n][i]] \cap Best(type, all) = {}}
             IN  IF n = Root THEN best
                 ELSE {[t EXCEPT !.result = TradeResult(DistributionExpected[n],
                                                        target[n] + t.volume)] : t \in best}
  IN  {t.on : t \in found[Root]}

DistributionTrades(type) ==
  {t \in UNION {StockTrades(type, s) : s \in Stock} : t.on \in BestTrade(type)}

Wanted(type) ==
  IF type = "sell" THEN cash < portfolio.reserve ELSE cash >= portfolio.reserve

(* process_trade() down the path, and change_commission().                  *)
DistributeCash ==
  /\ phase \in {"sell", "buy"} /\ Wanted(phase)
  /\ \E t \in DistributionTrades(phase) :
       LET s == t.on
           now == SharesOf(s, target[s] + t.volume)
           fee == Commission(s, now) - Commission(s, shares[s])
       IN  /\ target' = [n \in Node |-> IF n \in {s} \cup Above[s] THEN target[n] + t.volume
                                                                   ELSE target[n]]
           /\ shares' = [shares EXCEPT ![s] = now]
           /\ cash' = cash - t.volume - fee
           /\ net' = net - fee
           /\ commissions' = commissions + fee
  /\ UNCHANGED <<portfolio, phase, min, max, tree, daily>>

Distributed ==
  /\ phase \in {"sell", "buy"}
  /\ Wanted(phase) => DistributionTrades(phase) = {}
  /\ phase' = IF phase = "sell" THEN "buy" ELSE "fees"
  /\ UNCHANGED <<portfolio, min, max, tree, target, money>>

(* The additional commissions of the orders as they are now.                *)
ChargeAdditional ==
  /\ phase = "fees"
  /\ phase' = "done"
  /\ daily' = Additional(shares)
  /\ commissions' = commissions + daily' - daily
  /\ net' = net - (daily' - daily)
  /\ cash' = cash - (daily' - daily)
  /\ UNCHANGED <<portfolio, min, max, tree, target, shares>>

Work ==
  \/ CalculateRestrictions
  \/ \E g \in Group : OpenGroup(g) \/ CorrectBalance(g) \/ Corrected(g) \/ CloseGroup(g)
  \/ CalculateResult
  \/ DistributeCash \/ Distributed
  \/ ChargeAdditional

Finished == phase \in {"done", "panicked"} /\ UNCHANGED vars

Next == Work \/ Finished

(* One sequential program.                                                  *)
Spec == Init /\ [][Next]_vars /\ WF_vars(Work)

-----------------------------------------------------------------------------
(* Two kinds of stock are sold out, to the last fraction of a share even    *)
(* where only whole ones are traded, and however little they are worth: a   *)
(* deprecated one, whose limits cut what the calculation in whole shares    *)
(* would keep of it (apply_restrictions()), and one beside the groups of a  *)
(* portfolio that is worth less than its reserve.                           *)
SoldOut(s) ==
  /\ target[s] = 0
  /\ \/ Deprecated(s)
     \/ s \in Members(Root) /\ CurrentNetValue < portfolio.reserve

(* Every order is one the user allowed: nothing restricted is bought or     *)
(* sold, nothing is sold that is not held, a deprecated stock is not        *)
(* bought, no fraction of a share is traded where only whole ones can be,   *)
(* and no order is smaller than min_trade_volume -- through all the levels  *)
(* of groups and in both passes of trades.  The last two give way only to   *)
(* an order that leaves nothing of a stock that is to be sold out: it       *)
(* clears the fraction that is held as well, although the broker trades     *)
(* whole shares.  What is kept of any other stock differs from what was     *)
(* held by whole shares.                                                    *)
OrdersAllowed ==
  phase \in {"sell", "buy", "fees", "done"} =>
    \A s \in Stock :
      LET ordered == target[s] - Held(s)
      IN  /\ target[s] * Unit = shares[s] * Price[s] /\ shares[s] >= 0
          /\ Restricted(portfolio.noSelling, s) => ordered >= 0
          /\ Restricted(portfolio.noBuying, s) \/ Weight(s) = 0 => ordered <= 0
          /\ \/ Fractional(s) \/ SoldOut(s)
             \/ (shares[s] - portfolio.shares[s]) % Unit = 0
          /\ \/ ordered = 0 \/ SoldOut(s)
             \/ ordered >= portfolio.minTrade \/ -ordered >= portfolio.minTrade

(* No value appears or vanishes: what a group was given is what its members *)
(* have and what is left, on every level and after every trade; and at any  *)
(* moment of the distribution the cash, the orders and the commissions are  *)
(* together the portfolio's value.                                          *)
ValueConserved ==
  /\ phase \in {"groups", "result"} =>
       \A g \in Group : stage[g] # "waiting" =>
         Sum(target, Members(g)) + balance[g] = total[g]
  /\ \A g \in Group \ {Root} : stage[g] = "done" => Sum(target, Members(g)) = target[g]
  /\ phase \in {"sell", "buy", "fees", "done"} =>
       /\ cash + Sum(target, Stock) = net
       /\ net + commissions = CurrentNetValue
       /\ commissions = Sum([s \in Stock |-> Commission(s, shares[s])], Stock) + daily

(* The cash that must remain remains, but for the commission of the last    *)
(* order and of the day; otherwise everything has been sold that may be.    *)
ReserveKept ==
  phase = "done" =>
    \/ cash + Fee + ShareFee + DailyFee >= portfolio.reserve
    \/ \A s \in Stock : target[s] - min[s] < Price[s] + portfolio.minTrade

(* Trading ends although every trade costs a commission, the commissions    *)
(* reduce what is distributed, and what was sold may be bought back.        *)
RebalancingEnds == <>(phase \in {"done", "panicked"})

(* What calculate_restrictions() asserts of a deprecated asset.             *)
DeprecatedIsFixed == phase # "panicked"

=============================================================================
