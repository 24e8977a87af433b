----------------------------- MODULE StockFifo -----------------------------
(***************************************************************************)
(* How a broker statement's trades are matched with its purchases          *)
(* (src/src/broker_statement: mod.rs, trades.rs, corporate_actions.rs,     *)
(* validators.rs).                                                         *)
(*                                                                         *)
(* A statement is not a history: it is a list of buys, a list of sells, a  *)
(* list of corporate actions and the open positions at its end, each with  *)
(* its own order.  The loader sorts them, applies the corporate actions in *)
(* the order of their times -- by remembering a divisor, by renaming       *)
(* trades, or, for a complex split, by matching the trades up to that time *)
(* and converting the position -- and only then matches every sell with    *)
(* the oldest unsold buys.  Simulated sells are appended later and matched *)
(* by the same procedure.                                                  *)
(*                                                                         *)
(* The first phase ("trading") is what happened in the world: each event   *)
(* changes the chronological ledger (ShareLedger) and is written to the    *)
(* statement.  The other phases are the program's.  Its result must be the *)
(* ledger's.                                                               *)
(***************************************************************************)
EXTENDS Integers, Sequences, SequencesExt, FiniteSets, FiniteSetsExt, Functions

CONSTANTS
  Symbol,        \* ticker symbols
  Traded,        \* those that trade from the start; others appear by renames
  Unit,          \* parts an acquisition is divided into
  Scale,         \* units of quantity in one share
  Ratios,        \* stock split ratios <<from, to>>
  Exact,         \* numbers whose inverse is a finite decimal fraction
  RussianBroker, \* the broker's jurisdiction: every split resets the FIFO order
  NewestFirst,   \* the statement lists trades from the newest to the oldest
  Kinds,         \* BOUND: kinds of events that happen
  Quantities,    \* BOUND: shares in a trade
  MaxEvents,     \* BOUND: events in the history
  MaxHeld,       \* BOUND: shares held of one symbol
  MaxSells       \* BOUND: simulated sells

ASSUME StockFifoAssumption ==
  /\ Traded \subseteq Symbol
  /\ Unit \in Nat \ {0} /\ Scale \in Nat \ {0}
  /\ Ratios \subseteq (Nat \ {0}) \X (Nat \ {0})
  /\ Exact \subseteq Nat \ {0}
  /\ RussianBroker \in BOOLEAN /\ NewestFirst \in BOOLEAN
  /\ Quantities \subseteq Nat \ {0}
  /\ MaxEvents \in Nat /\ MaxHeld \in Nat /\ MaxSells \in Nat

VARIABLES
  holding, realised,  \* the chronological ledger
  clock,              \* the time of the last event
  count,              \* events so far; an event is named by its number
  buys,      \* stock_buys: Seq([id, symbol, time, qty, sold, origin, created])
  sells,     \* stock_sells: Seq([id, symbol, time, qty, left, origin, created])
  actions,   \* corporate_actions still to be processed
  splits,    \* stock_splits: symbol -> {<<time, divisor>>}
  positions, \* open_positions, as the statement declares them
  until,     \* process_trades(until)
  stage      \* what the program is doing

svars == <<holding, realised, clock, count, buys, sells, actions, splits,
           positions, until, stage>>

Event == 1 .. MaxEvents + MaxSells

Ledger == INSTANCE ShareLedger

Never == MaxEvents + MaxSells + 1

Statement == <<buys, sells, actions>>

Put(list, item) == IF NewestFirst THEN <<item>> \o list ELSE Append(list, item)

-----------------------------------------------------------------------------
(* The world.                                                               *)

StockInit ==
  /\ Ledger!LedgerInit
  /\ clock = 0 /\ count = 0
  /\ buys = <<>> /\ sells = <<>> /\ actions = <<>>
  /\ splits = [s \in Symbol |-> {}]
  /\ positions = [s \in Symbol |-> 0]
  /\ until = Never
  /\ stage = "trading"

Held(s) == Ledger!TotalQty(holding[s])

NewBuy(id, s, time, q, origin, created) ==
  [id |-> id, symbol |-> s, time |-> time, qty |-> q, sold |-> 0,
   origin |-> origin, created |-> created]

NewSell(id, s, time, q, created) ==
  [id |-> id, symbol |-> s, time |-> time, qty |-> q, left |-> q,
   origin |-> Ledger!Nothing, created |-> created]

(* A trade happens after the previous event, or is the one to bear the very *)
(* time of a split or a rename (of which often only the date is known), in  *)
(* which case it belongs to the time after it.                              *)
TradeTimes ==
  {clock + 1} \cup {t \in {clock} :
    /\ \E a \in ToSet(actions) : a.time = t /\ a.kind \in {"split", "rename"}
    /\ \A trade \in ToSet(buys) \cup ToSet(sells) : trade.time < t}

Happens(kind, time) ==
  /\ stage = "trading"
  /\ kind \in Kinds
  /\ count < MaxEvents
  /\ count' = count + 1
  /\ clock' = time
  /\ UNCHANGED <<splits, positions, until, stage>>

(* Purchases, and grants (which process_grants turns into zero cost buys).  *)
(* A ticker that was given up may be used again, but not on that day.       *)
BuyShares(s, n, time) ==
  /\ Happens("buy", time)
  /\ s \in Traded \/ holding[s] # <<>>
  /\ \A a \in ToSet(actions) : (a.kind = "rename" /\ a.symbol = s) => a.time < time
  /\ Held(s) + n * Scale <= MaxHeld * Scale
  /\ Ledger!Acquire(s, count', n * Scale)
  /\ buys' = Put(buys, NewBuy(count', s, time, n * Scale, Ledger!Whole(count'), FALSE))
  /\ UNCHANGED <<sells, actions>>

SellShares(s, n, time) ==
  /\ Happens("sell", time)
  /\ Ledger!Dispose(s, count', n * Scale)
  /\ sells' = Put(sells, NewSell(count', s, time, n * Scale, FALSE))
  /\ UNCHANGED <<buys, actions>>

Occurs(action) ==
  /\ Happens(action.kind, action.time)
  /\ actions' = Put(actions, action)
  /\ UNCHANGED <<buys, sells>>

(* A spinoff or a stock dividend: shares that cost nothing.                 *)
Spinoff(s, n) ==
  /\ Held(s) + n * Scale <= MaxHeld * Scale
  /\ s \in Traded
  /\ Occurs([kind |-> "spinoff", time |-> clock + 1, id |-> count + 1, symbol |-> s,
             qty |-> n * Scale])
  /\ Ledger!Acquire(s, count', n * Scale)

(* A delisting or a liquidation closes the position.                        *)
Delisting(s) ==
  /\ Held(s) > 0
  /\ Occurs([kind |-> "delisting", time |-> clock + 1, id |-> count + 1, symbol |-> s,
             qty |-> Held(s)])
  /\ Ledger!Dispose(s, count', Held(s))

RenameSymbol(s, t) ==
  /\ t \notin Traded
  /\ \A x \in ToSet(buys) \cup ToSet(actions) : x.symbol # t
  /\ Occurs([kind |-> "rename", time |-> clock + 1, symbol |-> s, to |-> t])
  /\ Ledger!RenameLots(s, t)

(* A split, of which the broker reports the deposited quantity or only the  *)
(* ratio.  Where the program keeps the lots, so does the ledger.            *)
KeepsLots(ratio) == ratio[1] = 1 /\ ratio[2] \in Exact /\ ~RussianBroker

Split(s, ratio, reported) ==
  LET q == (Held(s) * ratio[2]) \div ratio[1]
  IN  /\ q * ratio[1] = Held(s) * ratio[2]
      /\ q <= MaxHeld * Scale
      /\ reported \/ ratio[1] = 1 \/ Held(s) % (Scale * ratio[1]) = 0
      /\ Occurs([kind |-> "split", time |-> clock + 1, symbol |-> s, ratio |-> ratio,
                 deposit |-> IF reported THEN q ELSE 0])
      /\ IF KeepsLots(ratio) THEN Ledger!SplitLots(s, ratio[2])
                             ELSE Ledger!PoolLots(s, q)

World ==
  \/ \E s \in Symbol, n \in Quantities, t \in TradeTimes : BuyShares(s, n, t)
  \/ \E s \in Symbol, n \in Quantities, t \in TradeTimes : SellShares(s, n, t)
  \/ \E s \in Symbol, n \in Quantities : Spinoff(s, n)
  \/ \E s \in Symbol : Delisting(s)
  \/ \E s, t \in Symbol : RenameSymbol(s, t)
  \/ \E s \in Symbol, ratio \in Ratios, reported \in BOOLEAN : Split(s, ratio, reported)

-----------------------------------------------------------------------------
(* The list in the order of its times.  What has the same time stays in the *)
(* order of the list (slice::sort_by_key is stable): what a split creates   *)
(* is inserted at the front and comes before the trades of that moment.     *)
Before(list, i, j) ==
  \/ list[i].time < list[j].time
  \/ list[i].time = list[j].time /\ i < j

Nth(list, n) ==
  CHOOSE j \in DOMAIN list : Cardinality({i \in DOMAIN list : Before(list, i, j)}) = n - 1

InOrder(list) == [n \in DOMAIN list |-> list[Nth(list, n)]]

(* load_inner() up to validate(): the lists are sorted.                     *)
Load ==
  /\ stage = "trading"
  /\ stage' = "acting"
  /\ positions' = [s \in Symbol |-> Held(s)]
  /\ buys' = InOrder(buys)
  /\ sells' = InOrder(sells)
  /\ actions' = InOrder(actions)
  /\ UNCHANGED <<holding, realised, clock, count, splits, until>>

-----------------------------------------------------------------------------
(* Corporate actions.                                                       *)

IsSold(buy) == buy.sold = buy.qty

Unsold(buy) == buy.qty - buy.sold

(* What a lot still holds of the acquisitions.                              *)
Kept(buy) == Ledger!Part(buy.origin, Unsold(buy), buy.qty)

(* get_multiplier(): the splits in (from, to], inverted when to is before   *)
(* from.                                                                    *)
Divisors(s, from, to) == {d \in splits[s] : from < d[1] /\ d[1] <= to}

DivisorProduct(splitset) == FoldSet(LAMBDA d, n : d[2] * n, 1, splitset)

Multiplier(s, from, to) ==
  IF from <= to THEN <<DivisorProduct(Divisors(s, from, to)), 1>>
                ELSE <<1, DivisorProduct(Divisors(s, to, from))>>

Times(m, q) == (m[1] * q) \div m[2]

DividedBy(q, m) == (q * m[2]) \div m[1]

Processing(kind) == stage = "acting" /\ actions # <<>> /\ Head(actions).kind = kind

Refuse ==
  /\ stage' = "failed"
  /\ UNCHANGED <<holding, realised, clock, count, buys, sells, actions, splits,
                 positions, until>>

ProcessSpinoff ==
  LET a == Head(actions)
  IN  /\ Processing("spinoff")
      /\ buys' = InOrder(Append(buys,
                   NewBuy(a.id, a.symbol, a.time, a.qty, Ledger!Whole(a.id), FALSE)))
      /\ actions' = Tail(actions)
      /\ UNCHANGED <<holding, realised, clock, count, sells, splits, positions,
                     until, stage>>

ProcessDelisting ==
  LET a == Head(actions)
  IN  /\ Processing("delisting")
      /\ sells' = InOrder(Append(sells, NewSell(a.id, a.symbol, a.time, a.qty, FALSE)))
      /\ actions' = Tail(actions)
      /\ UNCHANGED <<holding, realised, clock, count, buys, splits, positions,
                     until, stage>>

(* rename_symbol(): the splits move with the trades that are not later.     *)
Renamed(trades, a) ==
  [i \in DOMAIN trades |->
     IF trades[i].symbol = a.symbol /\ trades[i].time <= a.time
     THEN [trades[i] EXCEPT !.symbol = a.to] ELSE trades[i]]

(* Fault: the splits stay with the old symbol. *)
MovedSplitsNone(s, t) == splits

MovedSplits(s, t) == [splits EXCEPT ![t] = @ \cup splits[s], ![s] = {}]

ProcessRename ==
  LET a == Head(actions)
      conflict == splits[a.symbol] # {} /\ splits[a.to] # {}
      found == Renamed(buys, a) # buys \/ Renamed(sells, a) # sells
  IN  /\ Processing("rename")
      /\ IF conflict \/ ~found THEN Refuse
         ELSE /\ buys' = Renamed(buys, a)
              /\ sells' = Renamed(sells, a)
              /\ splits' = MovedSplits(a.symbol, a.to)
              /\ actions' = Tail(actions)
              /\ UNCHANGED <<holding, realised, clock, count, positions, until, stage>>

OpenAt(s, time) ==
  {i \in DOMAIN buys : buys[i].symbol = s /\ ~IsSold(buys[i]) /\ buys[i].time < time}

(* StockSplitController::add(): every product of divisors up to the last     *)
(* one must have a finite inverse, or the split is left to the other one.   *)
WithDivisor(a) == splits[a.symbol] \cup {<<a.time, a.ratio[2]>>}

Supported(a) ==
  \A first \in WithDivisor(a) :
    DivisorProduct({d \in WithDivisor(a) : d[1] >= first[1]}) \in Exact

TriesSimple(a) == a.ratio[1] = 1 /\ ~RussianBroker

(* The simple algorithm: the divisor is remembered.                         *)
ProcessSimpleSplit ==
  LET a == Head(actions)
  IN  /\ Processing("split")
      /\ TriesSimple(a)
      /\ Supported(a) \/ OpenAt(a.symbol, a.time) = {}
      /\ IF \/ OpenAt(a.symbol, a.time) = {}
            \/ \E d \in splits[a.symbol] : d[1] = a.time
         THEN Refuse
         ELSE /\ splits' = [splits EXCEPT ![a.symbol] = WithDivisor(a)]
              /\ actions' = Tail(actions)
              /\ UNCHANGED <<holding, realised, clock, count, buys, sells,
                             positions, until, stage>>

(* The complex algorithm first matches all trades before the split ...      *)
StartComplexSplit ==
  LET a == Head(actions)
  IN  /\ Processing("split")
      /\ TriesSimple(a) => OpenAt(a.symbol, a.time) # {} /\ ~Supported(a)
      /\ until' = a.time
      /\ stage' = "matching"
      /\ UNCHANGED <<holding, realised, clock, count, buys, sells, actions,
                     splits, positions>>

(* ... then sells what is left and buys it back in the new quantity.        *)
NewQuantity(q, a) ==
  IF a.deposit # 0 THEN a.deposit ELSE (q * a.ratio[2]) \div a.ratio[1]

ValidSplit(q, a) ==
  IF a.deposit # 0
  THEN a.deposit * a.ratio[1] = q * a.ratio[2]
  ELSE a.ratio[1] = 1 \/ q % (Scale * a.ratio[1]) = 0

ConvertedQty(open, a) ==
  SumFunctionOnSet([i \in open |-> Times(Multiplier(a.symbol, buys[i].time, a.time),
                                         Unsold(buys[i]))], open)

(* Fault: the whole cost of a lot that was partly sold moves on. *)
ConvertedOriginWhole(open) ==
  [e \in Event |-> SumFunctionOnSet([i \in open |-> buys[i].origin[e]], open)]

ConvertedOrigin(open) ==
  LET kept == [i \in open |-> Kept(buys[i])]
  IN  [e \in Event |-> SumFunctionOnSet([i \in open |-> kept[i][e]], open)]

(* The lists' values are bound before they are assigned, so that TLC works   *)
(* each of them out once.                                                    *)
ConvertPosition ==
  LET a == Head(actions)
      open == OpenAt(a.symbol, a.time)
      q == ConvertedQty(open, a)
      origin == ConvertedOrigin(open)
      closed == [i \in DOMAIN buys |->
                   IF i \in open THEN [buys[i] EXCEPT !.sold = @ + Unsold(buys[i])]
                                 ELSE buys[i]]
      sell == [NewSell(0, a.symbol, a.time, q, TRUE) EXCEPT !.left = 0, !.origin = origin]
      buy == NewBuy(0, a.symbol, a.time, NewQuantity(q, a), origin, TRUE)
  IN  /\ stage = "splitting"
      /\ IF open = {} \/ ~ValidSplit(q, a) THEN Refuse
         ELSE /\ \E bought \in {<<buy>> \o closed} : buys' = InOrder(bought)
              /\ \E sold \in {<<sell>> \o sells} : sells' = InOrder(sold)
              /\ actions' = Tail(actions)
              /\ stage' = "acting"
              /\ until' = Never
              /\ UNCHANGED <<holding, realised, clock, count, splits, positions>>

StartMatching ==
  /\ stage = "acting" /\ actions = <<>>
  /\ stage' = "matching"
  /\ UNCHANGED <<holding, realised, clock, count, buys, sells, actions, splits,
                 positions, until>>

-----------------------------------------------------------------------------
(* process_trades(): the inner loop, one source of one sell at a time.      *)

Pending == {i \in DOMAIN sells : sells[i].left > 0 /\ sells[i].time < until}

(* Fault: a lot stays in the queue when it is sold. *)
SourcesWithSold(s) == {i \in DOMAIN buys : buys[i].symbol = s /\ buys[i].time < until}

Sources(s) ==
  {i \in DOMAIN buys : buys[i].symbol = s /\ ~IsSold(buys[i]) /\ buys[i].time < until}

(* Fault: the newest lot goes first. *)
SourceNewest(s) == Max(Sources(s))

(* The oldest lot goes first.                                               *)
Source(s) == Min(Sources(s))

MatchSource ==
  /\ stage = "matching"
  /\ Pending # {}
  /\ LET i == Min(Pending)
         sell == sells[i]
     IN  IF Sources(sell.symbol) = {} THEN Refuse
         ELSE LET j == Source(sell.symbol)
                  m == Multiplier(sell.symbol, buys[j].time, sell.time)
                  q == Ledger!Least(sell.left, Times(m, Unsold(buys[j])))
                  taken == DividedBy(q, m)
              IN  /\ buys' = [buys EXCEPT ![j].sold = @ + taken]
                  /\ sells' = [sells EXCEPT
                       ![i].left = @ - q,
                       ![i].origin = Ledger!Sum2(@,
                          Ledger!Part(buys[j].origin, taken, buys[j].qty))]
                  /\ UNCHANGED <<holding, realised, clock, count, actions,
                                 splits, positions, until, stage>>

(* calculate_open_positions() and validate_open_positions().                *)
CalculatedPosition(s) ==
  LET open == {i \in DOMAIN buys : buys[i].symbol = s /\ ~IsSold(buys[i])}
  IN  SumFunctionOnSet(
        [i \in open |-> Times(Multiplier(s, buys[i].time, clock), Unsold(buys[i]))], open)

FinishMatching ==
  /\ stage = "matching"
  /\ Pending = {}
  /\ IF until # Never
     THEN stage' = "splitting"
     ELSE stage' = IF \A s \in Symbol : CalculatedPosition(s) = positions[s]
                   THEN "ready" ELSE "failed"
  /\ UNCHANGED <<holding, realised, clock, count, buys, sells, actions, splits,
                 positions, until>>

-----------------------------------------------------------------------------
(* emulate_sell(): a sell at today's prices, appended after all others; the *)
(* callers run process_trades after each of them or after the last one.     *)

EmulateSell(s, n) ==
  /\ stage \in {"ready", "emulated"}
  /\ "emulation" \in Kinds
  /\ Held(s) >= n * Scale
  /\ count < MaxEvents + MaxSells
  /\ count' = count + 1
  /\ clock' = IF stage = "ready" THEN clock + 1 ELSE clock
  /\ Ledger!Dispose(s, count', n * Scale)
  /\ IF positions[s] < n * Scale
     THEN stage' = "failed" /\ UNCHANGED <<sells, positions>>
     ELSE /\ positions' = [positions EXCEPT ![s] = @ - n * Scale]
          /\ sells' = Append(sells, NewSell(count', s, clock', n * Scale, FALSE))
          /\ stage' = "emulated"
  /\ UNCHANGED <<buys, actions, splits, until>>

(* Fault: sells that are already processed are processed again. *)
ProcessEmulatedAgain ==
  /\ stage = "emulated"
  /\ stage' = "matching"
  /\ sells' = [i \in DOMAIN sells |->
                 [sells[i] EXCEPT !.left = sells[i].qty, !.origin = Ledger!Nothing]]
  /\ UNCHANGED <<holding, realised, clock, count, buys, actions, splits,
                 positions, until>>

ProcessEmulated ==
  /\ stage = "emulated"
  /\ stage' = "matching"
  /\ UNCHANGED <<holding, realised, clock, count, buys, sells, actions, splits,
                 positions, until>>

BatchStep ==
  \/ Load
  \/ ProcessSpinoff \/ ProcessDelisting \/ ProcessRename
  \/ ProcessSimpleSplit
  \/ StartComplexSplit \/ ConvertPosition
  \/ StartMatching \/ MatchSource \/ FinishMatching
  \/ ProcessEmulated

Idle ==
  /\ stage \in {"ready", "failed"}
  /\ UNCHANGED svars

StockNext ==
  \/ World
  \/ BatchStep
  \/ \E s \in Symbol, n \in Quantities : EmulateSell(s, n)
  \/ Idle

StockSpec == StockInit /\ [][StockNext]_svars

(* The program runs on its own once it is started.                          *)
LiveSpec == StockSpec /\ WF_svars(BatchStep)

-----------------------------------------------------------------------------
Origins == [Event -> 0 .. Unit]

Buy == [id : 0 .. MaxEvents, symbol : Symbol, time : 1 .. Never, qty : Nat \ {0},
        sold : Nat, origin : Origins, created : BOOLEAN]

Sell == [id : Event \cup {0}, symbol : Symbol, time : 1 .. Never, qty : Nat \ {0},
         left : Nat, origin : Origins, created : BOOLEAN]

(* Types of the variables; in particular no lot is ever oversold.           *)
StockTypeOK ==
  /\ ToSet(buys) \subseteq Buy
  /\ \A buy \in ToSet(buys) : buy.sold <= buy.qty
  /\ ToSet(sells) \subseteq Sell
  /\ \A sell \in ToSet(sells) : sell.left <= sell.qty
  /\ \A s \in Symbol : splits[s] \subseteq (1 .. MaxEvents) \X Exact
  /\ positions \in [Symbol -> Nat]
  /\ until \in 1 .. Never
  /\ clock \in 0 .. Never /\ count \in 0 .. MaxEvents + MaxSells
  /\ stage \in {"trading", "acting", "matching", "splitting", "ready", "emulated",
                "failed"}

(* A statement of things that could happen is loaded: no sell is left       *)
(* without a lot, no corporate action without a position, and the           *)
(* calculated open positions are the declared ones (validate_open_positions)*)
(* -- although the corporate actions of one symbol are applied at other     *)
(* moments than the trades around them.                                     *)
LegalStatementLoads == stage # "failed"

(* The batch matching is the FIFO rule: when the statement is loaded, every *)
(* disposal is attributed to the very fractions of acquisitions which were  *)
(* the oldest when it happened, and the open lots are those still held,     *)
(* through splits before and after it, conversions, renames and later       *)
(* simulated sells (process_trades, get_multiplier, convert_stocks).        *)
OpenOrigin(s) ==
  Ledger!Pooled([i \in DOMAIN buys |->
    [origin |-> IF buys[i].symbol = s THEN Kept(buys[i]) ELSE Ledger!Nothing]])

HistoryReproduced ==
  stage = "ready" =>
    /\ \A sell \in ToSet(sells) : ~sell.created => sell.origin = realised[sell.id]
    /\ \A s \in Symbol : OpenOrigin(s) = Ledger!Pooled(holding[s])

(* What the lots keep of an acquisition, and the sells have used of it. A   *)
(* conversion sells the position and buys it back: it uses nothing.         *)
KeptOf(e) ==
  Ledger!Pooled([i \in DOMAIN buys |-> [origin |-> Kept(buys[i])]])[e]

UsedOf(e) ==
  Ledger!Pooled([i \in DOMAIN sells |->
    [origin |-> IF sells[i].created THEN Ledger!Nothing ELSE sells[i].origin]])[e]

Owed(e) == IF e \in {buy.id : buy \in ToSet(buys)} THEN Unit ELSE 0

(* The parts are small enough: what the next match takes is a whole number  *)
(* of them, and nothing is lost to the model's own rounding.                *)
WholeParts ==
  LET i == Min(Pending)
      j == Source(sells[i].symbol)
      m == Multiplier(sells[i].symbol, buys[j].time, sells[i].time)
      taken == DividedBy(Ledger!Least(sells[i].left, Times(m, Unsold(buys[j]))), m)
  IN  (stage = "matching" /\ Pending # {} /\ Sources(sells[i].symbol) # {}) =>
        \A e \in Event : (buys[j].origin[e] * taken) % buys[j].qty = 0

(* No part of a purchase's cost is lost or used twice, not even between two *)
(* steps of the matching or across conversions (StockBuy::sell cuts the     *)
(* cost into fractions, convert_stocks joins them again).                   *)
CostConserved ==
  /\ StockTypeOK
  /\ WholeParts
  /\ \A e \in Event : KeptOf(e) + UsedOf(e) = Owed(e)

(* Matching again after simulated sells leaves the sells that are already   *)
(* matched as they were: reported gains do not change under a simulation.   *)
MatchedStays ==
  [][\A i \in DOMAIN sells :
       (sells[i].left = 0 /\ ~sells[i].created) =>
         \E j \in DOMAIN sells' :
           /\ sells'[j].id = sells[i].id
           /\ sells'[j].left = 0
           /\ sells'[j].origin = sells[i].origin]_svars

(* Loading ends: neither the loop over the corporate actions nor the loops  *)
(* of process_trades, entered again for every complex split, run forever.   *)
LoadingEnds == (stage = "acting") ~> (stage \in {"ready", "failed"})

=============================================================================
