------------------------------ MODULE WashSale ------------------------------
(***************************************************************************)
(* The rule of homogeneous securities of the Spanish return                *)
(* (src/src/tax_statement/spain: wash_sale.rs, and its use in              *)
(* processor.rs).                                                          *)
(*                                                                         *)
(* A loss is not deductible while the shares sold have been replaced by    *)
(* others acquired near the sale.  It stays attached to the acquired       *)
(* shares, becomes deductible as they are sold in turn, and moves on when  *)
(* those are replaced as well.                                             *)
(*                                                                         *)
(* Here a taxpayer trades one instrument day by day, and files returns.    *)
(* Each run of the program replays every sale of the statement, from the   *)
(* deferrals which the configuration carries in, and keeps of the outcome  *)
(* what belongs to the year of the return.  A statement is complete from   *)
(* the first day, and may be extended and filed again.                     *)
(***************************************************************************)
EXTENDS Integers, Sequences, SequencesExt, FiniteSets, Functions

CONSTANTS
  Window,      \* WINDOW_MONTHS, in days
  YearLength,  \* days of a year
  Filer,       \* what the next configuration carries in: "original" | "copied"
  Quantity,    \* BOUND: the shares of a trade
  Result,      \* BOUND: the fiscal result of a sale
  Opening,     \* BOUND: deferrals of the returns before the statement
  MaxTrades, MaxDay, MaxReturns  \* BOUND

ASSUME WashSaleAssumption ==
  /\ Window \in Nat /\ YearLength \in Nat \ {0}
  /\ Filer \in {"original", "copied"}
  /\ Quantity \subseteq Nat \ {0} /\ Result \subseteq Int
  /\ Opening \subseteq Seq([buy : 1 .. MaxDay, shares : Nat \ {0}, loss : Nat \ {0},
                           origin : 0 .. MaxDay])
  /\ MaxTrades \in Nat /\ MaxDay \in Nat \ {0} /\ MaxReturns \in Nat

VARIABLES
  today,     \* the last day of the statement
  bought,    \* acquisitions: [Day -> shares]
  sells,     \* the disposals, in order, with the shares they consumed
  trades,    \* how many trades there were
  year,      \* params.year of the return being computed
  opening,   \* the deferrals of the returns before the statement
  config,    \* deferred_losses: the deferrals carried in
  pos,       \* the next disposal of the replay
  consumed,  \* AcquisitionBucket::consumed, by acquisition day
  blocked,   \* InstrumentState::blocked: the deferrals still standing
  deferred,  \* deferred_loss of each disposal replayed
  released,  \* the reintegrations of the replay
  carryOut,  \* snapshots of the deferrals at the end of the year
  returns,   \* history: the returns filed
  pc

world == <<today, bought, sells, trades, opening>>
engine == <<consumed, blocked, deferred, released, carryOut>>
vars == <<world, year, config, pos, engine, returns, pc>>

Day == 1 .. MaxDay

Before == 0  \* a day before the statement

YearOf(d) == (d - 1) \div YearLength + 1

YearEnd(y) == y * YearLength

Origins == Day \cup {Before}

BlockedLot == [buy : Day, shares : Nat, loss : Nat, origin : Origins]

(* A deferral on its way to new shares, and one that has become deductible. *)
Placement == [origin : Origins, amount : Nat]
Reintegration == [date : Day, origin : Origins, amount : Nat]

Least(a, b) == IF a < b THEN a ELSE b

Most(a, b) == IF a < b THEN b ELSE a

SumOver(S, Value(_)) == SumFunctionOnSet([x \in S |-> Value(x)], S)

Total(f, S) == SumFunctionOnSet(f, S)

SumLots(lots, Field(_)) == SumOver(DOMAIN lots, LAMBDA i : Field(lots[i]))

(* The elements of a sequence at the given places.                          *)
Only(seq, places) ==
  LET kept[n \in 0 .. Len(seq)] ==
        IF n = 0 THEN <<>>
        ELSE IF n \in places THEN Append(kept[n - 1], seq[n]) ELSE kept[n - 1]
  IN  kept[Len(seq)]

Losses(lots) == SumLots(lots, LAMBDA lot : lot.loss)

BlockedOn(lots, d) ==
  SumLots(lots, LAMBDA lot : IF lot.buy = d THEN lot.shares ELSE 0)

None == [d \in Day |-> 0]

Init ==
  /\ today = 1
  /\ opening \in Opening /\ config = opening
  /\ bought = [d \in Day |-> BlockedOn(config, d)]
  /\ sells = <<>> /\ trades = 0
  /\ year = 0 /\ pos = 0
  /\ consumed = None /\ blocked = <<>> /\ deferred = <<>> /\ released = <<>>
  /\ carryOut = <<>>
  /\ returns = <<>>
  /\ pc = "trading"

-----------------------------------------------------------------------------
(* The statement.                                                           *)

LastFiled == IF returns = <<>> THEN 0 ELSE Last(returns).last

Trading == pc = "trading" /\ Len(returns) < MaxReturns

NextDay ==
  /\ Trading
  /\ today < MaxDay
  /\ today' = today + 1
  /\ UNCHANGED <<bought, sells, trades, opening, year, config, pos, engine, returns, pc>>

(* A filed statement covered its last day.                                  *)
MayTrade == Trading /\ trades < MaxTrades /\ today > LastFiled

Buy(quantity) ==
  /\ MayTrade
  /\ bought' = [bought EXCEPT ![today] = @ + quantity]
  /\ trades' = trades + 1
  /\ UNCHANGED <<today, sells, opening, year, config, pos, engine, returns, pc>>

Held == [d \in Day |->
           bought[d] - SumLots(sells, LAMBDA sale : sale.lots[d])]

(* Sales consume the oldest shares.                                         *)
Sell(quantity, result) ==
  /\ MayTrade
  /\ quantity <= Total(Held, Day)
  /\ LET lots == [d \in Day |->
                    Least(Held[d],
                          Most(0, quantity - Total(Held, {x \in Day : x < d})))]
     IN  sells' = Append(sells, [date |-> today, quantity |-> quantity,
                                 result |-> result, lots |-> lots])
  /\ trades' = trades + 1
  /\ UNCHANGED <<today, bought, opening, year, config, pos, engine, returns, pc>>

-----------------------------------------------------------------------------
(* The engine.                                                              *)

(* A carried-in deferral of a sale which the statement prices itself.       *)
Clashes(lot) ==
  \E i \in DOMAIN sells :
    /\ sells[i].date = lot.origin
    /\ sells[i].result < 0
    /\ sells[i].quantity >= lot.shares

(* A run for a year: apply_wash_sale_rule(), WashSaleEngine::new().         *)
File(y) ==
  /\ Trading
  /\ YearEnd(y) <= today /\ LastFiled < today
  /\ y \in IF returns = <<>> THEN {1} ELSE {year, year + 1}
  /\ year' = y
  /\ pos' = 1
  /\ consumed' = None
  /\ blocked' = config
  /\ deferred' = <<>> /\ released' = <<>> /\ carryOut' = <<>>
  /\ pc' = IF \E i \in DOMAIN config : Clashes(config[i])
             THEN "rejected" ELSE "replaying"
  /\ UNCHANGED <<world, config, returns>>

LossOf(sale) == Most(0, -sale.result)

(* release(): the shares a sale takes of a blocked lot, oldest deferral     *)
(* first.                                                                   *)
Taken(lots, sold, i) ==
  LET earlier == {j \in DOMAIN lots : j < i /\ lots[j].buy = lots[i].buy}
  IN  Least(lots[i].shares,
            Most(0, sold[lots[i].buy] - SumOver(earlier, LAMBDA j : lots[j].shares)))

TakenInAll(lots, sold) == SumOver(DOMAIN lots, LAMBDA i : Taken(lots, sold, i))

Released(lots, sold, i) == (lots[i].loss * Taken(lots, sold, i)) \div lots[i].shares

(* Fault: the shares sold go on blocking. *)
StillBlockingAll(lots, sold) ==
  LET left == [i \in DOMAIN lots |->
                 [lots[i] EXCEPT !.loss = @ - Released(lots, sold, i)]]
  IN  Only(left, {i \in DOMAIN left : left[i].loss > 0})

(* What is left of the blocked lots after that.                             *)
StillBlocking(lots, sold) ==
  LET left == [i \in DOMAIN lots |->
                 [lots[i] EXCEPT !.shares = @ - Taken(lots, sold, i),
                                 !.loss = @ - Released(lots, sold, i)]]
  IN  Only(left, {i \in DOMAIN left : left[i].shares > 0})

(* Fault: the first day of the window is left out. *)
InWindowShort(d, sale) == d \in sale - Window + 1 .. sale + Window

(* window(), both ends inclusive.                                           *)
InWindow(d, sale) == d \in sale - Window .. sale + Window

(* Shares of a day neither consumed nor blocking already.                   *)
Available(acquired, gone, lots, d) ==
  Most(0, acquired[d] - gone[d] - BlockedOn(lots, d))

(* match_window(): the acquisitions that block a sale, oldest first.        *)
Matched(sale, acquired, gone, lots) ==
  LET near == [d \in Day |-> IF InWindow(d, sale.date)
                               THEN Available(acquired, gone, lots, d) ELSE 0]
  IN  [d \in Day |-> Least(near[d],
                           Most(0, sale.quantity
                                     - Total(near, {x \in Day : x < d})))]

(* Shares of the disposals replayed, this one included.                     *)
Gone(sale, before) == [d \in Day |-> before[d] + sale.lots[d]]

(* The acquisitions that replace what a disposal sells.                     *)
Replacing(sale, acquired, before, lots) ==
  Matched(sale, acquired, Gone(sale, before), StillBlocking(lots, sale.lots))

(* The part of its own loss that a disposal may not deduct.                 *)
OwnLoss(sale, replaced) == (LossOf(sale) * replaced) \div sale.quantity

(* The part of a released deferral that moves to the matched shares: the    *)
(* blocked shares are the first to be replaced.                             *)
Reattached(amount, matched, taken) ==
  IF taken = 0 THEN 0 ELSE (amount * Least(matched, taken)) \div taken

Moved(lots, sold, replaced) ==
  LET taken == TakenInAll(lots, sold)
  IN  [i \in DOMAIN lots |-> Reattached(Released(lots, sold, i), replaced, taken)]

(* What the matched shares will carry: the own loss, then what was released, *)
(* in the order of the shares sold.                                         *)
Placements(sale, lots, moved, own) ==
  LET placed == [i \in DOMAIN lots |-> [origin |-> lots[i].origin, amount |-> moved[i]]]
      OfDay(d) == {i \in DOMAIN lots : lots[i].buy = d /\ moved[i] > 0}
  IN  (IF own > 0 THEN <<[origin |-> sale.date, amount |-> own]>> ELSE <<>>)
        \o FlattenSeq([d \in Day |-> Only(placed, OfDay(d))])

Amounts(placements) == SumLots(placements, LAMBDA p : p.amount)

(* Fault: every day of the matched shares carries the whole loss. *)
NewlyBlockedUnsplit(placements, matched) ==
  LET amounts == Amounts(placements)
      Lot(d, p) == [buy |-> d, shares |-> (matched[d] * p.amount) \div amounts,
                    loss |-> p.amount, origin |-> p.origin]
      OfDay(d) == IF matched[d] = 0 THEN <<>>
                  ELSE [k \in DOMAIN placements |-> Lot(d, placements[k])]
  IN  FlattenSeq([d \in Day |-> OfDay(d)])

(* block(): the matched shares are shared out between the deferrals.        *)
NewlyBlocked(placements, matched) ==
  LET amounts == Amounts(placements)
      replaced == Total(matched, Day)
      Lot(d, p) == [buy |-> d, shares |-> (matched[d] * p.amount) \div amounts,
                    loss |-> (p.amount * matched[d]) \div replaced,
                    origin |-> p.origin]
      OfDay(d) == IF matched[d] = 0 THEN <<>>
                  ELSE [k \in DOMAIN placements |-> Lot(d, placements[k])]
  IN  FlattenSeq([d \in Day |-> OfDay(d)])

(* The deferrals that a disposal ends for good.                             *)
Reintegrated(sale, lots, moved) ==
  LET final == [i \in DOMAIN lots |->
                  [date |-> sale.date, origin |-> lots[i].origin,
                   amount |-> Released(lots, sale.lots, i) - moved[i]]]
  IN  Only(final, {i \in DOMAIN final : final[i].amount > 0})

(* What a disposal makes of the shares consumed and of those blocked.       *)
Effect(sale, acquired, before, lots) ==
  LET matched == Replacing(sale, acquired, before, lots)
      replaced == Total(matched, Day)
      own == OwnLoss(sale, replaced)
      moved == Moved(lots, sale.lots, replaced)
  IN  [consumed |-> Gone(sale, before),
       blocked |-> StillBlocking(lots, sale.lots)
                     \o NewlyBlocked(Placements(sale, lots, moved, own), matched),
       deferral |-> own,
       final |-> Reintegrated(sale, lots, moved)]

(* WashSaleEngine::process(), and the snapshot taken when the year is over. *)
Process ==
  /\ pc = "replaying"
  /\ pos <= Len(sells)
  /\ \E effect \in {Effect(sells[pos], bought, consumed, blocked)} :
       /\ consumed' = effect.consumed
       /\ deferred' = Append(deferred, effect.deferral)
       /\ released' = released \o effect.final
       /\ blocked' = effect.blocked
  /\ carryOut' = IF carryOut = <<>> /\ sells[pos].date > YearEnd(year)
                   THEN <<blocked>> ELSE carryOut
  /\ pos' = pos + 1
  /\ UNCHANGED <<world, year, config, returns, pc>>

(* flag_open_wash_sale_windows(): losses whose window is still open.        *)
OpenWindow(i) ==
  /\ YearOf(sells[i].date) = year
  /\ sells[i].result + deferred[i] < 0
  /\ sells[i].date + Window > today

CarriedIn(carried) ==
  IF Filer = "original" THEN config
  ELSE Only(carried, {i \in DOMAIN carried : carried[i].origin = Before})

(* Fault: the deferrals are carried as they stand at the end of the statement. *)
CarriedOutAtEnd == blocked

(* The deferrals printed: those of the end of the year.                     *)
CarriedOut == IF carryOut = <<>> THEN blocked ELSE carryOut[1]

(* Fault: the reintegrations of every year are declared. *)
DeclaredEver(r) == TRUE

(* Only the releases of the filing year are income of this return.          *)
Declared(r) == YearOf(r.date) = year

(* The return is printed; the filer writes the next configuration.          *)
FinishReturn ==
  /\ pc = "replaying"
  /\ pos > Len(sells)
  /\ returns' = Append(returns,
       [year |-> year, last |-> today,
        deducted |-> SumOver({i \in DOMAIN sells : YearOf(sells[i].date) = year},
                             LAMBDA i : LossOf(sells[i]) - deferred[i]),
        reintegrated |-> SumOver({i \in DOMAIN released : Declared(released[i])},
                                 LAMBDA i : released[i].amount),
        carried |-> CarriedOut,
        named |-> \E i \in DOMAIN sells : OpenWindow(i)])
  /\ config' = CarriedIn(CarriedOut)
  /\ pc' = "trading"
  /\ UNCHANGED <<world, year, pos, engine>>

Finished ==
  /\ \/ pc = "rejected"
     \/ pc = "trading" /\ (today = MaxDay \/ Len(returns) = MaxReturns)
  /\ UNCHANGED vars

Next ==
  \/ NextDay
  \/ \E q \in Quantity : Buy(q)
  \/ \E q \in Quantity, r \in Result : Sell(q, r)
  \/ \E y \in 1 .. YearOf(MaxDay) : File(y)
  \/ Process
  \/ FinishReturn
  \/ Finished

Spec == Init /\ [][Next]_vars

-----------------------------------------------------------------------------
(* Types of the variables; the deferrals stand on days of the statement and *)
(* are labelled with a sale, and nothing is reduced below zero.             *)
TypeOK ==
  /\ today \in Day /\ trades \in 0 .. MaxTrades
  /\ bought \in [Day -> Nat] /\ consumed \in [Day -> Nat]
  /\ \A i \in DOMAIN sells : sells[i].lots \in [Day -> Nat]
  /\ config \in Seq(BlockedLot) /\ blocked \in Seq(BlockedLot)
  /\ deferred \in Seq(Nat)
  /\ \A i \in DOMAIN released : released[i].amount \in Nat
  /\ pc \in {"trading", "replaying", "rejected"}

LossesFrom(o) ==
  SumLots(config, LAMBDA lot : IF lot.origin = o THEN lot.loss ELSE 0)
    + SumOver(DOMAIN deferred, LAMBDA i : IF sells[i].date = o THEN deferred[i] ELSE 0)

(* What a sale could not deduct is neither lost nor deducted twice, however *)
(* often it is split, released and moved on: it is still blocked or has     *)
(* been reintegrated, under the label of its own sale.  And it stands on    *)
(* shares that are held: a share blocks at most one sold share, and once    *)
(* the shares of a day are sold nothing stays deferred on them.             *)
DeferralConserved ==
  /\ TypeOK
  /\ pc = "replaying" =>
       /\ \A o \in Origins :
            LossesFrom(o) =
              SumLots(blocked, LAMBDA lot : IF lot.origin = o THEN lot.loss ELSE 0)
                + SumLots(released, LAMBDA r : IF r.origin = o THEN r.amount ELSE 0)
       /\ \A d \in Day : BlockedOn(blocked, d) <= bought[d] - consumed[d]

ReplayStep == pc = "replaying" /\ pos' = pos + 1

(* The deferral is exactly what the rule asks for: when a loss is deducted, *)
(* or a deferral is declared final, every share held from the window of the *)
(* sale blocks already, and only acquisitions in that window begin to       *)
(* block.                                                                   *)
DefersExactly ==
  [][ReplayStep =>
       LET sale == sells[pos]
           Near(d) == sale.date - Window <= d /\ d <= sale.date + Window
       IN  \A d \in Day :
             /\ BlockedOn(blocked', d) > BlockedOn(blocked, d) => Near(d)
             /\ Near(d) /\ (deferred'[pos] < LossOf(sale) \/ released' # released) =>
                  BlockedOn(blocked', d) = bought[d] - consumed'[d]]_vars

(* The windows of all sales until the end of a return's year were closed    *)
(* when it was filed.                                                       *)
Settled(return) ==
  \A i \in DOMAIN sells :
    sells[i].date <= YearEnd(return.year) => sells[i].date + Window <= return.last

Figures(return) == <<return.deducted, return.reintegrated, return.carried>>

(* A return whose windows are closed does not change when the statement is  *)
(* extended and the year is filed again.                                    *)
SettledReturnStands ==
  \A i, j \in DOMAIN returns :
    (i < j /\ returns[i].year = returns[j].year /\ Settled(returns[i])) =>
      Figures(returns[i]) = Figures(returns[j])

LossesUntil(y) ==
  SumOver({i \in DOMAIN sells : YearOf(sells[i].date) <= y}, LAMBDA i : LossOf(sells[i]))

(* Over the returns of consecutive years every loss is deducted once: those *)
(* of the sales of these years and those carried in have been deducted,     *)
(* reintegrated, or are carried out (docs/spain-taxes.md: "The loss is      *)
(* deferred, not destroyed").                                               *)
DeductedOnce ==
  (/\ Len(returns) = 2 /\ returns[1].year = 1 /\ returns[2].year = 2
   /\ Settled(returns[1]) /\ Settled(returns[2])) =>
    Losses(opening) + LossesUntil(2) =
      returns[1].deducted + returns[1].reintegrated
        + returns[2].deducted + returns[2].reintegrated + Losses(returns[2].carried)

=============================================================================
