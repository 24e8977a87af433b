------------------------------ MODULE FxFifo -------------------------------
(***************************************************************************)
(* Foreign currency of the German (and Spanish) statement:                 *)
(* compute_fx_fifo() of tax_statement/fx_fifo.rs replays the cash rows of  *)
(* the broker's Statement of Funds through a queue of signed lots, one     *)
(* queue per currency, and germany/processor.rs declares what was          *)
(* realized in the filing year.  The module is about one currency: nothing *)
(* in the code is shared by two.  EUR rows and zero rows are skipped by    *)
(* the code and are no rows here.                                          *)
(*                                                                         *)
(* A row names an amount and the balance after it.  The export is not      *)
(* trusted: rows may be missing from it and the opening balance which the  *)
(* user declares may be wrong; the replay compares its own running balance *)
(* with the broker's and gives up on a difference.                         *)
(*                                                                         *)
(* Dates are half years; a rate is a whole number of euros per unit.       *)
(***************************************************************************)
EXTENDS Integers, Sequences, FiniteSetsExt, SequencesExt

CONSTANTS
  Amounts,               \* what a row may move, in units of the currency
  Rates,                 \* prices of a unit in euros, a malformed one among them
  Openings,              \* balances an export may begin with
  MaxRows,               \* bound: rows of the export
  MaxLost                \* bound: movements missing from the export

ASSUME FxAssumption ==
  /\ Amounts \subseteq Int \ {0}
  /\ Rates \subseteq Int
  /\ Openings \subseteq Int /\ 0 \in Openings
  /\ MaxRows \in Nat
  /\ MaxLost \in Nat

VARIABLES
  today,                 \* the date of what happens now
  account,               \* what the broker holds
  lost,                  \* movements which the export does not show
  rows,                  \* the accepted rows; the first may be the opening
  running,               \* the sum of the rows
  balance,               \* the balance which the last accepted row reports
  lots,                  \* the queue, oldest first
  remaining,             \* what is left of the last row
  taxable, nonTaxable,   \* realizations of held and of borrowed currency
  refused                \* the replay ended with an error

fxVars == <<account, lost, rows, running, balance, lots, remaining, taxable, nonTaxable,
            refused>>

HalfYears == 2           \* half years of a year

YearOf(date) == date \div HalfYears

Sign(n) == IF n < 0 THEN -1 ELSE 1

Magnitude(n) == IF n < 0 THEN -n ELSE n

Least(m, n) == IF m < n THEN m ELSE n

SumOver(S, Value(_)) == SumFunctionOnSet([x \in S |-> Value(x)], S)

SumOf(Value(_), s) == SumOver(DOMAIN s, LAMBDA i : Value(s[i]))

-----------------------------------------------------------------------------
(* The lot a row opens, and what a row is to its realizations.              *)
Lot(row, qty, rate, date) == [row |-> row, qty |-> qty, rate |-> rate, date |-> date]

Row(amount, rate) == [amount |-> amount, rate |-> rate, date |-> today]

(* One declared lot seeds the queue; a zero balance seeds nothing.          *)
FxInit ==
  /\ today = 0
  /\ lost = 0
  /\ remaining = 0
  /\ taxable = <<>> /\ nonTaxable = <<>>
  /\ refused = FALSE
  /\ account \in Openings
  /\ running \in Openings
  /\ balance = running
  /\ IF running = 0
     THEN rows = <<>> /\ lots = <<>>
     ELSE \E rate \in {r \in Rates : r > 0} :
            /\ rows = <<Row(running, rate)>>
            /\ lots = <<Lot(1, running, rate, 0)>>

Replayed == remaining = 0 /\ ~refused

(* A movement that does not get into the export.                            *)
LoseRow(amount) ==
  /\ Replayed /\ lost < MaxLost /\ Len(rows) < MaxRows
  /\ account' = account + amount
  /\ lost' = lost + 1
  /\ UNCHANGED <<today, rows, running, balance, lots, remaining, taxable, nonTaxable,
                 refused>>

(* Fault: the broker's balance is not looked at.                            *)
AgreesAlways(amount) == TRUE

(* The balances agree, and a conversion has a positive price.               *)
Agrees(amount) == running + amount = account + amount

(* The loop over the rows: check the balance, then the price.               *)
ReadRow(amount, rate) ==
  /\ Replayed /\ Len(rows) < MaxRows
  /\ account' = account + amount
  /\ running' = running + amount
  /\ IF Agrees(amount) /\ rate > 0
     THEN /\ rows' = Append(rows, Row(amount, rate))
          /\ remaining' = amount
          /\ balance' = account'
          /\ UNCHANGED refused
     ELSE /\ refused' = TRUE
          /\ UNCHANGED <<rows, remaining, balance>>
  /\ UNCHANGED <<today, lost, lots, taxable, nonTaxable>>

(* Whether what remains extends the inventory.                              *)
Extends == lots # <<>> => Sign(lots[1].qty) = Sign(remaining)

(* Fault: a new lot goes before the old ones.                               *)
PushFront(lot) == <<lot>> \o lots

PushBack(lot) == Append(lots, lot)

Extend ==
  /\ remaining # 0
  /\ Extends
  /\ lots' = PushBack(Lot(Len(rows), remaining, rows[Len(rows)].rate,
                          rows[Len(rows)].date))
  /\ remaining' = 0
  /\ UNCHANGED <<today, account, lost, rows, running, balance, taxable, nonTaxable,
                 refused>>

(* A portion: the oldest lot is closed as far as the row reaches.           *)
Portion == Least(Magnitude(lots[1].qty), Magnitude(remaining))

(* Fault: the whole lot is shown as closed.                                 *)
RealizationOfLot(amount) ==
  [by |-> Len(rows), of |-> lots[1].row, units |-> Magnitude(lots[1].qty),
   amount |-> amount, date |-> rows[Len(rows)].date, acquired |-> lots[1].date]

Realization(amount) ==
  [by |-> Len(rows), of |-> lots[1].row, units |-> Portion, amount |-> amount,
   date |-> rows[Len(rows)].date, acquired |-> lots[1].date]

(* The oldest lot less the portion; an empty lot leaves the queue.          *)
Shrunk == [lots EXCEPT ![1].qty = @ - Sign(@) * Portion]

Left == IF Shrunk[1].qty = 0 THEN Tail(Shrunk) ELSE Shrunk

Consume ==
  LET front == lots[1]
      rate == rows[Len(rows)].rate
  IN  /\ remaining # 0
      /\ ~Extends
      /\ IF front.qty > 0
         THEN /\ taxable' = Append(taxable, Realization(Portion * (rate - front.rate)))
              /\ UNCHANGED nonTaxable
         ELSE /\ nonTaxable' = Append(nonTaxable, Realization(Portion * (front.rate - rate)))
              /\ UNCHANGED taxable
      /\ lots' = Left
      /\ remaining' = remaining - Sign(remaining) * Portion
      /\ UNCHANGED <<today, account, lost, rows, running, balance, refused>>

-----------------------------------------------------------------------------
(* What germany/processor.rs declares of a year.                            *)
InYear(realizations, year) ==
  {k \in DOMAIN realizations : YearOf(realizations[k].date) = year}

Gain(k) == taxable[k].amount

(* An interest-bearing account: held currency is taxed, a loan repaid not.  *)
FxGains(year) == InYear(taxable, year)

NonTaxableMarginFx(year) == SumOver(InYear(nonTaxable, year), LAMBDA k : nonTaxable[k].amount)

(* Fault: the anniversary itself is free of tax.                            *)
HeldForOneYear(r) == r.date >= r.acquired + HalfYears

(* Strictly after the first anniversary.                                    *)
HeldOverOneYear(r) == r.date > r.acquired + HalfYears

(* Any other account: private sales.                                        *)
Section23(year) ==
  LET longHeld == {k \in FxGains(year) : HeldOverOneYear(taxable[k])}
      shortHeld == FxGains(year) \ longHeld
  IN  [longTermTaxFree |-> SumOver({k \in longHeld : Gain(k) > 0}, Gain),
       shortTermGains  |-> SumOver({k \in shortHeld : Gain(k) >= 0}, Gain),
       shortTermLosses |-> -SumOver({k \in shortHeld : Gain(k) < 0}, Gain),
       borrowedReview  |-> NonTaxableMarginFx(year)]

-----------------------------------------------------------------------------
FxNext ==
  \/ \E amount \in Amounts :
       \/ LoseRow(amount)
       \/ \E rate \in Rates : ReadRow(amount, rate)
  \/ Extend
  \/ Consume

-----------------------------------------------------------------------------
(* Types; lots are never empty and all lie on one side of zero, and the     *)
(* part of a row still to be placed is of the row's own sign.               *)
OneSide ==
  /\ \A i \in DOMAIN lots : lots[i].qty # 0
  /\ \A i, j \in DOMAIN lots : lots[i].qty > 0 <=> lots[j].qty > 0
  /\ remaining # 0 => rows # <<>> /\ Sign(remaining) = Sign(rows[Len(rows)].amount)

(* First in, first out: the queue is in the order of its rows, and no lot   *)
(* has been touched as long as an older one is still open.                  *)
OldestFirst ==
  /\ \A i, j \in DOMAIN lots : i < j => lots[i].row < lots[j].row
  /\ \A i \in DOMAIN lots :
       /\ \A k \in DOMAIN taxable : taxable[k].of <= lots[i].row
       /\ \A k \in DOMAIN nonTaxable : nonTaxable[k].of <= lots[i].row

QueueInOrder == OneSide /\ OldestFirst

(* The queue is the broker's balance, portion by portion (the balance_after *)
(* of the worksheet is the balance less what remains of the row), although  *)
(* the export may lack movements and may begin with any balance; and no     *)
(* euro is invented: what the rows cost or brought is what the open lots    *)
(* cost less what was realized, taxable or not.                             *)
BalanceReproduced ==
  LET years == 0 .. YearOf(today)
      Taxed(year) == SumOver(FxGains(year), Gain)
  IN  ~refused =>
        /\ SumOf(LAMBDA l : l.qty, lots) = balance - remaining
        /\ SumOf(LAMBDA r : r.amount * r.rate, rows)
             - (IF remaining = 0 THEN 0 ELSE remaining * rows[Len(rows)].rate)
           = SumOf(LAMBDA l : l.qty * l.rate, lots)
               - SumOver(years, Taxed) - SumOver(years, NonTaxableMarginFx)

(* What a disposal of held currency earned, told by the two movements it is *)
(* between and by nothing that the queue has kept of them.                  *)
Came(k) == rows[taxable[k].of]

Went(k) == rows[taxable[k].by]

Earned(k) == taxable[k].units * (Went(k).rate - Came(k).rate)

(* Private sales are taxed up to and on the first anniversary of the        *)
(* movement that brought the currency, and free of tax from the next day,   *)
(* when losses count nowhere (section 23 EStG, held_over_one_year): in      *)
(* every year each disposal is in one bucket, the one its movements tell,   *)
(* however often the lot was cut and whichever rows came in between.        *)
AnniversaryDecides ==
  \A year \in 0 .. YearOf(today) :
    LET sold == {k \in DOMAIN taxable : YearOf(Went(k).date) = year}
        early == {k \in sold : Went(k).date - Came(k).date <= HalfYears}
    IN  /\ Section23(year).shortTermGains - Section23(year).shortTermLosses
             = SumOver(early, Earned)
        /\ Section23(year).longTermTaxFree
             = SumOver({k \in sold \ early : Earned(k) > 0}, Earned)

(* The replay reproduces the account behind the export: its balance, what   *)
(* was paid for it and realized, and how long what was sold had been held.  *)
LedgerReproduced == BalanceReproduced /\ AnniversaryDecides

-----------------------------------------------------------------------------
(* The promise behind the queue: a row takes effect with its last portion.  *)
Placed == IF remaining = 0 THEN Len(rows) ELSE Len(rows) - 1

Realized == ToSet(taxable) \cup ToSet(nonTaxable)

(* Units of a row that the last row has closed.                             *)
LastClosed(row) ==
  LET Closed(r) == IF r.by = Len(rows) /\ r.of = row THEN r.units ELSE 0
  IN  SumOf(Closed, taxable) + SumOf(Closed, nonTaxable)

StillOpen(row) ==
  SumOf(LAMBDA l : IF l.row = row THEN l.qty ELSE 0, lots)
    - (IF remaining = 0 THEN 0 ELSE Sign(remaining) * LastClosed(row))

Promise ==
  INSTANCE CurrencyAccount WITH
    Movements <- [amount : Amounts \cup (Openings \ {0})],
    moved <- [i \in 1 .. Placed |-> [amount |-> rows[i].amount]],
    open <- [i \in 1 .. Placed |-> StillOpen(i)],
    closed <- {[by |-> r.by, of |-> r.of, units |-> r.units] :
                 r \in {q \in Realized : q.by <= Placed}}

(* Whatever portions a row is cut into, the account behaves as if the row   *)
(* had closed the oldest opposite units at once and opened only the rest.   *)
PromiseKept == Promise!Spec

=============================================================================
