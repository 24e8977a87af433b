---------------------------- MODULE GermanReturn ----------------------------
(***************************************************************************)
(* The German returns of a row of years: compute_tax_year() of             *)
(* tax_statement/germany/processor.rs, calculate_totals() of               *)
(* germany/statement.rs and taxes/germany/.                                *)
(*                                                                         *)
(* Nothing is kept by the program.  A return is computed from the broker's *)
(* statement -- which grows, and is often longer than the year it is       *)
(* computed for -- and from three figures the user copies from one return  *)
(* into the configuration for the next: the loss left in either pot and    *)
(* the advance lump sums (Vorabpauschale) already taxed per fund.  The     *)
(* foreign currency of FxFifo is part of the return.                       *)
(*                                                                         *)
(* What a sale gained is StockFifo's business and is arbitrary here, of    *)
(* which some may be of shares bought before 2009.  Exempt parts are       *)
(* twentieths (70 %, 85 %, all), so taxable amounts are in twentieths of a *)
(* euro.  The tax itself is linear in the assessed base and left out.      *)
(***************************************************************************)
EXTENDS FxFifo

CONSTANTS
  Symbol,                \* securities; one symbol to an ISIN
  FundClass,             \* their Teilfreistellung classification
  SaleResults,           \* what a sale may have gained
  Payouts,               \* what a security may pay out, and the tax withheld
  Interests,             \* what idle cash may earn
  Navs,                  \* redemption prices of a unit over a year, or NoNav
  BaseYield,             \* taxed yield per unit of the first price: 0.7 * basiszins
  Allowance,             \* Sparer-Pauschbetrag
  MaxHeld,               \* bound: units held of a security
  LastDate,              \* bound: the last date
  Mixes                  \* bound: pairs of numbers of cash rows and of bookings

NoNav == [jan1 |-> 0, dec31 |-> 0]

ASSUME ReturnAssumption ==
  /\ FundClass \in [Symbol -> {"None", "Equity", "Mixed", "Bond"}]
  /\ SaleResults \subseteq [gross : Int, old : Int]
  /\ Payouts \subseteq [gross : Int, withheld : Int]
  /\ Interests \subseteq Int
  /\ Navs \subseteq [jan1 : Nat, dec31 : Nat]
  /\ BaseYield[1] \in Int /\ BaseYield[2] \in Nat \ {0}
  /\ Allowance \in Nat /\ MaxHeld \in Nat /\ LastDate \in Nat

VARIABLES
  log,                   \* bookings of the statement, in their order
  navs,                  \* navs[y + 1][s]: the prices configured for the year y
  config,                \* the figures carried in the configuration
  filed                  \* the returns made: filed[y + 1] is the year y's

returnVars == <<log, navs, config, filed>>

vars == <<today, fxVars, returnVars>>

Whole == 20

(* What is left taxable of a result, in twentieths.                         *)
TaxablePortion ==
  [class \in {"None", "Equity", "Mixed", "Bond"} |->
     CASE class = "Equity" -> 14
       [] class = "Mixed" -> 17
       [] OTHER -> Whole]

IsFund(s) == FundClass[s] # "None"

Teilfreistellung(s, amount) == amount * TaxablePortion[FundClass[s]]

Most(m, n) == IF m > n THEN m ELSE n

(* What a statement shows is named by its positions in the log.             *)
Booked(kind, s, statement) ==
  {i \in statement : log[i].kind = kind /\ log[i].symbol = s}

OfYear(kind, year, statement) ==
  {i \in statement : log[i].kind = kind /\ YearOf(log[i].date) = year}

Quantity(i) == log[i].quantity

Gross(i) == log[i].gross

-----------------------------------------------------------------------------
(* The open positions at the end of the statement.                          *)
OpenPosition(s, statement) ==
  SumOver(Booked("buy", s, statement), Quantity)
    - SumOver(Booked("sell", s, statement), Quantity)

(* Fault: the positions at the statement's end are taken for the year's.    *)
StatementEndHoldings(s, year, statement) == OpenPosition(s, statement)

(* year_end_holdings(): what was traded after the year is undone.           *)
YearEndHoldings(s, year, statement) ==
  OpenPosition(s, statement)
    - OpenPosition(s, {i \in statement : YearOf(log[i].date) > year})

HeldAtYearEnd(s, year, statement) == YearEndHoldings(s, year, statement) > 0

-----------------------------------------------------------------------------
(* process_trades(): a sale of the year.  The lump sums already taxed are   *)
(* taken off once, from the first sale of a fund that is not held at the    *)
(* end of the year.                                                         *)
SalesOf(year, statement) == OfYear("sell", year, statement)

FirstSale(i, year, statement) ==
  \A j \in SalesOf(year, statement) : log[j].symbol = log[i].symbol => i <= j

(* Fault: every sale of the year is reduced.                                *)
VpReductionOfEach(i, year, statement, cfg) ==
  LET s == log[i].symbol
  IN  IF IsFund(s) /\ ~HeldAtYearEnd(s, year, statement) THEN cfg.vp[s] ELSE 0

VpReduction(i, year, statement, cfg) ==
  LET s == log[i].symbol
  IN  IF IsFund(s) /\ ~HeldAtYearEnd(s, year, statement) /\ FirstSale(i, year, statement)
      THEN cfg.vp[s] ELSE 0

(* Shares bought before 2009 are left out, then the lump sums, and what is  *)
(* exempt comes last.                                                       *)
BeforeExemption(i, year, statement, cfg) ==
  Gross(i) - log[i].old - VpReduction(i, year, statement, cfg)

SaleTaxable(i, year, statement, cfg) ==
  Teilfreistellung(log[i].symbol, BeforeExemption(i, year, statement, cfg))

(* Fault: the fund form gets the gain as if no lump sum had been taxed.     *)
KapInvGross(i, year, statement, cfg) == Gross(i) - log[i].old

(* What the fund form says of a sale.                                       *)
KapInvResult(i, year, statement, cfg) == BeforeExemption(i, year, statement, cfg)

(* process_dividends() with creditable_foreign_tax(): nothing for funds,    *)
(* else at most 15 % of the dividend and a quarter of what is taxed.        *)
DividendsOf(year, statement) == OfYear("dividend", year, statement)

DividendTaxable(i) == Teilfreistellung(log[i].symbol, Gross(i))

CreditableForeignTax(i) ==
  IF IsFund(log[i].symbol) THEN 0
  ELSE Most(0, Least(Whole * log[i].withheld, Least(3 * Gross(i), 5 * Gross(i))))

(* process_interest().                                                      *)
InterestOf(year, statement) == OfYear("interest", year, statement)

-----------------------------------------------------------------------------
(* derive_acquired_month(): full months before the first purchase, if that  *)
(* was in this year; the first half year begins in January, the second in   *)
(* July.                                                                    *)
MonthsBefore(s, year, statement) ==
  LET dates == {log[i].date : i \in Booked("buy", s, statement)}
  IN  IF \E first \in dates : /\ YearOf(first) = year
                              /\ first % HalfYears = 1
                              /\ \A date \in dates : first <= date
      THEN 6 ELSE 0

Distributions(s, year, statement) ==
  SumOver({i \in DividendsOf(year, statement) : log[i].symbol = s}, Gross)

(* vorabpauschale() of a fund held at the end of the year.                  *)
Vorabpauschale(s, year, statement) ==
  LET held == YearEndHoldings(s, year, statement)
      nav == navs[year + 1][s]
      basisertrag == (nav.jan1 * held * BaseYield[1]) \div BaseYield[2]
      increase == Most(0, (nav.dec31 - nav.jan1) * held)
      uncapped == Most(0, Least(basisertrag - Distributions(s, year, statement), increase))
  IN  (uncapped * (12 - MonthsBefore(s, year, statement))) \div 12

(* Funds without prices are reported as missing and get none.               *)
LumpFunds(year, statement) ==
  {s \in Symbol : IsFund(s) /\ HeldAtYearEnd(s, year, statement) /\ navs[year + 1][s] # NoNav}

-----------------------------------------------------------------------------
(* Fault: a new loss replaces the one still carried.                        *)
WithThisLossOnly(net, prior) ==
  IF net < 0 THEN [taxed |-> 0, next |-> -net]
  ELSE LET used == Least(prior, net) IN [taxed |-> net - used, next |-> prior - used]

(* calculate_with_loss_carryforward(): what of a pot's result is taxed and  *)
(* what loss is left.                                                       *)
WithLossCarryforward(net, prior) ==
  IF net < 0 THEN [taxed |-> 0, next |-> prior - net]
  ELSE LET used == Least(prior, net) IN [taxed |-> net - used, next |-> prior - used]

(* The gains and the losses of some entries, each as a positive sum.        *)
Positive(S, Amount(_)) == SumOver(S, LAMBDA i : Most(0, Amount(i)))

Negative(S, Amount(_)) == SumOver(S, LAMBDA i : Most(0, -Amount(i)))

(* The sales of shares, which have a pot and a part of the form of their    *)
(* own, and what falls in one class of funds.                               *)
Share(positions) == {i \in positions : ~IsFund(log[i].symbol)}

Fund(positions) == positions \ Share(positions)

OfClass(class, positions) == {i \in positions : FundClass[log[i].symbol] = class}

(* calculate_totals(): what either pot gained or lost in the year.          *)
StockResult(year, statement, cfg) ==
  SumOver(Share(SalesOf(year, statement)), LAMBDA i : SaleTaxable(i, year, statement, cfg))

GeneralResult(year, statement, cfg) ==
  SumOver(Fund(SalesOf(year, statement)), LAMBDA i : SaleTaxable(i, year, statement, cfg))
    + SumOver(DividendsOf(year, statement), DividendTaxable)
    + Whole * (SumOver(InterestOf(year, statement), Gross) + SumOver(FxGains(year), Gain))

(* The form for everything but funds: net, with the gains and the losses    *)
(* of shares also apart.                                                    *)
Zeile20(year, statement, cfg) ==
  Positive(Share(SalesOf(year, statement)), LAMBDA i : SaleTaxable(i, year, statement, cfg))

Zeile22(year) == Whole * Negative(FxGains(year), Gain)

Zeile23(year, statement, cfg) ==
  Negative(Share(SalesOf(year, statement)), LAMBDA i : SaleTaxable(i, year, statement, cfg))

KapPositive(year, statement, cfg) ==
  Zeile20(year, statement, cfg)
    + Whole * (SumOver(Share(DividendsOf(year, statement)), Gross)
                 + SumOver(InterestOf(year, statement), Gross)
                 + Positive(FxGains(year), Gain))

Zeile41(year, statement) == SumOver(DividendsOf(year, statement), CreditableForeignTax)

AnlageKap(year, statement, cfg) ==
  [zeile19 |-> KapPositive(year, statement, cfg) - Zeile22(year)
                 - Zeile23(year, statement, cfg),
   zeile20 |-> Zeile20(year, statement, cfg),
   zeile22 |-> Zeile22(year),
   zeile23 |-> Zeile23(year, statement, cfg),
   zeile41 |-> Zeile41(year, statement)]

(* The form for one class of funds: gross.                                  *)
AnlageKapInv(class, year, statement, cfg) ==
  LET sales == OfClass(class, SalesOf(year, statement))
  IN  [distributions |-> SumOver(OfClass(class, DividendsOf(year, statement)), Gross),
       gains |-> Positive(sales, LAMBDA i : KapInvResult(i, year, statement, cfg)),
       losses |-> Negative(sales, LAMBDA i : KapInvResult(i, year, statement, cfg))]

(* What was taken off the sales of a security.                              *)
Reduced(s, year, statement, cfg) ==
  SumOver({i \in SalesOf(year, statement) : log[i].symbol = s},
          LAMBDA i : VpReduction(i, year, statement, cfg))

ComputeTaxYear(year, statement, cfg) ==
  LET stock == StockResult(year, statement, cfg)
      general == GeneralResult(year, statement, cfg)
      stockPot == WithLossCarryforward(stock, cfg.stock)
      otherPot == WithLossCarryforward(general, cfg.other)
      kap == AnlageKap(year, statement, cfg)
      beforeAllowance == stockPot.taxed + otherPot.taxed
      base == Most(0, beforeAllowance - Allowance)
      lump == [s \in LumpFunds(year, statement) |-> Vorabpauschale(s, year, statement)]
  IN  [stock |-> stock, general |-> general,
       stockTaxed |-> stockPot.taxed, generalTaxed |-> otherPot.taxed,
       stockNext |-> stockPot.next, otherNext |-> otherPot.next,
       allowanceUsed |-> Least(Allowance, beforeAllowance),
       taxable |-> base,
       assessed |-> Most(0, base - 4 * kap.zeile41),
       kap |-> kap,
       kapInv |-> [class \in {"Equity", "Mixed", "Bond"} |->
                     AnlageKapInv(class, year, statement, cfg)],
       vp |-> lump,
       accumulatedAfter |-> [s \in DOMAIN lump |-> cfg.vp[s] + lump[s]],
       reduced |-> [s \in Symbol |-> Reduced(s, year, statement, cfg)]]

(* What the user enters for the next year, as the return says: the losses   *)
(* left, the accumulated lump sums, and 0 for a fund whose sale used them.  *)
Carried(return, cfg) ==
  [stock |-> return.stockNext,
   other |-> return.otherNext,
   vp |-> [s \in Symbol |->
             IF return.reduced[s] > 0 THEN 0
             ELSE IF s \in DOMAIN return.vp THEN return.accumulatedAfter[s]
             ELSE cfg.vp[s]]]

-----------------------------------------------------------------------------
Init ==
  /\ FxInit
  /\ log = <<>> /\ navs = <<>> /\ filed = <<>>
  /\ config = [stock |-> 0, other |-> 0, vp |-> [s \in Symbol |-> 0]]

Fits(cash, bookings) == \E mix \in Mixes : cash <= mix[1] /\ bookings <= mix[2]

Book(event) ==
  /\ Replayed
  /\ Fits(Len(rows) + lost, Len(log) + 1)
  /\ log' = Append(log, event)
  /\ UNCHANGED <<today, fxVars, navs, config, filed>>

Buy(s, quantity) ==
  /\ OpenPosition(s, DOMAIN log) + quantity <= MaxHeld
  /\ Book([kind |-> "buy", symbol |-> s, quantity |-> quantity, date |-> today])

(* Short sales are listed by the code and taxed by nobody.                  *)
Sell(s, quantity, result) ==
  /\ quantity <= OpenPosition(s, DOMAIN log)
  /\ Book([kind |-> "sell", symbol |-> s, quantity |-> quantity, date |-> today,
           gross |-> result.gross, old |-> result.old])

PayDividend(s, payout) ==
  /\ OpenPosition(s, DOMAIN log) > 0
  /\ Book([kind |-> "dividend", symbol |-> s, date |-> today,
           gross |-> payout.gross, withheld |-> payout.withheld])

PayInterest(gross) ==
  Book([kind |-> "interest", date |-> today, symbol |-> "cash", gross |-> gross])

(* Half a year goes by; when a year is over, the user looks up its prices   *)
(* for the funds held.                                                      *)
Pass ==
  /\ Replayed
  /\ today < LastDate
  /\ today' = today + 1
  /\ IF YearOf(today') = YearOf(today) THEN UNCHANGED navs
     ELSE LET held == {s \in Symbol : IsFund(s) /\ OpenPosition(s, DOMAIN log) > 0}
          IN  \E nav \in [held -> Navs] :
                navs' = Append(navs, [s \in Symbol |-> IF s \in held THEN nav[s] ELSE NoNav])
  /\ UNCHANGED <<fxVars, log, config, filed>>

(* The next return is made some time after its year, on the statement as it *)
(* is then.                                                                 *)
File ==
  /\ Replayed
  /\ Len(filed) < YearOf(today)
  /\ filed' = Append(filed, ComputeTaxYear(Len(filed), DOMAIN log, config))
  /\ config' = Carried(filed'[Len(filed')], config)
  /\ UNCHANGED <<today, fxVars, log, navs>>

Place == (Extend \/ Consume) /\ UNCHANGED returnVars

Next ==
  \/ \E amount \in Amounts :
       /\ Fits(Len(rows) + lost + 1, Len(log))
       /\ \/ LoseRow(amount)
          \/ \E rate \in Rates : ReadRow(amount, rate)
       /\ UNCHANGED returnVars
  \/ Place
  \/ \E s \in Symbol :
       \/ \E quantity \in 1 .. MaxHeld :
            \/ Buy(s, quantity)
            \/ \E result \in SaleResults : Sell(s, quantity, result)
       \/ \E payout \in Payouts : PayDividend(s, payout)
  \/ \E gross \in Interests : PayInterest(gross)
  \/ Pass
  \/ File

Spec == Init /\ [][Next]_vars

-----------------------------------------------------------------------------
UpTo(year) == {i \in DOMAIN log : YearOf(log[i].date) <= year}

Returns == {filed[i] : i \in DOMAIN filed}

(* Over the years: what either pot was taxed on and what it gained or lost, *)
(* and the lump sums of a fund that were taxed and that were taken off.     *)
StockTaxed == SumOf(LAMBDA r : r.stockTaxed, filed)

StockEarned == SumOf(LAMBDA r : r.stock, filed)

GeneralTaxed == SumOf(LAMBDA r : r.generalTaxed, filed)

GeneralEarned == SumOf(LAMBDA r : r.general, filed)

LumpsTaxed(s) == SumOf(LAMBDA r : IF s \in DOMAIN r.vp THEN r.vp[s] ELSE 0, filed)

LumpsTakenOff(s) == SumOf(LAMBDA r : r.reduced[s], filed)

(* A loss is used once and never lost: over the years, what either pot was  *)
(* taxed on is what it gained and lost plus the loss still carried, nothing *)
(* negative is ever taxed, and nothing is carried past a gain that could    *)
(* have used it.  The figures pass through the configuration.               *)
LossesUsedOnce ==
  /\ StockTaxed - StockEarned = config.stock
  /\ GeneralTaxed - GeneralEarned = config.other
  /\ \A r \in Returns : /\ r.stockTaxed >= 0 /\ r.stockNext >= 0
                        /\ r.stockTaxed > 0 => r.stockNext = 0
                        /\ r.generalTaxed >= 0 /\ r.otherNext >= 0
                        /\ r.generalTaxed > 0 => r.otherNext = 0

(* A lump sum is taken off a sale once: per fund, the lump sums taxed over  *)
(* the years are those taken off and those still carried, and none is       *)
(* carried for a fund that was not held at the last year's end -- however   *)
(* the position was bought, sold in parts and bought again.                 *)
VorabpauschaleTaxedOnce ==
  \A s \in Symbol :
    /\ LumpsTaxed(s) - LumpsTakenOff(s) = config.vp[s]
    /\ config.vp[s] > 0 => OpenPosition(s, UpTo(Len(filed) - 1)) > 0

(* The return of a year is the same whenever it is made: computed from a    *)
(* statement that goes on for years it says what it would have said on the  *)
(* last day of the year.                                                    *)
LateFilingAgrees ==
  LET year == Len(filed)
  IN  year < YearOf(today) /\ DOMAIN log # UpTo(year) =>
        ComputeTaxYear(year, DOMAIN log, config) = ComputeTaxYear(year, UpTo(year), config)

(* The tax office arrives at the program's estimate: the net income of the  *)
(* form for everything but funds, and the gross fund figures of the other   *)
(* form after the exemption the office applies, are together what the two   *)
(* pots were computed from; of the former, the share sales are the stock    *)
(* pot's.                                                                   *)
FormsMatchEstimate ==
  \A r \in Returns :
    /\ r.kap.zeile19
         + SumOver({"Equity", "Mixed", "Bond"},
                   LAMBDA class : TaxablePortion[class] * (r.kapInv[class].distributions
                                    + r.kapInv[class].gains - r.kapInv[class].losses))
       = r.stock + r.general
    /\ r.kap.zeile20 - r.kap.zeile23 = r.stock

=============================================================================
