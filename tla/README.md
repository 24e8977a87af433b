# Verification of `investments`

A TLA+ development kept beside `investments`, a single-user command line
program that reads broker statements, keeps a small SQLite database (quotes,
currency rates, portfolio assets, telemetry records, settings), and computes
performance, taxes, tax statements and rebalancing plans.

Every definition is translated from the source; comments in the modules name the
function. `PROJECT.json` maps each definition to its lines, lists the runs, the
mutants that show what each property can catch, the findings, the hazards and
the theorems.

## 1. The system

### Parts, state, interaction

| Part | Source | State | Operations | Hard behaviour | What makes it correct |
|---|---|---|---|---|---|
| Telemetry delivery | `telemetry.rs`, `bin/investments/mod.rs`, `db/mod.rs` | tables `telemetry`, `settings`; per process the sender thread and its deadline | load and trim, send, add, close | overlapping processes, thread against deadline, lost answers, kills | no unsent record deleted; the program ends whatever the server does |
| Trade matching | `broker_statement/{mod,trades,corporate_actions,validators,grants}.rs` | lists of buys, sells and actions, remembered splits, open positions | load, corporate actions, `process_trades`, `emulate_sell` | batch order against chronological order, repeated matching | the result is the chronological FIFO attribution |
| Official rates | `currency/{rate_cache,converter}.rs` | table `currency_rates`, memory | lookup, download, save, cross conversion | publication a day ahead, corrections, midnight, other runs | only final rates are stored; answers are official |
| Spanish savings base | `taxes/spain/{carryforward,compensation}.rs` | ledgers of losses by year | absorb own, cross, cross prior, carry, expire | order of three regimes, losses used in parts over years | a loss is used once, as much and as early as allowed |
| Spanish wash sales | `tax_statement/spain/{wash_sale,processor}.rs` | blocked lots, released parts, the carried block of the configuration | replay of all sales per return | deferrals split, released, moved on; state between runs is pasted text | a loss is deducted once; a settled return stands |
| Real-time quotes | `quotes/{mod,cache}.rs`, providers | table `quotes`, memory, batched requests | batch, get, execute, passes | concurrent providers, expiry row by row, overlapping runs | `get()` never panics, directions of a pair agree, order of providers |
| Historical quotes | `quotes/cache.rs` 94-148 | periods per symbol | save and merge periods | merging restarts after each merge | periods disjoint, known answers stable |
| Statement loading | `broker_statement/{mod,merging,partial,reader,dividends,taxes,payments}.rs`, `taxes/remapping.rs`, readers of Interactive Brokers and Firstrade | the statement being merged, accruals | read, sort, merge in order of periods, match accruals | charges, refunds and dividends in different files and sections, under different dates; gaps between files | income and withholding as posted, whatever the split into files; nothing missed but what a strategy allows |
| Foreign currency FIFO | `tax_statement/fx_fifo.rs` | signed queue of lots per currency | one movement at a time | a movement that turns the balance, rows missing from the export | one sign in the queue, balance equals the broker's |
| German return | `tax_statement/germany/{processor,statement}.rs`, `taxes/germany/` | pots of a year; between years the losses and lump sums in the configuration | pass over the statement, carry-forward, forms | the statement ends long after the year filed; figures come back through the configuration | losses and lump sums are used once, a late return says what a timely one says, the forms agree with the estimate |
| Rebalancing | `portfolio/{rebalancing,asset_allocation}.rs` | target values in a tree, free cash | restrictions, top-down targets, distribution of cash | trades cost commissions that change the cash; a `HashSet` decides ties in an order of its own | orders allowed, value conserved, it ends |
| Taxes and tax statements | `taxes/`, `tax_statement/` | accumulators of one pass | one pass over a loaded statement | none beyond the rows above | sums and tables |
| Parsers, formats | `broker_statement/{bcs,ib,...}`, `formats/` | none shared | parse a file | malformed input | out of scope |
| Providers, transport | `quotes/*.rs`, `network/`, `rate_limiter.rs` | HTTP clients | one request | failures, retries | modelled by what they may return |
| Analysis, backtesting, metrics | `analysis/`, `metrics/` | none kept | numerical search | convergence | out of scope |

Interaction is by calls inside one process: a command loads statements, which
ask the converter for rates; the converter asks `RateCache` and `Quotes`; both
share the database with every other run of the program (a cron job that
collects metrics, a user at a terminal). Each run first loads telemetry and ends
by closing it. The tax statements read what the loader matched. Between two
years the only state is what the user copies from a report into the
configuration: that is modelled as a file the next run reads.

So there are two sources of difficulty and the models follow them:
*concurrency through the database* (Telemetry, RateCache, Quotes) and
*long legal sequences through an algorithm whose order differs from that of the
events* (StockFifo, Loading, FxFifo, GermanReturn, SavingsBase, WashSale,
Rebalancing).

### Coverage

`PROJECT.json` lists every component. "modelled": telemetry, savings base, wash
sales, foreign currency. "partly": trade matching, official rates, real-time
quotes, statement loading, the German return, rebalancing (section 6 says what
is left out of them). The others are not modelled, with the reason.

## 2. Modules

| Module | Role |
|---|---|
| `Telemetry` | processes that overlap, each with a main thread and a sender thread |
| `ShareLedger` | the abstract specification of trade matching: a chronological ledger of lots, oldest first |
| `StockFifo` | a world that trades and writes a statement, then the program that loads it; composes `ShareLedger` |
| `Loading` | a broker that pays and corrects, a user who downloads statements, then the program that reads, merges and matches them |
| `RateCache` | banks that publish and correct, a calendar, runs that convert |
| `SavingsBase` | consecutive yearly returns |
| `WashSale` | a taxpayer who trades and files; each return replays the statement |
| `Quotes` | runs that batch, plan, download and cache |
| `CurrencyAccount` | the abstract specification of foreign currency: a movement closes the oldest opposite units, the rest opens a position |
| `FxFifo` | the queue of lots that implements it, fed by an export that may lack movements |
| `GermanReturn` | a statement that grows, and the returns of consecutive years computed from it and from the carried figures; `FxFifo` is part of it |
| `Rebalancing` | one `rebalance` command on any of a set of portfolios |
| `QueryPlan` | the routes of `Quotes`: which providers a symbol is asked of, in which order, as `Exchange` and `batch()` make them |
| `MC*` | values of the constants for TLC |
| `SumTheorems` | lemmas about sums over finite sets and sequences |
| `SavingsBase_proofs`, `WashSale_proofs`, `Quotes_proofs`, `GermanReturn_proofs`, `Rebalancing_proofs` | the theorems about the module of that name and their proofs; those about `FxFifo` are with `GermanReturn`, of which it is a part |
| `Statement_proofs` | the theorems about `StockFifo` and `Loading`, the two halves of loading a broker statement; therefore the names that both would use are `StockInit`, `stage`, `svars` and so on in `StockFifo` |
| `Database_proofs` | the theorems about `RateCache` and `Telemetry`, the two that share nothing but the database; therefore the names that both would use are `phase`, `Invocation`, `TelemetrySpec` and so on in `Telemetry` |

### Telemetry

A process goes start, loaded, trimmed, running, closing, done. `Load` and `Trim`
are two actions because `load()` issues two statements outside a transaction;
`StartSender` contains the transaction of `user_id()`. The sender thread is
`Post`, then the server's `ServerAccepts` (which may happen after the process
has died, since the request is in the network), then `SendSucceeds` or
`SendFails`. `Timeout` races with them and `Kill` may happen at any point, for a
kill, a panic or "database is locked". A record is named after its process, for
a process adds at most one. The deadline is a choice: it may expire before
anything happens unless the sender was given extra time.

### StockFifo over ShareLedger

In the phase "trading" the world acts: every event updates the ledger and is
appended to the statement as the broker would print it, newest first or oldest
first. In the later phases the program sorts (`Load`), takes the corporate
actions one by one (`ProcessSimpleSplit` remembers a divisor,
`StartComplexSplit` and `ConvertPosition` match and convert, `ProcessRename`
renames trades and splits), and matches one source at a time (`MatchSource`).
An acquisition is cut into `Unit` parts that carry its identity and its cost
through conversions; `HistoryReproduced` compares these with the ledger's. This
is a refinement of a relation between results rather than of steps: the batch
program does everything after the world's last event, so its state has to agree
with the ledger when it is ready, and not before.

The histories are restricted to those a statement can express: a trade shares
its time only with a split or a rename, and then counts as made after it; one
corporate action per moment; a ticker that was renamed away is used again only
at a later time; a rename goes to a symbol never used before; spinoffs and
delistings share their time with nothing. `MaxEvents` bounds the history.

Sorting is stated by rank: the n-th item of a sorted list is the one that n - 1
items come before (`Before`, `Nth`, `InOrder`), which is what a stable sort by
time computes and what can be reasoned about.

### Loading

In the phase "posting" the broker pays dividends and withholds taxes
(`PayDividend`) and corrects them (`Correct`): Interactive Brokers reverses what
it posted and posts anew, for taxes possibly under the date of the correction;
Firstrade posts the difference; the others never correct. `Download` chooses the
files, which sections of a Flex query list which income, which file has the last
name, and the user's `tax_remapping`. Then the program acts: `Read` (a file that
fails, fails the load), `Sort`, `Merge` once per file in the order of periods
under the broker's `MayFollow`, `ProcessDividend` once per dividend in any order
(a hash map), `CheckUnmatched`. An accrual is a set of rows, so that "once" is
about rows, not sums. `NothingMissed` names what each strategy leaves open.

Firstrade's files report the cash of the day they were generated (`made`), not of
their last day; the last one must reach that day (`IncludesItsDay`).
`BooksBalance`, the second half of `LoadedAsPosted`, reads the result of this,
`historical_assets`: what is recorded for a day is the cash of that day, and of
the last one, where the files leave no day out, it is what the loaded dividends
came to.

`CompleteFilesLoad` excludes one known case: the statement of funds passes
negative dividends to `Payments::add`, which asserts they are positive; a
reversed dividend in a query without cash transactions stops the load with a
panic (`Asserts`). In the same section `tax_remapping` is not applied to
withheld taxes, so a rule for one stays unused and fails the load; and Flex
queries never report what the account started with, so what precedes the first
statement is not missed.

### RateCache

`Publish`, `Correct` and `NextDay` are the bank and the calendar. A run looks a
day up (`Found`/`Missing`), `Download`s a range (or fails), and `Save`s it;
lookup, download and save are separate actions, so others act in between; a
save may fail like any write, and ends the conversion.
`Continue` is the walk back over days without a rate, also for conversions
between two foreign currencies, which need one day that has both rates. A run
fixes `today` when it starts. The ghost variable `seen` is what was published
when the run started. `AtOnce` bounds overlapping: two runs at once when the
rates of one currency are published, successive runs when two are.

### FxFifo and GermanReturn

`ReadRow` takes a row of the statement of funds and compares the sum of the rows
with the balance the broker printed; a difference refuses the statement. The row
is then placed portion by portion: `Consume` closes units of the oldest opposite
lot, `Extend` adds the rest on its own side. `LoseRow` is a movement the export
lacks; a wrong declared opening is a first row with any balance. `PromiseKept`
is the refinement: under the mapping that lets a row take effect with its last
portion, every step of the queue is a step of `CurrencyAccount` or none.

`GermanReturn` adds the other bookings (`Buy`, `Sell`, `PayDividend`,
`PayInterest`) and the calendar (`Pass`, which fixes the year's redemption
prices). A return is a function of the statement so far and of the carried
figures (`ComputeTaxYear`), as it is in the code; `File` computes one and writes
its figures into the configuration. What a sale gained is arbitrary here, for
how it is attributed is StockFifo's subject.

Abstractions: dates are half years, one rate per row, one symbol per ISIN; the
tolerance of a cent, rounding and the tax rates are left out; amounts are
twentieths of a euro, so exempt parts are exact. A fund that leaves by a
corporate action, grants and short positions are left out.

`LedgerReproduced` says two things of the private sales of held currency:
`BalanceReproduced` has the sums over all years, `AnniversaryDecides` the line
between the taxed and the tax-free ones. The latter looks a disposal's two dates
and prices up in the rows of the export, not in what the queue kept of them
through its portions, and draws the line itself: on the anniversary taxed, the
day after free.

What the balance check cannot see: missing rows whose amounts sum to zero
between two printed balances. `LedgerReproduced` therefore speaks of the rows
that were read, and of a replay that was not refused.

### Rebalancing

The phases follow `rebalance_portfolio()`: `CalculateRestrictions` bottom-up;
`OpenGroup` (initial target values and restrictions of a group), `CorrectBalance`
(one trade), `Corrected` and `CloseGroup` (what is left returns to the parent),
depth first; `CalculateResult`; `DistributeCash` (one trade over the whole tree)
and `Distributed`, for selling and then for buying; `ChargeAdditional`. Ties
between equally good trades are taken in any order in a group, where the code
iterates over a hash set, and in the order of the configuration in the
distribution. Results are compared as exact fractions instead of `f64`.

`OrdersAllowed` lets two kinds of order be smaller than the minimum trade and
clear a fraction of a share where only whole ones are traded (`SoldOut`): both
leave nothing of the stock. One is a stock beside the groups of a portfolio whose
reserve is above its worth: nothing is left to buy with. The other is a stock of
weight zero. `calculate_initial_target_values()` computes its target in whole
shares and keeps the fraction, but its limits are max = min = 0, and
`apply_restrictions()` cuts the target to them (`rebalancing.rs:201-211`): with
1.5 shares held and `fractional_shares_trading` off, the order is to sell 1.5.
That is the code's reading of "deprecated", and no document of the repository
says otherwise; a reader who expects an order the broker can execute should know
of it. Nothing else is exempt, and a stock of weight zero with
`restrict_selling` has no order at all.

Notes for a reader of the code. `iterative_trading_granularity()` compares an
amount of money with a number of shares (`volume > self.target_shares`); the
model does the same. A purchase is compared with the free cash before its
commission, so `min_cash_assets` ("free cash assets that must left after
portfolio rebalancing") may be missed by the commissions of the last order and
of the day: `ReserveKept` says exactly that. A group of weight zero that cannot
be sold out does not stop its members from being bought.

### SavingsBase

A year is: `OpenYear` (the configuration's balances, labelled by year),
`AbsorbOwn` and `CrossPrior` once per origin of the ledger, `CrossCurrent` in
between, `CarryForward`. The regimes are constants of `Mode`: "None" is
Gipuzkoa, "Aeat" the common regime, "Navarra". A taxpayer may change regimes.
History variables `arisen`, `relieved`, `expired` record where each loss went.
`NothingWasted` pins the expiry to its year: a loss is dropped in the return of
the year `CARRYFORWARD_YEARS` after its own and in no other, and no later return
finds any of it.

### WashSale

The taxpayer buys and sells one instrument day by day and files from time to
time; `File` starts the run for a year, `Process` handles one sale: releases
what it sells (`Released`), matches its loss against shares in the window
(`Matched`), blocks them (`NewlyBlocked`), and moves released deferrals on
(`Reattached`). `FinishReturn` keeps what belongs to the year of the return.
Filing writes the next configuration in one of two ways: "original" keeps the
entry the filer wrote when the loss left the statement, "copied" copies the
block the tool printed.

Abstractions: days instead of calendar months and their clamping; one
instrument; the statement starts on day one and is only ever extended; a year
is filed again only with an extended statement; amounts are multiples of 5040
so that the divisions within the bounds are exact; fields that are only printed
are left out.

### Quotes

A run batches symbols (`Start`), normalises the direction of a pair (`Normal`),
and in each pass calls the next provider of every missing symbol (`PassPlan`).
`Download` is one provider's answer; the answers of one pass come in any order,
are all awaited, and are then applied one by one (`Look`, `SaveReverse`,
`SavePair`, `SaveStock`), each write to the table being a step of its own.
A provider may lack a quote, return the reverse pair, or fail. `Restart` is the
end of a run, its failure or its death at any point.

A row of the table expires on its own, so what a run reads of a pair and of its
reverse may stem from different quotations; `DownloadedAgree` is about what the
run downloaded itself.

Abstractions: a price is the quotation it stems from; there is one currency
pair; historical quotes, the offline mode and the rounding of prices are left
out; a lookup in memory and table is one step.

## 3. Runs

| Run | Question | Bounds, and why they are enough |
|---|---|---|
| `telemetry` | Do overlapping, failing and dying invocations lose a record, mix users, or hang, and does the backlog stay bounded while the server is well? | four invocations, of which one has come and gone undisturbed and its record was kept or not, and two of the others may be alive at once; a limit of two records and extra time at multiples of two, so that an invocation meets a number of records that is a multiple of the threshold and one that is not; one process reads rows, another adds and deletes, a third follows; a history variable tells whether the server has been well all the time |
| `stock_fifo` | Is every history attributed as the ledger does, is no part of a cost lost or used twice, are simulated sells harmless, and does loading end? | five events on two symbols with renames, at most four shares of each, and one simulated sell; ratios 1:2 (divisor), 1:3 (no finite inverse) and 2:1 (reverse), so both algorithms meet in one history; not a Russian broker, whose splits all convert |
| `rate_cache` | Does the table only hold final facts when runs share it, and are conversions answered with the right day? | three days, a walk of two days back and a window of one more, rates published a day ahead: late, on time, corrected and missing rates; two currencies with any two calendars; two runs at once when one currency has rates |
| `savings_base` | Are losses conserved and used as the regimes demand? | four years under a window of two: a balance is accepted, used in part, and expires, and a return follows the one in which it must have; five results per group and year |
| `wash_sale` | Is every loss deferred exactly, released once, and deducted once? | four trades over five days, window of one day, years of two: windows reach back, forward and over the end of the year; two returns |
| `wash_sale_copied` | Violation, see findings | as above, two trades |
| `quotes` | Does a plan end, respect the order of providers, ask once and leave `get()` its answer? | one run restarted, two stocks and both directions of a pair, the four kinds of provider, rows that expire |
| `loading` | Is what was posted what is loaded, whatever the files? | four brokers; four days of two months with a weekend; three payments or corrections; any one to three files, sections and remappings; the last Firstrade file generated on any day of its period's end or later |
| `loading_refund` | Violation, see findings | as above, one broker, two postings |
| `german` | Does the queue keep its promise, and do losses, lump sums and forms add up over the years? | two years in half years, a share and an equity fund; four cash rows, or three bookings, or two rows and one booking; one lost movement; prices that rise, fall or are absent, chosen for a fund held; currency held for less than a year, for exactly one and for longer; a loss, and a gain that is partly one of shares bought before 2009 |
| `rebalancing` | Are the orders allowed, is value conserved, is the reserve kept, and does it end? | 17496 portfolios: three stocks in two levels, any of three weightings per group (zero among them), three sets of restrictions, whole and fractional shares, with and without a minimum trade and cash, a reserve of nothing, of a part and of more than most portfolios are worth; prices below and above a unit of the currency; fees per order, share and day. No group of weight zero in it meets the failing assertion |
| `rebalancing_deprecated` | Violation, see findings | restrictions on a group and on one of its stocks |

Deadlock is checked in every run but `german`; where a system ends, the terminal
states stutter by an explicit action (`Terminated`, `Finished`) that is enabled
only there. In `german` nothing ends by itself: a refused replay takes no more
rows, the dates and the bookings of a run are bounded, and once they are used up
the model stops in the middle of a statement that would go on.

Symmetry is used for interchangeable processes and only in runs without
temporal properties.

### Fairness

* `Telemetry`: weak fairness of the main thread of each process. The operating
  system schedules it. Nothing is assumed of the sender thread, the network or
  the server, which is the point of `EveryCommandEnds`: the wait has a deadline.
* `StockFifo`: weak fairness of the program, which is sequential; none of the
  world.
* `Quotes`: weak fairness of the steps of a run. A download is one of its steps
  and ends because the HTTP clients have timeouts; it may end in an error, and a
  run may exit at any moment.
* `Rebalancing`: weak fairness of the command, which is sequential.
* The others: none; only safety is stated. (A conversion of `RateCache` ends
  because every round goes back a day and there is a last one.)

### Findings

* `wash_sale_copied`: the documentation asks to copy the printed block of
  deferred losses forward each year. When the statement covers several years and
  the loss predates it, the copied entry, already reduced by the first year's
  sales, is reduced by the same sales again in the next run, and that part of
  the loss is deducted in no return. Keeping the entry as first written is right
  (`DeductedOnce` holds in `wash_sale`).
* `loading_refund`: a comment says that dropping a refund without its dividend
  errs against the taxpayer. When a tax is refunded whole under another date
  than its dividend's, the dividend keeps the tax and the refund is dropped: the
  taxpayer is credited more than the broker kept.
* `rebalancing_deprecated`: an assertion says that a deprecated asset that
  cannot be sold out has one possible value. A group of weight zero with
  `restrict_buying`, one of whose two stocks has `restrict_selling`, has several,
  and the command panics.

## 4. Proofs

All theorems are checked by TLAPS, for every value of the constants that meets
the modules' assumptions, which TLC evaluates in the runs.

* `Database_proofs`, the records of use: `TelemetryTypeCorrect`, and `RecordsSurvive`
  (`TelemetrySpec => NoRecordLost`). A delete takes every row up to an id, so it is safe
  only if the process has seen all of them. The invariant `Safe`: ids only grow
  (`IdsGrow`); a row with an id not above one that a process has selected was
  selected too (`SnapshotsCover`); the rows that `load()` gave up are gone before
  the request is sent (`ExcessGone`); a result or a request in flight is what
  the server has (`Accepted`). AUTOINCREMENT is essential: a reused id breaks
  `SnapshotsCover`, which is the mutant of this property. `OneUser`: where no
  process that sends is configured, whatever was sent was sent as what is stored
  (`SentAsStored`). `OnlyExcessDropped`: needs in addition that ids are unique
  (`IdsUnique`), so that rows are counted by counting ids. `BacklogStaysSmall`:
  the safety half of what the run calls a bounded backlog; while the server has
  been well all the time, one process is alone with fewer rows than any
  threshold (`AloneWhileCalm`).
* `SavingsBase_proofs`. `TypeCorrect` (nothing is reduced below zero),
  `Conserved` (`[]LossConserved`) and `CrossWithinLimit` (`[]CrossLimited`), for
  any window, results and change of regime. The invariant `IInv` adds to the
  types: a return is only open before the last year (`Filing`); nothing is known
  of a year not yet opened (`Fresh`); between returns no negative result waits
  (`NonePending`); a positive result is what is taxed plus what reduced it
  (`Spent`); Navarra crosses last (`NotCrossed`); and what has crossed and what
  may still cross are together within the limit (`Budget`). `LossConserved` needs
  the second and third, or opening and closing a year could overwrite something;
  `CrossLimited` needs the rest, for it does not mention the remaining allowance.
  `MaximumAbsorbed` and `ExpiredInVain` (`NothingWasted`) add `UsedUp`: what each of the three
  rounds has been offered is used up or there is nothing left to reduce
  (`OwnFirst`, `CrossNext`, `PriorLast`), and a balance is untouched while an older
  one is left (`OldestFirst`). `NeverRejected`: no carry-forward leaves a balance
  that the next `from_config()` refuses. `NeverLate`: none is left past its
  last year, which gives `ExpiredInVain` the year of every expiry.
* `Database_proofs`, the official rates: `TableHoldsTheTruth` (`[]StoredOfficial`), `SavedIsFound`
  (`[]NothingExpectedMissing`) and `ConversionsAreOfficial` (`[]AnswersOfficial`),
  for any number of runs, banks and currencies, any calendar and any days
  without rates. The invariant: the table holds only days that have come, the
  final rate of each, or none if there is none (`Table`); the memory of a run is
  of its past, and a day it remembers as having no rate has none, or was not out
  when the run was started (`Remembered`); what is downloaded and what is asked
  for lie where the walk back put them (`Known`). The day without a rate is what
  makes it interesting: only a *later* rate proves that there is none.
* `Quotes_proofs`. `TypeCorrect` (a pair is only asked for in its normal
  direction), `GetNeverPanics` (`[]GetAnswers`), `DownloadedPairsAgree`
  (`[]DownloadedAgree`) and `PreferredAskedFirst` (`[]PreferredFirst`), for any
  number of runs, stocks, providers and any routes. The invariant says of each
  run: while the second direction of a pair is owed, the first is in memory and
  made from the same quotation (`Owed`); what has been saved is remembered, a
  pair in both directions (`Remembered`); what `get()` will unwrap is still to be
  asked for, owed, or in memory, or the plan has failed (`Coming`); and what is in
  memory was earned by a provider whose predecessors on the route had nothing
  (`Routed`). Assumptions: no provider is called "nobody", and pairs are not
  stocks.
* `Statement_proofs`, the matching of trades. `CostIsUsedOnce`, for any history,
  ratios, renames, jurisdiction and order of the lists: no lot is oversold, no
  sell matched beyond its quantity, and what the lots keep of a purchase's cost
  and the sells have used of it is never more than it was, however the divisions
  round. `Lost` is what is missing of a purchase. The invariant `IInv` says that
  it is never negative, and what is needed for that: the types, with `sold` at
  most `qty` (`Lists`); that no event is in the future and the program's phases
  follow it (`Clocks`); that outside the world's phase the corporate actions are
  in order and every remembered divisor is older than those still to come
  (`StockPhases`), so that a multiplier is that of the splits between two trades;
  and that a spinoff still waiting is not a purchase yet (`Ids`), or processing
  it would count it twice. Each action is shown to leave `Lost` as it is, but for
  a match, whose division may round.
  `CostIsConserved` is `StockSpec /\ []WholeParts => []CostConserved`: when what
  the next match takes of a lot is a whole number of its parts, a match loses
  nothing either. The code's decimals divide where the model's whole numbers
  would not; `WholeParts` holds in every state of the run, whose acquisitions
  have 1209600 parts for that reason, and is checked there with the property.
  `MatchedSellsStay` is the action property: sorting rearranges a list
  (`SortedList`, `NthIsRanked`), so a matched sell is found again after every
  step with the lots it took.
* `Statement_proofs`, the merging of files. `NothingIsMissed`, `OnlyRefundsAreDropped`,
  `WhatIsLoadedWasPosted` and `CompleteStatementsLoad`, for any number of issuers,
  days and postings, any calendar, files and amounts. `Span`: the merged period
  begins with the first file and ends with the last one merged. `Gathered`: an
  accrual holds all entries of its key in the files merged so far, and those of
  a key that has none were made into a dividend or a movement of cash. `Books`:
  over its whole life the rows of an income and of its tax add up to what the
  broker finally says, and a tax has a dividend. `Downloaded`: what the user's
  files and rules may be. The third and fourth theorem relate the sums over what
  was merged to sums over what was posted. For the cash, `CashKept` follows
  `assets` through the merging, `FirstPaid` says that a row never precedes its
  dividend, and `CashIsLoaded` adds up the rows read, dividend by dividend
  (`SumOfGroups`).
* `GermanReturn_proofs`, the queue: `QueueIsInOrder` (`[]QueueInOrder`), for any
  amounts, rates, openings and bookings. The invariant `QueueInv` adds the types
  and `InPlace`: while a row is being placed it is younger than every lot, and no
  realization is of a row later than the last, or a younger lot could be touched
  before an older one. `LedgerIsReproduced` (`[]LedgerReproduced`): `LedgerInv` is
  the same balance over all realizations, to which the sum by years is reduced;
  and what a lot and a realization have of their two rows is what the rows have
  (`Traced`), through every portion, so the buckets filled from the realizations
  are those the dates and prices of the rows tell (`DatesDecide`).
  `PromiseIsKept` (`Spec => PromiseKept`) is the refinement: the queue implements
  `CurrencyAccount`. A movement there is a row here, whose portions come one by
  one; so the invariant `PlaceInv` knows what the last row has taken so far: of
  each older row once, all that was open of it (`TakenSoFar`), of rows older than
  every lot that is left, and in sum what no longer remains of it (`UnderWay`).
  With the last portion these portions together are a `take` of the account
  (`MoveIs`), every other step is a stutter.
* `GermanReturn_proofs`, the returns: `EachLossUsedOnce`, `EachLumpTakenOffOnce`,
  `FormsAgreeWithEstimate` and `LateReturnsAgree`, for any securities, classes of
  funds, events and calendars. Results of a year are sums over the bookings of
  the year by class; the invariants say that every figure filed is the one of
  the statement up to its year, which later bookings do not change, and that
  what the configuration carries is the difference of two sums over the returns.
* `Rebalancing_proofs`. `OrdersAreAllowed` (`[]OrdersAllowed`), for any tree,
  prices, portfolios and commissions, whatever is chosen among equally good
  trades: an order that is not of whole shares, or too small, leaves nothing of
  a stock that is to be sold out. `IInv`: the limits are those of the tree (`LimitsFound`); groups are
  opened after their parents and closed after their children (`DepthFirst`); a
  waiting group is given no debt (`NoDebt`); each stock of an open group has an
  order that may be (`OrdersMayBe`); with a reserve above the worth there is
  never anything to buy with (`NothingToSpend`); and cash, orders and commissions
  are the portfolio's value (`Accounts`).
  `ValueIsConserved` is `Spec /\ []WholeAmounts => []ValueConserved`: amounts are
  whole numbers in the model, so a weight may lose a fraction that the code,
  with decimals, does not; `WholeAmounts` says that none does, and holds in every
  state of the run, whose amounts are multiples of four for that reason (and
  `ValueConserved` itself says it of a group just opened).
* `WashSale_proofs`, the deferrals: `DeferralsAreConserved`
  (`Spec /\ []WholeShares => []DeferralConserved`) and `DeferralIsExact`
  (`=> DefersExactly`), for any window, years, trades, carried-in deferrals and
  either way of carrying them on. What `Effect` makes of the blocked lots is said
  once (`EffectFacts`), as sums by day and by label, for the operators are
  recursive functions on sequences. The invariant `DeferralInv`: sales consume
  only shares acquired (`StatementOK`), lots have a loss on shares that exist,
  those snapshotted too (`DeferralsOK`), and for every *set* of labels what was
  carried in and deferred is blocked or reintegrated (`Balanced` in `ReplayOK`),
  of which the property has the single labels, and the years of
  `LossesAreDeductedOnce` the unions.
* `WashSale_proofs`, the returns: `SettledReturnsStand` and
  `LossesAreDeductedOnce`, when `Filer = "original"` (the other way is the
  finding `wash_sale_copied`). A return is computed from a statement that grows
  afterwards, and may name another effect for the same sale then. The invariant
  `ReturnsInv` says of each return that its figures are those of a replay, which,
  if the return is settled, is the replay of the statement *as it is now*
  (`Backed`); of a run that it is such a replay as far as it got (`RunOK`). That
  a trade does not disturb it is `BackedKept`: what is bought on a later day than
  the return covers lies in the window of no sale it has settled. Two replays of
  one statement are equal (`ReplaySame`), hence the first theorem; the second
  adds up `Balanced` over the sales of both years.
  `WholeShares`: what the next disposal shares out divides evenly. The model
  divides whole numbers, the code decimals with 28 digits. It holds in every
  state of the run `wash_sale`, whose amounts are multiples of 5040 for that
  reason.
* `SumTheorems`. The community modules define a sum by a recursive fold over
  `CHOOSE`n elements; that the order does not matter, and the laws used
  everywhere (one element more, one value changed, unions, labels, reindexing),
  are proved here once. Induction over finite sets is first-order: the set of the
  subsets that have the property is shown to contain the whole
  (`SubsetInduction`), for theorems with an operator parameter cannot be used.

Proof attempts found errors in the models, which TLC's bounds had hidden or a
reading had missed: a save of rates that fails (RateCache); a list of
providers that lacked a quote, kept for a symbol too many (Quotes); and orders of
a portfolio that is worth less than its reserve, which were not what the
property allowed (Rebalancing; the run now has such portfolios).

Only model-checked:

* liveness (`EveryCommandEnds`, `LoadingEnds`, `EveryPlanEnds`,
  `RebalancingEnds`), which is outside the prover;
* `ReserveKept`: it holds for the run's prices and commissions, not for all: a
  position that has to be sold whole can block the sale that the reserve needs;
* `LegalStatementLoads` and `HistoryReproduced` of StockFifo: they relate the
  program's matching at the end to the whole history, event by event, through
  every order in which splits and renames are applied to it; the invariant would
  have to simulate what is left of the loading in every state.

## 5. Hazards without a property

Listed in `PROJECT.json` with a note each: remapping after the corporate actions
leaves the remembered splits under the old symbol; merging of historical
periods.

Smaller ones, not in the list: a gain sale of more shares than it releases
blocks all its replacements, more shares than the moved deferral had (no
document says how many it should block; `DeferralConserved` bounds it by the
shares held); T-Bank's list of currencies is filled entry by entry and an
invalid entry leaves it partial for the next call of the run; a static quote
configured for the reverse of a pair's normal direction is never asked for;
T-Bank retries only three kinds of gRPC errors and only within a minute; the
rate limiter consults its limits one after the other and drifts, which its
comment states.

## 6. What is not modelled, and why

* Parsing, formatting, HTML and CSV output, forms: data without control shared
  between parts.
* Tariffs, tax tables, scales and coefficients: functions of one year's amounts
  without state; unit and property tests of the repository reach them.
* Performance, backtesting: numerical search over decimals.
* Decimal precision: quantities and amounts are integers chosen so that
  divisions are exact within the bounds; the rounding of money is not modelled.
* SQLite itself: a statement or a transaction is atomic, and any of them may
  fail ("database is locked").
* Within "partly" components: execution dates, currencies and rounding of costs,
  statements without declared positions (StockFifo); tax agents, grants, fees,
  symbol remapping (Loading); exchange quotes used for dates after today and the
  cache-only mode (RateCache); historical quotes (Quotes); the tax itself, grants, corporate actions of funds, two symbols of
  one ISIN, `acquired_month` (GermanReturn); percentage and monthly commissions,
  the marks of the printed table (Rebalancing).
* Much of the source is of these kinds: generated API bindings, parsers,
  formatters, forms, tables and tests are most of its lines.

## 7. Plan

Done: Telemetry, StockFifo over ShareLedger, Loading, RateCache, SavingsBase,
WashSale, Quotes, FxFifo over CurrencyAccount, GermanReturn and Rebalancing, with
proofs about each of them.

Still to write: `HistoricalQuotes`, the periods of `save_historical` (disjoint,
not adjacent, a known answer is stable), in the run of `Quotes`; the Russian
broker's splits as a variant of the stock run.

Theorems worth proving next: `LegalStatementLoads`, which needs that no program
state has more sold than bought of a symbol, first for histories without complex
splits.

## 8. Running

    tlc -workers 2 -config MCTelemetry.cfg MCTelemetry
    tlapm Database_proofs.tla

and likewise for the other configurations and proof modules. No run takes more
than a few minutes.
