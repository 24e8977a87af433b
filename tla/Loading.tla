------------------------------ MODULE Loading ------------------------------
(***************************************************************************)
(* How broker statements are read, merged and their dividends matched with *)
(* the taxes withheld from them (src/src/broker_statement: mod.rs,         *)
(* merging.rs, payments.rs, dividends.rs, reader.rs, and the readers of    *)
(* Interactive Brokers' Flex queries and of Firstrade's files).            *)
(*                                                                         *)
(* A dividend is paid once, but the broker may correct it and the tax      *)
(* withheld from it any number of times, months later and in another       *)
(* statement: it reverses what it posted and posts it anew.  The user      *)
(* downloads statements for periods of his choice.  The program collects   *)
(* all postings under the day and the issuer of their dividend, joins the  *)
(* collections of all statements and only then computes what each dividend *)
(* came to.                                                                *)
(*                                                                         *)
(* "posting" is the world; the other phases are the program's.             *)
(***************************************************************************)
EXTENDS Integers, FiniteSets, FiniteSetsExt, Functions

CONSTANTS
  Issuer,         \* issuers of shares
  LastDay,        \* days are 1 .. LastDay; the account is opened on day 1
  MonthLength,    \* days in a month
  Weekend,        \* days of weekends, on which nothing is posted
  Brokers,        \* brokers the portfolio may be held with
  Terms,          \* <<amount, tax>> of a dividend
  Misdating,      \* corrections of taxes may bear the date they are made on
  MaxPostings,    \* BOUND: payments and corrections
  MaxFiles        \* BOUND: statements

Day == 1 .. LastDay

ASSUME LoadingAssumption ==
  /\ LastDay \in Nat \ {0} /\ MonthLength \in Nat \ {0}
  /\ Weekend \subseteq Day
  /\ Brokers \subseteq {"InteractiveBrokers", "Firstrade", "Open", "Sber"}
  /\ Terms \subseteq Nat \X Nat /\ \A t \in Terms : t[2] <= t[1]
  /\ Misdating \in BOOLEAN
  /\ MaxPostings \in Nat /\ MaxFiles \in Nat \ {0}

Id == [day : Day, issuer : Issuer]

Period == {p \in [first : Day, last : Day] : p.first <= p.last}

Kind == {"dividend", "tax"}

Nothing == <<0, 0>>

VARIABLES
  broker,
  today,
  postings, \* postings so far
  rows,     \* what the broker posted: [n, kind, id, date, amount, posted]
  terms,    \* what each dividend came to: Id -> <<amount, tax>>
  files,    \* the statements: a set of periods
  listing,  \* which sections of the files list what: [cash, funds]
  named,    \* the statement whose file name is the last
  made,     \* the day its file was generated (Firstrade)
  rules,    \* tax_remapping: numbers of the rows with a rule
  todo,     \* statements still to be merged
  period,   \* of the merged statement
  accruals, \* [kind, date, issuer] -> rows, dividend_accruals and tax_accruals
  result,   \* dividends: a set of [id, amount, tax]
  flows,    \* cash_flows: a set of entries
  assets,   \* historical_assets: days -> cash
  pc

world == <<broker, today, postings, rows, terms>>
vars == <<world, files, listing, named, made, rules, todo, period, accruals, result,
          flows, assets, pc>>

-----------------------------------------------------------------------------
(* The world.                                                               *)

Init ==
  /\ broker \in Brokers
  /\ today = 1 /\ postings = 0
  /\ rows = {} /\ terms = [i \in Id |-> Nothing]
  /\ files = {} /\ todo = {} /\ rules = {}
  /\ listing = [cash |-> Kind, funds |-> FALSE]
  /\ period = [first |-> 1, last |-> 1] /\ named = period /\ made = 1
  /\ accruals = <<>> /\ assets = <<>>
  /\ result = {} /\ flows = {}
  /\ pc = "posting"

Program ==
  <<files, listing, named, made, rules, todo, period, accruals, result, flows, assets>>

NextDay ==
  /\ pc = "posting" /\ today < LastDay
  /\ today' = today + 1
  /\ UNCHANGED <<broker, postings, rows, terms, Program, pc>>

Row(kind, i, date, amount, n) ==
  [n |-> n, kind |-> kind, id |-> i, date |-> date, amount |-> amount, posted |-> today]

(* The amounts that are not zero, as rows.                                  *)
Rows(kind, i, date, first, second, n) ==
  {r \in {Row(kind, i, date, first, n), Row(kind, i, date, second, n + 1)} : r.amount # 0}

Post(i, new) ==
  /\ pc = "posting" /\ today \notin Weekend
  /\ postings < MaxPostings /\ postings' = postings + 1
  /\ new # terms[i]
  /\ terms' = [terms EXCEPT ![i] = new]
  /\ UNCHANGED <<broker, today, Program, pc>>

PayDividend(issuer, new) ==
  LET i == [day |-> today, issuer |-> issuer]
  IN  /\ Post(i, new)
      /\ \A r \in rows : r.id # i
      /\ broker = "Firstrade" => new[2] > 0
      /\ rows' = rows \cup Rows("dividend", i, today, new[1], 0, 4 * postings)
                      \cup Rows("tax", i, today, new[2], 0, 4 * postings + 2)

(* What is corrected is reversed whole and posted anew; Firstrade posts the *)
(* part of the tax it gives back.                                           *)
Corrected(kind, i, date, old, new, n) ==
  IF old = new THEN {}
  ELSE IF broker = "Firstrade" THEN Rows(kind, i, date, new - old, 0, n)
  ELSE Rows(kind, i, date, -old, new, n)

Correct(i, new, misdated) ==
  LET old == terms[i]
  IN  /\ Post(i, new)
      /\ \E r \in rows : r.id = i
      /\ \/ broker = "InteractiveBrokers"
         \/ broker = "Firstrade" /\ new[1] = old[1] /\ new[2] < old[2]
      /\ misdated => Misdating /\ broker = "InteractiveBrokers" /\ i.day < today
      /\ rows' = rows
           \cup Corrected("dividend", i, i.day, old[1], new[1], 4 * postings)
           \cup Corrected("tax", i, IF misdated THEN today ELSE i.day,
                          old[2], new[2], 4 * postings + 2)

(* The user downloads statements and writes rules for (some of) the taxes   *)
(* that bear another date than their dividend.  A rule names a date and a   *)
(* description, which are those of all rows of one correction.              *)
Described(r) == {s \in rows : s.kind = "tax" /\ s.id = r.id /\ s.date = r.date}

Misdated == {r \in rows : r.date # r.id.day}

(* A Flex query lists dividends and taxes as cash transactions or in the    *)
(* statement of funds, or in both.  A file may be older than today.         *)
Listings ==
  {l \in [cash : SUBSET Kind, funds : BOOLEAN] :
     IF broker = "InteractiveBrokers" THEN l.funds \/ l.cash = Kind
                                      ELSE ~l.funds /\ l.cash = Kind}

Download ==
  /\ pc = "posting"
  /\ \E k \in 1 .. MaxFiles : files' \in kSubset(k, {p \in Period : p.last <= today})
  /\ listing' \in Listings
  /\ IF broker = "Firstrade"
     THEN named' \in files' /\ made' \in named'.last .. today
     ELSE UNCHANGED <<named, made>>
  /\ \E mapped \in SUBSET Misdated :
       rules' = UNION {{s.n : s \in Described(r)} : r \in mapped}
  /\ pc' = "reading"
  /\ UNCHANGED <<world, todo, period, accruals, result, flows, assets>>

-----------------------------------------------------------------------------
(* Reading.                                                                 *)

Fail == pc' = "failed" /\ UNCHANGED <<world, Program>>

Posted(p) == {r \in rows : p.first <= r.posted /\ r.posted <= p.last}

(* TaxRemapping::map(), to which only the cash transactions are passed.     *)
FromCash(r) ==
  [row |-> r, section |-> "cash",
   date |-> IF r.kind = "tax" /\ r.n \in rules THEN r.id.day ELSE r.date]

FromFunds(r) == [row |-> r, section |-> "funds", date |-> r.date]

(* Fault: the statement of funds is read whole. *)
ListedTwice(p) ==
  {FromCash(r) : r \in {x \in Posted(p) : x.kind \in listing.cash}}
    \cup {FromFunds(r) : r \in {x \in Posted(p) : listing.funds}}

(* What the cash transactions of a statement list is skipped in its         *)
(* statement of funds, one kind of income at a time.                        *)
Listed(p) ==
  LET transactions == {r \in Posted(p) : r.kind \in listing.cash}
      present == {r.kind : r \in transactions}
  IN  {FromCash(r) : r \in transactions}
        \cup {FromFunds(r) : r \in {x \in Posted(p) : listing.funds /\ x.kind \notin present}}

(* Payments::reverse is for what is taken back: the statement of funds      *)
(* passes every dividend to Payments::add, which asserts that it is         *)
(* positive.                                                                *)
Asserts(entry) ==
  entry.section = "funds" /\ entry.row.kind = "dividend" /\ entry.row.amount < 0

(* A rule that was not used is an error.                                    *)
AllMapped ==
  \A r \in rows : r.n \in rules =>
    "tax" \in listing.cash /\ \E p \in files, s \in Described(r) : s \in Posted(p)

(* Fault: the day of the report is not looked at. *)
IncludesAnyDay == TRUE

(* Firstrade reports the balance of the day a file is generated: it is      *)
(* taken from the file with the last name, which must reach that day.       *)
IncludesItsDay == broker = "Firstrade" => made <= named.last

Read ==
  /\ pc = "reading"
  /\ IF \/ \E p \in files : \E entry \in Listed(p) : Asserts(entry)
        \/ ~AllMapped
        \/ ~IncludesItsDay
     THEN Fail
     ELSE /\ pc' = "sorting"
          /\ UNCHANGED <<world, Program>>

-----------------------------------------------------------------------------
(* Merging.                                                                 *)

Overlap(p, q) == p.first <= q.last /\ q.first <= p.last

(* Flex queries and Firstrade's files do not tell what the account started  *)
(* with: the reader says it was empty.                                      *)
HasStartingAssets(p) == broker \in {"Open", "Sber"} /\ p.first > 1

Earliest(set) == CHOOSE p \in set : \A q \in set : p.first <= q.first

LastDate == Max({p.last : p \in files})

Sort ==
  LET first == Earliest(files)
  IN  /\ pc = "sorting"
      /\ IF \/ \E p, q \in files : p # q /\ Overlap(p, q)
            \/ HasStartingAssets(first)
         THEN Fail
         ELSE /\ todo' = files
              /\ period' = first
              /\ pc' = "merging"
              /\ UNCHANGED <<world, files, listing, named, made, rules, accruals,
                             result, flows, assets>>

MonthOf(d) == (d - 1) \div MonthLength

(* StatementsMergingStrategy::validate() with the strategy of the broker.   *)
WorkdaysBetween(p, q) == (p.last + 1 .. q.first - 1) \ Weekend

(* Fault: the gap may begin earlier. *)
InLastMonthAtEnd(p, q) == q.first = q.last /\ MonthOf(q.first) >= MonthOf(LastDate)

(* SparseSingleDaysLastMonth(0): only statements of single days may follow  *)
(* a gap, and only in the last month.                                       *)
InLastMonth(p, q) == q.first = q.last /\ MonthOf(p.last + 1) >= MonthOf(LastDate)

MayFollow(p, q) ==
  \/ q.first = p.last + 1
  \/ broker = "Sber"
  \/ broker = "InteractiveBrokers" /\ Cardinality(WorkdaysBetween(p, q)) <= 1
  \/ broker = "Open" /\ InLastMonth(p, q)

CashOn(d) ==
  LET until == {r \in rows : r.posted <= d}
  IN  SumFunctionOnSet([r \in until |-> IF r.kind = "dividend" THEN r.amount ELSE -r.amount],
                       until)

Reports(p) == broker # "Firstrade" \/ p = named

(* The day whose cash a statement reports.                                  *)
ReportDay(p) == IF broker = "Firstrade" THEN made ELSE p.last

Key(entry) ==
  [kind |-> entry.row.kind, date |-> entry.date, issuer |-> entry.row.id.issuer]

Accrued(k) == IF k \in DOMAIN accruals THEN accruals[k] ELSE {}

(* Fault: the accruals of a later statement replace those of an earlier one. *)
JoinedLast(p) ==
  LET keys == {Key(entry) : entry \in Listed(p)}
  IN  [k \in DOMAIN accruals \cup keys |->
         IF k \in keys THEN {entry \in Listed(p) : Key(entry) = k} ELSE accruals[k]]

(* Payments::merge() under the day and the issuer.                          *)
Joined(p) ==
  [k \in DOMAIN accruals \cup {Key(entry) : entry \in Listed(p)} |->
     Accrued(k) \cup {entry \in Listed(p) : Key(entry) = k}]

Merge ==
  LET p == Earliest(todo)
      first == todo = files
      last == todo = {p}
  IN  /\ pc = "merging" /\ todo # {}
      /\ IF (~first /\ ~MayFollow(period, p)) \/ (last /\ ~Reports(p))
         THEN Fail
         ELSE /\ period' = [period EXCEPT !.last = p.last]
              /\ accruals' = Joined(p)
              /\ assets' = [d \in DOMAIN assets \cup {x \in {p.last} : Reports(p)} |->
                              IF d = p.last THEN CashOn(ReportDay(p)) ELSE assets[d]]
              /\ todo' = todo \ {p}
              /\ UNCHANGED <<world, files, listing, named, made, rules, result, flows,
                             pc>>

-----------------------------------------------------------------------------
(* Matching.                                                                *)

Reversals(entries) == {e \in entries : e.row.amount < 0}

WithAmount(entries, amount) == {e \in entries : e.row.amount = amount}

Total(entries) == SumFunctionOnSet([e \in entries |-> e.row.amount], entries)

(* Payments::get_result(): a strict one wants a payment of its own for every *)
(* reversal, in any order; the other one sums up.                           *)
Accepted(kind, entries) ==
  IF kind = "tax" /\ broker = "Firstrade" THEN Total(entries) >= 0
  ELSE \A e \in Reversals(entries) :
         Cardinality(WithAmount(entries, e.row.amount))
           <= Cardinality(WithAmount(entries, -e.row.amount))

TaxKey(k) == [k EXCEPT !.kind = "tax"]

DividendKeys == {k \in DOMAIN accruals : k.kind = "dividend"}

(* process_dividend_accruals(), in the order of a hash map.                 *)
ProcessDividend(k) ==
  LET paid == accruals[k]
      withheld == Accrued(TaxKey(k))
  IN  /\ pc = "merging" /\ todo = {}
      /\ k \in DividendKeys
      /\ IF \/ ~Accepted("dividend", paid) \/ ~Accepted("tax", withheld)
            \/ Total(paid) = 0 /\ Total(withheld) # 0
         THEN Fail
         ELSE /\ result' = result \cup
                   {d \in {[date |-> k.date, issuer |-> k.issuer,
                            amount |-> Total(paid), tax |-> Total(withheld)]} :
                     d.amount # 0}
              /\ flows' = flows \cup paid \cup withheld
              /\ accruals' = [x \in DOMAIN accruals \ {k, TaxKey(k)} |-> accruals[x]]
              /\ UNCHANGED <<world, files, listing, named, made, rules, todo, period,
                             assets, pc>>

(* Fault: a refund that is larger than the charges is a refund. *)
RefundNet(entries) == Total(entries) < 0

RefundOnly(entries) == entries = Reversals(entries)

(* What is left has no dividend: refunds are dropped, charges are fatal.    *)
CheckUnmatched ==
  /\ pc = "merging" /\ todo = {} /\ DividendKeys = {}
  /\ IF \E k \in DOMAIN accruals : ~RefundOnly(accruals[k])
     THEN Fail
     ELSE /\ pc' = "loaded"
          /\ UNCHANGED <<world, Program>>

Finished ==
  /\ pc \in {"loaded", "failed"}
  /\ UNCHANGED vars

Next ==
  \/ NextDay
  \/ \E issuer \in Issuer, new \in Terms : PayDividend(issuer, new)
  \/ \E i \in Id, new \in Terms \cup {Nothing}, misdated \in BOOLEAN :
       Correct(i, new, misdated)
  \/ Download \/ Read \/ Sort \/ Merge
  \/ \E k \in DOMAIN accruals : ProcessDividend(k)
  \/ CheckUnmatched
  \/ Finished

Spec == Init /\ [][Next]_vars

-----------------------------------------------------------------------------
RowType ==
  [n : Nat, kind : Kind, id : Id, date : Day, amount : Int \ {0}, posted : Day]

Entry == [row : RowType, section : {"cash", "funds"}, date : Day]

(* Types of the variables; dividends are positive and taxes are not         *)
(* negative, however they were corrected (Payments::get_result).            *)
TypeOK ==
  /\ broker \in Brokers /\ today \in Day /\ postings \in 0 .. MaxPostings
  /\ rows \subseteq RowType
  /\ terms \in [Id -> Terms \cup {Nothing}]
  /\ files \subseteq Period /\ todo \subseteq files
  /\ named \in Period /\ made \in Day /\ period \in Period
  /\ rules \subseteq {r.n : r \in rows}
  /\ DOMAIN accruals \subseteq [kind : Kind, date : Day, issuer : Issuer]
  /\ \A k \in DOMAIN accruals : accruals[k] \subseteq Entry
  /\ flows \subseteq Entry
  /\ result \subseteq [date : Day, issuer : Issuer, amount : Nat \ {0}, tax : Nat]
  /\ DOMAIN assets \subseteq Day
  /\ pc \in {"posting", "reading", "sorting", "merging", "loaded", "failed"}

ReadRows == UNION {Posted(p) : p \in files}

Covered == UNION {p.first .. p.last : p \in files}

Disjoint == \A p, q \in files : p # q => ~Overlap(p, q)

(* Every tax bears the day of its dividend, or has a rule that says so.     *)
Dated == \A r \in Misdated : r.n \in rules /\ "tax" \in listing.cash

(* Statements that cover the life of the account are loaded, into however   *)
(* many files and in whatever order the broker's corrections are spread     *)
(* over them: no correction looks like a reversal of nothing or like a tax  *)
(* without a dividend just because of where a file ends (mod.rs load_inner, *)
(* Payments::get_result).                                                   *)
CompleteFilesLoad ==
  (/\ pc = "failed"
   /\ Disjoint /\ Covered = 1 .. today
   /\ Dated
   /\ broker = "Firstrade" => named.last = today) =>
    \E p \in files : \E entry \in Listed(p) : Asserts(entry)

PaidTo(i) == {r \in ReadRows : r.kind = "dividend" /\ r.id = i}

WithheldFrom(i) == {r \in ReadRows : r.kind = "tax" /\ r.id = i}

Sum(set) == SumFunctionOnSet([r \in set |-> r.amount], set)

(* One dividend for every one that was not taken back, with the tax that    *)
(* was finally withheld from it.                                            *)
IncomeAsPosted ==
  Dated =>
    result = {d \in {[date |-> i.day, issuer |-> i.issuer, amount |-> Sum(PaidTo(i)),
                      tax |-> Sum(WithheldFrom(i))] : i \in {x \in Id : PaidTo(x) # {}}} :
                d.amount # 0}

(* The cash that is recorded for a day is the cash of that day, whatever    *)
(* the day a file was generated and the order of the files' names, and it   *)
(* is recorded for the last day; where no day is missing, it is what the    *)
(* loaded dividends came to after taxes (historical_assets of merge(), and  *)
(* the check of the last Firstrade report).                                 *)
BooksBalance ==
  /\ LastDate \in DOMAIN assets
  /\ \A d \in DOMAIN assets : assets[d] = CashOn(d)
  /\ Dated /\ 1 .. LastDate \subseteq Covered \cup Weekend =>
       assets[LastDate] = SumFunctionOnSet([d \in result |-> d.amount - d.tax], result)

(* What is loaded is what the broker posted on the days of the statements,  *)
(* although it may be listed in two sections, corrected many times and      *)
(* spread over several statements; and the cash that the statements report  *)
(* is the cash it leaves.                                                   *)
LoadedAsPosted ==
  /\ TypeOK
  /\ pc = "loaded" => IncomeAsPosted /\ BooksBalance

(* Nothing that was read is dropped silently but refunds: income and the    *)
(* tax withheld from it, and the movements of cash they made, are in the    *)
(* result once (the comment above the check of unmatched taxes:             *)
(* "Withheld tax without its income understates taxable income, so it must  *)
(* stay fatal").                                                            *)
OnlyRefundsDropped ==
  pc = "loaded" =>
    /\ \A r \in ReadRows :
         r.amount > 0 \/ r.kind = "dividend" => \E e \in flows : e.row = r
    /\ \A e, f \in flows : e.row = f.row => e = f

(* No posting is missing because a statement is: between the days of the    *)
(* first and the last statement everything is read, but for what the        *)
(* broker's way of reporting leaves open -- single days of the last month   *)
(* with Otkritie; Sberbank's statements may be sparse, and Interactive      *)
(* Brokers' may skip one working day.  Before the first statement only a    *)
(* broker that reports what the account started with is caught.             *)
NothingMissed ==
  pc = "loaded" =>
    \A r \in rows \ ReadRows :
      \/ r.posted > LastDate
      \/ broker \in {"Firstrade", "InteractiveBrokers"} /\ r.posted < period.first
      \/ broker = "Open" /\ MonthOf(r.posted) = MonthOf(LastDate)
      \/ broker = "InteractiveBrokers" /\ {r.posted - 1, r.posted + 1} \subseteq Covered \cup Weekend
      \/ broker = "Sber"

(* A refund that is dropped "only forgoes a small foreign-tax credit, which *)
(* errs against the taxpayer rather than for them" (load_inner): the taxes  *)
(* credited are no more than those the broker kept.                         *)
DroppingErrsAgainstTaxpayer ==
  (pc = "loaded" /\ Disjoint /\ Covered = 1 .. today) =>
    SumFunctionOnSet([d \in result |-> d.tax], result)
      <= Sum({r \in ReadRows : r.kind = "tax"})

=============================================================================
