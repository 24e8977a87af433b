----------------------------- MODULE RateCache -----------------------------
(***************************************************************************)
(* Official currency rates and their cache                                 *)
(* (src/src/currency: rate_cache.rs, converter.rs).                        *)
(*                                                                         *)
(* A central bank publishes the rates of its working days one after the    *)
(* other; days without a rate use the last one before them.  Every run of  *)
(* the program asks for rates of past days, and remembers what it learned: *)
(* in the table currency_rates, which all runs share and which is never    *)
(* cleaned, and in its memory.  "No rate on that day" is remembered too,   *)
(* in the table only when it can no longer change.                         *)
(*                                                                         *)
(* Days pass, rates are published late, corrected before they take effect, *)
(* and runs overlap, end or die at any time.                               *)
(***************************************************************************)
EXTENDS Integers, FiniteSets, FiniteSetsExt, Sequences

CONSTANTS
  Proc,      \* runs of the program
  Bank,      \* sources of official rates
  MainBank,  \* the one whose rows bear bare currency codes
  Currency,  \* foreign currencies
  Base,      \* the currency in which a bank's rates are expressed
  BankOf,    \* [Proc -> Bank]: the jurisdiction's bank
  Ahead,     \* [Bank -> Nat]: days between publication and the rate's day
  Window,    \* days asked for at once when nothing is known
  MaxBack,   \* days to go back for the last rate
  MaxDay,    \* BOUND: days of the calendar
  Pairs,     \* BOUND: the conversions asked for
  AtOnce     \* BOUND: runs at once, by the days on which currencies are quoted

ASSUME RateCacheAssumption ==
  /\ MainBank \in Bank
  /\ Base \notin Currency
  /\ BankOf \in [Proc -> Bank]
  /\ Ahead \in [Bank -> Nat]
  /\ Pairs \subseteq (Currency \cup {Base}) \X (Currency \cup {Base})
  /\ \A pair \in Pairs : pair[1] # pair[2]
  /\ AtOnce \in [SUBSET (Currency \X (1 .. MaxDay)) -> Nat]
  /\ Window \in Nat \ {0} /\ MaxBack \in Nat /\ MaxDay \in Nat \ {0}

VARIABLES
  clock,      \* the day it is
  published,  \* [Bank -> the last day whose rate is out]
  official,   \* [Bank -> [Currency -> [Date -> rate]]]
  db,         \* currency_rates: [Key -> [Date -> value]]
  mem,        \* the in-memory cache of every run
  today,      \* CurrencyRateCache::today of every run
  question,   \* what is converted, and the day
  cur,        \* cur_date of currency_rate()
  got,        \* the price of the first currency
  range,      \* Missing(start_date, end_date)
  rates,      \* the downloaded rates: [Date -> rate]
  answer,     \* the result of currency_rate()
  seen,       \* history: what was published when the run was started
  pc

store == <<db, mem>>
world == <<clock, published, official>>
vars == <<clock, published, official, db, mem, today, question, cur, got, range,
          rates, answer, seen, pc>>

Date == 1 .. MaxDay

Unknown == -1
NoRate == 0
Rate(date, correction) == 2 * date + correction

Value == {Unknown, NoRate} \cup Nat

(* cache_key()                                                              *)
Key(bank, currency) ==
  IF bank = MainBank THEN <<currency>> ELSE <<bank, currency>>

Keys == {Key(bank, currency) : bank \in Bank, currency \in Currency}

Nothing == [k \in Keys |-> [d \in Date |-> Unknown]]

NoQuestion == [from |-> Base, to |-> Base, date |-> 1]

NoAnswer == [date |-> 0, prices |-> <<>>]

Init ==
  /\ clock = 1
  /\ published = [b \in Bank |-> 0]
  /\ \E working \in [Bank -> [Currency -> SUBSET Date]] :
       official = [b \in Bank |-> [c \in Currency |-> [d \in Date |->
                    IF d \in working[b][c] THEN Rate(d, 0) ELSE NoRate]]]
  /\ db = Nothing
  /\ mem = [p \in Proc |-> Nothing]
  /\ today = [p \in Proc |-> 1]
  /\ question = [p \in Proc |-> NoQuestion]
  /\ cur = [p \in Proc |-> 1]
  /\ got = [p \in Proc |-> Unknown]
  /\ range = [p \in Proc |-> <<1, 1>>]
  /\ rates = [p \in Proc |-> [d \in Date |-> NoRate]]
  /\ answer = [p \in Proc |-> NoAnswer]
  /\ seen = [p \in Proc |-> 0]
  /\ pc = [p \in Proc |-> "off"]

-----------------------------------------------------------------------------
(* The banks and the calendar.                                              *)

NextDay ==
  /\ clock < MaxDay
  /\ clock' = clock + 1
  /\ UNCHANGED <<published, official, db, mem, today, question, cur, got, range,
                 rates, answer, seen, pc>>

Publish(b) ==
  /\ published[b] < MaxDay
  /\ published[b] < clock + Ahead[b]
  /\ published' = [published EXCEPT ![b] = @ + 1]
  /\ UNCHANGED <<clock, official, db, mem, today, question, cur, got, range,
                 rates, answer, seen, pc>>

(* A rate that is out but not yet in effect is corrected.                   *)
Correct(b, c, d) ==
  /\ clock < d /\ d <= published[b]
  /\ official[b][c][d] = Rate(d, 0)
  /\ official' = [official EXCEPT ![b][c][d] = Rate(d, 1)]
  /\ UNCHANGED <<clock, published, db, mem, today, question, cur, got, range,
                 rates, answer, seen, pc>>

-----------------------------------------------------------------------------
(* A run of the program.                                                    *)

Quoted == {q \in Currency \X Date : \E b \in Bank : official[b][q[1]][q[2]] # NoRate}

Running == {p \in Proc : pc[p] # "off"}

Start(p) ==
  /\ pc[p] = "off"
  /\ Cardinality(Running) < AtOnce[Quoted]
  /\ pc' = [pc EXCEPT ![p] = "idle"]
  /\ today' = [today EXCEPT ![p] = clock]
  /\ seen' = [seen EXCEPT ![p] = published[BankOf[p]]]
  /\ UNCHANGED <<clock, published, official, db, mem, question, cur, got, range,
                 rates, answer>>

(* It ends, fails or is killed, and forgets everything.                     *)
Exit(p) ==
  /\ pc[p] \notin {"off", "surprised"}
  /\ pc' = [pc EXCEPT ![p] = "off"]
  /\ question' = [question EXCEPT ![p] = NoQuestion]
  /\ cur' = [cur EXCEPT ![p] = 1]
  /\ got' = [got EXCEPT ![p] = Unknown]
  /\ range' = [range EXCEPT ![p] = <<1, 1>>]
  /\ rates' = [rates EXCEPT ![p] = [d \in Date |-> NoRate]]
  /\ answer' = [answer EXCEPT ![p] = NoAnswer]
  /\ mem' = [mem EXCEPT ![p] = Nothing]
  /\ today' = [today EXCEPT ![p] = 1]
  /\ seen' = [seen EXCEPT ![p] = 0]
  /\ UNCHANGED <<clock, published, official, db>>

(* convert() for an official rate (check_date() lets later days go to the   *)
(* quotes or fail).                                                         *)
Ask(p, from, to, d) ==
  /\ pc[p] \in {"idle", "answered"}
  /\ d <= today[p]
  /\ question' = [question EXCEPT ![p] = [from |-> from, to |-> to, date |-> d]]
  /\ cur' = [cur EXCEPT ![p] = d]
  /\ got' = [got EXCEPT ![p] = Unknown]
  /\ answer' = [answer EXCEPT ![p] = NoAnswer]
  /\ pc' = [pc EXCEPT ![p] = "look"]
  /\ UNCHANGED <<clock, published, official, db, mem, today, range, rates, seen>>

(* The base currency has no rate; of two others the first is priced first.  *)
Crosses(q) == q.from # Base /\ q.to # Base

PricedNow(p) ==
  IF question[p].from # Base /\ got[p] = Unknown THEN question[p].from
                                                ELSE question[p].to

KeyNow(p) == Key(BankOf[p], PricedNow(p))

(* min_date                                                                 *)
MinDate(q) == Max({1, q.date - MaxBack})

DayBefore(d) == d - 1

(* Fault: the price of the first currency is kept on the way back.          *)
FirstPriceKept(p) == UNCHANGED got

BothAgain(p) == got' = [got EXCEPT ![p] = Unknown]

(* currency_rate(): both prices must be of one day; a day without one of    *)
(* them sends both back to the day before ...                               *)
PassOver(p, v) ==
  /\ v = NoRate
  /\ DayBefore(cur[p]) >= MinDate(question[p])
  /\ cur' = [cur EXCEPT ![p] = DayBefore(@)]
  /\ BothAgain(p)
  /\ pc' = [pc EXCEPT ![p] = "look"]
  /\ UNCHANGED answer

(* ... but not too far.                                                     *)
GiveUp(p, v) ==
  /\ v = NoRate
  /\ DayBefore(cur[p]) < MinDate(question[p])
  /\ pc' = [pc EXCEPT ![p] = "error"]
  /\ UNCHANGED <<cur, got, answer>>

TakeFirst(p, v) ==
  /\ v # NoRate
  /\ Crosses(question[p]) /\ got[p] = Unknown
  /\ got' = [got EXCEPT ![p] = v]
  /\ pc' = [pc EXCEPT ![p] = "look"]
  /\ UNCHANGED <<cur, answer>>

Conclude(p, v) ==
  /\ v # NoRate
  /\ Crosses(question[p]) => got[p] # Unknown
  /\ answer' = [answer EXCEPT ![p] =
       [date |-> cur[p],
        prices |-> IF got[p] = Unknown THEN <<v>> ELSE <<got[p], v>>]]
  /\ pc' = [pc EXCEPT ![p] = "answered"]
  /\ UNCHANGED <<cur, got>>

Continue(p, v) ==
  PassOver(p, v) \/ GiveUp(p, v) \/ TakeFirst(p, v) \/ Conclude(p, v)

(* CurrencyRateCache::get() finds the day ...                               *)
Cached(p, k, d) == IF mem[p][k][d] # Unknown THEN mem[p][k][d] ELSE db[k][d]

CachedNow(p) == Cached(p, KeyNow(p), cur[p])

Found(p) ==
  /\ pc[p] \in {"look", "again"}
  /\ CachedNow(p) # Unknown
  /\ mem' = [mem EXCEPT ![p][KeyNow(p)][cur[p]] = CachedNow(p)]
  /\ Continue(p, CachedNow(p))
  /\ UNCHANGED <<clock, published, official, db, today, question, range, rates, seen>>

StoredBefore(k, d) == {e \in Date : e < d /\ db[k][e] # Unknown}

PricedAfter(k, d) == {e \in Date : d < e /\ db[k][e] \notin {Unknown, NoRate}}

StartDate(k, d) ==
  IF StoredBefore(k, d) # {} THEN Max(StoredBefore(k, d)) + 1
                             ELSE Max({1, d - Window})

EndDate(p, k, d) ==
  IF PricedAfter(k, d) # {} THEN Min(PricedAfter(k, d)) ELSE today[p] + 1

(* ... or does not, and says what to download.                              *)
Missing(p) ==
  LET k == KeyNow(p)
  IN  /\ pc[p] \in {"look", "again"}
      /\ CachedNow(p) = Unknown
      /\ range' = [range EXCEPT ![p] = <<StartDate(k, cur[p]), EndDate(p, k, cur[p])>>]
      /\ pc' = [pc EXCEPT ![p] = IF pc[p] = "again" THEN "surprised" ELSE "download"]
      /\ UNCHANGED <<clock, published, official, db, mem, today, question, cur, got,
                     rates, answer, seen>>

(* get_historical_currency_rates(): what is out in that range.              *)
Download(p) ==
  /\ pc[p] = "download"
  /\ rates' = [rates EXCEPT ![p] = [d \in Date |->
                 IF range[p][1] <= d /\ d <= range[p][2] /\ d <= published[BankOf[p]]
                 THEN official[BankOf[p]][PricedNow(p)][d] ELSE NoRate]]
  /\ pc' = [pc EXCEPT ![p] = "save"]
  /\ UNCHANGED <<clock, published, official, db, mem, today, question, cur, got,
                 range, answer, seen>>

DownloadFails(p) ==
  /\ pc[p] = "download"
  /\ pc' = [pc EXCEPT ![p] = "error"]
  /\ UNCHANGED <<clock, published, official, db, mem, today, question, cur, got,
                 range, rates, answer, seen>>

Received(p) == {d \in Date : rates[p][d] # NoRate}

(* Fault: tomorrow's rate is stored as well. *)
StoredDatesAll(p) == {d \in Date : range[p][1] <= d /\ \E e \in Received(p) : d <= e}

(* save(): the days up to the last received rate are stored, the ones       *)
(* without a rate as such; tomorrow's is not.                               *)
StoredDates(p) ==
  {d \in Date : range[p][1] <= d /\ d <= today[p] /\ \E e \in Received(p) : d <= e}

(* Fault: the days after the last rate are forgotten. *)
TrailingDatesNone(p) == {}

(* The others are remembered by this run only.                              *)
TrailingDates(p) ==
  {d \in Date : /\ range[p][1] <= d /\ d <= range[p][2] /\ d <= today[p]
                /\ \A e \in Received(p) : e < d}

Save(p) ==
  LET k == KeyNow(p)
  IN  /\ pc[p] = "save"
      /\ range[p][2] <= today[p] + 1
      /\ db' = [db EXCEPT ![k] = [d \in Date |->
                  IF d \in StoredDates(p) THEN rates[p][d] ELSE @[d]]]
      /\ mem' = [mem EXCEPT ![p][k] = [d \in Date |->
                  IF d \in TrailingDates(p) THEN NoRate ELSE @[d]]]
      /\ pc' = [pc EXCEPT ![p] =
                  IF \/ range[p][2] = today[p] + 1
                     \/ \E d \in Received(p) : d >= range[p][2]
                  THEN "again" ELSE "surprised"]
      /\ rates' = [rates EXCEPT ![p] = [d \in Date |-> NoRate]]
      /\ range' = [range EXCEPT ![p] = <<1, 1>>]
      /\ UNCHANGED <<clock, published, official, today, question, cur, got, answer,
                     seen>>

(* "An attempt to save currency rates for the future": another run has      *)
(* stored a price of a day which had not come when this one was started.    *)
SaveFails(p) ==
  /\ pc[p] = "save"
  /\ range[p][2] > today[p] + 1
  /\ pc' = [pc EXCEPT ![p] = "error"]
  /\ UNCHANGED <<clock, published, official, db, mem, today, question, cur, got,
                 range, rates, answer, seen>>

Step(p) ==
  \/ Found(p) \/ Missing(p)
  \/ Download(p) \/ DownloadFails(p)
  \/ Save(p) \/ SaveFails(p)

Next ==
  \/ NextDay
  \/ \E b \in Bank : Publish(b)
  \/ \E b \in Bank, c \in Currency, d \in Date : Correct(b, c, d)
  \/ \E p \in Proc :
       \/ Start(p)
       \/ Exit(p)
       \/ \E pair \in Pairs, d \in Date : Ask(p, pair[1], pair[2], d)
       \/ Step(p)

Spec == Init /\ [][Next]_vars

-----------------------------------------------------------------------------
(* Types of the variables; a range is never empty.                          *)
TypeOK ==
  /\ clock \in Nat
  /\ published \in [Bank -> Nat]
  /\ official \in [Bank -> [Currency -> [Date -> Nat]]]
  /\ db \in [Keys -> [Date -> Value]]
  /\ mem \in [Proc -> [Keys -> [Date -> Value]]]
  /\ today \in [Proc -> Nat]
  /\ question \in [Proc -> [from : Currency \cup {Base}, to : Currency \cup {Base},
                            date : Date]]
  /\ cur \in [Proc -> Date]
  /\ got \in [Proc -> Value]
  /\ range \in [Proc -> Int \X Int]
  /\ \A p \in Proc : range[p][1] <= range[p][2]
  /\ rates \in [Proc -> [Date -> Nat]]
  /\ answer \in [Proc -> [date : Date \cup {0}, prices : Seq(Value)]]
  /\ seen \in [Proc -> Nat]
  /\ pc \in [Proc -> {"off", "idle", "look", "again", "download", "save",
                      "answered", "error", "surprised"}]

(* The shared table never holds what is not true for good: a stored price   *)
(* is the final official rate of that bank and day, and a day stored as     *)
(* having no rate will never get one -- although rates appear late, are     *)
(* corrected before they take effect, midnight passes during a run and      *)
(* several runs of different jurisdictions write at once (save(),           *)
(* cache_key()).                                                            *)
StoredOfficial ==
  \A b \in Bank, c \in Currency, d \in Date :
    db[Key(b, c)][d] # Unknown => db[Key(b, c)][d] = official[b][c][d]

(* What was just saved is found ("it's expected to be in the cache, but     *)
(* actually it's missing" never happens), and a range that ends at a known  *)
(* price is downloaded with that price (the debug assertion of save()).     *)
NothingExpectedMissing == \A p \in Proc : pc[p] # "surprised"

(* An answer is made of official rates of one day, and there is no later    *)
(* day that has all of them among those which were out when the run was     *)
(* started.                                                                 *)
HasAll(p, d) ==
  LET q == question[p]
  IN  \A c \in {q.from, q.to} \ {Base} : official[BankOf[p]][c][d] # NoRate

Sought(q) ==
  IF q.from = Base THEN <<q.to>>
  ELSE IF q.to = Base THEN <<q.from>> ELSE <<q.from, q.to>>

AnswersOfficial ==
  /\ TypeOK
  /\ \A p \in Proc :
       pc[p] = "answered" =>
         LET cs == Sought(question[p])
             day == answer[p].date
         IN  /\ day <= question[p].date
             /\ answer[p].prices = [i \in DOMAIN cs |-> official[BankOf[p]][cs[i]][day]]
             /\ \A d \in day + 1 .. question[p].date : d <= seen[p] => ~HasAll(p, d)

=============================================================================
