--------------------------- MODULE Database_proofs ---------------------------
(***************************************************************************)
(* Proofs about the two parts of the program that overlapping runs share   *)
(* through the SQLite database: the table of official rates, for any       *)
(* number of runs, banks and currencies, any calendar and any days without *)
(* rates; and the table of telemetry records, for any number of            *)
(* invocations and records.                                                *)
(***************************************************************************)
EXTENDS RateCache, Telemetry, WellFoundedInduction, FiniteSetTheorems, TLAPS

(* What is behind a run lies in the past, and what was out when it was      *)
(* started still is.                                                        *)
Calendar ==
  /\ clock >= 1
  /\ \A p \in Proc : today[p] <= clock /\ seen[p] <= published[BankOf[p]]

(* The table holds what has come into effect, final and published.          *)
Table ==
  \A b \in Bank, c \in Currency, d \in Date :
    db[Key(b, c)][d] # Unknown =>
      /\ d <= clock
      /\ db[Key(b, c)][d] = official[b][c][d]
      /\ official[b][c][d] # NoRate => d <= published[b]

(* The memory of a run holds official rates of its past; a day it remembers *)
(* as having none has none, or was not out when the run was started.        *)
Remembered(p) ==
  /\ pc[p] = "off" => mem[p] = Nothing
  /\ \A c \in Currency, d \in Date :
       LET v == mem[p][Key(BankOf[p], c)][d]
           final == official[BankOf[p]][c][d]
       IN  v # Unknown => /\ d <= today[p]
                          /\ v = final \/ (v = NoRate /\ seen[p] < d)

(* The days passed over have no rate for one of the currencies; the price   *)
(* of the first currency is of the day at which the second is looked for.   *)
Asked(p) ==
  LET q == question[p]
  IN  pc[p] \in {"look", "again", "download", "save", "answered"} =>
        /\ q.from # q.to
        /\ cur[p] <= q.date /\ q.date <= today[p]
        /\ got[p] # Unknown =>
             /\ Crosses(q)
             /\ got[p] # NoRate
             /\ got[p] = official[BankOf[p]][q.from][cur[p]]
        /\ \A d \in cur[p] + 1 .. q.date : d <= seen[p] => ~HasAll(p, d)

(* The range asked for contains the day, and ends tomorrow or at a price.   *)
Ranged(p) ==
  pc[p] \in {"download", "save"} =>
    /\ 1 <= range[p][1] /\ range[p][1] <= cur[p] /\ cur[p] < range[p][2]
    /\ range[p][2] # today[p] + 1 =>
         /\ range[p][2] \in Date
         /\ range[p][2] <= published[BankOf[p]]
         /\ official[BankOf[p]][PricedNow(p)][range[p][2]] # NoRate

(* What was downloaded is what was out at some moment since the start.      *)
Downloaded(p) ==
  pc[p] = "save" =>
    \E out \in seen[p] .. published[BankOf[p]] :
      /\ range[p][2] # today[p] + 1 => range[p][2] <= out
      /\ \A d \in Date :
           LET rate == official[BankOf[p]][PricedNow(p)][d]
           IN  IF range[p][1] <= d /\ d <= range[p][2] /\ d <= out
               THEN /\ rates[p][d] = NoRate <=> rate = NoRate
                    /\ d <= today[p] => rates[p][d] = rate
               ELSE rates[p][d] = NoRate

(* What was saved is found.                                                 *)
Findable(p) ==
  pc[p] = "again" => \/ mem[p][KeyNow(p)][cur[p]] # Unknown
                     \/ db[KeyNow(p)][cur[p]] # Unknown

Answered(p) ==
  LET cs == Sought(question[p])
  IN  pc[p] = "answered" =>
        /\ answer[p].date = cur[p]
        /\ answer[p].prices = [i \in DOMAIN cs |-> official[BankOf[p]][cs[i]][cur[p]]]

Known(p) ==
  /\ Remembered(p) /\ Asked(p) /\ Ranged(p) /\ Downloaded(p)
  /\ Findable(p) /\ Answered(p) /\ pc[p] # "surprised"

IInv == TypeOK /\ Calendar /\ Table /\ \A p \in Proc : Known(p)

-----------------------------------------------------------------------------
(* Keys, and the ends of a set of days.                                     *)
LEMMA Keyed ==
  /\ \A b \in Bank, c \in Currency : Key(b, c) \in Keys
  /\ \A b1, b2 \in Bank, c1, c2 \in Currency :
       Key(b1, c1) = Key(b2, c2) => b1 = b2 /\ c1 = c2
<1>1. \A b \in Bank, c \in Currency : Key(b, c) \in Keys
  BY DEF Keys
<1>2. ASSUME NEW b1 \in Bank, NEW b2 \in Bank, NEW c1 \in Currency, NEW c2 \in Currency,
             Key(b1, c1) = Key(b2, c2)
      PROVE  b1 = b2 /\ c1 = c2
  <2>1. \A x, y, z : <<x>> # <<y, z>>
    <3> SUFFICES ASSUME NEW x, NEW y, NEW z, <<x>> = <<y, z>>
                 PROVE  FALSE
      OBVIOUS
    <3>1. DOMAIN <<x>> = 1 .. 1 /\ DOMAIN <<y, z>> = 1 .. 2
      OBVIOUS
    <3> QED
      BY <3>1
  <2> QED
    BY <1>2, <2>1 DEF Key
<1> QED
  BY <1>1, <1>2

(* A set of naturals that is not empty has a least element.                *)
LEMMA Least ==
  ASSUME NEW S \in SUBSET Nat, S # {}
  PROVE  Min(S) \in S /\ \A x \in S : Min(S) <= x
<1>1. PICK m \in S : \A y \in S : ~ (<<y, m>> \in OpToRel(<, Nat))
  BY WFMin, NatLessThanWellFounded
<1>2. \A y \in S : m <= y
  <2> SUFFICES ASSUME NEW y \in S, y < m
               PROVE  FALSE
    OBVIOUS
  <2> DEFINE ym == <<y, m>>
  <2>1. ym \in Nat \X Nat /\ ym[1] < ym[2]
    OBVIOUS
  <2>2. ym \in OpToRel(<, Nat)
    <3> HIDE DEF ym
    <3> QED
      BY <2>1, Zenon DEF OpToRel
  <2> QED
    BY <1>1, <2>2
<1> QED
  BY <1>2 DEF Min

(* So has a bounded one a greatest.                                        *)
LEMMA Greatest ==
  ASSUME NEW n \in Nat, NEW S \in SUBSET (0 .. n), S # {}
  PROVE  Max(S) \in S /\ \A x \in S : x <= Max(S)
<1> DEFINE T == {n - x : x \in S}
<1>1. T \in SUBSET Nat
  OBVIOUS
<1>2. PICK m \in T : \A y \in T : m <= y
  <2>1. T # {}
    BY Zenon
  <2> HIDE DEF T
  <2> QED
    BY <1>1, <2>1, Least
<1>3. PICK x \in S : m = n - x
  BY <1>2
<1>4. \A y \in S : y <= x
  BY <1>2, <1>3
<1> QED
  BY <1>4 DEF Max

-----------------------------------------------------------------------------
(* Types.                                                                   *)
LEMMA KeyNowIsKey ==
  ASSUME NEW p \in Proc, TypeOK, Asked(p),
         pc[p] \in {"look", "again", "download", "save"}
  PROVE  PricedNow(p) \in Currency /\ KeyNow(p) \in Keys
<1>1. question[p].from \in Currency \cup {Base} /\ question[p].to \in Currency \cup {Base}
  BY DEF TypeOK
<1>2. PricedNow(p) \in Currency
  BY <1>1 DEF Asked, PricedNow, Crosses
<1> QED
  BY <1>2, Keyed, RateCacheAssumption DEF KeyNow

(* The range that is asked for contains the day.                            *)
LEMMA Starts ==
  ASSUME NEW k \in Keys, NEW d \in Date, TypeOK
  PROVE  /\ StartDate(k, d) \in Int
         /\ 1 <= StartDate(k, d) /\ StartDate(k, d) <= d
<1>1. CASE StoredBefore(k, d) # {}
  <2>1. StoredBefore(k, d) \in SUBSET (0 .. MaxDay)
    BY RateCacheAssumption DEF StoredBefore, Date
  <2>2. Max(StoredBefore(k, d)) \in StoredBefore(k, d)
    BY <1>1, <2>1, Greatest, RateCacheAssumption
  <2> QED
    BY <1>1, <2>2, RateCacheAssumption DEF StartDate, StoredBefore, Date
<1>2. CASE StoredBefore(k, d) = {}
  <2> DEFINE S == {1, d - Window}
  <2>1. Max(S) = IF d - Window > 1 THEN d - Window ELSE 1
    BY RateCacheAssumption DEF Max, Date
  <2> QED
    BY <1>2, <2>1, RateCacheAssumption DEF StartDate, Date
<1> QED
  BY <1>1, <1>2

(* The range to be downloaded ends after the day asked for, today or       *)
(* before a day whose rate is known.                                       *)
LEMMA Ends ==
  ASSUME NEW k \in Keys, NEW p \in Proc, NEW d \in Date, TypeOK, d <= today[p]
  PROVE  /\ EndDate(p, k, d) \in Int
         /\ d < EndDate(p, k, d)
         /\ EndDate(p, k, d) # today[p] + 1 =>
              /\ EndDate(p, k, d) \in Date
              /\ db[k][EndDate(p, k, d)] \notin {Unknown, NoRate}
<1>1. today[p] \in Nat
  BY DEF TypeOK
<1>2. CASE PricedAfter(k, d) # {}
  <2>1. PricedAfter(k, d) \in SUBSET Nat
    BY RateCacheAssumption DEF PricedAfter, Date
  <2>2. Min(PricedAfter(k, d)) \in PricedAfter(k, d)
    BY <1>2, <2>1, Least
  <2> QED
    BY <1>2, <2>2, RateCacheAssumption DEF EndDate, PricedAfter, Date
<1>3. CASE PricedAfter(k, d) = {}
  BY <1>1, <1>3, RateCacheAssumption DEF EndDate, Date
<1> QED
  BY <1>2, <1>3

(* At the start the table is empty and nothing runs.                       *)
LEMMA InitHolds == Init => IInv
<1> SUFFICES ASSUME Init PROVE IInv
  OBVIOUS
<1>1. 1 \in Date
  BY RateCacheAssumption DEF Date
<1>2. official \in [Bank -> [Currency -> [Date -> Nat]]]
  <2>1. PICK working \in [Bank -> [Currency -> SUBSET Date]] :
          official = [b \in Bank |-> [c \in Currency |-> [d \in Date |->
                       IF d \in working[b][c] THEN Rate(d, 0) ELSE NoRate]]]
    BY DEF Init
  <2>2. \A d \in Date : Rate(d, 0) \in Nat
    BY RateCacheAssumption DEF Rate, Date
  <2> QED
    BY <2>1, <2>2 DEF NoRate
<1>3. TypeOK
  <2>1. NoAnswer \in [date : Date \cup {0}, prices : Seq(Value)]
    BY DEF NoAnswer
  <2> QED
    BY <1>1, <1>2, <2>1, RateCacheAssumption
       DEF Init, TypeOK, Nothing, NoQuestion, Value, NoRate
<1>4. Calendar /\ Table
  BY Keyed, RateCacheAssumption DEF Init, Calendar, Table, Nothing
<1>5. \A p \in Proc : Known(p)
  BY Keyed, RateCacheAssumption
     DEF Init, Known, Remembered, Asked, Ranged, Downloaded, Findable, Answered, Nothing
<1> QED
  BY <1>3, <1>4, <1>5 DEF IInv

(* The steps of a question keep the types.                                 *)
LEMMA RunTypes ==
  ASSUME TypeOK, NEW p \in Proc, Known(p),
         Found(p) \/ Missing(p) \/ Download(p) \/ DownloadFails(p) \/ Save(p) \/ SaveFails(p)
  PROVE  TypeOK'
<1>1. pc[p] \in {"look", "again", "download", "save"}
  BY DEF Found, Missing, Download, DownloadFails, Save, SaveFails
<1>2. PricedNow(p) \in Currency /\ KeyNow(p) \in Keys /\ BankOf[p] \in Bank
  BY <1>1, KeyNowIsKey, RateCacheAssumption DEF Known
<1>3. cur[p] \in Date /\ cur[p] <= today[p] /\ today[p] \in Nat
  <2>1. cur[p] \in Date /\ today[p] \in Nat /\ question[p].date \in Date
    BY DEF TypeOK
  <2> QED
    BY <1>1, <2>1, RateCacheAssumption DEF Known, Asked, Date
<1>4. CASE Found(p)
  <2> DEFINE v == CachedNow(p)
  <2>1. v \in Value
    BY <1>2, <1>3 DEF TypeOK, CachedNow, Cached
  <2>2. mem' \in [Proc -> [Keys -> [Date -> Value]]]
    BY <1>2, <1>3, <1>4, <2>1 DEF Found, TypeOK
  <2>3. Continue(p, v)
    BY <1>4 DEF Found
  <2>4. cur' \in [Proc -> Date]
    <3>1. CASE PassOver(p, v)
      <4> DEFINE q == question[p]
      <4>1. q.date - MaxBack \in Int
        BY SMTT(20), RateCacheAssumption DEF TypeOK, Date
      <4>2. \A x \in Int : Max({1, x}) = IF x > 1 THEN x ELSE 1
        BY DEF Max
      <4>3. MinDate(q) >= 1 /\ MinDate(q) \in Int
        <5> HIDE DEF q
        <5> QED
          BY <4>1, <4>2 DEF MinDate
      <4>4. DayBefore(cur[p]) \in Date
        BY <1>3, <3>1, <4>3, RateCacheAssumption DEF PassOver, DayBefore, Date
      <4> QED
        BY <3>1, <4>4 DEF PassOver, TypeOK
    <3>2. CASE GiveUp(p, v) \/ TakeFirst(p, v) \/ Conclude(p, v)
      BY <3>2 DEF GiveUp, TakeFirst, Conclude, TypeOK
    <3> QED
      BY <2>3, <3>1, <3>2 DEF Continue
  <2>5. got' \in [Proc -> Value] /\ pc' \in [Proc -> {"off", "idle", "look", "again",
          "download", "save", "answered", "error", "surprised"}]
    <3> HIDE DEF v
    <3>1. Unknown \in Value
      BY DEF Value
    <3>2. \/ got' = [got EXCEPT ![p] = Unknown]
          \/ got' = got
          \/ got' = [got EXCEPT ![p] = v]
      BY <2>3 DEF Continue, PassOver, GiveUp, TakeFirst, Conclude, BothAgain
    <3>3. \/ pc' = [pc EXCEPT ![p] = "look"]
          \/ pc' = [pc EXCEPT ![p] = "error"]
          \/ pc' = [pc EXCEPT ![p] = "answered"]
      BY <2>3 DEF Continue, PassOver, GiveUp, TakeFirst, Conclude
    <3>4. got' \in [Proc -> Value]
      BY <2>1, <3>1, <3>2 DEF TypeOK
    <3> QED
      BY <3>3, <3>4 DEF TypeOK
  <2>6. answer' \in [Proc -> [date : Date \cup {0}, prices : Seq(Value)]]
    <3>1. got[p] \in Value
      BY DEF TypeOK
    <3>2. CASE Conclude(p, v)
      <4> HIDE DEF v
      <4>1. <<v>> \in Seq(Value) /\ <<got[p], v>> \in Seq(Value)
        BY <2>1, <3>1
      <4> QED
        BY <1>3, <3>2, <4>1 DEF Conclude, TypeOK
    <3>3. CASE PassOver(p, v) \/ GiveUp(p, v) \/ TakeFirst(p, v)
      BY <3>3 DEF PassOver, GiveUp, TakeFirst, TypeOK
    <3> QED
      BY <2>3, <3>2, <3>3 DEF Continue
  <2> QED
    BY <1>4, <2>2, <2>4, <2>5, <2>6 DEF Found, TypeOK
<1>5. CASE Missing(p)
  <2>1. /\ StartDate(KeyNow(p), cur[p]) \in Int /\ EndDate(p, KeyNow(p), cur[p]) \in Int
        /\ StartDate(KeyNow(p), cur[p]) <= EndDate(p, KeyNow(p), cur[p])
    BY <1>2, <1>3, Starts, Ends, RateCacheAssumption DEF Date
  <2>2. range' \in [Proc -> Int \X Int] /\ \A q \in Proc : range'[q][1] <= range'[q][2]
    BY <1>5, <2>1 DEF Missing, TypeOK
  <2>3. pc' \in [Proc -> {"off", "idle", "look", "again", "download", "save",
                          "answered", "error", "surprised"}]
    BY <1>5 DEF Missing, TypeOK
  <2> QED
    BY <1>5, <2>2, <2>3 DEF Missing, TypeOK
<1>6. CASE Download(p)
  BY SMTT(20), <1>2, <1>6 DEF Download, TypeOK, NoRate
<1>7. CASE Save(p)
  <2>1. db' \in [Keys -> [Date -> Value]]
    BY <1>2, <1>7 DEF Save, TypeOK, Value
  <2>2. mem' \in [Proc -> [Keys -> [Date -> Value]]]
    BY <1>2, <1>7 DEF Save, TypeOK, Value
  <2> QED
    BY <1>7, <2>1, <2>2 DEF Save, TypeOK, NoRate
<1>8. CASE DownloadFails(p) \/ SaveFails(p)
  BY <1>8 DEF DownloadFails, SaveFails, TypeOK
<1> QED
  BY <1>4, <1>5, <1>6, <1>7, <1>8

(* Starting and ending a process, and asking, keep the types.              *)
LEMMA OtherTypes ==
  ASSUME TypeOK, NEW p \in Proc, Start(p) \/ Exit(p)
           \/ \E pair \in Pairs, d \in Date : Ask(p, pair[1], pair[2], d)
  PROVE  TypeOK'
<1>1. CASE Start(p)
  BY <1>1, RateCacheAssumption DEF Start, TypeOK
<1>2. CASE Exit(p)
  <2>1. 1 \in Date /\ Nothing \in [Keys -> [Date -> Value]] /\ Unknown \in Value
        /\ [d \in Date |-> NoRate] \in [Date -> Nat]
        /\ NoQuestion \in [from : Currency \cup {Base}, to : Currency \cup {Base}, date : Date]
    BY RateCacheAssumption DEF Date, Nothing, Value, NoRate, NoQuestion
  <2>2. NoAnswer \in [date : Date \cup {0}, prices : Seq(Value)]
    BY DEF NoAnswer
  <2>3. /\ question' \in [Proc -> [from : Currency \cup {Base}, to : Currency \cup {Base},
                                  date : Date]]
        /\ mem' \in [Proc -> [Keys -> [Date -> Value]]]
        /\ rates' \in [Proc -> [Date -> Nat]]
    BY <1>2, <2>1 DEF Exit, TypeOK
  <2>4. answer' \in [Proc -> [date : Date \cup {0}, prices : Seq(Value)]]
    BY <1>2, <2>2 DEF Exit, TypeOK
  <2>5. /\ cur' \in [Proc -> Date] /\ got' \in [Proc -> Value]
        /\ today' \in [Proc -> Nat] /\ seen' \in [Proc -> Nat]
    BY <1>2, <2>1 DEF Exit, TypeOK
  <2>6. range' \in [Proc -> Int \X Int] /\ \A q \in Proc : range'[q][1] <= range'[q][2]
    BY <1>2 DEF Exit, TypeOK
  <2> QED
    BY <1>2, <2>3, <2>4, <2>5, <2>6 DEF Exit, TypeOK
<1>3. CASE \E pair \in Pairs, d \in Date : Ask(p, pair[1], pair[2], d)
  <2>1. NoAnswer \in [date : Date \cup {0}, prices : Seq(Value)]
    BY DEF NoAnswer
  <2>2. PICK pair \in Pairs, d \in Date : Ask(p, pair[1], pair[2], d)
    BY <1>3
  <2>3. answer' \in [Proc -> [date : Date \cup {0}, prices : Seq(Value)]]
    BY <2>1, <2>2 DEF Ask, TypeOK
  <2>4. question' \in [Proc -> [from : Currency \cup {Base}, to : Currency \cup {Base},
                               date : Date]]
    BY <2>2, RateCacheAssumption DEF Ask, TypeOK
  <2> QED
    BY <2>2, <2>3, <2>4 DEF Ask, TypeOK, Value
<1> QED
  BY <1>1, <1>2, <1>3

(* The days that pass and the banks that publish and correct keep the      *)
(* types.                                                                  *)
LEMMA WorldTypes ==
  ASSUME TypeOK,
         \/ NextDay
         \/ \E b \in Bank : Publish(b)
         \/ \E b \in Bank, c \in Currency, d \in Date : Correct(b, c, d)
  PROVE  TypeOK'
<1>1. CASE NextDay
  BY <1>1 DEF NextDay, TypeOK
<1>2. CASE \E b \in Bank : Publish(b)
  BY <1>2 DEF Publish, TypeOK
<1>3. ASSUME NEW b \in Bank, NEW c \in Currency, NEW d \in Date, Correct(b, c, d)
      PROVE  TypeOK'
  <2>1. Rate(d, 1) \in Nat
    BY RateCacheAssumption DEF Rate, Date
  <2> QED
    BY <1>3, <2>1 DEF Correct, TypeOK
<1> QED
  BY <1>1, <1>2, <1>3

(* Every step keeps the types.                                             *)
LEMMA NextTypes == IInv /\ [Next]_vars => TypeOK'
<1> SUFFICES ASSUME IInv, [Next]_vars PROVE TypeOK'
  OBVIOUS
<1>1. CASE NextDay \/ (\E b \in Bank : Publish(b))
           \/ \E b \in Bank, c \in Currency, d \in Date : Correct(b, c, d)
  BY <1>1, WorldTypes DEF IInv
<1>2. ASSUME NEW p \in Proc, Start(p) \/ Exit(p) \/ Step(p)
               \/ \E pair \in Pairs, d \in Date : Ask(p, pair[1], pair[2], d)
      PROVE  TypeOK'
  BY <1>2, RunTypes, OtherTypes DEF IInv, Step
<1>3. CASE UNCHANGED vars
  BY <1>3 DEF vars, IInv, TypeOK
<1> QED
  BY <1>1, <1>2, <1>3 DEF Next

-----------------------------------------------------------------------------
(* What the world does to a run that does not move.                         *)
WorldGrows ==
  /\ clock <= clock'
  /\ \A b \in Bank : published[b] <= published'[b]
  /\ \A b \in Bank, c \in Currency, d \in Date :
       /\ official'[b][c][d] = NoRate <=> official[b][c][d] = NoRate
       /\ d <= clock => official'[b][c][d] = official[b][c][d]

TableGrows ==
  \A k \in Keys, d \in Date : db[k][d] # Unknown => db'[k][d] # Unknown

Unmoved(p) ==
  /\ mem'[p] = mem[p] /\ today'[p] = today[p] /\ question'[p] = question[p]
  /\ cur'[p] = cur[p] /\ got'[p] = got[p] /\ range'[p] = range[p]
  /\ rates'[p] = rates[p] /\ answer'[p] = answer[p] /\ seen'[p] = seen[p]
  /\ pc'[p] = pc[p]

(* Every step lets the days and the published rates only grow.             *)
LEMMA WorldMoves == TypeOK /\ [Next]_vars => WorldGrows
<1> SUFFICES ASSUME TypeOK, [Next]_vars PROVE WorldGrows
  OBVIOUS
<1>0. clock \in Nat /\ \A b \in Bank : published[b] \in Nat
  BY DEF TypeOK
<1>1. CASE NextDay
  BY <1>0, <1>1 DEF NextDay, WorldGrows
<1>2. ASSUME NEW b \in Bank, Publish(b)
      PROVE  WorldGrows
  BY <1>0, <1>2 DEF Publish, WorldGrows, TypeOK
<1>3. ASSUME NEW b \in Bank, NEW c \in Currency, NEW d \in Date, Correct(b, c, d)
      PROVE  WorldGrows
  <2>1. official' = [official EXCEPT ![b][c][d] = Rate(d, 1)]
    BY <1>3 DEF Correct
  <2>2. official[b][c][d] # NoRate /\ Rate(d, 1) # NoRate /\ ~ (d <= clock)
    BY <1>0, <1>3, RateCacheAssumption DEF Correct, Rate, NoRate, Date
  <2>3. clock' = clock /\ published' = published
    BY <1>3 DEF Correct
  <2> QED
    BY <1>0, <2>1, <2>2, <2>3 DEF WorldGrows, TypeOK
<1>4. CASE UNCHANGED world
  BY <1>0, <1>4 DEF world, WorldGrows
<1>5. ASSUME NEW p \in Proc, Start(p) \/ Exit(p) \/ Step(p)
               \/ \E pair \in Pairs, d \in Date : Ask(p, pair[1], pair[2], d)
      PROVE  UNCHANGED world
  BY <1>5 DEF world, Start, Exit, Step, Ask, Found, Missing, Download, DownloadFails,
              Save, SaveFails
<1> QED
  BY <1>1, <1>2, <1>3, <1>4, <1>5 DEF Next, vars, world

(* Whether all days of a question are known to be published does not       *)
(* change while it is asked.                                               *)
LEMMA SameDays ==
  ASSUME TypeOK, WorldGrows, NEW p \in Proc, question'[p] = question[p], NEW d \in Date
  PROVE  HasAll(p, d)' <=> HasAll(p, d)
<1>1. BankOf[p] \in Bank
  BY RateCacheAssumption
<1>2. {question[p].from, question[p].to} \ {Base} \subseteq Currency
  BY DEF TypeOK
<1> QED
  BY <1>1, <1>2 DEF WorldGrows, HasAll

(* A table that nobody writes stays true while the world moves.            *)
LEMMA TableStays ==
  ASSUME TypeOK, TypeOK', Table, WorldGrows, db' = db
  PROVE  Table'
<1> SUFFICES ASSUME NEW b \in Bank, NEW c \in Currency, NEW d \in Date,
                    db[Key(b, c)][d] # Unknown
             PROVE  /\ d <= clock'
                    /\ db[Key(b, c)][d] = official'[b][c][d]
                    /\ official'[b][c][d] # NoRate => d <= published'[b]
  BY DEF Table
<1>1. d \in Nat /\ clock \in Nat /\ clock' \in Nat /\ published[b] \in Nat
      /\ published'[b] \in Nat
  BY RateCacheAssumption DEF TypeOK, Date
<1> QED
  BY <1>1 DEF Table, WorldGrows

(* A process that does not move keeps what it knows while others fill the  *)
(* table.                                                                  *)
LEMMA Bystander ==
  ASSUME TypeOK, TypeOK', Calendar, WorldGrows, TableGrows,
         NEW p \in Proc, Known(p), Unmoved(p)
  PROVE  Known(p)'
<1> DEFINE b == BankOf[p]
<1>1. b \in Bank
  BY RateCacheAssumption
<1>2. clock \in Nat /\ today[p] \in Nat /\ seen[p] \in Nat /\ cur[p] \in Date
      /\ question[p].date \in Date
      /\ published[b] \in Nat /\ published'[b] \in Nat /\ today[p] <= clock
      /\ published[b] <= published'[b]
  BY <1>1 DEF TypeOK, Calendar, WorldGrows
<1>3. \A c \in Currency, d \in Date :
        /\ official'[b][c][d] = NoRate <=> official[b][c][d] = NoRate
        /\ d <= today[p] => official'[b][c][d] = official[b][c][d]
  BY <1>1, <1>2, RateCacheAssumption DEF WorldGrows, Date
<1>4. PricedNow(p)' = PricedNow(p) /\ KeyNow(p)' = KeyNow(p)
  BY DEF Unmoved, PricedNow, KeyNow
<1>5. Remembered(p)'
  BY <1>3 DEF Known, Remembered, Unmoved
<1>6. Asked(p)'
  <2> SUFFICES ASSUME pc[p] \in {"look", "again", "download", "save", "answered"}
               PROVE  Asked(p)'
    BY DEF Asked, Unmoved
  <2>1. \A d \in cur[p] + 1 .. question[p].date : d <= seen[p] => ~HasAll(p, d)'
    BY <1>2, SameDays, RateCacheAssumption DEF Known, Asked, Unmoved, Date
  <2>2. got[p] # Unknown =>
          got[p] = official'[b][question[p].from][cur[p]]
    <3> SUFFICES ASSUME got[p] # Unknown
                 PROVE  got[p] = official'[b][question[p].from][cur[p]]
      OBVIOUS
    <3>1. question[p].from \in Currency
      BY DEF TypeOK, Known, Asked, Crosses
    <3>2. cur[p] <= today[p]
      BY <1>2, RateCacheAssumption DEF Known, Asked, Date
    <3> QED
      BY <1>2, <1>3, <3>1, <3>2 DEF Known, Asked
  <2> QED
    BY <2>1, <2>2 DEF Known, Asked, Unmoved, Crosses
<1>7. Ranged(p)'
  <2> SUFFICES ASSUME pc[p] \in {"download", "save"}
               PROVE  Ranged(p)'
    BY DEF Ranged, Unmoved
  <2>1. PricedNow(p) \in Currency
    BY KeyNowIsKey DEF Known
  <2>2. range[p][2] \in Date /\ range[p][2] <= published[b] => range[p][2] <= published'[b]
    BY <1>2, RateCacheAssumption DEF Date
  <2> QED
    BY <1>3, <1>4, <2>1, <2>2 DEF Known, Ranged, Unmoved
<1>8. Downloaded(p)'
  <2> SUFFICES ASSUME pc[p] = "save"
               PROVE  Downloaded(p)'
    BY DEF Downloaded, Unmoved
  <2>1. PricedNow(p) \in Currency
    BY KeyNowIsKey DEF Known
  <2>2. PICK out \in seen[p] .. published[b] :
          /\ range[p][2] # today[p] + 1 => range[p][2] <= out
          /\ \A d \in Date :
               LET rate == official[b][PricedNow(p)][d]
               IN  IF range[p][1] <= d /\ d <= range[p][2] /\ d <= out
                   THEN /\ rates[p][d] = NoRate <=> rate = NoRate
                        /\ d <= today[p] => rates[p][d] = rate
                   ELSE rates[p][d] = NoRate
    BY DEF Known, Downloaded
  <2>3. out \in seen[p] .. published'[b]
    BY <1>2
  <2>4. \A d \in Date :
          LET rate == official'[b][PricedNow(p)][d]
          IN  IF range[p][1] <= d /\ d <= range[p][2] /\ d <= out
              THEN /\ rates[p][d] = NoRate <=> rate = NoRate
                   /\ d <= today[p] => rates[p][d] = rate
              ELSE rates[p][d] = NoRate
    BY <1>3, <2>1, <2>2
  <2> QED
    BY <1>4, <2>2, <2>3, <2>4 DEF Downloaded, Unmoved
<1>9. Findable(p)'
  <2> SUFFICES ASSUME pc[p] = "again"
               PROVE  Findable(p)'
    BY DEF Findable, Unmoved
  <2>1. KeyNow(p) \in Keys
    BY KeyNowIsKey DEF Known
  <2> QED
    BY <1>2, <1>4, <2>1 DEF Known, Findable, Unmoved, TableGrows
<1>10. Answered(p)'
  <2> SUFFICES ASSUME pc[p] = "answered"
               PROVE  Answered(p)'
    BY DEF Answered, Unmoved
  <2>1. cur[p] <= today[p]
    BY <1>2, RateCacheAssumption DEF Known, Asked, Date
  <2>2. \A c \in {question[p].from, question[p].to} \ {Base} :
          official'[b][c][cur[p]] = official[b][c][cur[p]]
    <3>1. question[p].from \in Currency \cup {Base} /\ question[p].to \in Currency \cup {Base}
      BY DEF TypeOK
    <3> QED
      BY <1>2, <1>3, <2>1, <3>1
  <2>3. question[p].from # question[p].to
    BY DEF Known, Asked
  <2> DEFINE cs == Sought(question[p])
  <2>4. \A i \in DOMAIN cs : cs[i] \in {question[p].from, question[p].to} \ {Base}
    BY <2>3 DEF Sought
  <2>5. [i \in DOMAIN cs |-> official[b][cs[i]][cur[p]]]
        = [i \in DOMAIN cs |-> official'[b][cs[i]][cur[p]]]
    <3> HIDE DEF cs
    <3> QED
      BY <2>2, <2>4
  <2> QED
    BY <2>5 DEF Known, Answered, Unmoved
<1> QED
  BY <1>5, <1>6, <1>7, <1>8, <1>9, <1>10 DEF Known, Unmoved

-----------------------------------------------------------------------------
(* A run that moves.                                                        *)

(* One action of a run leaves the others and, unless it saves, the table as *)
(* they are.                                                                *)
LEMMA OthersStay ==
  ASSUME IInv, TypeOK', WorldGrows, TableGrows, NEW p \in Proc, Known(p)',
         \A q \in Proc \ {p} : Unmoved(q)
  PROVE  \A q \in Proc : Known(q)'
  BY Bystander DEF IInv

(* A table that is not written has not lost anything.                      *)
LEMMA TableSame == db' = db => TableGrows
  BY DEF TableGrows

(* Starting and ending a process keep the invariant.                       *)
LEMMA ExitKeeps ==
  ASSUME IInv, TypeOK', WorldGrows, NEW p \in Proc, Start(p) \/ Exit(p)
  PROVE  IInv'
<1>1. BankOf[p] \in Bank /\ clock \in Nat
  BY RateCacheAssumption DEF IInv, TypeOK
<1>2. db' = db /\ clock' = clock /\ published' = published
  BY DEF Start, Exit
<1>3. Table'
  BY <1>2, TableStays DEF IInv
<1>4. Calendar'
  <2>1. /\ \/ today' = [today EXCEPT ![p] = clock]
           \/ today' = [today EXCEPT ![p] = 1]
        /\ \/ seen' = [seen EXCEPT ![p] = published[BankOf[p]]]
           \/ seen' = [seen EXCEPT ![p] = 0]
    BY DEF Start, Exit
  <2>2. today'[p] <= clock /\ seen'[p] <= published[BankOf[p]]
    <3>1. published[BankOf[p]] \in Nat /\ clock >= 1
      BY <1>1 DEF IInv, TypeOK, Calendar
    <3>2. today \in [Proc -> Nat] /\ seen \in [Proc -> Nat]
      BY DEF IInv, TypeOK
    <3> QED
      BY <1>1, <2>1, <3>1, <3>2
  <2> QED
    BY <1>2, <2>1, <2>2 DEF IInv, Calendar, TypeOK
<1>5. \A q \in Proc \ {p} : Unmoved(q)
  <2>1. CASE Start(p)
    BY <2>1 DEF Unmoved, Start, IInv, TypeOK
  <2>2. CASE Exit(p)
    BY <2>2 DEF Unmoved, Exit, IInv, TypeOK
  <2> QED
    BY <2>1, <2>2
<1>6. Known(p)'
  <2>1. mem'[p] = Nothing
    BY DEF Start, Exit, IInv, TypeOK, Known, Remembered
  <2>2. pc'[p] \in {"off", "idle"}
    BY DEF Start, Exit, IInv, TypeOK
  <2>3. Remembered(p)'
    BY <1>1, <2>1, Keyed DEF Remembered, Nothing
  <2> QED
    BY <2>2, <2>3 DEF Known, Asked, Ranged, Downloaded, Findable, Answered
<1> QED
  BY <1>2, <1>3, <1>4, <1>5, <1>6, OthersStay, TableSame DEF IInv

(* Asking for a rate keeps the invariant.                                  *)
LEMMA AskKeeps ==
  ASSUME IInv, TypeOK', WorldGrows, NEW p \in Proc, NEW pair \in Pairs, NEW d \in Date,
         Ask(p, pair[1], pair[2], d)
  PROVE  IInv'
<1>1. BankOf[p] \in Bank /\ pair[1] # pair[2]
  BY RateCacheAssumption
<1>2. /\ db' = db /\ mem' = mem /\ today' = today /\ seen' = seen
      /\ clock' = clock /\ published' = published /\ official' = official
  BY DEF Ask
<1>3. Table' /\ Calendar'
  BY <1>2, TableStays DEF IInv, Calendar
<1>4. \A q \in Proc \ {p} : Unmoved(q)
  BY DEF Unmoved, Ask, IInv, TypeOK
<1>5. Known(p)'
  <2>1. pc'[p] = "look" /\ cur'[p] = d /\ got'[p] = Unknown /\ d <= today[p]
        /\ question'[p] = [from |-> pair[1], to |-> pair[2], date |-> d]
    BY DEF Ask, IInv, TypeOK
  <2>2. Remembered(p)'
    BY <1>2, <2>1 DEF IInv, Known, Remembered
  <2>3. \A e \in d + 1 .. d : FALSE
    BY RateCacheAssumption DEF Date
  <2>4. Asked(p)'
    BY <1>1, <1>2, <2>1, <2>3, RateCacheAssumption DEF Asked, Date
  <2> QED
    BY <2>1, <2>2, <2>4 DEF Known, Ranged, Downloaded, Findable, Answered
<1> QED
  BY <1>2, <1>3, <1>4, <1>5, OthersStay, TableSame DEF IInv

(* What a run has found: an official rate, or that there was none at its    *)
(* start.                                                                   *)
LEMMA WhatIsFound ==
  ASSUME IInv, NEW p \in Proc, pc[p] \in {"look", "again"},
         CachedNow(p) # Unknown
  PROVE  \/ CachedNow(p) = official[BankOf[p]][PricedNow(p)][cur[p]]
         \/ CachedNow(p) = NoRate /\ seen[p] < cur[p]
<1>1. BankOf[p] \in Bank /\ PricedNow(p) \in Currency /\ cur[p] \in Date
  BY KeyNowIsKey, RateCacheAssumption DEF IInv, Known, TypeOK
<1> QED
  BY <1>1 DEF IInv, Known, Remembered, Table, KeyNow, CachedNow, Cached

(* The prices of one and of two currencies.                                 *)
LEMMA PricesOf ==
  ASSUME NEW of, NEW x, NEW y, NEW d
  PROVE  /\ [i \in DOMAIN <<x>> |-> of[<<x>>[i]][d]] = <<of[x][d]>>
         /\ [i \in DOMAIN <<x, y>> |-> of[<<x, y>>[i]][d]] = <<of[x][d], of[y][d]>>
  OBVIOUS

(* An answer from the table keeps the invariant.                           *)
LEMMA FoundKeeps ==
  ASSUME IInv, TypeOK', WorldGrows, NEW p \in Proc, Found(p)
  PROVE  IInv'
<1> DEFINE v == CachedNow(p)
           b == BankOf[p]
           c == PricedNow(p)
           q == question[p]
<1>1. /\ db' = db /\ today' = today /\ seen' = seen /\ question' = question
      /\ clock' = clock /\ published' = published /\ official' = official
      /\ range' = range /\ rates' = rates
      /\ pc[p] \in {"look", "again"} /\ v # Unknown /\ Continue(p, v)
      /\ mem' = [mem EXCEPT ![p][KeyNow(p)][cur[p]] = v]
  BY DEF Found
<1>2. /\ b \in Bank /\ c \in Currency /\ KeyNow(p) \in Keys
      /\ KeyNow(p) = Key(b, c)
  BY <1>1, KeyNowIsKey, RateCacheAssumption DEF IInv, Known, KeyNow
<1>3. /\ cur[p] \in Date /\ q.date \in Date /\ today[p] \in Nat /\ seen[p] \in Nat
      /\ cur[p] <= q.date /\ q.date <= today[p] /\ q.from # q.to
      /\ q.from \in Currency \cup {Base} /\ q.to \in Currency \cup {Base}
      /\ cur[p] <= today[p] /\ cur[p] \in Nat /\ q.date \in Nat
  <2>1. /\ cur[p] \in Date /\ q.date \in Date /\ today[p] \in Nat /\ seen[p] \in Nat
        /\ q.from \in Currency \cup {Base} /\ q.to \in Currency \cup {Base}
    BY DEF IInv, TypeOK
  <2>2. cur[p] <= q.date /\ q.date <= today[p] /\ q.from # q.to
    BY <1>1 DEF IInv, Known, Asked
  <2> QED
    BY <2>1, <2>2, RateCacheAssumption DEF Date
<1>4. v = official[b][c][cur[p]] \/ (v = NoRate /\ seen[p] < cur[p])
  BY <1>1, WhatIsFound
<1>5. c = (IF q.from # Base /\ got[p] = Unknown THEN q.from ELSE q.to)
  BY DEF PricedNow
<1>6. got[p] # Unknown => /\ Crosses(q) /\ got[p] # NoRate
                          /\ got[p] = official[b][q.from][cur[p]]
  BY <1>1 DEF IInv, Known, Asked
<1>7. \A e \in cur[p] + 1 .. q.date : e <= seen[p] => ~HasAll(p, e)
  BY <1>1 DEF IInv, Known, Asked
<1> HIDE DEF v, b, c, q
<1>8. Table' /\ Calendar'
  BY <1>1, TableStays DEF IInv, Calendar
<1>9. /\ \A r \in Proc \ {p} : cur'[r] = cur[r] /\ got'[r] = got[r]
                               /\ answer'[r] = answer[r] /\ pc'[r] = pc[r]
      /\ pc'[p] \in {"look", "error", "answered"}
  <2>1. CASE PassOver(p, v)
    BY <2>1 DEF PassOver, BothAgain, IInv, TypeOK
  <2>2. CASE GiveUp(p, v)
    BY <2>2 DEF GiveUp, IInv, TypeOK
  <2>3. CASE TakeFirst(p, v)
    BY <2>3 DEF TakeFirst, IInv, TypeOK
  <2>4. CASE Conclude(p, v)
    BY <2>4 DEF Conclude, IInv, TypeOK
  <2> QED
    BY <1>1, <2>1, <2>2, <2>3, <2>4 DEF Continue
<1>10. \A r \in Proc \ {p} : Unmoved(r)
  BY <1>1, <1>9 DEF Unmoved, IInv, TypeOK
<1>11. Remembered(p)'
  <2> SUFFICES ASSUME NEW e \in Currency, NEW d \in Date,
                      mem'[p][Key(b, e)][d] # Unknown
               PROVE  /\ d <= today[p]
                      /\ \/ mem'[p][Key(b, e)][d] = official[b][e][d]
                         \/ mem'[p][Key(b, e)][d] = NoRate /\ seen[p] < d
    BY <1>1, <1>9 DEF Remembered, b
  <2>1. CASE e = c /\ d = cur[p]
    <3>1. mem'[p][Key(b, e)][d] = v
      BY <1>1, <1>2, <1>3, <2>1 DEF IInv, TypeOK
    <3> QED
      BY <1>3, <1>4, <2>1, <3>1
  <2>2. CASE ~ (e = c /\ d = cur[p])
    <3>1. Key(b, e) \in Keys /\ (Key(b, e) = Key(b, c) => e = c)
      BY <1>2, Keyed
    <3>2. mem'[p][Key(b, e)][d] = mem[p][Key(b, e)][d]
      BY <1>1, <1>2, <1>3, <2>2, <3>1 DEF IInv, TypeOK
    <3> QED
      BY <3>2 DEF IInv, Known, Remembered, b
  <2> QED
    BY <2>1, <2>2
<1>12. Asked(p)' /\ Answered(p)'
  <2>1. CASE PassOver(p, v)
    <3>1. pc'[p] = "look" /\ cur'[p] = cur[p] - 1 /\ got'[p] = Unknown /\ v = NoRate
      BY <2>1 DEF PassOver, BothAgain, DayBefore, IInv, TypeOK
    <3>2. cur[p] <= seen[p] => ~HasAll(p, cur[p])
      <4>1. c \in {q.from, q.to} \ {Base}
        BY <1>2, <1>5, RateCacheAssumption
      <4> QED
        BY <1>3, <1>4, <3>1, <4>1 DEF HasAll, b, q
    <3>3. \A e \in (cur[p] - 1) + 1 .. q.date : e = cur[p] \/ e \in cur[p] + 1 .. q.date
      BY <1>3
    <3>4. \A e \in Date : HasAll(p, e)' <=> HasAll(p, e)
      BY <1>1 DEF HasAll
    <3>5. \A e \in cur'[p] + 1 .. q.date : e <= seen[p] => ~HasAll(p, e)'
      BY <1>3, <1>7, <3>1, <3>2, <3>3, <3>4, RateCacheAssumption DEF Date
    <3> QED
      BY <1>1, <1>3, <3>1, <3>5 DEF Asked, Answered, q
  <2>2. CASE GiveUp(p, v)
    <3>1. pc'[p] = "error"
      BY <2>2 DEF GiveUp, IInv, TypeOK
    <3> QED
      BY <3>1 DEF Asked, Answered
  <2>3. CASE TakeFirst(p, v)
    <3>1. pc'[p] = "look" /\ cur' = cur /\ got'[p] = v /\ v # NoRate
          /\ Crosses(q) /\ got[p] = Unknown
      BY <2>3 DEF TakeFirst, IInv, TypeOK, q
    <3>2. v = official[b][q.from][cur[p]]
      BY <1>4, <1>5, <3>1 DEF Crosses
    <3>3. \A e : HasAll(p, e)' <=> HasAll(p, e)
      BY <1>1 DEF HasAll
    <3> QED
      BY <1>1, <1>3, <1>7, <3>1, <3>2, <3>3 DEF Asked, Answered, Crosses, b, q
  <2>4. CASE Conclude(p, v)
    <3> DEFINE Told == /\ answer'[p].date = cur[p]
                       /\ answer'[p].prices
                            = [i \in DOMAIN Sought(q) |-> official[b][Sought(q)[i]][cur[p]]]
    <3>1. pc'[p] = "answered" /\ cur' = cur /\ got' = got /\ v # NoRate
          /\ (Crosses(q) => got[p] # Unknown)
          /\ answer'[p] = [date |-> cur[p],
                           prices |-> IF got[p] = Unknown THEN <<v>> ELSE <<got[p], v>>]
      BY <2>4 DEF Conclude, IInv, TypeOK, q
    <3>2. \A e : HasAll(p, e)' <=> HasAll(p, e)
      BY <1>1 DEF HasAll
    <3>3. Asked(p)'
      BY <1>1, <1>3, <1>6, <1>7, <3>1, <3>2 DEF Asked, Crosses, b, q
    <3>4. v = official[b][c][cur[p]]
      BY <1>4, <3>1
    <3>5. ASSUME q.from = Base
          PROVE  Told
      <4>1. answer'[p] = [date |-> cur[p], prices |-> <<official[b][q.to][cur[p]]>>]
        BY <1>5, <1>6, <3>1, <3>4, <3>5 DEF Crosses
      <4>2. Sought(q) = <<q.to>>
        BY <3>5 DEF Sought
      <4>3. answer'[p].prices = [i \in DOMAIN Sought(q) |-> official[b][Sought(q)[i]][cur[p]]]
        BY <4>1, <4>2, PricesOf
      <4> QED
        BY <4>1, <4>3
    <3>6. ASSUME q.from # Base /\ q.to = Base
          PROVE  Told
      <4>1. answer'[p] = [date |-> cur[p], prices |-> <<official[b][q.from][cur[p]]>>]
        BY <1>5, <1>6, <3>1, <3>4, <3>6 DEF Crosses
      <4>2. Sought(q) = <<q.from>>
        BY <3>6 DEF Sought
      <4>3. answer'[p].prices = [i \in DOMAIN Sought(q) |-> official[b][Sought(q)[i]][cur[p]]]
        BY <4>1, <4>2, PricesOf
      <4> QED
        BY <4>1, <4>3
    <3>7. ASSUME q.from # Base /\ q.to # Base
          PROVE  Told
      <4>1. answer'[p] = [date |-> cur[p], prices |-> <<official[b][q.from][cur[p]],
                                                        official[b][q.to][cur[p]]>>]
        BY <1>5, <1>6, <3>1, <3>4, <3>7 DEF Crosses
      <4>2. Sought(q) = <<q.from, q.to>>
        BY <3>7 DEF Sought
      <4>3. answer'[p].prices = [i \in DOMAIN Sought(q) |-> official[b][Sought(q)[i]][cur[p]]]
        BY <4>1, <4>2, PricesOf
      <4> QED
        BY <4>1, <4>3
    <3>8. Told
      BY <3>5, <3>6, <3>7
    <3> QED
      BY <1>1, <3>1, <3>3, <3>8 DEF Answered, b, q
  <2> QED
    BY <1>1, <2>1, <2>2, <2>3, <2>4 DEF Continue
<1>13. Known(p)'
  BY <1>9, <1>11, <1>12 DEF Known, Ranged, Downloaded, Findable
<1> QED
  BY <1>1, <1>8, <1>10, <1>13, OthersStay, TableSame DEF IInv

(* A question that the table cannot answer keeps the invariant.            *)
LEMMA MissingKeeps ==
  ASSUME IInv, TypeOK', WorldGrows, NEW p \in Proc, Missing(p)
  PROVE  IInv'
<1> DEFINE k == KeyNow(p)
           last == EndDate(p, KeyNow(p), cur[p])
<1>1. /\ db' = db /\ mem' = mem /\ today' = today /\ seen' = seen
      /\ question' = question /\ cur' = cur /\ got' = got
      /\ clock' = clock /\ published' = published /\ official' = official
      /\ pc[p] \in {"look", "again"} /\ CachedNow(p) = Unknown
      /\ range' = [range EXCEPT ![p] = <<StartDate(k, cur[p]), last>>]
      /\ pc' = [pc EXCEPT ![p] = IF pc[p] = "again" THEN "surprised" ELSE "download"]
  BY DEF Missing
<1>2. /\ BankOf[p] \in Bank /\ PricedNow(p) \in Currency /\ k \in Keys
      /\ k = Key(BankOf[p], PricedNow(p))
      /\ cur[p] \in Date /\ today[p] \in Nat /\ cur[p] <= today[p]
  <2>1. cur[p] \in Date /\ today[p] \in Nat /\ question[p].date \in Date
    BY DEF IInv, TypeOK
  <2>2. cur[p] <= question[p].date /\ question[p].date <= today[p]
    BY <1>1 DEF IInv, Known, Asked
  <2> QED
    BY <1>1, <2>1, <2>2, KeyNowIsKey, RateCacheAssumption DEF IInv, Known, KeyNow, Date
<1>3. pc[p] = "look"
  BY <1>1, <1>2 DEF CachedNow, Cached, IInv, Known, Findable
<1>4. /\ pc'[p] = "download" /\ range'[p][1] = StartDate(k, cur[p]) /\ range'[p][2] = last
      /\ \A q \in Proc \ {p} : Unmoved(q)
  BY <1>1, <1>3 DEF Missing, Unmoved, IInv, TypeOK
<1>5. Table' /\ Calendar'
  BY <1>1, TableStays DEF IInv, Calendar
<1>6. Ranged(p)'
  <2>1. /\ 1 <= StartDate(k, cur[p]) /\ StartDate(k, cur[p]) <= cur[p] /\ cur[p] < last
        /\ last # today[p] + 1 => last \in Date /\ db[k][last] \notin {Unknown, NoRate}
    BY <1>2, Starts, Ends DEF IInv
  <2>2. last # today[p] + 1 =>
          /\ last \in Date
          /\ last <= published[BankOf[p]]
          /\ official[BankOf[p]][PricedNow(p)][last] # NoRate
    BY <1>2, <2>1 DEF IInv, Table
  <2>3. PricedNow(p)' = PricedNow(p)
    BY <1>1 DEF PricedNow
  <2> HIDE DEF k, last
  <2> QED
    BY <1>1, <1>4, <2>1, <2>2, <2>3 DEF Ranged
<1>7. Asked(p)'
  <2>1. \A e : HasAll(p, e)' <=> HasAll(p, e)
    BY <1>1 DEF HasAll
  <2> QED
    BY <1>1, <1>3, <2>1 DEF IInv, Known, Asked
<1>8. Remembered(p)'
  BY <1>1, <1>3, <1>4 DEF IInv, Known, Remembered
<1>9. Known(p)'
  BY <1>4, <1>6, <1>7, <1>8 DEF Known, Downloaded, Findable, Answered
<1> QED
  BY <1>1, <1>4, <1>5, <1>9, OthersStay, TableSame DEF IInv

(* A download answers with the published rates of the range, which keeps   *)
(* the invariant.                                                          *)
LEMMA DownloadKeeps ==
  ASSUME IInv, TypeOK', WorldGrows, NEW p \in Proc, Download(p)
  PROVE  IInv'
<1> DEFINE b == BankOf[p]
           c == PricedNow(p)
<1>1. /\ db' = db /\ mem' = mem /\ today' = today /\ seen' = seen
      /\ question' = question /\ cur' = cur /\ got' = got /\ range' = range
      /\ clock' = clock /\ published' = published /\ official' = official
      /\ pc[p] = "download"
      /\ rates' = [rates EXCEPT ![p] = [d \in Date |->
                     IF range[p][1] <= d /\ d <= range[p][2] /\ d <= published[b]
                     THEN official[b][c][d] ELSE NoRate]]
      /\ pc' = [pc EXCEPT ![p] = "save"]
  BY DEF Download
<1>2. b \in Bank /\ published[b] \in Nat /\ seen[p] \in Nat /\ seen[p] <= published[b]
  BY RateCacheAssumption DEF IInv, TypeOK, Calendar
<1>3. /\ pc'[p] = "save"
      /\ rates'[p] = [d \in Date |->
           IF range[p][1] <= d /\ d <= range[p][2] /\ d <= published[b]
           THEN official[b][c][d] ELSE NoRate]
      /\ \A q \in Proc \ {p} : Unmoved(q)
  BY <1>1 DEF Download, Unmoved, IInv, TypeOK
<1>4. Table' /\ Calendar'
  BY <1>1, TableStays DEF IInv, Calendar
<1>5. c' = c /\ \A e : HasAll(p, e)' <=> HasAll(p, e)
  BY <1>1 DEF PricedNow, HasAll
<1>6. Ranged(p)' /\ Asked(p)'
  BY <1>1, <1>3, <1>5 DEF IInv, Known, Asked, Ranged
<1>7. Downloaded(p)'
  <2>1. published[b] \in seen[p] .. published[b]
    BY <1>2
  <2>2. range[p][2] # today[p] + 1 => range[p][2] <= published[b]
    BY <1>1 DEF IInv, Known, Ranged
  <2>3. \A d \in Date :
          IF range[p][1] <= d /\ d <= range[p][2] /\ d <= published[b]
          THEN /\ rates'[p][d] = NoRate <=> official[b][c][d] = NoRate
               /\ d <= today[p] => rates'[p][d] = official[b][c][d]
          ELSE rates'[p][d] = NoRate
    BY <1>3
  <2> HIDE DEF c
  <2> QED
    BY <1>1, <1>5, <2>1, <2>2, <2>3 DEF Downloaded, c
<1>8. Known(p)'
  BY SMTT(20), <1>1, <1>3, <1>6, <1>7 DEF IInv, Known, Remembered, Findable, Answered
<1> QED
  BY <1>1, <1>3, <1>4, <1>8, OthersStay, TableSame DEF IInv

(* A failed download or a failed save ends the question and keeps the      *)
(* invariant.                                                              *)
LEMMA FailKeeps ==
  ASSUME IInv, TypeOK', WorldGrows, NEW p \in Proc, DownloadFails(p) \/ SaveFails(p)
  PROVE  IInv'
<1>1. /\ db' = db /\ mem' = mem /\ today' = today /\ seen' = seen
      /\ clock' = clock /\ published' = published /\ official' = official
      /\ pc[p] # "off"
      /\ pc' = [pc EXCEPT ![p] = "error"]
  BY DEF DownloadFails, SaveFails
<1>2. pc'[p] = "error" /\ \A q \in Proc \ {p} : Unmoved(q)
  BY <1>1 DEF DownloadFails, SaveFails, Unmoved, IInv, TypeOK
<1>3. Table' /\ Calendar'
  BY <1>1, TableStays DEF IInv, Calendar
<1>4. Known(p)'
  <2>1. Remembered(p)'
    BY <1>1, <1>2 DEF IInv, Known, Remembered
  <2> QED
    BY <1>2, <2>1 DEF Known, Asked, Ranged, Downloaded, Findable, Answered
<1> QED
  BY <1>1, <1>2, <1>3, <1>4, OthersStay, TableSame DEF IInv

(* save() stores the truth, and stores or remembers the day that is asked   *)
(* for.                                                                     *)
LEMMA SaveKeeps ==
  ASSUME IInv, TypeOK', WorldGrows, NEW p \in Proc, Save(p)
  PROVE  IInv'
<1> DEFINE b == BankOf[p]
           c == PricedNow(p)
           k == KeyNow(p)
<1>1. /\ today' = today /\ seen' = seen
      /\ question' = question /\ cur' = cur /\ got' = got
      /\ clock' = clock /\ published' = published /\ official' = official
      /\ answer' = answer
      /\ pc[p] = "save"
      /\ db' = [db EXCEPT ![k] = [d \in Date |->
                  IF d \in StoredDates(p) THEN rates[p][d] ELSE @[d]]]
      /\ mem' = [mem EXCEPT ![p][k] = [d \in Date |->
                  IF d \in TrailingDates(p) THEN NoRate ELSE @[d]]]
      /\ pc' = [pc EXCEPT ![p] =
                  IF \/ range[p][2] = today[p] + 1
                     \/ \E d \in Received(p) : d >= range[p][2]
                  THEN "again" ELSE "surprised"]
  BY DEF Save
<1>2. /\ b \in Bank /\ c \in Currency /\ k \in Keys /\ k = Key(b, c)
      /\ cur[p] \in Date /\ cur[p] \in Nat /\ today[p] \in Nat /\ cur[p] <= today[p]
      /\ today[p] <= clock /\ clock \in Nat /\ seen[p] \in Nat /\ published[b] \in Nat
      /\ range[p][1] \in Int /\ range[p][2] \in Int
  <2>1. /\ cur[p] \in Date /\ today[p] \in Nat /\ question[p].date \in Date
        /\ range[p] \in Int \X Int
        /\ today[p] <= clock /\ clock \in Nat /\ seen[p] \in Nat
    BY DEF IInv, TypeOK, Calendar
  <2>2. cur[p] <= question[p].date /\ question[p].date <= today[p]
    BY <1>1 DEF IInv, Known, Asked
  <2>3. b \in Bank /\ published[b] \in Nat
    BY RateCacheAssumption DEF IInv, TypeOK
  <2>4. c \in Currency /\ k \in Keys /\ k = Key(b, c)
    BY <1>1, KeyNowIsKey DEF IInv, Known, KeyNow
  <2> QED
    BY <2>1, <2>2, <2>3, <2>4, RateCacheAssumption DEF Date
<1>3. /\ range[p][1] <= cur[p] /\ cur[p] < range[p][2]
      /\ range[p][2] # today[p] + 1 => range[p][2] \in Date /\ official[b][c][range[p][2]] # NoRate
  BY <1>1 DEF IInv, Known, Ranged
<1>4. PICK out \in seen[p] .. published[b] :
        /\ range[p][2] # today[p] + 1 => range[p][2] <= out
        /\ \A d \in Date :
             IF range[p][1] <= d /\ d <= range[p][2] /\ d <= out
             THEN /\ rates[p][d] = NoRate <=> official[b][c][d] = NoRate
                  /\ d <= today[p] => rates[p][d] = official[b][c][d]
             ELSE rates[p][d] = NoRate
  BY <1>1 DEF IInv, Known, Downloaded
<1>5. out \in Nat /\ seen[p] <= out /\ out <= published[b]
  BY <1>2
<1>6. \A d \in Date : d \in Nat /\ rates[p][d] \in Nat
  <2>1. \A d \in Date : d \in Nat
    BY RateCacheAssumption DEF Date
  <2>2. rates[p] \in [Date -> Nat]
    BY DEF IInv, TypeOK
  <2> QED
    BY <2>1, <2>2
<1> HIDE DEF b, c, k
<1>7. \A d \in StoredDates(p) :
        /\ d \in Date /\ d <= today[p] /\ d <= published[b]
        /\ rates[p][d] = official[b][c][d]
  <2> SUFFICES ASSUME NEW d \in StoredDates(p)
               PROVE  /\ d \in Date /\ d <= today[p] /\ d <= published[b]
                      /\ rates[p][d] = official[b][c][d]
    OBVIOUS
  <2>1. d \in Date /\ range[p][1] <= d /\ d <= today[p]
    BY DEF StoredDates
  <2>2. PICK e \in Date : rates[p][e] # NoRate /\ d <= e
    BY DEF StoredDates, Received
  <2>3. e <= range[p][2] /\ e <= out
    BY <1>4, <2>2
  <2>4. d <= range[p][2] /\ d <= out /\ d <= published[b]
    BY <1>2, <1>5, <1>6, <2>1, <2>2, <2>3
  <2> QED
    BY <1>4, <2>1, <2>4
<1>8. \A d \in TrailingDates(p) :
        /\ d \in Date /\ d <= today[p]
        /\ official[b][c][d] = NoRate \/ seen[p] < d
  <2> SUFFICES ASSUME NEW d \in TrailingDates(p)
               PROVE  /\ d \in Date /\ d <= today[p]
                      /\ official[b][c][d] = NoRate \/ seen[p] < d
    OBVIOUS
  <2>1. d \in Date /\ range[p][1] <= d /\ d <= range[p][2] /\ d <= today[p]
        /\ \A e \in Received(p) : e < d
    BY DEF TrailingDates
  <2>2. rates[p][d] = NoRate
    BY <1>6, <2>1 DEF Received
  <2>3. d <= out => official[b][c][d] = NoRate
    BY <1>4, <2>1, <2>2
  <2> QED
    BY <1>2, <1>5, <1>6, <2>1, <2>3
<1>9. /\ \A l \in Keys \ {k} : db'[l] = db[l] /\ mem'[p][l] = mem[p][l]
      /\ \A d \in Date : db'[k][d] = IF d \in StoredDates(p) THEN rates[p][d] ELSE db[k][d]
      /\ \A d \in Date : mem'[p][k][d] = IF d \in TrailingDates(p) THEN NoRate ELSE mem[p][k][d]
  BY <1>1, <1>2 DEF IInv, TypeOK
<1>10. \A q \in Proc \ {p} : Unmoved(q)
  BY <1>1 DEF Save, Unmoved, IInv, TypeOK
<1>11. TableGrows
  BY <1>2, <1>6, <1>9 DEF TableGrows, Unknown
<1>12. Calendar'
  BY <1>1 DEF IInv, Calendar
<1>13. Table'
  <2> SUFFICES ASSUME NEW bank \in Bank, NEW e \in Currency, NEW d \in Date,
                      db'[Key(bank, e)][d] # Unknown
               PROVE  /\ d <= clock
                      /\ db'[Key(bank, e)][d] = official[bank][e][d]
                      /\ official[bank][e][d] # NoRate => d <= published[bank]
    BY <1>1 DEF Table
  <2>1. CASE db'[Key(bank, e)][d] = db[Key(bank, e)][d]
    BY <2>1 DEF IInv, Table
  <2>2. CASE db'[Key(bank, e)][d] # db[Key(bank, e)][d]
    <3>1. Key(bank, e) = k
      BY <1>9, <2>2, Keyed
    <3>2. bank = b /\ e = c
      BY <1>2, <3>1, Keyed
    <3>3. d \in StoredDates(p) /\ db'[k][d] = rates[p][d]
      BY <1>9, <2>2, <3>1
    <3>4. d <= clock
      BY <1>2, <1>6, <1>7, <3>3
    <3> QED
      BY <1>7, <3>1, <3>2, <3>3, <3>4
  <2> QED
    BY <2>1, <2>2
<1>14. Remembered(p)'
  <2>1. pc'[p] # "off"
    BY <1>1 DEF IInv, TypeOK
  <2> SUFFICES ASSUME NEW e \in Currency, NEW d \in Date,
                      mem'[p][Key(b, e)][d] # Unknown
               PROVE  /\ d <= today[p]
                      /\ \/ mem'[p][Key(b, e)][d] = official[b][e][d]
                         \/ mem'[p][Key(b, e)][d] = NoRate /\ seen[p] < d
    BY <1>1, <2>1 DEF Remembered, b
  <2>2. CASE mem'[p][Key(b, e)][d] = mem[p][Key(b, e)][d]
    BY <2>2 DEF IInv, Known, Remembered, b
  <2>3. CASE mem'[p][Key(b, e)][d] # mem[p][Key(b, e)][d]
    <3>1. Key(b, e) = k /\ e = c
      BY <1>2, <1>9, <2>3, Keyed
    <3>2. d \in TrailingDates(p) /\ mem'[p][k][d] = NoRate
      BY <1>9, <2>3, <3>1
    <3> QED
      BY <1>8, <3>1, <3>2
  <2> QED
    BY <2>2, <2>3
<1>15. pc'[p] = "again"
  <2>1. range[p][2] # today[p] + 1 => range[p][2] \in Received(p)
    <3> SUFFICES ASSUME range[p][2] # today[p] + 1
                 PROVE  range[p][2] \in Received(p)
      OBVIOUS
    <3>1. range[p][2] \in Date /\ official[b][c][range[p][2]] # NoRate
          /\ range[p][2] <= out /\ range[p][1] <= range[p][2]
      BY <1>2, <1>3, <1>4
    <3> QED
      BY <1>2, <1>4, <3>1 DEF Received
  <2> QED
    BY SMTT(20), <1>1, <1>2, <2>1 DEF IInv, TypeOK
<1>16. Findable(p)'
  <2>1. KeyNow(p)' = k
    BY <1>1 DEF KeyNow, PricedNow, k
  <2>2. CASE \E e \in Received(p) : cur[p] <= e
    <3>1. cur[p] \in StoredDates(p)
      BY <1>2, <1>3, <2>2 DEF StoredDates
    <3> QED
      BY <1>1, <1>2, <1>6, <1>9, <2>1, <3>1 DEF Findable, Unknown
  <2>3. CASE ~ \E e \in Received(p) : cur[p] <= e
    <3>1. \A e \in Received(p) : e < cur[p]
      BY <1>2, <1>6, <2>3 DEF Received
    <3>2. cur[p] \in TrailingDates(p)
      BY <1>2, <1>3, <3>1 DEF TrailingDates
    <3> QED
      BY <1>1, <1>2, <1>9, <2>1, <3>2 DEF Findable, Unknown, NoRate
  <2> QED
    BY <2>2, <2>3
<1>17. Asked(p)'
  <2>1. \A e : HasAll(p, e)' <=> HasAll(p, e)
    BY <1>1 DEF HasAll
  <2> QED
    BY <1>1, <1>15, <2>1 DEF IInv, Known, Asked
<1>18. Known(p)'
  BY <1>14, <1>15, <1>16, <1>17 DEF Known, Ranged, Downloaded, Answered
<1> QED
  BY <1>10, <1>11, <1>12, <1>13, <1>18, OthersStay DEF IInv

(* Days, publications and corrections keep the invariant.                  *)
LEMMA WorldKeeps ==
  ASSUME IInv, TypeOK', WorldGrows,
         \/ NextDay
         \/ \E b \in Bank : Publish(b)
         \/ \E b \in Bank, c \in Currency, d \in Date : Correct(b, c, d)
         \/ UNCHANGED vars
  PROVE  IInv'
<1>1. db' = db /\ today' = today /\ seen' = seen /\ \A p \in Proc : Unmoved(p)
  BY DEF NextDay, Publish, Correct, Unmoved, vars
<1>2. Table'
  BY <1>1, TableStays DEF IInv
<1>3. Calendar'
  <2>1. clock \in Nat /\ clock' \in Nat /\ clock <= clock'
    BY DEF IInv, TypeOK, WorldGrows
  <2>2. ASSUME NEW p \in Proc
        PROVE  today[p] <= clock' /\ seen[p] <= published'[BankOf[p]]
    <3>1. BankOf[p] \in Bank /\ today[p] \in Nat /\ seen[p] \in Nat
      BY RateCacheAssumption DEF IInv, TypeOK
    <3>2. /\ published[BankOf[p]] \in Nat /\ published'[BankOf[p]] \in Nat
          /\ published[BankOf[p]] <= published'[BankOf[p]]
      BY <3>1 DEF IInv, TypeOK, WorldGrows
    <3> QED
      BY <2>1, <3>1, <3>2 DEF IInv, Calendar
  <2> QED
    BY <1>1, <2>1, <2>2 DEF IInv, Calendar
<1>4. \A p \in Proc : Known(p)'
  BY <1>1, Bystander, TableSame DEF IInv
<1> QED
  BY <1>2, <1>3, <1>4 DEF IInv

(* The inductive invariant holds in every reachable state.                 *)
LEMMA Inductive == Spec => []IInv
<1>1. IInv /\ [Next]_vars => IInv'
  <2> SUFFICES ASSUME IInv, [Next]_vars PROVE IInv'
    OBVIOUS
  <2>1. TypeOK' /\ WorldGrows
    BY NextTypes, WorldMoves DEF IInv
  <2>2. ASSUME NEW p \in Proc, Start(p) \/ Exit(p)
        PROVE  IInv'
    BY <2>1, <2>2, ExitKeeps
  <2>3. ASSUME NEW p \in Proc, NEW pair \in Pairs, NEW d \in Date, Ask(p, pair[1], pair[2], d)
        PROVE  IInv'
    BY <2>1, <2>3, AskKeeps
  <2>4. ASSUME NEW p \in Proc, Step(p)
        PROVE  IInv'
    BY <2>1, <2>4, FoundKeeps, MissingKeeps, DownloadKeeps, FailKeeps, SaveKeeps DEF Step
  <2>5. CASE NextDay \/ (\E b \in Bank : Publish(b))
             \/ (\E b \in Bank, c \in Currency, d \in Date : Correct(b, c, d))
             \/ UNCHANGED vars
    BY <2>1, <2>5, WorldKeeps
  <2> QED
    BY <2>2, <2>3, <2>4, <2>5 DEF Next
<1> QED
  BY <1>1, InitHolds, PTL DEF Spec

-----------------------------------------------------------------------------
(* What the shared table holds is the final official rate of its day, or    *)
(* that there is none: for any number of runs that start, overlap, fail and *)
(* die, any banks and calendars, late rates and corrected ones (save(),     *)
(* cache_key()).                                                            *)
THEOREM TableHoldsTheTruth == Spec => []StoredOfficial
<1>1. IInv => StoredOfficial
  BY DEF IInv, Table, StoredOfficial
<1> QED
  BY <1>1, Inductive, PTL

(* "It's expected to be in the cache, but actually it's missing" and the    *)
(* debug assertion of save() are unreachable (get_price(), save()).         *)
THEOREM SavedIsFound == Spec => []NothingExpectedMissing
<1>1. IInv => NothingExpectedMissing
  BY DEF IInv, Known, NothingExpectedMissing
<1> QED
  BY <1>1, Inductive, PTL

(* The variables have their types, no range is reversed (the assertion of   *)
(* get()), and a conversion uses official rates of the last day which has   *)
(* all of them (currency_rate()).                                           *)
THEOREM ConversionsAreOfficial == Spec => []AnswersOfficial
<1>1. IInv => AnswersOfficial
  <2> SUFFICES ASSUME IInv, NEW p \in Proc, pc[p] = "answered"
               PROVE  LET cs == Sought(question[p])
                          day == answer[p].date
                      IN  /\ day <= question[p].date
                          /\ answer[p].prices
                             = [i \in DOMAIN cs |-> official[BankOf[p]][cs[i]][day]]
                          /\ \A d \in day + 1 .. question[p].date :
                               d <= seen[p] => ~HasAll(p, d)
    BY DEF IInv, AnswersOfficial
  <2> QED
    BY DEF IInv, Known, Answered, Asked
<1> QED
  BY <1>1, Inductive, PTL

-----------------------------------------------------------------------------
(* Telemetry.  What makes NoRecordLost hold is that a delete by id reaches  *)
(* no row its invocation has not seen: ids only grow (SnapshotsCover), the  *)
(* rows load() gave up are gone before the request is sent (ExcessGone),    *)
(* and the rest is what the server got (Accepted).                          *)

(* The types of the variables hold in every reachable state.               *)
THEOREM TelemetryTypeCorrect == TelemetrySpec => []TelemetryTypeOK
<1> USE TelemetryAssumption DEF TelemetryTypeOK
<1>1. TelemetryInit => TelemetryTypeOK
  BY DEF TelemetryInit
<1>2. TelemetryTypeOK /\ [TelemetryNext]_tvars => TelemetryTypeOK'
  <2> SUFFICES ASSUME TelemetryTypeOK, [TelemetryNext]_tvars
               PROVE  TelemetryTypeOK'
    OBVIOUS
  <2> USE DEF Row
  <2>1. ASSUME NEW p \in Invocation, Load(p) PROVE TelemetryTypeOK'
    BY <2>1 DEF Load
  <2>2. ASSUME NEW p \in Invocation, Trim(p) PROVE TelemetryTypeOK'
    BY <2>2 DEF Trim, DeleteUpTo, Payloads
  <2>3. ASSUME NEW p \in Invocation, StartWithoutSender(p) PROVE TelemetryTypeOK'
    BY <2>3 DEF StartWithoutSender
  <2>4. ASSUME NEW p \in Invocation, StartSender(p) PROVE TelemetryTypeOK'
    <3>1. ChosenUser(p) \in UserIds \cup Invocation \cup {NoUser}
      BY DEF ChosenUser
    <3>2. ExtraTime(Cardinality(Batch(p))) \in BOOLEAN
      BY DEF ExtraTime
    <3> QED BY <2>4, <3>1, <3>2 DEF StartSender
  <2>5. ASSUME NEW p \in Invocation, Add(p) PROVE TelemetryTypeOK'
    BY <2>5 DEF Add, NextId
  <2>6. ASSUME NEW p \in Invocation, CommandFails(p) PROVE TelemetryTypeOK'
    BY <2>6 DEF CommandFails
  <2>7. ASSUME NEW p \in Invocation, CloseEmptyHanded(p) \/ Timeout(p) PROVE TelemetryTypeOK'
    BY <2>7 DEF CloseEmptyHanded, Timeout
  <2>8. ASSUME NEW p \in Invocation, CloseDelivered(p) PROVE TelemetryTypeOK'
    BY <2>8 DEF CloseDelivered, DeleteUpTo
  <2>9. ASSUME NEW p \in Invocation, Sender(p) PROVE TelemetryTypeOK'
    BY <2>9 DEF Sender, Post, SendSucceeds, SendFails
  <2>10. ASSUME NEW p \in Invocation, ServerAccepts(p) PROVE TelemetryTypeOK'
    BY <2>10 DEF ServerAccepts, Batch, Excess, Payloads
  <2>11. ASSUME NEW p \in Invocation, Kill(p) PROVE TelemetryTypeOK'
    BY <2>11 DEF Kill
  <2>12. CASE UNCHANGED tvars
    BY <2>12 DEF tvars
  <2> QED
    BY <2>1, <2>2, <2>3, <2>4, <2>5, <2>6, <2>7, <2>8, <2>9, <2>10, <2>11,
       <2>12 DEF TelemetryNext, Command, Terminated
<1> QED BY <1>1, <1>2, PTL DEF TelemetrySpec

-----------------------------------------------------------------------------
(* The strengthening under which a delete is safe.                          *)

IdsGrow ==
  /\ \A r \in table : r.id <= sequence
  /\ \A p \in Invocation : \A s \in snapshot[p] : s.id <= sequence

SnapshotsCover ==
  \A p \in Invocation : \A r \in table : \A s \in snapshot[p] :
    r.id <= s.id => r \in snapshot[p]

ExcessGone ==
  \A p \in Invocation : phase[p] \in {"trimmed", "running", "closing"} =>
    \A r \in table : r \notin Excess(snapshot[p])

Accepted ==
  \A p \in Invocation :
    /\ phase[p] \in {"start", "loaded", "trimmed"} => result[p] = "none"
    /\ result[p] = "none" => request[p] = "idle"
    /\ result[p] = "delivered" => request[p] = "accepted"
    /\ request[p] = "accepted" => Payloads(Batch(p)) \subseteq received

Safe == IdsGrow /\ SnapshotsCover /\ ExcessGone /\ Accepted

(* Steps that leave table, sequence and the snapshots alone, and move no    *)
(* process into the states that follow the trim, keep the first three.      *)
LEMMA RowsUntouched ==
  ASSUME Safe, UNCHANGED <<table, sequence, snapshot>>,
         \A p \in Invocation : phase'[p] \in {"trimmed", "running", "closing"} =>
                           phase[p] \in {"trimmed", "running", "closing"}
  PROVE  IdsGrow' /\ SnapshotsCover' /\ ExcessGone'
BY DEF Safe, IdsGrow, SnapshotsCover, ExcessGone, Excess, NewerIn

(* Steps that leave the conversation with the server alone keep the last.   *)
LEMMA ConversationUntouched ==
  ASSUME Safe, UNCHANGED <<snapshot, result, request, received>>,
         \A p \in Invocation : phase'[p] \in {"start", "loaded", "trimmed"} =>
                           phase[p] \in {"start", "loaded", "trimmed"}
  PROVE  Accepted'
BY DEF Safe, Accepted, Payloads, Batch, Excess, NewerIn

(* Every step keeps the conjuncts of Safe.                                 *)
LEMMA SafeInductive == TelemetryTypeOK /\ Safe /\ [TelemetryNext]_tvars => Safe'
<1> SUFFICES ASSUME TelemetryTypeOK, Safe, [TelemetryNext]_tvars
             PROVE  Safe'
  OBVIOUS
<1> USE DEF TelemetryTypeOK, Row
<1>1. ASSUME NEW p \in Invocation, Load(p) PROVE Safe'
  <2>1. IdsGrow' /\ SnapshotsCover' /\ ExcessGone'
    BY <1>1 DEF Load, Safe, IdsGrow, SnapshotsCover, ExcessGone, Excess, NewerIn
  <2>2. \A q \in Invocation : q # p => Payloads(Batch(q))' = Payloads(Batch(q))
    BY <1>1 DEF Load, Payloads, Batch, Excess, NewerIn
  <2>3. request[p] = "idle" /\ result[p] = "none"
    BY <1>1 DEF Load, Safe, Accepted
  <2>4. Accepted'
    BY <1>1, <2>2, <2>3 DEF Load, Safe, Accepted
  <2> QED BY <2>1, <2>4 DEF Safe
<1>2. ASSUME NEW p \in Invocation, Trim(p) PROVE Safe'
  <2>1. table' \subseteq table
    BY <1>2 DEF Trim, DeleteUpTo
  <2>2. \A r \in table' : r \notin Excess(snapshot[p])
    BY <1>2 DEF Trim, DeleteUpTo, Excess
  <2>3. IdsGrow' /\ SnapshotsCover'
    BY <1>2, <2>1 DEF Trim, Safe, IdsGrow, SnapshotsCover
  <2>4. ExcessGone'
    BY <1>2, <2>1, <2>2 DEF Trim, Safe, ExcessGone, Excess, NewerIn
  <2>5. Accepted'
    BY <1>2, ConversationUntouched DEF Trim
  <2> QED BY <2>3, <2>4, <2>5 DEF Safe
<1>3. ASSUME NEW p \in Invocation, StartWithoutSender(p) PROVE Safe'
  <2>1. IdsGrow' /\ SnapshotsCover' /\ ExcessGone'
    BY <1>3, RowsUntouched DEF StartWithoutSender
  <2>2. Accepted'
    BY <1>3, ConversationUntouched DEF StartWithoutSender
  <2> QED BY <2>1, <2>2 DEF Safe
<1>4. ASSUME NEW p \in Invocation, StartSender(p) PROVE Safe'
  <2>1. IdsGrow' /\ SnapshotsCover' /\ ExcessGone'
    BY <1>4, RowsUntouched DEF StartSender
  <2>2. request[p] = "idle"
    BY <1>4 DEF StartSender, Safe, Accepted
  <2>3. Accepted'
    BY <1>4, <2>2 DEF StartSender, Safe, Accepted, Payloads, Batch, Excess, NewerIn
  <2> QED BY <2>1, <2>3 DEF Safe
<1>5. ASSUME NEW p \in Invocation, Add(p) PROVE Safe'
  <2>1. IdsGrow' /\ SnapshotsCover'
    BY <1>5 DEF Add, NextId, Safe, IdsGrow, SnapshotsCover
  <2>2. \A q \in Invocation : [id |-> NextId, payload |-> p] \notin snapshot[q]
    BY DEF NextId, Safe, IdsGrow
  <2>3. ExcessGone'
    BY <1>5, <2>2 DEF Add, Safe, ExcessGone, Excess, NewerIn
  <2>4. Accepted'
    BY <1>5, ConversationUntouched DEF Add
  <2> QED BY <2>1, <2>3, <2>4 DEF Safe
<1>6. ASSUME NEW p \in Invocation,
             CommandFails(p) \/ CloseEmptyHanded(p) \/ Timeout(p) \/ Kill(p)
      PROVE  Safe'
  <2>1. IdsGrow' /\ SnapshotsCover' /\ ExcessGone'
    BY <1>6, RowsUntouched DEF CommandFails, CloseEmptyHanded, Timeout, Kill
  <2>2. Accepted'
    BY <1>6, ConversationUntouched DEF CommandFails, CloseEmptyHanded, Timeout, Kill
  <2> QED BY <2>1, <2>2 DEF Safe
<1>7. ASSUME NEW p \in Invocation, CloseDelivered(p) PROVE Safe'
  <2>1. table' \subseteq table
    BY <1>7 DEF CloseDelivered, DeleteUpTo
  <2>2. IdsGrow' /\ SnapshotsCover' /\ ExcessGone'
    BY <1>7, <2>1 DEF CloseDelivered, Safe, IdsGrow, SnapshotsCover, ExcessGone,
                      Excess, NewerIn
  <2>3. Accepted'
    BY <1>7, ConversationUntouched DEF CloseDelivered
  <2> QED BY <2>2, <2>3 DEF Safe
<1>8. ASSUME NEW p \in Invocation, Sender(p) \/ ServerAccepts(p) PROVE Safe'
  <2>1. IdsGrow' /\ SnapshotsCover' /\ ExcessGone'
    BY <1>8, RowsUntouched DEF Sender, Post, SendSucceeds, SendFails, ServerAccepts
  <2>2. \A q \in Invocation : Payloads(Batch(q))' = Payloads(Batch(q))
    BY <1>8 DEF Sender, Post, SendSucceeds, SendFails, ServerAccepts, Payloads,
                Batch, Excess, NewerIn
  <2>3. Accepted'
    BY <1>8, <2>2 DEF Sender, Post, SendSucceeds, SendFails, ServerAccepts, Alive,
                      Safe, Accepted
  <2> QED BY <2>1, <2>3 DEF Safe
<1>9. CASE UNCHANGED tvars
  <2>1. IdsGrow' /\ SnapshotsCover' /\ ExcessGone'
    BY <1>9, RowsUntouched DEF tvars
  <2>2. Accepted'
    BY <1>9, ConversationUntouched DEF tvars
  <2> QED BY <2>1, <2>2 DEF Safe
<1> QED
  BY <1>1, <1>2, <1>3, <1>4, <1>5, <1>6, <1>7, <1>8, <1>9
  DEF TelemetryNext, Command, Terminated

(* Safe holds in every reachable state, whatever the number of processes   *)
(* and records.                                                            *)
THEOREM Safety == TelemetrySpec => []Safe
<1>1. TelemetryInit => Safe
  BY DEF TelemetryInit, Safe, IdsGrow, SnapshotsCover, ExcessGone, Accepted
<1> QED BY <1>1, SafeInductive, TelemetryTypeCorrect, PTL DEF TelemetrySpec

(* No behaviour deletes a record that the server has not stored and that    *)
(* was not given up for being in excess: Telemetry::delete is safe however  *)
(* invocations overlap, fail or die.                                        *)
THEOREM RecordsSurvive == TelemetrySpec => NoRecordLost
<1> DEFINE Kept == \A r \in table \ table' : r.payload \in received' \cup dropped'
<1>1. TelemetryTypeOK /\ Safe /\ [TelemetryNext]_tvars => [Kept]_tvars
  <2> SUFFICES ASSUME TelemetryTypeOK, Safe, TelemetryNext
               PROVE  Kept
    OBVIOUS
  <2>1. ASSUME NEW p \in Invocation, Trim(p) PROVE Kept
    BY <2>1 DEF Trim, Payloads
  <2>2. ASSUME NEW p \in Invocation, CloseDelivered(p) PROVE Kept
    <3> SUFFICES ASSUME NEW r \in table \ table'
                 PROVE  r.payload \in received'
      OBVIOUS
    <3>1. PICK s \in Batch(p) : ~(r.id > s.id)
      BY <2>2 DEF CloseDelivered, DeleteUpTo
    <3>2. s \in snapshot[p] /\ r.id \in Nat /\ s.id \in Nat
      BY <3>1 DEF Batch, TelemetryTypeOK, Row
    <3>3. r \in snapshot[p]
      BY <3>1, <3>2 DEF Safe, SnapshotsCover
    <3>4. r \in Batch(p)
      BY <2>2, <3>3 DEF CloseDelivered, Batch, Safe, ExcessGone
    <3> QED
      BY <2>2, <3>4 DEF CloseDelivered, Safe, Accepted, Payloads
  <2>3. CASE UNCHANGED table \/ table \subseteq table'
    BY <2>3
  <2> QED
    BY <2>1, <2>2, <2>3
    DEF TelemetryNext, Command, Sender, Terminated, tvars, Load, StartWithoutSender,
        StartSender, Add, CommandFails, CloseEmptyHanded, Timeout, Post,
        SendSucceeds, SendFails, ServerAccepts, Kill
<1> QED BY <1>1, TelemetryTypeCorrect, Safety, PTL DEF TelemetrySpec, NoRecordLost

-----------------------------------------------------------------------------
(* The user id.                                                             *)

(* Nothing is sent before an id is stored; and as long as only anonymous    *)
(* invocations have sent something, they sent it under the stored id.       *)
SentAsStored ==
  /\ \A p \in Invocation : sentAs[p] # NoUser => stored # NoUser
  /\ (\A r \in Invocation : sentAs[r] # NoUser => Configured[r] = NoUser) =>
       \A p \in Invocation : sentAs[p] # NoUser => sentAs[p] = stored

(* Every step keeps what was sent equal to what was stored.                *)
LEMMA SentAsStoredInductive ==
  TelemetryTypeOK /\ SentAsStored /\ [TelemetryNext]_tvars => SentAsStored'
<1> SUFFICES ASSUME TelemetryTypeOK, SentAsStored, [TelemetryNext]_tvars
             PROVE  SentAsStored'
  OBVIOUS
<1>1. ASSUME NEW p \in Invocation, StartSender(p) PROVE SentAsStored'
  <2>1. /\ stored' = ChosenUser(p)
        /\ sentAs' = [sentAs EXCEPT ![p] = ChosenUser(p)]
        /\ sentAs \in [Invocation -> UserIds \cup Invocation \cup {NoUser}]
    BY <1>1 DEF StartSender, TelemetryTypeOK
  <2>2. ChosenUser(p) # NoUser
    BY TelemetryAssumption DEF ChosenUser
  <2>3. ASSUME \A r \in Invocation : sentAs'[r] # NoUser => Configured[r] = NoUser,
               NEW q \in Invocation, sentAs'[q] # NoUser
        PROVE  sentAs'[q] = stored'
    <3>1. Configured[p] = NoUser
      BY <2>1, <2>2, <2>3
    <3>2. \A r \in Invocation : sentAs[r] # NoUser => Configured[r] = NoUser
      BY <2>1, <2>3, <3>1
    <3>3. CASE stored # NoUser
      BY <2>1, <2>3, <3>1, <3>2, <3>3 DEF SentAsStored, ChosenUser
    <3>4. CASE stored = NoUser
      BY <2>1, <2>3, <3>4 DEF SentAsStored
    <3> QED BY <3>3, <3>4
  <2> QED BY <2>1, <2>2, <2>3 DEF SentAsStored
<1>2. CASE UNCHANGED <<stored, sentAs>>
  BY <1>2 DEF SentAsStored
<1> QED
  BY <1>1, <1>2
  DEF TelemetryNext, Command, Sender, Terminated, tvars, Load, Trim, StartWithoutSender,
      Add, CommandFails, CloseEmptyHanded, Timeout, CloseDelivered, Post,
      SendSucceeds, SendFails, ServerAccepts, Kill

(* An installation without a configured user reports under one id, however  *)
(* its first invocations overlap: user_id() stores what it returns in the   *)
(* transaction that has read it.                                            *)
THEOREM OneUser == TelemetrySpec => []OneAnonymousUser
<1>1. TelemetryInit => SentAsStored
  BY DEF TelemetryInit, SentAsStored
<1>2. SentAsStored => OneAnonymousUser
  BY DEF SentAsStored, OneAnonymousUser
<1> QED BY <1>1, <1>2, SentAsStoredInductive, TelemetryTypeCorrect, PTL DEF TelemetrySpec

-----------------------------------------------------------------------------
(* The limit on the number of records.                                      *)

(* An id names one row.                                                     *)
IdsUnique ==
  /\ \A r, s \in table : r.id = s.id => r = s
  /\ \A p \in Invocation : \A r, s \in snapshot[p] : r.id = s.id => r = s

(* Every step keeps the ids of records unique.                             *)
LEMMA IdsUniqueInductive ==
  TelemetryTypeOK /\ Safe /\ IdsUnique /\ [TelemetryNext]_tvars => IdsUnique'
<1> SUFFICES ASSUME TelemetryTypeOK, Safe, IdsUnique, [TelemetryNext]_tvars
             PROVE  IdsUnique'
  OBVIOUS
<1>1. ASSUME NEW p \in Invocation, Load(p) PROVE IdsUnique'
  BY <1>1 DEF Load, IdsUnique, TelemetryTypeOK
<1>2. ASSUME NEW p \in Invocation, Add(p) PROVE IdsUnique'
  BY <1>2 DEF Add, NextId, IdsUnique, TelemetryTypeOK, Row, Safe, IdsGrow
<1>3. CASE table' \subseteq table /\ UNCHANGED snapshot
  BY <1>3 DEF IdsUnique
<1> QED
  BY <1>1, <1>2, <1>3
  DEF TelemetryNext, Command, Sender, Terminated, tvars, Trim, DeleteUpTo, StartWithoutSender,
      StartSender, CommandFails, CloseEmptyHanded, Timeout, CloseDelivered, Post,
      SendSucceeds, SendFails, ServerAccepts, Kill

(* Rows newer than a row have as many ids between its own and the last.     *)
LEMMA NewerRows ==
  ASSUME NEW rows, NEW s \in rows, NEW last \in Nat, rows \subseteq Row,
         \A q, r \in rows : q.id = r.id => q = r,
         \A r \in rows : r.id <= last
  PROVE  /\ Cardinality(NewerIn(rows, s)) \in Nat
         /\ Cardinality(NewerIn(rows, s)) <= last - s.id
<1> DEFINE newer == NewerIn(rows, s)
           ids == s.id + 1 .. last
           id == [r \in newer |-> r.id]
<1>1. s.id \in Nat /\ s.id <= last
  BY DEF Row
<1>2. IsFiniteSet(ids) /\ Cardinality(ids) = last - s.id
  <2>1. s.id + 1 \in Int /\ last \in Int
    BY <1>1
  <2>2. /\ IsFiniteSet(ids)
        /\ Cardinality(ids) = IF s.id + 1 > last THEN 0 ELSE last - (s.id + 1) + 1
    BY <2>1, FS_Interval
  <2> QED BY <1>1, <2>2
<1>3. id \in Injection(newer, ids)
  BY <1>1 DEF NewerIn, Row, Injection, IsInjective
<1>4. IsFiniteSet(newer) /\ Cardinality(newer) <= Cardinality(ids)
  BY <1>2, <1>3, FS_Injection
<1> QED BY <1>2, <1>4, FS_CardinalityType

(* load() gives up a record unsent only when max_records newer ones have    *)
(* been stored, however stale the rows are among which it counted.          *)
THEOREM OnlyExcessDropped == TelemetrySpec => DropsOnlyExcess
<1> DEFINE Excessive ==
      \A r \in table \ table' :
        r.payload \in dropped' \ dropped => sequence >= r.id + MaxRecords
<1>1. TelemetryInit => IdsUnique
  BY DEF TelemetryInit, IdsUnique
<1>2. TelemetryTypeOK /\ Safe /\ IdsUnique /\ [TelemetryNext]_tvars => [Excessive]_tvars
  <2> SUFFICES ASSUME TelemetryTypeOK, Safe, IdsUnique, TelemetryNext
               PROVE  Excessive
    OBVIOUS
  <2>1. ASSUME NEW p \in Invocation, Trim(p), NEW r \in table \ table'
        PROVE  sequence >= r.id + MaxRecords
    <3>1. PICK s \in Excess(snapshot[p]) : ~(r.id > s.id)
      BY <2>1 DEF Trim, DeleteUpTo
    <3>2. /\ s \in snapshot[p] /\ snapshot[p] \subseteq Row
          /\ Cardinality(NewerIn(snapshot[p], s)) >= MaxRecords
      BY <3>1 DEF Excess, TelemetryTypeOK
    <3>3. /\ Cardinality(NewerIn(snapshot[p], s)) \in Nat
          /\ Cardinality(NewerIn(snapshot[p], s)) <= sequence - s.id
      <4>1. /\ \A q, t \in snapshot[p] : q.id = t.id => q = t
            /\ \A t \in snapshot[p] : t.id <= sequence
            /\ sequence \in Nat
        BY DEF IdsUnique, Safe, IdsGrow, TelemetryTypeOK
      <4> HIDE DEF Excessive
      <4> QED BY <3>2, <4>1, NewerRows
    <3>4. r.id \in Nat /\ s.id \in Nat /\ sequence \in Nat /\ MaxRecords \in Nat
      BY <2>1, <3>2, TelemetryAssumption DEF TelemetryTypeOK, Row
    <3> QED BY <3>1, <3>2, <3>3, <3>4
  <2>2. CASE UNCHANGED dropped
    BY <2>2
  <2> QED
    BY <2>1, <2>2
    DEF TelemetryNext, Command, Sender, Terminated, tvars, Load, StartWithoutSender,
        StartSender, Add, CommandFails, CloseEmptyHanded, Timeout, CloseDelivered,
        Post, SendSucceeds, SendFails, ServerAccepts, Kill
<1> QED
  BY <1>1, <1>2, IdsUniqueInductive, TelemetryTypeCorrect, Safety, PTL
  DEF TelemetrySpec, DropsOnlyExcess

-----------------------------------------------------------------------------
(* The backlog.                                                             *)

(* What an invocation that runs alone, and does not fail, knows of the      *)
(* table: nothing but its own record has come to what it has loaded.        *)
AsLoaded(p) ==
  /\ table \in {snapshot[p], snapshot[p] \cup {[id |-> sequence, payload |-> p]}}
  /\ phase[p] # "closing" => table = snapshot[p]
  /\ phase[p] \in {"running", "closing"} =>
       /\ result[p] # "failed"
       /\ result[p] = "none" => Batch(p) = {}
       /\ result[p] = "pending" => patient[p] = ExtraTime(Cardinality(Batch(p)))

WithinLimit(rows, t) == IsFiniteSet(rows) /\ Cardinality(rows) <= t

Alone(t) ==
  /\ \A p, q \in Alive : p = q
  /\ \A p \in Alive : AsLoaded(p) /\ WithinLimit(snapshot[p], t)
  /\ Alive = {} => WithinLimit(table, t)

AloneWhileCalm == calm => \A t \in Thresholds : t <= MaxRecords => Alone(t)

(* Few rows are never in excess.                                            *)
LEMMA NoExcess ==
  ASSUME NEW rows, NEW t \in Thresholds, t <= MaxRecords, WithinLimit(rows, t),
         rows \subseteq Row
  PROVE  Excess(rows) = {}
<1> SUFFICES ASSUME NEW r \in rows
             PROVE  ~(Cardinality(NewerIn(rows, r)) >= MaxRecords)
  BY DEF Excess
<1>1. NewerIn(rows, r) \subseteq rows \ {r} /\ IsFiniteSet(rows)
  BY DEF NewerIn, WithinLimit, Row
<1>2. IsFiniteSet(rows \ {r}) /\ Cardinality(rows \ {r}) = Cardinality(rows) - 1
  BY <1>1, FS_RemoveElement
<1>3. /\ IsFiniteSet(NewerIn(rows, r))
      /\ Cardinality(NewerIn(rows, r)) <= Cardinality(rows \ {r})
  BY <1>1, <1>2, FS_Subset
<1>4. Cardinality(NewerIn(rows, r)) \in Nat /\ Cardinality(rows) \in Nat
  BY <1>1, <1>3, FS_CardinalityType
<1> QED BY <1>2, <1>3, <1>4, TelemetryAssumption DEF WithinLimit

(* Less than the threshold does not call for extra time: a record more is   *)
(* still within it.                                                         *)
LEMMA OneMore ==
  ASSUME NEW rows, NEW r, NEW t \in Thresholds, WithinLimit(rows, t),
         rows = {} \/ ~ExtraTime(Cardinality(rows))
  PROVE  WithinLimit(rows \cup {r}, t)
<1>1. Cardinality(rows) \in Nat /\ t \in Nat /\ t >= 1 /\ Cardinality(rows) <= t
  BY TelemetryAssumption, FS_CardinalityType DEF WithinLimit
<1>2. Cardinality(rows) # t
  <2>1. CASE rows = {}
    BY <1>1, <2>1, FS_EmptySet
  <2>2. CASE ~ExtraTime(Cardinality(rows))
    <3>1. t % t = 0
      BY <1>1
    <3> QED BY <2>2, <3>1 DEF ExtraTime
  <2> QED BY <2>1, <2>2
<1>3. /\ IsFiniteSet(rows \cup {r})
      /\ Cardinality(rows \cup {r}) <= Cardinality(rows) + 1
  <2>1. IsFiniteSet(rows)
    BY DEF WithinLimit
  <2>2. /\ IsFiniteSet(rows \cup {r})
        /\ Cardinality(rows \cup {r}) =
             IF r \in rows THEN Cardinality(rows) ELSE Cardinality(rows) + 1
    BY <2>1, FS_AddElement
  <2> QED BY <1>1, <2>2
<1>4. Cardinality(rows \cup {r}) \in Nat
  BY <1>3, FS_CardinalityType
<1> QED BY <1>1, <1>2, <1>3, <1>4 DEF WithinLimit

(* A table that is within the limit stays so when rows are deleted from    *)
(* it.                                                                     *)
LEMMA FewerRows ==
  ASSUME NEW rows, NEW fewer, fewer \subseteq rows, NEW t \in Nat, WithinLimit(rows, t)
  PROVE  WithinLimit(fewer, t)
<1>1. IsFiniteSet(fewer) /\ Cardinality(fewer) <= Cardinality(rows)
  BY FS_Subset DEF WithinLimit
<1>2. Cardinality(fewer) \in Nat /\ Cardinality(rows) \in Nat
  BY <1>1, FS_CardinalityType DEF WithinLimit
<1> QED BY <1>1, <1>2 DEF WithinLimit

(* While nothing else runs, every step keeps the counts that one process   *)
(* alone relies on.                                                        *)
LEMMA AloneInductive ==
  ASSUME TelemetryTypeOK, Safe, AloneWhileCalm, [TelemetryNext]_tvars, calm',
         NEW t \in Thresholds,
         t <= MaxRecords
  PROVE  Alone(t)'
<1> USE DEF TelemetryTypeOK
<1>1. calm
  BY DEF TelemetryNext, Command, Sender, Terminated, tvars, Load, Trim, StartWithoutSender,
         StartSender, Add, CommandFails, CloseEmptyHanded, Timeout, CloseDelivered,
         Post, SendSucceeds, SendFails, ServerAccepts, Kill
<1>2. Alone(t)
  BY <1>1 DEF AloneWhileCalm
<1>3. t \in Nat /\ t >= 1
  BY TelemetryAssumption
(* An invocation is as calm as it was: it is the only one.                  *)
<1>4. ASSUME NEW p \in Alive
      PROVE  /\ Alive = {p} /\ AsLoaded(p) /\ WithinLimit(snapshot[p], t)
             /\ Excess(snapshot[p]) = {} /\ Batch(p) = snapshot[p]
  <2>1. Alive = {p} /\ AsLoaded(p) /\ WithinLimit(snapshot[p], t)
    BY <1>2 DEF Alone
  <2>2. snapshot[p] \subseteq Row
    BY DEF Alive
  <2>3. Excess(snapshot[p]) = {}
    BY <2>1, <2>2, NoExcess
  <2> QED BY <2>1, <2>3 DEF Batch
<1>5. ASSUME NEW p \in Invocation, Load(p) PROVE Alone(t)'
  <2>1. Alive = {} /\ Alive' = {p}
    BY <1>5 DEF Load, Alive
  <2>2. WithinLimit(table, t)
    BY <1>2, <2>1 DEF Alone
  <2>3. snapshot'[p] = table /\ table' = table /\ phase'[p] = "loaded"
    BY <1>5 DEF Load
  <2>4. WithinLimit(snapshot[p], t)'
    BY <2>2, <2>3 DEF WithinLimit
  <2> QED BY <2>1, <2>3, <2>4 DEF Alone, AsLoaded
<1>6. ASSUME NEW p \in Invocation, Trim(p) PROVE Alone(t)'
  <2>1. p \in Alive /\ Alive' = Alive
    BY <1>6 DEF Trim, Alive
  <2>2. table' = table /\ snapshot' = snapshot /\ phase'[p] = "trimmed"
    BY <1>4, <1>6, <2>1 DEF Trim
  <2> QED BY <1>4, <1>6, <2>1, <2>2 DEF Alone, AsLoaded, WithinLimit, Trim
<1>7. ASSUME NEW p \in Invocation, StartWithoutSender(p) PROVE Alone(t)'
  <2>1. p \in Alive /\ Alive' = Alive
    BY <1>7 DEF StartWithoutSender, Alive
  <2>2. result[p] = "none"
    BY <1>7 DEF StartWithoutSender, Safe, Accepted
  <2>3. /\ UNCHANGED <<table, snapshot, result>> /\ phase'[p] = "running" /\ phase[p] = "trimmed"
        /\ Batch(p) = {}
    BY <1>7 DEF StartWithoutSender
  <2>4. Batch(p)' = Batch(p)
    BY <2>3 DEF Batch, Excess, NewerIn
  <2> QED BY <1>4, <2>1, <2>2, <2>3, <2>4 DEF Alone, AsLoaded, WithinLimit
<1>8. ASSUME NEW p \in Invocation, StartSender(p) PROVE Alone(t)'
  <2>1. p \in Alive /\ Alive' = Alive
    BY <1>8 DEF StartSender, Alive
  <2>2. /\ UNCHANGED <<table, snapshot>> /\ phase'[p] = "running" /\ phase[p] = "trimmed"
        /\ result'[p] = "pending" /\ patient'[p] = ExtraTime(Cardinality(Batch(p)))
    BY <1>8 DEF StartSender
  <2>3. Batch(p)' = Batch(p)
    BY <2>2 DEF Batch, Excess, NewerIn
  <2>4. ExtraTime(Cardinality(Batch(p)))' = ExtraTime(Cardinality(Batch(p)))
    BY <2>3 DEF ExtraTime
  <2> QED BY <1>4, <2>1, <2>2, <2>4 DEF Alone, AsLoaded, WithinLimit
<1>9. ASSUME NEW p \in Invocation, Add(p) PROVE Alone(t)'
  <2>1. p \in Alive /\ Alive' = Alive
    BY <1>9 DEF Add, Alive
  <2>2. /\ UNCHANGED <<snapshot, result, patient>> /\ phase[p] = "running"
        /\ phase'[p] = "closing" /\ sequence' = sequence + 1
        /\ table' = table \cup {[id |-> sequence', payload |-> p]}
    BY <1>9 DEF Add, NextId
  <2>3. Batch(p)' = Batch(p)
    BY <2>2 DEF Batch, Excess, NewerIn
  <2>4. ExtraTime(Cardinality(Batch(p)))' = ExtraTime(Cardinality(Batch(p)))
    BY <2>3 DEF ExtraTime
  <2> QED BY <1>4, <2>1, <2>2, <2>3, <2>4 DEF Alone, AsLoaded, WithinLimit
<1>10. ASSUME NEW p \in Invocation, CommandFails(p) PROVE Alone(t)'
  <2>1. p \in Alive /\ Alive' = Alive
    BY <1>10 DEF CommandFails, Alive
  <2>2. /\ UNCHANGED <<table, sequence, snapshot, result, patient>>
        /\ phase[p] = "running" /\ phase'[p] = "closing"
    BY <1>10 DEF CommandFails
  <2>3. Batch(p)' = Batch(p)
    BY <2>2 DEF Batch, Excess, NewerIn
  <2>4. ExtraTime(Cardinality(Batch(p)))' = ExtraTime(Cardinality(Batch(p)))
    BY <2>3 DEF ExtraTime
  <2> QED BY <1>4, <2>1, <2>2, <2>3, <2>4 DEF Alone, AsLoaded, WithinLimit
(* It leaves one record more than it found ...                              *)
<1>11. ASSUME NEW p \in Invocation, CloseEmptyHanded(p) \/ Timeout(p) PROVE Alone(t)'
  <2>1. p \in Alive /\ Alive' = Alive \ {p}
    BY <1>11 DEF CloseEmptyHanded, Timeout, Alive
  <2>2. UNCHANGED table /\ phase[p] = "closing"
    BY <1>11 DEF CloseEmptyHanded, Timeout
  <2>3. snapshot[p] = {} \/ ~ExtraTime(Cardinality(snapshot[p]))
    BY <1>1, <1>4, <1>11, <2>1, <2>2 DEF CloseEmptyHanded, Timeout, AsLoaded
  <2>4. WithinLimit(snapshot[p] \cup {[id |-> sequence, payload |-> p]}, t)
    BY <1>4, <2>1, <2>3, OneMore
  <2>5. WithinLimit(table, t)
    BY <1>4, <2>1, <2>4 DEF AsLoaded
  <2> QED BY <1>4, <2>1, <2>2, <2>5 DEF Alone, WithinLimit
(* ... or its own alone.                                                    *)
<1>12. ASSUME NEW p \in Invocation, CloseDelivered(p) PROVE Alone(t)'
  <2>1. p \in Alive /\ Alive' = Alive \ {p}
    BY <1>12 DEF CloseDelivered, Alive
  <2>2. table' \subseteq {[id |-> sequence, payload |-> p]}
    <3>1. table' = DeleteUpTo(snapshot[p]) /\ snapshot[p] \subseteq Row
      BY <1>4, <1>12, <2>1 DEF CloseDelivered
    <3>2. \A r \in table' : r \notin snapshot[p]
      BY <3>1 DEF DeleteUpTo, Row
    <3> QED BY <1>4, <2>1, <3>1, <3>2 DEF AsLoaded, DeleteUpTo
  <2>3. WithinLimit({[id |-> sequence, payload |-> p]}, t)
    BY <1>3, FS_Singleton DEF WithinLimit
  <2>4. WithinLimit(table', t)
    BY <1>3, <2>2, <2>3, FewerRows
  <2> QED BY <1>4, <2>1, <2>4 DEF Alone, WithinLimit
<1>13. ASSUME NEW p \in Invocation, SendSucceeds(p) PROVE Alone(t)'
  <2>1. p \in Alive /\ Alive' = Alive
    BY <1>13 DEF SendSucceeds, Alive
  <2>2. /\ UNCHANGED <<table, sequence, snapshot, phase, patient>>
        /\ result'[p] = "delivered"
    BY <1>13, <2>1 DEF SendSucceeds, Alive
  <2> QED BY <1>4, <2>1, <2>2 DEF Alone, AsLoaded, WithinLimit
<1>14. CASE UNCHANGED <<table, sequence, snapshot, phase, result, patient>>
  <2>1. Alive' = Alive
    BY <1>14 DEF Alive
  <2>2. \A p \in Invocation : Batch(p)' = Batch(p)
    BY <1>14 DEF Batch, Excess, NewerIn
  <2>3. \A p \in Invocation :
          ExtraTime(Cardinality(Batch(p)))' = ExtraTime(Cardinality(Batch(p)))
    BY <2>2 DEF ExtraTime
  <2>4. \A p \in Alive : AsLoaded(p)'
    BY <1>2, <1>14, <2>2, <2>3 DEF Alone, AsLoaded, Alive
  <2> QED BY <1>2, <1>14, <2>1, <2>4 DEF Alone, WithinLimit
<1>15. ASSUME NEW p \in Invocation, SendFails(p) \/ Kill(p) PROVE FALSE
  BY <1>15 DEF SendFails, Kill
<1> QED
  BY <1>5, <1>6, <1>7, <1>8, <1>9, <1>10, <1>11, <1>12, <1>13, <1>14, <1>15
  DEF TelemetryNext, Command, Sender, Terminated, tvars, Post, ServerAccepts

(* While nothing fails and invocations follow one another, no more than the *)
(* smallest flush threshold is ever left between them.                      *)
THEOREM BacklogStaysSmall == TelemetrySpec => []BacklogFlushed
<1>1. TelemetryInit => AloneWhileCalm
  <2> SUFFICES ASSUME TelemetryInit, NEW t \in Thresholds
               PROVE  Alone(t)
    BY DEF AloneWhileCalm
  <2>1. Alive = {} /\ table = {}
    BY DEF TelemetryInit, Alive
  <2>2. t >= 0
    BY TelemetryAssumption
  <2> QED BY <2>1, <2>2, FS_EmptySet DEF Alone, WithinLimit
<1>2. TelemetryTypeOK /\ Safe /\ AloneWhileCalm /\ [TelemetryNext]_tvars => AloneWhileCalm'
  BY AloneInductive DEF AloneWhileCalm
<1>3. AloneWhileCalm => BacklogFlushed
  BY TelemetryAssumption DEF AloneWhileCalm, Alone, WithinLimit, BacklogFlushed
<1> QED BY <1>1, <1>2, <1>3, TelemetryTypeCorrect, Safety, PTL DEF TelemetrySpec

=============================================================================
