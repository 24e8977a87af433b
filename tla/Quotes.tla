------------------------------- MODULE Quotes -------------------------------
(***************************************************************************)
(* Real-time quotes: batched requests, their plan, and the cache           *)
(* (src/src/quotes: mod.rs, cache.rs, and the providers).                  *)
(*                                                                         *)
(* Runs of the program ask for stocks and for a currency pair in either    *)
(* direction.  What is not cached is collected and asked of the providers  *)
(* in passes: in each pass every symbol still missing goes to the next     *)
(* provider of its kind, all of them are called at the same time, and what *)
(* they return is saved one quote after another, a currency pair in both   *)
(* directions, in the memory of the run and in the table quotes, which all *)
(* runs share.  Rows of the table expire one by one.                       *)
(*                                                                         *)
(* A price is abstracted to the quotation it was made from: its provider   *)
(* and its time.  The two directions of a pair agree when they were made   *)
(* from the same quotation.  The query plan is any list of providers for    *)
(* each symbol; QueryPlan computes the one of the code.                    *)
(***************************************************************************)
EXTENDS Integers, Sequences

CONSTANTS
  Proc,         \* runs of the program
  Stock,        \* stock symbols
  Provider,     \* the providers
  Route,        \* [symbol -> the providers to be asked, the preferred first]
  AnyDirection, \* providers that may return the reverse pair
  Static,       \* the symbols of the static provider's configuration
  ExpireTime,   \* cache_expire_time
  MaxTime       \* BOUND: moments

Pair == {"direct", "reverse"}

Symbol == Pair \cup Stock

ASSUME QuotesAssumption ==
  /\ "nobody" \notin Provider
  /\ Pair \cap Stock = {}
  /\ Route \in [Symbol \ {"reverse"} -> Seq(Provider)]
  /\ AnyDirection \subseteq Provider
  /\ ExpireTime \in Nat /\ MaxTime \in Nat

VARIABLES
  clock,
  db,        \* the table quotes: [Symbol -> Nothing or [quote, time]]
  memory,    \* Cache::real_time of every run: [Symbol -> Nothing or quote]
  batched,   \* batched_requests
  wanted,    \* the symbol of get(), as a set
  plan,      \* the symbols of the plan that have no quote yet
  pass,
  answers,   \* what the providers of the pass returned, not yet looked at
  saving,    \* the quotes of one provider, not yet saved
  second,    \* the pair whose reverse has been saved, as a set
  lacked,    \* history: who was asked, by this run, for what it did not have
  called,    \* history: who was asked for what by this run
  fetched,   \* history: the symbols this run has saved
  pc

vars == <<clock, db, memory, batched, wanted, plan, pass, answers, saving, second,
          lacked, called, fetched, pc>>

Opposite(pair) == IF pair = "direct" THEN "reverse" ELSE "direct"

Quote == [by : Provider, time : 0 .. MaxTime]

Nothing == [by |-> "nobody", time |-> 0]

NoRow == [quote |-> Nothing, time |-> 0]

Init ==
  /\ clock = 0
  /\ db = [s \in Symbol |-> NoRow]
  /\ memory = [p \in Proc |-> [s \in Symbol |-> Nothing]]
  /\ batched = [p \in Proc |-> {}]
  /\ wanted = [p \in Proc |-> {}]
  /\ plan = [p \in Proc |-> {}]
  /\ pass = [p \in Proc |-> 1]
  /\ answers = [p \in Proc |-> {}]
  /\ saving = [p \in Proc |-> {}]
  /\ second = [p \in Proc |-> {}]
  /\ lacked = [p \in Proc |-> {}]
  /\ called = [p \in Proc |-> {}]
  /\ fetched = [p \in Proc |-> {}]
  /\ pc = [p \in Proc |-> "idle"]

-----------------------------------------------------------------------------
(* The cache.                                                               *)

(* get_real_time(): the memory, then a row that has not expired.            *)
Cached(p, s) ==
  IF memory[p][s] # Nothing THEN memory[p][s]
  ELSE IF db[s] # NoRow /\ db[s].time > clock - ExpireTime THEN db[s].quote
  ELSE Nothing

(* Fault: a quote in memory is not replaced. *)
RememberFirst(p, s, quote) ==
  [memory EXCEPT ![p][s] = IF @ = Nothing THEN quote ELSE @]

(* Fault: a downloaded quote is saved in the database only. *)
RememberNot(p, s, quote) == memory

(* save_real_time()                                                         *)
Remember(p, s, quote) == [memory EXCEPT ![p][s] = quote]

Save(p, s, quote) ==
  /\ memory' = Remember(p, s, quote)
  /\ db' = [db EXCEPT ![s] = [quote |-> quote, time |-> clock]]
  /\ fetched' = [fetched EXCEPT ![p] = @ \cup {s}]
  /\ plan' = [plan EXCEPT ![p] = @ \ {s}]

-----------------------------------------------------------------------------
(* Requests.                                                                *)

(* A pair is always asked for in one direction.                             *)
Normal(s) == IF s = "reverse" THEN "direct" ELSE s

(* batch(): what is cached is taken to memory, what is not is collected.    *)
Batch(p, s) ==
  /\ pc[p] = "idle"
  /\ memory' = [memory EXCEPT ![p][s] = Cached(p, s)]
  /\ batched' = [batched EXCEPT ![p] = @ \cup IF Cached(p, s) = Nothing
                                              THEN {Normal(s)} ELSE {}]
  /\ UNCHANGED <<clock, db, wanted, plan, pass, answers, saving, second, lacked,
                 called, fetched, pc>>

(* build_query_plan() takes all that was collected.                         *)
Start(p, symbols) ==
  /\ plan' = [plan EXCEPT ![p] = symbols]
  /\ batched' = [batched EXCEPT ![p] = {}]
  /\ pass' = [pass EXCEPT ![p] = 1]
  /\ pc' = [pc EXCEPT ![p] = "pass"]

(* get() of what is not cached.                                             *)
Get(p, s) ==
  /\ pc[p] = "idle"
  /\ Cached(p, s) = Nothing
  /\ Start(p, batched[p] \cup {Normal(s)})
  /\ wanted' = [wanted EXCEPT ![p] = {s}]
  /\ UNCHANGED <<clock, db, memory, answers, saving, second, lacked, called, fetched>>

(* execute()                                                                *)
Execute(p) ==
  /\ pc[p] = "idle"
  /\ batched[p] # {}
  /\ Start(p, batched[p])
  /\ wanted' = [wanted EXCEPT ![p] = {}]
  /\ UNCHANGED <<clock, db, memory, answers, saving, second, lacked, called, fetched>>

-----------------------------------------------------------------------------
(* execute_query_plan()                                                     *)

(* The symbols a provider is asked for in this pass.                        *)
PassPlan(p, provider) ==
  {s \in plan[p] : pass[p] <= Len(Route[s]) /\ Route[s][pass[p]] = provider}

Called(p) == {provider \in Provider : PassPlan(p, provider) # {}}

(* What a provider may return: the configured symbols, some of the pairs in *)
(* either direction, or some of what it was asked for.                      *)
Returns(provider, symbols) ==
  IF provider = "static" THEN {symbols \cap Static}
  ELSE IF provider \in AnyDirection
  THEN {{IF s \in Pair /\ reversed THEN Opposite(s) ELSE s : s \in some} :
          some \in SUBSET symbols, reversed \in BOOLEAN}
  ELSE SUBSET symbols

(* It may also fail, but for the configuration.                             *)
Fails(provider) == IF provider = "static" THEN {FALSE} ELSE BOOLEAN

Answered(p) == {answer.by : answer \in answers[p]}

(* Fault: the last answer is not counted. *)
AllButLast(p, q) == Called(p) = Answered(p)

AllAnswered(p, q) == Called(p) = Answered(p) \cup {q}

(* The providers of a pass are called at the same time and return one after  *)
(* another; nothing is looked at before the last one returned.              *)
Download(p, q) ==
  /\ pc[p] = "pass"
  /\ q \in Called(p) \ Answered(p)
  /\ \E returned \in Returns(q, PassPlan(p, q)), failed \in Fails(q) :
       /\ failed => returned = {}
       /\ answers' = [answers EXCEPT ![p] = @ \cup
            {[by |-> q, failed |-> failed,
              quotes |-> {[symbol |-> s, quote |-> [by |-> q, time |-> clock]] :
                            s \in returned}]}]
       /\ lacked' = [lacked EXCEPT ![p] = @ \cup
            {<<q, s>> : s \in {x \in PassPlan(p, q) :
                                 ~failed /\ \A y \in returned : Normal(y) # x}}]
  /\ called' = [called EXCEPT ![p] = @ \cup {<<q, s>> : s \in PassPlan(p, q)}]
  /\ pc' = [pc EXCEPT ![p] = IF AllAnswered(p, q) THEN "apply" ELSE @]
  /\ UNCHANGED <<clock, db, memory, batched, wanted, plan, pass, saving, second,
                 fetched>>

(* Fault: a provider that failed is taken for one that has nothing. *)
AfterAnswerIgnored(p, answer) == "apply"

(* The first failure ends the program; what is left of the pass is lost.    *)
AfterAnswer(p, answer) == IF answer.failed THEN "failed" ELSE "apply"

Look(p) ==
  /\ pc[p] = "apply"
  /\ saving[p] = {} /\ second[p] = {}
  /\ \E answer \in answers[p] :
       /\ answers' = [answers EXCEPT ![p] = @ \ {answer}]
       /\ saving' = [saving EXCEPT ![p] = answer.quotes]
       /\ pc' = [pc EXCEPT ![p] = AfterAnswer(p, answer)]
  /\ UNCHANGED <<clock, db, memory, batched, wanted, plan, pass, second, lacked,
                 called, fetched>>

(* Fault: only the direction that was returned is saved. *)
ReturnedOnly(x) == x.symbol

(* Of a pair the reverse direction is saved first.                          *)
First(x) == Opposite(x.symbol)

SaveReverse(p) ==
  /\ pc[p] = "apply"
  /\ second[p] = {}
  /\ \E x \in saving[p] :
       /\ x.symbol \in Pair
       /\ Save(p, First(x), x.quote)
       /\ saving' = [saving EXCEPT ![p] = @ \ {x}]
       /\ second' = [second EXCEPT ![p] = {x}]
  /\ UNCHANGED <<clock, batched, wanted, pass, answers, lacked, called, pc>>

SavePair(p) ==
  /\ pc[p] = "apply"
  /\ \E x \in second[p] : Save(p, x.symbol, x.quote)
  /\ second' = [second EXCEPT ![p] = {}]
  /\ UNCHANGED <<clock, batched, wanted, pass, answers, saving, lacked, called, pc>>

SaveStock(p) ==
  /\ pc[p] = "apply"
  /\ second[p] = {}
  /\ \E x \in saving[p] :
       /\ x.symbol \in Stock
       /\ Save(p, x.symbol, x.quote)
       /\ saving' = [saving EXCEPT ![p] = @ \ {x}]
  /\ UNCHANGED <<clock, batched, wanted, pass, answers, second, lacked, called, pc>>

NextPass(p) == pass[p] + 1

PassEnds(p) ==
  /\ pc[p] = "apply"
  /\ answers[p] = {} /\ saving[p] = {} /\ second[p] = {}
  /\ pass' = [pass EXCEPT ![p] = NextPass(p)]
  /\ pc' = [pc EXCEPT ![p] = "pass"]
  /\ UNCHANGED <<clock, db, memory, batched, wanted, plan, answers, saving, second,
                 lacked, called, fetched>>

(* Nobody is left to be asked.                                              *)
PlanEnds(p) ==
  /\ pc[p] = "pass"
  /\ Called(p) = {}
  /\ pc' = [pc EXCEPT ![p] = IF plan[p] # {} THEN "failed"
                             ELSE IF wanted[p] # {} THEN "answer" ELSE "idle"]
  /\ UNCHANGED <<clock, db, memory, batched, wanted, plan, pass, answers, saving,
                 second, lacked, called, fetched>>

(* get() looks the quote up again, and would panic without it.              *)
Answer(p) ==
  /\ pc[p] = "answer"
  /\ \E s \in wanted[p] : memory' = [memory EXCEPT ![p][s] = Cached(p, s)]
  /\ wanted' = [wanted EXCEPT ![p] = {}]
  /\ pc' = [pc EXCEPT ![p] = "idle"]
  /\ UNCHANGED <<clock, db, batched, plan, pass, answers, saving, second, lacked,
                 called, fetched>>

-----------------------------------------------------------------------------
Tick ==
  /\ clock < MaxTime
  /\ clock' = clock + 1
  /\ UNCHANGED <<db, memory, batched, wanted, plan, pass, answers, saving, second,
                 lacked, called, fetched, pc>>

(* A run ends, fails or is killed, and another one is started.              *)
Restart(p) ==
  /\ memory' = [memory EXCEPT ![p] = [s \in Symbol |-> Nothing]]
  /\ batched' = [batched EXCEPT ![p] = {}]
  /\ wanted' = [wanted EXCEPT ![p] = {}]
  /\ plan' = [plan EXCEPT ![p] = {}]
  /\ pass' = [pass EXCEPT ![p] = 1]
  /\ answers' = [answers EXCEPT ![p] = {}]
  /\ saving' = [saving EXCEPT ![p] = {}]
  /\ second' = [second EXCEPT ![p] = {}]
  /\ lacked' = [lacked EXCEPT ![p] = {}]
  /\ called' = [called EXCEPT ![p] = {}]
  /\ fetched' = [fetched EXCEPT ![p] = {}]
  /\ pc' = [pc EXCEPT ![p] = "idle"]
  /\ UNCHANGED <<clock, db>>

Work(p) ==
  \/ \E q \in Provider : Download(p, q)
  \/ Look(p)
  \/ SaveReverse(p) \/ SavePair(p) \/ SaveStock(p)
  \/ PassEnds(p) \/ PlanEnds(p) \/ Answer(p)

Next ==
  \/ \E p \in Proc, s \in Symbol : Batch(p, s) \/ Get(p, s)
  \/ \E p \in Proc : Execute(p) \/ Work(p) \/ Restart(p)
  \/ Tick

Spec == Init /\ [][Next]_vars

LiveSpec == Spec /\ \A p \in Proc : WF_vars(Work(p))

-----------------------------------------------------------------------------
Row == [quote : Quote, time : 0 .. MaxTime]

Saved == [symbol : Symbol, quote : Quote]

(* Types of the variables; in particular a pair is only ever asked for in   *)
(* one direction.                                                           *)
TypeOK ==
  /\ clock \in 0 .. MaxTime
  /\ db \in [Symbol -> Row \cup {NoRow}]
  /\ memory \in [Proc -> [Symbol -> Quote \cup {Nothing}]]
  /\ batched \in [Proc -> SUBSET (Symbol \ {"reverse"})]
  /\ plan \in [Proc -> SUBSET (Symbol \ {"reverse"})]
  /\ wanted \in [Proc -> SUBSET Symbol]
  /\ pass \in [Proc -> Nat \ {0}]
  /\ answers \in [Proc -> SUBSET [by : Provider, failed : BOOLEAN, quotes : SUBSET Saved]]
  /\ saving \in [Proc -> SUBSET Saved]
  /\ second \in [Proc -> SUBSET Saved]
  /\ lacked \in [Proc -> SUBSET (Provider \X Symbol)]
  /\ called \in [Proc -> SUBSET (Provider \X Symbol)]
  /\ fetched \in [Proc -> SUBSET Symbol]
  /\ pc \in [Proc -> {"idle", "pass", "apply", "answer", "failed"}]

(* What get() unwraps at its end is there, in whichever direction the pair  *)
(* was asked for, by whom it was returned, and in which direction.          *)
GetAnswers ==
  \A p \in Proc : pc[p] = "answer" => \A s \in wanted[p] : memory[p][s] # Nothing

(* Once a run has downloaded a pair its two directions agree for the rest   *)
(* of the run, whatever it had read from the database before.               *)
DownloadedAgree ==
  \A p \in Proc :
    Pair \subseteq fetched[p] /\ second[p] = {} =>
      memory[p]["direct"] = memory[p]["reverse"]

(* A quote is taken from a provider only if all those before it in the plan *)
(* have been asked for it in the same run and did not have it; and a        *)
(* provider is asked for the same thing again only if the plan names it     *)
(* again.                                                                   *)
Earned(p, s, provider) ==
  \E i \in 1 .. Len(Route[s]) :
    /\ Route[s][i] = provider
    /\ \A j \in 1 .. i - 1 : <<Route[s][j], s>> \in lacked[p]

PreferredFirst ==
  \A p \in Proc :
    /\ \A s \in fetched[p] : Earned(p, Normal(s), memory[p][s].by)
    /\ \A q \in Provider, s \in Symbol :
         /\ pc[p] = "pass" /\ q \in Called(p) \ Answered(p) /\ s \in PassPlan(p, q)
         /\ <<q, s>> \in called[p]
         => \E j \in 1 .. pass[p] - 1 : Route[s][j] = q

(* Every plan ends.                                                         *)
EveryPlanEnds ==
  \A p \in Proc : pc[p] = "pass" ~> pc[p] \in {"idle", "failed"}

=============================================================================
