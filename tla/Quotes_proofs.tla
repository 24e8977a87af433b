--------------------------- MODULE Quotes_proofs ---------------------------
(***************************************************************************)
(* Proofs about real-time quotes, for any number of runs, stocks and       *)
(* providers, and whatever the providers return.                           *)
(***************************************************************************)
EXTENDS Quotes, TLAPS

(* While the second direction of a pair is owed, the first one is in memory *)
(* and made from the same quotation.                                        *)
Owed(p) ==
  \A x \in second[p] :
    /\ pc[p] = "apply"
    /\ x.symbol \in Pair
    /\ memory[p][Opposite(x.symbol)] = x.quote
    /\ Opposite(x.symbol) \in fetched[p]
    /\ \A y \in second[p] : x = y

(* What has been saved is remembered, a pair in both directions.            *)
Remembered(p) ==
  /\ \A s \in fetched[p] : memory[p][s] # Nothing
  /\ second[p] = {} => ("direct" \in fetched[p] <=> "reverse" \in fetched[p])
  /\ second[p] = {} /\ "direct" \in fetched[p] =>
       memory[p]["direct"] = memory[p]["reverse"]

(* What get() will unwrap is still to be asked for, owed, or in memory.     *)
Coming(p) ==
  \A s \in wanted[p] :
    \/ memory[p][s] # Nothing
    \/ pc[p] \in {"pass", "apply"} /\ Normal(s) \in plan[p]
    \/ \E x \in second[p] : x.symbol = s
    \/ pc[p] = "failed"

Kept(p) == Owed(p) /\ Remembered(p) /\ Coming(p)

IInv == TypeOK /\ \A p \in Proc : Kept(p)

-----------------------------------------------------------------------------
(* The symbols of a pair, and a quote.                                      *)
LEMMA Symbols ==
  /\ "direct" \in Symbol /\ "reverse" \in Symbol
  /\ \A s \in Pair : Opposite(s) \in Pair /\ Opposite(s) # s /\ Opposite(Opposite(s)) = s
  /\ \A s \in Symbol : Normal(s) \in Symbol \ {"reverse"}
  /\ \A s \in Stock : s \notin Pair
  BY QuotesAssumption DEF Symbol, Pair, Opposite, Normal

(* A quote is not the mark of an absent one.                               *)
LEMMA QuoteIsSomething ==
  ASSUME NEW quote \in Quote
  PROVE  quote # Nothing
  BY QuotesAssumption DEF Quote, Nothing

(* What the cache holds is a quote or nothing.                              *)
LEMMA CachedType ==
  ASSUME TypeOK, NEW p \in Proc, NEW s \in Symbol
  PROVE  Cached(p, s) \in Quote \cup {Nothing}
         /\ (memory[p][s] # Nothing => Cached(p, s) = memory[p][s])
  BY DEF TypeOK, Cached, Row, NoRow

(* A run that at most takes quotes from the database keeps what is known of *)
(* it.                                                                      *)
LEMMA Frame ==
  ASSUME TypeOK, NEW p \in Proc, Kept(p),
         \A s \in Symbol : memory[p][s] # Nothing => memory'[p][s] = memory[p][s],
         plan'[p] = plan[p], wanted'[p] = wanted[p],
         second'[p] = second[p], fetched'[p] = fetched[p], pc'[p] = pc[p]
  PROVE  Kept(p)'
<1>1. Owed(p)'
  <2> SUFFICES ASSUME NEW x \in second[p]
               PROVE  memory'[p][Opposite(x.symbol)] = x.quote
    BY DEF Kept, Owed
  <2>1. x \in Saved /\ x.quote # Nothing
    BY QuoteIsSomething DEF TypeOK, Saved
  <2>2. memory[p][Opposite(x.symbol)] = x.quote /\ Opposite(x.symbol) \in Symbol
    BY Symbols DEF Kept, Owed, Symbol
  <2> QED
    BY <2>1, <2>2
<1>2. Remembered(p)'
  BY Symbols DEF Kept, Remembered, TypeOK
<1>3. Coming(p)'
  BY DEF Kept, Coming, TypeOK
<1> QED
  BY <1>1, <1>2, <1>3 DEF Kept

(* Nothing is cached and nothing is asked at the start.                    *)
LEMMA InitHolds == Init => IInv
<1> SUFFICES ASSUME Init PROVE IInv
  OBVIOUS
<1>1. TypeOK
  BY QuotesAssumption DEF Init, TypeOK
<1>2. \A p \in Proc : Kept(p)
  BY DEF Init, Kept, Owed, Remembered, Coming
<1> QED
  BY <1>1, <1>2 DEF IInv

-----------------------------------------------------------------------------
(* Types.                                                                   *)

(* What a provider may return are known symbols.                            *)
LEMMA ReturnsSymbols ==
  ASSUME TypeOK, NEW p \in Proc, NEW q \in Provider,
         NEW returned \in Returns(q, PassPlan(p, q))
  PROVE  returned \subseteq Symbol
<1>1. PassPlan(p, q) \subseteq Symbol
  BY DEF PassPlan, TypeOK
<1> QED
  BY <1>1, Symbols DEF Returns, Symbol

(* Saving a quote writes memory, the table, the fetched symbols and the    *)
(* plan within their types.                                                *)
LEMMA SaveTypes ==
  ASSUME TypeOK, NEW p \in Proc, NEW s \in Symbol, NEW quote \in Quote, Save(p, s, quote)
  PROVE  /\ memory' \in [Proc -> [Symbol -> Quote \cup {Nothing}]]
         /\ db' \in [Symbol -> Row \cup {NoRow}]
         /\ fetched' \in [Proc -> SUBSET Symbol]
         /\ plan' \in [Proc -> SUBSET (Symbol \ {"reverse"})]
<1>1. [quote |-> quote, time |-> clock] \in Row
  BY DEF TypeOK, Row
<1>2. db' \in [Symbol -> Row \cup {NoRow}]
  BY <1>1 DEF Save, TypeOK
<1>3. memory' \in [Proc -> [Symbol -> Quote \cup {Nothing}]]
  BY DEF Save, Remember, TypeOK
<1> QED
  BY <1>2, <1>3 DEF Save, TypeOK

(* Asking for a quote, and starting the query plan, keep the types.        *)
LEMMA RequestTypes ==
  ASSUME TypeOK, NEW p \in Proc, NEW s \in Symbol, Batch(p, s) \/ Get(p, s) \/ Execute(p)
  PROVE  TypeOK'
<1>1. CASE Batch(p, s)
  <2>1. memory' \in [Proc -> [Symbol -> Quote \cup {Nothing}]]
    BY <1>1, CachedType DEF Batch, TypeOK
  <2>2. batched' \in [Proc -> SUBSET (Symbol \ {"reverse"})]
    BY <1>1, Symbols DEF Batch, TypeOK
  <2> QED
    BY <1>1, <2>1, <2>2 DEF Batch, TypeOK
<1>2. CASE Get(p, s)
  <2>1. batched[p] \cup {Normal(s)} \subseteq Symbol \ {"reverse"}
    BY Symbols DEF TypeOK
  <2> QED
    BY <1>2, <2>1 DEF Get, Start, TypeOK
<1>3. CASE Execute(p)
  BY <1>3 DEF Execute, Start, TypeOK
<1> QED
  BY <1>1, <1>2, <1>3

(* The answer of a provider keeps the types.                               *)
LEMMA DownloadTypes ==
  ASSUME TypeOK, NEW p \in Proc, NEW q \in Provider, Download(p, q)
  PROVE  TypeOK'
<1>1. PICK returned \in Returns(q, PassPlan(p, q)), failed \in Fails(q) :
        /\ answers' = [answers EXCEPT ![p] = @ \cup
             {[by |-> q, failed |-> failed,
               quotes |-> {[symbol |-> s, quote |-> [by |-> q, time |-> clock]] :
                             s \in returned}]}]
        /\ lacked' = [lacked EXCEPT ![p] = @ \cup
             {<<q, s>> : s \in {x \in PassPlan(p, q) :
                                  ~failed /\ \A y \in returned : Normal(y) # x}}]
  BY DEF Download
<1>2. PassPlan(p, q) \subseteq Symbol /\ returned \subseteq Symbol /\ failed \in BOOLEAN
  <2>1. PassPlan(p, q) \subseteq Symbol
    BY DEF PassPlan, TypeOK
  <2>2. failed \in BOOLEAN
    BY DEF Fails
  <2> QED
    BY <2>1, <2>2, ReturnsSymbols
<1>3. [by |-> q, time |-> clock] \in Quote
  BY DEF Quote, TypeOK
<1>4. {[symbol |-> s, quote |-> [by |-> q, time |-> clock]] : s \in returned} \subseteq Saved
  BY <1>2, <1>3 DEF Saved
<1>5. answers' \in [Proc -> SUBSET [by : Provider, failed : BOOLEAN, quotes : SUBSET Saved]]
  BY <1>1, <1>2, <1>4 DEF TypeOK
<1>6. lacked' \in [Proc -> SUBSET (Provider \X Symbol)]
  BY <1>1, <1>2 DEF TypeOK
<1>7. called' \in [Proc -> SUBSET (Provider \X Symbol)]
  BY <1>2 DEF Download, TypeOK
<1>8. pc' \in [Proc -> {"idle", "pass", "apply", "answer", "failed"}]
  BY DEF Download, TypeOK
<1> QED
  BY <1>5, <1>6, <1>7, <1>8 DEF Download, TypeOK

(* Saving what a provider answered keeps the types.                        *)
LEMMA SavingTypes ==
  ASSUME TypeOK, NEW p \in Proc, SaveReverse(p) \/ SavePair(p) \/ SaveStock(p)
  PROVE  TypeOK'
<1>1. PICK x \in saving[p] \cup second[p], s \in Symbol \cup Pair :
        Save(p, s, x.quote)
  BY Symbols DEF SaveReverse, SavePair, SaveStock, First, TypeOK, Saved
<1>2. x \in Saved /\ x.symbol \in Symbol /\ x.quote \in Quote
  BY DEF TypeOK, Saved
<1>3. s \in Symbol
  BY DEF Symbol
<1>4. /\ memory' \in [Proc -> [Symbol -> Quote \cup {Nothing}]]
      /\ db' \in [Symbol -> Row \cup {NoRow}]
      /\ fetched' \in [Proc -> SUBSET Symbol]
      /\ plan' \in [Proc -> SUBSET (Symbol \ {"reverse"})]
  BY <1>1, <1>2, <1>3, SaveTypes
<1>5. saving' \in [Proc -> SUBSET Saved] /\ second' \in [Proc -> SUBSET Saved]
  <2>1. CASE SaveReverse(p)
    BY <2>1 DEF SaveReverse, TypeOK
  <2>2. CASE SavePair(p)
    BY <2>2 DEF SavePair, TypeOK
  <2>3. CASE SaveStock(p)
    BY <2>3 DEF SaveStock, TypeOK
  <2> QED
    BY <2>1, <2>2, <2>3
<1>6. /\ clock' \in 0 .. MaxTime
      /\ batched' \in [Proc -> SUBSET (Symbol \ {"reverse"})]
      /\ wanted' \in [Proc -> SUBSET Symbol]
      /\ pass' \in [Proc -> Nat \ {0}]
      /\ answers' \in [Proc -> SUBSET [by : Provider, failed : BOOLEAN, quotes : SUBSET Saved]]
      /\ lacked' \in [Proc -> SUBSET (Provider \X Symbol)]
      /\ called' \in [Proc -> SUBSET (Provider \X Symbol)]
      /\ pc' \in [Proc -> {"idle", "pass", "apply", "answer", "failed"}]
  BY DEF SaveReverse, SavePair, SaveStock, TypeOK
<1> QED
  BY <1>4, <1>5, <1>6 DEF TypeOK

(* The remaining steps of a request keep the types.                        *)
LEMMA OtherTypes ==
  ASSUME TypeOK, NEW p \in Proc,
         Look(p) \/ PassEnds(p) \/ PlanEnds(p) \/ Answer(p) \/ Restart(p)
  PROVE  TypeOK'
<1>1. CASE Look(p)
  <2>1. saving' \in [Proc -> SUBSET Saved]
    BY <1>1 DEF Look, TypeOK
  <2>2. answers' \in [Proc -> SUBSET [by : Provider, failed : BOOLEAN, quotes : SUBSET Saved]]
    BY <1>1 DEF Look, TypeOK
  <2>3. pc' \in [Proc -> {"idle", "pass", "apply", "answer", "failed"}]
    BY <1>1 DEF Look, AfterAnswer, TypeOK
  <2> QED
    BY <1>1, <2>1, <2>2, <2>3 DEF Look, TypeOK
<1>2. CASE PassEnds(p)
  BY <1>2 DEF PassEnds, NextPass, TypeOK
<1>3. CASE PlanEnds(p)
  BY <1>3 DEF PlanEnds, TypeOK
<1>4. CASE Answer(p)
  <2>1. memory' \in [Proc -> [Symbol -> Quote \cup {Nothing}]]
    BY <1>4, CachedType DEF Answer, TypeOK
  <2> QED
    BY <1>4, <2>1 DEF Answer, TypeOK
<1>5. CASE Restart(p)
  BY <1>5 DEF Restart, TypeOK
<1> QED
  BY <1>1, <1>2, <1>3, <1>4, <1>5

(* Every step keeps the types.                                             *)
LEMMA NextTypes ==
  ASSUME TypeOK, [Next]_vars
  PROVE  TypeOK'
<1>1. CASE UNCHANGED vars
  BY <1>1 DEF vars, TypeOK
<1>2. CASE Tick
  BY <1>2, QuotesAssumption DEF Tick, TypeOK
<1>3. ASSUME NEW p \in Proc, NEW s \in Symbol, Batch(p, s) \/ Get(p, s)
      PROVE  TypeOK'
  BY <1>3, RequestTypes
<1>4. ASSUME NEW p \in Proc, Execute(p)
      PROVE  TypeOK'
  BY <1>4, RequestTypes, Symbols
<1>5. ASSUME NEW p \in Proc, Work(p)
      PROVE  TypeOK'
  BY <1>5, DownloadTypes, SavingTypes, OtherTypes DEF Work
<1>6. ASSUME NEW p \in Proc, Restart(p)
      PROVE  TypeOK'
  BY <1>6, OtherTypes
<1> QED
  BY <1>1, <1>2, <1>3, <1>4, <1>5, <1>6 DEF Next

-----------------------------------------------------------------------------
(* Requests.                                                                *)
LEMMA BatchKeeps ==
  ASSUME IInv, NEW p \in Proc, NEW s \in Symbol, Batch(p, s), NEW q \in Proc
  PROVE  Kept(q)'
<1> USE DEF IInv
<1>1. \A t \in Symbol : memory[q][t] # Nothing => memory'[q][t] = memory[q][t]
  BY CachedType DEF Batch, TypeOK
<1> QED
  BY <1>1, Frame DEF Batch

(* Starting a request keeps what every process knows of the table.         *)
LEMMA StartKeeps ==
  ASSUME IInv, NEW p \in Proc, NEW s \in Symbol, Get(p, s) \/ Execute(p), NEW q \in Proc
  PROVE  Kept(q)'
<1> USE DEF IInv
<1>1. memory' = memory /\ second' = second /\ fetched' = fetched /\ pc[p] = "idle"
  BY DEF Get, Execute
<1>2. CASE q # p
  BY <1>1, <1>2, Frame DEF Get, Execute, Start, TypeOK
<1>3. CASE q = p
  <2>1. second[p] = {} /\ pc'[p] = "pass"
    BY <1>1 DEF Kept, Owed, Get, Execute, Start, TypeOK
  <2>2. \A t \in wanted'[p] : Normal(t) \in plan'[p]
    BY DEF Get, Execute, Start, TypeOK
  <2> QED
    BY <1>1, <1>3, <2>1, <2>2 DEF Kept, Owed, Remembered, Coming
<1> QED
  BY <1>2, <1>3

-----------------------------------------------------------------------------
(* The passes.                                                              *)

(* No direction is owed outside "apply", nor when the guard says so.        *)
LEMMA PassKeeps ==
  ASSUME IInv, NEW p \in Proc,
         (\E r \in Provider : Download(p, r)) \/ Look(p) \/ PassEnds(p) \/ PlanEnds(p),
         NEW q \in Proc
  PROVE  Kept(q)'
<1> USE DEF IInv
<1>1. /\ memory' = memory /\ second' = second /\ fetched' = fetched
      /\ plan' = plan /\ wanted' = wanted
  BY DEF Download, Look, PassEnds, PlanEnds
<1>2. CASE q # p
  <2>1. pc'[q] = pc[q]
    BY <1>2 DEF Download, Look, PassEnds, PlanEnds, TypeOK
  <2> QED
    BY <1>1, <2>1, Frame
<1>3. CASE q = p
  <2>1. second[p] = {}
    BY DEF Kept, Owed, Download, Look, PassEnds, PlanEnds
  <2>2. CASE PlanEnds(p)
    <3>1. pc'[p] = IF plan[p] # {} THEN "failed"
                   ELSE IF wanted[p] # {} THEN "answer" ELSE "idle"
      BY <2>2 DEF PlanEnds, TypeOK
    <3>2. pc[p] = "pass"
      BY <2>2 DEF PlanEnds
    <3>3. Coming(p)'
      BY <1>1, <2>1, <3>1, <3>2 DEF Kept, Coming
    <3> QED
      BY <1>1, <1>3, <2>1, <3>3 DEF Kept, Owed, Remembered
  <2>3. CASE (\E r \in Provider : Download(p, r)) \/ Look(p) \/ PassEnds(p)
    <3>1. pc[p] \in {"pass", "apply"} /\ pc'[p] \in {"pass", "apply", "failed"}
      BY <2>3 DEF Download, Look, AfterAnswer, PassEnds, TypeOK
    <3>2. Coming(p)'
      BY <1>1, <2>1, <3>1 DEF Kept, Coming
    <3> QED
      BY <1>1, <1>3, <2>1, <3>2 DEF Kept, Owed, Remembered
  <2> QED
    BY <2>2, <2>3
<1> QED
  BY <1>2, <1>3

-----------------------------------------------------------------------------
(* Saving.                                                                  *)
LEMMA SaveReverseKeeps ==
  ASSUME IInv, NEW p \in Proc, SaveReverse(p), NEW q \in Proc
  PROVE  Kept(q)'
<1> USE DEF IInv
<1>1. PICK x \in saving[p] :
        /\ x.symbol \in Pair /\ Save(p, Opposite(x.symbol), x.quote)
        /\ second' = [second EXCEPT ![p] = {x}]
  BY DEF SaveReverse, First
<1> DEFINE o == Opposite(x.symbol)
<1>2. x \in Saved /\ x.quote # Nothing /\ o \in Pair /\ o \in Symbol
  BY <1>1, QuoteIsSomething, Symbols DEF TypeOK, Saved, Symbol
<1>3. pc[p] = "apply" /\ second[p] = {} /\ pc' = pc /\ wanted' = wanted
  BY DEF SaveReverse
<1>4. CASE q # p
  BY <1>1, <1>3, <1>4, Frame DEF Save, Remember, TypeOK
<1>5. CASE q = p
  <2>1. /\ memory'[p][o] = x.quote
        /\ \A t \in Symbol : t # o => memory'[p][t] = memory[p][t]
        /\ fetched'[p] = fetched[p] \cup {o}
        /\ plan'[p] = plan[p] \ {o}
        /\ second'[p] = {x}
    BY <1>1, <1>2 DEF Save, Remember, TypeOK
  <2> HIDE DEF o
  <2>2. Owed(p)'
    BY <1>1, <1>3, <2>1 DEF Owed, o
  <2>3. Remembered(p)'
    BY <1>2, <2>1 DEF Kept, Remembered, TypeOK
  <2>4. Coming(p)'
    <3> SUFFICES ASSUME NEW s \in wanted[p]
                 PROVE  \/ memory'[p][s] # Nothing
                        \/ Normal(s) \in plan'[p]
                        \/ x.symbol = s
      BY <1>3, <2>1 DEF Coming
    <3>1. s \in Symbol
      BY DEF TypeOK
    <3>2. memory[p][s] # Nothing \/ Normal(s) \in plan[p]
      BY <1>3 DEF Kept, Coming
    <3>3. Normal(s) = o => s = o \/ s = x.symbol
      BY <1>1 DEF Normal, Opposite, Pair, o
    <3> QED
      BY <1>2, <2>1, <3>1, <3>2, <3>3
  <2> QED
    BY <1>5, <2>2, <2>3, <2>4 DEF Kept
<1> QED
  BY <1>4, <1>5

(* Saving a currency pair keeps it: the reverse pair is saved with the     *)
(* reverse rate.                                                           *)
LEMMA SavePairKeeps ==
  ASSUME IInv, NEW p \in Proc, SavePair(p), NEW q \in Proc
  PROVE  Kept(q)'
<1> USE DEF IInv
<1>1. PICK x \in second[p] : Save(p, x.symbol, x.quote)
  BY DEF SavePair
<1> DEFINE o == Opposite(x.symbol)
<1>2. x \in Saved /\ x.quote # Nothing /\ x.symbol \in Symbol
  BY QuoteIsSomething DEF TypeOK, Saved
<1>3. /\ x.symbol \in Pair /\ o \in Pair /\ o # x.symbol /\ o \in Symbol
      /\ memory[p][o] = x.quote /\ o \in fetched[p]
      /\ \A y \in second[p] : y = x
  BY Symbols DEF Kept, Owed, Symbol
<1>4. /\ pc[p] = "apply" /\ pc' = pc /\ wanted' = wanted
      /\ second' = [second EXCEPT ![p] = {}]
  BY DEF SavePair
<1>5. CASE q # p
  BY <1>1, <1>4, <1>5, Frame DEF Save, Remember, TypeOK
<1>6. CASE q = p
  <2>1. /\ memory'[p][x.symbol] = x.quote
        /\ \A t \in Symbol : t # x.symbol => memory'[p][t] = memory[p][t]
        /\ fetched'[p] = fetched[p] \cup {x.symbol}
        /\ plan'[p] = plan[p] \ {x.symbol}
        /\ second'[p] = {}
    BY <1>1, <1>2, <1>4 DEF Save, Remember, TypeOK
  <2>2. memory'[p][o] = x.quote /\ {o, x.symbol} = Pair
    BY <1>3, <2>1 DEF Opposite, Pair
  <2> HIDE DEF o
  <2>3. Owed(p)'
    BY <2>1 DEF Owed
  <2>4. Remembered(p)'
    <3>1. \A s \in fetched'[p] : memory'[p][s] # Nothing
      BY <1>2, <2>1 DEF Kept, Remembered, TypeOK
    <3>2. Pair \subseteq fetched'[p] /\ \A s \in Pair : memory'[p][s] = x.quote
      BY <1>3, <2>1, <2>2
    <3> QED
      BY <3>1, <3>2 DEF Remembered, Pair
  <2>5. Coming(p)'
    <3> SUFFICES ASSUME NEW s \in wanted[p]
                 PROVE  memory'[p][s] # Nothing \/ Normal(s) \in plan'[p]
      BY <1>4 DEF Coming
    <3>1. s \in Symbol
      BY DEF TypeOK
    <3>2. memory[p][s] # Nothing \/ Normal(s) \in plan[p] \/ s = x.symbol
      BY <1>3, <1>4 DEF Kept, Coming
    <3>3. Normal(s) = x.symbol => s \in Pair
      BY <1>3 DEF Normal, Pair
    <3> QED
      BY <1>2, <2>1, <2>2, <3>1, <3>2, <3>3
  <2> QED
    BY <1>6, <2>3, <2>4, <2>5 DEF Kept
<1> QED
  BY <1>5, <1>6

(* Saving the quote of a stock keeps it, for the process that saves and    *)
(* for every other.                                                        *)
LEMMA SaveStockKeeps ==
  ASSUME IInv, NEW p \in Proc, SaveStock(p), NEW q \in Proc
  PROVE  Kept(q)'
<1> USE DEF IInv
<1>1. PICK x \in saving[p] : x.symbol \in Stock /\ Save(p, x.symbol, x.quote)
  BY DEF SaveStock
<1>2. /\ x \in Saved /\ x.quote # Nothing /\ x.symbol \in Symbol
      /\ x.symbol # "direct" /\ x.symbol # "reverse"
  BY <1>1, QuoteIsSomething, Symbols DEF TypeOK, Saved, Pair
<1>3. /\ pc[p] = "apply" /\ second[p] = {} /\ pc' = pc /\ wanted' = wanted
      /\ second' = second
  BY DEF SaveStock
<1>4. CASE q # p
  BY <1>1, <1>3, <1>4, Frame DEF Save, Remember, TypeOK
<1>5. CASE q = p
  <2>1. /\ memory'[p][x.symbol] = x.quote
        /\ \A t \in Symbol : t # x.symbol => memory'[p][t] = memory[p][t]
        /\ fetched'[p] = fetched[p] \cup {x.symbol}
        /\ plan'[p] = plan[p] \ {x.symbol}
    BY <1>1, <1>2 DEF Save, Remember, TypeOK
  <2>2. Owed(p)'
    BY <1>3 DEF Owed
  <2>3. Remembered(p)'
    <3>1. \A s \in fetched'[p] : memory'[p][s] # Nothing
      BY <1>2, <2>1 DEF Kept, Remembered, TypeOK
    <3> QED
      BY <1>2, <1>3, <2>1, <3>1, Symbols DEF Kept, Remembered
  <2>4. Coming(p)'
    <3> SUFFICES ASSUME NEW s \in wanted[p]
                 PROVE  memory'[p][s] # Nothing \/ Normal(s) \in plan'[p]
      BY <1>3 DEF Coming
    <3>1. s \in Symbol
      BY DEF TypeOK
    <3>2. memory[p][s] # Nothing \/ Normal(s) \in plan[p]
      BY <1>3 DEF Kept, Coming
    <3>3. Normal(s) = x.symbol => s = x.symbol
      BY <1>2 DEF Normal
    <3> QED
      BY <1>2, <2>1, <3>1, <3>2, <3>3
  <2> QED
    BY <1>5, <2>2, <2>3, <2>4 DEF Kept
<1> QED
  BY <1>4, <1>5

-----------------------------------------------------------------------------
(* The end of a request and of a run.                                       *)
LEMMA EndKeeps ==
  ASSUME IInv, NEW p \in Proc, Answer(p) \/ Restart(p), NEW q \in Proc
  PROVE  Kept(q)'
<1> USE DEF IInv
<1>1. CASE q # p
  BY <1>1, Frame DEF Answer, Restart, TypeOK
<1>2. CASE q = p /\ Answer(p)
  <2>1. PICK s \in wanted[p] : memory' = [memory EXCEPT ![p][s] = Cached(p, s)]
    BY <1>2 DEF Answer
  <2>2. s \in Symbol
    BY DEF TypeOK
  <2>3. \A t \in Symbol : memory[p][t] # Nothing => memory'[p][t] = memory[p][t]
    BY <2>1, <2>2, CachedType DEF TypeOK
  <2>4. /\ second[p] = {} /\ second' = second /\ fetched' = fetched
        /\ wanted'[p] = {}
    BY <1>2 DEF Answer, Kept, Owed, TypeOK
  <2>5. Remembered(p)'
    BY <2>3, <2>4, Symbols DEF Kept, Remembered, TypeOK
  <2> QED
    BY <1>2, <2>4, <2>5 DEF Kept, Owed, Coming
<1>3. CASE q = p /\ Restart(p)
  BY <1>3 DEF Restart, Kept, Owed, Remembered, Coming, TypeOK
<1> QED
  BY <1>1, <1>2, <1>3

(* Every step keeps it.                                                    *)
LEMMA NextKeeps ==
  ASSUME IInv, [Next]_vars, NEW q \in Proc
  PROVE  Kept(q)'
<1>1. CASE UNCHANGED vars \/ Tick
  BY <1>1, Frame DEF vars, Tick, IInv
<1>2. ASSUME NEW p \in Proc, NEW s \in Symbol, Batch(p, s) \/ Get(p, s)
      PROVE  Kept(q)'
  BY <1>2, BatchKeeps, StartKeeps
<1>3. ASSUME NEW p \in Proc, Execute(p)
      PROVE  Kept(q)'
  BY <1>3, StartKeeps, Symbols
<1>4. ASSUME NEW p \in Proc, Work(p)
      PROVE  Kept(q)'
  <2>1. CASE \E r \in Provider : Download(p, r)
    BY <2>1, PassKeeps
  <2>2. CASE Look(p) \/ PassEnds(p) \/ PlanEnds(p)
    BY <2>2, PassKeeps
  <2>3. CASE SaveReverse(p) \/ SavePair(p) \/ SaveStock(p)
    BY <2>3, SaveReverseKeeps, SavePairKeeps, SaveStockKeeps
  <2>4. CASE Answer(p)
    BY <2>4, EndKeeps
  <2> QED
    BY <1>4, <2>1, <2>2, <2>3, <2>4 DEF Work
<1>5. ASSUME NEW p \in Proc, Restart(p)
      PROVE  Kept(q)'
  BY <1>5, EndKeeps
<1> QED
  BY <1>1, <1>2, <1>3, <1>4, <1>5 DEF Next

(* The inductive invariant holds in every reachable state.                 *)
LEMMA Inductive == Spec => []IInv
<1>1. IInv /\ [Next]_vars => IInv'
  BY NextTypes, NextKeeps DEF IInv
<1> QED
  BY <1>1, InitHolds, PTL DEF Spec

-----------------------------------------------------------------------------
(* The order in which providers are asked.                                  *)

(* The provider of this pass has been asked for a symbol.                   *)
AskedNow(p, s) ==
  /\ pass[p] <= Len(Route[s])
  /\ pc[p] = "pass" => Route[s][pass[p]] \in Answered(p)

(* What became of it: it was lacked, or its quote is on its way, or the     *)
(* program is about to fail.                                                *)
OnItsWay(p, s) ==
  \/ \E answer \in answers[p] :
       /\ answer.by = Route[s][pass[p]]
       /\ answer.failed \/ \E x \in answer.quotes : Normal(x.symbol) = s
  \/ \E x \in saving[p] \cup second[p] : Normal(x.symbol) = s

Dealt(p, s) == <<Route[s][pass[p]], s>> \in lacked[p] \/ OnItsWay(p, s)

AskedBefore(p, s, q) ==
  \E j \in 1 .. pass[p] - 1 : j <= Len(Route[s]) /\ Route[s][j] = q

(* Who was asked for a symbol and who lacked it, by its place in the plan.  *)
InOrder(p) ==
  pc[p] \in {"pass", "apply"} =>
    \A s \in plan[p] :
      /\ \A j \in 1 .. pass[p] - 1 : j <= Len(Route[s]) => <<Route[s][j], s>> \in lacked[p]
      /\ AskedNow(p, s) => Dealt(p, s)
      /\ \A q \in Provider : <<q, s>> \in called[p] =>
           \/ AskedBefore(p, s, q)
           \/ AskedNow(p, s) /\ Route[s][pass[p]] = q

(* Every quote was earned, those on their way included.                     *)
EarnedQuotes(p, quotes) == \A x \in quotes : Earned(p, Normal(x.symbol), x.quote.by)

Rightful(p) ==
  /\ \A answer \in answers[p] : EarnedQuotes(p, answer.quotes)
  /\ EarnedQuotes(p, saving[p] \cup second[p])
  /\ \A s \in fetched[p] : Earned(p, Normal(s), memory[p][s].by)

(* Nothing is planned that is known, nothing was asked for that is neither, *)
(* and nothing is left over from a plan that has ended.                     *)
Tidy(p) ==
  /\ batched[p] # {} => pc[p] = "idle"
  /\ (batched[p] \cup plan[p]) \cap fetched[p] = {}
  /\ \A q \in Provider, s \in Symbol :
       <<q, s>> \in called[p] => s \in plan[p] \/ s \in fetched[p]
  /\ pc[p] \in {"idle", "answer"} => plan[p] = {} /\ answers[p] = {}
  /\ pc[p] \in {"idle", "pass", "answer"} => saving[p] = {} /\ second[p] = {}
  /\ pc[p] = "pass" => Answered(p) \subseteq Called(p)

Routed(p) == InOrder(p) /\ Rightful(p) /\ Tidy(p)

RInv == IInv /\ \A p \in Proc : Routed(p)

(* What was earned stays so while the list of those who lacked grows.       *)
LEMMA StillEarned ==
  ASSUME NEW p \in Proc, lacked[p] \subseteq lacked'[p],
         NEW s, NEW q, Earned(p, s, q)
  PROVE  Earned(p, s, q)'
  BY DEF Earned

(* A run none of whose own variables changes; quotes that it remembers may  *)
(* not be replaced.                                                         *)
LEMMA RoutedFrame ==
  ASSUME RInv, NEW p \in Proc,
         \A s \in Symbol : memory[p][s] # Nothing => memory'[p][s] = memory[p][s],
         batched'[p] = batched[p], plan'[p] = plan[p], pass'[p] = pass[p],
         answers'[p] = answers[p], saving'[p] = saving[p], second'[p] = second[p],
         lacked'[p] = lacked[p], called'[p] = called[p], fetched'[p] = fetched[p],
         pc'[p] = pc[p]
  PROVE  Routed(p)'
<1> USE DEF RInv
<1>1. \A s \in fetched[p] : memory'[p][s] = memory[p][s]
  BY DEF IInv, Kept, Remembered, TypeOK
<1>2. InOrder(p)'
  <2>1. Answered(p)' = Answered(p)
    BY DEF Answered
  <2>2. ASSUME NEW s
        PROVE  /\ AskedNow(p, s)' <=> AskedNow(p, s)
               /\ Dealt(p, s)' <=> Dealt(p, s)
    BY <2>1 DEF AskedNow, Dealt, OnItsWay
  <2>3. ASSUME NEW s, NEW q
        PROVE  AskedBefore(p, s, q)' <=> AskedBefore(p, s, q)
    BY DEF AskedBefore
  <2>4. /\ pc[p] \in {"pass", "apply"} <=> pc'[p] \in {"pass", "apply"}
        /\ InOrder(p)
    BY DEF Routed
  <2> HIDE DEF RInv
  <2> QED
    BY <2>2, <2>3, <2>4 DEF InOrder
<1>3. Rightful(p)'
  <2>1. ASSUME NEW s, NEW q
        PROVE  Earned(p, s, q)' <=> Earned(p, s, q)
    BY DEF Earned
  <2>2. ASSUME NEW quotes
        PROVE  EarnedQuotes(p, quotes)' <=> EarnedQuotes(p, quotes)
    BY <2>1 DEF EarnedQuotes
  <2>3. Rightful(p)
    BY DEF Routed
  <2> HIDE DEF RInv
  <2> QED
    BY <1>1, <2>1, <2>2, <2>3 DEF Rightful
<1>4. Tidy(p)'
  BY DEF Routed, Tidy, Answered, Called, PassPlan
<1> QED
  BY <1>2, <1>3, <1>4 DEF Routed

(* The direction owed is that of the pair, and a pair is planned as such.   *)
LEMMA FetchedNormal ==
  ASSUME IInv, NEW p \in Proc, second[p] = {}, NEW s \in Symbol, Normal(s) \in fetched[p]
  PROVE  memory[p][s] # Nothing
  BY DEF IInv, Kept, Remembered, Normal, TypeOK

(* Batching a symbol starts no pass: what was asked of the providers       *)
(* stays as it was.                                                        *)
LEMMA BatchRoutes ==
  ASSUME RInv, NEW p \in Proc, NEW s \in Symbol, Batch(p, s), NEW q \in Proc
  PROVE  Routed(q)'
<1> USE DEF RInv
<1>1. \A r \in Proc, t \in Symbol :
         memory[r][t] # Nothing => memory'[r][t] = memory[r][t]
  BY CachedType DEF Batch, IInv, TypeOK
<1>2. CASE q # p
  BY <1>1, <1>2, RoutedFrame DEF Batch, IInv, TypeOK
<1>3. CASE q = p
  <2>1. /\ pc[p] = "idle" /\ second[p] = {} /\ plan[p] = {}
        /\ batched'[p] = batched[p] \cup IF Cached(p, s) = Nothing THEN {Normal(s)} ELSE {}
    BY DEF Batch, IInv, TypeOK, Routed, Tidy
  <2>2. Cached(p, s) = Nothing => Normal(s) \notin fetched[p]
    BY <2>1, FetchedNormal, CachedType DEF IInv
  <2>3. Tidy(p)'
    BY <2>1, <2>2 DEF Batch, Routed, Tidy, Answered, Called, PassPlan
  <2>4. \A t \in fetched[p] : memory'[p][t] = memory[p][t]
    BY <1>1 DEF IInv, Kept, Remembered, TypeOK
  <2>5. Rightful(p)'
    BY <2>4 DEF Batch, Routed, Rightful, EarnedQuotes, Earned
  <2> QED
    BY <1>3, <2>1, <2>3, <2>5 DEF Batch, Routed, InOrder
<1> QED
  BY <1>2, <1>3

(* Starting a plan routes every batched symbol and asks no provider yet.   *)
LEMMA StartRoutes ==
  ASSUME RInv, NEW p \in Proc, NEW s \in Symbol, Get(p, s) \/ Execute(p), NEW q \in Proc
  PROVE  Routed(q)'
<1> USE DEF RInv
<1>1. /\ pc[p] = "idle"
      /\ UNCHANGED <<memory, answers, saving, second, lacked, called, fetched>>
  BY DEF Get, Execute
<1>2. PICK symbols \in {batched[p], batched[p] \cup {Normal(s)}} :
        /\ Start(p, symbols)
        /\ symbols # batched[p] => Cached(p, s) = Nothing
  BY DEF Get, Execute
<1>3. CASE q # p
  BY <1>1, <1>2, <1>3, RoutedFrame DEF Start, IInv, TypeOK
<1>4. CASE q = p
  <2>1. second[p] = {} /\ saving[p] = {} /\ answers[p] = {} /\ plan[p] = {}
    BY <1>1 DEF Routed, Tidy
  <2>2. symbols \cap fetched[p] = {}
    <3>1. CASE symbols = batched[p]
      BY <3>1 DEF Routed, Tidy
    <3>2. CASE symbols # batched[p]
      BY <1>2, <3>2, <2>1, FetchedNormal, CachedType DEF IInv, Routed, Tidy
    <3> QED
      BY <3>1, <3>2
  <2>3. plan'[p] = symbols /\ batched'[p] = {} /\ pass'[p] = 1 /\ pc'[p] = "pass"
    BY <1>2 DEF Start, IInv, TypeOK
  <2>4. Answered(p)' = {}
    BY <1>1, <2>1 DEF Answered
  <2>5. \A t \in symbols, r \in Provider : <<r, t>> \notin called[p]
    <3>1. symbols \subseteq Symbol
      BY Symbols DEF IInv, TypeOK
    <3> QED
      BY <3>1, <2>1, <2>2 DEF Routed, Tidy
  <2>6. InOrder(p)'
    BY <1>1, <2>3, <2>4, <2>5 DEF InOrder, AskedNow
  <2>7. Rightful(p)'
    BY <1>1 DEF Routed, Rightful, EarnedQuotes, Earned
  <2>8. Tidy(p)'
    BY <1>1, <2>1, <2>2, <2>3, <2>4 DEF Routed, Tidy
  <2> QED
    BY <1>4, <2>6, <2>7, <2>8 DEF Routed
<1> QED
  BY <1>3, <1>4

-----------------------------------------------------------------------------
(* What a provider returns was asked for, though maybe in the other         *)
(* direction.                                                               *)
LEMMA ReturnsWhatIsAsked ==
  ASSUME TypeOK, NEW p \in Proc, NEW q \in Provider,
         NEW returned \in Returns(q, PassPlan(p, q)), NEW y \in returned
  PROVE  Normal(y) \in PassPlan(p, q)
<1>1. \A s \in PassPlan(p, q) : s # "reverse"
  BY DEF PassPlan, TypeOK
<1> QED
  BY <1>1 DEF Returns, Normal, Opposite, Pair

(* Those asked in this pass answer one after another.                       *)
LEMMA DownloadRoutes ==
  ASSUME RInv, NEW p \in Proc, NEW q \in Provider, Download(p, q), NEW r \in Proc
  PROVE  Routed(r)'
<1> USE DEF RInv
<1>1. CASE r # p
  BY <1>1, RoutedFrame DEF Download, IInv, TypeOK
<1>2. CASE r = p
  <2>1. PICK returned \in Returns(q, PassPlan(p, q)), failed \in Fails(q) :
          /\ answers' = [answers EXCEPT ![p] = @ \cup
               {[by |-> q, failed |-> failed,
                 quotes |-> {[symbol |-> s, quote |-> [by |-> q, time |-> clock]] :
                               s \in returned}]}]
          /\ lacked' = [lacked EXCEPT ![p] = @ \cup
               {<<q, s>> : s \in {x \in PassPlan(p, q) :
                                    ~failed /\ \A y \in returned : Normal(y) # x}}]
    BY DEF Download
  <2> DEFINE quotes == {[symbol |-> s, quote |-> [by |-> q, time |-> clock]] : s \in returned}
             answer == [by |-> q, failed |-> failed, quotes |-> quotes]
  <2>2. /\ answers'[p] = answers[p] \cup {answer}
        /\ lacked[p] \subseteq lacked'[p]
        /\ \A s \in PassPlan(p, q) :
             ~failed /\ (\A y \in returned : Normal(y) # s) => <<q, s>> \in lacked'[p]
    BY <2>1 DEF IInv, TypeOK
  <2>3. /\ pc[p] = "pass" /\ q \in Called(p) \ Answered(p)
        /\ pc'[p] = IF AllAnswered(p, q) THEN "apply" ELSE "pass"
        /\ called'[p] = called[p] \cup {<<q, s>> : s \in PassPlan(p, q)}
        /\ UNCHANGED <<memory, batched, plan, pass, saving, second, fetched>>
    BY DEF Download, IInv, TypeOK
  <2>4. Answered(p)' = Answered(p) \cup {q}
    <3>1. answer.by = q
      OBVIOUS
    <3> HIDE DEF answer
    <3> QED
      BY <2>2, <3>1 DEF Answered
  <2>5. \A y \in returned : Normal(y) \in PassPlan(p, q)
    BY ReturnsWhatIsAsked DEF IInv
  <2>6. \A s \in PassPlan(p, q) :
          /\ s \in plan[p] /\ pass[p] <= Len(Route[s]) /\ Route[s][pass[p]] = q
          /\ s \in Symbol
    BY DEF PassPlan, IInv, TypeOK
  <2>7. \A s \in PassPlan(p, q) : Dealt(p, s)'
    <3> SUFFICES ASSUME NEW s \in PassPlan(p, q), ~failed,
                        NEW y \in returned, Normal(y) = s
                 PROVE  \E x \in quotes : Normal(x.symbol) = s
      <4>1. answer.by = q /\ answer.failed = failed /\ answer.quotes = quotes
        OBVIOUS
      <4> HIDE DEF answer, quotes
      <4> QED
        BY <2>2, <2>3, <2>6, <4>1 DEF Dealt, OnItsWay
    <3> DEFINE x == [symbol |-> y, quote |-> [by |-> q, time |-> clock]]
    <3>1. x \in quotes /\ Normal(x.symbol) = s
      OBVIOUS
    <3> QED
      BY <3>1
  <2>8. InOrder(p)'
    <3> SUFFICES ASSUME NEW s \in plan[p]
                 PROVE  /\ \A j \in 1 .. pass[p] - 1 :
                             j <= Len(Route[s]) => <<Route[s][j], s>> \in lacked'[p]
                        /\ AskedNow(p, s)' => Dealt(p, s)'
                        /\ \A a \in Provider : <<a, s>> \in called'[p] =>
                             \/ AskedBefore(p, s, a)
                             \/ AskedNow(p, s)' /\ Route[s][pass[p]] = a
      BY <2>3 DEF InOrder, AskedBefore
    <3>1. /\ \A j \in 1 .. pass[p] - 1 : j <= Len(Route[s]) => <<Route[s][j], s>> \in lacked[p]
          /\ AskedNow(p, s) => Dealt(p, s)
          /\ \A a \in Provider : <<a, s>> \in called[p] =>
               \/ AskedBefore(p, s, a)
               \/ AskedNow(p, s) /\ Route[s][pass[p]] = a
      BY <2>3 DEF Routed, InOrder
    <3>2. Dealt(p, s) => Dealt(p, s)'
      BY <2>2, <2>3 DEF Dealt, OnItsWay
    <3>3. AskedNow(p, s)' => AskedNow(p, s) \/ s \in PassPlan(p, q)
      <4> SUFFICES ASSUME pass[p] <= Len(Route[s]),
                          pc'[p] = "pass" => Route[s][pass[p]] \in Answered(p)',
                          Route[s][pass[p]] # q
                   PROVE  Route[s][pass[p]] \in Answered(p)
        BY <2>3 DEF AskedNow, PassPlan
      <4>1. CASE pc'[p] = "pass"
        BY <4>1, <2>4
      <4>2. CASE pc'[p] # "pass"
        <5>1. Called(p) = Answered(p) \cup {q}
          BY <4>2, <2>3 DEF AllAnswered
        <5>2. Route[s][pass[p]] \in Provider
          BY QuotesAssumption DEF IInv, TypeOK
        <5>3. s \in PassPlan(p, Route[s][pass[p]])
          BY DEF PassPlan
        <5> QED
          BY <5>1, <5>2, <5>3 DEF Called
      <4> QED
        BY <4>1, <4>2
    <3>4. AskedNow(p, s) \/ s \in PassPlan(p, q) => AskedNow(p, s)'
      BY <2>3, <2>4, <2>6 DEF AskedNow
    <3>5. \A a \in Provider : <<a, s>> \in called'[p] =>
             <<a, s>> \in called[p] \/ (s \in PassPlan(p, q) /\ a = q)
      BY <2>3
    <3> QED
      BY <2>2, <2>6, <2>7, <3>1, <3>2, <3>3, <3>4, <3>5
  <2>9. Rightful(p)'
    <3>1. \A s \in PassPlan(p, q) : Earned(p, s, q)'
      <4> SUFFICES ASSUME NEW s \in PassPlan(p, q)
                   PROVE  Earned(p, s, q)
        BY <2>2, StillEarned
      <4>1. pass[p] \in Nat \ {0} /\ Len(Route[s]) \in Nat
        BY <2>6, QuotesAssumption DEF IInv, TypeOK
      <4>2. \A j \in 1 .. pass[p] - 1 : <<Route[s][j], s>> \in lacked[p]
        BY <2>3, <2>6, <4>1 DEF Routed, InOrder
      <4> QED
        BY <2>6, <4>1, <4>2 DEF Earned
    <3>2. \A x \in quotes : Earned(p, Normal(x.symbol), x.quote.by)'
      BY <3>1, <2>5
    <3>3. \A a \in answers[p] : EarnedQuotes(p, a.quotes)'
      BY <2>2, StillEarned DEF Routed, Rightful, EarnedQuotes
    <3>4. EarnedQuotes(p, saving[p] \cup second[p])'
      BY <2>2, <2>3, StillEarned DEF Routed, Rightful, EarnedQuotes
    <3>5. \A s \in fetched[p] : Earned(p, Normal(s), memory[p][s].by)'
      BY <2>2, <2>3, StillEarned DEF Routed, Rightful
    <3>6. answer.quotes = quotes
      OBVIOUS
    <3> HIDE DEF answer, quotes
    <3>7. \A a \in answers'[p] : EarnedQuotes(p, a.quotes)'
      BY <2>2, <3>2, <3>3, <3>6 DEF EarnedQuotes
    <3> QED
      BY <2>3, <3>4, <3>5, <3>7 DEF Rightful, EarnedQuotes
  <2>10. Tidy(p)'
    <3>1. Called(p)' = Called(p)
      BY <2>3 DEF Called, PassPlan
    <3>2. \A a \in Provider, s \in Symbol : <<a, s>> \in called'[p] =>
             <<a, s>> \in called[p] \/ s \in plan[p]
      BY <2>3, <2>6
    <3> QED
      BY <2>3, <2>4, <3>1, <3>2 DEF Routed, Tidy
  <2> QED
    BY <1>2, <2>8, <2>9, <2>10 DEF Routed
<1> QED
  BY <1>1, <1>2

(* An answer is looked at; after a failure nothing more happens.            *)
LEMMA LookRoutes ==
  ASSUME RInv, NEW p \in Proc, Look(p), NEW r \in Proc
  PROVE  Routed(r)'
<1> USE DEF RInv
<1>1. CASE r # p
  BY <1>1, RoutedFrame DEF Look, IInv, TypeOK
<1>2. CASE r = p
  <2>1. PICK answer \in answers[p] :
          /\ answers' = [answers EXCEPT ![p] = @ \ {answer}]
          /\ saving' = [saving EXCEPT ![p] = answer.quotes]
          /\ pc' = [pc EXCEPT ![p] = AfterAnswer(p, answer)]
    BY DEF Look
  <2>2. /\ answers'[p] = answers[p] \ {answer} /\ saving'[p] = answer.quotes
        /\ pc'[p] = IF answer.failed THEN "failed" ELSE "apply"
    BY <2>1 DEF AfterAnswer, IInv, TypeOK
  <2>3. /\ pc[p] = "apply" /\ saving[p] = {} /\ second[p] = {}
        /\ UNCHANGED <<memory, batched, plan, pass, second, lacked, called, fetched>>
    BY DEF Look
  <2>4. InOrder(p)'
    <3> SUFFICES ASSUME ~answer.failed, NEW s \in plan[p], Dealt(p, s)
                 PROVE  Dealt(p, s)'
      BY <2>2, <2>3 DEF Routed, InOrder, AskedNow, AskedBefore
    <3> QED
      BY <2>2, <2>3 DEF Dealt, OnItsWay
  <2>5. Rightful(p)'
    BY <2>2, <2>3 DEF Routed, Rightful, EarnedQuotes, Earned
  <2>6. Tidy(p)'
    BY <2>2, <2>3 DEF Routed, Tidy
  <2> QED
    BY <1>2, <2>4, <2>5, <2>6 DEF Routed
<1> QED
  BY <1>1, <1>2

(* A pair is saved in its reverse direction first.                          *)
LEMMA SaveReverseRoutes ==
  ASSUME RInv, NEW p \in Proc, SaveReverse(p), NEW r \in Proc
  PROVE  Routed(r)'
<1> USE DEF RInv
<1>1. PICK x \in saving[p] :
        /\ x.symbol \in Pair /\ Save(p, Opposite(x.symbol), x.quote)
        /\ saving' = [saving EXCEPT ![p] = @ \ {x}]
        /\ second' = [second EXCEPT ![p] = {x}]
  BY DEF SaveReverse, First
<1>2. CASE r # p
  BY <1>1, <1>2, RoutedFrame DEF SaveReverse, Save, Remember, IInv, TypeOK
<1>3. CASE r = p
  <2> DEFINE o == Opposite(x.symbol)
  <2>1. /\ o \in Symbol /\ Normal(o) = Normal(x.symbol)
    BY <1>1 DEF Opposite, Pair, Symbol, Normal
  <2>2. /\ memory'[p][o] = x.quote
        /\ \A t \in Symbol : t # o => memory'[p][t] = memory[p][t]
        /\ fetched'[p] = fetched[p] \cup {o}
        /\ plan'[p] = plan[p] \ {o}
        /\ saving'[p] \cup second'[p] = saving[p] \cup second[p]
    BY <1>1, <2>1 DEF SaveReverse, Save, Remember, IInv, TypeOK
  <2>3. /\ pc[p] = "apply"
        /\ UNCHANGED <<batched, pass, answers, lacked, called, pc>>
    BY DEF SaveReverse
  <2> HIDE DEF o
  <2>4. InOrder(p)'
    <3> SUFFICES ASSUME NEW s \in plan[p], Dealt(p, s)
                 PROVE  Dealt(p, s)'
      BY <2>2, <2>3 DEF Routed, InOrder, AskedNow, AskedBefore, Answered
    <3> QED
      BY <2>2, <2>3 DEF Dealt, OnItsWay
  <2>5. Rightful(p)'
    <3>1. \A s \in fetched'[p] : Earned(p, Normal(s), memory'[p][s].by)
      BY <2>1, <2>2 DEF Routed, Rightful, EarnedQuotes, IInv, TypeOK
    <3> QED
      BY <3>1, <2>2, <2>3 DEF Routed, Rightful, EarnedQuotes, Earned
  <2>6. Tidy(p)'
    BY <2>2, <2>3 DEF Routed, Tidy
  <2> QED
    BY <1>3, <2>4, <2>5, <2>6 DEF Routed
<1> QED
  BY <1>2, <1>3

(* ... and then as it was returned; by then neither is planned.             *)
LEMMA SavePairRoutes ==
  ASSUME RInv, NEW p \in Proc, SavePair(p), NEW r \in Proc
  PROVE  Routed(r)'
<1> USE DEF RInv
<1>1. PICK x \in second[p] : Save(p, x.symbol, x.quote)
  BY DEF SavePair
<1>2. /\ pc[p] = "apply"
      /\ second' = [second EXCEPT ![p] = {}]
      /\ UNCHANGED <<batched, pass, answers, saving, lacked, called, pc>>
  BY DEF SavePair
<1>3. CASE r # p
  BY <1>1, <1>2, <1>3, RoutedFrame DEF Save, Remember, IInv, TypeOK
<1>4. CASE r = p
  <2>1. /\ x.symbol \in Pair /\ Opposite(x.symbol) \in fetched[p]
        /\ \A y \in second[p] : y = x
    BY DEF IInv, Kept, Owed
  <2>2. x.symbol \in Symbol
    BY <2>1 DEF Symbol
  <2>3. /\ memory'[p][x.symbol] = x.quote
        /\ \A t \in Symbol : t # x.symbol => memory'[p][t] = memory[p][t]
        /\ fetched'[p] = fetched[p] \cup {x.symbol}
        /\ plan'[p] = plan[p] \ {x.symbol}
        /\ second'[p] = {}
    BY <1>1, <1>2, <2>2 DEF Save, Remember, IInv, TypeOK
  <2>4. Normal(x.symbol) \in fetched'[p]
    BY <2>1, <2>3 DEF Pair, Opposite, Normal
  <2>5. Tidy(p)'
    BY <1>2, <2>3 DEF Routed, Tidy
  <2>6. InOrder(p)'
    <3> SUFFICES ASSUME NEW s \in plan'[p], Dealt(p, s)
                 PROVE  Dealt(p, s)'
      BY <1>2, <2>3 DEF Routed, InOrder, AskedNow, AskedBefore, Answered
    <3>1. Normal(x.symbol) # s
      BY <2>4, <2>5 DEF Tidy
    <3> QED
      BY <1>2, <2>1, <2>3, <3>1 DEF Dealt, OnItsWay
  <2>7. Rightful(p)'
    <3>1. \A s \in fetched'[p] : Earned(p, Normal(s), memory'[p][s].by)
      BY <2>2, <2>3 DEF Routed, Rightful, EarnedQuotes, IInv, TypeOK
    <3> QED
      BY <3>1, <1>2, <2>3 DEF Routed, Rightful, EarnedQuotes, Earned
  <2> QED
    BY <1>4, <2>5, <2>6, <2>7 DEF Routed
<1> QED
  BY <1>3, <1>4

(* A saved quote leaves the plan for good, and changes nothing of the      *)
(* plans of the others.                                                    *)
LEMMA SaveStockRoutes ==
  ASSUME RInv, NEW p \in Proc, SaveStock(p), NEW r \in Proc
  PROVE  Routed(r)'
<1> USE DEF RInv
<1>1. PICK x \in saving[p] :
        /\ x.symbol \in Stock /\ Save(p, x.symbol, x.quote)
        /\ saving' = [saving EXCEPT ![p] = @ \ {x}]
  BY DEF SaveStock
<1>2. /\ pc[p] = "apply"
      /\ UNCHANGED <<batched, pass, answers, second, lacked, called, pc>>
  BY DEF SaveStock
<1>3. CASE r # p
  BY <1>1, <1>2, <1>3, RoutedFrame DEF Save, Remember, IInv, TypeOK
<1>4. CASE r = p
  <2>1. x.symbol \in Symbol /\ Normal(x.symbol) = x.symbol
    BY <1>1, Symbols DEF Symbol, Pair, Normal
  <2>2. /\ memory'[p][x.symbol] = x.quote
        /\ \A t \in Symbol : t # x.symbol => memory'[p][t] = memory[p][t]
        /\ fetched'[p] = fetched[p] \cup {x.symbol}
        /\ plan'[p] = plan[p] \ {x.symbol}
        /\ saving'[p] = saving[p] \ {x}
    BY <1>1, <2>1 DEF Save, Remember, IInv, TypeOK
  <2>3. InOrder(p)'
    <3> SUFFICES ASSUME NEW s \in plan'[p], Dealt(p, s)
                 PROVE  Dealt(p, s)'
      BY <1>2, <2>2 DEF Routed, InOrder, AskedNow, AskedBefore, Answered
    <3>1. Normal(x.symbol) # s
      BY <2>1, <2>2
    <3> QED
      BY <1>2, <2>2, <3>1 DEF Dealt, OnItsWay
  <2>4. Rightful(p)'
    <3>1. \A s \in fetched'[p] : Earned(p, Normal(s), memory'[p][s].by)
      BY <2>1, <2>2 DEF Routed, Rightful, EarnedQuotes, IInv, TypeOK
    <3> QED
      BY <3>1, <1>2, <2>2 DEF Routed, Rightful, EarnedQuotes, Earned
  <2>5. Tidy(p)'
    BY <1>2, <2>2 DEF Routed, Tidy
  <2> QED
    BY <1>4, <2>3, <2>4, <2>5 DEF Routed
<1> QED
  BY <1>3, <1>4

(* With all answers saved, whoever was asked in this pass lacked what is    *)
(* still planned.                                                           *)
LEMMA PassEndsRoutes ==
  ASSUME RInv, NEW p \in Proc, PassEnds(p), NEW r \in Proc
  PROVE  Routed(r)'
<1> USE DEF RInv
<1>1. CASE r # p
  BY <1>1, RoutedFrame DEF PassEnds, IInv, TypeOK
<1>2. CASE r = p
  <2>1. /\ pc[p] = "apply" /\ answers[p] = {} /\ saving[p] = {} /\ second[p] = {}
        /\ pass'[p] = pass[p] + 1 /\ pc'[p] = "pass"
        /\ pass[p] \in Nat \ {0}
        /\ UNCHANGED <<memory, batched, plan, answers, saving, second, lacked, called,
                       fetched>>
    BY DEF PassEnds, NextPass, IInv, TypeOK
  <2>2. Answered(p)' = {}
    BY <2>1 DEF Answered
  <2>3. InOrder(p)'
    <3> SUFFICES ASSUME NEW s \in plan[p]
                 PROVE  /\ \A j \in 1 .. pass[p] :
                             j <= Len(Route[s]) => <<Route[s][j], s>> \in lacked[p]
                        /\ \A a \in Provider : <<a, s>> \in called[p] => AskedBefore(p, s, a)'
      BY <2>1, <2>2 DEF InOrder, AskedNow
    <3>1. /\ \A j \in 1 .. pass[p] - 1 : j <= Len(Route[s]) => <<Route[s][j], s>> \in lacked[p]
          /\ AskedNow(p, s) => Dealt(p, s)
          /\ \A a \in Provider : <<a, s>> \in called[p] =>
               \/ AskedBefore(p, s, a)
               \/ AskedNow(p, s) /\ Route[s][pass[p]] = a
      BY <2>1 DEF Routed, InOrder
    <3>2. pass[p] <= Len(Route[s]) => <<Route[s][pass[p]], s>> \in lacked[p]
      BY <2>1, <3>1 DEF AskedNow, Dealt, OnItsWay
    <3>3. \A j \in 1 .. pass[p] : j = pass[p] \/ j \in 1 .. pass[p] - 1
      BY <2>1
    <3>4. ASSUME NEW a \in Provider, <<a, s>> \in called[p]
          PROVE  \E j \in 1 .. pass[p] : j <= Len(Route[s]) /\ Route[s][j] = a
      <4>1. CASE AskedBefore(p, s, a)
        BY <2>1, <4>1 DEF AskedBefore
      <4>2. CASE AskedNow(p, s) /\ Route[s][pass[p]] = a
        <5>1. pass[p] \in 1 .. pass[p]
          BY <2>1
        <5> QED
          BY <4>2, <5>1 DEF AskedNow
      <4> QED
        BY <3>1, <3>4, <4>1, <4>2
    <3>5. pass'[p] - 1 = pass[p]
      BY <2>1
    <3> QED
      BY <3>1, <3>2, <3>3, <3>4, <3>5 DEF AskedBefore
  <2>4. Rightful(p)'
    BY <2>1 DEF Routed, Rightful, EarnedQuotes, Earned
  <2>5. Tidy(p)'
    BY <2>1, <2>2 DEF Routed, Tidy
  <2> QED
    BY <1>2, <2>3, <2>4, <2>5 DEF Routed
<1> QED
  BY <1>1, <1>2

(* The end of a plan, of a request and of a run.                            *)
LEMMA EndRoutes ==
  ASSUME RInv, NEW p \in Proc, PlanEnds(p) \/ Answer(p) \/ Restart(p), NEW r \in Proc
  PROVE  Routed(r)'
<1> USE DEF RInv
<1>1. CASE r # p
  BY <1>1, RoutedFrame DEF PlanEnds, Answer, Restart, IInv, TypeOK
<1>2. CASE r = p /\ PlanEnds(p)
  <2>1. /\ pc[p] = "pass" /\ Called(p) = {}
        /\ pc'[p] = IF plan[p] # {} THEN "failed"
                    ELSE IF wanted[p] # {} THEN "answer" ELSE "idle"
        /\ UNCHANGED <<memory, batched, plan, pass, answers, saving, second, lacked,
                       called, fetched>>
    BY <1>2 DEF PlanEnds, IInv, TypeOK
  <2>2. answers[p] = {}
    BY <2>1 DEF Routed, Tidy, Answered
  <2>3. InOrder(p)'
    BY <2>1 DEF InOrder
  <2>4. Rightful(p)'
    BY <2>1 DEF Routed, Rightful, EarnedQuotes, Earned
  <2>5. Tidy(p)'
    BY <2>1, <2>2 DEF Routed, Tidy
  <2> QED
    BY <1>2, <2>3, <2>4, <2>5 DEF Routed
<1>3. CASE r = p /\ Answer(p)
  <2>1. /\ pc[p] = "answer" /\ pc'[p] = "idle"
        /\ UNCHANGED <<batched, plan, pass, answers, saving, second, lacked, called,
                       fetched>>
    BY <1>3 DEF Answer, IInv, TypeOK
  <2>2. \A s \in fetched[p] : memory'[p][s] = memory[p][s]
    <3>1. \A s \in Symbol : memory[p][s] # Nothing => memory'[p][s] = memory[p][s]
      BY <1>3, CachedType DEF Answer, IInv, TypeOK
    <3> QED
      BY <3>1 DEF IInv, Kept, Remembered, TypeOK
  <2>3. InOrder(p)'
    BY <2>1 DEF InOrder
  <2>4. Rightful(p)'
    BY <2>1, <2>2 DEF Routed, Rightful, EarnedQuotes, Earned
  <2>5. Tidy(p)'
    BY <2>1 DEF Routed, Tidy
  <2> QED
    BY <1>3, <2>3, <2>4, <2>5 DEF Routed
<1>4. CASE r = p /\ Restart(p)
  BY <1>4 DEF Restart, Routed, InOrder, Rightful, EarnedQuotes, Tidy, IInv, TypeOK
<1> QED
  BY <1>1, <1>2, <1>3, <1>4

(* Every step keeps the routes.                                            *)
LEMMA NextRoutes ==
  ASSUME RInv, [Next]_vars, NEW r \in Proc
  PROVE  Routed(r)'
<1>1. CASE UNCHANGED vars \/ Tick
  BY <1>1, RoutedFrame DEF vars, Tick
<1>2. ASSUME NEW p \in Proc, NEW s \in Symbol, Batch(p, s) \/ Get(p, s)
      PROVE  Routed(r)'
  BY <1>2, BatchRoutes, StartRoutes
<1>3. ASSUME NEW p \in Proc, Execute(p)
      PROVE  Routed(r)'
  BY <1>3, StartRoutes, Symbols
<1>4. ASSUME NEW p \in Proc, Work(p)
      PROVE  Routed(r)'
  BY <1>4, DownloadRoutes, LookRoutes, SaveReverseRoutes, SavePairRoutes,
     SaveStockRoutes, PassEndsRoutes, EndRoutes DEF Work
<1>5. ASSUME NEW p \in Proc, Restart(p)
      PROVE  Routed(r)'
  BY <1>5, EndRoutes
<1> QED
  BY <1>1, <1>2, <1>3, <1>4, <1>5 DEF Next

(* The routes are followed in every reachable state.                       *)
LEMMA RoutedHolds == Spec => []RInv
<1>1. Init => RInv
  <2> SUFFICES ASSUME Init, NEW p \in Proc PROVE Routed(p)
    BY InitHolds DEF RInv
  <2> QED
    BY DEF Init, Routed, InOrder, Rightful, EarnedQuotes, Tidy
<1>2. RInv /\ [Next]_vars => RInv'
  BY NextTypes, NextKeeps, NextRoutes DEF RInv, IInv
<1> QED
  BY <1>1, <1>2, PTL DEF Spec

-----------------------------------------------------------------------------
(* A pair is only ever asked for in one direction (batch_forex()), and what *)
(* is cached, downloaded or owed is a quote of one of the providers.        *)
THEOREM TypeCorrect == Spec => []TypeOK
<1>1. IInv => TypeOK
  BY DEF IInv
<1> QED
  BY <1>1, Inductive, PTL

(* The unwrap() at the end of get() never panics, whichever direction was   *)
(* asked for, whichever was returned, and whatever expired meanwhile.       *)
THEOREM GetNeverPanics == Spec => []GetAnswers
<1>1. IInv => GetAnswers
  <2> SUFFICES ASSUME IInv, NEW p \in Proc, pc[p] = "answer", NEW s \in wanted[p]
               PROVE  memory[p][s] # Nothing
    BY DEF GetAnswers
  <2>1. second[p] = {}
    BY DEF IInv, Kept, Owed
  <2> QED
    BY <2>1 DEF IInv, Kept, Coming
<1> QED
  BY <1>1, Inductive, PTL

(* After a run has downloaded a pair (execute_query_plan()) its two         *)
(* directions stem from one quotation for the rest of the run.              *)
THEOREM DownloadedPairsAgree == Spec => []DownloadedAgree
<1>1. IInv => DownloadedAgree
  BY DEF IInv, Kept, Remembered, DownloadedAgree, Pair
<1> QED
  BY <1>1, Inductive, PTL

(* execute_query_plan() takes a quote from a provider only after all those  *)
(* before it in the plan were asked in the same run and had nothing, and    *)
(* asks a provider again only where the plan names it again.                *)
THEOREM PreferredAskedFirst == Spec => []PreferredFirst
<1>1. RInv => PreferredFirst
  <2> SUFFICES ASSUME RInv, NEW p \in Proc,
                      NEW q \in Provider, NEW s \in Symbol,
                      pc[p] = "pass", q \in Called(p) \ Answered(p), s \in PassPlan(p, q),
                      <<q, s>> \in called[p]
               PROVE  \E j \in 1 .. pass[p] - 1 : Route[s][j] = q
    BY DEF PreferredFirst, RInv, Routed, Rightful
  <2>1. s \in plan[p] /\ Route[s][pass[p]] = q
    BY DEF PassPlan
  <2>2. AskedBefore(p, s, q)
    BY <2>1 DEF RInv, Routed, InOrder, AskedNow
  <2> QED
    BY <2>2 DEF AskedBefore
<1> QED
  BY <1>1, RoutedHolds, PTL

=============================================================================
