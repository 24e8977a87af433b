---------------------------- MODULE ShareLedger ----------------------------
(***************************************************************************)
(* What an account owes its owner: the shares of every symbol as a queue   *)
(* of lots, oldest first, changed by the events in the order in which they *)
(* happen.  A lot knows which fractions of which acquisitions it holds; a  *)
(* disposal takes the oldest shares and with them their fractions.  This   *)
(* is the FIFO rule of the tax code, stated without any of the batch       *)
(* processing of the program; StockFifo is checked against it.             *)
(***************************************************************************)
EXTENDS Integers, Sequences, FiniteSets, Functions

CONSTANTS
  Symbol,   \* ticker symbols
  Event,    \* identities of acquisitions and disposals
  Unit      \* how many parts an acquisition is divided into

VARIABLES
  holding,  \* [Symbol -> Seq([qty, origin])]
  realised  \* [Event -> origin]: what each disposal has taken

Nothing == [e \in Event |-> 0]

Whole(e) == [Nothing EXCEPT ![e] = Unit]

Part(origin, taken, total) == [e \in Event |-> (origin[e] * taken) \div total]

Sum2(f, g) == [e \in Event |-> f[e] + g[e]]

Least(a, b) == IF a < b THEN a ELSE b

(* The shares of the first n lots.                                          *)
QtyUpTo(queue, n) ==
  SumFunctionOnSet([i \in DOMAIN queue |-> queue[i].qty], 1 .. n)

TotalQty(queue) == QtyUpTo(queue, Len(queue))

Pooled(queue) ==
  [e \in Event |->
     SumFunctionOnSet([i \in DOMAIN queue |-> queue[i].origin[e]], DOMAIN queue)]

(* What a disposal of q shares takes from lot i of the queue.               *)
Taken(queue, q, i) ==
  LET before == QtyUpTo(queue, i - 1)
  IN  IF before >= q THEN 0 ELSE Least(queue[i].qty, q - before)

TakenLots(queue, q) ==
  [i \in DOMAIN queue |->
     [qty    |-> Taken(queue, q, i),
      origin |-> Part(queue[i].origin, Taken(queue, q, i), queue[i].qty)]]

(* The oldest lots are gone, one may be left in part.                       *)
LeftLots(queue, q) ==
  LET sold == {i \in DOMAIN queue : Taken(queue, q, i) = queue[i].qty}
      Left(lot, n) == [qty |-> n, origin |-> Part(lot.origin, n, lot.qty)]
  IN  SubSeq([i \in DOMAIN queue |-> Left(queue[i], queue[i].qty - Taken(queue, q, i))],
             Cardinality(sold) + 1, Len(queue))

-----------------------------------------------------------------------------
LedgerInit ==
  /\ holding = [s \in Symbol |-> <<>>]
  /\ realised = [e \in Event |-> Nothing]

Acquire(s, e, q) ==
  /\ holding' = [holding EXCEPT ![s] = Append(@, [qty |-> q, origin |-> Whole(e)])]
  /\ UNCHANGED realised

Dispose(s, e, q) ==
  /\ TotalQty(holding[s]) >= q
  /\ realised' = [realised EXCEPT ![e] = Pooled(TakenLots(holding[s], q))]
  /\ holding' = [holding EXCEPT ![s] = LeftLots(@, q)]

(* n new shares for each old one; every lot stays what it was.              *)
SplitLots(s, n) ==
  /\ holding[s] # <<>>
  /\ holding' = [holding EXCEPT ![s] =
                   [i \in DOMAIN @ |-> [qty |-> n * @[i].qty, origin |-> @[i].origin]]]
  /\ UNCHANGED realised

(* The position is exchanged for q new shares: one lot, and a new queue.    *)
PoolLots(s, q) ==
  /\ holding[s] # <<>>
  /\ holding' = [holding EXCEPT ![s] = <<[qty |-> q, origin |-> Pooled(@)]>>]
  /\ UNCHANGED realised

RenameLots(s, t) ==
  /\ holding[s] # <<>>
  /\ holding[t] = <<>>
  /\ holding' = [holding EXCEPT ![s] = <<>>, ![t] = holding[s]]
  /\ UNCHANGED realised

=============================================================================
