------------------------ MODULE GermanReturn_proofs ------------------------
(***************************************************************************)
(* The German return, for every set of events, amounts, prices and opening *)
(* balances.  Of the queue of foreign currency: its lots lie on one side   *)
(* of zero, are used up in the order in which they were acquired, and with *)
(* what was realized account for every row and every opening balance.  Of  *)
(* the returns: a loss is deducted once, a lump sum is taken off once,     *)
(* filing again changes nothing, and the boxes of the forms agree with the *)
(* taxable amounts of the events.                                          *)
(***************************************************************************)
EXTENDS GermanReturn, SumTheorems, SequenceTheorems, TLAPS

LotType == [row : Nat, qty : Int, rate : Int, date : Int]

RowType == [amount : Int \ {0}, rate : Int, date : Int]

(* What has been realized was of rows up to the last.                       *)
RealizedType == [by : Nat, of : Nat, units : Int, amount : Int, date : Int, acquired : Int]

FxTypes ==
  /\ today \in Int
  /\ rows \in Seq(RowType)
  /\ lots \in Seq(LotType)
  /\ remaining \in Int
  /\ taxable \in Seq(RealizedType)
  /\ nonTaxable \in Seq(RealizedType)

(* No realization is of a later row than any lot, the last row included     *)
(* while it is being placed; the last row has no lot before it is placed.   *)
InPlace ==
  /\ \A i \in DOMAIN lots : lots[i].row <= Len(rows)
  /\ remaining # 0 => \A i \in DOMAIN lots : lots[i].row < Len(rows)
  /\ \A k \in DOMAIN taxable : taxable[k].of <= Len(rows)
  /\ \A k \in DOMAIN nonTaxable : nonTaxable[k].of <= Len(rows)

QueueInv == FxTypes /\ QueueInOrder /\ InPlace

(***************************************************************************)
(* A portion of two opposite quantities leaves each of them on its side of *)
(* zero or empty.                                                          *)
(***************************************************************************)
LEMMA PortionFits ==
  ASSUME NEW q \in Int, NEW r \in Int, q # 0, r # 0, Sign(q) # Sign(r),
         NEW p \in Int, p = Least(Magnitude(q), Magnitude(r))
  PROVE  /\ q - Sign(q) * p \in Int
         /\ r - Sign(r) * p \in Int
         /\ q - Sign(q) * p # 0 => (q - Sign(q) * p > 0 <=> q > 0)
         /\ r - Sign(r) * p # 0 => Sign(r - Sign(r) * p) = Sign(r)
<1>1. CASE q > 0
  <2>1. r < 0 /\ Sign(q) = 1 /\ Sign(r) = -1
    BY <1>1 DEF Sign
  <2>2. Magnitude(q) = q /\ Magnitude(r) = -r
    BY <1>1, <2>1 DEF Magnitude
  <2>3. p <= q /\ p <= -r
    BY <2>2 DEF Least
  <2> QED
    BY <1>1, <2>1, <2>3 DEF Sign
<1>2. CASE q < 0
  <2>1. r > 0 /\ Sign(q) = -1 /\ Sign(r) = 1
    BY <1>2 DEF Sign
  <2>2. Magnitude(q) = -q /\ Magnitude(r) = r
    BY <1>2, <2>1 DEF Magnitude
  <2>3. p <= -q /\ p <= r
    BY <2>2 DEF Least
  <2> QED
    BY <1>2, <2>1, <2>3 DEF Sign
<1> QED
  BY <1>1, <1>2

(* What is taken of the first lot is a number of units.                    *)
LEMMA PortionIsInt ==
  ASSUME FxTypes, lots # <<>>
  PROVE  Portion \in Int
<1>1. lots[1] \in LotType
  BY DEF FxTypes
<1> QED
  BY <1>1 DEF Portion, Least, Magnitude, FxTypes, LotType

(***************************************************************************)
(* What is left of the queue is the queue without its oldest lot, or the   *)
(* queue with that lot on its side of zero; the rows of the lots stay.     *)
(***************************************************************************)
LEMMA LeftOver ==
  ASSUME FxTypes, OneSide, lots # <<>>, remaining # 0, ~Extends
  PROVE  /\ Left \in Seq(LotType)
         /\ \/ /\ Len(Left) = Len(lots) - 1
               /\ \A i \in 1 .. Len(Left) : Left[i] = lots[i + 1]
               /\ lots[1].qty - Sign(lots[1].qty) * Portion = 0
            \/ /\ Len(Left) = Len(lots)
               /\ Left[1].qty = lots[1].qty - Sign(lots[1].qty) * Portion
               /\ Left[1].rate = lots[1].rate
               /\ \A i \in 2 .. Len(Left) : Left[i] = lots[i]
               /\ \A i \in 1 .. Len(Left) :
                    /\ Left[i].row = lots[i].row
                    /\ Left[i].qty # 0
                    /\ Left[i].qty > 0 <=> lots[i].qty > 0
<1>1. /\ Portion \in Int
      /\ Len(lots) \in Nat /\ Len(lots) >= 1 /\ DOMAIN lots = 1 .. Len(lots)
      /\ \A i \in 1 .. Len(lots) : lots[i] \in LotType /\ lots[i].qty \in Int \ {0}
  <2>1. lots \in Seq(LotType)
    BY DEF FxTypes
  <2>2. Len(lots) \in Nat /\ Len(lots) >= 1 /\ DOMAIN lots = 1 .. Len(lots)
    BY <2>1
  <2>3. \A i \in 1 .. Len(lots) : lots[i] \in LotType
    BY <2>1
  <2>4. \A i \in 1 .. Len(lots) : lots[i].qty \in Int /\ lots[i].qty # 0
    BY <2>2, <2>3 DEF OneSide, LotType
  <2> QED
    BY <2>2, <2>3, <2>4, PortionIsInt
<1> DEFINE q == lots[1].qty
           q2 == q - Sign(q) * Portion
<1>2. q2 \in Int /\ (q2 # 0 => (q2 > 0 <=> q > 0))
  <2>1. q \in Int /\ q # 0 /\ remaining \in Int /\ Sign(q) # Sign(remaining)
    BY <1>1 DEF Extends, FxTypes
  <2>2. Portion = Least(Magnitude(q), Magnitude(remaining))
    BY DEF Portion
  <2> QED
    BY <1>1, <2>1, <2>2, PortionFits
<1>3. Shrunk = [lots EXCEPT ![1] = [lots[1] EXCEPT !.qty = q2]]
  BY <1>1 DEF Shrunk
<1> HIDE DEF q2
<1>4. [lots[1] EXCEPT !.qty = q2] \in LotType
  BY SMTT(20), <1>1, <1>2 DEF LotType
<1>5. /\ Shrunk \in Seq(LotType)
      /\ Len(Shrunk) = Len(lots)
      /\ Shrunk[1].qty = q2 /\ Shrunk[1].row = lots[1].row /\ Shrunk[1].rate = lots[1].rate
      /\ \A i \in 2 .. Len(lots) : Shrunk[i] = lots[i]
  <2> DEFINE front == [lots[1] EXCEPT !.qty = q2]
  <2>1. front.qty = q2 /\ front.row = lots[1].row /\ front.rate = lots[1].rate
    BY <1>1 DEF LotType
  <2> HIDE DEF front
  <2>2. Shrunk = [lots EXCEPT ![1] = front] /\ front \in LotType
    BY <1>3, <1>4 DEF front
  <2>3. lots \in Seq(LotType)
    BY DEF FxTypes
  <2> QED
    BY <1>1, <2>1, <2>2, <2>3
<1>6. CASE q2 = 0
  <2>1. Left = Tail(Shrunk)
    BY <1>5, <1>6 DEF Left
  <2>2. Left \in Seq(LotType) /\ Len(Left) = Len(lots) - 1
    BY <1>1, <1>5, <2>1
  <2>3. \A i \in 1 .. Len(Left) : Left[i] = lots[i + 1]
    BY <1>1, <1>5, <2>1, <2>2
  <2>4. lots[1].qty - Sign(lots[1].qty) * Portion = 0
    BY <1>6 DEF q2
  <2> QED
    BY <2>2, <2>3, <2>4
<1>7. CASE q2 # 0
  <2>1. Left = Shrunk
    BY <1>5, <1>7 DEF Left
  <2>2. \A i \in 1 .. Len(Left) : /\ Left[i].row = lots[i].row
                                  /\ Left[i].qty # 0
                                  /\ Left[i].qty > 0 <=> lots[i].qty > 0
    BY <1>1, <1>2, <1>5, <1>7, <2>1
  <2>3. /\ Left[1].qty = lots[1].qty - Sign(lots[1].qty) * Portion
        /\ Left[1].rate = lots[1].rate
        /\ \A i \in 2 .. Len(Left) : Left[i] = lots[i]
    BY <1>5, <2>1 DEF q2
  <2> QED
    BY <1>5, <2>1, <2>2, <2>3
<1> QED
  BY <1>6, <1>7

-----------------------------------------------------------------------------
(* An account opened with one lot, or with none, is in order.              *)
LEMMA QueueInit == FxAssumption /\ FxInit => QueueInv
<1> SUFFICES ASSUME FxAssumption, FxInit PROVE QueueInv
  OBVIOUS
<1>1. CASE running = 0
  BY <1>1 DEF FxInit, QueueInv, FxTypes, QueueInOrder, OneSide, OldestFirst, InPlace
<1>2. CASE running # 0
  <2>1. PICK rate \in {r \in Rates : r > 0} :
          rows = <<Row(running, rate)>> /\ lots = <<Lot(1, running, rate, 0)>>
    BY <1>2 DEF FxInit
  <2>2. running \in Int /\ rate \in Int /\ today = 0
    BY DEF FxAssumption, FxInit
  <2>3. Row(running, rate) \in RowType /\ Lot(1, running, rate, 0) \in LotType
    BY <1>2, <2>2 DEF Row, Lot, RowType, LotType
  <2>4. Len(rows) = 1 /\ Len(lots) = 1 /\ lots[1].qty = running /\ lots[1].row = 1
    BY <2>1 DEF Lot
  <2> QED
    BY <1>2, <2>1, <2>2, <2>3, <2>4
       DEF FxInit, QueueInv, FxTypes, QueueInOrder, OneSide, OldestFirst, InPlace
<1> QED
  BY <1>1, <1>2

-----------------------------------------------------------------------------
(***************************************************************************)
(* What the steps which do not touch the queue leave.                      *)
(***************************************************************************)
LEMMA QueueUntouched ==
  ASSUME QueueInv, today' \in Int,
         UNCHANGED <<rows, lots, remaining, taxable, nonTaxable>>
  PROVE  QueueInv'
BY DEF QueueInv, FxTypes, QueueInOrder, OneSide, OldestFirst, InPlace

(* Reading a row leaves the lots alone and, with what remains to be        *)
(* placed of it, opposite to them.                                         *)
LEMMA ReadRowStep ==
  ASSUME FxAssumption, QueueInv, NEW amount \in Amounts, NEW rate \in Rates,
         ReadRow(amount, rate)
  PROVE  QueueInv'
<1>0. today' = today /\ today \in Int
  BY DEF ReadRow, QueueInv, FxTypes
<1>1. CASE refused'
  <2>1. UNCHANGED <<rows, remaining>>
    BY <1>1 DEF ReadRow, Replayed
  <2> QED
    BY <1>0, <2>1, QueueUntouched DEF ReadRow
<1>2. CASE ~refused'
  <2>1. /\ rows' = Append(rows, Row(amount, rate)) /\ remaining' = amount
        /\ UNCHANGED <<lots, taxable, nonTaxable>>
    BY <1>2 DEF ReadRow
  <2>2. Row(amount, rate) \in RowType /\ amount \in Int /\ amount # 0
    BY DEF FxAssumption, QueueInv, FxTypes, Row, RowType
  <2>3. /\ rows' \in Seq(RowType) /\ Len(rows') = Len(rows) + 1 /\ Len(rows) \in Nat
        /\ rows'[Len(rows')].amount = amount /\ rows' # <<>>
    BY <2>1, <2>2 DEF QueueInv, FxTypes, Row
  <2>4. /\ FxTypes' /\ OldestFirst' /\ OneSide'
    BY <1>0, <2>1, <2>2, <2>3 DEF QueueInv, FxTypes, QueueInOrder, OneSide, OldestFirst
  <2>5. InPlace'
    <3>1. \A i \in DOMAIN lots : lots[i].row \in Nat
      <4>1. lots \in Seq(LotType)
        BY DEF QueueInv, FxTypes
      <4>2. \A i \in DOMAIN lots : lots[i] \in LotType
        BY <4>1
      <4> QED
        BY <4>2 DEF LotType
    <3>2. /\ \A k \in DOMAIN taxable : taxable[k].of \in Nat
          /\ \A k \in DOMAIN nonTaxable : nonTaxable[k].of \in Nat
      <4>1. taxable \in Seq(RealizedType) /\ nonTaxable \in Seq(RealizedType)
        BY DEF QueueInv, FxTypes
      <4>2. /\ \A k \in DOMAIN taxable : taxable[k] \in RealizedType
            /\ \A k \in DOMAIN nonTaxable : nonTaxable[k] \in RealizedType
        BY <4>1
      <4> QED
        BY <4>2 DEF RealizedType
    <3> QED
      BY <2>1, <2>3, <3>1, <3>2 DEF QueueInv, InPlace
  <2> QED
    BY <2>4, <2>5 DEF QueueInv, QueueInOrder
<1> QED
  BY <1>1, <1>2

(* A row on the side of the queue, or left over when the queue is empty,   *)
(* becomes its last lot.                                                   *)
LEMMA ExtendStep ==
  ASSUME QueueInv, Extend
  PROVE  QueueInv'
<1> DEFINE n == Len(rows)
           new == Lot(n, remaining, rows[n].rate, rows[n].date)
<1>1. /\ remaining # 0 /\ remaining' = 0 /\ lots' = Append(lots, new)
      /\ UNCHANGED <<today, rows, taxable, nonTaxable>>
  BY DEF Extend, PushBack
<1>2. rows[n] \in RowType /\ n \in Nat
  BY <1>1 DEF QueueInv, FxTypes, QueueInOrder, OneSide
<1>3. new \in LotType /\ new.row = n /\ new.qty = remaining
  BY <1>1, <1>2 DEF QueueInv, FxTypes, Lot, LotType, RowType
<1> HIDE DEF new
<1>4. /\ lots' \in Seq(LotType) /\ Len(lots') = Len(lots) + 1 /\ Len(lots) \in Nat
      /\ DOMAIN lots = 1 .. Len(lots) /\ DOMAIN lots' = 1 .. Len(lots) + 1
      /\ lots'[Len(lots) + 1] = new
      /\ \A i \in DOMAIN lots : lots'[i] = lots[i] /\ lots[i] \in LotType
  BY <1>1, <1>3 DEF QueueInv, FxTypes
<1>5. FxTypes'
  BY <1>1, <1>4 DEF QueueInv, FxTypes
<1>6. OneSide'
  <2>1. \A i \in DOMAIN lots : lots[i].qty > 0 <=> remaining > 0
    <3>1. CASE lots = <<>>
      BY <1>4, <3>1
    <3>2. CASE lots # <<>>
      <4>1. 1 \in DOMAIN lots /\ Sign(lots[1].qty) = Sign(remaining)
        BY <1>4, <3>2 DEF Extend, Extends, QueueInv, FxTypes
      <4>2. lots[1].qty \in Int /\ lots[1].qty # 0 /\ remaining \in Int
        BY <1>4, <4>1 DEF QueueInv, QueueInOrder, OneSide, FxTypes, LotType
      <4>3. lots[1].qty > 0 <=> remaining > 0
        BY <1>1, <4>1, <4>2 DEF Sign
      <4> QED
        BY <4>1, <4>3 DEF QueueInv, QueueInOrder, OneSide
    <3> QED
      BY <3>1, <3>2
  <2> QED
    BY <1>1, <1>3, <1>4, <2>1 DEF QueueInv, QueueInOrder, OneSide
<1>7. OldestFirst'
  <2>1. \A i \in DOMAIN lots : lots[i].row \in Nat /\ lots[i].row < n
    BY <1>1, <1>4 DEF QueueInv, InPlace, LotType
  <2>2. \A i, j \in DOMAIN lots' : i < j => lots'[i].row < lots'[j].row
    BY <1>3, <1>4, <2>1 DEF QueueInv, QueueInOrder, OldestFirst
  <2>3. \A i \in DOMAIN lots' :
          /\ \A k \in DOMAIN taxable : taxable[k].of <= lots'[i].row
          /\ \A k \in DOMAIN nonTaxable : nonTaxable[k].of <= lots'[i].row
    BY <1>3, <1>4 DEF QueueInv, QueueInOrder, OldestFirst, InPlace
  <2> QED
    BY <1>1, <2>2, <2>3 DEF OldestFirst
<1>8. InPlace'
  BY <1>1, <1>2, <1>3, <1>4 DEF QueueInv, InPlace, LotType
<1> QED
  BY <1>5, <1>6, <1>7, <1>8 DEF QueueInv, QueueInOrder

(***************************************************************************)
(* A realization is of the oldest lot, which no remaining lot precedes.    *)
(***************************************************************************)
LEMMA ConsumeStep ==
  ASSUME QueueInv, Consume
  PROVE  QueueInv'
<1> DEFINE n == Len(rows)
           front == lots[1]
<1>1. /\ remaining # 0 /\ ~Extends /\ lots # <<>>
      /\ lots' = Left
      /\ remaining' = remaining - Sign(remaining) * Portion
      /\ UNCHANGED <<today, rows>>
  BY DEF Consume, Extends
<1>2. /\ rows \in Seq(RowType) /\ n \in Nat /\ rows[n] \in RowType
      /\ rows # <<>> /\ Sign(remaining) = Sign(rows[n].amount)
  BY <1>1 DEF QueueInv, FxTypes, QueueInOrder, OneSide
<1>3. /\ lots \in Seq(LotType) /\ Len(lots) \in Nat /\ Len(lots) >= 1
      /\ DOMAIN lots = 1 .. Len(lots) /\ front \in LotType
      /\ \A i \in DOMAIN lots : lots[i] \in LotType
  <2>1. lots \in Seq(LotType)
    BY DEF QueueInv, FxTypes
  <2>2. Len(lots) \in Nat /\ Len(lots) >= 1 /\ DOMAIN lots = 1 .. Len(lots)
    BY <1>1, <2>1
  <2> QED
    BY <2>1, <2>2
<1>4. front.qty \in Int /\ front.qty # 0 /\ front.row \in Nat /\ front.rate \in Int
        /\ front.date \in Int
  BY <1>3 DEF QueueInv, QueueInOrder, OneSide, LotType
<1>5. Portion \in Int
  BY <1>1, PortionIsInt DEF QueueInv
<1>6. remaining' \in Int /\ (remaining' # 0 => Sign(remaining') = Sign(remaining))
  <2>1. remaining \in Int /\ Sign(front.qty) # Sign(remaining)
    BY <1>1 DEF Extends, QueueInv, FxTypes
  <2>2. Portion = Least(Magnitude(front.qty), Magnitude(remaining))
    BY DEF Portion
  <2> QED
    BY <1>1, <1>4, <1>5, <2>1, <2>2, PortionFits
<1>7. /\ Left \in Seq(LotType)
      /\ \/ /\ Len(Left) = Len(lots) - 1
            /\ \A i \in 1 .. Len(Left) : Left[i] = lots[i + 1]
         \/ /\ Len(Left) = Len(lots)
            /\ \A i \in 1 .. Len(Left) :
                 /\ Left[i].row = lots[i].row
                 /\ Left[i].qty # 0
                 /\ Left[i].qty > 0 <=> lots[i].qty > 0
  BY <1>1, LeftOver DEF QueueInv, QueueInOrder
<1>8. PICK r \in RealizedType :
        /\ r.of = front.row
        /\ \/ taxable' = Append(taxable, r) /\ nonTaxable' = nonTaxable
           \/ nonTaxable' = Append(nonTaxable, r) /\ taxable' = taxable
  <2>1. \A amount \in Int : Realization(amount) \in RealizedType
                              /\ Realization(amount).of = front.row
    BY <1>2, <1>4, <1>5 DEF Realization, RealizedType, RowType
  <2>2. rows[n].rate \in Int
    BY <1>2 DEF RowType
  <2>3. /\ Portion * (rows[n].rate - front.rate) \in Int
        /\ Portion * (front.rate - rows[n].rate) \in Int
    BY <1>4, <1>5, <2>2
  <2> QED
    BY <2>1, <2>3 DEF Consume
<1>9. FxTypes'
  <2>1. taxable \in Seq(RealizedType) /\ nonTaxable \in Seq(RealizedType)
    BY DEF QueueInv, FxTypes
  <2>2. taxable' \in Seq(RealizedType) /\ nonTaxable' \in Seq(RealizedType)
    BY SMTT(20), <1>8, <2>1
  <2>3. today' \in Int /\ rows' \in Seq(RowType)
    BY <1>1, <1>2 DEF QueueInv, FxTypes
  <2> QED
    BY <1>1, <1>6, <1>7, <2>2, <2>3 DEF FxTypes
<1>10. OneSide'
  <2>1. \A i, j \in DOMAIN Left : Left[i].qty # 0 /\ (Left[i].qty > 0 <=> Left[j].qty > 0)
    <3>1. \A i, j \in 1 .. Len(lots) :
            lots[i].qty # 0 /\ (lots[i].qty > 0 <=> lots[j].qty > 0)
      BY <1>3 DEF QueueInv, QueueInOrder, OneSide
    <3>2. DOMAIN Left = 1 .. Len(Left) /\ Len(Left) \in Nat
      BY <1>7
    <3>3. CASE Len(Left) = Len(lots) - 1 /\ \A i \in 1 .. Len(Left) : Left[i] = lots[i + 1]
      <4>1. \A i \in 1 .. Len(Left) : i + 1 \in 1 .. Len(lots)
        BY <1>3, <3>2, <3>3
      <4> QED
        BY <3>1, <3>2, <3>3, <4>1
    <3>4. CASE /\ Len(Left) = Len(lots)
               /\ \A i \in 1 .. Len(Left) : Left[i].qty # 0
                                             /\ (Left[i].qty > 0 <=> lots[i].qty > 0)
      BY <3>1, <3>2, <3>4
    <3> QED
      BY <1>7, <3>3, <3>4
  <2> QED
    BY <1>1, <1>2, <1>6, <2>1 DEF OneSide
<1>11. /\ \A i \in DOMAIN Left : \E j \in DOMAIN lots : Left[i].row = lots[j].row
       /\ \A i, j \in DOMAIN Left : i < j => Left[i].row < Left[j].row
       /\ \A i \in DOMAIN Left : front.row <= Left[i].row
  <2>1. DOMAIN Left = 1 .. Len(Left)
    BY <1>7
  <2>2. /\ \A i, j \in DOMAIN lots : i < j => lots[i].row < lots[j].row
        /\ \A i \in DOMAIN lots : lots[i].row \in Nat
    BY <1>3 DEF QueueInv, QueueInOrder, OldestFirst, LotType
  <2>3. \A i \in DOMAIN lots : front.row <= lots[i].row
    BY <1>3, <1>4, <2>2
  <2>4. CASE Len(Left) = Len(lots) - 1 /\ \A i \in 1 .. Len(Left) : Left[i] = lots[i + 1]
    <3>1. \A i \in 1 .. Len(Left) : i + 1 \in DOMAIN lots
      <4>1. Len(Left) \in Nat /\ Len(Left) + 1 = Len(lots)
        <5>1. Left \in Seq(LotType) /\ Len(Left) = Len(lots) - 1 /\ Len(lots) \in Nat
          BY <1>3, <1>7, <2>4
        <5>2. Len(Left) \in Nat
          BY <5>1
        <5> QED
          BY <5>1, <5>2
      <4> QED
        BY <1>3, <4>1
    <3>2. \A i, j \in 1 .. Len(Left) : i < j => i + 1 < j + 1
      OBVIOUS
    <3> QED
      BY <2>1, <2>2, <2>3, <2>4, <3>1, <3>2
  <2>5. CASE Len(Left) = Len(lots) /\ \A i \in 1 .. Len(Left) : Left[i].row = lots[i].row
    BY <1>3, <2>1, <2>2, <2>3, <2>5
  <2> QED
    BY <1>7, <2>4, <2>5
<1>12. \A i \in DOMAIN lots : /\ \A k \in DOMAIN taxable : taxable[k].of <= lots[i].row
                              /\ \A k \in DOMAIN nonTaxable : nonTaxable[k].of <= lots[i].row
  BY DEF QueueInv, QueueInOrder, OldestFirst
<1>13. /\ taxable \in Seq(RealizedType) /\ nonTaxable \in Seq(RealizedType)
       /\ \A k \in DOMAIN taxable' :
            (k \in DOMAIN taxable /\ taxable'[k] = taxable[k]) \/ taxable'[k] = r
       /\ \A k \in DOMAIN nonTaxable' :
            (k \in DOMAIN nonTaxable /\ nonTaxable'[k] = nonTaxable[k]) \/ nonTaxable'[k] = r
  <2>1. taxable \in Seq(RealizedType) /\ nonTaxable \in Seq(RealizedType)
    BY DEF QueueInv, FxTypes
  <2>2. \A s \in Seq(RealizedType) : \A k \in DOMAIN Append(s, r) :
          (k \in DOMAIN s /\ Append(s, r)[k] = s[k]) \/ Append(s, r)[k] = r
    OBVIOUS
  <2>3. CASE taxable' = Append(taxable, r) /\ nonTaxable' = nonTaxable
    BY <2>1, <2>2, <2>3
  <2>4. CASE nonTaxable' = Append(nonTaxable, r) /\ taxable' = taxable
    BY <2>1, <2>2, <2>4
  <2> QED
    BY <1>8, <2>1, <2>3, <2>4
<1>14. OldestFirst'
  <2>1. \A i \in DOMAIN Left :
          /\ \A k \in DOMAIN taxable' : taxable'[k].of <= Left[i].row
          /\ \A k \in DOMAIN nonTaxable' : nonTaxable'[k].of <= Left[i].row
    BY <1>8, <1>11, <1>12, <1>13
  <2> QED
    BY <1>1, <1>11, <2>1 DEF OldestFirst
<1>15. InPlace'
  <2>1. front.row <= n
    BY <1>3 DEF QueueInv, InPlace
  <2>2. /\ \A k \in DOMAIN taxable' : taxable'[k].of <= n
        /\ \A k \in DOMAIN nonTaxable' : nonTaxable'[k].of <= n
    BY <1>8, <1>13, <2>1 DEF QueueInv, InPlace
  <2>3. \A i \in DOMAIN Left : Left[i].row <= n /\ Left[i].row < n
    BY <1>1, <1>11 DEF QueueInv, InPlace
  <2> QED
    BY <1>1, <2>2, <2>3 DEF InPlace
<1> QED
  BY <1>9, <1>10, <1>14, <1>15 DEF QueueInv, QueueInOrder

-----------------------------------------------------------------------------
(* Every step of the account keeps the queue in order; the steps of the    *)
(* return do not touch it.                                                 *)
LEMMA QueueStep == FxAssumption /\ QueueInv /\ [Next]_vars => QueueInv'
<1> SUFFICES ASSUME FxAssumption, QueueInv, [Next]_vars PROVE QueueInv'
  OBVIOUS
<1> USE DEF fxVars
<1>1. today \in Int
  BY DEF QueueInv, FxTypes
<1>2. CASE UNCHANGED vars
  BY <1>1, <1>2, QueueUntouched DEF vars
<1>3. CASE \E amount \in Amounts : LoseRow(amount)
  BY <1>1, <1>3, QueueUntouched DEF LoseRow
<1>4. CASE \E amount \in Amounts, rate \in Rates : ReadRow(amount, rate)
  BY <1>4, ReadRowStep
<1>5. CASE Extend
  BY <1>5, ExtendStep
<1>6. CASE Consume
  BY <1>6, ConsumeStep
<1>7. CASE \E event : Book(event)
  BY <1>1, <1>7, QueueUntouched DEF Book
<1>8. CASE Pass
  BY <1>1, <1>8, QueueUntouched DEF Pass
<1>9. CASE File
  BY <1>1, <1>9, QueueUntouched DEF File
<1> QED
  BY <1>2, <1>3, <1>4, <1>5, <1>6, <1>7, <1>8, <1>9
     DEF Next, Place, Buy, Sell, PayDividend, PayInterest

(***************************************************************************)
(* compute_fx_fifo() never mixes held and borrowed lots and never touches  *)
(* a lot before an older one is used up, whatever rows the export has.     *)
(***************************************************************************)
THEOREM QueueIsInOrder == Spec => []QueueInOrder
<1>1. Init => QueueInv
  BY QueueInit, FxAssumption DEF Init
<1>2. QueueInv /\ [Next]_vars => QueueInv'
  BY QueueStep, FxAssumption
<1>3. QueueInv => QueueInOrder
  BY DEF QueueInv
<1> QED
  BY <1>1, <1>2, <1>3, PTL DEF Spec

-----------------------------------------------------------------------------
(* The bookings of a statement, and the figures that pass from one return   *)
(* to the next.                                                             *)
Bookings ==
  [kind : {"buy"}, symbol : Symbol, quantity : Nat, date : Nat]
    \cup [kind : {"sell"}, symbol : Symbol, quantity : Nat, date : Nat, gross : Int, old : Int]
    \cup [kind : {"dividend"}, symbol : Symbol, date : Nat, gross : Int, withheld : Int]
    \cup [kind : {"interest"}, date : Nat, symbol : {"cash"}, gross : Int]

Figures == [stock : Nat, other : Nat, vp : [Symbol -> Nat]]

KapForm == [zeile19 : Int, zeile20 : Int, zeile22 : Int, zeile23 : Int, zeile41 : Int]

KapInvForm == [distributions : Int, gains : Int, losses : Int]

Lumps == UNION {[funds -> Nat] : funds \in SUBSET Symbol}

TaxReturns ==
  [stock : Int, general : Int, stockTaxed : Nat, generalTaxed : Nat,
   stockNext : Nat, otherNext : Nat, allowanceUsed : Int, taxable : Int, assessed : Int,
   kap : KapForm, kapInv : [{"Equity", "Mixed", "Bond"} -> KapInvForm],
   vp : Lumps, accumulatedAfter : Lumps, reduced : [Symbol -> Nat]]

ReturnTypes ==
  /\ today \in Nat
  /\ log \in Seq(Bookings)
  /\ navs \in Seq([Symbol -> [jan1 : Nat, dec31 : Nat]])
  /\ Len(navs) = YearOf(today)
  /\ config \in Figures
  /\ filed \in Seq(TaxReturns)
  /\ Len(filed) <= YearOf(today)

(***************************************************************************)
(* What a booking says, by its kind.                                       *)
(***************************************************************************)
LEMMA Entries ==
  ASSUME ReturnTypes
  PROVE  /\ DOMAIN log = 1 .. Len(log) /\ Len(log) \in Nat /\ IsFiniteSet(DOMAIN log)
         /\ \A i \in DOMAIN log :
              /\ log[i].date \in Nat
              /\ log[i].kind \in {"buy", "sell"} => Quantity(i) \in Nat
              /\ log[i].kind # "interest" => log[i].symbol \in Symbol
              /\ log[i].kind # "buy" => Gross(i) \in Int
              /\ log[i].kind = "sell" => log[i].old \in Int
              /\ log[i].kind = "dividend" => log[i].withheld \in Int
<1>1. log \in Seq(Bookings)
  BY DEF ReturnTypes
<1>2. DOMAIN log = 1 .. Len(log) /\ Len(log) \in Nat
  BY <1>1
<1>3. IsFiniteSet(DOMAIN log)
  BY <1>2, FS_Interval
<1>4. \A i \in DOMAIN log : log[i] \in Bookings
  BY <1>1
<1> QED
  BY <1>2, <1>3, <1>4 DEF Bookings, Quantity, Gross

(***************************************************************************)
(* Any part of a statement can be added up.                                *)
(***************************************************************************)
LEMMA HoldingTypes ==
  ASSUME ReturnTypes, NEW s \in Symbol, NEW year \in Int, NEW st \in SUBSET DOMAIN log
  PROVE  /\ OpenPosition(s, st) \in Int
         /\ YearEndHoldings(s, year, st) \in Int
<1>1. ASSUME NEW kind \in {"buy", "sell"}, NEW part \in SUBSET DOMAIN log
      PROVE  SumOver(Booked(kind, s, part), Quantity) \in Int
  <2>1. IsFiniteSet(Booked(kind, s, part))
    BY Entries, FS_Subset DEF Booked
  <2>2. \A i \in Booked(kind, s, part) : Quantity(i) \in Int
    BY Entries DEF Booked
  <2> QED
    BY <2>1, <2>2, SumInteger DEF SumOver, Summable
<1>2. \A part \in SUBSET DOMAIN log : OpenPosition(s, part) \in Int
  BY <1>1 DEF OpenPosition
<1> QED
  BY <1>2 DEF YearEndHoldings

(* The taxable portions of the four classes of funds, in twentieths.       *)
LEMMA Portions ==
  /\ TaxablePortion["None"] = 20 /\ TaxablePortion["Equity"] = 14
  /\ TaxablePortion["Mixed"] = 17 /\ TaxablePortion["Bond"] = 20
  /\ \A s \in Symbol : /\ FundClass[s] \in {"None", "Equity", "Mixed", "Bond"}
                       /\ TaxablePortion[FundClass[s]] \in Nat
BY ReturnAssumption DEF TaxablePortion, Whole

(* The figures of a sale are integers, the reduction by taxed lump sums    *)
(* is never negative.                                                      *)
LEMMA SaleTypes ==
  ASSUME ReturnTypes, NEW cfg \in Figures, NEW year \in Int, NEW st \in SUBSET DOMAIN log,
         NEW i \in SalesOf(year, st)
  PROVE  /\ i \in DOMAIN log /\ log[i].symbol \in Symbol
         /\ VpReduction(i, year, st, cfg) \in Nat
         /\ BeforeExemption(i, year, st, cfg) \in Int
         /\ SaleTaxable(i, year, st, cfg) \in Int
<1>1. i \in DOMAIN log /\ log[i].kind = "sell"
  BY DEF SalesOf, OfYear
<1>2. log[i].symbol \in Symbol /\ Gross(i) \in Int /\ log[i].old \in Int
  BY <1>1, Entries
<1>3. VpReduction(i, year, st, cfg) \in Nat
  BY <1>2 DEF VpReduction, Figures
<1>4. BeforeExemption(i, year, st, cfg) \in Int
  BY <1>2, <1>3 DEF BeforeExemption
<1>5. SaleTaxable(i, year, st, cfg) \in Int
  BY <1>2, <1>4, Portions DEF SaleTaxable, Teilfreistellung
<1> QED
  BY <1>1, <1>2, <1>3, <1>4, <1>5

(* The figures of a dividend are integers.                                 *)
LEMMA DividendTypes ==
  ASSUME ReturnTypes, NEW year \in Int, NEW st \in SUBSET DOMAIN log,
         NEW i \in DividendsOf(year, st)
  PROVE  /\ i \in DOMAIN log /\ log[i].symbol \in Symbol
         /\ Gross(i) \in Int
         /\ DividendTaxable(i) \in Int
         /\ CreditableForeignTax(i) \in Int
<1>1. i \in DOMAIN log /\ log[i].kind = "dividend"
  BY DEF DividendsOf, OfYear
<1>2. log[i].symbol \in Symbol /\ Gross(i) \in Int /\ log[i].withheld \in Int
  BY <1>1, Entries
<1>3. DividendTaxable(i) \in Int
  BY <1>2, Portions DEF DividendTaxable, Teilfreistellung
<1>4. CreditableForeignTax(i) \in Int
  BY <1>2 DEF CreditableForeignTax, Most, Least, Whole
<1> QED
  BY <1>1, <1>2, <1>3, <1>4

(* The currency gains of a year are finitely many integers.                *)
LEMMA FxTypesOfGains ==
  ASSUME FxTypes, NEW year \in Int
  PROVE  IsFiniteSet(FxGains(year)) /\ \A k \in FxGains(year) : Gain(k) \in Int
<1>1. taxable \in Seq(RealizedType)
  BY DEF FxTypes
<1>2. DOMAIN taxable = 1 .. Len(taxable) /\ Len(taxable) \in Nat
  BY <1>1
<1>3. \A k \in DOMAIN taxable : taxable[k] \in RealizedType
  BY <1>1
<1>4. IsFiniteSet(DOMAIN taxable)
  BY <1>2, FS_Interval
<1>5. FxGains(year) \subseteq DOMAIN taxable
  BY DEF FxGains, InYear
<1> QED
  BY <1>3, <1>4, <1>5, FS_Subset DEF Gain, RealizedType

(* Every part of a statement is finite, so its sums are those of the       *)
(* lemmas.                                                                 *)
LEMMA PartsAreFinite ==
  ASSUME ReturnTypes, NEW st \in SUBSET DOMAIN log
  PROVE  \A part \in SUBSET st : IsFiniteSet(part)
BY Entries, FS_Subset

(* The sales, dividends and interest of a year, and their shares and       *)
(* funds, are parts of the statement.                                      *)
LEMMA Subparts ==
  ASSUME NEW year, NEW st
  PROVE  /\ SalesOf(year, st) \in SUBSET st
         /\ DividendsOf(year, st) \in SUBSET st
         /\ InterestOf(year, st) \in SUBSET st
         /\ \A part \in SUBSET st : Share(part) \in SUBSET part /\ Fund(part) \in SUBSET part
BY DEF SalesOf, DividendsOf, InterestOf, OfYear, Share, Fund

(***************************************************************************)
(* The results of either pot and the lines of the forms are numbers.       *)
(***************************************************************************)
LEMMA ResultTypes ==
  ASSUME ReturnTypes, FxTypes, NEW cfg \in Figures, NEW year \in Int,
         NEW st \in SUBSET DOMAIN log
  PROVE  /\ StockResult(year, st, cfg) \in Int
         /\ GeneralResult(year, st, cfg) \in Int
<1>1. ASSUME NEW part \in SUBSET SalesOf(year, st)
      PROVE  SumOver(part, LAMBDA i : SaleTaxable(i, year, st, cfg)) \in Int
  <2>1. IsFiniteSet(part)
    BY PartsAreFinite, Subparts
  <2>2. \A i \in part : SaleTaxable(i, year, st, cfg) \in Int
    BY SaleTypes
  <2> QED
    BY <2>1, <2>2, SumInteger DEF SumOver, Summable
<1>2. SumOver(DividendsOf(year, st), DividendTaxable) \in Int
  <2>1. IsFiniteSet(DividendsOf(year, st))
    BY PartsAreFinite, Subparts
  <2>2. \A i \in DividendsOf(year, st) : DividendTaxable(i) \in Int
    BY DividendTypes
  <2> QED
    BY <2>1, <2>2, SumInteger DEF SumOver, Summable
<1>3. SumOver(InterestOf(year, st), Gross) \in Int
  <2>1. IsFiniteSet(InterestOf(year, st))
    BY PartsAreFinite, Subparts
  <2>2. \A i \in InterestOf(year, st) : Gross(i) \in Int
    BY Entries DEF InterestOf, OfYear
  <2> QED
    BY <2>1, <2>2, SumInteger DEF SumOver, Summable
<1>4. SumOver(FxGains(year), Gain) \in Int
  BY FxTypesOfGains, SumInteger DEF SumOver, Summable
<1>5. /\ Share(SalesOf(year, st)) \in SUBSET SalesOf(year, st)
      /\ Fund(SalesOf(year, st)) \in SUBSET SalesOf(year, st)
  BY DEF Share, Fund
<1>6. StockResult(year, st, cfg) \in Int
  BY <1>1, <1>5 DEF StockResult
<1>7. SumOver(Fund(SalesOf(year, st)), LAMBDA i : SaleTaxable(i, year, st, cfg)) \in Int
  BY <1>1, <1>5
<1> QED
  BY <1>2, <1>3, <1>4, <1>6, <1>7 DEF GeneralResult, Whole

(* Every box of the two forms is an integer, the boxes of losses are not   *)
(* negative.                                                               *)
LEMMA FormTypes ==
  ASSUME ReturnTypes, FxTypes, NEW cfg \in Figures, NEW year \in Int,
         NEW st \in SUBSET DOMAIN log
  PROVE  /\ AnlageKap(year, st, cfg) \in KapForm
         /\ \A class : AnlageKapInv(class, year, st, cfg) \in KapInvForm
<1>1. ASSUME NEW part \in SUBSET SalesOf(year, st)
      PROVE  /\ Positive(part, LAMBDA i : SaleTaxable(i, year, st, cfg)) \in Int
             /\ Negative(part, LAMBDA i : SaleTaxable(i, year, st, cfg)) \in Int
             /\ Positive(part, LAMBDA i : KapInvResult(i, year, st, cfg)) \in Int
             /\ Negative(part, LAMBDA i : KapInvResult(i, year, st, cfg)) \in Int
  <2>1. IsFiniteSet(part)
    BY PartsAreFinite, Subparts
  <2>2. \A i \in part : /\ Most(0, SaleTaxable(i, year, st, cfg)) \in Int
                        /\ Most(0, -SaleTaxable(i, year, st, cfg)) \in Int
                        /\ Most(0, KapInvResult(i, year, st, cfg)) \in Int
                        /\ Most(0, -KapInvResult(i, year, st, cfg)) \in Int
    BY SaleTypes DEF Most, KapInvResult
  <2> QED
    BY <2>1, <2>2, SumInteger DEF Positive, Negative, SumOver, Summable
<1>2. /\ Positive(FxGains(year), Gain) \in Int
      /\ Negative(FxGains(year), Gain) \in Int
  <2>1. \A k \in FxGains(year) : Most(0, Gain(k)) \in Int /\ Most(0, -Gain(k)) \in Int
    BY FxTypesOfGains DEF Most
  <2> QED
    BY <2>1, FxTypesOfGains, SumInteger DEF Positive, Negative, SumOver, Summable
<1>3. ASSUME NEW part \in SUBSET DividendsOf(year, st)
      PROVE  /\ SumOver(part, Gross) \in Int
             /\ SumOver(part, CreditableForeignTax) \in Int
  <2>1. IsFiniteSet(part)
    BY PartsAreFinite, Subparts
  <2>2. \A i \in part : Gross(i) \in Int /\ CreditableForeignTax(i) \in Int
    BY DividendTypes
  <2> QED
    BY <2>1, <2>2, SumInteger DEF SumOver, Summable
<1>4. SumOver(InterestOf(year, st), Gross) \in Int
  <2>1. IsFiniteSet(InterestOf(year, st))
    BY PartsAreFinite, Subparts
  <2>2. \A i \in InterestOf(year, st) : Gross(i) \in Int
    BY Entries DEF InterestOf, OfYear
  <2> QED
    BY <2>1, <2>2, SumInteger DEF SumOver, Summable
<1>5. /\ Share(SalesOf(year, st)) \in SUBSET SalesOf(year, st)
      /\ Share(DividendsOf(year, st)) \in SUBSET DividendsOf(year, st)
      /\ \A class : /\ OfClass(class, SalesOf(year, st)) \in SUBSET SalesOf(year, st)
                    /\ OfClass(class, DividendsOf(year, st)) \in SUBSET DividendsOf(year, st)
  BY DEF Share, OfClass
<1>6. AnlageKap(year, st, cfg) \in KapForm
  <2>1. Zeile20(year, st, cfg) \in Int
    BY <1>1, <1>5 DEF Zeile20
  <2>2. Zeile23(year, st, cfg) \in Int
    BY <1>1, <1>5 DEF Zeile23
  <2>3. Zeile22(year) \in Int
    BY <1>2 DEF Zeile22, Whole
  <2>4. Zeile41(year, st) \in Int
    BY <1>3 DEF Zeile41
  <2>5. KapPositive(year, st, cfg) \in Int
    BY <1>2, <1>3, <1>4, <1>5, <2>1 DEF KapPositive, Whole
  <2> QED
    BY <2>1, <2>2, <2>3, <2>4, <2>5 DEF AnlageKap, KapForm
<1>7. \A class : AnlageKapInv(class, year, st, cfg) \in KapInvForm
  BY <1>1, <1>3, <1>5 DEF AnlageKapInv, KapInvForm
<1> QED
  BY <1>6, <1>7

(* A lump sum is never negative: the base yield is not, and it is capped   *)
(* by a gain that is at least zero.                                        *)
LEMMA LumpTypes ==
  ASSUME ReturnTypes, NEW year \in 0 .. Len(navs) - 1, NEW st \in SUBSET DOMAIN log,
         NEW s \in Symbol
  PROVE  Vorabpauschale(s, year, st) \in Nat
<1> DEFINE held == YearEndHoldings(s, year, st)
           nav == navs[year + 1][s]
           basis == (nav.jan1 * held * BaseYield[1]) \div BaseYield[2]
           paid == Distributions(s, year, st)
           increase == Most(0, (nav.dec31 - nav.jan1) * held)
           months == MonthsBefore(s, year, st)
           uncapped == Most(0, Least(basis - paid, increase))
<1>1. held \in Int
  BY HoldingTypes
<1>2. nav.jan1 \in Nat /\ nav.dec31 \in Nat
  <2>1. year + 1 \in DOMAIN navs
    BY DEF ReturnTypes
  <2>2. navs[year + 1] \in [Symbol -> [jan1 : Nat, dec31 : Nat]]
    BY <2>1 DEF ReturnTypes
  <2> QED
    BY <2>2
<1>3. paid \in Int
  <2> DEFINE part == {i \in DividendsOf(year, st) : log[i].symbol = s}
  <2>1. IsFiniteSet(part)
    BY PartsAreFinite, Subparts
  <2>2. \A i \in part : Gross(i) \in Int
    BY DividendTypes
  <2>3. SumOver(part, Gross) \in Int
    BY <2>1, <2>2, SumInteger DEF SumOver, Summable
  <2> QED
    BY <2>3 DEF Distributions
<1>4. months \in {0, 6}
  BY DEF MonthsBefore
<1>5. basis \in Int
  <2>1. BaseYield[1] \in Int /\ BaseYield[2] \in Nat \ {0}
    BY ReturnAssumption
  <2>2. nav.jan1 * held * BaseYield[1] \in Int
    BY <1>1, <1>2, <2>1
  <2> QED
    BY <2>1, <2>2
<1>6. increase \in Int
  <2>1. (nav.dec31 - nav.jan1) * held \in Int
    BY <1>1, <1>2
  <2> QED
    BY <2>1 DEF Most
<1>7. Vorabpauschale(s, year, st) = (uncapped * (12 - months)) \div 12
  BY DEF Vorabpauschale
<1> HIDE DEF held, nav, basis, paid, increase, months
<1>8. uncapped \in Nat
  BY <1>3, <1>5, <1>6 DEF Most, Least
<1> HIDE DEF uncapped
<1>9. CASE months = 0
  BY <1>7, <1>8, <1>9
<1>10. CASE months = 6
  BY <1>7, <1>8, <1>10
<1> QED
  BY <1>4, <1>9, <1>10

(***************************************************************************)
(* Of the sales of a fund which is gone the first one is reduced, by all   *)
(* that is carried; no other sale is.                                      *)
(***************************************************************************)
LEMMA ReducedOnce ==
  ASSUME ReturnTypes, NEW cfg \in Figures, NEW year \in Int, NEW st \in SUBSET DOMAIN log,
         NEW s \in Symbol
  PROVE  Reduced(s, year, st, cfg)
           = IF /\ IsFund(s) /\ ~HeldAtYearEnd(s, year, st)
                /\ \E i \in SalesOf(year, st) : log[i].symbol = s
             THEN cfg.vp[s] ELSE 0
<1> DEFINE part == {i \in SalesOf(year, st) : log[i].symbol = s}
           f == [i \in part |-> VpReduction(i, year, st, cfg)]
<1>1. Reduced(s, year, st, cfg) = SumFunctionOnSet(f, part)
  BY DEF Reduced, SumOver
<1>2. IsFiniteSet(part) /\ part \subseteq DOMAIN log
  BY PartsAreFinite, Subparts DEF SalesOf, OfYear
<1>3. \A i \in part : /\ f[i] \in Int
                      /\ f[i] = IF /\ IsFund(s) /\ ~HeldAtYearEnd(s, year, st)
                                   /\ \A j \in part : i <= j
                                THEN cfg.vp[s] ELSE 0
  <2>1. \A i \in part : FirstSale(i, year, st) <=> \A j \in part : i <= j
    BY DEF FirstSale
  <2> QED
    BY <2>1, SaleTypes DEF VpReduction
<1> HIDE DEF f
<1>4. CASE ~(/\ IsFund(s) /\ ~HeldAtYearEnd(s, year, st)
             /\ \E i \in SalesOf(year, st) : log[i].symbol = s)
  <2>1. \A i \in part : f[i] = 0
    BY <1>3, <1>4
  <2>2. SumFunctionOnSet(f, part) = 0
    BY <1>2, <2>1, SumZero
  <2> QED
    BY <1>1, <1>4, <2>2
<1>5. CASE /\ IsFund(s) /\ ~HeldAtYearEnd(s, year, st)
           /\ \E i \in SalesOf(year, st) : log[i].symbol = s
  <2>1. part # {} /\ part \subseteq Nat
    BY <1>2, <1>5, Entries
  <2>2. PICK first \in part : \A j \in part : first <= j
    <3> HIDE DEF part
    <3>1. PICK first \in part : \A j \in part : <<j, first>> \notin OpToRel(<, Nat)
      BY <2>1, NatLessThanWellFounded, WFMin
    <3>2. \A j \in part : j \in Nat /\ first \in Nat
      BY <2>1
    <3>3. \A j \in part : ~(j < first)
      BY <3>1, <3>2 DEF OpToRel
    <3> QED
      BY <3>2, <3>3
  <2>3. \A i \in part \ {first} : f[i] = 0
    <3>1. part \subseteq Nat
      BY <2>1
    <3> QED
      BY <1>3, <2>2, <3>1
  <2>4. Summable(f, part)
    BY <1>2, <1>3 DEF Summable
  <2> HIDE DEF part
  <2>5. SumFunctionOnSet(f, part) = f[first]
    BY <2>2, <2>3, <2>4, SumSingle
  <2> QED
    BY <1>1, <1>3, <1>5, <2>2, <2>5
<1> QED
  BY <1>4, <1>5

-----------------------------------------------------------------------------
(***************************************************************************)
(* A pot is taxed or it carries a loss, and loses nothing of either.       *)
(***************************************************************************)
LEMMA PotRule ==
  ASSUME NEW net \in Int, NEW prior \in Nat
  PROVE  LET pot == WithLossCarryforward(net, prior)
         IN  /\ pot.taxed \in Nat /\ pot.next \in Nat
             /\ pot.taxed - pot.next = net - prior
             /\ pot.taxed > 0 => pot.next = 0
BY DEF WithLossCarryforward, Least

(* The parts of a return that are functions.                                *)
LumpSums(year, st) == [s \in LumpFunds(year, st) |-> Vorabpauschale(s, year, st)]

LumpsSoFar(year, st, cfg) ==
  [s \in LumpFunds(year, st) |-> cfg.vp[s] + Vorabpauschale(s, year, st)]

Reductions(year, st, cfg) == [s \in Symbol |-> Reduced(s, year, st, cfg)]

FundForms(year, st, cfg) ==
  [class \in {"Equity", "Mixed", "Bond"} |-> AnlageKapInv(class, year, st, cfg)]

(***************************************************************************)
(* What a return says.                                                     *)
(***************************************************************************)
LEMMA ReturnOfYear ==
  ASSUME ReturnTypes, FxTypes, NEW cfg \in Figures, NEW year \in 0 .. Len(navs) - 1,
         NEW st \in SUBSET DOMAIN log,
         NEW r, r = ComputeTaxYear(year, st, cfg)
  PROVE  /\ r \in TaxReturns
         /\ r.stock = StockResult(year, st, cfg)
         /\ r.general = GeneralResult(year, st, cfg)
         /\ r.stockTaxed - r.stockNext = r.stock - cfg.stock
         /\ r.generalTaxed - r.otherNext = r.general - cfg.other
         /\ r.stockTaxed > 0 => r.stockNext = 0
         /\ r.generalTaxed > 0 => r.otherNext = 0
         /\ r.kap = AnlageKap(year, st, cfg)
         /\ r.kapInv = FundForms(year, st, cfg)
         /\ r.vp = LumpSums(year, st)
         /\ r.accumulatedAfter = LumpsSoFar(year, st, cfg)
         /\ r.reduced = Reductions(year, st, cfg)
<1> DEFINE stock == StockResult(year, st, cfg)
           general == GeneralResult(year, st, cfg)
           stockPot == WithLossCarryforward(stock, cfg.stock)
           otherPot == WithLossCarryforward(general, cfg.other)
           kap == AnlageKap(year, st, cfg)
           kapInv == FundForms(year, st, cfg)
           before == stockPot.taxed + otherPot.taxed
           base == Most(0, before - Allowance)
           vp == LumpSums(year, st)
           sum == LumpsSoFar(year, st, cfg)
           reduced == Reductions(year, st, cfg)
<1>1. r = [stock |-> stock, general |-> general,
           stockTaxed |-> stockPot.taxed, generalTaxed |-> otherPot.taxed,
           stockNext |-> stockPot.next, otherNext |-> otherPot.next,
           allowanceUsed |-> Least(Allowance, before),
           taxable |-> base,
           assessed |-> Most(0, base - 4 * kap.zeile41),
           kap |-> kap, kapInv |-> kapInv,
           vp |-> vp, accumulatedAfter |-> sum, reduced |-> reduced]
  BY DEF ComputeTaxYear, LumpSums, LumpsSoFar, Reductions, FundForms
<1>2. year \in Int /\ cfg.stock \in Nat /\ cfg.other \in Nat /\ cfg.vp \in [Symbol -> Nat]
  BY DEF Figures
<1>3. stock \in Int /\ general \in Int
  BY <1>2, ResultTypes
<1>4. kap \in KapForm /\ kapInv \in [{"Equity", "Mixed", "Bond"} -> KapInvForm]
  BY <1>2, FormTypes DEF FundForms
<1>5. /\ stockPot.taxed \in Nat /\ stockPot.next \in Nat
      /\ stockPot.taxed - stockPot.next = stock - cfg.stock
      /\ stockPot.taxed > 0 => stockPot.next = 0
      /\ otherPot.taxed \in Nat /\ otherPot.next \in Nat
      /\ otherPot.taxed - otherPot.next = general - cfg.other
      /\ otherPot.taxed > 0 => otherPot.next = 0
  BY <1>2, <1>3, PotRule
<1>6. vp \in Lumps /\ sum \in Lumps
  <2>1. LumpFunds(year, st) \in SUBSET Symbol
    BY DEF LumpFunds
  <2>2. \A s \in Symbol : Vorabpauschale(s, year, st) \in Nat /\ cfg.vp[s] \in Nat
    BY <1>2, LumpTypes
  <2>3. /\ vp \in [LumpFunds(year, st) -> Nat]
        /\ sum \in [LumpFunds(year, st) -> Nat]
    BY <2>1, <2>2 DEF LumpSums, LumpsSoFar
  <2> HIDE DEF vp, sum
  <2> QED
    BY <2>1, <2>3 DEF Lumps
<1>7. reduced \in [Symbol -> Nat]
  <2>1. ASSUME NEW s \in Symbol PROVE Reduced(s, year, st, cfg) \in Nat
    <3>1. cfg.vp[s] \in Nat
      BY <1>2
    <3>2. Reduced(s, year, st, cfg) \in {0, cfg.vp[s]}
      BY <1>2, ReducedOnce
    <3> QED
      BY <3>1, <3>2
  <2> QED
    BY <2>1 DEF Reductions
<1>8. /\ before \in Int /\ base \in Int /\ Least(Allowance, before) \in Int
      /\ kap.zeile41 \in Int
  <2>1. before \in Int
    BY <1>5
  <2>2. kap.zeile41 \in Int
    BY <1>4 DEF KapForm
  <2> HIDE DEF before, kap
  <2>3. Allowance \in Int
    BY ReturnAssumption
  <2> QED
    BY <2>1, <2>2, <2>3 DEF Most, Least
<1> HIDE DEF stock, general, stockPot, otherPot, kap, kapInv, before, base, vp, sum, reduced
<1>9. Most(0, base - 4 * kap.zeile41) \in Int
  BY <1>8 DEF Most
<1>10. /\ r.stock = stock /\ r.general = general
       /\ r.stockTaxed = stockPot.taxed /\ r.generalTaxed = otherPot.taxed
       /\ r.stockNext = stockPot.next /\ r.otherNext = otherPot.next
       /\ r.kap = kap /\ r.kapInv = kapInv /\ r.vp = vp /\ r.accumulatedAfter = sum
       /\ r.reduced = reduced
  BY <1>1
<1>11. r \in TaxReturns
  BY <1>1, <1>3, <1>4, <1>5, <1>6, <1>7, <1>8, <1>9 DEF TaxReturns
<1>12. /\ r.stockTaxed - r.stockNext = r.stock - cfg.stock
       /\ r.generalTaxed - r.otherNext = r.general - cfg.other
       /\ r.stockTaxed > 0 => r.stockNext = 0
       /\ r.generalTaxed > 0 => r.otherNext = 0
  BY <1>5, <1>10
<1> QED
  BY <1>10, <1>11, <1>12 DEF stock, general, kap, kapInv, vp, sum, reduced

-----------------------------------------------------------------------------
(* The initial statement, returns and values are of their types.           *)
LEMMA ReturnInit == Init => ReturnTypes
<1> SUFFICES ASSUME Init PROVE ReturnTypes
  OBVIOUS
<1>1. config \in Figures
  BY DEF Init, Figures
<1>2. today = 0 /\ YearOf(0) = 0
  BY DEF Init, FxInit, YearOf, HalfYears
<1> QED
  BY <1>1, <1>2 DEF Init, ReturnTypes

(* The year of a date grows by at most one from a day to the next.         *)
LEMMA YearsPass ==
  /\ \A date \in Nat : YearOf(date) \in Nat
  /\ \A date \in Nat : YearOf(date + 1) \in {YearOf(date), YearOf(date) + 1}
  /\ \A early, late \in Nat : early <= late => YearOf(early) <= YearOf(late)
BY DEF YearOf, HalfYears

(* Booking an event keeps the types.                                       *)
LEMMA BookKeepsTypes ==
  ASSUME ReturnTypes, NEW event \in Bookings, Book(event)
  PROVE  ReturnTypes'
<1>1. log' = Append(log, event) /\ UNCHANGED <<today, navs, config, filed>>
  BY DEF Book
<1>2. log' \in Seq(Bookings)
  BY <1>1 DEF ReturnTypes
<1> QED
  BY <1>1, <1>2 DEF ReturnTypes

(* The end of a day, with which a year may end and its values be           *)
(* recorded, keeps the types.                                              *)
LEMMA PassKeepsTypes ==
  ASSUME ReturnTypes, Pass
  PROVE  ReturnTypes'
<1>1. today' = today + 1 /\ today \in Nat /\ UNCHANGED <<log, config, filed>>
  BY DEF Pass, ReturnTypes
<1>2. Len(filed) \in Nat
  BY DEF ReturnTypes
<1>3. CASE YearOf(today') = YearOf(today)
  <2>1. UNCHANGED navs
    BY <1>3 DEF Pass
  <2> QED
    BY <1>1, <1>3, <2>1 DEF ReturnTypes
<1>4. CASE YearOf(today') # YearOf(today)
  <2>1. YearOf(today') = YearOf(today) + 1
    BY <1>1, <1>4, YearsPass
  <2> DEFINE held == {s \in Symbol : IsFund(s) /\ OpenPosition(s, DOMAIN log) > 0}
             prices(nav) == [s \in Symbol |-> IF s \in held THEN nav[s] ELSE NoNav]
  <2>2. PICK nav \in [held -> Navs] : navs' = Append(navs, prices(nav))
    BY <1>4 DEF Pass
  <2> HIDE DEF held
  <2>3. prices(nav) \in [Symbol -> [jan1 : Nat, dec31 : Nat]]
    BY <2>2, ReturnAssumption DEF NoNav
  <2> HIDE DEF prices
  <2>4. navs' \in Seq([Symbol -> [jan1 : Nat, dec31 : Nat]]) /\ Len(navs') = Len(navs) + 1
    BY <2>2, <2>3 DEF ReturnTypes
  <2>5. Len(filed) <= YearOf(today')
    BY <1>1, <1>2, <2>1, YearsPass DEF ReturnTypes
  <2> QED
    BY <1>1, <2>1, <2>4, <2>5 DEF ReturnTypes
<1> QED
  BY <1>3, <1>4

(***************************************************************************)
(* A return is filed for a year which is over, and its figures are carried.*)
(***************************************************************************)
LEMMA FileStep ==
  ASSUME ReturnTypes, FxTypes, File
  PROVE  \E r \in TaxReturns :
           /\ Len(filed) \in 0 .. Len(navs) - 1
           /\ r = ComputeTaxYear(Len(filed), DOMAIN log, config)
           /\ filed' = Append(filed, r)
           /\ config' = Carried(r, config)
           /\ config' \in Figures
           /\ UNCHANGED <<today, log, navs>>
<1> DEFINE r == ComputeTaxYear(Len(filed), DOMAIN log, config)
<1>1. Len(filed) \in Nat /\ Len(filed) < YearOf(today) /\ Len(navs) = YearOf(today)
  BY DEF File, ReturnTypes
<1>2. Len(filed) \in 0 .. Len(navs) - 1 /\ config \in Figures
  BY <1>1 DEF ReturnTypes
<1>3. /\ r \in TaxReturns
      /\ r.accumulatedAfter \in Lumps
      /\ DOMAIN r.accumulatedAfter = DOMAIN r.vp
  <2>1. DOMAIN log \in SUBSET DOMAIN log
    OBVIOUS
  <2>2. /\ r \in TaxReturns /\ r.vp = LumpSums(Len(filed), DOMAIN log)
        /\ r.accumulatedAfter = LumpsSoFar(Len(filed), DOMAIN log, config)
    BY <1>2, <2>1, ReturnOfYear
  <2> HIDE DEF r
  <2>3. DOMAIN r.vp = DOMAIN r.accumulatedAfter
    BY <2>2 DEF LumpSums, LumpsSoFar
  <2>4. r.accumulatedAfter \in Lumps
    BY <2>2 DEF TaxReturns
  <2> QED
    BY <2>2, <2>3, <2>4
<1>4. filed' = Append(filed, r)
  BY DEF File
<1> HIDE DEF r
<1>5. filed'[Len(filed')] = r
  <2>1. filed \in Seq(TaxReturns)
    BY DEF ReturnTypes
  <2> QED
    BY <1>3, <1>4, <2>1
<1>6. config' = Carried(r, config) /\ UNCHANGED <<today, log, navs>>
  BY <1>5 DEF File
<1>7. Carried(r, config) \in Figures
  <2>1. r.stockNext \in Nat /\ r.otherNext \in Nat
    BY <1>3 DEF TaxReturns
  <2>2. \A s \in DOMAIN r.vp : r.accumulatedAfter[s] \in Nat
    BY <1>3 DEF Lumps
  <2>3. config.vp \in [Symbol -> Nat]
    BY <1>2 DEF Figures
  <2>4. \A s \in Symbol : (IF r.reduced[s] > 0 THEN 0
                           ELSE IF s \in DOMAIN r.vp THEN r.accumulatedAfter[s]
                           ELSE config.vp[s]) \in Nat
    BY <2>2, <2>3
  <2> QED
    BY <2>1, <2>4 DEF Carried, Figures
<1> QED
  BY <1>2, <1>3, <1>4, <1>6, <1>7 DEF r

(* Every step keeps the types of the return.                               *)
LEMMA ReturnStep ==
  ASSUME ReturnTypes, FxTypes, [Next]_vars
  PROVE  ReturnTypes'
<1>1. CASE UNCHANGED <<today, returnVars>>
  BY <1>1 DEF ReturnTypes, returnVars
<1>2. ASSUME NEW s \in Symbol, NEW quantity \in 1 .. MaxHeld, Buy(s, quantity)
      PROVE  ReturnTypes'
  <2>1. quantity \in Nat /\ today \in Nat
    BY ReturnAssumption DEF ReturnTypes
  <2>2. [kind |-> "buy", symbol |-> s, quantity |-> quantity, date |-> today] \in Bookings
    BY <2>1 DEF Bookings
  <2> QED
    BY <1>2, <2>2, BookKeepsTypes DEF Buy
<1>3. ASSUME NEW s \in Symbol, NEW quantity \in 1 .. MaxHeld, NEW result \in SaleResults,
             Sell(s, quantity, result)
      PROVE  ReturnTypes'
  <2>1. quantity \in Nat /\ today \in Nat /\ result.gross \in Int /\ result.old \in Int
    BY ReturnAssumption DEF ReturnTypes
  <2>2. [kind |-> "sell", symbol |-> s, quantity |-> quantity, date |-> today,
         gross |-> result.gross, old |-> result.old] \in Bookings
    BY <2>1 DEF Bookings
  <2> QED
    BY <1>3, <2>2, BookKeepsTypes DEF Sell
<1>4. ASSUME NEW s \in Symbol, NEW payout \in Payouts, PayDividend(s, payout)
      PROVE  ReturnTypes'
  <2>1. today \in Nat /\ payout.gross \in Int /\ payout.withheld \in Int
    BY ReturnAssumption DEF ReturnTypes
  <2>2. [kind |-> "dividend", symbol |-> s, date |-> today,
         gross |-> payout.gross, withheld |-> payout.withheld] \in Bookings
    BY <2>1 DEF Bookings
  <2> QED
    BY <1>4, <2>2, BookKeepsTypes DEF PayDividend
<1>5. ASSUME NEW gross \in Interests, PayInterest(gross)
      PROVE  ReturnTypes'
  <2>1. today \in Nat /\ gross \in Int
    BY ReturnAssumption DEF ReturnTypes
  <2>2. [kind |-> "interest", date |-> today, symbol |-> "cash", gross |-> gross] \in Bookings
    BY <2>1 DEF Bookings
  <2> QED
    BY <1>5, <2>2, BookKeepsTypes DEF PayInterest
<1>6. CASE Pass
  BY <1>6, PassKeepsTypes
<1>7. CASE File
  <2>1. PICK r \in TaxReturns : /\ Len(filed) \in 0 .. Len(navs) - 1
                                /\ filed' = Append(filed, r)
                                /\ config' \in Figures
                                /\ UNCHANGED <<today, log, navs>>
    BY <1>7, FileStep
  <2>2. filed' \in Seq(TaxReturns) /\ Len(filed') = Len(filed) + 1
    BY <2>1 DEF ReturnTypes
  <2> QED
    BY <2>1, <2>2 DEF ReturnTypes
<1>8. CASE \E amount \in Amounts : \/ LoseRow(amount) /\ UNCHANGED returnVars
                                   \/ \E rate \in Rates : ReadRow(amount, rate)
                                                            /\ UNCHANGED returnVars
  BY <1>1, <1>8 DEF LoseRow, ReadRow
<1>9. CASE Place
  BY <1>1, <1>9 DEF Place, Extend, Consume
<1>10. CASE UNCHANGED vars
  BY <1>1, <1>10 DEF vars
<1> QED
  BY <1>2, <1>3, <1>4, <1>5, <1>6, <1>7, <1>8, <1>9, <1>10 DEF Next

-----------------------------------------------------------------------------
(***************************************************************************)
(* Losses: one more return adds its own figures to the sums of all.        *)
(***************************************************************************)
LEMMA SumsOfReturns ==
  ASSUME ReturnTypes, NEW r \in TaxReturns, filed' = Append(filed, r)
  PROVE  /\ StockTaxed' = StockTaxed + r.stockTaxed
         /\ StockEarned' = StockEarned + r.stock
         /\ GeneralTaxed' = GeneralTaxed + r.generalTaxed
         /\ GeneralEarned' = GeneralEarned + r.general
         /\ StockTaxed \in Int /\ StockEarned \in Int
         /\ GeneralTaxed \in Int /\ GeneralEarned \in Int
<1> DEFINE n == Len(filed)
<1>1. /\ filed \in Seq(TaxReturns) /\ n \in Nat /\ DOMAIN filed = 1 .. n
      /\ DOMAIN filed' = 1 .. n + 1 /\ filed'[n + 1] = r
      /\ \A i \in 1 .. n : filed'[i] = filed[i] /\ filed[i] \in TaxReturns
  BY DEF ReturnTypes
<1>2. \A i \in 1 .. n : /\ filed[i].stockTaxed \in Int /\ filed[i].stock \in Int
                        /\ filed[i].generalTaxed \in Int /\ filed[i].general \in Int
  <2>1. \A q \in TaxReturns : /\ q.stockTaxed \in Int /\ q.stock \in Int
                              /\ q.generalTaxed \in Int /\ q.general \in Int
    BY DEF TaxReturns
  <2> QED
    BY <1>1, <2>1
<1>3. /\ r.stockTaxed \in Int /\ r.stock \in Int
      /\ r.generalTaxed \in Int /\ r.general \in Int
  BY DEF TaxReturns
<1> DEFINE a == [i \in 1 .. n |-> filed[i].stockTaxed]
           b == [i \in 1 .. n |-> filed[i].stock]
           c == [i \in 1 .. n |-> filed[i].generalTaxed]
           d == [i \in 1 .. n |-> filed[i].general]
           a2 == [i \in 1 .. n + 1 |-> filed'[i].stockTaxed]
           b2 == [i \in 1 .. n + 1 |-> filed'[i].stock]
           c2 == [i \in 1 .. n + 1 |-> filed'[i].generalTaxed]
           d2 == [i \in 1 .. n + 1 |-> filed'[i].general]
<1>4. /\ StockTaxed = SumFunctionOnSet(a, 1 .. n)
      /\ StockEarned = SumFunctionOnSet(b, 1 .. n)
      /\ GeneralTaxed = SumFunctionOnSet(c, 1 .. n)
      /\ GeneralEarned = SumFunctionOnSet(d, 1 .. n)
  BY <1>1 DEF StockTaxed, StockEarned, GeneralTaxed, GeneralEarned, SumOf, SumOver
<1>5. /\ StockTaxed' = SumFunctionOnSet(a2, 1 .. n + 1)
      /\ StockEarned' = SumFunctionOnSet(b2, 1 .. n + 1)
      /\ GeneralTaxed' = SumFunctionOnSet(c2, 1 .. n + 1)
      /\ GeneralEarned' = SumFunctionOnSet(d2, 1 .. n + 1)
  BY <1>1 DEF StockTaxed, StockEarned, GeneralTaxed, GeneralEarned, SumOf, SumOver
<1>6. \A i \in 1 .. n : /\ a[i] \in Int /\ a2[i] = a[i] /\ b[i] \in Int /\ b2[i] = b[i]
                        /\ c[i] \in Int /\ c2[i] = c[i] /\ d[i] \in Int /\ d2[i] = d[i]
  BY <1>1, <1>2
<1>7. /\ a2[n + 1] = r.stockTaxed /\ b2[n + 1] = r.stock
      /\ c2[n + 1] = r.generalTaxed /\ d2[n + 1] = r.general
  BY <1>1
<1>8. IsFiniteSet(1 .. n)
  BY <1>1, FS_Interval
<1> HIDE DEF a, b, c, d, a2, b2, c2, d2
<1>9. /\ SumFunctionOnSet(a, 1 .. n) \in Int /\ SumFunctionOnSet(b, 1 .. n) \in Int
      /\ SumFunctionOnSet(c, 1 .. n) \in Int /\ SumFunctionOnSet(d, 1 .. n) \in Int
  BY <1>6, <1>8, SumInteger DEF Summable
<1>10. SumFunctionOnSet(a2, 1 .. n + 1) = SumFunctionOnSet(a, 1 .. n) + r.stockTaxed
  BY <1>1, <1>3, <1>6, <1>7, SumAppended
<1>11. SumFunctionOnSet(b2, 1 .. n + 1) = SumFunctionOnSet(b, 1 .. n) + r.stock
  BY <1>1, <1>3, <1>6, <1>7, SumAppended
<1>12. SumFunctionOnSet(c2, 1 .. n + 1) = SumFunctionOnSet(c, 1 .. n) + r.generalTaxed
  BY <1>1, <1>3, <1>6, <1>7, SumAppended
<1>13. SumFunctionOnSet(d2, 1 .. n + 1) = SumFunctionOnSet(d, 1 .. n) + r.general
  BY <1>1, <1>3, <1>6, <1>7, SumAppended
<1> QED
  BY <1>4, <1>5, <1>9, <1>10, <1>11, <1>12, <1>13

(* Making one more return.                                                  *)
LEMMA ReturnsGrow ==
  ASSUME ReturnTypes, NEW r, filed' = Append(filed, r)
  PROVE  Returns' = Returns \cup {r}
<1>1. filed \in Seq(TaxReturns)
  BY DEF ReturnTypes
<1>2. /\ DOMAIN filed = 1 .. Len(filed) /\ DOMAIN filed' = 1 .. Len(filed) + 1
      /\ Len(filed) \in Nat
      /\ filed'[Len(filed) + 1] = r /\ \A i \in DOMAIN filed : filed'[i] = filed[i]
  BY <1>1
<1> QED
  BY <1>2 DEF Returns

(* No step breaks LossesUsedOnce: only filing writes what it is about,     *)
(* and LossesFiled is about that.                                          *)
LEMMA LossesStep ==
  ASSUME ReturnTypes, FxTypes, LossesUsedOnce, [Next]_vars
  PROVE  LossesUsedOnce'
<1>1. CASE UNCHANGED <<filed, config>>
  BY <1>1 DEF LossesUsedOnce, Returns, StockTaxed, StockEarned, GeneralTaxed, GeneralEarned,
              SumOf, SumOver
<1>2. CASE File
  <2>1. PICK r \in TaxReturns :
          /\ Len(filed) \in 0 .. Len(navs) - 1
          /\ r = ComputeTaxYear(Len(filed), DOMAIN log, config)
          /\ filed' = Append(filed, r)
          /\ config' = Carried(r, config)
    BY <1>2, FileStep
  <2>2. DOMAIN log \in SUBSET DOMAIN log /\ config \in Figures
    BY DEF ReturnTypes
  <2>3. /\ r.stockTaxed - r.stockNext = r.stock - config.stock
        /\ r.generalTaxed - r.otherNext = r.general - config.other
        /\ r.stockTaxed > 0 => r.stockNext = 0
        /\ r.generalTaxed > 0 => r.otherNext = 0
    BY <2>1, <2>2, ReturnOfYear
  <2>4. /\ r.stockTaxed \in Nat /\ r.stockNext \in Nat /\ r.stock \in Int
        /\ r.generalTaxed \in Nat /\ r.otherNext \in Nat /\ r.general \in Int
        /\ config.stock \in Nat /\ config.other \in Nat
    BY <2>2 DEF TaxReturns, Figures
  <2>5. config'.stock = r.stockNext /\ config'.other = r.otherNext
    BY <2>1 DEF Carried
  <2>6. Returns' = Returns \cup {r}
    BY <2>1, ReturnsGrow
  <2>7. (\A q \in Returns : /\ q.stockTaxed >= 0 /\ q.stockNext >= 0
                            /\ q.stockTaxed > 0 => q.stockNext = 0
                            /\ q.generalTaxed >= 0 /\ q.otherNext >= 0
                            /\ q.generalTaxed > 0 => q.otherNext = 0)'
    BY <2>3, <2>4, <2>6 DEF LossesUsedOnce
  <2>8. /\ StockTaxed - StockEarned = config.stock
        /\ GeneralTaxed - GeneralEarned = config.other
    BY DEF LossesUsedOnce
  <2>9. /\ StockTaxed' = StockTaxed + r.stockTaxed
        /\ StockEarned' = StockEarned + r.stock
        /\ GeneralTaxed' = GeneralTaxed + r.generalTaxed
        /\ GeneralEarned' = GeneralEarned + r.general
        /\ StockTaxed \in Int /\ StockEarned \in Int
        /\ GeneralTaxed \in Int /\ GeneralEarned \in Int
    BY <2>1, SumsOfReturns
  <2>10. StockTaxed' - StockEarned' = config'.stock
    BY <2>3, <2>4, <2>5, <2>8, <2>9
  <2>11. GeneralTaxed' - GeneralEarned' = config'.other
    <3>1. /\ r.generalTaxed - r.otherNext = r.general - config.other
          /\ r.generalTaxed \in Int /\ r.otherNext \in Int /\ r.general \in Int
          /\ config.other \in Int
      BY <2>3, <2>4
    <3>2. /\ GeneralTaxed' - GeneralEarned'
                = (GeneralTaxed - GeneralEarned) + (r.generalTaxed - r.general)
      BY <2>9, <3>1
    <3> QED
      BY <2>5, <2>8, <3>1, <3>2
  <2> QED
    BY <2>7, <2>10, <2>11 DEF LossesUsedOnce
<1> QED
  BY <1>1, <1>2
     DEF Next, vars, returnVars, Place, Book, Buy, Sell, PayDividend, PayInterest, Pass

(***************************************************************************)
(* Across all returns, each loss of calculate_with_loss_carryforward() is  *)
(* used once: the figures that pass through the configuration neither lose *)
(* nor repeat one, whatever the years brought and whenever returns are made.*)
(***************************************************************************)
THEOREM EachLossUsedOnce == Spec => []LossesUsedOnce
<1> DEFINE Inv == QueueInv /\ ReturnTypes /\ LossesUsedOnce
<1>1. Init => Inv
  <2> SUFFICES ASSUME Init PROVE LossesUsedOnce
    BY QueueInit, FxAssumption, ReturnInit DEF Init
  <2>1. filed = <<>> /\ config.stock = 0 /\ config.other = 0
    BY DEF Init
  <2>2. DOMAIN filed = {}
    BY <2>1
  <2> QED
    BY <2>1, <2>2, SumEmpty DEF LossesUsedOnce, StockTaxed, StockEarned, GeneralTaxed, GeneralEarned,
                                   SumOf, SumOver, Returns
<1>2. Inv /\ [Next]_vars => Inv'
  BY QueueStep, FxAssumption, ReturnStep, LossesStep DEF QueueInv
<1>3. Inv => LossesUsedOnce
  OBVIOUS
<1> QED
  BY <1>1, <1>2, <1>3, PTL DEF Spec

-----------------------------------------------------------------------------
(***************************************************************************)
(* Positions: what is open after two parts of a statement is the sum of    *)
(* what either part opened.                                                *)
(***************************************************************************)
LEMMA PositionsAddUp ==
  ASSUME ReturnTypes, NEW s \in Symbol,
         NEW A \in SUBSET DOMAIN log, NEW B \in SUBSET DOMAIN log, A \cap B = {}
  PROVE  OpenPosition(s, A \cup B) = OpenPosition(s, A) + OpenPosition(s, B)
<1>1. ASSUME NEW kind \in {"buy", "sell"}
      PROVE  /\ SumOver(Booked(kind, s, A \cup B), Quantity)
                  = SumOver(Booked(kind, s, A), Quantity) + SumOver(Booked(kind, s, B), Quantity)
             /\ SumOver(Booked(kind, s, A), Quantity) \in Int
             /\ SumOver(Booked(kind, s, B), Quantity) \in Int
  <2> DEFINE all == Booked(kind, s, DOMAIN log)
             f == [i \in all |-> Quantity(i)]
             a == Booked(kind, s, A)
             b == Booked(kind, s, B)
             c == Booked(kind, s, A \cup B)
  <2>1. a \in SUBSET all /\ b \in SUBSET all /\ c = a \cup b /\ a \cap b = {}
    BY DEF Booked
  <2>2. IsFiniteSet(all) /\ \A i \in all : Quantity(i) \in Int
    BY Entries, FS_Subset DEF Booked
  <2>3. Summable(f, all)
    BY <2>2 DEF Summable
  <2>4. \A part \in SUBSET all :
          SumFunctionOnSet([i \in part |-> Quantity(i)], part) = SumFunctionOnSet(f, part)
    <3>1. TAKE part \in SUBSET all
    <3>2. Summable(f, part)
      BY <2>3, SummableSubset
    <3>3. \A i \in part : [j \in part |-> Quantity(j)][i] = f[i]
      OBVIOUS
    <3> QED
      BY <3>2, <3>3, SumSame
  <2>5. /\ SumOver(a, Quantity) = SumFunctionOnSet(f, a)
        /\ SumOver(b, Quantity) = SumFunctionOnSet(f, b)
        /\ SumOver(c, Quantity) = SumFunctionOnSet(f, c)
    BY <2>1, <2>4 DEF SumOver
  <2> HIDE DEF all, f, a, b, c
  <2>6. SumFunctionOnSet(f, c) = SumFunctionOnSet(f, a) + SumFunctionOnSet(f, b)
    BY <2>1, <2>3, SumUnion
  <2>7. SumFunctionOnSet(f, a) \in Int /\ SumFunctionOnSet(f, b) \in Int
    BY <2>1, <2>3, SummableSubset, SumInteger
  <2>8. /\ SumOver(c, Quantity) = SumOver(a, Quantity) + SumOver(b, Quantity)
        /\ SumOver(a, Quantity) \in Int /\ SumOver(b, Quantity) \in Int
    BY <2>5, <2>6, <2>7
  <2> QED
    BY <2>8 DEF a, b, c
<1> QED
  BY <1>1 DEF OpenPosition

(* Without sales of it, the position in a fund is never negative.          *)
LEMMA NothingSold ==
  ASSUME ReturnTypes, NEW s \in Symbol, NEW part \in SUBSET DOMAIN log,
         \A i \in part : ~(log[i].kind = "sell" /\ log[i].symbol = s)
  PROVE  OpenPosition(s, part) \in Nat
<1>1. Booked("sell", s, part) = {}
  BY DEF Booked
<1>2. SumOver(Booked("sell", s, part), Quantity) = 0
  BY <1>1, SumEmpty DEF SumOver
<1>3. SumOver(Booked("buy", s, part), Quantity) \in Nat
  <2>1. IsFiniteSet(Booked("buy", s, part))
    BY Entries, FS_Subset DEF Booked
  <2>2. \A i \in Booked("buy", s, part) : Quantity(i) \in Nat
    BY Entries DEF Booked
  <2> QED
    BY <2>1, <2>2, SumNatural DEF SumOver
<1> QED
  BY <1>2, <1>3 DEF OpenPosition

(***************************************************************************)
(* year_end_holdings() arrives at what the year left, however long the     *)
(* statement goes on.                                                      *)
(***************************************************************************)
LEMMA YearEndIsThen ==
  ASSUME ReturnTypes, NEW s \in Symbol, NEW year \in Int
  PROVE  /\ YearEndHoldings(s, year, DOMAIN log) = OpenPosition(s, UpTo(year))
         /\ YearEndHoldings(s, year, UpTo(year)) = OpenPosition(s, UpTo(year))
<1> DEFINE later == {i \in DOMAIN log : YearOf(log[i].date) > year}
<1>0. \A i \in DOMAIN log : YearOf(log[i].date) \in Nat
  BY Entries, YearsPass
<1>1. /\ UpTo(year) \in SUBSET DOMAIN log /\ later \in SUBSET DOMAIN log
      /\ UpTo(year) \cap later = {} /\ UpTo(year) \cup later = DOMAIN log
      /\ {i \in UpTo(year) : YearOf(log[i].date) > year} = {}
  BY <1>0 DEF UpTo
<1>2. OpenPosition(s, DOMAIN log) = OpenPosition(s, UpTo(year)) + OpenPosition(s, later)
  BY <1>1, PositionsAddUp
<1>3. OpenPosition(s, UpTo(year)) \in Int /\ OpenPosition(s, later) \in Int
  BY <1>1, HoldingTypes
<1>4. OpenPosition(s, {}) = 0
  <2>1. OpenPosition(s, UpTo(year) \cup {}) = OpenPosition(s, UpTo(year)) + OpenPosition(s, {})
    BY <1>1, PositionsAddUp
  <2>2. UpTo(year) \cup {} = UpTo(year) /\ OpenPosition(s, {}) \in Int
    BY HoldingTypes
  <2> QED
    BY <1>3, <2>1, <2>2
<1>5. YearEndHoldings(s, year, DOMAIN log) = OpenPosition(s, DOMAIN log) - OpenPosition(s, later)
  BY DEF YearEndHoldings
<1>6. YearEndHoldings(s, year, UpTo(year)) = OpenPosition(s, UpTo(year)) - OpenPosition(s, {})
  BY <1>1 DEF YearEndHoldings
<1> QED
  BY <1>2, <1>3, <1>4, <1>5, <1>6

(***************************************************************************)
(* A position that is gone at the end of a year was sold in it, or before. *)
(***************************************************************************)
LEMMA SoldInTheYear ==
  ASSUME ReturnTypes, NEW s \in Symbol, NEW year \in Int,
         OpenPosition(s, UpTo(year - 1)) > 0,
         ~HeldAtYearEnd(s, year, DOMAIN log)
  PROVE  \E i \in SalesOf(year, DOMAIN log) : log[i].symbol = s
<1> SUFFICES ASSUME \A i \in SalesOf(year, DOMAIN log) : log[i].symbol # s
             PROVE  FALSE
  OBVIOUS
<1> DEFINE during == {i \in DOMAIN log : YearOf(log[i].date) = year}
<1>0. \A i \in DOMAIN log : YearOf(log[i].date) \in Nat
  BY Entries, YearsPass
<1>1. /\ UpTo(year - 1) \in SUBSET DOMAIN log /\ during \in SUBSET DOMAIN log
      /\ UpTo(year - 1) \cap during = {} /\ UpTo(year - 1) \cup during = UpTo(year)
  BY <1>0 DEF UpTo
<1>2. OpenPosition(s, UpTo(year)) = OpenPosition(s, UpTo(year - 1)) + OpenPosition(s, during)
  BY <1>1, PositionsAddUp
<1>3. OpenPosition(s, during) \in Nat
  BY <1>1, NothingSold DEF SalesOf, OfYear
<1>4. OpenPosition(s, UpTo(year - 1)) \in Int
  BY <1>1, HoldingTypes
<1>5. ~(OpenPosition(s, UpTo(year)) > 0)
  BY YearEndIsThen DEF HeldAtYearEnd
<1> QED
  BY <1>2, <1>3, <1>4, <1>5

-----------------------------------------------------------------------------
(* What a return taxes of a fund's yield in advance.                        *)
LumpOf(r, s) == IF s \in DOMAIN r.vp THEN r.vp[s] ELSE 0

(* Filing adds the lump sum and the reduction of the new return to the     *)
(* sums over all returns.                                                  *)
LEMMA SumsOfLumps ==
  ASSUME ReturnTypes, NEW r \in TaxReturns, filed' = Append(filed, r), NEW s \in Symbol
  PROVE  /\ LumpsTaxed(s)' = LumpsTaxed(s) + LumpOf(r, s)
         /\ LumpsTakenOff(s)' = LumpsTakenOff(s) + r.reduced[s]
         /\ LumpsTaxed(s) \in Int /\ LumpsTakenOff(s) \in Int
<1> DEFINE n == Len(filed)
<1>1. /\ filed \in Seq(TaxReturns) /\ n \in Nat /\ DOMAIN filed = 1 .. n
      /\ DOMAIN filed' = 1 .. n + 1 /\ filed'[n + 1] = r
      /\ \A i \in 1 .. n : filed'[i] = filed[i] /\ filed[i] \in TaxReturns
  BY DEF ReturnTypes
<1>2. \A q \in TaxReturns : LumpOf(q, s) \in Int /\ q.reduced[s] \in Int
  <2>1. \A q \in TaxReturns : q.vp \in Lumps /\ q.reduced \in [Symbol -> Nat]
    BY DEF TaxReturns
  <2>2. \A f \in Lumps : \A t \in DOMAIN f : f[t] \in Nat
    BY DEF Lumps
  <2> QED
    BY <2>1, <2>2 DEF LumpOf
<1> DEFINE a == [i \in 1 .. n |-> LumpOf(filed[i], s)]
           b == [i \in 1 .. n |-> filed[i].reduced[s]]
           a2 == [i \in 1 .. n + 1 |-> LumpOf(filed'[i], s)]
           b2 == [i \in 1 .. n + 1 |-> filed'[i].reduced[s]]
<1>3. /\ LumpsTaxed(s) = SumFunctionOnSet(a, 1 .. n)
      /\ LumpsTakenOff(s) = SumFunctionOnSet(b, 1 .. n)
  BY <1>1 DEF LumpsTaxed, LumpsTakenOff, SumOf, SumOver, LumpOf
<1>4. /\ LumpsTaxed(s)' = SumFunctionOnSet(a2, 1 .. n + 1)
      /\ LumpsTakenOff(s)' = SumFunctionOnSet(b2, 1 .. n + 1)
  BY <1>1 DEF LumpsTaxed, LumpsTakenOff, SumOf, SumOver, LumpOf
<1>5. \A i \in 1 .. n : a[i] \in Int /\ a2[i] = a[i] /\ b[i] \in Int /\ b2[i] = b[i]
  BY <1>1, <1>2
<1>6. /\ a2[n + 1] = LumpOf(r, s) /\ b2[n + 1] = r.reduced[s]
      /\ LumpOf(r, s) \in Int /\ r.reduced[s] \in Int
  BY <1>1, <1>2
<1>7. IsFiniteSet(1 .. n)
  <2>1. 1 \in Int /\ n \in Int
    BY <1>1
  <2> HIDE DEF n
  <2> QED
    BY <2>1, FS_Interval
<1> HIDE DEF a, b, a2, b2
<1>8. SumFunctionOnSet(a, 1 .. n) \in Int /\ SumFunctionOnSet(b, 1 .. n) \in Int
  BY <1>5, <1>7, SumInteger DEF Summable
<1>9. SumFunctionOnSet(a2, 1 .. n + 1) = SumFunctionOnSet(a, 1 .. n) + LumpOf(r, s)
  BY ZenonT(30), <1>1, <1>5, <1>6, SumAppended
<1>10. SumFunctionOnSet(b2, 1 .. n + 1) = SumFunctionOnSet(b, 1 .. n) + r.reduced[s]
  BY ZenonT(30), <1>1, <1>5, <1>6, SumAppended
<1> QED
  BY <1>3, <1>4, <1>8, <1>9, <1>10

(***************************************************************************)
(* A booking does not change what was open at the end of an earlier year.  *)
(***************************************************************************)
LEMMA EarlierYearsStand ==
  ASSUME ReturnTypes, NEW event \in Bookings, log' = Append(log, event),
         event.date = today, NEW year \in Int, year < YearOf(today), NEW s \in Symbol
  PROVE  OpenPosition(s, UpTo(year))' = OpenPosition(s, UpTo(year))
<1>1. /\ log \in Seq(Bookings) /\ Len(log) \in Nat
      /\ DOMAIN log = 1 .. Len(log) /\ DOMAIN log' = 1 .. Len(log) + 1
      /\ log'[Len(log) + 1] = event
      /\ \A i \in DOMAIN log : log'[i] = log[i]
  BY DEF ReturnTypes
<1>2. YearOf(today) \in Nat
  BY YearsPass DEF ReturnTypes
<1>3. UpTo(year)' = UpTo(year)
  BY <1>1, <1>2 DEF UpTo
<1>4. ASSUME NEW kind \in {"buy", "sell"}
      PROVE  SumOver(Booked(kind, s, UpTo(year)), Quantity)'
               = SumOver(Booked(kind, s, UpTo(year)), Quantity)
  <2> DEFINE part == Booked(kind, s, UpTo(year))
             f == [i \in part |-> log[i].quantity]
             g == [i \in part |-> log'[i].quantity]
  <2>1. part \in SUBSET DOMAIN log
    BY DEF Booked, UpTo
  <2>2. Booked(kind, s, UpTo(year))' = part
    <3>1. {i \in UpTo(year) : log'[i].kind = kind /\ log'[i].symbol = s}
            = {i \in UpTo(year) : log[i].kind = kind /\ log[i].symbol = s}
      BY <1>1 DEF UpTo
    <3> QED
      BY <1>3, <3>1 DEF Booked
  <2>3. Summable(f, part)
    <3>1. IsFiniteSet(part)
      BY <2>1, Entries, FS_Subset
    <3>2. \A i \in part : log[i].quantity \in Int
      BY <2>1, Entries DEF Booked, Quantity
    <3> QED
      BY <3>1, <3>2 DEF Summable
  <2>4. \A i \in part : g[i] = f[i]
    BY <1>1, <2>1
  <2>5. SumFunctionOnSet(g, part) = SumFunctionOnSet(f, part)
    <3> HIDE DEF part, f, g
    <3> QED
      BY <2>3, <2>4, SumSame
  <2>6. SumOver(Booked(kind, s, UpTo(year)), Quantity) = SumFunctionOnSet(f, part)
    BY DEF SumOver, Quantity
  <2>7. SumOver(Booked(kind, s, UpTo(year)), Quantity)' = SumFunctionOnSet(g, part)
    <3>1. SumOver(Booked(kind, s, UpTo(year)), Quantity)'
            = SumFunctionOnSet([i \in Booked(kind, s, UpTo(year))' |-> log'[i].quantity],
                               Booked(kind, s, UpTo(year))')
      BY DEF SumOver, Quantity
    <3> QED
      BY <2>2, <3>1
  <2> QED
    BY <2>5, <2>6, <2>7
<1> QED
  BY <1>4 DEF OpenPosition

(* Lump sums are only carried for funds.                                    *)
OnlyFunds == \A s \in Symbol : config.vp[s] > 0 => IsFund(s)

(* Filing taxes a lump sum of the fund that it can take off only later,    *)
(* and takes off only what was taxed.                                      *)
LEMMA LumpsFiled ==
  ASSUME ReturnTypes, FxTypes, VorabpauschaleTaxedOnce, OnlyFunds, File
  PROVE  VorabpauschaleTaxedOnce' /\ OnlyFunds'
<1> DEFINE year == Len(filed)
<1>1. PICK r \in TaxReturns :
        /\ year \in 0 .. Len(navs) - 1
        /\ r = ComputeTaxYear(year, DOMAIN log, config)
        /\ filed' = Append(filed, r)
        /\ config' = Carried(r, config)
        /\ UNCHANGED <<today, log, navs>>
  BY FileStep
<1>2. DOMAIN log \in SUBSET DOMAIN log /\ config \in Figures /\ year \in Int
  BY <1>1 DEF ReturnTypes
<1>3. /\ r.vp = LumpSums(year, DOMAIN log)
      /\ r.accumulatedAfter = LumpsSoFar(year, DOMAIN log, config)
      /\ r.reduced = Reductions(year, DOMAIN log, config)
  BY <1>1, <1>2, ReturnOfYear
<1>4. Len(filed') - 1 = year
  <2>1. filed \in Seq(TaxReturns)
    BY DEF ReturnTypes
  <2> QED
    BY <1>1, <2>1
<1> SUFFICES ASSUME NEW s \in Symbol
             PROVE  /\ LumpsTaxed(s)' - LumpsTakenOff(s)' = config'.vp[s]
                    /\ config'.vp[s] > 0 => /\ OpenPosition(s, UpTo(Len(filed) - 1))' > 0
                                            /\ IsFund(s)
  BY DEF VorabpauschaleTaxedOnce, OnlyFunds
<1>5. OpenPosition(s, UpTo(Len(filed) - 1))' = OpenPosition(s, UpTo(year))
  <2>1. UpTo(Len(filed) - 1)' = UpTo(year)
    BY <1>1, <1>4 DEF UpTo
  <2> QED
    BY <1>1, <2>1 DEF OpenPosition, Booked, SumOver, Quantity
<1> DEFINE gone == /\ IsFund(s) /\ ~HeldAtYearEnd(s, year, DOMAIN log)
                   /\ \E i \in SalesOf(year, DOMAIN log) : log[i].symbol = s
           vp == config.vp[s]
           lump == Vorabpauschale(s, year, DOMAIN log)
<1>6. vp \in Nat /\ lump \in Nat
  BY <1>1, <1>2, LumpTypes DEF Figures
<1>7. r.reduced[s] = IF gone THEN vp ELSE 0
  BY <1>2, <1>3, ReducedOnce DEF Reductions
<1>8. LumpFunds(year, DOMAIN log) = DOMAIN r.vp
  BY <1>3 DEF LumpSums
<1>9. s \in DOMAIN r.vp => r.vp[s] = lump /\ r.accumulatedAfter[s] = vp + lump
  BY <1>3, <1>8 DEF LumpSums, LumpsSoFar
<1>10. s \in DOMAIN r.vp => IsFund(s) /\ HeldAtYearEnd(s, year, DOMAIN log)
  BY <1>8 DEF LumpFunds
<1>11. config'.vp[s] = IF r.reduced[s] > 0 THEN 0
                       ELSE IF s \in DOMAIN r.vp THEN r.accumulatedAfter[s]
                       ELSE vp
  BY <1>1 DEF Carried
<1>12. /\ LumpsTaxed(s)' = LumpsTaxed(s) + LumpOf(r, s)
       /\ LumpsTakenOff(s)' = LumpsTakenOff(s) + r.reduced[s]
       /\ LumpsTaxed(s) \in Int /\ LumpsTakenOff(s) \in Int
  BY <1>1, SumsOfLumps
<1>13. /\ LumpsTaxed(s) - LumpsTakenOff(s) = vp
       /\ vp > 0 => OpenPosition(s, UpTo(year - 1)) > 0
       /\ vp > 0 => IsFund(s)
  BY DEF VorabpauschaleTaxedOnce, OnlyFunds
<1>14. vp > 0 /\ ~HeldAtYearEnd(s, year, DOMAIN log) => gone
  BY <1>2, <1>13, SoldInTheYear
<1>15. HeldAtYearEnd(s, year, DOMAIN log) => OpenPosition(s, UpTo(year)) > 0
  BY <1>2, YearEndIsThen DEF HeldAtYearEnd
<1>16. LumpOf(r, s) = IF s \in DOMAIN r.vp THEN lump ELSE 0
  BY <1>9 DEF LumpOf
<1> HIDE DEF gone, vp, lump
<1>17. CASE s \in DOMAIN r.vp
  <2>1. ~gone
    BY <1>10, <1>17 DEF gone
  <2>2. r.reduced[s] = 0 /\ LumpOf(r, s) = lump /\ config'.vp[s] = vp + lump
    BY <1>7, <1>9, <1>11, <1>16, <1>17, <2>1
  <2>3. LumpsTaxed(s)' - LumpsTakenOff(s)' = config'.vp[s]
    BY <1>6, <1>12, <1>13, <2>2
  <2> QED
    BY <1>5, <1>10, <1>15, <1>17, <2>3
<1>18. CASE s \notin DOMAIN r.vp /\ gone
  <2>1. r.reduced[s] = vp /\ LumpOf(r, s) = 0 /\ config'.vp[s] = 0
    BY <1>6, <1>7, <1>11, <1>16, <1>18
  <2> QED
    BY <1>6, <1>12, <1>13, <2>1
<1>19. CASE s \notin DOMAIN r.vp /\ ~gone
  <2>1. r.reduced[s] = 0 /\ LumpOf(r, s) = 0 /\ config'.vp[s] = vp
    BY <1>7, <1>11, <1>16, <1>19
  <2>2. LumpsTaxed(s)' - LumpsTakenOff(s)' = config'.vp[s]
    BY <1>6, <1>12, <1>13, <2>1
  <2>3. config'.vp[s] > 0 => OpenPosition(s, UpTo(year)) > 0
    BY <1>14, <1>15, <1>19, <2>1
  <2> QED
    BY <1>5, <1>13, <2>1, <2>2, <2>3
<1> QED
  BY <1>17, <1>18, <1>19

(* Booking an event of the day changes no filed return.                    *)
LEMMA LumpsBooked ==
  ASSUME ReturnTypes, VorabpauschaleTaxedOnce, OnlyFunds,
         NEW event \in Bookings, event.date = today, Book(event)
  PROVE  VorabpauschaleTaxedOnce' /\ OnlyFunds'
<1>1. log' = Append(log, event) /\ UNCHANGED <<navs, config, filed>>
  BY DEF Book
<1>2. Len(filed) - 1 \in Int /\ Len(filed) - 1 < YearOf(today)
  <2>1. Len(filed) \in Nat /\ today \in Nat /\ Len(filed) <= YearOf(today)
    BY DEF ReturnTypes
  <2> QED
    BY <2>1, YearsPass
<1>3. \A s \in Symbol : OpenPosition(s, UpTo(Len(filed) - 1))'
                          = OpenPosition(s, UpTo(Len(filed) - 1))
  <2>1. TAKE s \in Symbol
  <2>2. PICK year \in Int : year = Len(filed) - 1
    BY <1>2
  <2>3. OpenPosition(s, UpTo(year))' = OpenPosition(s, UpTo(year))
    BY <1>1, <1>2, <2>2, EarlierYearsStand
  <2>4. UpTo(Len(filed) - 1)' = UpTo(year)'
    BY <1>1, <2>2 DEF UpTo
  <2>5. OpenPosition(s, UpTo(Len(filed) - 1))' = OpenPosition(s, UpTo(year))'
    BY <2>4 DEF OpenPosition, Booked
  <2> QED
    BY <2>2, <2>3, <2>5
<1>4. \A s \in Symbol : LumpsTaxed(s)' = LumpsTaxed(s) /\ LumpsTakenOff(s)' = LumpsTakenOff(s)
  BY <1>1 DEF LumpsTaxed, LumpsTakenOff, SumOf, SumOver
<1> QED
  BY <1>1, <1>3, <1>4 DEF VorabpauschaleTaxedOnce, OnlyFunds

(* Every step keeps VorabpauschaleTaxedOnce, and the lump sums of shares   *)
(* at zero.                                                                *)
LEMMA LumpsStep ==
  ASSUME ReturnTypes, FxTypes, VorabpauschaleTaxedOnce, OnlyFunds, [Next]_vars
  PROVE  VorabpauschaleTaxedOnce' /\ OnlyFunds'
<1>1. CASE UNCHANGED <<log, config, filed>>
  BY <1>1 DEF VorabpauschaleTaxedOnce, OnlyFunds, OpenPosition, UpTo, Booked, Quantity,
              LumpsTaxed, LumpsTakenOff, SumOf, SumOver
<1>2. CASE File
  BY <1>2, LumpsFiled
<1>3. today \in Nat
  BY DEF ReturnTypes
<1>4. ASSUME NEW s \in Symbol, NEW quantity \in 1 .. MaxHeld, Buy(s, quantity)
      PROVE  VorabpauschaleTaxedOnce' /\ OnlyFunds'
  <2> DEFINE event == [kind |-> "buy", symbol |-> s, quantity |-> quantity, date |-> today]
  <2>1. event \in Bookings /\ event.date = today
    BY <1>3, ReturnAssumption DEF Bookings
  <2>2. Book(event)
    BY <1>4 DEF Buy
  <2> HIDE DEF event
  <2> QED
    BY <2>1, <2>2, LumpsBooked
<1>5. ASSUME NEW s \in Symbol, NEW quantity \in 1 .. MaxHeld, NEW result \in SaleResults,
             Sell(s, quantity, result)
      PROVE  VorabpauschaleTaxedOnce' /\ OnlyFunds'
  <2> DEFINE event == [kind |-> "sell", symbol |-> s, quantity |-> quantity, date |-> today,
                       gross |-> result.gross, old |-> result.old]
  <2>1. event \in Bookings /\ event.date = today
    <3>1. result.gross \in Int /\ result.old \in Int /\ quantity \in Nat
      BY ReturnAssumption
    <3> QED
      BY <1>3, <3>1 DEF Bookings
  <2>2. Book(event)
    BY <1>5 DEF Sell
  <2> HIDE DEF event
  <2> QED
    BY <2>1, <2>2, LumpsBooked
<1>6. ASSUME NEW s \in Symbol, NEW payout \in Payouts, PayDividend(s, payout)
      PROVE  VorabpauschaleTaxedOnce' /\ OnlyFunds'
  <2> DEFINE event == [kind |-> "dividend", symbol |-> s, date |-> today,
                       gross |-> payout.gross, withheld |-> payout.withheld]
  <2>1. event \in Bookings /\ event.date = today
    <3>1. payout.gross \in Int /\ payout.withheld \in Int
      BY ReturnAssumption
    <3> QED
      BY <1>3, <3>1 DEF Bookings
  <2>2. Book(event)
    BY <1>6 DEF PayDividend
  <2> HIDE DEF event
  <2> QED
    BY <2>1, <2>2, LumpsBooked
<1>7. ASSUME NEW gross \in Interests, PayInterest(gross)
      PROVE  VorabpauschaleTaxedOnce' /\ OnlyFunds'
  <2> DEFINE event == [kind |-> "interest", date |-> today, symbol |-> "cash",
                       gross |-> gross]
  <2>1. event \in Bookings /\ event.date = today
    BY <1>3, ReturnAssumption DEF Bookings
  <2>2. Book(event)
    BY <1>7 DEF PayInterest
  <2> HIDE DEF event
  <2> QED
    BY <2>1, <2>2, LumpsBooked
<1> QED
  BY <1>1, <1>2, <1>4, <1>5, <1>6, <1>7 DEF Next, vars, returnVars, Place, Pass

(***************************************************************************)
(* process_trades() and the configuration together take every advance lump *)
(* sum off a sale once, or carry it for a fund that is still held.         *)
(***************************************************************************)
THEOREM EachLumpTakenOffOnce == Spec => []VorabpauschaleTaxedOnce
<1> DEFINE Inv == QueueInv /\ ReturnTypes /\ VorabpauschaleTaxedOnce /\ OnlyFunds
<1>1. Init => Inv
  <2> SUFFICES ASSUME Init PROVE VorabpauschaleTaxedOnce /\ OnlyFunds
    BY QueueInit, FxAssumption, ReturnInit DEF Init
  <2>1. filed = <<>> /\ DOMAIN filed = {} /\ \A s \in Symbol : config.vp[s] = 0
    BY DEF Init
  <2> QED
    BY <2>1, SumEmpty DEF VorabpauschaleTaxedOnce, OnlyFunds, LumpsTaxed, LumpsTakenOff,
                          SumOf, SumOver
<1>2. Inv /\ [Next]_vars => Inv'
  BY QueueStep, FxAssumption, ReturnStep, LumpsStep DEF QueueInv
<1>3. Inv => VorabpauschaleTaxedOnce
  OBVIOUS
<1> QED
  BY <1>1, <1>2, <1>3, PTL DEF Spec

-----------------------------------------------------------------------------
(***************************************************************************)
(* The forms: a sum is its gains less its losses, and a sum over bookings  *)
(* is the sum over the shares and over the three classes of funds.         *)
(***************************************************************************)
LEMMA GainsLessLosses ==
  ASSUME NEW S, NEW f, Summable(f, S), NEW g, \A x \in S : g[x] = Most(0, f[x]),
         NEW h, \A x \in S : h[x] = Most(0, -f[x])
  PROVE  /\ SumFunctionOnSet(f, S) = SumFunctionOnSet(g, S) - SumFunctionOnSet(h, S)
         /\ SumFunctionOnSet(g, S) \in Int /\ SumFunctionOnSet(h, S) \in Int
<1>1. \A x \in S : f[x] \in Int
  BY DEF Summable
<1>2. Summable(g, S) /\ Summable(h, S)
  BY <1>1 DEF Summable, Most
<1>3. \A x \in S : g[x] = f[x] + h[x]
  BY <1>1 DEF Most
<1>4. SumFunctionOnSet(g, S) = SumFunctionOnSet(f, S) + SumFunctionOnSet(h, S)
  BY <1>2, <1>3, SumPlus
<1> QED
  BY <1>2, <1>4, SumInteger

(* A sum over the events of a year is the one over shares and those over   *)
(* the three classes of funds.                                             *)
LEMMA SumByClass ==
  ASSUME NEW P, \A i \in P : log[i].symbol \in Symbol, NEW f, Summable(f, P)
  PROVE  /\ SumFunctionOnSet(f, P) = SumFunctionOnSet(f, Share(P))
                                       + SumFunctionOnSet(f, Fund(P))
         /\ SumFunctionOnSet(f, Fund(P)) = SumFunctionOnSet(f, OfClass("Equity", P))
                                             + SumFunctionOnSet(f, OfClass("Mixed", P))
                                             + SumFunctionOnSet(f, OfClass("Bond", P))
<1> DEFINE e == OfClass("Equity", P)
           m == OfClass("Mixed", P)
           b == OfClass("Bond", P)
<1>1. /\ Share(P) \in SUBSET P /\ Fund(P) \in SUBSET P
      /\ Share(P) \cup Fund(P) = P /\ Share(P) \cap Fund(P) = {}
  BY DEF Share, Fund
<1>2. /\ e \in SUBSET P /\ m \in SUBSET P /\ b \in SUBSET P
      /\ e \cap m = {} /\ (e \cup m) \cap b = {} /\ e \cup m \in SUBSET P
      /\ (e \cup m) \cup b = Fund(P)
  BY Portions DEF OfClass, Fund, Share, IsFund
<1>3. SumFunctionOnSet(f, Share(P) \cup Fund(P))
        = SumFunctionOnSet(f, Share(P)) + SumFunctionOnSet(f, Fund(P))
  BY <1>1, SumUnion
<1> HIDE DEF e, m, b
<1>4. SumFunctionOnSet(f, e \cup m) = SumFunctionOnSet(f, e) + SumFunctionOnSet(f, m)
  BY <1>2, SumUnion
<1>5. SumFunctionOnSet(f, (e \cup m) \cup b)
        = SumFunctionOnSet(f, e \cup m) + SumFunctionOnSet(f, b)
  BY <1>2, SumUnion
<1> QED
  BY <1>1, <1>2, <1>3, <1>4, <1>5 DEF e, m, b

(* What a class of funds brings to the estimate.                            *)
LEMMA FundFormIsTaxed ==
  ASSUME ReturnTypes, NEW cfg \in Figures, NEW year \in Int, NEW st \in SUBSET DOMAIN log,
         NEW class \in {"Equity", "Mixed", "Bond"},
         NEW sold, sold = [i \in SalesOf(year, st) |-> SaleTaxable(i, year, st, cfg)],
         NEW paid, paid = [i \in DividendsOf(year, st) |-> DividendTaxable(i)]
  PROVE  LET form == AnlageKapInv(class, year, st, cfg)
         IN  /\ form.distributions \in Int /\ form.gains \in Int /\ form.losses \in Int
             /\ SumFunctionOnSet(sold, OfClass(class, SalesOf(year, st)))
                  = TaxablePortion[class] * (form.gains - form.losses)
             /\ SumFunctionOnSet(paid, OfClass(class, DividendsOf(year, st)))
                  = TaxablePortion[class] * form.distributions
<1> DEFINE S == OfClass(class, SalesOf(year, st))
           D == OfClass(class, DividendsOf(year, st))
           before == [i \in S |-> KapInvResult(i, year, st, cfg)]
           plus == [i \in S |-> Most(0, KapInvResult(i, year, st, cfg))]
           minus == [i \in S |-> Most(0, -KapInvResult(i, year, st, cfg))]
           gross == [i \in D |-> Gross(i)]
           form == AnlageKapInv(class, year, st, cfg)
<1>1. /\ form.distributions = SumFunctionOnSet(gross, D)
      /\ form.gains = SumFunctionOnSet(plus, S)
      /\ form.losses = SumFunctionOnSet(minus, S)
  BY DEF AnlageKapInv, Positive, Negative, SumOver
<1>2. S \in SUBSET SalesOf(year, st) /\ D \in SUBSET DividendsOf(year, st)
  BY DEF OfClass
<1>3. IsFiniteSet(S) /\ IsFiniteSet(D)
  BY <1>2, PartsAreFinite, Subparts
<1>4. \A i \in S : KapInvResult(i, year, st, cfg) \in Int
  BY <1>2, SaleTypes DEF KapInvResult
<1>5. Summable(before, S)
  BY <1>3, <1>4 DEF Summable
<1>6. /\ SumFunctionOnSet(before, S) = SumFunctionOnSet(plus, S) - SumFunctionOnSet(minus, S)
      /\ SumFunctionOnSet(plus, S) \in Int /\ SumFunctionOnSet(minus, S) \in Int
  <2>1. \A i \in S : plus[i] = Most(0, before[i]) /\ minus[i] = Most(0, -before[i])
    OBVIOUS
  <2> HIDE DEF S, before, plus, minus
  <2> QED
    BY <1>5, <2>1, GainsLessLosses
<1>7. TaxablePortion[class] \in Int
  BY Portions
<1>8. SumFunctionOnSet(sold, S) = TaxablePortion[class] * SumFunctionOnSet(before, S)
  <2>1. \A i \in S : sold[i] = TaxablePortion[class] * before[i]
    <3>1. TAKE i \in S
    <3>2. i \in SalesOf(year, st) /\ FundClass[log[i].symbol] = class
      BY DEF OfClass
    <3>3. sold[i] = before[i] * TaxablePortion[class]
      BY <3>2 DEF SaleTaxable, Teilfreistellung, KapInvResult
    <3> QED
      BY <1>4, <1>7, <3>3
  <2> HIDE DEF S, before
  <2> QED
    BY <1>5, <1>7, <2>1, SumTimes
<1>9. /\ SumFunctionOnSet(paid, D) = TaxablePortion[class] * SumFunctionOnSet(gross, D)
      /\ SumFunctionOnSet(gross, D) \in Int
  <2>1. \A i \in D : gross[i] \in Int /\ paid[i] = TaxablePortion[class] * gross[i]
    <3>1. TAKE i \in D
    <3>2. i \in DividendsOf(year, st) /\ FundClass[log[i].symbol] = class
      BY DEF OfClass
    <3>3. gross[i] = Gross(i) /\ Gross(i) \in Int
      BY <3>2, DividendTypes
    <3>4. paid[i] = Gross(i) * TaxablePortion[class]
      BY <3>2 DEF DividendTaxable, Teilfreistellung
    <3> QED
      BY <1>7, <3>3, <3>4
  <2>2. Summable(gross, D)
    BY <1>3, <2>1 DEF Summable
  <2> HIDE DEF D, gross
  <2> QED
    BY <1>7, <2>1, <2>2, SumTimes, SumInteger
<1> HIDE DEF before, plus, minus, gross, form
<1>10. /\ form.distributions \in Int /\ form.gains \in Int /\ form.losses \in Int
       /\ SumFunctionOnSet(sold, S) = TaxablePortion[class] * (form.gains - form.losses)
       /\ SumFunctionOnSet(paid, D) = TaxablePortion[class] * form.distributions
  BY <1>1, <1>6, <1>8, <1>9
<1> QED
  BY <1>10 DEF form

(* What the office makes of the two forms.                                  *)
FormsAgree(r) ==
  /\ r.kap.zeile19
       + SumOver({"Equity", "Mixed", "Bond"},
                 LAMBDA class : TaxablePortion[class] * (r.kapInv[class].distributions
                                  + r.kapInv[class].gains - r.kapInv[class].losses))
     = r.stock + r.general
  /\ r.kap.zeile20 - r.kap.zeile23 = r.stock

(* The share sales of the form are the stock pot's.                         *)
LEMMA KapIsStock ==
  ASSUME ReturnTypes, NEW cfg \in Figures, NEW year \in Int, NEW st \in SUBSET DOMAIN log
  PROVE  /\ Zeile20(year, st, cfg) - Zeile23(year, st, cfg) = StockResult(year, st, cfg)
         /\ Zeile20(year, st, cfg) \in Int /\ Zeile23(year, st, cfg) \in Int
<1> DEFINE S == Share(SalesOf(year, st))
           f == [i \in S |-> SaleTaxable(i, year, st, cfg)]
           g == [i \in S |-> Most(0, SaleTaxable(i, year, st, cfg))]
           h == [i \in S |-> Most(0, -SaleTaxable(i, year, st, cfg))]
<1>1. /\ StockResult(year, st, cfg) = SumFunctionOnSet(f, S)
      /\ Zeile20(year, st, cfg) = SumFunctionOnSet(g, S)
      /\ Zeile23(year, st, cfg) = SumFunctionOnSet(h, S)
  BY DEF StockResult, Zeile20, Zeile23, Positive, Negative, SumOver
<1>2. S \in SUBSET SalesOf(year, st)
  BY DEF Share
<1>3. Summable(f, S)
  <2>1. IsFiniteSet(S)
    BY <1>2, PartsAreFinite, Subparts
  <2>2. \A i \in S : f[i] \in Int
    BY <1>2, SaleTypes
  <2> QED
    BY <2>1, <2>2 DEF Summable
<1>4. \A i \in S : g[i] = Most(0, f[i]) /\ h[i] = Most(0, -f[i])
  OBVIOUS
<1> HIDE DEF S, f, g, h
<1>5. /\ SumFunctionOnSet(f, S) = SumFunctionOnSet(g, S) - SumFunctionOnSet(h, S)
      /\ SumFunctionOnSet(g, S) \in Int /\ SumFunctionOnSet(h, S) \in Int
  BY <1>3, <1>4, GainsLessLosses
<1> QED
  BY <1>1, <1>5

(* The gains of foreign currency, as the form has them.                     *)
LEMMA KapHasCurrency ==
  ASSUME FxTypes, NEW year \in Int
  PROVE  /\ SumOver(FxGains(year), Gain)
              = Positive(FxGains(year), Gain) - Negative(FxGains(year), Gain)
         /\ Positive(FxGains(year), Gain) \in Int /\ Negative(FxGains(year), Gain) \in Int
<1> DEFINE S == FxGains(year)
           f == [k \in S |-> Gain(k)]
           g == [k \in S |-> Most(0, Gain(k))]
           h == [k \in S |-> Most(0, -Gain(k))]
<1>1. /\ SumOver(FxGains(year), Gain) = SumFunctionOnSet(f, S)
      /\ Positive(FxGains(year), Gain) = SumFunctionOnSet(g, S)
      /\ Negative(FxGains(year), Gain) = SumFunctionOnSet(h, S)
  BY DEF Positive, Negative, SumOver
<1>2. Summable(f, S)
  BY FxTypesOfGains DEF Summable
<1>3. \A k \in S : g[k] = Most(0, f[k]) /\ h[k] = Most(0, -f[k])
  OBVIOUS
<1> HIDE DEF S, f, g, h
<1>4. /\ SumFunctionOnSet(f, S) = SumFunctionOnSet(g, S) - SumFunctionOnSet(h, S)
      /\ SumFunctionOnSet(g, S) \in Int /\ SumFunctionOnSet(h, S) \in Int
  BY <1>2, <1>3, GainsLessLosses
<1> QED
  BY <1>1, <1>4

(* A sum over the three classes of funds.                                   *)
LEMMA SumOfClasses ==
  ASSUME NEW f, f["Equity"] \in Int, f["Mixed"] \in Int, f["Bond"] \in Int
  PROVE  SumFunctionOnSet(f, {"Equity", "Mixed", "Bond"}) = f["Equity"] + f["Mixed"] + f["Bond"]
<1> DEFINE bond == {"Bond"}
           two == bond \cup {"Mixed"}
           three == two \cup {"Equity"}
<1>1. Summable(f, bond) /\ Summable(f, two) /\ Summable(f, three)
  BY FS_EmptySet, FS_AddElement, FS_Singleton DEF Summable
<1>2. "Mixed" \notin bond /\ "Equity" \notin two
  OBVIOUS
<1>3. SumFunctionOnSet(f, bond) = f["Bond"]
  <2>1. "Bond" \in bond /\ \A i \in bond : i # "Bond" => f[i] = 0
    OBVIOUS
  <2> QED
    BY <1>1, SumSingle
<1> HIDE DEF bond
<1>4. SumFunctionOnSet(f, two) = f["Mixed"] + f["Bond"]
  BY <1>1, <1>2, <1>3, SumInsert
<1> HIDE DEF two
<1>5. SumFunctionOnSet(f, three) = f["Equity"] + (f["Mixed"] + f["Bond"])
  BY <1>1, <1>2, <1>4, SumInsert
<1>6. three = {"Equity", "Mixed", "Bond"}
  BY DEF two, bond
<1>7. SumFunctionOnSet(f, {"Equity", "Mixed", "Bond"}) = f["Equity"] + (f["Mixed"] + f["Bond"])
  BY <1>5, <1>6, Zenon
<1> QED
  BY <1>7

(* The forms computed for a year agree with the taxable amounts of its     *)
(* events, summed one by one.                                              *)
LEMMA FormsOfYear ==
  ASSUME ReturnTypes, FxTypes, NEW cfg \in Figures, NEW year \in 0 .. Len(navs) - 1,
         NEW st \in SUBSET DOMAIN log,
         NEW r, r = ComputeTaxYear(year, st, cfg)
  PROVE  FormsAgree(r)
<1>0. year \in Int
  OBVIOUS
<1>1. /\ r.stock = StockResult(year, st, cfg) /\ r.general = GeneralResult(year, st, cfg)
      /\ r.kap = AnlageKap(year, st, cfg) /\ r.kapInv = FundForms(year, st, cfg)
  BY ReturnOfYear
<1> DEFINE sales == SalesOf(year, st)
           dividends == DividendsOf(year, st)
           sold == [i \in sales |-> SaleTaxable(i, year, st, cfg)]
           paid == [i \in dividends |-> DividendTaxable(i)]
           form(class) == AnlageKapInv(class, year, st, cfg)
           interest == SumOver(InterestOf(year, st), Gross)
           gains == Positive(FxGains(year), Gain)
           losses == Negative(FxGains(year), Gain)
           z20 == Zeile20(year, st, cfg)
           z23 == Zeile23(year, st, cfg)
<1>2. Summable(sold, sales) /\ Summable(paid, dividends)
  <2>1. IsFiniteSet(sales) /\ IsFiniteSet(dividends)
    BY PartsAreFinite, Subparts
  <2>2. \A i \in sales : sold[i] \in Int
    BY <1>0, SaleTypes
  <2>3. \A i \in dividends : paid[i] \in Int
    BY <1>0, DividendTypes
  <2> QED
    BY <2>1, <2>2, <2>3 DEF Summable
<1>3. /\ \A i \in sales : log[i].symbol \in Symbol
      /\ \A i \in dividends : log[i].symbol \in Symbol
  BY <1>0, SaleTypes, DividendTypes
<1>4. ASSUME NEW class \in {"Equity", "Mixed", "Bond"}
      PROVE  /\ form(class).distributions \in Int /\ form(class).gains \in Int
             /\ form(class).losses \in Int
             /\ SumFunctionOnSet(sold, OfClass(class, sales))
                  = TaxablePortion[class] * (form(class).gains - form(class).losses)
             /\ SumFunctionOnSet(paid, OfClass(class, dividends))
                  = TaxablePortion[class] * form(class).distributions
  BY <1>0, FundFormIsTaxed
<1>5. SumOver(Fund(sales), LAMBDA i : SaleTaxable(i, year, st, cfg))
        = SumFunctionOnSet(sold, Fund(sales))
  <2> DEFINE part == Fund(sales)
             g == [i \in part |-> SaleTaxable(i, year, st, cfg)]
  <2>1. part \in SUBSET sales
    BY DEF Fund
  <2>2. \A i \in part : g[i] = sold[i]
    BY <2>1
  <2> HIDE DEF part, sold, g, sales
  <2>3. SumFunctionOnSet(g, part) = SumFunctionOnSet(sold, part)
    BY <1>2, <2>1, <2>2, SumOfPart
  <2> QED
    BY <2>3 DEF part, g, sales, SumOver
<1>6. SumOver(dividends, DividendTaxable) = SumFunctionOnSet(paid, dividends)
  BY DEF SumOver
<1>7. /\ SumFunctionOnSet(paid, Share(dividends))
           = 20 * SumOver(Share(dividends), Gross)
      /\ SumOver(Share(dividends), Gross) \in Int
  <2> DEFINE part == Share(dividends)
             g == [i \in part |-> Gross(i)]
  <2>1. part \in SUBSET dividends /\ IsFiniteSet(part)
    BY PartsAreFinite, Subparts DEF Share
  <2>2. \A i \in part : g[i] \in Int /\ paid[i] = 20 * g[i]
    <3>1. TAKE i \in part
    <3>2. i \in dividends /\ FundClass[log[i].symbol] = "None"
      BY DEF Share, IsFund
    <3>3. Gross(i) \in Int /\ g[i] = Gross(i)
      BY <1>0, <3>2, DividendTypes
    <3>4. paid[i] = Gross(i) * 20
      BY <3>2, Portions DEF DividendTaxable, Teilfreistellung
    <3> QED
      BY <3>3, <3>4
  <2>3. Summable(g, part)
    BY <2>1, <2>2 DEF Summable
  <2> HIDE DEF part, g, paid
  <2>4. SumFunctionOnSet(paid, part) = 20 * SumFunctionOnSet(g, part)
    BY <2>2, <2>3, SumTimes
  <2>5. SumFunctionOnSet(g, part) \in Int
    BY <2>3, SumInteger
  <2> QED
    BY <2>4, <2>5 DEF part, g, SumOver
<1>8. interest \in Int
  <2>1. IsFiniteSet(InterestOf(year, st))
    BY PartsAreFinite, Subparts
  <2>2. \A i \in InterestOf(year, st) : Gross(i) \in Int
    BY Entries DEF InterestOf, OfYear
  <2> QED
    BY <2>1, <2>2, SumInteger DEF SumOver, Summable
<1>9. /\ SumOver(FxGains(year), Gain) = gains - losses
      /\ gains \in Int /\ losses \in Int
  BY <1>0, KapHasCurrency
<1>10. z20 - z23 = r.stock /\ z20 \in Int /\ z23 \in Int
  BY <1>0, <1>1, KapIsStock
<1>11. /\ SumFunctionOnSet(sold, Fund(sales))
            = SumFunctionOnSet(sold, OfClass("Equity", sales))
                + SumFunctionOnSet(sold, OfClass("Mixed", sales))
                + SumFunctionOnSet(sold, OfClass("Bond", sales))
       /\ SumFunctionOnSet(paid, dividends)
            = SumFunctionOnSet(paid, Share(dividends)) + SumFunctionOnSet(paid, Fund(dividends))
       /\ SumFunctionOnSet(paid, Fund(dividends))
            = SumFunctionOnSet(paid, OfClass("Equity", dividends))
                + SumFunctionOnSet(paid, OfClass("Mixed", dividends))
                + SumFunctionOnSet(paid, OfClass("Bond", dividends))
  <2> HIDE DEF sold, paid, sales, dividends
  <2> QED
    BY <1>2, <1>3, SumByClass
<1> DEFINE e == form("Equity")
           m == form("Mixed")
           b == form("Bond")
           perClass == [class \in {"Equity", "Mixed", "Bond"} |->
                          TaxablePortion[class] * (r.kapInv[class].distributions
                            + r.kapInv[class].gains - r.kapInv[class].losses)]
<1>12. /\ e.distributions \in Int /\ e.gains \in Int /\ e.losses \in Int
       /\ m.distributions \in Int /\ m.gains \in Int /\ m.losses \in Int
       /\ b.distributions \in Int /\ b.gains \in Int /\ b.losses \in Int
  BY <1>4
<1>13. /\ r.kapInv["Equity"] = e /\ r.kapInv["Mixed"] = m /\ r.kapInv["Bond"] = b
  BY <1>1 DEF FundForms
<1>14. SumFunctionOnSet(sold, Fund(sales))
         = 14 * (e.gains - e.losses) + 17 * (m.gains - m.losses) + 20 * (b.gains - b.losses)
  <2>1. /\ SumFunctionOnSet(sold, OfClass("Equity", sales)) = 14 * (e.gains - e.losses)
        /\ SumFunctionOnSet(sold, OfClass("Mixed", sales)) = 17 * (m.gains - m.losses)
        /\ SumFunctionOnSet(sold, OfClass("Bond", sales)) = 20 * (b.gains - b.losses)
    BY <1>4, Portions
  <2> QED
    BY <1>11, <2>1
<1>15. SumFunctionOnSet(paid, Fund(dividends))
         = 14 * e.distributions + 17 * m.distributions + 20 * b.distributions
  <2>1. /\ SumFunctionOnSet(paid, OfClass("Equity", dividends)) = 14 * e.distributions
        /\ SumFunctionOnSet(paid, OfClass("Mixed", dividends)) = 17 * m.distributions
        /\ SumFunctionOnSet(paid, OfClass("Bond", dividends)) = 20 * b.distributions
    BY <1>4, Portions
  <2> QED
    BY <1>11, <2>1
<1> DEFINE shares == SumOver(Share(dividends), Gross)
<1>16. r.general = SumFunctionOnSet(sold, Fund(sales))
                     + (20 * shares + SumFunctionOnSet(paid, Fund(dividends)))
                     + 20 * (interest + (gains - losses))
  BY <1>1, <1>5, <1>6, <1>7, <1>9, <1>11 DEF GeneralResult, Whole
<1>17. r.kap.zeile19 = z20 + 20 * (shares + interest + gains) - 20 * losses - z23
  <2>1. r.kap.zeile19 = KapPositive(year, st, cfg) - Zeile22(year) - z23
    BY <1>1 DEF AnlageKap
  <2>2. KapPositive(year, st, cfg) = z20 + 20 * (shares + interest + gains)
    BY DEF KapPositive, Whole
  <2>3. Zeile22(year) = 20 * losses
    BY DEF Zeile22, Whole
  <2>4. shares \in Int
    BY <1>7
  <2> HIDE DEF shares, interest, gains, losses, z20, z23
  <2> QED
    BY <1>8, <1>9, <1>10, <2>1, <2>2, <2>3, <2>4
<1>18. r.kap.zeile20 = z20 /\ r.kap.zeile23 = z23
  BY <1>1 DEF AnlageKap
<1> HIDE DEF e, m, b, z20, z23, gains, losses, interest, shares, sold, paid, sales, dividends
<1> DEFINE classes == {"Equity", "Mixed", "Bond"}
<1>19. PICK ed \in Int, eg \in Int, el \in Int :
         ed = e.distributions /\ eg = e.gains /\ el = e.losses
  BY <1>12
<1>20. PICK md \in Int, mg \in Int, ml \in Int :
         md = m.distributions /\ mg = m.gains /\ ml = m.losses
  BY <1>12
<1>21. PICK bd \in Int, bg \in Int, bl \in Int :
         bd = b.distributions /\ bg = b.gains /\ bl = b.losses
  BY <1>12
<1>22. SumFunctionOnSet(perClass, classes)
         = 14 * (ed + eg - el) + 17 * (md + mg - ml) + 20 * (bd + bg - bl)
  <2>1. perClass["Equity"] = 14 * (ed + eg - el)
    BY <1>13, <1>19, Portions
  <2>2. perClass["Mixed"] = 17 * (md + mg - ml)
    BY <1>13, <1>20, Portions
  <2>3. perClass["Bond"] = 20 * (bd + bg - bl)
    BY <1>13, <1>21, Portions
  <2> HIDE DEF perClass, classes
  <2>4. perClass["Equity"] \in Int
    BY <2>1
  <2>5. perClass["Mixed"] \in Int
    BY <2>2
  <2>6. perClass["Bond"] \in Int
    BY <2>3
  <2>7. SumFunctionOnSet(perClass, classes)
          = perClass["Equity"] + perClass["Mixed"] + perClass["Bond"]
    BY <2>4, <2>5, <2>6, SumOfClasses DEF classes
  <2> QED
    BY <2>1, <2>2, <2>3, <2>7
<1>23. SumOver({"Equity", "Mixed", "Bond"},
               LAMBDA class : TaxablePortion[class] * (r.kapInv[class].distributions
                                + r.kapInv[class].gains - r.kapInv[class].losses))
         = SumFunctionOnSet(perClass, classes)
  BY DEF SumOver
<1> HIDE DEF perClass, classes
<1>24. shares \in Int /\ interest \in Int /\ gains \in Int /\ losses \in Int
         /\ z20 \in Int /\ z23 \in Int /\ r.stock = z20 - z23
  BY <1>7, <1>8, <1>9, <1>10 DEF shares, interest, gains, losses, z20, z23, dividends
<1>25. r.general = (14 * (eg - el) + 17 * (mg - ml) + 20 * (bg - bl))
                     + (20 * shares + (14 * ed + 17 * md + 20 * bd))
                     + 20 * (interest + (gains - losses))
  BY <1>14, <1>15, <1>16, <1>19, <1>20, <1>21
<1>26. r.kap.zeile19 + SumFunctionOnSet(perClass, classes) = r.stock + r.general
  <2>1. PICK p \in Int, q \in Int, u \in Int, v \in Int, gz \in Int, lz \in Int :
          p = shares /\ q = interest /\ u = gains /\ v = losses /\ gz = z20 /\ lz = z23
    BY <1>24
  <2>2. PICK funds \in Int :
          funds = 14 * (ed + eg - el) + 17 * (md + mg - ml) + 20 * (bd + bg - bl)
    OBVIOUS
  <2>3. r.kap.zeile19 = gz + 20 * (p + q + u) - 20 * v - lz
    BY <1>17, <2>1
  <2>4. r.stock = gz - lz
    BY <1>24, <2>1
  <2>5. r.general = (14 * (eg - el) + 17 * (mg - ml) + 20 * (bg - bl))
                      + (20 * p + (14 * ed + 17 * md + 20 * bd)) + 20 * (q + (u - v))
    BY <1>25, <2>1
  <2>6. r.general = funds + 20 * p + 20 * q + 20 * u - 20 * v
    BY ONLY <2>2, <2>5
  <2>7. SumFunctionOnSet(perClass, classes) = funds
    BY <1>22, <2>2
  <2>8. /\ p \in Int /\ q \in Int /\ u \in Int /\ v \in Int
        /\ gz \in Int /\ lz \in Int /\ funds \in Int
    BY <2>1, <2>2
  <2>9. (gz + 20 * (p + q + u) - 20 * v - lz) + funds
          = (gz - lz) + (funds + 20 * p + 20 * q + 20 * u - 20 * v)
    BY ONLY <2>8
  <2> QED
    BY ONLY <2>3, <2>4, <2>6, <2>7, <2>9
<1> QED
  BY <1>10, <1>18, <1>23, <1>26 DEF FormsAgree

AllFormsAgree == \A r \in Returns : FormsAgree(r)

(***************************************************************************)
(* A step either leaves the returns alone or makes one more, on which the  *)
(* forms agree; nothing changes a return once it is made.                  *)
(***************************************************************************)
LEMMA FormsStep ==
  ASSUME ReturnTypes, FxTypes, AllFormsAgree, [Next]_vars
  PROVE  AllFormsAgree'
<1>1. CASE UNCHANGED filed
  BY <1>1 DEF AllFormsAgree, Returns
<1>2. CASE File
  <2>1. PICK r \in TaxReturns :
          /\ Len(filed) \in 0 .. Len(navs) - 1
          /\ r = ComputeTaxYear(Len(filed), DOMAIN log, config)
          /\ filed' = Append(filed, r)
    BY <1>2, FileStep
  <2>2. FormsAgree(r)
    <3>1. DOMAIN log \in SUBSET DOMAIN log /\ config \in Figures
      BY DEF ReturnTypes
    <3>2. PICK year \in Int : year = Len(filed)
      BY <2>1
    <3> QED
      BY <2>1, <3>1, <3>2, FormsOfYear
  <2>3. Returns' = Returns \cup {r}
    BY <2>1, ReturnsGrow
  <2> QED
    BY <2>2, <2>3 DEF AllFormsAgree
<1> QED
  BY <1>1, <1>2
     DEF Next, vars, returnVars, Place, Book, Buy, Sell, PayDividend, PayInterest, Pass

(***************************************************************************)
(* For every set of securities and whatever they earned, the tax office    *)
(* arrives at the program's estimate from the forms: Anlage KAP's net      *)
(* income and the fund forms after the exemption are what the two pots     *)
(* were computed from, and the share lines are the stock pot's.            *)
(***************************************************************************)
THEOREM FormsAgreeWithEstimate == Spec => []FormsMatchEstimate
<1> DEFINE Inv == QueueInv /\ ReturnTypes /\ AllFormsAgree
<1>1. Init => Inv
  <2>1. Init => Returns = {}
    BY DEF Init, Returns
  <2> QED
    BY <2>1, QueueInit, FxAssumption, ReturnInit DEF Init, AllFormsAgree
<1>2. Inv /\ [Next]_vars => Inv'
  BY QueueStep, FxAssumption, ReturnStep, FormsStep DEF QueueInv
<1>3. Inv => FormsMatchEstimate
  BY DEF AllFormsAgree, FormsAgree, FormsMatchEstimate
<1> QED
  BY <1>1, <1>2, <1>3, PTL DEF Spec

-----------------------------------------------------------------------------
(***************************************************************************)
(* What a return reads of the statement is the same whether the statement  *)
(* ends with the year or goes on.                                          *)
(***************************************************************************)
LEMMA SameEntries ==
  ASSUME ReturnTypes, NEW year \in Int
  PROVE  /\ SalesOf(year, DOMAIN log) = SalesOf(year, UpTo(year))
         /\ DividendsOf(year, DOMAIN log) = DividendsOf(year, UpTo(year))
         /\ InterestOf(year, DOMAIN log) = InterestOf(year, UpTo(year))
<1>1. \A i \in DOMAIN log : YearOf(log[i].date) \in Nat
  BY Entries, YearsPass
<1>2. ASSUME NEW kind
      PROVE  OfYear(kind, year, DOMAIN log) = OfYear(kind, year, UpTo(year))
  BY <1>1 DEF OfYear, UpTo
<1> QED
  BY <1>2 DEF SalesOf, DividendsOf, InterestOf

(* The month of the first purchase: one made later is never the first.      *)
LEMMA SameMonths ==
  ASSUME ReturnTypes, NEW s \in Symbol, NEW year \in Int
  PROVE  MonthsBefore(s, year, DOMAIN log) = MonthsBefore(s, year, UpTo(year))
<1> DEFINE all == {log[i].date : i \in Booked("buy", s, DOMAIN log)}
           some == {log[i].date : i \in Booked("buy", s, UpTo(year))}
           isFirst(first, dates) == /\ YearOf(first) = year
                                    /\ first % HalfYears = 1
                                    /\ \A date \in dates : first <= date
<1>1. \A i \in DOMAIN log : log[i].date \in Nat /\ YearOf(log[i].date) \in Nat
  BY Entries, YearsPass
<1>2. all \in SUBSET Nat /\ some = {date \in all : YearOf(date) <= year}
  BY <1>1 DEF Booked, UpTo
<1>3. (\E first \in all : isFirst(first, all)) <=> (\E first \in some : isFirst(first, some))
  <2> HIDE DEF all, some
  <2>1. ASSUME NEW first \in all, isFirst(first, all) PROVE first \in some /\ isFirst(first, some)
    BY <1>2, <2>1
  <2>2. ASSUME NEW first \in some, isFirst(first, some) PROVE first \in all /\ isFirst(first, all)
    <3>1. first \in Nat /\ first \in all /\ YearOf(first) = year
      BY <1>2, <2>2
    <3>2. ASSUME NEW date \in all PROVE first <= date
      <4>1. date \in Nat /\ YearOf(date) \in Nat
        BY <1>2, YearsPass
      <4>2. CASE YearOf(date) <= year
        BY <1>2, <2>2, <4>2
      <4>3. CASE YearOf(date) > year
        <5>1. ~(date <= first)
          BY <3>1, <4>1, <4>3, YearsPass
        <5> QED
          BY <3>1, <4>1, <5>1
      <4> QED
        BY <4>1, <4>2, <4>3
    <3> QED
      BY <2>2, <3>1, <3>2
  <2> QED
    BY <2>1, <2>2
<1> QED
  BY <1>3 DEF MonthsBefore

(***************************************************************************)
(* So are the lump sums, those taxed and those taken off.                  *)
(***************************************************************************)
LEMMA SameLumps ==
  ASSUME ReturnTypes, NEW year \in Int, NEW cfg
  PROVE  /\ \A s \in Symbol :
              /\ HeldAtYearEnd(s, year, DOMAIN log) = HeldAtYearEnd(s, year, UpTo(year))
              /\ Vorabpauschale(s, year, DOMAIN log) = Vorabpauschale(s, year, UpTo(year))
         /\ LumpFunds(year, DOMAIN log) = LumpFunds(year, UpTo(year))
         /\ \A i \in SalesOf(year, DOMAIN log) :
              VpReduction(i, year, DOMAIN log, cfg) = VpReduction(i, year, UpTo(year), cfg)
<1>1. ASSUME NEW s \in Symbol
      PROVE  /\ YearEndHoldings(s, year, DOMAIN log) = YearEndHoldings(s, year, UpTo(year))
             /\ HeldAtYearEnd(s, year, DOMAIN log) = HeldAtYearEnd(s, year, UpTo(year))
  BY YearEndIsThen DEF HeldAtYearEnd
<1>2. ASSUME NEW s \in Symbol
      PROVE  Vorabpauschale(s, year, DOMAIN log) = Vorabpauschale(s, year, UpTo(year))
  <2>1. Distributions(s, year, DOMAIN log) = Distributions(s, year, UpTo(year))
    BY SameEntries DEF Distributions
  <2> QED
    BY <1>1, <2>1, SameMonths DEF Vorabpauschale
<1>3. LumpFunds(year, DOMAIN log) = LumpFunds(year, UpTo(year))
  BY <1>1 DEF LumpFunds
<1>4. ASSUME NEW i \in SalesOf(year, DOMAIN log)
      PROVE  VpReduction(i, year, DOMAIN log, cfg) = VpReduction(i, year, UpTo(year), cfg)
  <2>1. log[i].symbol \in Symbol
    BY Entries DEF SalesOf, OfYear
  <2>2. FirstSale(i, year, DOMAIN log) <=> FirstSale(i, year, UpTo(year))
    BY SameEntries DEF FirstSale
  <2> QED
    BY <1>1, <2>1, <2>2 DEF VpReduction
<1> QED
  BY <1>1, <1>2, <1>3, <1>4

(* Sums over some sales: as they are taxed, the gains and the losses among  *)
(* them, for the shares and for a class of funds, and what was taken off.   *)
Sold(part, year, st, cfg) == SumOver(part, LAMBDA i : SaleTaxable(i, year, st, cfg))

Gained(part, year, st, cfg) == Positive(part, LAMBDA i : SaleTaxable(i, year, st, cfg))

Lost(part, year, st, cfg) == Negative(part, LAMBDA i : SaleTaxable(i, year, st, cfg))

FundGained(part, year, st, cfg) == Positive(part, LAMBDA i : KapInvResult(i, year, st, cfg))

FundLost(part, year, st, cfg) == Negative(part, LAMBDA i : KapInvResult(i, year, st, cfg))

TakenOff(part, year, st, cfg) == SumOver(part, LAMBDA i : VpReduction(i, year, st, cfg))

(***************************************************************************)
(* So are the results and the lines of the forms: sums over the same       *)
(* entries of the same amounts.                                            *)
(***************************************************************************)
LEMMA SameResults ==
  ASSUME ReturnTypes, NEW year \in Int, NEW cfg
  PROVE  /\ StockResult(year, DOMAIN log, cfg) = StockResult(year, UpTo(year), cfg)
         /\ GeneralResult(year, DOMAIN log, cfg) = GeneralResult(year, UpTo(year), cfg)
         /\ AnlageKap(year, DOMAIN log, cfg) = AnlageKap(year, UpTo(year), cfg)
         /\ \A class \in {"Equity", "Mixed", "Bond"} :
              AnlageKapInv(class, year, DOMAIN log, cfg) = AnlageKapInv(class, year, UpTo(year), cfg)
         /\ \A s \in Symbol : Reduced(s, year, DOMAIN log, cfg) = Reduced(s, year, UpTo(year), cfg)
<1> DEFINE sales == SalesOf(year, UpTo(year))
<1>0. ASSUME NEW st
      PROVE  /\ StockResult(year, st, cfg) = Sold(Share(SalesOf(year, st)), year, st, cfg)
             /\ Zeile20(year, st, cfg) = Gained(Share(SalesOf(year, st)), year, st, cfg)
             /\ Zeile23(year, st, cfg) = Lost(Share(SalesOf(year, st)), year, st, cfg)
  BY DEF StockResult, Zeile20, Zeile23, Sold, Gained, Lost
<1>1. /\ SalesOf(year, DOMAIN log) = sales /\ SalesOf(year, UpTo(year)) = sales
      /\ DividendsOf(year, DOMAIN log) = DividendsOf(year, UpTo(year))
      /\ InterestOf(year, DOMAIN log) = InterestOf(year, UpTo(year))
  BY SameEntries
<1>2. \A i \in sales :
        /\ VpReduction(i, year, DOMAIN log, cfg) = VpReduction(i, year, UpTo(year), cfg)
        /\ BeforeExemption(i, year, DOMAIN log, cfg) = BeforeExemption(i, year, UpTo(year), cfg)
        /\ SaleTaxable(i, year, DOMAIN log, cfg) = SaleTaxable(i, year, UpTo(year), cfg)
        /\ KapInvResult(i, year, DOMAIN log, cfg) = KapInvResult(i, year, UpTo(year), cfg)
  BY <1>1, SameLumps DEF BeforeExemption, SaleTaxable, KapInvResult
<1> HIDE DEF sales
<1>3. ASSUME NEW part \in SUBSET sales
      PROVE  /\ Sold(part, year, DOMAIN log, cfg) = Sold(part, year, UpTo(year), cfg)
             /\ Gained(part, year, DOMAIN log, cfg) = Gained(part, year, UpTo(year), cfg)
             /\ Lost(part, year, DOMAIN log, cfg) = Lost(part, year, UpTo(year), cfg)
             /\ FundGained(part, year, DOMAIN log, cfg) = FundGained(part, year, UpTo(year), cfg)
             /\ FundLost(part, year, DOMAIN log, cfg) = FundLost(part, year, UpTo(year), cfg)
             /\ TakenOff(part, year, DOMAIN log, cfg) = TakenOff(part, year, UpTo(year), cfg)
  <2>1. [i \in part |-> SaleTaxable(i, year, DOMAIN log, cfg)]
          = [i \in part |-> SaleTaxable(i, year, UpTo(year), cfg)]
    BY <1>2
  <2>2. [i \in part |-> Most(0, SaleTaxable(i, year, DOMAIN log, cfg))]
          = [i \in part |-> Most(0, SaleTaxable(i, year, UpTo(year), cfg))]
    BY <1>2
  <2>3. [i \in part |-> Most(0, -SaleTaxable(i, year, DOMAIN log, cfg))]
          = [i \in part |-> Most(0, -SaleTaxable(i, year, UpTo(year), cfg))]
    BY <1>2
  <2>4. [i \in part |-> Most(0, KapInvResult(i, year, DOMAIN log, cfg))]
          = [i \in part |-> Most(0, KapInvResult(i, year, UpTo(year), cfg))]
    BY <1>2
  <2>5. [i \in part |-> Most(0, -KapInvResult(i, year, DOMAIN log, cfg))]
          = [i \in part |-> Most(0, -KapInvResult(i, year, UpTo(year), cfg))]
    BY <1>2
  <2>6. [i \in part |-> VpReduction(i, year, DOMAIN log, cfg)]
          = [i \in part |-> VpReduction(i, year, UpTo(year), cfg)]
    BY <1>2
  <2> QED
    BY <2>1, <2>2, <2>3, <2>4, <2>5, <2>6 
       DEF SumOver, Positive, Negative, Sold, Gained, Lost, FundGained, FundLost, TakenOff
<1>4. /\ Share(sales) \in SUBSET sales /\ Fund(sales) \in SUBSET sales
      /\ \A class : OfClass(class, sales) \in SUBSET sales
      /\ \A s : {i \in sales : log[i].symbol = s} \in SUBSET sales
  BY DEF Share, Fund, OfClass
<1>5. StockResult(year, DOMAIN log, cfg) = StockResult(year, UpTo(year), cfg)
  <2>1. Sold(Share(sales), year, DOMAIN log, cfg) = Sold(Share(sales), year, UpTo(year), cfg)
    BY <1>3, <1>4
  <2> QED
    BY <1>0, <1>1, <2>1
<1>6. GeneralResult(year, DOMAIN log, cfg) = GeneralResult(year, UpTo(year), cfg)
  <2>1. ASSUME NEW st
        PROVE  GeneralResult(year, st, cfg)
                 = Sold(Fund(SalesOf(year, st)), year, st, cfg)
                     + SumOver(DividendsOf(year, st), DividendTaxable)
                     + Whole * (SumOver(InterestOf(year, st), Gross) + SumOver(FxGains(year), Gain))
    BY DEF GeneralResult, Sold
  <2>2. Sold(Fund(sales), year, DOMAIN log, cfg) = Sold(Fund(sales), year, UpTo(year), cfg)
    BY <1>3, <1>4
  <2> QED
    BY <1>1, <2>1, <2>2
<1>7. AnlageKap(year, DOMAIN log, cfg) = AnlageKap(year, UpTo(year), cfg)
  <2>1. Zeile20(year, DOMAIN log, cfg) = Zeile20(year, UpTo(year), cfg)
    <3>1. Gained(Share(sales), year, DOMAIN log, cfg) = Gained(Share(sales), year, UpTo(year), cfg)
      BY <1>3, <1>4
    <3> QED
      BY <1>0, <1>1, <3>1
  <2>2. Zeile23(year, DOMAIN log, cfg) = Zeile23(year, UpTo(year), cfg)
    <3>1. Lost(Share(sales), year, DOMAIN log, cfg) = Lost(Share(sales), year, UpTo(year), cfg)
      BY <1>3, <1>4
    <3> QED
      BY <1>0, <1>1, <3>1
  <2>3. KapPositive(year, DOMAIN log, cfg) = KapPositive(year, UpTo(year), cfg)
    BY <1>1, <2>1 DEF KapPositive
  <2>4. Zeile41(year, DOMAIN log) = Zeile41(year, UpTo(year))
    BY <1>1 DEF Zeile41
  <2> QED
    BY <2>1, <2>2, <2>3, <2>4 DEF AnlageKap
<1>8. ASSUME NEW class
      PROVE  AnlageKapInv(class, year, DOMAIN log, cfg) = AnlageKapInv(class, year, UpTo(year), cfg)
  <2> DEFINE part == OfClass(class, sales)
  <2>1. ASSUME NEW st
        PROVE  AnlageKapInv(class, year, st, cfg)
                 = [distributions |-> SumOver(OfClass(class, DividendsOf(year, st)), Gross),
                    gains |-> FundGained(OfClass(class, SalesOf(year, st)), year, st, cfg),
                    losses |-> FundLost(OfClass(class, SalesOf(year, st)), year, st, cfg)]
    BY DEF AnlageKapInv, FundGained, FundLost
  <2>2. /\ FundGained(part, year, DOMAIN log, cfg) = FundGained(part, year, UpTo(year), cfg)
        /\ FundLost(part, year, DOMAIN log, cfg) = FundLost(part, year, UpTo(year), cfg)
    BY <1>3, <1>4
  <2> QED
    BY <1>1, <2>1, <2>2
<1>9. ASSUME NEW s
      PROVE  Reduced(s, year, DOMAIN log, cfg) = Reduced(s, year, UpTo(year), cfg)
  <2> DEFINE part == {i \in sales : log[i].symbol = s}
  <2>1. ASSUME NEW st
        PROVE  Reduced(s, year, st, cfg)
                 = TakenOff({i \in SalesOf(year, st) : log[i].symbol = s}, year, st, cfg)
    BY DEF Reduced, TakenOff
  <2>2. TakenOff(part, year, DOMAIN log, cfg) = TakenOff(part, year, UpTo(year), cfg)
    BY <1>3, <1>4
  <2> QED
    BY <1>1, <2>1, <2>2
<1> QED
  BY <1>5, <1>6, <1>7, <1>8, <1>9

(***************************************************************************)
(* For every statement and however far it has gone on: the return computed *)
(* from it says what it would have said on the last day of the year.       *)
(***************************************************************************)
THEOREM LateReturnsAgree == Spec => []LateFilingAgrees
<1>1. ReturnTypes => LateFilingAgrees
  <2> SUFFICES ASSUME ReturnTypes PROVE LateFilingAgrees
    OBVIOUS
  <2>1. filed \in Seq(TaxReturns)
    BY DEF ReturnTypes
  <2>2. PICK year \in Int : year = Len(filed)
    BY <2>1
  <2> DEFINE D == DOMAIN log
             U == UpTo(year)
  <2>3. /\ StockResult(year, D, config) = StockResult(year, U, config)
        /\ GeneralResult(year, D, config) = GeneralResult(year, U, config)
        /\ AnlageKap(year, D, config) = AnlageKap(year, U, config)
        /\ FundForms(year, D, config) = FundForms(year, U, config)
        /\ Reductions(year, D, config) = Reductions(year, U, config)
    BY SameResults DEF FundForms, Reductions
  <2>4. LumpSums(year, D) = LumpSums(year, U)
    <3>1. LumpFunds(year, D) = LumpFunds(year, U) /\ LumpFunds(year, D) \in SUBSET Symbol
      BY SameLumps DEF LumpFunds
    <3> QED
      BY <3>1, SameLumps DEF LumpSums
  <2> HIDE DEF D, U
  <2>5. ComputeTaxYear(year, D, config) = ComputeTaxYear(year, U, config)
    BY <2>3, <2>4 DEF ComputeTaxYear, FundForms, Reductions, LumpSums
  <2> QED
    BY <2>2, <2>5 DEF LateFilingAgrees, D, U
<1> DEFINE Inv == QueueInv /\ ReturnTypes
<1>2. Init => Inv
  BY QueueInit, FxAssumption, ReturnInit DEF Init
<1>3. Inv /\ [Next]_vars => Inv'
  BY QueueStep, FxAssumption, ReturnStep DEF QueueInv
<1> QED
  BY <1>1, <1>2, <1>3, PTL DEF Spec

-----------------------------------------------------------------------------
(* The ledger of the currency, in first-order terms: the total of a         *)
(* function over its domain, and what is added up of a queue.               *)
Total(f) == SumFunctionOnSet(f, DOMAIN f)

QtyOf(q) == [i \in DOMAIN q |-> q[i].qty]

CostOf(q) == [i \in DOMAIN q |-> q[i].qty * q[i].rate]

SpentOn(q) == [i \in DOMAIN q |-> q[i].amount * q[i].rate]

AmountOf(q) == [i \in DOMAIN q |-> q[i].amount]

ToPlace == IF remaining = 0 THEN 0 ELSE remaining * rows[Len(rows)].rate

(* While the replay goes on, its own balance is the broker's, and its       *)
(* entries are of days that have been.                                      *)
Ledger ==
  ~refused =>
    /\ running = balance
    /\ Total(QtyOf(lots)) = balance - remaining
    /\ Total(SpentOn(rows)) - ToPlace
         = Total(CostOf(lots)) - Total(AmountOf(taxable)) - Total(AmountOf(nonTaxable))

Dated ==
  /\ \A i \in DOMAIN rows : rows[i].date \in 0 .. today
  /\ \A k \in DOMAIN taxable : taxable[k].date \in 0 .. today
  /\ \A k \in DOMAIN nonTaxable : nonTaxable[k].date \in 0 .. today

Balances == running \in Int /\ account \in Int /\ balance \in Int

(* One more entry.                                                          *)
LEMMA TotalAppended ==
  ASSUME NEW n \in Nat, NEW f, DOMAIN f = 1 .. n, \A i \in 1 .. n : f[i] \in Int,
         NEW g, DOMAIN g = 1 .. n + 1, \A i \in 1 .. n : g[i] = f[i], g[n + 1] \in Int
  PROVE  Total(g) = Total(f) + g[n + 1]
BY SumAppended DEF Total

(* The first entry less.                                                    *)
LEMMA TotalOfTail ==
  ASSUME NEW n \in Nat, NEW f, DOMAIN f = 1 .. n + 1, \A i \in 1 .. n + 1 : f[i] \in Int,
         NEW g, DOMAIN g = 1 .. n, \A i \in 1 .. n : g[i] = f[i + 1]
  PROVE  Total(f) = f[1] + Total(g)
BY SumOfTail DEF Total

(* One entry changes.                                                       *)
LEMMA TotalChanged ==
  ASSUME NEW S, NEW f, DOMAIN f = S, Summable(f, S), NEW g, DOMAIN g = S,
         NEW x \in S, g[x] \in Int, \A y \in S \ {x} : g[y] = f[y]
  PROVE  Total(g) = Total(f) - f[x] + g[x]
BY SumChange DEF Total

(* What is added up are whole numbers.                                      *)
LEMMA TotalInteger ==
  ASSUME NEW n \in Nat, NEW f, DOMAIN f = 1 .. n, \A i \in 1 .. n : f[i] \in Int
  PROVE  Total(f) \in Int /\ Summable(f, DOMAIN f)
<1>1. IsFiniteSet(1 .. n)
  BY FS_Interval
<1>2. Summable(f, DOMAIN f)
  BY <1>1 DEF Summable
<1> QED
  BY <1>2, SumInteger DEF Total

(* The functions that are added up.                                         *)
LEMMA LedgerTypes ==
  /\ \A q \in Seq(LotType) :
       /\ Len(q) \in Nat /\ DOMAIN q = 1 .. Len(q)
       /\ DOMAIN QtyOf(q) = 1 .. Len(q) /\ DOMAIN CostOf(q) = 1 .. Len(q)
       /\ \A i \in 1 .. Len(q) : /\ QtyOf(q)[i] = q[i].qty /\ q[i].qty \in Int
                                 /\ CostOf(q)[i] = q[i].qty * q[i].rate
                                 /\ q[i].rate \in Int /\ CostOf(q)[i] \in Int
  /\ \A q \in Seq(RowType) :
       /\ Len(q) \in Nat /\ DOMAIN q = 1 .. Len(q)
       /\ DOMAIN SpentOn(q) = 1 .. Len(q)
       /\ \A i \in 1 .. Len(q) : /\ SpentOn(q)[i] = q[i].amount * q[i].rate
                                 /\ q[i].amount \in Int /\ q[i].rate \in Int
                                 /\ SpentOn(q)[i] \in Int
  /\ \A q \in Seq(RealizedType) :
       /\ Len(q) \in Nat /\ DOMAIN q = 1 .. Len(q)
       /\ DOMAIN AmountOf(q) = 1 .. Len(q)
       /\ \A i \in 1 .. Len(q) : AmountOf(q)[i] = q[i].amount /\ q[i].amount \in Int
<1>0. \A m, n \in Int : m * n \in Int
  OBVIOUS
<1>1. ASSUME NEW q \in Seq(LotType)
      PROVE  /\ Len(q) \in Nat /\ DOMAIN q = 1 .. Len(q)
             /\ DOMAIN QtyOf(q) = 1 .. Len(q) /\ DOMAIN CostOf(q) = 1 .. Len(q)
             /\ \A i \in 1 .. Len(q) : /\ QtyOf(q)[i] = q[i].qty /\ q[i].qty \in Int
                                       /\ CostOf(q)[i] = q[i].qty * q[i].rate
                                       /\ q[i].rate \in Int /\ CostOf(q)[i] \in Int
  <2>1. Len(q) \in Nat /\ DOMAIN q = 1 .. Len(q) /\ \A i \in 1 .. Len(q) : q[i] \in LotType
    OBVIOUS
  <2>2. \A i \in 1 .. Len(q) : q[i].qty \in Int /\ q[i].rate \in Int
    BY <2>1 DEF LotType
  <2> QED
    BY <1>0, <2>1, <2>2 DEF QtyOf, CostOf
<1>2. ASSUME NEW q \in Seq(RowType)
      PROVE  /\ Len(q) \in Nat /\ DOMAIN q = 1 .. Len(q)
             /\ DOMAIN SpentOn(q) = 1 .. Len(q)
             /\ \A i \in 1 .. Len(q) : /\ SpentOn(q)[i] = q[i].amount * q[i].rate
                                       /\ q[i].amount \in Int /\ q[i].rate \in Int
                                       /\ SpentOn(q)[i] \in Int
  <2>1. Len(q) \in Nat /\ DOMAIN q = 1 .. Len(q) /\ \A i \in 1 .. Len(q) : q[i] \in RowType
    OBVIOUS
  <2>2. \A i \in 1 .. Len(q) : q[i].amount \in Int /\ q[i].rate \in Int
    BY <2>1 DEF RowType
  <2> QED
    BY <1>0, <2>1, <2>2 DEF SpentOn
<1>3. ASSUME NEW q \in Seq(RealizedType)
      PROVE  /\ Len(q) \in Nat /\ DOMAIN q = 1 .. Len(q)
             /\ DOMAIN AmountOf(q) = 1 .. Len(q)
             /\ \A i \in 1 .. Len(q) : AmountOf(q)[i] = q[i].amount /\ q[i].amount \in Int
  <2>1. /\ Len(q) \in Nat /\ DOMAIN q = 1 .. Len(q)
        /\ \A i \in 1 .. Len(q) : q[i] \in RealizedType
    OBVIOUS
  <2> QED
    BY <2>1 DEF AmountOf, RealizedType
<1> QED
  BY <1>1, <1>2, <1>3

(* All totals are whole numbers.                                            *)
LEMMA TotalTypes ==
  /\ \A q \in Seq(RowType) : Total(SpentOn(q)) \in Int
  /\ \A q \in Seq(RealizedType) : Total(AmountOf(q)) \in Int
  /\ \A q \in Seq(LotType) : Total(QtyOf(q)) \in Int /\ Total(CostOf(q)) \in Int
<1>1. ASSUME NEW q \in Seq(RealizedType) PROVE Total(AmountOf(q)) \in Int
  <2>1. Len(q) \in Nat /\ DOMAIN AmountOf(q) = 1 .. Len(q)
          /\ \A i \in 1 .. Len(q) : AmountOf(q)[i] \in Int
    BY LedgerTypes
  <2> QED
    BY <2>1, TotalInteger
<1>2. ASSUME NEW q \in Seq(RowType) PROVE Total(SpentOn(q)) \in Int
  <2>1. Len(q) \in Nat /\ DOMAIN SpentOn(q) = 1 .. Len(q)
          /\ \A i \in 1 .. Len(q) : SpentOn(q)[i] \in Int
    BY LedgerTypes
  <2> QED
    BY <2>1, TotalInteger
<1>3. ASSUME NEW q \in Seq(LotType) PROVE Total(QtyOf(q)) \in Int /\ Total(CostOf(q)) \in Int
  <2>1. /\ Len(q) \in Nat
        /\ DOMAIN QtyOf(q) = 1 .. Len(q) /\ DOMAIN CostOf(q) = 1 .. Len(q)
        /\ \A i \in 1 .. Len(q) : QtyOf(q)[i] \in Int /\ CostOf(q)[i] \in Int
    BY LedgerTypes
  <2> QED
    BY <2>1, TotalInteger
<1> QED
  BY <1>1, <1>2, <1>3

(***************************************************************************)
(* The oldest lot less a portion: the queue holds so much less, at the     *)
(* price of that lot.                                                      *)
(***************************************************************************)
LEMMA LeftSums ==
  ASSUME FxTypes, OneSide, lots # <<>>, remaining # 0, ~Extends
  PROVE  /\ Total(QtyOf(Left)) = Total(QtyOf(lots)) - Sign(lots[1].qty) * Portion
         /\ Total(CostOf(Left))
              = Total(CostOf(lots)) - (Sign(lots[1].qty) * Portion) * lots[1].rate
         /\ Total(QtyOf(lots)) \in Int /\ Total(CostOf(lots)) \in Int
<1> DEFINE closed == Sign(lots[1].qty) * Portion
           n == Len(lots)
<1>1. /\ lots \in Seq(LotType) /\ Left \in Seq(LotType) /\ closed \in Int
      /\ n \in Nat /\ n >= 1 /\ 1 \in 1 .. n
  <2>1. lots \in Seq(LotType)
    BY DEF FxTypes
  <2>2. Left \in Seq(LotType)
    BY LeftOver
  <2>3. Len(lots) \in Nat /\ Len(lots) >= 1
    BY <2>1
  <2>4. Portion \in Int
    BY PortionIsInt
  <2> QED
    BY <2>1, <2>2, <2>3, <2>4 DEF Sign
<1>2. /\ DOMAIN QtyOf(lots) = 1 .. n /\ DOMAIN CostOf(lots) = 1 .. n
      /\ \A i \in 1 .. n : /\ QtyOf(lots)[i] = lots[i].qty /\ lots[i].qty \in Int
                           /\ CostOf(lots)[i] = lots[i].qty * lots[i].rate
                           /\ lots[i].rate \in Int /\ CostOf(lots)[i] \in Int
  BY <1>1, LedgerTypes
<1>3. /\ DOMAIN QtyOf(Left) = 1 .. Len(Left) /\ DOMAIN CostOf(Left) = 1 .. Len(Left)
      /\ \A i \in 1 .. Len(Left) : /\ QtyOf(Left)[i] = Left[i].qty /\ Left[i].qty \in Int
                                   /\ CostOf(Left)[i] = Left[i].qty * Left[i].rate
                                   /\ Left[i].rate \in Int /\ CostOf(Left)[i] \in Int
  BY <1>1, LedgerTypes
<1>4. Total(QtyOf(lots)) \in Int /\ Total(CostOf(lots)) \in Int
      /\ Summable(QtyOf(lots), 1 .. n) /\ Summable(CostOf(lots), 1 .. n)
  <2>1. \A i \in 1 .. n : QtyOf(lots)[i] \in Int
    BY <1>2
  <2> QED
    BY <1>1, <1>2, <2>1, TotalInteger
<1>5. CASE /\ Len(Left) = n - 1
           /\ \A i \in 1 .. Len(Left) : Left[i] = lots[i + 1]
           /\ lots[1].qty - closed = 0
  <2>1. PICK k \in Nat : k + 1 = n /\ Len(Left) = k
    BY <1>1, <1>5
  <2>2. \A i \in 1 .. k : i + 1 \in 1 .. n /\ Left[i] = lots[i + 1]
    BY <1>5, <2>1
  <2>3. \A i \in 1 .. k : /\ QtyOf(Left)[i] = QtyOf(lots)[i + 1]
                          /\ CostOf(Left)[i] = CostOf(lots)[i + 1]
    <3>1. TAKE i \in 1 .. k
    <3>2. PICK j \in 1 .. n : j = i + 1 /\ Left[i] = lots[j]
      BY <2>2
    <3>3. i \in 1 .. Len(Left)
      BY <2>1
    <3>4. QtyOf(Left)[i] = lots[j].qty /\ CostOf(Left)[i] = lots[j].qty * lots[j].rate
      BY <1>3, <3>2, <3>3
    <3> QED
      BY <1>2, <3>2, <3>4
  <2> DEFINE qtys == QtyOf(lots)
             costs == CostOf(lots)
             qtysLeft == QtyOf(Left)
             costsLeft == CostOf(Left)
  <2>8. /\ DOMAIN qtys = 1 .. k + 1 /\ \A i \in 1 .. k + 1 : qtys[i] \in Int
        /\ DOMAIN qtysLeft = 1 .. k /\ \A i \in 1 .. k : qtysLeft[i] = qtys[i + 1]
    BY <1>2, <1>3, <2>1, <2>3
  <2>11. /\ DOMAIN costs = 1 .. k + 1 /\ \A i \in 1 .. k + 1 : costs[i] \in Int
         /\ DOMAIN costsLeft = 1 .. k /\ \A i \in 1 .. k : costsLeft[i] = costs[i + 1]
    BY <1>2, <1>3, <2>1, <2>3
  <2> HIDE DEF qtys, costs, qtysLeft, costsLeft
  <2>9. Total(qtys) = qtys[1] + Total(qtysLeft)
    BY ONLY ZenonT(30), k \in Nat, <2>8, TotalOfTail
  <2>10. Total(costs) = costs[1] + Total(costsLeft)
    BY ONLY ZenonT(30), k \in Nat, <2>11, TotalOfTail
  <2>4. Total(QtyOf(lots)) = QtyOf(lots)[1] + Total(QtyOf(Left))
    BY <2>9 DEF qtys, qtysLeft
  <2>5. Total(CostOf(lots)) = CostOf(lots)[1] + Total(CostOf(Left))
    BY <2>10 DEF costs, costsLeft
  <2>6. Total(QtyOf(Left)) \in Int /\ Total(CostOf(Left)) \in Int
    <3>1. \A i \in 1 .. k : QtyOf(Left)[i] \in Int /\ CostOf(Left)[i] \in Int
      BY <1>3, <2>1
    <3> QED
      BY <1>3, <2>1, <3>1, TotalInteger
  <2>7. /\ QtyOf(lots)[1] = closed /\ CostOf(lots)[1] = closed * lots[1].rate
        /\ CostOf(lots)[1] \in Int
    <3>1. lots[1].qty = closed
      <4>1. lots[1].qty \in Int
        BY <1>1, <1>2
      <4> HIDE DEF closed
      <4> QED
        BY <1>1, <1>5, <4>1
    <3> QED
      BY <1>1, <1>2, <3>1
  <2> HIDE DEF closed
  <2> QED
    BY <1>1, <1>4, <2>4, <2>5, <2>6, <2>7 DEF closed
<1>6. CASE /\ Len(Left) = n
           /\ Left[1].qty = lots[1].qty - closed /\ Left[1].rate = lots[1].rate
           /\ \A i \in 2 .. Len(Left) : Left[i] = lots[i]
  <2>1. \A i \in (1 .. n) \ {1} : /\ QtyOf(Left)[i] = QtyOf(lots)[i]
                                  /\ CostOf(Left)[i] = CostOf(lots)[i]
    <3>1. \A i \in (1 .. n) \ {1} : i \in 2 .. Len(Left)
      BY <1>1, <1>6
    <3> QED
      BY ZenonT(30), <1>2, <1>3, <1>6, <3>1
  <2>2. /\ QtyOf(Left)[1] = lots[1].qty - closed /\ QtyOf(Left)[1] \in Int
        /\ CostOf(Left)[1] = (lots[1].qty - closed) * lots[1].rate
        /\ CostOf(Left)[1] \in Int
    BY <1>1, <1>3, <1>6
  <2>3. Total(QtyOf(Left)) = Total(QtyOf(lots)) - QtyOf(lots)[1] + QtyOf(Left)[1]
    <3> DEFINE f == QtyOf(lots)
               g == QtyOf(Left)
               S == 1 .. n
    <3>1. /\ 1 \in S /\ DOMAIN f = S /\ Summable(f, S) /\ DOMAIN g = S
          /\ g[1] \in Int /\ \A y \in S \ {1} : g[y] = f[y]
      BY <1>1, <1>2, <1>3, <1>4, <1>6, <2>1, <2>2
    <3> HIDE DEF f, g, S
    <3>2. Total(g) = Total(f) - f[1] + g[1]
      BY ONLY <3>1, TotalChanged
    <3> QED
      BY <3>2 DEF f, g
  <2>4. Total(CostOf(Left)) = Total(CostOf(lots)) - CostOf(lots)[1] + CostOf(Left)[1]
    <3> DEFINE f == CostOf(lots)
               g == CostOf(Left)
               S == 1 .. n
    <3>1. /\ 1 \in S /\ DOMAIN f = S /\ Summable(f, S) /\ DOMAIN g = S
          /\ g[1] \in Int /\ \A y \in S \ {1} : g[y] = f[y]
      BY <1>1, <1>2, <1>3, <1>4, <1>6, <2>1, <2>2
    <3> HIDE DEF f, g, S
    <3>2. Total(g) = Total(f) - f[1] + g[1]
      BY ONLY <3>1, TotalChanged
    <3> QED
      BY <3>2 DEF f, g
  <2>5. /\ QtyOf(lots)[1] = lots[1].qty /\ CostOf(lots)[1] = lots[1].qty * lots[1].rate
        /\ lots[1].qty \in Int /\ lots[1].rate \in Int
    BY <1>1, <1>2
  <2>6. \A q, c, r \in Int : (q - c) * r = q * r - c * r /\ q * r \in Int /\ c * r \in Int
    OBVIOUS
  <2> HIDE DEF closed
  <2>7. /\ CostOf(Left)[1] = lots[1].qty * lots[1].rate - closed * lots[1].rate
        /\ lots[1].qty * lots[1].rate \in Int /\ closed * lots[1].rate \in Int
    BY SMTT(20), <1>1, <2>2, <2>5, <2>6
  <2>8. Total(QtyOf(Left)) = Total(QtyOf(lots)) - closed
    BY <1>1, <1>4, <2>2, <2>3, <2>5
  <2>9. Total(CostOf(Left)) = Total(CostOf(lots)) - closed * lots[1].rate
    BY <1>4, <2>4, <2>5, <2>7
  <2> QED
    BY <1>4, <2>8, <2>9 DEF closed
<1> QED
  BY <1>5, <1>6, LeftOver

LedgerInv == Balances /\ Ledger /\ Dated

(* An empty export, or one lot at the price that was declared for it.       *)
LEMMA LedgerInit == FxAssumption /\ FxInit => LedgerInv
<1> SUFFICES ASSUME FxAssumption, FxInit PROVE LedgerInv
  OBVIOUS
<1>1. /\ today = 0 /\ remaining = 0 /\ taxable = <<>> /\ nonTaxable = <<>> /\ balance = running
      /\ running \in Int /\ account \in Int
  BY DEF FxAssumption, FxInit
<1>2. /\ Total(AmountOf(taxable)) = 0 /\ Total(AmountOf(nonTaxable)) = 0
  <2>1. DOMAIN AmountOf(<<>>) = {}
    BY DEF AmountOf
  <2> QED
    BY <1>1, <2>1, SumEmpty DEF Total
<1>3. CASE running = 0
  <2>1. rows = <<>> /\ lots = <<>>
    BY <1>3 DEF FxInit
  <2>2. DOMAIN QtyOf(<<>>) = {} /\ DOMAIN CostOf(<<>>) = {} /\ DOMAIN SpentOn(<<>>) = {}
    BY DEF QtyOf, CostOf, SpentOn
  <2>3. Total(QtyOf(lots)) = 0 /\ Total(CostOf(lots)) = 0 /\ Total(SpentOn(rows)) = 0
    BY <2>1, <2>2, SumEmpty DEF Total
  <2> QED
    BY <1>1, <1>2, <1>3, <2>1, <2>3 DEF LedgerInv, Balances, Ledger, Dated, ToPlace
<1>4. CASE running # 0
  <2>1. PICK rate \in {r \in Rates : r > 0} :
          rows = <<Row(running, rate)>> /\ lots = <<Lot(1, running, rate, 0)>>
    BY <1>4 DEF FxInit
  <2>2. rate \in Int
    BY DEF FxAssumption
  <2>3. /\ DOMAIN QtyOf(lots) = {1} /\ QtyOf(lots)[1] = running
        /\ DOMAIN CostOf(lots) = {1} /\ CostOf(lots)[1] = running * rate
        /\ DOMAIN SpentOn(rows) = {1} /\ SpentOn(rows)[1] = running * rate
        /\ rows[1].date = today /\ DOMAIN rows = {1}
    BY <2>1 DEF QtyOf, CostOf, SpentOn, Lot, Row
  <2>4. ASSUME NEW f, DOMAIN f = {1}, f[1] \in Int PROVE Total(f) = f[1]
    <3>1. Summable(f, {1}) /\ \A y \in {1} \ {1} : f[y] = 0
      BY <2>4, FS_Singleton DEF Summable
    <3> QED
      BY <2>4, <3>1, SumSingle DEF Total
  <2>5. running * rate \in Int
    BY <1>1, <2>2
  <2>6. /\ Total(QtyOf(lots)) = running /\ Total(CostOf(lots)) = running * rate
        /\ Total(SpentOn(rows)) = running * rate
    BY <1>1, <2>3, <2>4, <2>5
  <2>7. Dated
    BY <1>1, <2>3 DEF Dated
  <2> QED
    BY <1>1, <1>2, <2>5, <2>6, <2>7 DEF LedgerInv, Balances, Ledger, ToPlace
<1> QED
  BY <1>3, <1>4

(* What touches nothing but the account and the date.                       *)
LEMMA LedgerUntouched ==
  ASSUME LedgerInv, today \in Int, today' \in Int, today <= today', account' \in Int,
         UNCHANGED <<running, balance, lots, remaining, rows, taxable, nonTaxable, refused>>
  PROVE  LedgerInv'
<1>1. Dated'
  <2>1. \A n \in 0 .. today : n \in 0 .. today'
    OBVIOUS
  <2> QED
    BY <2>1 DEF LedgerInv, Dated
<1>2. Ledger'
  BY DEF LedgerInv, Ledger, Total, QtyOf, CostOf, SpentOn, AmountOf, ToPlace
<1> QED
  BY <1>1, <1>2 DEF LedgerInv, Balances

(* A row whose balance agrees: nothing of it is placed yet.                 *)
LEMMA LedgerRead ==
  ASSUME FxAssumption, QueueInv, LedgerInv, today \in Nat, NEW amount \in Amounts, NEW rate \in Rates,
         ReadRow(amount, rate)
  PROVE  LedgerInv'
<1>1. /\ remaining = 0 /\ ~refused
      /\ account' = account + amount /\ running' = running + amount
      /\ UNCHANGED <<today, lost, lots, taxable, nonTaxable>>
  BY DEF ReadRow, Replayed
<1>2. /\ amount \in Int /\ amount # 0 /\ rate \in Int /\ rows \in Seq(RowType)
      /\ running \in Int /\ account \in Int /\ balance \in Int
  BY DEF FxAssumption, QueueInv, FxTypes, LedgerInv, Balances
<1>3. CASE refused'
  <2>1. UNCHANGED <<rows, remaining, balance>>
    BY <1>1, <1>3 DEF ReadRow
  <2> QED
    BY <1>1, <1>2, <1>3, <2>1 DEF LedgerInv, Balances, Ledger, Dated
<1>4. CASE ~refused'
  <2>1. /\ rows' = Append(rows, Row(amount, rate)) /\ remaining' = amount
        /\ balance' = account' /\ running + amount = account + amount
    BY <1>1, <1>4 DEF ReadRow, Agrees
  <2> DEFINE n == Len(rows)
             spent == SpentOn(rows)
             spentThen == SpentOn(rows')
  <2>2. /\ n \in Nat /\ DOMAIN rows = 1 .. n /\ DOMAIN rows' = 1 .. n + 1
        /\ rows'[n + 1] = Row(amount, rate) /\ \A i \in 1 .. n : rows'[i] = rows[i]
        /\ Len(rows') = n + 1
    BY <1>2, <2>1
  <2>3. /\ Row(amount, rate).amount = amount /\ Row(amount, rate).rate = rate
        /\ Row(amount, rate).date = today
    BY DEF Row
  <2>4. amount * rate \in Int
    BY <1>2
  <2>5. DOMAIN spent = 1 .. n /\ \A i \in 1 .. n : spent[i] \in Int
    BY <1>2, LedgerTypes DEF QueueInv
  <2>6. /\ DOMAIN spentThen = 1 .. n + 1 /\ spentThen[n + 1] = amount * rate
        /\ \A i \in 1 .. n : spentThen[i] = spent[i]
    <3>1. DOMAIN spentThen = 1 .. n + 1
      BY <2>2 DEF SpentOn
    <3>2. n + 1 \in 1 .. n + 1 /\ \A i \in 1 .. n : i \in 1 .. n + 1
      BY <2>2
    <3> QED
      BY <2>2, <2>3, <3>1, <3>2 DEF SpentOn
  <2> HIDE DEF n, spent, spentThen
  <2>7. Total(spentThen) = Total(spent) + amount * rate
    BY <2>2, <2>4, <2>5, <2>6, TotalAppended
  <2>8. Total(spent) \in Int
    BY <2>2, <2>5, TotalInteger
  <2>9. ToPlace' = amount * rate
    BY <1>2, <2>1, <2>2, <2>3 DEF ToPlace, n
  <2>10. Total(spentThen) - ToPlace' = Total(spent) - ToPlace
    BY <1>1, <2>4, <2>7, <2>8, <2>9 DEF ToPlace
  <2>11. Total(SpentOn(rows'))= Total(spentThen) /\ Total(SpentOn(rows)) = Total(spent)
    BY DEF spent, spentThen
  <2>12. running' = balance'
    BY <1>1, <2>1
  <2>13. balance' - remaining' = balance - remaining
    <3>1. running = balance
      BY <1>1 DEF LedgerInv, Ledger
    <3> QED
      BY <1>1, <1>2, <2>1, <2>12, <3>1
  <2>14. Ledger'
    BY <1>1, <2>10, <2>11, <2>12, <2>13 DEF LedgerInv, Ledger
  <2>15. Dated'
    <3>1. \A i \in 1 .. n + 1 : rows'[i].date \in 0 .. today
      <4>1. \A i \in 1 .. n + 1 : i \in 1 .. n \/ i = n + 1
        BY <2>2
      <4> QED
        BY <2>2, <2>3, <4>1 DEF LedgerInv, Dated
    <3> QED
      BY <1>1, <2>2, <3>1 DEF LedgerInv, Dated
  <2> QED
    BY <1>1, <1>2, <2>1, <2>14, <2>15 DEF LedgerInv, Balances
<1> QED
  BY <1>3, <1>4

(* What remains of a row becomes a lot at the row's price.                  *)
LEMMA LedgerExtend ==
  ASSUME QueueInv, LedgerInv, Extend
  PROVE  LedgerInv'
<1> DEFINE n == Len(rows)
           new == Lot(n, remaining, rows[n].rate, rows[n].date)
           k == Len(lots)
<1>1. /\ remaining # 0 /\ remaining' = 0 /\ lots' = Append(lots, new)
      /\ UNCHANGED <<today, account, running, balance, rows, taxable, nonTaxable, refused>>
  BY DEF Extend, PushBack
<1>2. rows[n] \in RowType /\ n \in Nat /\ lots \in Seq(LotType) /\ remaining \in Int
  BY <1>1 DEF QueueInv, FxTypes, QueueInOrder, OneSide
<1>3. new.rate = rows[n].rate /\ new.qty = remaining /\ rows[n].rate \in Int
  BY <1>2 DEF Lot, RowType
<1> HIDE DEF new
<1>4. /\ k \in Nat /\ DOMAIN lots = 1 .. k /\ DOMAIN lots' = 1 .. k + 1
      /\ lots'[k + 1] = new /\ \A i \in 1 .. k : lots'[i] = lots[i]
      /\ k + 1 \in 1 .. k + 1 /\ \A i \in 1 .. k : i \in 1 .. k + 1
  BY <1>1, <1>2
<1> DEFINE qtys == QtyOf(lots)
           costs == CostOf(lots)
           qtysThen == QtyOf(lots')
           costsThen == CostOf(lots')
           cost == remaining * rows[n].rate
<1>5. /\ DOMAIN qtys = 1 .. k /\ \A i \in 1 .. k : qtys[i] \in Int
      /\ DOMAIN costs = 1 .. k /\ \A i \in 1 .. k : costs[i] \in Int
  BY <1>2, LedgerTypes DEF QueueInv
<1>6. /\ DOMAIN qtysThen = 1 .. k + 1 /\ qtysThen[k + 1] = remaining
      /\ \A i \in 1 .. k : qtysThen[i] = qtys[i]
  BY <1>3, <1>4 DEF QtyOf
<1>7. /\ DOMAIN costsThen = 1 .. k + 1 /\ costsThen[k + 1] = cost
      /\ \A i \in 1 .. k : costsThen[i] = costs[i]
  BY <1>3, <1>4 DEF CostOf
<1>8. cost \in Int
  BY <1>2, <1>3
<1>9. ToPlace = cost /\ ToPlace' = 0
  BY <1>1 DEF ToPlace
<1> HIDE DEF qtys, costs, qtysThen, costsThen, cost, n, k
<1>10. Total(qtysThen) = Total(qtys) + remaining
  BY <1>2, <1>4, <1>5, <1>6, TotalAppended
<1>11. Total(costsThen) = Total(costs) + cost
  BY <1>4, <1>5, <1>7, <1>8, TotalAppended
<1>12. Total(qtys) \in Int /\ Total(costs) \in Int
  BY <1>4, <1>5, TotalInteger
<1>13. /\ Total(SpentOn(rows)) \in Int /\ Total(AmountOf(taxable)) \in Int
       /\ Total(AmountOf(nonTaxable)) \in Int
  BY TotalTypes DEF QueueInv, FxTypes
<1>14. Ledger'
  <2> SUFFICES ASSUME ~refused PROVE Ledger'
    BY <1>1 DEF Ledger
  <2>1. /\ running = balance /\ Total(qtys) = balance - remaining
        /\ Total(SpentOn(rows)) - cost
             = Total(costs) - Total(AmountOf(taxable)) - Total(AmountOf(nonTaxable))
    BY <1>9 DEF LedgerInv, Ledger, qtys, costs
  <2>2. balance \in Int
    BY DEF LedgerInv, Balances
  <2>3. Total(qtysThen) = balance - 0
    BY <1>2, <1>10, <1>12, <2>1, <2>2
  <2>4. Total(SpentOn(rows)) - 0
          = Total(costsThen) - Total(AmountOf(taxable)) - Total(AmountOf(nonTaxable))
    BY <1>8, <1>11, <1>12, <1>13, <2>1
  <2> QED
    BY <1>1, <1>9, <2>1, <2>3, <2>4 DEF Ledger, qtysThen, costsThen
<1>15. Dated' /\ Balances'
  BY <1>1 DEF LedgerInv, Dated, Balances
<1> QED
  BY <1>14, <1>15 DEF LedgerInv

(* What a portion realizes is what it cost or brought, the row's price and  *)
(* the lot's apart.                                                         *)
LEMMA PortionPriced ==
  ASSUME NEW p \in Int, NEW rate \in Int, NEW cost \in Int, NEW sign \in {-1, 1},
         NEW amount, amount = IF sign = -1 THEN p * (rate - cost) ELSE p * (cost - rate)
  PROVE  /\ amount = -(sign * p) * rate - ((-sign) * p) * cost
         /\ amount \in Int /\ (sign * p) * rate \in Int /\ ((-sign) * p) * cost \in Int
<1>1. p * rate \in Int /\ p * cost \in Int
  OBVIOUS
<1>2. p * (rate - cost) = p * rate - p * cost /\ p * (cost - rate) = p * cost - p * rate
  OBVIOUS
<1>3. CASE sign = -1
  <2>1. sign * p = -p /\ (-sign) * p = p
    BY <1>3
  <2>2. (-p) * rate = -(p * rate)
    OBVIOUS
  <2>3. -(-p) * rate = p * rate
    OBVIOUS
  <2> QED
    BY <1>1, <1>2, <1>3, <2>1, <2>2, <2>3
<1>4. CASE sign = 1
  <2>1. sign * p = p /\ (-sign) * p = -p
    BY <1>4
  <2>2. (-p) * cost = -(p * cost) /\ -p * rate = -(p * rate)
    OBVIOUS
  <2> QED
    BY <1>1, <1>2, <1>4, <2>1, <2>2
<1> QED
  BY <1>3, <1>4

(* A portion: the queue, the row and the realizations move together.        *)
LEMMA LedgerConsume ==
  ASSUME QueueInv, LedgerInv, Consume
  PROVE  LedgerInv'
<1> DEFINE n == Len(rows)
           rate == rows[n].rate
           cost == lots[1].rate
           sign == Sign(remaining)
           amount == IF sign = -1 THEN Portion * (rate - cost) ELSE Portion * (cost - rate)
           r == Realization(amount)
<1>1. /\ remaining # 0 /\ ~Extends /\ lots # <<>> /\ lots' = Left
      /\ remaining' = remaining - sign * Portion
      /\ UNCHANGED <<today, account, running, balance, rows, refused>>
  BY DEF Consume, Extends
<1>2. /\ rows \in Seq(RowType) /\ n \in Nat /\ n \in DOMAIN rows /\ rate \in Int
      /\ rows # <<>> /\ remaining \in Int
  <2>1. rows \in Seq(RowType) /\ rows # <<>> /\ remaining \in Int
    BY <1>1 DEF QueueInv, FxTypes, QueueInOrder, OneSide
  <2>2. n \in DOMAIN rows /\ n \in Nat /\ rows[n] \in RowType
    BY <2>1
  <2> QED
    BY <2>1, <2>2 DEF RowType
<1>3. lots \in Seq(LotType) /\ 1 \in DOMAIN lots /\ lots[1] \in LotType
  BY <1>1 DEF QueueInv, FxTypes
<1>4. lots[1].qty \in Int /\ lots[1].qty # 0 /\ cost \in Int
  BY <1>3 DEF QueueInv, QueueInOrder, OneSide, LotType
<1>5. /\ sign \in {-1, 1} /\ Sign(lots[1].qty) = -sign /\ (lots[1].qty > 0 <=> sign = -1)
  BY <1>1, <1>2, <1>4 DEF Extends, Sign
<1>6. Portion \in Int
  BY <1>1, PortionIsInt DEF QueueInv
<1> HIDE DEF rate, cost, sign
<1>7. /\ amount = -(sign * Portion) * rate - ((-sign) * Portion) * cost
      /\ amount \in Int /\ (sign * Portion) * rate \in Int
      /\ ((-sign) * Portion) * cost \in Int
  <2>1. amount = IF sign = -1 THEN Portion * (rate - cost) ELSE Portion * (cost - rate)
    OBVIOUS
  <2>2. rate \in Int /\ cost \in Int /\ sign \in {-1, 1}
    BY <1>2, <1>4, <1>5
  <2> HIDE DEF amount
  <2> QED
    BY <1>6, <2>1, <2>2, PortionPriced
<1>8. \/ taxable' = Append(taxable, r) /\ nonTaxable' = nonTaxable
      \/ nonTaxable' = Append(nonTaxable, r) /\ taxable' = taxable
  <2>1. CASE lots[1].qty > 0
    BY <1>5, <2>1 DEF Consume, rate, cost
  <2>2. CASE ~(lots[1].qty > 0)
    BY <1>5, <2>2 DEF Consume, rate, cost
  <2> QED
    BY <2>1, <2>2
<1>9. r.amount = amount /\ r.date \in 0 .. today
  BY <1>2 DEF Realization, LedgerInv, Dated
<1> HIDE DEF amount, r, n
<1>10. /\ Total(QtyOf(lots')) = Total(QtyOf(lots)) - (-sign) * Portion
       /\ Total(CostOf(lots')) = Total(CostOf(lots)) - ((-sign) * Portion) * cost
  BY <1>1, <1>5, LeftSums DEF QueueInv, QueueInOrder, cost
<1>11. ASSUME NEW q \in Seq(RealizedType)
       PROVE  Total(AmountOf(Append(q, r))) = Total(AmountOf(q)) + amount
  <2> DEFINE k == Len(q)
             long == Append(q, r)
             before == AmountOf(q)
             after == AmountOf(long)
  <2>1. /\ k \in Nat /\ DOMAIN before = 1 .. k /\ \A i \in 1 .. k : before[i] \in Int
        /\ \A i \in 1 .. k : before[i] = q[i].amount
    BY LedgerTypes DEF QueueInv
  <2>2. /\ DOMAIN long = 1 .. k + 1 /\ long[k + 1] = r /\ \A i \in 1 .. k : long[i] = q[i]
        /\ k + 1 \in 1 .. k + 1 /\ \A i \in 1 .. k : i \in 1 .. k + 1
    OBVIOUS
  <2>3. /\ DOMAIN after = 1 .. k + 1 /\ after[k + 1] = amount
        /\ \A i \in 1 .. k : after[i] = before[i]
    BY <1>9, <2>1, <2>2 DEF AmountOf
  <2> HIDE DEF k, before, after
  <2>4. Total(after) = Total(before) + amount
    BY <1>7, <2>1, <2>3, TotalAppended
  <2> QED
    BY <2>4 DEF before, after
<1> DEFINE realized == Total(AmountOf(taxable)) + Total(AmountOf(nonTaxable))
<1>12. /\ taxable \in Seq(RealizedType) /\ nonTaxable \in Seq(RealizedType)
       /\ Total(AmountOf(taxable)) \in Int /\ Total(AmountOf(nonTaxable)) \in Int
       /\ Total(SpentOn(rows)) \in Int /\ Total(QtyOf(lots)) \in Int
       /\ Total(CostOf(lots)) \in Int
  BY TotalTypes DEF QueueInv, FxTypes
<1>13. realized' = realized + amount
  <2>1. CASE taxable' = Append(taxable, r) /\ nonTaxable' = nonTaxable
    BY <1>7, <1>11, <1>12, <2>1
  <2>2. CASE nonTaxable' = Append(nonTaxable, r) /\ taxable' = taxable
    BY <1>7, <1>11, <1>12, <2>2
  <2> QED
    BY <1>8, <2>1, <2>2
<1>14. /\ ToPlace \in Int /\ ToPlace' = ToPlace - (sign * Portion) * rate
  <2>1. sign * Portion \in Int
    BY <1>5, <1>6
  <2>2. (remaining - sign * Portion) * rate = remaining * rate - (sign * Portion) * rate
          /\ remaining * rate \in Int
    BY <1>2, <2>1
  <2>3. ToPlace = remaining * rate
    BY <1>1 DEF ToPlace, rate, n
  <2>4. ToPlace' = remaining' * rate
    <3>1. CASE remaining' = 0
      BY <1>2, <3>1 DEF ToPlace
    <3>2. CASE remaining' # 0
      BY <1>1, <3>2 DEF ToPlace, rate, n
    <3> QED
      BY <3>1, <3>2
  <2> QED
    BY <1>1, <2>2, <2>3, <2>4
<1>15. Ledger'
  <2> SUFFICES ASSUME ~refused PROVE Ledger'
    BY <1>1 DEF Ledger
  <2>1. /\ running = balance /\ Total(QtyOf(lots)) = balance - remaining
        /\ Total(SpentOn(rows)) - ToPlace
             = Total(CostOf(lots)) - Total(AmountOf(taxable)) - Total(AmountOf(nonTaxable))
        /\ balance \in Int
    BY DEF LedgerInv, Ledger, Balances
  <2>2. Total(QtyOf(lots')) = balance - remaining'
    <3>1. (-sign) * Portion = -(sign * Portion) /\ sign * Portion \in Int
      BY <1>5, <1>6
    <3> QED
      BY <1>1, <1>2, <1>10, <1>12, <2>1, <3>1
  <2>3. Total(SpentOn(rows)) - ToPlace = Total(CostOf(lots)) - realized
    BY <1>12, <2>1
  <2>4. realized \in Int
    BY <1>12
  <2> HIDE DEF realized
  <2>5. Total(SpentOn(rows)) - ToPlace' = Total(CostOf(lots')) - realized'
    <3>1. PICK a \in Int, c \in Int : a = (sign * Portion) * rate /\ c = ((-sign) * Portion) * cost
      BY <1>7
    <3>2. amount = -a - c
      <4>1. -(sign * Portion) * rate = -((sign * Portion) * rate)
        <5>1. sign * Portion \in Int
          BY <1>5, <1>6
        <5> QED
          BY <1>2, <5>1
      <4> QED
        BY <1>7, <3>1, <4>1
    <3>3. ToPlace' = ToPlace - a /\ Total(CostOf(lots')) = Total(CostOf(lots)) - c
            /\ realized' = realized - a - c
      BY <1>10, <1>13, <1>14, <2>4, <3>1, <3>2
    <3>4. PICK s \in Int, p \in Int, l \in Int, z \in Int :
            /\ s = Total(SpentOn(rows)) /\ p = ToPlace /\ l = Total(CostOf(lots))
            /\ z = realized
      BY <1>12, <1>14, <2>4
    <3>5. s - p = l - z
      BY <2>3, <3>4
    <3>6. s - (p - a) = (l - c) - (z - a - c)
      BY ONLY <3>5, a \in Int, c \in Int, s \in Int, p \in Int, l \in Int, z \in Int
    <3> QED
      BY <3>3, <3>4, <3>6
  <2>6. /\ Total(AmountOf(taxable')) \in Int /\ Total(AmountOf(nonTaxable')) \in Int
        /\ Total(CostOf(lots')) \in Int
    <3>1. /\ taxable' \in Seq(RealizedType) /\ nonTaxable' \in Seq(RealizedType)
          /\ lots' \in Seq(LotType)
      BY ConsumeStep DEF QueueInv, FxTypes
    <3> QED
      BY <3>1, TotalTypes
  <2>7. Total(SpentOn(rows)) - ToPlace'
          = Total(CostOf(lots')) - Total(AmountOf(taxable')) - Total(AmountOf(nonTaxable'))
    BY <2>5, <2>6 DEF realized
  <2> QED
    BY <1>1, <2>1, <2>2, <2>7 DEF Ledger
<1>16. Dated'
  <2>1. \A q \in Seq(RealizedType) : \A k \in DOMAIN Append(q, r) :
          (k \in DOMAIN q /\ Append(q, r)[k] = q[k]) \/ Append(q, r)[k] = r
    OBVIOUS
  <2>2. /\ \A k \in DOMAIN taxable' : taxable'[k].date \in 0 .. today
        /\ \A k \in DOMAIN nonTaxable' : nonTaxable'[k].date \in 0 .. today
    <3>1. CASE taxable' = Append(taxable, r) /\ nonTaxable' = nonTaxable
      BY <1>9, <1>12, <2>1, <3>1 DEF LedgerInv, Dated
    <3>2. CASE nonTaxable' = Append(nonTaxable, r) /\ taxable' = taxable
      BY <1>9, <1>12, <2>1, <3>2 DEF LedgerInv, Dated
    <3> QED
      BY <1>8, <3>1, <3>2
  <2> QED
    BY <1>1, <2>2 DEF LedgerInv, Dated
<1>17. Balances'
  BY <1>1 DEF LedgerInv, Balances
<1> QED
  BY <1>15, <1>16, <1>17 DEF LedgerInv

(* Everything else leaves the ledger alone.                                 *)
LEMMA LedgerStep ==
  ASSUME FxAssumption, QueueInv, LedgerInv, today \in Nat, [Next]_vars
  PROVE  LedgerInv'
<1> USE DEF fxVars
<1>0. account \in Int
  BY DEF LedgerInv, Balances
<1>1. CASE UNCHANGED vars
  BY <1>0, <1>1, LedgerUntouched DEF vars
<1>2. CASE \E amount \in Amounts : LoseRow(amount)
  <2>1. account' \in Int /\ today' = today
    BY <1>0, <1>2 DEF LoseRow, FxAssumption
  <2> QED
    BY <1>2, <2>1, LedgerUntouched DEF LoseRow
<1>3. CASE \E amount \in Amounts, rate \in Rates : ReadRow(amount, rate)
  BY <1>3, LedgerRead
<1>4. CASE Extend
  BY <1>4, LedgerExtend
<1>5. CASE Consume
  BY <1>5, LedgerConsume
<1>6. CASE \E event : Book(event)
  BY <1>0, <1>6, LedgerUntouched DEF Book
<1>7. CASE Pass
  BY <1>0, <1>7, LedgerUntouched DEF Pass
<1>8. CASE File
  BY <1>0, <1>8, LedgerUntouched DEF File
<1> QED
  BY <1>1, <1>2, <1>3, <1>4, <1>5, <1>6, <1>7, <1>8
     DEF Next, Place, Buy, Sell, PayDividend, PayInterest

(* What was realized in the years up to now is all that was realized.       *)
LEMMA RealizedByYear ==
  ASSUME NEW q \in Seq(RealizedType), today \in Nat,
         \A k \in DOMAIN q : q[k].date \in 0 .. today,
         NEW g, \A y \in 0 .. YearOf(today) :
                  g[y] = SumOver(InYear(q, y), LAMBDA k : q[k].amount)
  PROVE  SumFunctionOnSet(g, 0 .. YearOf(today)) = Total(AmountOf(q))
<1> DEFINE S == DOMAIN q
           f == AmountOf(q)
           label == [k \in S |-> YearOf(q[k].date)]
           parts == [y \in 0 .. YearOf(today) |-> InYear(q, y)]
           n == YearOf(today)
<1>1. n \in Nat
  BY YearsPass
<1>2. Summable(f, S) /\ DOMAIN f = S
  <2>1. /\ Len(q) \in Nat /\ S = 1 .. Len(q) /\ DOMAIN f = 1 .. Len(q)
        /\ \A i \in 1 .. Len(q) : f[i] \in Int
    BY LedgerTypes
  <2> HIDE DEF f
  <2> QED
    BY <2>1, TotalInteger
<1>3. \A k \in S : label[k] \in 0 .. n
  <2>1. TAKE k \in S
  <2>2. q[k].date \in Nat /\ q[k].date <= today
    OBVIOUS
  <2>3. YearOf(q[k].date) \in Nat /\ YearOf(q[k].date) <= n
    BY <2>2, YearsPass
  <2> QED
    BY <1>1, <2>3
<1>4. \A y \in 0 .. n : /\ parts[y] \in SUBSET S
                        /\ \A k \in S : k \in parts[y] <=> label[k] = y
                        /\ g[y] = SumFunctionOnSet(f, parts[y])
  <2>1. TAKE y \in 0 .. n
  <2> DEFINE part == InYear(q, y)
             h == [k \in part |-> q[k].amount]
  <2>2. /\ part \in SUBSET S /\ parts[y] = part
        /\ \A k \in S : k \in part <=> label[k] = y
    BY DEF InYear
  <2>3. \A k \in part : h[k] = f[k]
    BY <2>2 DEF AmountOf
  <2>4. g[y] = SumFunctionOnSet(h, part)
    BY DEF SumOver
  <2> HIDE DEF part, h, f, label, S, parts
  <2>5. SumFunctionOnSet(h, part) = SumFunctionOnSet(f, part)
    BY <1>2, <2>2, <2>3, SumOfPart
  <2> QED
    BY <2>2, <2>4, <2>5
<1> HIDE DEF S, f, label, parts, n
<1>5. SumFunctionOnSet(g, 0 .. n) = SumFunctionOnSet(f, S)
  <2>1. SumsParts(g, n, f, S, label, parts)
    BY <1>3, <1>4 DEF SumsParts
  <2> QED
    BY <1>1, <1>2, <2>1, SumByLabel
<1> QED
  BY <1>2, <1>5 DEF n, f, Total

(***************************************************************************)
(* The three sums of the ledger as the module states them.                 *)
(***************************************************************************)
LEMMA LedgerSums ==
  /\ SumOf(LAMBDA l : l.qty, lots) = Total(QtyOf(lots))
  /\ SumOf(LAMBDA l : l.qty * l.rate, lots) = Total(CostOf(lots))
  /\ SumOf(LAMBDA r : r.amount * r.rate, rows) = Total(SpentOn(rows))
<1>1. /\ DOMAIN QtyOf(lots) = DOMAIN lots /\ DOMAIN CostOf(lots) = DOMAIN lots
      /\ DOMAIN SpentOn(rows) = DOMAIN rows
  BY DEF QtyOf, CostOf, SpentOn
<1>2. Total(QtyOf(lots)) = SumFunctionOnSet([i \in DOMAIN lots |-> lots[i].qty], DOMAIN lots)
  BY <1>1 DEF Total, QtyOf
<1>3. Total(CostOf(lots))
        = SumFunctionOnSet([i \in DOMAIN lots |-> lots[i].qty * lots[i].rate], DOMAIN lots)
  BY <1>1 DEF Total, CostOf
<1>4. Total(SpentOn(rows))
        = SumFunctionOnSet([i \in DOMAIN rows |-> rows[i].amount * rows[i].rate], DOMAIN rows)
  BY <1>1 DEF Total, SpentOn
<1>5. SumOf(LAMBDA l : l.qty, lots)
        = SumFunctionOnSet([i \in DOMAIN lots |-> lots[i].qty], DOMAIN lots)
  BY DEF SumOf, SumOver
<1>6. SumOf(LAMBDA l : l.qty * l.rate, lots)
        = SumFunctionOnSet([i \in DOMAIN lots |-> lots[i].qty * lots[i].rate], DOMAIN lots)
  BY DEF SumOf, SumOver
<1>7. SumOf(LAMBDA r : r.amount * r.rate, rows)
        = SumFunctionOnSet([i \in DOMAIN rows |-> rows[i].amount * rows[i].rate], DOMAIN rows)
  BY DEF SumOf, SumOver
<1> QED
  BY <1>2, <1>3, <1>4, <1>5, <1>6, <1>7

(* With its balances and its dates kept, the queue reproduces the totals   *)
(* of the account.                                                         *)
LEMMA LedgerHolds ==
  ASSUME QueueInv, LedgerInv, today \in Nat
  PROVE  BalanceReproduced
<1> DEFINE years == 0 .. YearOf(today)
           Taxed(year) == SumOver(FxGains(year), Gain)
<1>1. SumOver(years, Taxed) = Total(AmountOf(taxable))
  <2> DEFINE g == [y \in years |-> Taxed(y)]
  <2>1. \A y \in 0 .. YearOf(today) :
          g[y] = SumOver(InYear(taxable, y), LAMBDA k : taxable[k].amount)
    BY DEF SumOver, FxGains, Gain
  <2>2. taxable \in Seq(RealizedType) /\ \A k \in DOMAIN taxable : taxable[k].date \in 0 .. today
    BY DEF QueueInv, FxTypes, LedgerInv, Dated
  <2>3. SumOver(years, Taxed) = SumFunctionOnSet(g, 0 .. YearOf(today))
    BY DEF SumOver
  <2> HIDE DEF g
  <2>4. SumFunctionOnSet(g, 0 .. YearOf(today)) = Total(AmountOf(taxable))
    BY <2>1, <2>2, RealizedByYear
  <2> QED
    BY <2>3, <2>4
<1>2. SumOver(years, NonTaxableMarginFx) = Total(AmountOf(nonTaxable))
  <2> DEFINE g == [y \in years |-> NonTaxableMarginFx(y)]
  <2>1. \A y \in 0 .. YearOf(today) :
          g[y] = SumOver(InYear(nonTaxable, y), LAMBDA k : nonTaxable[k].amount)
    BY DEF NonTaxableMarginFx
  <2>2. /\ nonTaxable \in Seq(RealizedType)
        /\ \A k \in DOMAIN nonTaxable : nonTaxable[k].date \in 0 .. today
    BY DEF QueueInv, FxTypes, LedgerInv, Dated
  <2>3. SumOver(years, NonTaxableMarginFx) = SumFunctionOnSet(g, 0 .. YearOf(today))
    BY DEF SumOver
  <2> HIDE DEF g
  <2>4. SumFunctionOnSet(g, 0 .. YearOf(today)) = Total(AmountOf(nonTaxable))
    BY <2>1, <2>2, RealizedByYear
  <2> QED
    BY <2>3, <2>4
<1>3. ~refused =>
        /\ SumOf(LAMBDA l : l.qty, lots) = balance - remaining
        /\ SumOf(LAMBDA r : r.amount * r.rate, rows)
             - (IF remaining = 0 THEN 0 ELSE remaining * rows[Len(rows)].rate)
           = SumOf(LAMBDA l : l.qty * l.rate, lots)
               - SumOver(years, Taxed) - SumOver(years, NonTaxableMarginFx)
  <2>1. ToPlace = IF remaining = 0 THEN 0 ELSE remaining * rows[Len(rows)].rate
    BY DEF ToPlace
  <2>2. ~refused =>
          /\ Total(QtyOf(lots)) = balance - remaining
          /\ Total(SpentOn(rows)) - ToPlace
               = Total(CostOf(lots)) - Total(AmountOf(taxable)) - Total(AmountOf(nonTaxable))
    BY DEF LedgerInv, Ledger
  <2> HIDE DEF years, Taxed
  <2> QED
    BY <1>1, <1>2, <2>1, <2>2, LedgerSums
<1> QED
  BY <1>3 DEF BalanceReproduced

-----------------------------------------------------------------------------
(* The dates of held currency.  What the queue keeps of a row is the row's, *)
(* and so is what it shows of the rows of a realization.                    *)
TracedLots ==
  \A i \in DOMAIN lots :
    /\ lots[i].row \in DOMAIN rows
    /\ lots[i].rate = rows[lots[i].row].rate /\ lots[i].date = rows[lots[i].row].date

TracedSales ==
  \A k \in DOMAIN taxable :
    /\ taxable[k].of \in DOMAIN rows /\ taxable[k].by \in DOMAIN rows
    /\ taxable[k].date = rows[taxable[k].by].date
    /\ taxable[k].acquired = rows[taxable[k].of].date
    /\ taxable[k].amount
         = taxable[k].units * (rows[taxable[k].by].rate - rows[taxable[k].of].rate)

Traced == TracedLots /\ TracedSales

(* The opening balance is a row and a lot.                                  *)
LEMMA TracedInit == FxInit => Traced
<1> SUFFICES ASSUME FxInit PROVE Traced
  OBVIOUS
<1>1. taxable = <<>> /\ DOMAIN taxable = {}
  BY DEF FxInit
<1>2. CASE running = 0
  <2>1. lots = <<>> /\ DOMAIN lots = {}
    BY <1>2 DEF FxInit
  <2> QED
    BY <1>1, <2>1 DEF Traced, TracedLots, TracedSales
<1>3. CASE running # 0
  <2>1. PICK rate \in Rates :
          rows = <<Row(running, rate)>> /\ lots = <<Lot(1, running, rate, 0)>>
    BY <1>3 DEF FxInit
  <2>2. /\ DOMAIN lots = {1} /\ DOMAIN rows = {1} /\ today = 0
        /\ lots[1] = Lot(1, running, rate, 0) /\ rows[1] = Row(running, rate)
    BY <2>1 DEF FxInit
  <2> QED
    BY <1>1, <2>2 DEF Traced, TracedLots, TracedSales, Lot, Row
<1> QED
  BY <1>2, <1>3

(* A new row changes no earlier one.                                        *)
LEMMA TracedRead ==
  ASSUME QueueInv, Traced, NEW amount \in Amounts, NEW rate \in Rates, ReadRow(amount, rate)
  PROVE  Traced'
<1>1. UNCHANGED <<lots, taxable>>
  BY DEF ReadRow
<1>2. \A i \in DOMAIN rows : i \in DOMAIN rows' /\ rows'[i] = rows[i]
  <2>1. rows' = rows \/ rows' = Append(rows, Row(amount, rate))
    BY DEF ReadRow
  <2>2. rows \in Seq(RowType)
    BY DEF QueueInv, FxTypes
  <2> QED
    BY <2>1, <2>2
<1> QED
  BY <1>1, <1>2 DEF Traced, TracedLots, TracedSales

(* A lot is opened as its row says.                                         *)
LEMMA TracedExtend ==
  ASSUME QueueInv, Traced, Extend
  PROVE  Traced'
<1> DEFINE n == Len(rows)
           new == Lot(n, remaining, rows[n].rate, rows[n].date)
<1>1. remaining # 0 /\ lots' = Append(lots, new) /\ UNCHANGED <<rows, taxable>>
  BY DEF Extend, PushBack
<1>2. n \in DOMAIN rows /\ lots \in Seq(LotType)
  BY <1>1 DEF QueueInv, FxTypes, QueueInOrder, OneSide
<1>3. new.row = n /\ new.rate = rows[n].rate /\ new.date = rows[n].date
  BY DEF Lot
<1> HIDE DEF new, n
<1>4. \A i \in DOMAIN lots' : (i \in DOMAIN lots /\ lots'[i] = lots[i]) \/ lots'[i] = new
  BY <1>1, <1>2
<1>5. TracedLots'
  BY <1>1, <1>2, <1>3, <1>4 DEF Traced, TracedLots
<1> QED
  BY <1>1, <1>5 DEF Traced, TracedSales

(* What remains of the oldest lot, and what is realized of it, keep its     *)
(* date and its price.                                                      *)
LEMMA TracedConsume ==
  ASSUME QueueInv, Traced, Consume
  PROVE  Traced'
<1> DEFINE n == Len(rows)
           amount == Portion * (rows[n].rate - lots[1].rate)
           r == Realization(amount)
<1>1. /\ remaining # 0 /\ lots # <<>> /\ lots' = Left /\ rows' = rows
      /\ taxable' = taxable \/ taxable' = Append(taxable, r)
  BY DEF Consume, Extends
<1>2. /\ n \in DOMAIN rows /\ lots \in Seq(LotType) /\ 1 \in DOMAIN lots
      /\ taxable \in Seq(RealizedType)
  BY <1>1 DEF QueueInv, FxTypes, QueueInOrder, OneSide
<1>3. \A j \in DOMAIN lots' : \E i \in DOMAIN lots :
        lots'[j].row = lots[i].row /\ lots'[j].rate = lots[i].rate /\ lots'[j].date = lots[i].date
  <2>1. /\ DOMAIN Shrunk = 1 .. Len(lots) /\ Len(lots) \in Nat /\ DOMAIN lots = 1 .. Len(lots)
        /\ \A i \in DOMAIN lots :
             /\ Shrunk[i].row = lots[i].row
             /\ Shrunk[i].rate = lots[i].rate /\ Shrunk[i].date = lots[i].date
    <3> DEFINE front == [lots[1] EXCEPT !.qty = lots[1].qty - Sign(lots[1].qty) * Portion]
    <3>1. lots[1] \in LotType
      BY <1>2
    <3>2. front.row = lots[1].row /\ front.rate = lots[1].rate /\ front.date = lots[1].date
      BY <3>1 DEF LotType
    <3>3. Shrunk = [lots EXCEPT ![1] = front]
      BY <1>2 DEF Shrunk
    <3> HIDE DEF front
    <3> QED
      BY <1>2, <3>2, <3>3
  <2>2. Shrunk \in Seq({Shrunk[i] : i \in DOMAIN Shrunk}) /\ Len(Shrunk) = Len(lots)
        /\ Shrunk # <<>>
    <3> DEFINE given == {Shrunk[i] : i \in DOMAIN Shrunk}
    <3>1. Shrunk = [i \in 1 .. Len(lots) |-> Shrunk[i]]
      BY <2>1 DEF Shrunk
    <3>2. \A i \in 1 .. Len(lots) : Shrunk[i] \in given
      BY <2>1
    <3>3. 1 .. Len(lots) # {}
      BY <1>2, <2>1
    <3> HIDE DEF given
    <3>4. Shrunk \in Seq(given) /\ Len(Shrunk) = Len(lots)
      BY <2>1, <3>1, <3>2
    <3> QED
      BY <3>3, <3>4, <2>1 DEF given
  <2>3. \A j \in DOMAIN lots' : \E i \in DOMAIN lots : lots'[j] = Shrunk[i]
    <3>1. CASE lots' = Shrunk
      BY <2>1, <3>1
    <3>2. CASE lots' = Tail(Shrunk)
      <4>1. \A j \in DOMAIN Tail(Shrunk) :
              j + 1 \in 1 .. Len(lots) /\ Tail(Shrunk)[j] = Shrunk[j + 1]
        BY <2>1, <2>2
      <4> QED
        BY <2>1, <3>2, <4>1
    <3> QED
      BY <1>1, <3>1, <3>2 DEF Left
  <2> QED
    BY <2>1, <2>3
<1>4. TracedLots'
  BY <1>1, <1>3 DEF Traced, TracedLots
<1>5. /\ r.of = lots[1].row /\ r.by = n /\ r.date = rows[n].date
      /\ r.acquired = lots[1].date /\ r.units = Portion /\ r.amount = amount
  BY DEF Realization
<1>6. /\ r.of \in DOMAIN rows /\ r.by \in DOMAIN rows
      /\ r.date = rows[r.by].date /\ r.acquired = rows[r.of].date
      /\ r.amount = r.units * (rows[r.by].rate - rows[r.of].rate)
  BY <1>2, <1>5 DEF Traced, TracedLots
<1> HIDE DEF r, amount, n
<1>7. \A k \in DOMAIN taxable' : (k \in DOMAIN taxable /\ taxable'[k] = taxable[k]) \/ taxable'[k] = r
  BY <1>1, <1>2
<1>8. TracedSales'
  BY <1>1, <1>6, <1>7 DEF Traced, TracedSales
<1> QED
  BY <1>4, <1>8 DEF Traced

(* Every step keeps what the queue has of its rows.                         *)
LEMMA TracedStep ==
  ASSUME QueueInv, Traced, [Next]_vars
  PROVE  Traced'
<1>1. ASSUME UNCHANGED <<rows, lots, taxable>>
      PROVE  Traced'
  BY <1>1 DEF Traced, TracedLots, TracedSales
<1>2. CASE \E amount \in Amounts, rate \in Rates : ReadRow(amount, rate)
  BY <1>2, TracedRead
<1>3. CASE Extend
  BY <1>3, TracedExtend
<1>4. CASE Consume
  BY <1>4, TracedConsume
<1>5. CASE UNCHANGED vars
  BY <1>1, <1>5 DEF vars, fxVars
<1>6. CASE \E amount \in Amounts : LoseRow(amount)
  BY <1>1, <1>6 DEF LoseRow
<1>7. CASE \E event : Book(event)
  BY <1>1, <1>7 DEF Book, fxVars
<1>8. CASE Pass
  BY <1>1, <1>8 DEF Pass, fxVars
<1>9. CASE File
  BY <1>1, <1>9 DEF File, fxVars
<1> QED
  BY <1>2, <1>3, <1>4, <1>5, <1>6, <1>7, <1>8, <1>9
     DEF Next, Place, Buy, Sell, PayDividend, PayInterest

(* A sum over some of the disposals, of what they earned or of what was     *)
(* realized, which are one.                                                 *)
LEMMA EarnedIsRealized ==
  ASSUME QueueInv, Traced, NEW S \in SUBSET DOMAIN taxable
  PROVE  /\ IsFiniteSet(S) /\ \A k \in S : Gain(k) \in Int /\ Earned(k) = Gain(k)
         /\ SumOver(S, Earned) = SumOver(S, Gain)
<1>1. taxable \in Seq(RealizedType)
  BY DEF QueueInv, FxTypes
<1>2. IsFiniteSet(S)
  <2>1. DOMAIN taxable = 1 .. Len(taxable) /\ Len(taxable) \in Nat
    BY <1>1
  <2>2. IsFiniteSet(1 .. Len(taxable))
    BY <2>1, FS_Interval, 1 \in Int, Len(taxable) \in Int
  <2> QED
    BY <2>1, <2>2, FS_Subset
<1>3. \A k \in S : Gain(k) \in Int /\ Earned(k) = Gain(k)
  <2>1. \A k \in S : taxable[k] \in RealizedType
    BY <1>1
  <2> QED
    BY <2>1 DEF Traced, TracedSales, Gain, Earned, Came, Went, RealizedType
<1>4. [k \in S |-> Earned(k)] = [k \in S |-> Gain(k)]
  BY <1>3
<1> QED
  BY <1>2, <1>3, <1>4 DEF SumOver

(* Gains and losses apart come to the sum.                                  *)
LEMMA GainsAndLosses ==
  ASSUME QueueInv, Traced, NEW S \in SUBSET DOMAIN taxable
  PROVE  SumOver({k \in S : Gain(k) >= 0}, Gain) + SumOver({k \in S : Gain(k) < 0}, Gain)
           = SumOver(S, Gain)
<1> DEFINE f == [k \in S |-> Gain(k)]
           gains == {k \in S : Gain(k) >= 0}
           losses == {k \in S : Gain(k) < 0}
<1>1. IsFiniteSet(S) /\ \A k \in S : Gain(k) \in Int /\ f[k] = Gain(k)
  BY EarnedIsRealized
<1>2. Summable(f, S)
  BY <1>1 DEF Summable
<1>3. ASSUME NEW part \in SUBSET S
      PROVE  SumOver(part, Gain) = SumFunctionOnSet(f, part)
  <2> DEFINE h == [k \in part |-> Gain(k)]
  <2>1. \A k \in part : h[k] = f[k]
    BY <1>1
  <2>2. SumOver(part, Gain) = SumFunctionOnSet(h, part)
    BY DEF SumOver
  <2> HIDE DEF h, f
  <2> QED
    BY <1>2, <2>1, <2>2, SumOfPart
<1>4. /\ gains \in SUBSET S /\ losses \in SUBSET S /\ S \in SUBSET S
      /\ gains \cap losses = {} /\ S = gains \cup losses
  BY <1>1
<1> HIDE DEF f, gains, losses
<1>5. SumFunctionOnSet(f, gains \cup losses)
        = SumFunctionOnSet(f, gains) + SumFunctionOnSet(f, losses)
  BY <1>2, <1>4, SumUnion
<1>6. SumOver(gains, Gain) + SumOver(losses, Gain) = SumOver(S, Gain)
  BY <1>3, <1>4, <1>5
<1> QED
  BY <1>6 DEF gains, losses

(* The buckets of a year are those of the dates of the movements.           *)
LEMMA BucketsByDates ==
  ASSUME QueueInv, Traced, NEW year \in Int
  PROVE  LET sold == {k \in DOMAIN taxable : YearOf(Went(k).date) = year}
             early == {k \in sold : Went(k).date - Came(k).date <= HalfYears}
         IN  /\ Section23(year).shortTermGains - Section23(year).shortTermLosses
                   = SumOver(early, Earned)
             /\ Section23(year).longTermTaxFree
                   = SumOver({k \in sold \ early : Earned(k) > 0}, Earned)
<1> DEFINE sold == {k \in DOMAIN taxable : YearOf(Went(k).date) = year}
           early == {k \in sold : Went(k).date - Came(k).date <= HalfYears}
           late == {k \in FxGains(year) : HeldOverOneYear(taxable[k])}
           short == FxGains(year) \ late
<1>1. \A k \in DOMAIN taxable :
        /\ Went(k).date = taxable[k].date /\ Came(k).date = taxable[k].acquired
        /\ taxable[k].date \in Int /\ taxable[k].acquired \in Int
  <2>1. \A k \in DOMAIN taxable : taxable[k] \in RealizedType
    BY DEF QueueInv, FxTypes
  <2> QED
    BY <2>1 DEF Traced, TracedSales, Went, Came, RealizedType
<1>2. sold = FxGains(year) /\ sold \subseteq DOMAIN taxable
  BY <1>1 DEF FxGains, InYear
<1>3. \A k \in sold : HeldOverOneYear(taxable[k]) <=> ~(Went(k).date - Came(k).date <= HalfYears)
  BY <1>1 DEF HeldOverOneYear, HalfYears
<1>4. early = short /\ sold \ early = late
  BY <1>2, <1>3
<1>5. \A k \in sold : Earned(k) = Gain(k)
  BY <1>2, EarnedIsRealized
<1>6. Section23(year) = [longTermTaxFree |-> SumOver({k \in late : Gain(k) > 0}, Gain),
                         shortTermGains  |-> SumOver({k \in short : Gain(k) >= 0}, Gain),
                         shortTermLosses |-> -SumOver({k \in short : Gain(k) < 0}, Gain),
                         borrowedReview  |-> NonTaxableMarginFx(year)]
  BY DEF Section23
<1>7. short \in SUBSET DOMAIN taxable /\ late \in SUBSET DOMAIN taxable /\ late \subseteq sold
  BY <1>2
<1> HIDE DEF sold, early, late, short
<1> DEFINE gains == SumOver({k \in short : Gain(k) >= 0}, Gain)
           losses == SumOver({k \in short : Gain(k) < 0}, Gain)
<1>8. gains \in Int /\ losses \in Int
  <2>1. \A part \in SUBSET short : SumOver(part, Gain) \in Int
    <3> TAKE part \in SUBSET short
    <3> DEFINE h == [k \in part |-> Gain(k)]
    <3>1. Summable(h, part)
      BY <1>7, EarnedIsRealized DEF Summable
    <3>2. SumOver(part, Gain) = SumFunctionOnSet(h, part)
      BY DEF SumOver
    <3> HIDE DEF h
    <3> QED
      BY <3>1, <3>2, SumInteger
  <2> QED
    BY <2>1
<1>9. gains + losses = SumOver(early, Earned)
  <2>1. gains + losses = SumOver(short, Gain)
    BY <1>7, GainsAndLosses
  <2>2. SumOver(short, Earned) = SumOver(short, Gain)
    BY <1>7, EarnedIsRealized
  <2> QED
    BY <1>4, <2>1, <2>2
<1>10. /\ Section23(year).shortTermGains = gains /\ Section23(year).shortTermLosses = -losses
       /\ Section23(year).longTermTaxFree = SumOver({k \in late : Gain(k) > 0}, Gain)
  BY <1>6
<1>11. SumOver({k \in late : Gain(k) > 0}, Gain)
         = SumOver({k \in sold \ early : Earned(k) > 0}, Earned)
  <2>1. {k \in sold \ early : Earned(k) > 0} = {k \in late : Gain(k) > 0}
    BY <1>4, <1>5, <1>7
  <2>2. {k \in late : Gain(k) > 0} \in SUBSET DOMAIN taxable
    BY <1>7
  <2> QED
    BY <2>1, <2>2, EarnedIsRealized
<1> HIDE DEF gains, losses
<1>12. /\ Section23(year).shortTermGains - Section23(year).shortTermLosses = SumOver(early, Earned)
       /\ Section23(year).longTermTaxFree
            = SumOver({k \in sold \ early : Earned(k) > 0}, Earned)
  BY <1>8, <1>9, <1>10, <1>11
<1> QED
  BY <1>12 DEF sold, early

(* Balance, cost and earnings are those of the rows.                        *)
LEMMA BalanceIsReproduced == Spec => []BalanceReproduced
<1> DEFINE Inv == QueueInv /\ ReturnTypes /\ LedgerInv
<1>1. Init => Inv
  BY QueueInit, FxAssumption, ReturnInit, LedgerInit DEF Init
<1>2. Inv /\ [Next]_vars => Inv'
  <2>1. ReturnTypes => today \in Nat
    BY DEF ReturnTypes
  <2> QED
    BY <2>1, QueueStep, FxAssumption, ReturnStep, LedgerStep DEF QueueInv
<1>3. Inv => BalanceReproduced
  BY LedgerHolds DEF ReturnTypes
<1> QED
  BY <1>1, <1>2, <1>3, PTL DEF Spec

(* Which of the disposals are taxed is decided by the dates of their rows.  *)
LEMMA DatesDecide == Spec => []AnniversaryDecides
<1> DEFINE Inv == QueueInv /\ ReturnTypes /\ Traced
<1>1. Init => Inv
  BY QueueInit, FxAssumption, ReturnInit, TracedInit DEF Init
<1>2. Inv /\ [Next]_vars => Inv'
  BY QueueStep, FxAssumption, ReturnStep, TracedStep DEF QueueInv
<1>3. Inv => AnniversaryDecides
  <2> SUFFICES ASSUME Inv, NEW year \in 0 .. YearOf(today)
               PROVE  LET sold == {k \in DOMAIN taxable : YearOf(Went(k).date) = year}
                          early == {k \in sold : Went(k).date - Came(k).date <= HalfYears}
                      IN  /\ Section23(year).shortTermGains - Section23(year).shortTermLosses
                                = SumOver(early, Earned)
                          /\ Section23(year).longTermTaxFree
                                = SumOver({k \in sold \ early : Earned(k) > 0}, Earned)
    BY DEF AnniversaryDecides
  <2>1. year \in Int
    OBVIOUS
  <2> QED
    BY <2>1, BucketsByDates
<1> QED
  BY <1>1, <1>2, <1>3, PTL DEF Spec

(***************************************************************************)
(* For every export, whatever it lacks and wherever it begins: as long as  *)
(* the replay goes on, its queue is the broker's balance, and what was     *)
(* paid is what the open lots cost less what was realized, over all years  *)
(* and both ways of taxing it.  A disposal of held currency is taxed when  *)
(* it is made up to the first anniversary of the movement that brought the *)
(* currency, and free of tax from the next day.                            *)
(***************************************************************************)
THEOREM LedgerIsReproduced == Spec => []LedgerReproduced
<1>1. BalanceReproduced /\ AnniversaryDecides => LedgerReproduced
  BY DEF LedgerReproduced
<1> QED
  BY <1>1, BalanceIsReproduced, DatesDecide, PTL

-----------------------------------------------------------------------------
(* The promise of the queue.  Units of a row closed by another, and units   *)
(* of a row in a queue, in first-order terms.                               *)
UnitsFor(q, row, n) ==
  [k \in DOMAIN q |-> IF q[k].by = n /\ q[k].of = row THEN q[k].units ELSE 0]

OpenOf(q, row) == [i \in DOMAIN q |-> IF q[i].row = row THEN q[i].qty ELSE 0]

LastUnits(row) ==
  Total(UnitsFor(taxable, row, Len(rows))) + Total(UnitsFor(nonTaxable, row, Len(rows)))

(* What the last row has closed, and what is open of a row.                 *)
LEMMA OpenAndClosed ==
  /\ \A row : LastClosed(row) = LastUnits(row)
  /\ \A row : StillOpen(row) = Total(OpenOf(lots, row))
                - (IF remaining = 0 THEN 0 ELSE Sign(remaining) * LastUnits(row))
<1>1. \A row : LastClosed(row) = LastUnits(row)
  BY DEF LastClosed, LastUnits, SumOf, SumOver, Total, UnitsFor
<1>2. \A row : SumOf(LAMBDA l : IF l.row = row THEN l.qty ELSE 0, lots) = Total(OpenOf(lots, row))
  BY DEF SumOf, SumOver, Total, OpenOf
<1> QED
  BY <1>1, <1>2 DEF StillOpen

(* These are numbers.                                                       *)
LEMMA UnitsAreInt ==
  ASSUME NEW q \in Seq(RealizedType), NEW row, NEW n
  PROVE  /\ Len(q) \in Nat /\ DOMAIN q = 1 .. Len(q) /\ DOMAIN UnitsFor(q, row, n) = 1 .. Len(q)
         /\ \A k \in 1 .. Len(q) :
              /\ UnitsFor(q, row, n)[k] = IF q[k].by = n /\ q[k].of = row THEN q[k].units ELSE 0
              /\ UnitsFor(q, row, n)[k] \in Int
         /\ Total(UnitsFor(q, row, n)) \in Int
<1>1. Len(q) \in Nat /\ DOMAIN q = 1 .. Len(q) /\ \A k \in 1 .. Len(q) : q[k].units \in Int
  <2>1. Len(q) \in Nat /\ DOMAIN q = 1 .. Len(q) /\ \A k \in 1 .. Len(q) : q[k] \in RealizedType
    OBVIOUS
  <2> QED
    BY <2>1 DEF RealizedType
<1>2. DOMAIN UnitsFor(q, row, n) = 1 .. Len(q)
  BY <1>1 DEF UnitsFor
<1>3. \A k \in 1 .. Len(q) :
        /\ UnitsFor(q, row, n)[k] = IF q[k].by = n /\ q[k].of = row THEN q[k].units ELSE 0
        /\ UnitsFor(q, row, n)[k] \in Int
  BY <1>1 DEF UnitsFor
<1> QED
  BY <1>1, <1>2, <1>3, TotalInteger

(* A realization more.                                                      *)
LEMMA OneMoreClosed ==
  ASSUME NEW q \in Seq(RealizedType), NEW r \in RealizedType, NEW row, NEW n
  PROVE  Total(UnitsFor(Append(q, r), row, n))
           = Total(UnitsFor(q, row, n)) + (IF r.by = n /\ r.of = row THEN r.units ELSE 0)
<1> DEFINE p == Append(q, r)
           f == UnitsFor(q, row, n)
           g == UnitsFor(p, row, n)
<1>1. /\ p \in Seq(RealizedType) /\ Len(p) = Len(q) + 1 /\ Len(q) \in Nat
      /\ p[Len(q) + 1] = r /\ \A k \in 1 .. Len(q) : p[k] = q[k]
  OBVIOUS
<1> HIDE DEF p
<1>2. /\ DOMAIN f = 1 .. Len(q) /\ DOMAIN g = 1 .. Len(q) + 1
      /\ \A k \in 1 .. Len(q) : /\ f[k] \in Int
                                /\ f[k] = IF q[k].by = n /\ q[k].of = row THEN q[k].units ELSE 0
      /\ \A k \in 1 .. Len(q) + 1 :
           /\ g[k] \in Int
           /\ g[k] = IF p[k].by = n /\ p[k].of = row THEN p[k].units ELSE 0
  BY <1>1, UnitsAreInt
<1> HIDE DEF f, g
<1>3. \A k \in 1 .. Len(q) : g[k] = f[k]
  BY <1>1, <1>2
<1>4. Len(q) + 1 \in 1 .. Len(q) + 1
  BY <1>1
<1>5. g[Len(q) + 1] \in Int /\ g[Len(q) + 1] = IF r.by = n /\ r.of = row THEN r.units ELSE 0
  BY <1>1, <1>2, <1>4
<1>6. Total(g) = Total(f) + g[Len(q) + 1]
  BY SMTT(20), <1>1, <1>2, <1>3, <1>5, TotalAppended
<1> QED
  BY <1>5, <1>6 DEF f, g, p

(* Where a row has closed nothing of another.                               *)
LEMMA NoneClosed ==
  ASSUME NEW q \in Seq(RealizedType), NEW row, NEW n,
         \A k \in DOMAIN q : ~(q[k].by = n /\ q[k].of = row)
  PROVE  Total(UnitsFor(q, row, n)) = 0
<1> DEFINE f == UnitsFor(q, row, n)
<1>1. DOMAIN f = 1 .. Len(q) /\ Len(q) \in Nat /\ \A k \in 1 .. Len(q) : f[k] = 0
  BY UnitsAreInt
<1>2. IsFiniteSet(1 .. Len(q))
  BY <1>1, FS_Interval
<1> HIDE DEF f
<1>3. Total(f) = 0
  BY <1>1, <1>2, SumZero DEF Total
<1> QED
  BY <1>3 DEF f

(* A row has at most one lot, and what is open of it is that lot.           *)
LEMMA LotOfRow ==
  ASSUME NEW q \in Seq(LotType), \A i, j \in DOMAIN q : i < j => q[i].row < q[j].row, NEW row
  PROVE  /\ Total(OpenOf(q, row)) \in Int
         /\ \A i \in DOMAIN q : q[i].row = row => Total(OpenOf(q, row)) = q[i].qty
         /\ (\A i \in DOMAIN q : q[i].row # row) => Total(OpenOf(q, row)) = 0
<1> DEFINE f == OpenOf(q, row)
<1>1. /\ Len(q) \in Nat /\ DOMAIN q = 1 .. Len(q)
      /\ \A i \in 1 .. Len(q) : q[i].qty \in Int /\ q[i].row \in Nat
  <2>1. Len(q) \in Nat /\ DOMAIN q = 1 .. Len(q) /\ \A i \in 1 .. Len(q) : q[i] \in LotType
    OBVIOUS
  <2> QED
    BY <2>1 DEF LotType
<1>2. /\ DOMAIN f = 1 .. Len(q)
      /\ \A i \in 1 .. Len(q) : f[i] = (IF q[i].row = row THEN q[i].qty ELSE 0) /\ f[i] \in Int
  BY <1>1 DEF OpenOf
<1>3. IsFiniteSet(1 .. Len(q))
  BY <1>1, FS_Interval
<1> HIDE DEF f
<1>4. Summable(f, 1 .. Len(q)) /\ Total(f) = SumFunctionOnSet(f, 1 .. Len(q)) /\ Total(f) \in Int
  BY <1>2, <1>3, SumInteger DEF Summable, Total
<1>5. ASSUME NEW i \in DOMAIN q, q[i].row = row
      PROVE  Total(f) = q[i].qty
  <2>1. i \in 1 .. Len(q) /\ f[i] = q[i].qty
    BY <1>1, <1>2, <1>5
  <2>2. \A j \in (1 .. Len(q)) \ {i} : f[j] = 0
    <3> TAKE j \in (1 .. Len(q)) \ {i}
    <3>1. i < j \/ j < i
      BY <1>1, <2>1
    <3>2. q[j].row # row
      BY <1>1, <1>5, <2>1, <3>1
    <3> QED
      BY <1>2, <3>2
  <2>3. SumFunctionOnSet(f, 1 .. Len(q)) = f[i]
    BY ONLY <1>4, <2>1, <2>2, SumSingle
  <2> QED
    BY <1>4, <2>1, <2>3
<1>6. ASSUME \A i \in DOMAIN q : q[i].row # row
      PROVE  Total(f) = 0
  <2>1. \A i \in 1 .. Len(q) : f[i] = 0
    BY <1>1, <1>2, <1>6
  <2> QED
    BY <1>3, <1>4, <2>1, SumZero
<1> QED
  BY <1>4, <1>5, <1>6 DEF f

-----------------------------------------------------------------------------
(* While a row is placed: what it has closed was each time all that was     *)
(* open of the row closed, and adds up to what is no longer to be placed.   *)
LastBy == {r \in Realized : r.by = Len(rows)}

LastOf == [i \in 1 .. Len(rows) - 1 |-> LastUnits(i)]

TakenSoFar ==
  /\ \A r \in Realized : r.by <= Len(rows)
  /\ \A r \in LastBy :
       r.of \in 1 .. Len(rows) - 1 /\ r.units > 0 /\ r.units = LastUnits(r.of)

Shown ==
  /\ \A i \in DOMAIN lots : lots[i].row >= 1
  /\ \A i \in DOMAIN rows : rows[i].amount \in Amounts \cup (Openings \ {0})

UnderWay ==
  remaining # 0 =>
    /\ \A r \in LastBy : \A i \in DOMAIN lots : r.of < lots[i].row
    /\ SumFunctionOnSet(LastOf, 1 .. Len(rows) - 1)
         = Magnitude(rows[Len(rows)].amount) - Magnitude(remaining)

PlaceInv == TakenSoFar /\ Shown /\ UnderWay

(* What there is of realizations.                                           *)
LEMMA RealizedAre ==
  ASSUME FxTypes
  PROVE  /\ \A k \in DOMAIN taxable : taxable[k] \in Realized /\ taxable[k] \in RealizedType
         /\ \A k \in DOMAIN nonTaxable : nonTaxable[k] \in Realized
                                           /\ nonTaxable[k] \in RealizedType
         /\ \A r \in Realized : r \in RealizedType
<1>1. /\ \A k \in DOMAIN taxable : taxable[k] \in RealizedType
      /\ \A k \in DOMAIN nonTaxable : nonTaxable[k] \in RealizedType
  <2>1. taxable \in Seq(RealizedType) /\ nonTaxable \in Seq(RealizedType)
    BY DEF FxTypes
  <2> QED
    BY <2>1
<1> QED
  BY <1>1 DEF Realized, ToSet

(* What the last row has closed of another is one realization, or nothing.  *)
LEMMA LastIs ==
  ASSUME FxTypes, TakenSoFar, NEW row
  PROVE  /\ LastUnits(row) \in Nat
         /\ (\A r \in LastBy : r.of # row) => LastUnits(row) = 0
         /\ LastUnits(row) > 0 => \E r \in LastBy : r.of = row
<1>1. CASE \E r \in LastBy : r.of = row
  <2>1. PICK r \in LastBy : r.of = row
    BY <1>1
  <2>2. r.units > 0 /\ r.units = LastUnits(row) /\ r \in RealizedType
    BY <2>1, RealizedAre DEF TakenSoFar, LastBy
  <2> QED
    BY <2>1, <2>2 DEF RealizedType
<1>2. CASE \A r \in LastBy : r.of # row
  <2>1. /\ \A k \in DOMAIN taxable : ~(taxable[k].by = Len(rows) /\ taxable[k].of = row)
        /\ \A k \in DOMAIN nonTaxable :
             ~(nonTaxable[k].by = Len(rows) /\ nonTaxable[k].of = row)
    BY <1>2, RealizedAre DEF LastBy
  <2>2. taxable \in Seq(RealizedType) /\ nonTaxable \in Seq(RealizedType)
    BY DEF FxTypes
  <2>3. LastUnits(row) = 0
    BY <2>1, <2>2, NoneClosed DEF LastUnits
  <2> QED
    BY <1>2, <2>3
<1> QED
  BY <1>1, <1>2

(* What a portion does to the lots: it goes off the oldest one.             *)
LEMMA LeftOpen ==
  ASSUME FxTypes, QueueInOrder, lots # <<>>, remaining # 0, ~Extends, NEW row
  PROVE  /\ Total(OpenOf(lots, row)) \in Int
         /\ Total(OpenOf(Left, row))
              = Total(OpenOf(lots, row))
                  - (IF row = lots[1].row THEN Sign(lots[1].qty) * Portion ELSE 0)
<1> DEFINE n == Len(lots)
           f == OpenOf(lots, row)
           g == OpenOf(Left, row)
           out == IF row = lots[1].row THEN Sign(lots[1].qty) * Portion ELSE 0
<1>1. /\ lots \in Seq(LotType) /\ Left \in Seq(LotType) /\ n \in Nat /\ n >= 1 /\ 1 \in 1 .. n
      /\ DOMAIN lots = 1 .. n /\ DOMAIN Left = 1 .. Len(Left) /\ Len(Left) \in Nat
      /\ Portion \in Int
  <2>1. lots \in Seq(LotType)
    BY DEF FxTypes
  <2>2. Left \in Seq(LotType)
    BY LeftOver DEF QueueInOrder
  <2>3. Len(lots) \in Nat /\ Len(lots) >= 1
    BY <2>1
  <2> QED
    BY <2>1, <2>2, <2>3, PortionIsInt
<1>2. /\ \A i \in 1 .. n : lots[i].qty \in Int
      /\ \A i \in 1 .. Len(Left) : Left[i].qty \in Int
  <2>1. /\ \A i \in 1 .. n : lots[i] \in LotType
        /\ \A i \in 1 .. Len(Left) : Left[i] \in LotType
    BY <1>1
  <2> QED
    BY <2>1 DEF LotType
<1>3. out \in Int
  BY <1>1 DEF Sign
<1>4. /\ DOMAIN f = 1 .. n /\ DOMAIN g = 1 .. Len(Left)
      /\ \A i \in 1 .. n :
           f[i] = (IF lots[i].row = row THEN lots[i].qty ELSE 0) /\ f[i] \in Int
      /\ \A i \in 1 .. Len(Left) :
           g[i] = (IF Left[i].row = row THEN Left[i].qty ELSE 0) /\ g[i] \in Int
  BY <1>1, <1>2 DEF OpenOf
<1>5. Total(f) \in Int /\ Summable(f, 1 .. n)
  BY <1>1, <1>4, TotalInteger
<1> HIDE DEF f, g
<1>6. CASE /\ Len(Left) = n - 1
           /\ \A i \in 1 .. Len(Left) : Left[i] = lots[i + 1]
           /\ lots[1].qty - Sign(lots[1].qty) * Portion = 0
  <2>1. \A i \in 1 .. n - 1 : g[i] = f[i + 1]
    BY <1>1, <1>4, <1>6
  <2>2. n - 1 \in Nat /\ (n - 1) + 1 = n
    BY <1>1
  <2>3. Total(f) = f[1] + Total(g)
    <3> DEFINE k == n - 1
    <3>1. k \in Nat /\ k + 1 = n /\ DOMAIN f = 1 .. k + 1 /\ DOMAIN g = 1 .. k
      BY <1>4, <1>6, <2>2
    <3>2. (\A i \in 1 .. k + 1 : f[i] \in Int) /\ (\A i \in 1 .. k : g[i] = f[i + 1])
      BY <1>4, <2>1, <2>2
    <3> HIDE DEF k, n
    <3> QED
      BY ONLY ZenonT(30), <3>1, <3>2, TotalOfTail
  <2>4. f[1] = out
    <3>1. lots[1].qty = Sign(lots[1].qty) * Portion
      BY <1>1, <1>2, <1>6 DEF Sign
    <3> QED
      BY <1>1, <1>4, <3>1
  <2>5. Total(g) \in Int
    BY <1>1, <1>4, TotalInteger
  <2> QED
    BY <1>3, <1>5, <2>3, <2>4, <2>5 DEF f, g
<1>7. CASE /\ Len(Left) = n
           /\ Left[1].qty = lots[1].qty - Sign(lots[1].qty) * Portion
           /\ \A i \in 2 .. n : Left[i] = lots[i]
           /\ Left[1].row = lots[1].row
  <2>1. \A i \in (1 .. n) \ {1} : g[i] = f[i]
    BY <1>1, <1>4, <1>7
  <2>2. Total(g) = Total(f) - f[1] + g[1]
    <3>1. DOMAIN f = 1 .. n /\ DOMAIN g = 1 .. n /\ 1 \in 1 .. n /\ g[1] \in Int
      BY <1>1, <1>4, <1>7
    <3> DEFINE S == 1 .. n
    <3>2. /\ DOMAIN f = S /\ DOMAIN g = S /\ Summable(f, S) /\ 1 \in S /\ g[1] \in Int
          /\ \A i \in S \ {1} : g[i] = f[i]
      BY <1>5, <2>1, <3>1
    <3> HIDE DEF n, S
    <3> QED
      BY ONLY <3>2, TotalChanged
  <2>3. f[1] - g[1] = out /\ f[1] \in Int /\ g[1] \in Int
    <3>1. lots[1].qty \in Int /\ Sign(lots[1].qty) * Portion \in Int
      BY <1>1, <1>2 DEF Sign
    <3>2. f[1] = IF lots[1].row = row THEN lots[1].qty ELSE 0
      BY <1>1, <1>4
    <3>3. g[1] = IF lots[1].row = row THEN lots[1].qty - Sign(lots[1].qty) * Portion ELSE 0
      BY <1>1, <1>4, <1>7
    <3> QED
      BY <3>1, <3>2, <3>3
  <2> QED
    BY <1>3, <1>5, <2>2, <2>3 DEF f, g
<1>8. \/ <1>6!1
      \/ <1>7!1
  BY <1>1, LeftOver DEF QueueInOrder
<1> QED
  BY <1>6, <1>7, <1>8

(* What a portion is realized as.                                           *)
LEMMA Closes ==
  ASSUME QueueInv, Consume
  PROVE  \E r \in RealizedType :
           /\ r.by = Len(rows) /\ r.of = lots[1].row /\ r.units = Portion
           /\ Realized' = Realized \cup {r}
           /\ \A row : LastUnits(row)' = LastUnits(row)
                                           + (IF row = lots[1].row THEN Portion ELSE 0)
<1> DEFINE n == Len(rows)
           held == Portion * (rows[n].rate - lots[1].rate)
           owed == Portion * (lots[1].rate - rows[n].rate)
<1>1. /\ lots # <<>> /\ remaining # 0 /\ UNCHANGED rows
      /\ taxable \in Seq(RealizedType) /\ nonTaxable \in Seq(RealizedType)
  BY DEF Consume, Extends, QueueInv, FxTypes
<1>2. rows[n] \in RowType /\ n \in Nat /\ lots[1] \in LotType /\ Portion \in Int
  <2>1. rows \in Seq(RowType) /\ rows # <<>> /\ lots \in Seq(LotType)
    BY <1>1 DEF QueueInv, FxTypes, QueueInOrder, OneSide
  <2>2. rows[n] \in RowType /\ n \in Nat /\ lots[1] \in LotType
    BY <1>1, <2>1
  <2> QED
    BY <1>1, <2>2, PortionIsInt DEF QueueInv
<1>3. held \in Int /\ owed \in Int
  <2>1. rows[n].rate \in Int /\ lots[1].rate \in Int
    BY <1>2 DEF RowType, LotType
  <2> QED
    BY <1>2, <2>1
<1> HIDE DEF held, owed
<1>4. \A amount \in Int : /\ Realization(amount) \in RealizedType
                          /\ Realization(amount).by = n
                          /\ Realization(amount).of = lots[1].row
                          /\ Realization(amount).units = Portion
  BY <1>2 DEF Realization, RealizedType, RowType, LotType
<1>5. \A q \in Seq(RealizedType) : \A r \in RealizedType :
        ToSet(Append(q, r)) = ToSet(q) \cup {r}
  <2> TAKE q \in Seq(RealizedType)
  <2> TAKE r \in RealizedType
  <2> DEFINE p == Append(q, r)
  <2>1. /\ DOMAIN p = 1 .. Len(q) + 1 /\ DOMAIN q = 1 .. Len(q) /\ Len(q) \in Nat
        /\ p[Len(q) + 1] = r /\ \A k \in 1 .. Len(q) : p[k] = q[k]
    OBVIOUS
  <2> HIDE DEF p
  <2>2. ToSet(p) = ToSet(q) \cup {r}
    BY <2>1 DEF ToSet
  <2> QED
    BY <2>2 DEF p
<1>6. CASE lots[1].qty > 0
  <2> DEFINE r == Realization(held)
  <2>1. taxable' = Append(taxable, r) /\ UNCHANGED nonTaxable
    BY <1>6 DEF Consume, held
  <2>2. r \in RealizedType /\ r.by = n /\ r.of = lots[1].row /\ r.units = Portion
    BY <1>3, <1>4
  <2> HIDE DEF r
  <2>3. Realized' = Realized \cup {r}
    BY <1>1, <1>5, <2>1, <2>2 DEF Realized
  <2>4. ASSUME NEW row
        PROVE  LastUnits(row)' = LastUnits(row) + (IF row = lots[1].row THEN Portion ELSE 0)
    <3>1. Total(UnitsFor(taxable, row, n)) \in Int /\ Total(UnitsFor(nonTaxable, row, n)) \in Int
      BY <1>1, UnitsAreInt
    <3>2. Total(UnitsFor(taxable', row, n))
            = Total(UnitsFor(taxable, row, n)) + (IF row = lots[1].row THEN Portion ELSE 0)
      BY <1>1, <2>1, <2>2, OneMoreClosed
    <3> QED
      BY <1>1, <1>2, <2>1, <3>1, <3>2 DEF LastUnits
  <2> QED
    BY <2>2, <2>3, <2>4
<1>7. CASE ~(lots[1].qty > 0)
  <2> DEFINE r == Realization(owed)
  <2>1. nonTaxable' = Append(nonTaxable, r) /\ UNCHANGED taxable
    BY <1>7 DEF Consume, owed
  <2>2. r \in RealizedType /\ r.by = n /\ r.of = lots[1].row /\ r.units = Portion
    BY <1>3, <1>4
  <2> HIDE DEF r
  <2>3. Realized' = Realized \cup {r}
    BY <1>1, <1>5, <2>1, <2>2 DEF Realized
  <2>4. ASSUME NEW row
        PROVE  LastUnits(row)' = LastUnits(row) + (IF row = lots[1].row THEN Portion ELSE 0)
    <3>1. Total(UnitsFor(taxable, row, n)) \in Int /\ Total(UnitsFor(nonTaxable, row, n)) \in Int
      BY <1>1, UnitsAreInt
    <3>2. Total(UnitsFor(nonTaxable', row, n))
            = Total(UnitsFor(nonTaxable, row, n)) + (IF row = lots[1].row THEN Portion ELSE 0)
      BY <1>1, <2>1, <2>2, OneMoreClosed
    <3> QED
      BY <1>1, <1>2, <2>1, <3>1, <3>2 DEF LastUnits
  <2> QED
    BY <2>2, <2>3, <2>4
<1> QED
  BY <1>6, <1>7

-----------------------------------------------------------------------------
(* Units are taken in the order of the promise when all that is left of     *)
(* what they were taken from is on the same side, or nothing, and nothing   *)
(* is left of anything older.                                               *)
InOrder(k, m, taken, before, after) ==
  /\ \A i \in 1 .. k : after[i] = before[i] + Sign(m) * taken[i]
  /\ \A i \in 1 .. k : taken[i] > 0 => after[i] = 0 \/ Sign(after[i]) # Sign(m)
  /\ \A i, j \in 1 .. k : i < j /\ taken[j] > 0 => after[i] = 0
  /\ \/ SumFunctionOnSet(taken, 1 .. k) = Magnitude(m)
     \/ /\ SumFunctionOnSet(taken, 1 .. k) < Magnitude(m)
        /\ \A i \in 1 .. k : Sign(before[i]) # Sign(m) => after[i] = 0

MayTake(k, m, taken, before) ==
  /\ taken \in [1 .. k -> 0 .. Magnitude(m)]
  /\ \A i \in 1 .. k : /\ taken[i] <= Magnitude(before[i])
                       /\ taken[i] > 0 => Sign(before[i]) # Sign(m)
  /\ \A i, j \in 1 .. k :
       i < j /\ taken[j] > 0 /\ Sign(before[i]) # Sign(m)
         => taken[i] = Magnitude(before[i])
  /\ \/ Total(taken) = Magnitude(m)
     \/ /\ Total(taken) < Magnitude(m)
        /\ \A i \in 1 .. k :
             Sign(before[i]) # Sign(m) => taken[i] = Magnitude(before[i])

(* The promise's own words for a sign, a size and a sum.                    *)
LEMMA SameWords ==
  /\ \A x : Promise!Sign(x) = Sign(x) /\ Promise!Abs(x) = Magnitude(x)
  /\ \A f : Promise!Units(f) = Total(f)
<1>1. \A x : Promise!Sign(x) = Sign(x) /\ Promise!Abs(x) = Magnitude(x)
  BY DEF Promise!Sign, Promise!Abs, Sign, Magnitude
<1>2. \A f : Promise!Units(f) = Total(f)
  BY DEF Promise!Units, Total, Promise!SumFunctionOnSet, SumFunctionOnSet,
         Promise!FoldFunctionOnSet, FoldFunctionOnSet, Promise!MapThenFoldSet, MapThenFoldSet
<1> QED
  BY <1>1, <1>2

(* One take, of what is open of one row.                                    *)
LEMMA TakenOfOne ==
  ASSUME NEW m \in Int, m # 0, NEW t \in Nat, NEW b \in Int, NEW a \in Int,
         a = b + Sign(m) * t, t > 0 => a = 0 \/ Sign(a) # Sign(m)
  PROVE  /\ t > 0 => Sign(b) # Sign(m)
         /\ t <= Magnitude(b)
         /\ a = 0 /\ Sign(b) # Sign(m) => t = Magnitude(b)
<1>1. CASE m > 0
  <2>1. Sign(m) = 1 /\ a = b + t
    BY <1>1 DEF Sign
  <2>2. t > 0 => a = 0 \/ a < 0
    BY <2>1 DEF Sign
  <2>3. t > 0 => b < 0
    BY <2>1, <2>2
  <2>4. b < 0 => Magnitude(b) = -b /\ Sign(b) = -1
    BY DEF Magnitude, Sign
  <2>5. b >= 0 => Magnitude(b) = b /\ Sign(b) = 1
    BY DEF Magnitude, Sign
  <2> QED
    BY <2>1, <2>2, <2>3, <2>4, <2>5
<1>2. CASE m < 0
  <2>1. Sign(m) = -1 /\ a = b - t
    BY <1>2 DEF Sign
  <2>2. t > 0 => a = 0 \/ a > 0
    BY <2>1 DEF Sign
  <2>3. t > 0 => b > 0
    BY <2>1, <2>2
  <2>4. b < 0 => Magnitude(b) = -b /\ Sign(b) = -1
    BY DEF Magnitude, Sign
  <2>5. b >= 0 => Magnitude(b) = b /\ Sign(b) = 1
    BY DEF Magnitude, Sign
  <2> QED
    BY <2>1, <2>2, <2>3, <2>4, <2>5
<1> QED
  BY <1>1, <1>2

(* A sequence with one more element.                                        *)
LEMMA OneLonger ==
  ASSUME NEW S, NEW s \in Seq(S), NEW t \in Seq(S), NEW e \in S,
         Len(t) = Len(s) + 1, t[Len(s) + 1] = e, \A i \in 1 .. Len(s) : t[i] = s[i]
  PROVE  t = Append(s, e)
<1> DEFINE u == Append(s, e)
<1>1. /\ u \in Seq(S) /\ Len(u) = Len(s) + 1 /\ u[Len(s) + 1] = e /\ Len(s) \in Nat
      /\ \A i \in 1 .. Len(s) : u[i] = s[i]
  BY AppendProperties
<1> HIDE DEF u
<1>2. \A i \in 1 .. Len(t) : t[i] = u[i]
  BY <1>1
<1>3. t = u
  BY <1>1, <1>2, SeqEqual
<1> QED
  BY <1>3 DEF u

(* Such takes are those the promise allows.                                 *)
LEMMA TakenInOrder ==
  ASSUME NEW k \in Nat, NEW m \in Int, m # 0,
         NEW taken \in [1 .. k -> Nat], NEW before \in [1 .. k -> Int],
         NEW after \in [1 .. k -> Int], InOrder(k, m, taken, before, after)
  PROVE  MayTake(k, m, taken, before)
<1> USE DEF MayTake
<1> DEFINE sum == SumFunctionOnSet(taken, 1 .. k)
<1>1. /\ \A i \in 1 .. k : taken[i] \in Nat /\ before[i] \in Int /\ after[i] \in Int
      /\ IsFiniteSet(1 .. k) /\ Summable(taken, 1 .. k) /\ Total(taken) = sum
  <2>1. IsFiniteSet(1 .. k)
    BY FS_Interval
  <2>2. Summable(taken, 1 .. k)
    BY <2>1 DEF Summable
  <2>3. DOMAIN taken = 1 .. k
    OBVIOUS
  <2> QED
    BY <2>1, <2>2, <2>3 DEF Total
<1>2. sum <= Magnitude(m) /\ sum \in Int /\ Magnitude(m) \in Nat
  BY <1>1, SumInteger DEF InOrder, Magnitude
<1>3. ASSUME NEW i \in 1 .. k
      PROVE  taken[i] <= sum
  <2>1. sum = taken[i] + SumFunctionOnSet(taken, (1 .. k) \ {i})
    BY <1>1, SumElement
  <2>2. IsFiniteSet((1 .. k) \ {i})
    BY <1>1, FS_RemoveElement
  <2>3. SumFunctionOnSet(taken, (1 .. k) \ {i}) \in Nat
    BY <1>1, <2>2, SumNatural
  <2> QED
    BY <1>1, <1>2, <2>1, <2>3
<1> HIDE DEF sum
<1>4. taken \in [1 .. k -> 0 .. Magnitude(m)]
  BY <1>1, <1>2, <1>3
<1>5. ASSUME NEW i \in 1 .. k
      PROVE  /\ taken[i] > 0 => Sign(before[i]) # Sign(m)
             /\ taken[i] <= Magnitude(before[i])
             /\ after[i] = 0 /\ Sign(before[i]) # Sign(m) => taken[i] = Magnitude(before[i])
  <2>1. after[i] = before[i] + Sign(m) * taken[i]
    BY DEF InOrder
  <2>2. taken[i] > 0 => after[i] = 0 \/ Sign(after[i]) # Sign(m)
    BY DEF InOrder
  <2>3. taken[i] \in Nat /\ before[i] \in Int /\ after[i] \in Int
    BY <1>1
  <2> QED
    BY ONLY <2>1, <2>2, <2>3, TakenOfOne, m \in Int, m # 0
<1>6. /\ \A i, j \in 1 .. k : i < j /\ taken[j] > 0 /\ Sign(before[i]) # Sign(m)
           => taken[i] = Magnitude(before[i])
      /\ \/ sum = Magnitude(m)
         \/ /\ sum < Magnitude(m)
            /\ \A i \in 1 .. k :
                 Sign(before[i]) # Sign(m) => taken[i] = Magnitude(before[i])
  BY <1>5 DEF InOrder, sum
<1> QED
  BY <1>1, <1>4, <1>5, <1>6

(* A row whose last portion is placed is a movement of the account.         *)
LEMMA MoveIs ==
  ASSUME FxTypes, UNCHANGED rows, rows # <<>>, remaining # 0, remaining' = 0,
         NEW m \in Int, m # 0, m = rows[Len(rows)].amount,
         NEW taken \in [1 .. Len(rows) - 1 -> Nat],
         NEW before \in [1 .. Len(rows) - 1 -> Int],
         NEW after \in [1 .. Len(rows) -> Int],
         \A i \in 1 .. Len(rows) - 1 : before[i] = StillOpen(i),
         \A i \in 1 .. Len(rows) : after[i] = StillOpen(i)',
         InOrder(Len(rows) - 1, m, taken, before, after),
         after[Len(rows)] = m - Sign(m) * Total(taken),
         \A r \in Realized : r.by <= Len(rows),
         \A r \in Realized' : r.by <= Len(rows),
         \A x : x \in {[by |-> r.by, of |-> r.of, units |-> r.units] : r \in Realized'}
                  <=> \/ x \in {[by |-> r.by, of |-> r.of, units |-> r.units] :
                                  r \in {q \in Realized : q.by <= Len(rows) - 1}}
                      \/ \E i \in 1 .. Len(rows) - 1 :
                           taken[i] > 0 /\ x = [by |-> Len(rows), of |-> i, units |-> taken[i]]
  PROVE  Promise!Move([amount |-> m])
<1> DEFINE k == Len(rows) - 1
           moved == [i \in 1 .. Placed |-> [amount |-> rows[i].amount]]
           open == [i \in 1 .. Placed |-> StillOpen(i)]
           closed == {[by |-> r.by, of |-> r.of, units |-> r.units] :
                        r \in {q \in Realized : q.by <= Placed}}
           move == [amount |-> m]
<1>1. /\ k \in Nat /\ k + 1 = Len(rows) /\ DOMAIN rows = 1 .. k + 1
      /\ \A i \in 1 .. k + 1 : rows[i].amount \in Int
  <2>1. rows \in Seq(RowType)
    BY DEF FxTypes
  <2>2. \A i \in DOMAIN rows : rows[i] \in RowType
    BY <2>1
  <2> QED
    BY <2>1, <2>2 DEF RowType
<1>2. Placed = k /\ Placed' = k + 1
  BY <1>1 DEF Placed
<1>3. moved' = Append(moved, move) /\ Len(moved') = k + 1
  <2> DEFINE a == [i \in 1 .. k |-> [amount |-> rows[i].amount]]
             b == [i \in 1 .. k + 1 |-> [amount |-> rows[i].amount]]
  <2>1. moved = a /\ moved' = b
    BY <1>2
  <2>2. a \in Seq([amount : Int]) /\ b \in Seq([amount : Int]) /\ Len(a) = k /\ Len(b) = k + 1
    BY <1>1
  <2>3. b[k + 1] = move /\ \A i \in 1 .. k : b[i] = a[i]
    BY <1>1
  <2> HIDE DEF a, b, move
  <2>4. move \in [amount : Int]
    BY DEF move
  <2>5. b = Append(a, move)
    <3> DEFINE S == [amount : Int]
    <3>1. a \in Seq(S) /\ b \in Seq(S) /\ move \in S /\ Len(b) = Len(a) + 1
          /\ b[Len(a) + 1] = move /\ \A i \in 1 .. Len(a) : b[i] = a[i]
      BY <1>1, <2>2, <2>3, <2>4
    <3> HIDE DEF S
    <3> QED
      BY ONLY <3>1, OneLonger
  <2> QED
    BY <2>1, <2>2, <2>5
<1>4. open = before /\ DOMAIN open = 1 .. k
  <2>1. before = [i \in 1 .. k |-> before[i]]
    OBVIOUS
  <2> QED
    BY <1>2, <2>1
<1>5. open' = after
  <2>1. after = [i \in 1 .. k + 1 |-> after[i]]
    BY <1>1
  <2>2. open' = [i \in 1 .. k + 1 |-> StillOpen(i)']
    BY <1>2
  <2> QED
    BY <1>1, <2>1, <2>2
<1>6. taken \in Promise!Takes(move)
  <2>1. MayTake(k, m, taken, before)
    <3>1. /\ k \in Nat /\ InOrder(k, m, taken, before, after)
          /\ taken \in [1 .. k -> Nat] /\ before \in [1 .. k -> Int]
      BY <1>1
    <3>2. ASSUME NEW f \in [1 .. k -> Int], \A i \in 1 .. k : f[i] = after[i]
          PROVE  InOrder(k, m, taken, before, f)
      BY <3>1, <3>2 DEF InOrder
    <3> DEFINE f == [i \in 1 .. k |-> after[i]]
    <3>3. f \in [1 .. k -> Int] /\ \A i \in 1 .. k : f[i] = after[i]
      BY <1>1
    <3> HIDE DEF k, f
    <3>4. InOrder(k, m, taken, before, f)
      BY <3>2, <3>3
    <3>5. m \in Int /\ m # 0
      OBVIOUS
    <3> QED
      BY ONLY <3>1, <3>3, <3>4, <3>5, TakenInOrder
  <2>2. move.amount = m
    OBVIOUS
  <2> HIDE DEF move, k
  <2> QED
    BY <1>4, <2>1, <2>2, SameWords DEF Promise!Takes, MayTake
<1>7. open' = Append([i \in DOMAIN open |-> open[i] + Sign(m) * taken[i]],
                     m - Sign(m) * Total(taken))
  <2> DEFINE a == [i \in 1 .. k |-> before[i] + Sign(m) * taken[i]]
             z == m - Sign(m) * Total(taken)
  <2>1. a \in Seq(Int) /\ Len(a) = k /\ after \in Seq(Int) /\ Len(after) = k + 1
    <3>1. \A i \in 1 .. k : before[i] + Sign(m) * taken[i] \in Int
      BY <1>1 DEF InOrder
    <3>2. a \in [1 .. k -> Int] /\ after \in [1 .. k + 1 -> Int]
      BY <1>1, <3>1
    <3> HIDE DEF a, k
    <3> QED
      BY <1>1, <3>2
  <2>2. after[k + 1] = z /\ \A i \in 1 .. k : after[i] = a[i]
    BY <1>1 DEF InOrder
  <2>3. z \in Int
    BY <1>1, <2>2
  <2> HIDE DEF a, z
  <2>4. after = Append(a, z)
    <3>1. Len(after) = Len(a) + 1 /\ after[Len(a) + 1] = z
          /\ \A i \in 1 .. Len(a) : after[i] = a[i]
      BY <1>1, <2>1, <2>2
    <3> QED
      BY ONLY <2>1, <2>3, <3>1, OneLonger
  <2> QED
    BY <1>4, <1>5, <2>4 DEF a, z
<1>8. closed' = closed \cup {[by |-> Len(moved'), of |-> i, units |-> taken[i]] :
                               i \in {j \in DOMAIN open : taken[j] > 0}}
  <2> DEFINE new == {[by |-> k + 1, of |-> i, units |-> taken[i]] :
                       i \in {j \in 1 .. k : taken[j] > 0}}
  <2>1. closed' = {[by |-> r.by, of |-> r.of, units |-> r.units] : r \in Realized'}
    <3>1. {q \in Realized' : q.by <= Placed'} = Realized'
      BY <1>1, <1>2
    <3> QED
      BY <3>1
  <2>2. closed = {[by |-> r.by, of |-> r.of, units |-> r.units] :
                    r \in {q \in Realized : q.by <= Len(rows) - 1}}
    BY <1>1, <1>2
  <2>3. \A x : x \in new <=> \E i \in 1 .. Len(rows) - 1 :
                 taken[i] > 0 /\ x = [by |-> Len(rows), of |-> i, units |-> taken[i]]
    BY <1>1
  <2> HIDE DEF new
  <2>4. \A x : x \in closed' <=> x \in closed \/ x \in new
    BY <2>1, <2>2, <2>3
  <2>5. closed' = closed \cup new
    BY <2>4
  <2>6. new = {[by |-> Len(moved'), of |-> i, units |-> taken[i]] :
                 i \in {j \in DOMAIN open : taken[j] > 0}}
    <3> HIDE DEF moved, open, k
    <3> QED
      BY <1>3, <1>4 DEF new
  <2> QED
    BY <2>5, <2>6
<1>9. move.amount = m
  OBVIOUS
<1>10. Promise!Move(move)
         <=> /\ moved' = Append(moved, move)
             /\ \E take \in Promise!Takes(move) :
                  /\ open' = Append([i \in DOMAIN open |->
                                       open[i] + Promise!Sign(move.amount) * take[i]],
                                    move.amount - Promise!Sign(move.amount)
                                                    * Promise!Units(take))
                  /\ closed' = closed \cup
                       {[by |-> Len(moved'), of |-> i, units |-> take[i]] :
                          i \in {j \in DOMAIN open : take[j] > 0}}
  BY DEF Promise!Move
<1> HIDE DEF moved, open, closed, move, k
<1> QED
  BY <1>3, <1>6, <1>7, <1>8, <1>9, <1>10, SameWords DEF move

-----------------------------------------------------------------------------
(* The same of the next state.                                              *)
LEMMA OpenNext ==
  \A row : StillOpen(row)' = Total(OpenOf(lots', row))
             - (IF remaining' = 0 THEN 0 ELSE Sign(remaining') * LastUnits(row)')
<1>1. \A row : LastClosed(row)' = LastUnits(row)'
  BY DEF LastClosed, LastUnits, SumOf, SumOver, Total, UnitsFor
<1>2. \A row : SumOf(LAMBDA l : IF l.row = row THEN l.qty ELSE 0, lots)' = Total(OpenOf(lots', row))
  BY DEF SumOf, SumOver, Total, OpenOf
<1> QED
  BY <1>1, <1>2 DEF StillOpen

(* The rows before the last and what is open of them are as they were, with *)
(* what was closed by them: to the promise, nothing happens.                *)
LEMMA Nothing ==
  ASSUME Placed' = Placed, \A i \in 1 .. Placed : rows'[i] = rows[i],
         \A i \in 1 .. Placed : StillOpen(i)' = StillOpen(i),
         {r \in Realized' : r.by <= Placed} = {r \in Realized : r.by <= Placed}
  PROVE  UNCHANGED Promise!vars
<1>1. [i \in 1 .. Placed |-> [amount |-> rows[i].amount]]'
        = [i \in 1 .. Placed |-> [amount |-> rows[i].amount]]
  OBVIOUS
<1>2. [i \in 1 .. Placed |-> StillOpen(i)]' = [i \in 1 .. Placed |-> StillOpen(i)]
  OBVIOUS
<1>3. {[by |-> r.by, of |-> r.of, units |-> r.units] : r \in {q \in Realized : q.by <= Placed}}'
        = {[by |-> r.by, of |-> r.of, units |-> r.units] :
             r \in {q \in Realized : q.by <= Placed}}
  OBVIOUS
<1> QED
  BY <1>1, <1>2, <1>3 DEF Promise!vars

(* A statement opens as promised.                                           *)
LEMMA PlaceInit == FxAssumption /\ FxInit => PlaceInv /\ Promise!Init
<1> SUFFICES ASSUME FxAssumption, FxInit PROVE PlaceInv /\ Promise!Init
  OBVIOUS
<1>1. /\ remaining = 0 /\ Realized = {} /\ running \in Int /\ running \in Openings
      /\ Placed = Len(rows)
  BY DEF FxInit, FxAssumption, Realized, ToSet, Placed
<1>2. {[by |-> r.by, of |-> r.of, units |-> r.units] : r \in {q \in Realized : q.by <= Placed}} = {}
  BY <1>1
<1>3. CASE running = 0
  <2>1. rows = <<>> /\ lots = <<>> /\ Placed = 0
    BY <1>1, <1>3 DEF FxInit
  <2>2. PlaceInv
    BY <1>1, <2>1 DEF PlaceInv, TakenSoFar, Shown, UnderWay, LastBy
  <2>3. [i \in 1 .. Placed |-> [amount |-> rows[i].amount]] = <<>>
    BY <2>1
  <2>4. [i \in 1 .. Placed |-> StillOpen(i)] = <<>>
    BY <2>1
  <2> QED
    BY <1>2, <2>2, <2>3, <2>4 DEF Promise!Init
<1>4. CASE running # 0
  <2>1. PICK rate \in {r \in Rates : r > 0} :
          rows = <<Row(running, rate)>> /\ lots = <<Lot(1, running, rate, 0)>>
    BY <1>4 DEF FxInit
  <2>2. /\ Len(rows) = 1 /\ DOMAIN rows = {1} /\ rows[1].amount = running
        /\ Len(lots) = 1 /\ DOMAIN lots = {1} /\ lots[1].qty = running /\ lots[1].row = 1
        /\ Placed = 1
    BY <1>1, <2>1 DEF Row, Lot
  <2>3. running \in Openings \ {0}
    BY <1>1, <1>4
  <2>4. PlaceInv
    BY <1>1, <2>2, <2>3 DEF PlaceInv, TakenSoFar, Shown, UnderWay, LastBy
  <2>5. [i \in 1 .. Placed |-> [amount |-> rows[i].amount]] = <<[amount |-> running]>>
    BY <2>2
  <2>6. StillOpen(1) = running
    <3>1. QueueInv
      BY QueueInit
    <3>2. lots \in Seq(LotType) /\ \A i, j \in DOMAIN lots : i < j => lots[i].row < lots[j].row
      BY <3>1 DEF QueueInv, FxTypes, QueueInOrder, OldestFirst
    <3>3. Total(OpenOf(lots, 1)) = running
      BY <2>2, <3>2, LotOfRow
    <3> QED
      BY <1>1, <3>3, OpenAndClosed
  <2>7. [i \in 1 .. Placed |-> StillOpen(i)]
          = [i \in DOMAIN <<[amount |-> running]>> |-> <<[amount |-> running]>>[i].amount]
    BY <2>2, <2>6
  <2>8. <<[amount |-> running]>>
          \in {<<m>> : m \in [amount : Amounts \cup (Openings \ {0})]}
    BY <2>3
  <2> QED
    BY <1>2, <2>4, <2>5, <2>7, <2>8 DEF Promise!Init
<1> QED
  BY <1>3, <1>4

(* The steps that leave the queue alone.                                    *)
LEMMA PlaceUntouched ==
  ASSUME PlaceInv, UNCHANGED <<rows, lots, remaining, taxable, nonTaxable>>
  PROVE  PlaceInv' /\ UNCHANGED Promise!vars
<1>1. Placed' = Placed /\ Realized' = Realized /\ \A row : LastUnits(row)' = LastUnits(row)
  BY DEF Placed, Realized, LastUnits
<1>2. \A row : StillOpen(row)' = StillOpen(row)
  BY <1>1, OpenAndClosed, OpenNext
<1>3. LastBy' = LastBy /\ LastOf' = LastOf
  BY <1>1 DEF LastBy, LastOf
<1>4. PlaceInv'
  BY <1>1, <1>3 DEF PlaceInv, TakenSoFar, Shown, UnderWay
<1>5. UNCHANGED Promise!vars
  BY <1>1, <1>2, Nothing
<1> QED
  BY <1>4, <1>5

(* A row that is read is not placed yet.                                    *)
LEMMA PlaceRead ==
  ASSUME FxAssumption, QueueInv, PlaceInv, NEW amount \in Amounts, NEW rate \in Rates,
         ReadRow(amount, rate)
  PROVE  PlaceInv' /\ UNCHANGED Promise!vars
<1> DEFINE n == Len(rows)
<1>1. CASE refused'
  <2>1. UNCHANGED <<rows, remaining>>
    BY <1>1 DEF ReadRow, Replayed
  <2> QED
    BY <2>1, PlaceUntouched DEF ReadRow
<1>2. CASE ~refused'
  <2>1. /\ rows' = Append(rows, Row(amount, rate)) /\ remaining' = amount /\ remaining = 0
        /\ UNCHANGED <<lots, taxable, nonTaxable>>
    BY <1>2 DEF ReadRow, Replayed
  <2>2. Row(amount, rate) \in RowType /\ amount \in Int /\ amount # 0 /\ rows \in Seq(RowType)
    BY DEF FxAssumption, QueueInv, FxTypes, Row, RowType
  <2>3. /\ Len(rows') = n + 1 /\ n \in Nat /\ DOMAIN rows = 1 .. n /\ DOMAIN rows' = 1 .. n + 1
        /\ rows'[n + 1].amount = amount /\ \A i \in 1 .. n : rows'[i] = rows[i]
    BY <2>1, <2>2 DEF Row
  <2>4. Realized' = Realized /\ \A r \in Realized : r.by \in Nat /\ r.by <= n
    BY <2>1, RealizedAre DEF Realized, PlaceInv, TakenSoFar, QueueInv, RealizedType
  <2>5. LastBy' = {}
    BY <2>3, <2>4 DEF LastBy
  <2>6. ASSUME NEW row
        PROVE  LastUnits(row)' = 0
    <3>1. taxable \in Seq(RealizedType) /\ nonTaxable \in Seq(RealizedType)
      BY DEF QueueInv, FxTypes
    <3>2. /\ \A k \in DOMAIN taxable : taxable[k].by # n + 1
          /\ \A k \in DOMAIN nonTaxable : nonTaxable[k].by # n + 1
      BY <2>3, <2>4, RealizedAre DEF QueueInv
    <3>3. /\ Total(UnitsFor(taxable, row, n + 1)) = 0
          /\ Total(UnitsFor(nonTaxable, row, n + 1)) = 0
      BY <3>1, <3>2, NoneClosed
    <3> QED
      BY <2>1, <2>3, <3>3 DEF LastUnits
  <2>7. TakenSoFar'
    BY <2>3, <2>4, <2>5 DEF TakenSoFar
  <2>8. Shown'
    BY <2>1, <2>3 DEF Shown, PlaceInv
  <2>9. UnderWay'
    <3>1. IsFiniteSet(1 .. n)
      BY <2>3, FS_Interval
    <3> DEFINE f == [i \in 1 .. n |-> LastUnits(i)']
    <3>2. \A i \in 1 .. n : f[i] = 0
      BY <2>6
    <3>3. (LastOf)' = f
      BY <2>3 DEF LastOf
    <3> HIDE DEF f
    <3>4. SumFunctionOnSet(f, 1 .. n) = 0
      BY <3>1, <3>2, SumZero
    <3>5. Magnitude(amount) - Magnitude(amount) = 0
      BY <2>2 DEF Magnitude
    <3>6. 1 .. Len(rows') - 1 = 1 .. n
      BY <2>3
    <3> QED
      BY <2>1, <2>3, <2>5, <3>3, <3>4, <3>5, <3>6 DEF UnderWay
  <2>10. Placed = n /\ Placed' = n
    BY <2>1, <2>2, <2>3 DEF Placed
  <2>11. \A i : StillOpen(i)' = StillOpen(i)
    <3> TAKE i
    <3>1. StillOpen(i) = Total(OpenOf(lots, i)) - 0
      BY <2>1, OpenAndClosed
    <3>2. Sign(remaining') * LastUnits(i)' = 0
      BY <2>6 DEF Sign
    <3>3. StillOpen(i)' = Total(OpenOf(lots, i)) - 0
      BY <2>1, <2>2, <3>2, OpenNext
    <3> QED
      BY <3>1, <3>3
  <2> QED
    BY <2>3, <2>4, <2>7, <2>8, <2>9, <2>10, <2>11, Nothing DEF PlaceInv
<1> QED
  BY <1>1, <1>2

(* With its last portion a row becomes a movement.                          *)
LEMMA Finishes ==
  ASSUME QueueInv, PlaceInv, UNCHANGED rows, remaining # 0, remaining' = 0,
         Realized \subseteq Realized', \A r \in Realized' \ Realized : r.by = Len(rows),
         \A r \in Realized' : r.by = Len(rows) =>
           /\ r.of \in 1 .. Len(rows) - 1 /\ LastUnits(r.of)' > 0
           /\ r.units = LastUnits(r.of)',
         \A i \in 1 .. Len(rows) - 1 :
           LastUnits(i)' > 0 => \E r \in Realized' : r.by = Len(rows) /\ r.of = i,
         NEW m, m = rows[Len(rows)].amount,
         NEW taken \in [1 .. Len(rows) - 1 -> Nat],
         NEW before \in [1 .. Len(rows) - 1 -> Int],
         NEW after \in [1 .. Len(rows) -> Int],
         \A i \in 1 .. Len(rows) - 1 : taken[i] = LastUnits(i)' /\ before[i] = StillOpen(i),
         \A i \in 1 .. Len(rows) : after[i] = Total(OpenOf(lots', i)),
         InOrder(Len(rows) - 1, m, taken, before, after),
         after[Len(rows)] = m - Sign(m) * Total(taken)
  PROVE  Promise!Next
<1> DEFINE n == Len(rows)
           Name(r) == [by |-> r.by, of |-> r.of, units |-> r.units]
<1>1. /\ rows # <<>> /\ n \in Nat /\ n \in DOMAIN rows /\ rows[n] \in RowType
      /\ FxTypes
  <2>1. rows \in Seq(RowType) /\ rows # <<>>
    BY DEF QueueInv, FxTypes, QueueInOrder, OneSide
  <2> QED
    BY <2>1 DEF QueueInv
<1>2. m \in Int /\ m # 0 /\ m \in Amounts \cup (Openings \ {0})
  BY <1>1 DEF RowType, PlaceInv, Shown
<1>3. \A i \in 1 .. n : after[i] = StillOpen(i)'
  <2> TAKE i \in 1 .. n
  <2>1. StillOpen(i)' = Total(OpenOf(lots', i)) - 0
    BY OpenNext
  <2>2. after[i] \in Int
    OBVIOUS
  <2> QED
    BY <2>1, <2>2
<1>4. /\ \A r \in Realized : r.by \in Nat /\ r.by <= n
      /\ \A r \in Realized' : r.by <= n
  BY <1>1, RealizedAre DEF PlaceInv, TakenSoFar, RealizedType
<1>5. ASSUME NEW x
      PROVE  x \in {Name(r) : r \in Realized'}
               <=> \/ x \in {Name(r) : r \in {q \in Realized : q.by <= n - 1}}
                   \/ \E i \in 1 .. n - 1 :
                        taken[i] > 0 /\ x = [by |-> n, of |-> i, units |-> taken[i]]
  <2>1. ASSUME NEW r \in Realized', x = Name(r)
        PROVE  \/ x \in {Name(q) : q \in {q \in Realized : q.by <= n - 1}}
               \/ \E i \in 1 .. n - 1 :
                    taken[i] > 0 /\ x = [by |-> n, of |-> i, units |-> taken[i]]
    <3>1. CASE r.by = n
      BY ZenonT(30), <2>1, <3>1
    <3>2. CASE r.by # n
      <4>1. r \in Realized /\ r.by <= n - 1
        BY <1>1, <1>4, <3>2
      <4> QED
        BY <2>1, <4>1
    <3> QED
      BY <3>1, <3>2
  <2>2. ASSUME NEW i \in 1 .. n - 1, taken[i] > 0, x = [by |-> n, of |-> i, units |-> taken[i]]
        PROVE  x \in {Name(r) : r \in Realized'}
    <3>1. PICK r \in Realized' : r.by = n /\ r.of = i
      BY <2>2
    <3>2. r.units = taken[i]
      BY <3>1
    <3> QED
      BY <2>2, <3>1, <3>2
  <2> QED
    BY <2>1, <2>2
<1>6. Promise!Move([amount |-> m])
  <2>1. /\ UNCHANGED rows /\ remaining # 0 /\ remaining' = 0 /\ m = rows[Len(rows)].amount
        /\ taken \in [1 .. Len(rows) - 1 -> Nat] /\ before \in [1 .. Len(rows) - 1 -> Int]
        /\ after \in [1 .. Len(rows) -> Int]
        /\ \A i \in 1 .. Len(rows) - 1 : before[i] = StillOpen(i)
        /\ InOrder(Len(rows) - 1, m, taken, before, after)
        /\ after[Len(rows)] = m - Sign(m) * Total(taken)
    OBVIOUS
  <2>2. \A x : x \in {[by |-> r.by, of |-> r.of, units |-> r.units] : r \in Realized'}
                 <=> \/ x \in {[by |-> r.by, of |-> r.of, units |-> r.units] :
                                 r \in {q \in Realized : q.by <= Len(rows) - 1}}
                     \/ \E i \in 1 .. Len(rows) - 1 :
                          taken[i] > 0 /\ x = [by |-> Len(rows), of |-> i, units |-> taken[i]]
    BY <1>5
  <2> QED
    BY ONLY <1>1, <1>2, <1>3, <1>4, <2>1, <2>2, MoveIs
<1> QED
  BY <1>2, <1>6 DEF Promise!Next

(* What the proofs of the placing steps begin with.                         *)
LEMMA Placing ==
  ASSUME QueueInv, PlaceInv, remaining # 0
  PROVE  /\ rows # <<>> /\ Len(rows) \in Nat /\ Len(rows) >= 1 /\ remaining \in Int
         /\ rows[Len(rows)].amount \in Int /\ rows[Len(rows)].amount # 0
         /\ Sign(remaining) = Sign(rows[Len(rows)].amount)
         /\ lots \in Seq(LotType) /\ Len(lots) \in Nat /\ DOMAIN lots = 1 .. Len(lots)
         /\ \A i \in DOMAIN lots : /\ lots[i].row \in 1 .. Len(rows) - 1
                                   /\ lots[i].qty \in Int /\ lots[i].qty # 0
         /\ \A i, j \in DOMAIN lots : i < j => lots[i].row < lots[j].row
         /\ \A i \in 1 .. Len(rows) - 1 : LastUnits(i) \in Nat
         /\ \A i : Total(OpenOf(lots, i)) \in Int
         /\ \A i : LastUnits(i) \in Nat
         /\ \A i : (\A k \in DOMAIN lots : lots[k].row # i) => Total(OpenOf(lots, i)) = 0
         /\ \A i : LastUnits(i) > 0 => /\ \E r \in LastBy : r.of = i
                                       /\ i \in 1 .. Len(rows) - 1
                                       /\ \A k \in DOMAIN lots : i < lots[k].row
         /\ \A i : StillOpen(i) = Total(OpenOf(lots, i)) - Sign(remaining) * LastUnits(i)
         /\ \A r \in Realized : r.by \in Nat /\ r.by <= Len(rows)
<1>1. rows \in Seq(RowType) /\ rows # <<>> /\ lots \in Seq(LotType) /\ remaining \in Int
  BY DEF QueueInv, FxTypes, QueueInOrder, OneSide
<1>2. /\ Len(rows) \in Nat /\ Len(rows) >= 1 /\ rows[Len(rows)] \in RowType
      /\ Len(lots) \in Nat /\ DOMAIN lots = 1 .. Len(lots)
      /\ \A i \in DOMAIN lots : lots[i] \in LotType
  BY <1>1
<1>3. \A i \in DOMAIN lots : /\ lots[i].row \in 1 .. Len(rows) - 1
                             /\ lots[i].qty \in Int /\ lots[i].qty # 0
  BY <1>2 DEF QueueInv, QueueInOrder, OneSide, InPlace, PlaceInv, Shown, LotType
<1>4. /\ Sign(remaining) = Sign(rows[Len(rows)].amount)
      /\ \A i, j \in DOMAIN lots : i < j => lots[i].row < lots[j].row
  BY DEF QueueInv, QueueInOrder, OneSide, OldestFirst
<1>5. \A i : LastUnits(i) \in Nat /\ (LastUnits(i) > 0 => \E r \in LastBy : r.of = i)
  BY LastIs DEF QueueInv, PlaceInv
<1>6. \A i : LastUnits(i) > 0 => i \in 1 .. Len(rows) - 1 /\ \A k \in DOMAIN lots : i < lots[k].row
  BY <1>5 DEF PlaceInv, TakenSoFar, UnderWay
<1>7. \A i : /\ Total(OpenOf(lots, i)) \in Int
             /\ (\A k \in DOMAIN lots : lots[k].row # i) => Total(OpenOf(lots, i)) = 0
  BY <1>1, <1>4, LotOfRow
<1>8. \A i : StillOpen(i) = Total(OpenOf(lots, i)) - Sign(remaining) * LastUnits(i)
  BY OpenAndClosed
<1>9. \A r \in Realized : r.by \in Nat /\ r.by <= Len(rows)
  BY RealizedAre DEF QueueInv, PlaceInv, TakenSoFar, RealizedType
<1>10. rows[Len(rows)].amount \in Int /\ rows[Len(rows)].amount # 0
  BY <1>2 DEF RowType
<1> QED
  BY <1>1, <1>2, <1>3, <1>4, <1>5, <1>6, <1>7, <1>8, <1>9, <1>10

(* What extends the queue is open of the last row.                          *)
LEMMA OneMoreOpen ==
  ASSUME NEW q \in Seq(LotType), NEW l \in LotType, NEW row
  PROVE  Total(OpenOf(Append(q, l), row))
           = Total(OpenOf(q, row)) + (IF l.row = row THEN l.qty ELSE 0)
<1> DEFINE p == Append(q, l)
           k == Len(q)
           f == OpenOf(q, row)
           g == OpenOf(p, row)
<1>1. /\ p \in Seq(LotType) /\ DOMAIN p = 1 .. k + 1 /\ DOMAIN q = 1 .. k /\ k \in Nat
      /\ p[k + 1] = l /\ \A i \in 1 .. k : p[i] = q[i]
  OBVIOUS
<1>2. (\A i \in 1 .. k : q[i].qty \in Int) /\ l.qty \in Int
  <2>1. \A i \in 1 .. k : q[i] \in LotType
    BY <1>1
  <2> QED
    BY <2>1 DEF LotType
<1> HIDE DEF p, k
<1>3. /\ DOMAIN f = 1 .. k /\ DOMAIN g = 1 .. k + 1 /\ k + 1 \in 1 .. k + 1
      /\ \A i \in 1 .. k : f[i] \in Int /\ g[i] = f[i]
      /\ g[k + 1] \in Int /\ g[k + 1] = IF l.row = row THEN l.qty ELSE 0
  BY <1>1, <1>2 DEF OpenOf
<1> HIDE DEF f, g
<1>4. Total(g) = Total(f) + g[k + 1]
  BY <1>1, <1>3, TotalAppended
<1> QED
  BY <1>3, <1>4 DEF f, g, p

(* A row on the side of the queue opens what is left of it.                 *)
LEMMA PlaceExtend ==
  ASSUME QueueInv, PlaceInv, Extend
  PROVE  PlaceInv' /\ Promise!Next
<1> DEFINE n == Len(rows)
           m == rows[n].amount
           s == Sign(remaining)
           new == Lot(n, remaining, rows[n].rate, rows[n].date)
<1>1. /\ remaining # 0 /\ remaining' = 0 /\ lots' = Append(lots, new) /\ Extends
      /\ UNCHANGED <<rows, taxable, nonTaxable>>
  BY DEF Extend, PushBack
<1>2. /\ n \in Nat /\ n >= 1 /\ remaining \in Int /\ m \in Int /\ m # 0 /\ s = Sign(m)
      /\ lots \in Seq(LotType) /\ Len(lots) \in Nat /\ DOMAIN lots = 1 .. Len(lots)
      /\ \A i : Total(OpenOf(lots, i)) \in Int
      /\ \A i : LastUnits(i) \in Nat
      /\ \A i : StillOpen(i) = Total(OpenOf(lots, i)) - s * LastUnits(i)
  BY <1>1, Placing
<1>3. \A i \in DOMAIN lots : /\ lots[i].row \in 1 .. n - 1
                             /\ lots[i].qty \in Int /\ lots[i].qty # 0
  BY <1>1, Placing
<1>4. new \in LotType /\ new.row = n /\ new.qty = remaining
  <2>1. rows \in Seq(RowType) /\ rows # <<>>
    BY <1>1 DEF QueueInv, FxTypes, QueueInOrder, OneSide
  <2>2. rows[n] \in RowType
    BY <2>1
  <2> QED
    BY <1>2, <2>2 DEF Lot, LotType, RowType
<1> HIDE DEF new
<1>5. /\ DOMAIN lots' = 1 .. Len(lots) + 1 /\ lots'[Len(lots) + 1] = new
      /\ \A i \in 1 .. Len(lots) : lots'[i] = lots[i]
  BY <1>1, <1>2, <1>4
<1>6. Realized' = Realized /\ \A i : LastUnits(i)' = LastUnits(i)
  BY <1>1 DEF Realized, LastUnits
<1>7. PlaceInv'
  <2>1. TakenSoFar'
    BY <1>1, <1>6 DEF PlaceInv, TakenSoFar, LastBy
  <2>2. Shown'
    BY <1>1, <1>2, <1>3, <1>4, <1>5 DEF PlaceInv, Shown
  <2>3. UnderWay'
    BY <1>1 DEF UnderWay
  <2> QED
    BY <2>1, <2>2, <2>3 DEF PlaceInv
<1> DEFINE taken == [i \in 1 .. n - 1 |-> LastUnits(i)]
           before == [i \in 1 .. n - 1 |-> StillOpen(i)]
           after == [i \in 1 .. n |-> Total(OpenOf(lots', i))]
<1>8. \A i : /\ i # n => Total(OpenOf(lots', i)) = Total(OpenOf(lots, i))
             /\ i = n => Total(OpenOf(lots', i)) = remaining
  <2> TAKE i
  <2>1. Total(OpenOf(lots', i)) = Total(OpenOf(lots, i)) + (IF n = i THEN remaining ELSE 0)
    BY <1>1, <1>2, <1>4, OneMoreOpen
  <2>2. Total(OpenOf(lots, n)) = 0
    BY <1>1, <1>2, <1>3, Placing
  <2> QED
    BY <1>2, <2>1, <2>2
<1>9. s = 1 \/ s = -1
  BY DEF Sign
<1>10. /\ taken \in [1 .. n - 1 -> Nat] /\ before \in [1 .. n - 1 -> Int]
       /\ after \in [1 .. n -> Int]
  <2>1. \A i : StillOpen(i) \in Int
    BY <1>2, <1>9
  <2>2. \A i : Total(OpenOf(lots', i)) \in Int
    BY <1>2, <1>8
  <2> QED
    BY <1>2, <2>1, <2>2
<1>11. Total(taken) = Magnitude(m) - Magnitude(remaining)
  <2>1. DOMAIN taken = 1 .. n - 1 /\ taken = LastOf
    BY DEF LastOf
  <2> HIDE DEF taken
  <2> QED
    BY <1>1, <2>1 DEF PlaceInv, UnderWay, Total
<1>12. /\ \A i \in 1 .. n - 1 : /\ taken[i] = LastUnits(i) /\ before[i] = StillOpen(i)
                                /\ after[i] = Total(OpenOf(lots, i))
       /\ \A i \in 1 .. n : after[i] = Total(OpenOf(lots', i))
       /\ after[n] = remaining
  BY <1>2, <1>8
<1> HIDE DEF taken, before, after, s, n, m
<1>13. ASSUME NEW i \in 1 .. n - 1
       PROVE  /\ after[i] = before[i] + s * taken[i]
              /\ taken[i] > 0 => after[i] = 0
              /\ \A j \in 1 .. n - 1 : i < j /\ taken[j] > 0 => after[i] = 0
              /\ Sign(before[i]) # s => after[i] = 0
  <2>1. /\ taken[i] = LastUnits(i) /\ after[i] = Total(OpenOf(lots, i))
        /\ before[i] = Total(OpenOf(lots, i)) - s * LastUnits(i)
        /\ taken[i] \in Nat /\ after[i] \in Int /\ i \in Int
    BY <1>2, <1>12
  <2>2. after[i] = before[i] + s * taken[i]
    BY <1>9, <2>1
  <2>3. \A j \in 1 .. n - 1 : (i <= j /\ taken[j] > 0) => after[i] = 0
    <3> SUFFICES ASSUME NEW j \in 1 .. n - 1, i <= j, taken[j] > 0
                 PROVE  after[i] = 0
      OBVIOUS
    <3>1. \A k \in DOMAIN lots : j < lots[k].row
      BY <1>1, <1>12, Placing DEF n
    <3>2. \A k \in DOMAIN lots : lots[k].row # i
      BY <1>2, <1>3, <2>1, <3>1
    <3> QED
      BY <1>1, <2>1, <3>2, Placing
  <2>4. taken[i] > 0 => after[i] = 0
    BY <2>1, <2>3
  <2>5. ASSUME after[i] # 0
        PROVE  Sign(before[i]) = s
    <3>1. taken[i] = 0 /\ before[i] = after[i]
      BY <1>9, <2>1, <2>4, <2>5
    <3>2. PICK k \in DOMAIN lots : lots[k].row = i
      BY <1>1, <2>1, <2>5, Placing
    <3>3. after[i] = lots[k].qty
      BY <1>1, <1>2, <2>1, <3>2, LotOfRow, Placing
    <3>4. 1 \in DOMAIN lots /\ lots # <<>>
      BY <1>2, <3>2
    <3>5. Sign(lots[1].qty) = s /\ (lots[k].qty > 0 <=> lots[1].qty > 0)
      BY <1>1, <3>2, <3>4 DEF Extends, QueueInv, QueueInOrder, OneSide, s
    <3>6. Sign(lots[k].qty) = Sign(lots[1].qty)
      BY <1>3, <3>2, <3>4, <3>5 DEF Sign
    <3> QED
      BY <3>1, <3>3, <3>5, <3>6
  <2> QED
    BY <2>2, <2>3, <2>4, <2>5
<1>14. Magnitude(remaining) \in Nat /\ Magnitude(remaining) # 0 /\ Magnitude(m) \in Nat
         /\ remaining = s * Magnitude(remaining) /\ m = s * Magnitude(m)
  BY <1>1, <1>2 DEF Magnitude, Sign, s
<1>15. InOrder(n - 1, m, taken, before, after)
  <2>1. SumFunctionOnSet(taken, 1 .. n - 1) = Total(taken)
    BY <1>10 DEF Total
  <2>2. SumFunctionOnSet(taken, 1 .. n - 1) < Magnitude(m)
    BY <1>11, <1>14, <2>1
  <2> QED
    BY <1>2, <1>13, <2>2 DEF InOrder
<1>16. after[n] = m - Sign(m) * Total(taken)
  BY <1>2, <1>9, <1>11, <1>12, <1>14
<1>17. /\ Realized \subseteq Realized' /\ \A r \in Realized' \ Realized : r.by = Len(rows)
       /\ \A r \in Realized' : r.by = Len(rows) =>
            /\ r.of \in 1 .. Len(rows) - 1 /\ LastUnits(r.of)' > 0
            /\ r.units = LastUnits(r.of)'
       /\ \A i \in 1 .. Len(rows) - 1 :
            LastUnits(i)' > 0 => \E r \in Realized' : r.by = Len(rows) /\ r.of = i
  <2>1. \A r \in Realized : r.by = Len(rows) =>
          r.of \in 1 .. Len(rows) - 1 /\ r.units > 0 /\ r.units = LastUnits(r.of)
    BY DEF PlaceInv, TakenSoFar, LastBy
  <2>2. \A i : LastUnits(i) > 0 => \E r \in Realized : r.by = Len(rows) /\ r.of = i
    BY <1>1, Placing DEF LastBy
  <2> QED
    BY <1>6, <2>1, <2>2
<1>18. m = rows[Len(rows)].amount /\ n = Len(rows)
  BY DEF m, n
<1>19. /\ QueueInv /\ PlaceInv /\ UNCHANGED rows /\ remaining # 0 /\ remaining' = 0
       /\ taken \in [1 .. Len(rows) - 1 -> Nat] /\ before \in [1 .. Len(rows) - 1 -> Int]
       /\ after \in [1 .. Len(rows) -> Int]
       /\ \A i \in 1 .. Len(rows) - 1 : taken[i] = LastUnits(i)' /\ before[i] = StillOpen(i)
       /\ \A i \in 1 .. Len(rows) : after[i] = Total(OpenOf(lots', i))
       /\ InOrder(Len(rows) - 1, m, taken, before, after)
       /\ after[Len(rows)] = m - Sign(m) * Total(taken)
  BY <1>1, <1>6, <1>10, <1>12, <1>15, <1>16, <1>18
<1>20. Promise!Next
  BY ONLY ZenonT(30), <1>17, <1>18, <1>19, Finishes
<1> QED
  BY <1>7, <1>20

(* The portions of one row: those before its last say nothing, the last one *)
(* says what all of them took.                                              *)
LEMMA PlaceConsume ==
  ASSUME QueueInv, PlaceInv, Consume
  PROVE  PlaceInv' /\ (Promise!Next \/ UNCHANGED Promise!vars)
<1> DEFINE n == Len(rows)
           m == rows[n].amount
           s == Sign(remaining)
           a == lots[1].row
           q == lots[1].qty
           P == Portion
<1>1. /\ remaining # 0 /\ ~Extends /\ lots # <<>> /\ lots' = Left
      /\ remaining' = remaining - s * P
      /\ UNCHANGED rows
      /\ FxTypes /\ OneSide /\ QueueInOrder
  BY DEF Consume, Extends, QueueInv, QueueInOrder
<1>2. /\ n \in Nat /\ n >= 1 /\ remaining \in Int /\ m \in Int /\ m # 0 /\ s = Sign(m)
      /\ lots \in Seq(LotType) /\ Len(lots) \in Nat /\ DOMAIN lots = 1 .. Len(lots)
      /\ \A i : Total(OpenOf(lots, i)) \in Int
      /\ \A i : LastUnits(i) \in Nat
      /\ \A i : StillOpen(i) = Total(OpenOf(lots, i)) - s * LastUnits(i)
      /\ \A r \in Realized : r.by \in Nat /\ r.by <= n
  BY <1>1, Placing
<1>3. /\ \A i \in DOMAIN lots : /\ lots[i].row \in 1 .. n - 1
                                /\ lots[i].qty \in Int /\ lots[i].qty # 0
      /\ \A i, j \in DOMAIN lots : i < j => lots[i].row < lots[j].row
      /\ 1 \in DOMAIN lots
  BY <1>1, <1>2, Placing
<1>4. a \in 1 .. n - 1 /\ q \in Int /\ q # 0 /\ \A k \in DOMAIN lots : a <= lots[k].row
  BY <1>2, <1>3
<1>5. /\ P \in Nat /\ P > 0 /\ P = Least(Magnitude(q), Magnitude(remaining))
      /\ Sign(q) = -s /\ (s = 1 \/ s = -1)
      /\ Magnitude(q) \in Nat /\ q = Sign(q) * Magnitude(q)
      /\ Magnitude(remaining) \in Nat /\ remaining = s * Magnitude(remaining)
      /\ Magnitude(m) \in Nat /\ m = s * Magnitude(m)
  <2>1. Sign(q) # s
    BY <1>1 DEF Extends
  <2>2. (s = 1 \/ s = -1) /\ Sign(q) = -s
    BY <2>1 DEF Sign
  <2>3. /\ Magnitude(q) \in Nat /\ q = Sign(q) * Magnitude(q) /\ Magnitude(q) > 0
        /\ Magnitude(remaining) \in Nat /\ remaining = s * Magnitude(remaining)
        /\ Magnitude(remaining) > 0
        /\ Magnitude(m) \in Nat /\ m = s * Magnitude(m)
    BY SMTT(20), <1>1, <1>2, <1>4 DEF Magnitude, Sign
  <2>4. P = Least(Magnitude(q), Magnitude(remaining))
    BY DEF Portion
  <2> QED
    BY <2>2, <2>3, <2>4 DEF Least
<1>6. PICK r \in RealizedType :
        /\ r.by = n /\ r.of = a /\ r.units = P
        /\ Realized' = Realized \cup {r}
        /\ \A row : LastUnits(row)' = LastUnits(row) + (IF row = a THEN P ELSE 0)
  BY Closes
<1>7. \A k \in LastBy : k.of < a /\ k.of \in 1 .. n - 1 /\ k.units > 0
                          /\ k.units = LastUnits(k.of)
  BY <1>1, <1>3 DEF PlaceInv, UnderWay, TakenSoFar
<1>8. LastUnits(a) = 0 /\ LastBy' = LastBy \cup {r}
  <2>1. \A k \in LastBy : k.of # a
    BY <1>4, <1>7
  <2>2. LastUnits(a) = 0
    BY <1>1, <2>1, LastIs DEF PlaceInv
  <2> QED
    BY <1>1, <1>6, <2>2 DEF LastBy
<1>9. /\ \A i : i # a => LastUnits(i)' = LastUnits(i)
      /\ \A i : i = a => LastUnits(i)' = P
  <2> HIDE DEF P, a
  <2> QED
    BY <1>2, <1>5, <1>6, <1>8
<1>10. \A i : /\ i # a => Total(OpenOf(lots', i)) = Total(OpenOf(lots, i))
              /\ i = a => Total(OpenOf(lots', i)) = q + s * P
  <2> TAKE i
  <2>1. Total(OpenOf(lots', i))
          = Total(OpenOf(lots, i)) - (IF i = a THEN Sign(q) * P ELSE 0)
    BY <1>1, LeftOpen
  <2>2. Total(OpenOf(lots, a)) = q
    BY <1>2, <1>3, LotOfRow
  <2>3. Sign(q) * P = -(s * P) /\ s * P \in Int
    <3> HIDE DEF s, P, q
    <3> QED
      BY <1>5
  <2> DEFINE sp == s * P
             sq == Sign(q) * P
  <2>4. /\ sp \in Int /\ sq = -sp /\ q \in Int
        /\ Total(OpenOf(lots', i)) = Total(OpenOf(lots, i)) - (IF i = a THEN sq ELSE 0)
    BY <1>4, <2>1, <2>3
  <2> HIDE DEF sp, sq, q, a
  <2>5. /\ i # a => Total(OpenOf(lots', i)) = Total(OpenOf(lots, i))
        /\ i = a => Total(OpenOf(lots', i)) = q + sp
    BY <1>2, <2>2, <2>4
  <2> QED
    BY <2>5 DEF sp, q, a
<1>11. /\ q + s * P = 0 \/ Sign(q + s * P) = -s
       /\ remaining' # 0 => q + s * P = 0 /\ Sign(remaining') = s
       /\ Magnitude(remaining') = Magnitude(remaining) - P
       /\ remaining' = 0 => P = Magnitude(remaining)
  <2> HIDE DEF n, m, s, a, q, P
  <2>1. CASE s = 1
    <3>1. /\ q = -Magnitude(q) /\ remaining = Magnitude(remaining) /\ s * P = P
          /\ P <= Magnitude(q) /\ P <= Magnitude(remaining)
          /\ P = Magnitude(q) \/ P = Magnitude(remaining)
      BY <1>5, <2>1 DEF Least
    <3>2. remaining' = remaining - P
      BY <1>1, <3>1
    <3> QED
      BY <1>2, <1>4, <1>5, <2>1, <3>1, <3>2 DEF Sign, Magnitude
  <2>2. CASE s = -1
    <3>1. /\ q = Magnitude(q) /\ remaining = -Magnitude(remaining) /\ s * P = -P
          /\ P <= Magnitude(q) /\ P <= Magnitude(remaining)
          /\ P = Magnitude(q) \/ P = Magnitude(remaining)
      BY <1>5, <2>2 DEF Least
    <3>2. remaining' = remaining + P
      BY <1>1, <1>2, <1>5, <3>1
    <3> QED
      BY <1>2, <1>4, <1>5, <2>2, <3>1, <3>2 DEF Sign, Magnitude
  <2> QED
    BY <1>5, <2>1, <2>2
<1>12. TakenSoFar'
  <2>1. \A k \in Realized' : k.by <= n
    BY <1>2, <1>6
  <2>2. \A k \in LastBy' :
          k.of \in 1 .. n - 1 /\ k.units > 0 /\ k.units = LastUnits(k.of)'
    BY <1>4, <1>5, <1>6, <1>7, <1>8, <1>9
  <2> QED
    BY <1>1, <2>1, <2>2 DEF TakenSoFar
<1>13. Shown'
  <2>1. \A i \in DOMAIN lots' : lots'[i].row >= 1
    <3>1. Left \in Seq(LotType)
      BY <1>1, LeftOver
    <3>2. DOMAIN Left = 1 .. Len(Left) /\ Len(Left) \in Nat
      BY <3>1
    <3>3. \/ Len(Left) = Len(lots) - 1 /\ \A i \in 1 .. Len(Left) : Left[i] = lots[i + 1]
          \/ Len(Left) = Len(lots) /\ \A i \in 1 .. Len(Left) : Left[i].row = lots[i].row
      BY <1>1, LeftOver
    <3>4. \A i \in DOMAIN lots : lots[i].row >= 1
      BY <1>2, <1>3
    <3> TAKE i \in DOMAIN lots'
    <3>5. i \in 1 .. Len(Left)
      BY <1>1, <3>2
    <3>6. \/ i + 1 \in DOMAIN lots /\ Left[i].row = lots[i + 1].row
          \/ i \in DOMAIN lots /\ Left[i].row = lots[i].row
      <4> DEFINE k == Len(lots)
                 l == Len(Left)
      <4>1. k \in Nat /\ l \in Nat /\ i \in Int /\ i >= 1 /\ i <= l /\ DOMAIN lots = 1 .. k
        BY <1>2, <3>2, <3>5
      <4>2. CASE l = k - 1 /\ \A j \in 1 .. l : Left[j] = lots[j + 1]
        <5>1. Left[i] = lots[i + 1] /\ i + 1 \in 1 .. k
          BY <3>5, <4>1, <4>2
        <5> QED
          BY <4>1, <5>1
      <4>3. CASE l = k /\ \A j \in 1 .. l : Left[j].row = lots[j].row
        BY <3>5, <4>1, <4>3
      <4> QED
        BY <3>3, <4>2, <4>3
    <3> QED
      BY <1>1, <3>4, <3>6
  <2> QED
    BY <1>1, <2>1 DEF PlaceInv, Shown
<1>14. SumFunctionOnSet(LastOf', 1 .. n - 1) = Magnitude(m) - Magnitude(remaining')
  <2> DEFINE f == [i \in 1 .. n - 1 |-> LastUnits(i)]
             g == [i \in 1 .. n - 1 |-> LastUnits(i)']
             S == 1 .. n - 1
  <2>1. LastOf = f /\ LastOf' = g
    BY <1>1 DEF LastOf
  <2>2. IsFiniteSet(S) /\ a \in S /\ (\A i \in S : f[i] \in Int) /\ f[a] = 0 /\ g[a] = P
        /\ P \in Int /\ \A i \in S \ {a} : g[i] = f[i]
    <3>1. IsFiniteSet(S) /\ a \in S
      <4>1. n - 1 \in Int /\ 1 \in Int
        BY <1>2
      <4>2. IsFiniteSet(1 .. n - 1)
        BY <4>1, FS_Interval
      <4> QED
        BY <1>4, <4>2
    <3>2. \A i \in S : f[i] = LastUnits(i) /\ g[i] = LastUnits(i)'
      OBVIOUS
    <3> HIDE DEF f, g, S, n, a, P
    <3> QED
      BY <1>2, <1>5, <1>8, <1>9, <3>1, <3>2
  <2>3. SumFunctionOnSet(f, S) = Magnitude(m) - Magnitude(remaining)
    BY <1>1, <2>1 DEF PlaceInv, UnderWay
  <2> HIDE DEF f, g, S, n, m, a, P
  <2>4. Summable(f, S)
    BY <2>2 DEF Summable
  <2>5. SumFunctionOnSet(g, S) = SumFunctionOnSet(f, S) - f[a] + g[a]
    BY ONLY <2>2, <2>4, SumChange
  <2> QED
    BY <1>5, <1>11, <2>1, <2>2, <2>3, <2>5 DEF S
<1>15. remaining' # 0 => \A k \in LastBy' : \A i \in DOMAIN lots' : k.of < lots'[i].row
  <2> SUFFICES ASSUME remaining' # 0, NEW k \in LastBy', NEW i \in DOMAIN lots'
               PROVE  k.of < lots'[i].row
    OBVIOUS
  <2>1. k.of <= a /\ k.of \in Int
    BY <1>4, <1>6, <1>7, <1>8
  <2>2. q - Sign(q) * P = 0
    BY <1>4, <1>5, <1>11
  <2>3. Left \in Seq(LotType) /\ Len(Left) = Len(lots) - 1
          /\ \A j \in 1 .. Len(Left) : Left[j] = lots[j + 1]
    <3>1. Left \in Seq(LotType)
      BY <1>1, LeftOver
    <3>2. CASE Len(Left) = Len(lots) /\ Left[1].qty = q - Sign(q) * P
               /\ \A j \in 1 .. Len(Left) : Left[j].qty # 0
      BY <1>2, <1>3, <2>2, <3>2
    <3> QED
      BY <1>1, <3>1, <3>2, LeftOver
  <2>4. i \in 1 .. Len(lots) - 1 /\ lots'[i] = lots[i + 1]
    BY <1>1, <2>3
  <2>5. a < lots[i + 1].row
    BY SMTT(20), <1>2, <1>3, <2>4
  <2> QED
    BY SMTT(20), <1>2, <1>3, <1>4, <2>1, <2>4, <2>5
<1>16. PlaceInv'
  BY <1>1, <1>12, <1>13, <1>14, <1>15 DEF PlaceInv, UnderWay
<1>17. CASE remaining' # 0
  <2>1. Placed = n - 1 /\ Placed' = n - 1
    BY <1>1, <1>17 DEF Placed
  <2>2. \A i : StillOpen(i)' = StillOpen(i)
    <3> TAKE i
    <3>1. StillOpen(i)' = Total(OpenOf(lots', i)) - s * LastUnits(i)'
      BY <1>11, <1>17, OpenNext
    <3>2. CASE i # a
      BY <1>2, <1>9, <1>10, <3>1, <3>2
    <3>3. CASE i = a
      <4>1. Total(OpenOf(lots, a)) = q
        BY <1>2, <1>3, LotOfRow
      <4>2. StillOpen(a) = q - s * 0
        BY <1>2, <1>8, <4>1
      <4>3. StillOpen(i)' = (q + s * P) - s * P
        <5> HIDE DEF s, P, q, a
        <5> QED
          BY <1>9, <1>10, <3>1, <3>3
      <4> HIDE DEF s, P, q, a
      <4> QED
        BY <1>4, <1>5, <3>3, <4>2, <4>3
    <3> QED
      BY <3>2, <3>3
  <2>3. {k \in Realized' : k.by <= n - 1} = {k \in Realized : k.by <= n - 1}
    BY <1>2, <1>6
  <2> QED
    BY <1>1, <1>16, <2>1, <2>2, <2>3, Nothing
<1>18. CASE remaining' = 0
  <2> DEFINE taken == [i \in 1 .. n - 1 |-> LastUnits(i)']
             before == [i \in 1 .. n - 1 |-> StillOpen(i)]
             after == [i \in 1 .. n |-> Total(OpenOf(lots', i))]
  <2>1. /\ taken \in [1 .. n - 1 -> Nat] /\ before \in [1 .. n - 1 -> Int]
        /\ after \in [1 .. n -> Int]
    <3> HIDE DEF n, m, a, s, P, q
    <3>1. \A i : LastUnits(i)' \in Nat
      BY <1>2, <1>5, <1>9
    <3>2. s * P \in Int /\ \A i : s * LastUnits(i) \in Int
      BY <1>2, <1>5
    <3>3. \A i : StillOpen(i) \in Int
      BY <1>2, <3>2
    <3>4. \A i : Total(OpenOf(lots', i)) \in Int
      BY <1>2, <1>4, <1>10, <3>2
    <3> QED
      BY <1>2, <3>1, <3>3, <3>4
  <2>2. Total(taken) = Magnitude(m)
    <3>1. DOMAIN taken = 1 .. n - 1 /\ taken = LastOf'
      BY <1>1 DEF LastOf
    <3> HIDE DEF taken
    <3>2. Magnitude(remaining') = 0
      BY <1>18 DEF Magnitude
    <3> QED
      BY <1>5, <1>14, <3>1, <3>2 DEF Total
  <2>3. /\ \A i \in 1 .. n - 1 : taken[i] = LastUnits(i)' /\ before[i] = StillOpen(i)
        /\ \A i \in 1 .. n : after[i] = Total(OpenOf(lots', i))
    OBVIOUS
  <2> HIDE DEF taken, before, after
  <2>4. \A i \in 1 .. n : (\A k \in DOMAIN lots : lots[k].row # i) => i # a /\ after[i] = 0
    <3> SUFFICES ASSUME NEW i \in 1 .. n, \A k \in DOMAIN lots : lots[k].row # i
                 PROVE  i # a /\ after[i] = 0
      OBVIOUS
    <3>1. i # a
      BY <1>3
    <3>2. Total(OpenOf(lots, i)) = 0
      BY <1>1, Placing
    <3> QED
      BY <1>10, <2>3, <3>1, <3>2
  <2>5. ASSUME NEW i \in 1 .. n - 1, taken[i] > 0
        PROVE  i = a \/ (i < a /\ \A k \in DOMAIN lots : i < lots[k].row)
    <3>1. CASE i # a
      <4>1. LastUnits(i) > 0
        BY <1>9, <2>3, <2>5, <3>1
      <4> QED
        BY <1>1, <1>3, <4>1, Placing
    <3> QED
      BY <3>1
  <2>6. ASSUME NEW i \in 1 .. n - 1
        PROVE  after[i] = before[i] + s * taken[i]
    <3>1. i \in 1 .. n
      BY <1>2
    <3>2. CASE i # a
      <4>1. /\ after[i] = Total(OpenOf(lots, i)) /\ taken[i] = LastUnits(i)
            /\ before[i] = Total(OpenOf(lots, i)) - s * LastUnits(i)
        BY <1>2, <1>9, <1>10, <2>3, <3>1, <3>2
      <4> HIDE DEF s
      <4> QED
        BY SMTT(20), <1>2, <1>5, <4>1
    <3>3. CASE i = a
      <4>1. Total(OpenOf(lots, a)) = q
        BY <1>2, <1>3, LotOfRow
      <4>2. before[i] = q - s * 0 /\ after[i] = q + s * P /\ taken[i] = P
        <5> HIDE DEF s, P, q, a, n
        <5> QED
          BY <1>2, <1>8, <1>9, <1>10, <2>3, <3>1, <3>3, <4>1
      <4> HIDE DEF s, P, q, a
      <4> QED
        BY <1>4, <1>5, <4>2
    <3> QED
      BY <3>2, <3>3
  <2>7. ASSUME NEW i \in 1 .. n - 1, taken[i] > 0
        PROVE  after[i] = 0 \/ Sign(after[i]) # s
    <3>1. i \in 1 .. n
      BY <1>2
    <3>2. CASE i = a
      <4>1. after[i] = q + s * P
        BY <1>10, <2>3, <3>1, <3>2
      <4> HIDE DEF s, P, q, a
      <4> QED
        BY <1>5, <1>11, <4>1
    <3>3. CASE \A k \in DOMAIN lots : i < lots[k].row
      <4>1. \A k \in DOMAIN lots : lots[k].row # i
        BY <1>2, <1>3, <3>3
      <4> QED
        BY <2>4, <3>1, <4>1
    <3> QED
      BY <2>5, <2>7, <3>2, <3>3
  <2>8. ASSUME NEW i \in 1 .. n - 1, NEW j \in 1 .. n - 1, i < j, taken[j] > 0
        PROVE  after[i] = 0
    <3>1. i < a
      BY SMTT(20), <1>2, <1>4, <2>5, <2>8
    <3>2. \A k \in DOMAIN lots : lots[k].row # i
      BY <1>2, <1>3, <1>4, <3>1
    <3> QED
      BY <1>2, <2>4, <3>2
  <2>9. InOrder(n - 1, m, taken, before, after)
    <3>1. SumFunctionOnSet(taken, 1 .. n - 1) = Magnitude(m)
      BY <2>1, <2>2 DEF Total
    <3>2. Sign(m) = s
      BY <1>2
    <3> HIDE DEF n, m, s
    <3> QED
      BY <2>6, <2>7, <2>8, <3>1, <3>2 DEF InOrder
  <2>10. after[n] = m - Sign(m) * Total(taken)
    <3>1. n \in 1 .. n /\ \A k \in DOMAIN lots : lots[k].row # n
      BY <1>2, <1>3
    <3>2. after[n] = 0 /\ Sign(m) = s
      BY <1>2, <2>4, <3>1
    <3> HIDE DEF n, m, s
    <3> QED
      BY <1>2, <1>5, <2>2, <3>2
  <2>11. /\ Realized \subseteq Realized' /\ \A k \in Realized' \ Realized : k.by = n
         /\ \A k \in Realized' : k.by = n =>
              /\ k.of \in 1 .. n - 1 /\ LastUnits(k.of)' > 0 /\ k.units = LastUnits(k.of)'
    BY <1>1, <1>6, <1>12 DEF TakenSoFar, LastBy
  <2>12. \A i \in 1 .. n - 1 : LastUnits(i)' > 0 => \E k \in Realized' : k.by = n /\ k.of = i
    <3> TAKE i \in 1 .. n - 1
    <3>1. CASE i = a
      BY <1>6, <3>1
    <3>2. CASE i # a
      <4>1. LastUnits(i) > 0 => \E k \in LastBy : k.of = i
        BY <1>1, Placing
      <4> QED
        BY <1>6, <1>9, <3>2, <4>1 DEF LastBy
    <3> QED
      BY <3>1, <3>2
  <2>13. /\ QueueInv /\ PlaceInv /\ UNCHANGED rows /\ remaining # 0 /\ remaining' = 0
         /\ m = rows[Len(rows)].amount
    BY <1>1, <1>18
  <2>14. Promise!Next
    BY ONLY ZenonT(30), <2>1, <2>3, <2>9, <2>10, <2>11, <2>12, <2>13, Finishes
  <2> QED
    BY <1>16, <2>14
<1> QED
  BY <1>17, <1>18

(* Every step, the steps of the return among them.                          *)
LEMMA PlaceStep ==
  ASSUME FxAssumption, QueueInv, PlaceInv, [Next]_vars
  PROVE  PlaceInv' /\ [Promise!Next]_(Promise!vars)
<1> USE DEF fxVars
<1>1. CASE UNCHANGED vars
  BY <1>1, PlaceUntouched DEF vars
<1>2. CASE \E amount \in Amounts : LoseRow(amount)
  BY <1>2, PlaceUntouched DEF LoseRow
<1>3. CASE \E amount \in Amounts, rate \in Rates : ReadRow(amount, rate)
  BY <1>3, PlaceRead
<1>4. CASE Extend
  BY <1>4, PlaceExtend
<1>5. CASE Consume
  BY <1>5, PlaceConsume
<1>6. CASE \E event : Book(event)
  BY <1>6, PlaceUntouched DEF Book
<1>7. CASE Pass
  BY <1>7, PlaceUntouched DEF Pass
<1>8. CASE File
  BY <1>8, PlaceUntouched DEF File
<1> QED
  BY <1>1, <1>2, <1>3, <1>4, <1>5, <1>6, <1>7, <1>8
     DEF Next, Place, Buy, Sell, PayDividend, PayInterest

(***************************************************************************)
(* compute_fx_fifo() keeps the promise of docs/germany-taxes.md, whatever  *)
(* rows the export has: cut into portions, a row closes the oldest units   *)
(* of the other side as far as it reaches and opens only the rest, as if   *)
(* it had done so in one step.                                             *)
(***************************************************************************)
THEOREM PromiseIsKept == Spec => PromiseKept
<1>1. Init => QueueInv /\ PlaceInv /\ Promise!Init
  BY QueueInit, PlaceInit, FxAssumption DEF Init
<1>2. QueueInv /\ PlaceInv /\ [Next]_vars
        => QueueInv' /\ PlaceInv' /\ [Promise!Next]_(Promise!vars)
  BY QueueStep, PlaceStep, FxAssumption
<1> QED
  BY <1>1, <1>2, PTL DEF Spec, PromiseKept, Promise!Spec

=============================================================================
