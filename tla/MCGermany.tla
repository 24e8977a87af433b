----------------------------- MODULE MCGermany -----------------------------
(* Values for checking GermanReturn, with FxFifo in it, with TLC.           *)
EXTENDS GermanReturn

Moves == {-3, 2}

(* 0 stands for a conversion whose two legs have no opposite signs.         *)
Prices == {0, 1, 3}

Opened == {0, 1}

ShareAndFund == [s \in Symbol |-> IF s = "fund" THEN "Equity" ELSE "None"]

(* A loss, and a gain that is in part one on shares bought before 2009.     *)
Results == {[gross |-> -20, old |-> 0], [gross |-> 30, old |-> 5]}

(* More withheld than may be credited.                                      *)
PayoutsOf == {[gross |-> 6, withheld |-> 2]}

(* Prices that rise by more than the base yield, that fall, and none.       *)
YearPrices == {[jan1 |-> 120, dec31 |-> 150], [jan1 |-> 120, dec31 |-> 100], NoNav}

TenPercent == <<1, 10>>

(* Many cash rows, many bookings, or some of either.                        *)
Combinations == {<<4, 0>>, <<2, 1>>, <<0, 3>>}

=============================================================================
