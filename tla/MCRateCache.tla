---------------------------- MODULE MCRateCache ----------------------------
(* Values for checking RateCache with TLC.                                  *)
EXTENDS RateCache, TLC

CONSTANTS p1, p2

(* The Central Bank of Russia publishes a day ahead, the ECB on the day.    *)
AheadOf == [b \in Bank |-> IF b = "Cbr" THEN 1 ELSE 0]

AllCbr == [p \in Proc |-> "Cbr"]

Cross == {<<"USD", "EUR">>, <<"Base", "USD">>}

(* Runs overlap when one currency is quoted, with a holiday or late; with    *)
(* two currencies they follow one another.                                  *)
Overlapping == {{<<"USD", 1>>, <<"USD", 3>>}}

Overlap ==
  [quoted \in SUBSET (Currency \X Date) |-> IF quoted \in Overlapping THEN 2 ELSE 1]

Symmetry == Permutations(Proc)

=============================================================================
