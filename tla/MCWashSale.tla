----------------------------- MODULE MCWashSale -----------------------------
(* Values for checking WashSale with TLC.                                   *)
EXTENDS WashSale

(* One share and one loss, as often divisible as replacements divide them.  *)
Share == 5040

Shares == {Share, 2 * Share}

Results == {-1 * Share, Share}

(* A loss sold before the statement began, deferred to two shares it holds. *)
Carried == <<[buy |-> 1, shares |-> 2 * Share, loss |-> 2 * Share, origin |-> Before]>>

OneCarried == {Carried}

=============================================================================
