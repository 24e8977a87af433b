--------------------------- MODULE MCSavingsBase ---------------------------
(* Values for checking SavingsBase with TLC.                                *)
EXTENDS SavingsBase

(* Every year divides by four at most once: amounts stay whole.             *)
Whole == 4 ^ MaxYear

Amount == {-2 * Whole, -1 * Whole, 0, Whole, 3 * Whole}

=============================================================================
