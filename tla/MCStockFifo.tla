---------------------------- MODULE MCStockFifo ----------------------------
(* Values for checking StockFifo with TLC.                                  *)
EXTENDS StockFifo

(* 1 -> 2 keeps the lots; 1 -> 3 has no finite inverse, 2 -> 1 is a reverse *)
(* split: both take the complex algorithm.                                  *)
AllRatios == {<<1, 2>>, <<1, 3>>, <<2, 1>>}

=============================================================================
