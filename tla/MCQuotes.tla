------------------------------ MODULE MCQuotes ------------------------------
(* Values for checking Quotes with TLC.                                     *)
EXTENDS Quotes, QueryPlan

CONSTANTS p1, p2

(* The order of Quotes::new().                                              *)
StaticTbankCbr == <<"static", "tbank", "cbr", "spb">>

Serves == [static |-> "Any", tbank |-> "None", cbr |-> "None", spb |-> "Spb"]

(* One stock is traded over the counter, one on either of two exchanges.    *)
Planned ==
  [direct |-> ForexRoute,
   BND |-> StockRoute(<<"Otc">>),
   VTI |-> StockRoute(<<"Us", "Spb">>)]

(* TLC evaluates Planned once, and the value of a constant at every use.    *)
RouteOf == Planned

=============================================================================
