----------------------------- MODULE QueryPlan -----------------------------
(***************************************************************************)
(* The query plan of real-time quotes (src/src/quotes/mod.rs,              *)
(* src/src/exchanges.rs): which providers are asked for a symbol, and in   *)
(* which order.  Pure: the exchanges of a stock, the most likely first,    *)
(* are refined and every provider of every exchange is listed, so that a   *)
(* provider which serves any exchange is listed once for each.             *)
(***************************************************************************)
EXTENDS Sequences, SequencesExt

CONSTANTS
  Providers,   \* the providers, the preferred first
  Forex,       \* those which support currency pairs
  StocksOf     \* [provider -> the exchange whose stocks it supports, Any or None]

(* Exchanges::add_prioritized() and get_prioritized(): the last one added   *)
(* comes first, and only once.                                              *)
Prioritize(exchanges, e) == <<e>> \o SelectSeq(exchanges, LAMBDA x : x # e)

PrioritizeAll(exchanges, es) == FoldLeft(Prioritize, exchanges, es)

(* has_stock_provider()                                                     *)
HasStockProvider(e) == \E i \in DOMAIN Providers : StocksOf[Providers[i]] = e

(* pre_process_stock_exchanges(): an over-the-counter stock is looked for   *)
(* on all known exchanges ...                                               *)
OtcOnAll(exchanges) ==
  FoldRight(LAMBDA e, done :
              PrioritizeAll(done, IF e = "Otc"
                                  THEN <<"Moex", "Spb", "Other", "Lse", "Us", "Otc">>
                                  ELSE <<e>>),
            exchanges, <<>>)

(* ... and the SPB exchange is replaced when nobody serves it.              *)
SpbEmulated(exchanges) ==
  IF HasStockProvider("Spb") THEN exchanges
  ELSE FoldRight(LAMBDA e, done :
                   PrioritizeAll(done, IF e = "Spb"
                                       THEN <<"Moex", "Other", "Lse", "Us">>
                                       ELSE <<e>>),
                 exchanges, <<>>)

PreProcess(exchanges) ==
  LET otc == IF Contains(exchanges, "Otc") THEN OtcOnAll(exchanges) ELSE exchanges
  IN  IF Contains(otc, "Spb") THEN SpbEmulated(otc) ELSE otc

(* build_query_plan()                                                       *)
ForexRoute == SelectSeq(Providers, LAMBDA q : q \in Forex)

ServedBy(e) == SelectSeq(Providers, LAMBDA q : StocksOf[q] \in {e, "Any"})

StockRoute(exchanges) ==
  FlattenSeq([i \in DOMAIN PreProcess(exchanges) |-> ServedBy(PreProcess(exchanges)[i])])

=============================================================================
