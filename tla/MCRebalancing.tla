--------------------------- MODULE MCRebalancing ---------------------------
(* Values for checking Rebalancing with TLC: stocks a and b in a group,     *)
(* c beside it.  Weights are halves, so amounts are multiples of four.      *)
EXTENDS Rebalancing

Tree == [root |-> <<"core", "c">>, core |-> <<"a", "b">>]

(* Half a share of b is less than a unit of the currency.                   *)
Prices == [a |-> 40, b |-> 8, c |-> 24]

Half == <<1, 1>>

Weights(split) ==
  LET of == [root |-> split[1], core |-> split[2]]
  IN  [core |-> of.root[1], c |-> of.root[2], a |-> of.core[1], b |-> of.core[2]]

Splits == {<<1, 1>>, <<2, 0>>, <<0, 2>>}

(* [restrict_buying, restrict_selling], unset where a node is not named.    *)
NoOption == [n \in {} |-> FALSE]

Settings ==
  {<<NoOption, NoOption>>,
   <<[core |-> TRUE], [c |-> TRUE]>>,
   <<[root |-> TRUE, a |-> FALSE], [b |-> TRUE]>>}

Configured(held, splits, options, fractions, minimums, reserves, deposits) ==
  {[shares |-> h, weight |-> Weights(w), noBuying |-> o[1], noSelling |-> o[2],
    fractional |-> f, minTrade |-> m, reserve |-> r, cash |-> d] :
     h \in held, w \in splits, o \in options, f \in fractions, m \in minimums,
     r \in reserves, d \in deposits}

Held3 == [{"a", "b", "c"} -> {0, 3, 4}]

ManyPortfolios ==
  Configured(Held3, Splits \X Splits, Settings, BOOLEAN, {0, 24}, {0, 24, 108}, {0, 60})

(* Buying is restricted in the group, and selling of one of its stocks.     *)
DeprecatedPortfolios ==
  Configured(Held3, Splits \X Splits, {<<[core |-> TRUE], [b |-> TRUE]>>},
             {FALSE}, {0}, {0}, {60})

=============================================================================
