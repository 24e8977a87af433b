----------------------------- MODULE MCLoading -----------------------------
(* Values for checking Loading with TLC.                                    *)
EXTENDS Loading

(* A dividend of 3 with tax of 1 or 2, and one of 2 without.                *)
SomeTerms == {<<3, 1>>, <<3, 2>>, <<2, 0>>}

=============================================================================
