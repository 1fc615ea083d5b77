--------------------------- MODULE MCScPublications ---------------------------
(* Two publications of one ticker, two administrators and a request. *)
EXTENDS ScPublications, TLC

Dates == {1, 2}
Symmetric == Permutations(Operators)
=============================================================================
