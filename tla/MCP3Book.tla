------------------------------- MODULE MCP3Book -------------------------------
(* Two requests over two orders, at one of two prices each. *)
EXTENDS P3Book, TLC

Closes == {1, 2}
Symmetric == Permutations(Orders) \cup Permutations(Workers)
=============================================================================
