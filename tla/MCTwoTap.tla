------------------------------- MODULE MCTwoTap -------------------------------
(* Constants for model checking TwoTap. *)
EXTENDS TwoTap, TLC

Symmetric == Permutations(Relays) \cup Permutations(Rows)

=============================================================================
