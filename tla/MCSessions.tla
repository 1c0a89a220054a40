------------------------------ MODULE MCSessions ------------------------------
(* Sessions on small instances.                                            *)
EXTENDS Sessions, TLC

Symmetry == Permutations(Tokens) \cup Permutations(Requests)

EastOfUTC == 1
=============================================================================
