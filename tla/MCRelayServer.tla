--------------------------- MODULE MCRelayServer ---------------------------
(* Constants of the runs of RelayServer.                                   *)
EXTENDS RelayServer, TLC

AllBidirectional == [r \in RuleIds |-> "bidirectional"]

Symmetry == Permutations(Conns)
=============================================================================
