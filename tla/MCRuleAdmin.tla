----------------------------- MODULE MCRuleAdmin -----------------------------
(* RuleAdmin on small instances: see the RuleAdmin_*.cfg files.            *)
EXTENDS RuleAdmin, TLC

Symmetry == Permutations(CaptureIds) \cup Permutations(Admins)
=============================================================================
