----------------------------- MODULE MCRuleScan -------------------------------
(* RuleScan on a small instance.                                           *)
EXTENDS RuleScan

\* Two rules, the second of which forwards from clients; assigned or not.
First  == [id |-> 1, forwards |-> FALSE]
Second == [id |-> 2, forwards |-> TRUE]
Assignments == {<<>>, <<First>>, <<Second>>, <<First, Second>>}
=============================================================================
