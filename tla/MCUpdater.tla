----------------------------- MODULE MCUpdater -----------------------------
(* Updater on small instances: see the Updater_*.cfg files.                *)
EXTENDS Updater, TLC

ThreeVersions == {<<1, 2, 0>>, <<1, 10, 0>>, <<2, 0, 3>>}

Symmetry == Permutations(Files) \cup Permutations(Tasks)
=============================================================================
