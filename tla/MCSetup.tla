------------------------------- MODULE MCSetup --------------------------------
(* Setup on small instances.                                               *)
EXTENDS Setup
=============================================================================
