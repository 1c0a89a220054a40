----------------------------- MODULE MCClient ------------------------------
(* Client on a small instance: see Client_life.cfg.                        *)
EXTENDS Client, TLC
=============================================================================
