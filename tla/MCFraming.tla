----------------------------- MODULE MCFraming ------------------------------
(* Framing for TLC; the constants are given in the configurations.         *)
EXTENDS Framing, FiniteSets
=============================================================================
