------------------------------ MODULE MCRouting ------------------------------
(* Model-checking instance of Routing.                                         *)
EXTENDS Routing, TLC
=============================================================================
