-------------------------- MODULE MCSubscriptions ---------------------------
(* Model-checking instance of Subscriptions.                                   *)
EXTENDS Subscriptions, TLC

FetchSymmetry == Permutations(Fetches)
=============================================================================
