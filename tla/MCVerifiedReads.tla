--------------------------- MODULE MCVerifiedReads --------------------------
(* Model-checking instance of VerifiedReads: reads are interchangeable.       *)
EXTENDS VerifiedReads, TLC

ReaderSymmetry == Permutations(Readers)
=============================================================================
