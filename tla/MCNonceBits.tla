---------------------------- MODULE MCNonceBits -----------------------------
(* Model-checking instance of NonceBits: two bytes of two bits, and bases      *)
(* whose differences reach past the window and past the shift's modulus.       *)
EXTENDS NonceBits

\* The last base is one no answer may carry: the parser refuses it.
MCReports ==
  {[base |-> b, used |-> {}] : b \in {0, 1, 6, 8}}
    \cup {[base |-> 0, used |-> {2, 4}], [base |-> 0, used |-> {3}],
          [base |-> 1, used |-> {3, 4}], [base |-> 6, used |-> {8, 9}],
          [base |-> 6, used |-> {10}]}

MCNonces == {1, 5, 7}
=============================================================================
