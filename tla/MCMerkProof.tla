----------------------------- MODULE MCMerkProof -----------------------------
(***************************************************************************)
(* A layer of at most four keys: an item, a subtree, a reference to an     *)
(* item and an empty subtree.                                              *)
(***************************************************************************)
EXTENDS MerkProof

CONSTANTS ItemA, Tree1, EmptyTree

MCKeys == 1 .. 4

MCEntry ==
  << [bytes |-> ItemA, reference |-> FALSE],
     [bytes |-> Tree1, reference |-> FALSE],
     [bytes |-> ItemA, reference |-> TRUE],
     [bytes |-> EmptyTree, reference |-> FALSE] >>
=============================================================================
