------------------------ MODULE MCLightClientStore --------------------------
(***************************************************************************)
(* One validator or two.                                                   *)
(***************************************************************************)
EXTENDS LightClientStore, TLC

CONSTANTS ValA, ValB, ValC

MCValidatorSets == {<<ValA, ValB>>, <<ValC>>}

CallerSymmetry == Permutations(Callers)
=============================================================================
