------------------------------- MODULE MCFiles -------------------------------
(* Model-checking instance of Files: files of no, one, two full and three chunks.   *)
EXTENDS Files

MCContents == {<<>>, <<0>>, <<0, 1, 0, 1>>, <<0, 1, 0, 1, 0>>}
UploadSymmetry == Permutations(Uploads)
MCNoise == {<<>>, <<0>>, <<0, 1>>}
=============================================================================
