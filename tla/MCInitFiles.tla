---------------------------- MODULE MCInitFiles ----------------------------
(***************************************************************************)
(* Small instances of InitFiles.tla.                                       *)
(***************************************************************************)
EXTENDS InitFiles, TLC

Symmetry == Permutations(Runs)
=============================================================================
