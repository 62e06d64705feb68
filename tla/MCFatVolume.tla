---------------------------- MODULE MCFatVolume ----------------------------
(* Symmetry for FatVolume.                                                 *)
EXTENDS FatVolume, TLC

Symmetric == Permutations(Users) \cup Permutations(Files)
=============================================================================
