---------------------------- MODULE MCPageFetch ----------------------------
(* Small instances of PageFetch for TLC.                                   *)
EXTENDS PageFetch

IndexSymmetry == Permutations(IndexKey)
=============================================================================
