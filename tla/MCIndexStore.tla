---------------------------- MODULE MCIndexStore ----------------------------
(* Small instances of IndexStore for TLC.                                  *)
EXTENDS IndexStore, TLC

MCStrip == [n \in RawName |-> IF n \in Name THEN n ELSE CHOOSE m \in Name : TRUE]
ThreadSymmetry == Permutations(Proc)
=============================================================================
