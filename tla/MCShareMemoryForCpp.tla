------------------------- MODULE MCShareMemoryForCpp -------------------------
(* Small instances of ShareMemoryForCpp.                                    *)
EXTENDS ShareMemoryForCpp, TLC

Symmetry == Permutations(Procs)
=============================================================================
