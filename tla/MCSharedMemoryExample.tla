------------------------ MODULE MCSharedMemoryExample ------------------------
(* Small instances of SharedMemoryExample.                                  *)
EXTENDS SharedMemoryExample, TLC

Symmetry == Permutations(Procs)
=============================================================================
