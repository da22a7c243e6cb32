--------------------------- MODULE MCSharedMemory ---------------------------
(* A small instance of SharedMemory.                                       *)
EXTENDS SharedMemory, TLC

Symmetric == Permutations(Caller)
=============================================================================
