-------------------------- MODULE MCMemoryDatabase --------------------------
(* Small instances of MemoryDatabase for TLC.                              *)
EXTENDS MemoryDatabase

Interchangeable == Permutations(Calls) \cup Permutations(Messages)
=============================================================================
