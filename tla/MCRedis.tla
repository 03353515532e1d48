------------------------------- MODULE MCRedis -------------------------------
(***************************************************************************)
(* Redis for TLC: readers and ids are interchangeable.                     *)
(***************************************************************************)
EXTENDS Redis, TLC

Interchangeable == Permutations(Readers) \cup Permutations(IDs)
=============================================================================
