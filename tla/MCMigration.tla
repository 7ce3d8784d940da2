----------------------------- MODULE MCMigration -----------------------------
(* Finite instances of Migration: slots and templates are interchangeable.   *)
EXTENDS Migration, TLC

Interchangeable == Permutations(Requests) \cup Permutations(Templates)
=============================================================================
