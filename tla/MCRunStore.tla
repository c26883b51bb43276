---------------------------- MODULE MCRunStore ----------------------------
(* Instances of RunStore for TLC. *)
EXTENDS RunStore, TLC

Interchangeable == Permutations(Runs) \cup Permutations(Sessions)
=============================================================================
