-------------------------- MODULE MCRunSupervisor --------------------------
(* Instances of RunSupervisor for TLC. *)
EXTENDS RunSupervisor
CONSTANTS r1, r2, r3, a1, a2

OneOwner == [r \in Runs |-> a1]
TwoOwners == [r \in Runs |-> IF r = r3 THEN a2 ELSE a1]
=============================================================================
