-------------------------- MODULE MCArtifactsQuery --------------------------
(* An instance of RunSupervisor composed with artifacts(), for TLC. *)
EXTENDS ArtifactsQuery
CONSTANTS r1, a1

OneOwner == [r \in Runs |-> a1]
=============================================================================
