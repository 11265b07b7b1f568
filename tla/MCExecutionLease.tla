-------------------------- MODULE MCExecutionLease --------------------------
(* Small instances of ExecutionLease for TLC. *)
EXTENDS ExecutionLease, TLC

\* Workspaces of different resources overlap (one nested in the other).
AllOverlap == Resource \X Resource

OwnerSymmetry == Permutations(Owner)
TaskSymmetry == Permutations(Task)
Symmetry == OwnerSymmetry \cup TaskSymmetry
=============================================================================
