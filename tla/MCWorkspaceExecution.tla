------------------------ MODULE MCWorkspaceExecution ------------------------
(* Instances of WorkspaceExecution for TLC. *)
EXTENDS WorkspaceExecution, TLC

Symmetry == Permutations(Calls) \cup Permutations(Threads) \cup Permutations(Contracts)
=============================================================================
