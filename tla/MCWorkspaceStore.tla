-------------------------- MODULE MCWorkspaceStore --------------------------
(* The tables alone, for TLC: two threads, workspaces and reservations.       *)
EXTENDS WorkspaceStore, TLC

Symmetry == Permutations(Threads) \cup Permutations(Workspaces) \cup
            Permutations(Reservations) \cup Permutations(Turns) \cup Permutations(Contracts)
=============================================================================
