------------------------- MODULE MCWorkspaceCreation -------------------------
(* WorkspaceCreation on small sets.                                          *)
EXTENDS WorkspaceCreation
=============================================================================
