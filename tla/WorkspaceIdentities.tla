------------------------- MODULE WorkspaceIdentities -------------------------
(* The identities the cache and the source share. *)

CONSTANTS
  Threads,        \* conversation ids
  Workspaces,     \* available workspaces of one project and source, each with its path
  Contracts,      \* resume expectations: the permission projection of a location
  Null            \* SQL NULL, an absent row, no value
=============================================================================
